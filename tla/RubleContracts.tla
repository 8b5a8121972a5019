---------------------------- MODULE RubleContracts ----------------------------
(***************************************************************************)
(* Digital-ruble wallets and smart contracts: the API handlers             *)
(* transfer_rubles, create_smart_contract and update_contract_condition    *)
(* (src/simulations/api/routers/ruble.py) and the nightly settlement       *)
(* (src/simulations/workers/digital_eod/tasks.py), over one PostgreSQL     *)
(* database.                                                               *)
(*                                                                         *)
(* The settlement is one transaction with a savepoint per contract.  What  *)
(* it writes is seen by others only after its commit; the row locks it     *)
(* takes in a savepoint are kept until that commit, unless the savepoint   *)
(* is rolled back.  Its one ORM session keeps the first copy it loads of a *)
(* wallet, and an UPDATE writes the columns changed in that copy.          *)
(* PostgreSQL breaks a deadlock by failing one waiter.                     *)
(***************************************************************************)
EXTENDS Integers, FiniteSets, Functions

CONSTANTS
    Wallets,      \* wallet ids: integers, compared as ORDER BY wallets.id does
    Contracts,    \* the contract rows that may be created
    Requests,     \* API handlers, each serves one call
    Calls,        \* the calls a client or the oracle may make
    Opening,      \* Opening[w]: the balance wallet w starts with
    Blocked,      \* the wallets whose status is not active; no code changes it
    MaxRuns,      \* bound: nightly runs
    Eod,          \* the settlement worker, as the holder of FOR UPDATE locks
    EodUpdate,    \* and of the weaker lock of an UPDATE
    NoWallet, NoOne, NoCall, NoContract, NoRow

WalletRow == [balance : Int, frozen : Int]
ContractRow ==
    [creator : Wallets, receiver : Wallets, amount : Nat \ {0},
     condition : {"pending", "fulfilled", "failed"},
     status : {"active", "executed", "failed"}]

TransferCall == [op : {"transfer"}, from : Wallets \union {NoWallet},
                 to : Wallets \union {NoWallet}, amount : Nat \ {0}]
CreateCall   == [op : {"create"}, from : Wallets, to : Wallets \union {NoWallet},
                 amount : Nat \ {0}]
ConditionCall == [op : {"condition"}, contract : Contracts, status : {"fulfilled", "failed"}]

ASSUME RubleAssumption ==
    /\ Wallets \subseteq Nat /\ IsFiniteSet(Wallets) /\ Blocked \subseteq Wallets
    /\ IsFiniteSet(Contracts)
    /\ NoWallet \notin Wallets /\ NoContract \notin ContractRow
    /\ NoOne \notin {Eod, EodUpdate} /\ Eod # EodUpdate
    /\ Requests \intersect {NoOne, Eod, EodUpdate} = {}
    /\ Calls \subseteq TransferCall \union CreateCall \union ConditionCall
    /\ NoCall \notin Calls
    /\ NoRow \notin WalletRow
    /\ Opening \in [Wallets -> Nat]
    /\ MaxRuns \in Nat

VARIABLES
    wallet,     \* table wallets: balance and frozen_balance
    contract,   \* table smart_contracts; NoContract before the row is inserted
    paid,       \* table ruble_transactions: what each contract transferred to its receiver
    lock,       \* lock[w]: who holds the row lock of wallet w
    rowlock,    \* rowlock[c]: who holds the row lock of contract c
    pc,         \* pc[r]: the next step of handler r, or how it answered
    call,       \* call[r]: the call it serves
    eod,        \* the worker: its step and its current contract
    todo,       \* the contracts its query returned and it has not processed yet
    savepoint,  \* the wallet locks it took since the current savepoint
    copy,       \* copy[w]: wallet w in its session, NoRow if it has not loaded it
    draft,      \* its flushed, uncommitted wallet rows
    verdict,    \* its uncommitted contract outcomes
    refund,     \* a refund of its error path that is not flushed yet
    overwrote,  \* history: has it written a row from a copy that was out of date?
    runs        \* number of nightly runs so far

tables   == <<wallet, contract, paid>>
workerState == <<eod, todo, savepoint, copy, draft, verdict, refund, overwrote, runs>>
vars == <<wallet, contract, paid, lock, rowlock, pc, call,
          eod, todo, savepoint, copy, draft, verdict, refund, overwrote, runs>>

\* How a handler ends: its transaction committed (the refresh and the receipt that follow
\* write nothing), a 4xx, or an error that rolled it back.
Answers == {"committed", "rejected", "failed"}
NoVerdict == [status |-> "active", paid |-> 0]
NoRefund  == [wallet |-> NoWallet, base |-> NoRow]

Init ==
    /\ wallet = [w \in Wallets |-> [balance |-> Opening[w], frozen |-> 0]]
    /\ contract = [c \in Contracts |-> NoContract]
    /\ paid = [c \in Contracts |-> 0]
    /\ lock = [w \in Wallets |-> NoOne]
    /\ rowlock = [c \in Contracts |-> NoOne]
    /\ pc = [r \in Requests |-> "idle"]
    /\ call = [r \in Requests |-> NoCall]
    /\ eod = [step |-> "idle", contract |-> NoContract]
    /\ todo = {} /\ savepoint = {}
    /\ copy = [w \in Wallets |-> NoRow]
    /\ draft = [w \in Wallets |-> NoRow]
    /\ verdict = [c \in Contracts |-> NoVerdict]
    /\ refund = NoRefund
    /\ overwrote = FALSE /\ runs = 0

Created == {c \in Contracts : contract[c] # NoContract}
Active  == {c \in Created : contract[c].status = "active"}

-----------------------------------------------------------------------------
(* The API handlers. *)

Finish(r, how) ==
    /\ pc' = [pc EXCEPT ![r] = how]
    /\ lock' = [w \in Wallets |-> IF lock[w] = r THEN NoOne ELSE lock[w]]
    /\ rowlock' = [c \in Contracts |-> IF rowlock[c] = r THEN NoOne ELSE rowlock[c]]
    /\ UNCHANGED <<call, workerState>>

\* Mutant: an error path that keeps its row locks.
RollbackKeepsLocks(r, how) ==
    pc' = [pc EXCEPT ![r] = how] /\ UNCHANGED <<tables, lock, rowlock, call, workerState>>

Rollback(r, how) == Finish(r, how) /\ UNCHANGED tables

\* Bound: no more creations are received than there are contract rows.
Creations == {r \in Requests : call[r] # NoCall /\ call[r].op = "create"}

\* A transfer or a contract to oneself is refused before the database is used.
Receive(r) ==
    /\ pc[r] = "idle"
    /\ \E c \in Calls :
        /\ c.op = "create" => Cardinality(Creations) < Cardinality(Contracts)
        /\ call' = [call EXCEPT ![r] = c]
        /\ pc' = [pc EXCEPT ![r] =
             IF c.op # "condition" /\ c.from = c.to THEN "rejected" ELSE "lock"]
    /\ UNCHANGED <<tables, lock, rowlock, workerState>>

\* transfer_rubles locks both wallets in id order; create_smart_contract locks the
\* creator's.
RowsToLock(r) ==
    (IF call[r].op = "transfer" THEN {call[r].from, call[r].to} ELSE {call[r].from})
        \intersect Wallets

Unlocked(r) == {w \in RowsToLock(r) : lock[w] # r}

\* Mutant: the sender's row first, whatever the ids.
NextRowSenderFirst(r) ==
    IF call[r].from \in Unlocked(r) THEN call[r].from ELSE CHOOSE w \in Unlocked(r) : TRUE

NextRow(r) == CHOOSE w \in Unlocked(r) : \A v \in Unlocked(r) : w <= v

LockWallet(r) ==
    /\ pc[r] = "lock" /\ call[r].op # "condition" /\ Unlocked(r) # {}
    /\ lock[NextRow(r)] = NoOne
    /\ lock' = [lock EXCEPT ![NextRow(r)] = r]
    /\ UNCHANGED <<tables, rowlock, pc, call, workerState>>

HoldsWallets(r) == pc[r] = "lock" /\ call[r].op # "condition" /\ Unlocked(r) = {}

TransferAllowed(r) ==
    /\ {call[r].from, call[r].to} \subseteq Wallets \ Blocked
    /\ wallet[call[r].from].balance >= call[r].amount

CommitTransfer(r) ==
    /\ HoldsWallets(r) /\ call[r].op = "transfer" /\ TransferAllowed(r)
    /\ wallet' = [wallet EXCEPT
                    ![call[r].from].balance = @ - call[r].amount,
                    ![call[r].to].balance   = @ + call[r].amount]
    /\ Finish(r, "committed")
    /\ UNCHANGED <<contract, paid>>

CreateAllowed(r) ==
    call[r].from \notin Blocked /\ wallet[call[r].from].balance >= call[r].amount

\* The INSERT checks the foreign key: it waits until nobody holds the receiver's row
\* FOR UPDATE, and fails if there is no such wallet.
ReceiverFree(r) == call[r].to \in Wallets => lock[call[r].to] \in {NoOne, EodUpdate}

CommitCreate(r) ==
    /\ HoldsWallets(r) /\ call[r].op = "create" /\ CreateAllowed(r)
    /\ call[r].to \in Wallets /\ ReceiverFree(r)
    /\ \E c \in Contracts \ Created :
        contract' = [contract EXCEPT ![c] =
            [creator |-> call[r].from, receiver |-> call[r].to, amount |-> call[r].amount,
             condition |-> "pending", status |-> "active"]]
    /\ wallet' = [wallet EXCEPT ![call[r].from] =
                    [balance |-> @.balance - call[r].amount, frozen |-> @.frozen + call[r].amount]]
    /\ Finish(r, "committed")
    /\ UNCHANGED paid

RejectWalletCall(r) ==
    /\ HoldsWallets(r)
    /\ IF call[r].op = "transfer" THEN ~TransferAllowed(r) ELSE ~CreateAllowed(r)
    /\ Rollback(r, "rejected")

FailCreate(r) ==
    /\ HoldsWallets(r) /\ call[r].op = "create" /\ CreateAllowed(r)
    /\ call[r].to \notin Wallets
    /\ Rollback(r, "failed")

LockContract(r) ==
    /\ pc[r] = "lock" /\ call[r].op = "condition"
    /\ rowlock[call[r].contract] = NoOne
    /\ rowlock' = [rowlock EXCEPT ![call[r].contract] = r]
    /\ pc' = [pc EXCEPT ![r] = "decide"]
    /\ UNCHANGED <<tables, lock, call, workerState>>

ConditionOpen(c) == c \in Active /\ contract[c].condition = "pending"

CommitCondition(r) ==
    /\ pc[r] = "decide" /\ ConditionOpen(call[r].contract)
    /\ contract' = [contract EXCEPT ![call[r].contract].condition = call[r].status]
    /\ Finish(r, "committed")
    /\ UNCHANGED <<wallet, paid>>

RejectCondition(r) ==
    /\ pc[r] = "decide" /\ ~ConditionOpen(call[r].contract)
    /\ Rollback(r, "rejected")

\* The handler raises before its commit (no connection, no signature).
Abort(r) == pc[r] \in {"lock", "decide"} /\ Rollback(r, "failed")

-----------------------------------------------------------------------------
(* The nightly settlement. *)

At(step) == eod' = [eod EXCEPT !.step = step]
Current == contract[eod.contract]

\* A wallet row as the worker's transaction sees it, and as its session does once it has
\* selected it.
InTransaction(w) == IF draft[w] # NoRow THEN draft[w] ELSE wallet[w]
Seen(w) == IF copy[w] # NoRow THEN copy[w] ELSE InTransaction(w)

\* The UPDATE of a row whose copy was base and is row now.
Updated(w, base, row) ==
    [balance |-> IF row.balance # base.balance THEN row.balance ELSE InTransaction(w).balance,
     frozen  |-> IF row.frozen # base.frozen THEN row.frozen ELSE InTransaction(w).frozen]

\* The changed rows of the session are written.
Write(rows) ==
    LET changed == {w \in DOMAIN rows : rows[w] # copy[w]} IN
    /\ copy' = [w \in Wallets |-> IF w \in changed THEN rows[w] ELSE copy[w]]
    /\ draft' = [w \in Wallets |->
                   IF w \in changed THEN Updated(w, copy[w], rows[w]) ELSE draft[w]]
    /\ overwrote' = (overwrote \/ \E w \in changed : copy[w] # InTransaction(w))

\* Mutant: the query does not filter on the status.
BeginRunUnfiltered ==
    /\ eod.step = "idle" /\ runs < MaxRuns
    /\ runs' = runs + 1
    /\ todo' = {c \in Created : rowlock[c] = NoOne}
    /\ rowlock' = [c \in Contracts |-> IF c \in todo' THEN Eod ELSE rowlock[c]]
    /\ At("next")
    /\ UNCHANGED <<tables, lock, pc, call, savepoint, copy, draft, verdict, refund, overwrote>>

\* SELECT ... WHERE status = 'active' FOR UPDATE SKIP LOCKED.
BeginRun ==
    /\ eod.step = "idle" /\ runs < MaxRuns
    /\ runs' = runs + 1
    /\ todo' = {c \in Active : rowlock[c] = NoOne}
    /\ rowlock' = [c \in Contracts |-> IF c \in todo' THEN Eod ELSE rowlock[c]]
    /\ At("next")
    /\ UNCHANGED <<tables, lock, pc, call, savepoint, copy, draft, verdict, refund, overwrote>>

\* begin_nested() for the next contract; it flushes first, so no refund is pending.
NextContract ==
    /\ eod.step = "next" /\ refund = NoRefund
    /\ \E c \in todo :
        /\ todo' = todo \ {c}
        /\ eod' = [step |-> "wallets", contract |-> c]
    /\ savepoint' = {}
    /\ UNCHANGED <<tables, lock, rowlock, pc, call, copy, draft, verdict, refund, overwrote, runs>>

\* The participants' rows, smaller id first.
Participants == {Current.creator, Current.receiver}
ToLock == {w \in Participants : lock[w] # Eod}
NextToLock == CHOOSE w \in ToLock : \A v \in ToLock : w <= v

LockParticipant ==
    /\ eod.step = "wallets" /\ ToLock # {}
    /\ lock[NextToLock] \in {NoOne, EodUpdate}
    /\ lock' = [lock EXCEPT ![NextToLock] = Eod]
    /\ savepoint' = savepoint \union {NextToLock}
    /\ copy' = [copy EXCEPT ![NextToLock] = Seen(NextToLock)]
    /\ UNCHANGED <<tables, rowlock, pc, call, eod, todo, draft, verdict, refund, overwrote, runs>>

Locked == eod.step = "wallets" /\ ToLock = {}

Lesser(a, b) == IF a <= b THEN a ELSE b

\* min(frozen, amount) back from the escrow to the creator's balance.
Refunded(row, amount) ==
    LET back == Lesser(row.frozen, amount)
    IN  [balance |-> row.balance + back, frozen |-> row.frozen - back]

Decide(status, sum) ==
    /\ verdict' = [verdict EXCEPT ![eod.contract] = [status |-> status, paid |-> sum]]
    /\ At("next")
    /\ UNCHANGED <<tables, lock, rowlock, pc, call, todo, savepoint, refund, runs>>

RefundCreator ==
    LET w == Current.creator IN Write([v \in {w} |-> Refunded(copy[w], Current.amount)])

WriteNothing == UNCHANGED <<copy, draft, overwrote>>

\* Mutant: an escrow that is not given back.
FailWithoutRefund == Locked /\ WriteNothing /\ Decide("failed", 0)

\* The contract's code failed, or asked for more than its escrow.
FailContract == Locked /\ RefundCreator /\ Decide("failed", 0)

\* The code completed with transfers of sum to the receiver: the escrow is released,
\* what was not spent goes back to the creator.
Settled(w, sum) ==
    LET amount == Current.amount  row == copy[w] IN
    IF w = Current.creator
      THEN [balance |-> row.balance + (amount - sum),
            frozen  |-> row.frozen - Lesser(row.frozen, amount)]
      ELSE [row EXCEPT !.balance = @ + sum]

ExecuteContract ==
    /\ Locked
    /\ \E sum \in 0..Current.amount :
        /\ Write([w \in Participants |-> Settled(w, sum)])
        /\ Decide("executed", sum)

\* The code did not complete: the contract stays active.
LeavePending == Locked /\ WriteNothing /\ Decide("active", 0)

\* An exception: the savepoint is rolled back with the row locks taken since, and the
\* refund is computed on the creator's row as the session has it, or as it now reads it,
\* without a lock.
ErrorPath ==
    LET w == Current.creator IN
    /\ lock' = [v \in Wallets |->
                  IF v \notin savepoint THEN lock[v]
                  ELSE IF draft[v] # NoRow THEN EodUpdate ELSE NoOne]
    /\ refund' = [wallet |-> w, base |-> Seen(w)]
    /\ copy' = [copy EXCEPT ![w] = Refunded(Seen(w), Current.amount)]
    /\ verdict' = [verdict EXCEPT ![eod.contract] = [status |-> "failed", paid |-> 0]]
    /\ savepoint' = {}
    /\ At("next")
    /\ UNCHANGED <<tables, rowlock, pc, call, todo, draft, overwrote, runs>>

\* The handler of a contract raises (signing, database), its rows locked.
RaiseInContract == Locked /\ ErrorPath

\* The flush of the refund: an UPDATE of what it changed, which waits for the row.
FlushRefund ==
    LET w == refund.wallet IN
    /\ eod.step = "next" /\ refund # NoRefund
    /\ IF copy[w] = refund.base
         THEN UNCHANGED <<lock, draft, overwrote>>
         ELSE /\ lock[w] \in {NoOne, Eod, EodUpdate}
              /\ lock' = [lock EXCEPT ![w] = IF @ = NoOne THEN EodUpdate ELSE @]
              /\ draft' = [draft EXCEPT ![w] = Updated(w, refund.base, copy[w])]
              /\ overwrote' = (overwrote \/ refund.base # InTransaction(w))
    /\ refund' = NoRefund
    /\ UNCHANGED <<tables, rowlock, pc, call, eod, todo, savepoint, copy, verdict, runs>>

\* The end of the transaction, committed or not.
EndRun ==
    /\ lock' = [w \in Wallets |-> IF lock[w] \in {Eod, EodUpdate} THEN NoOne ELSE lock[w]]
    /\ rowlock' = [c \in Contracts |-> IF rowlock[c] = Eod THEN NoOne ELSE rowlock[c]]
    /\ eod' = [step |-> "idle", contract |-> NoContract]
    /\ todo' = {} /\ savepoint' = {} /\ refund' = NoRefund
    /\ copy' = [w \in Wallets |-> NoRow]
    /\ draft' = [w \in Wallets |-> NoRow]
    /\ verdict' = [c \in Contracts |-> NoVerdict]
    /\ UNCHANGED <<pc, call, overwrote, runs>>

CommitRun ==
    /\ eod.step = "next" /\ todo = {} /\ refund = NoRefund
    /\ wallet' = [w \in Wallets |-> InTransaction(w)]
    /\ contract' = [c \in Contracts |->
          IF verdict[c].status = "active" THEN contract[c]
          ELSE [contract[c] EXCEPT !.status = verdict[c].status]]
    /\ paid' = [c \in Contracts |-> paid[c] + verdict[c].paid]
    /\ EndRun

\* The worker dies before its commit.
CrashRun == eod.step # "idle" /\ EndRun /\ UNCHANGED tables

-----------------------------------------------------------------------------
(* Deadlocks. *)

\* A creation with its wallet locked waits only for the receiver's key.
Creating(r) == HoldsWallets(r) /\ call[r].op = "create"

\* The wallet row that p waits for.
Wanted(p) ==
    IF p = Eod
      THEN IF eod.step = "wallets" /\ ToLock # {} THEN NextToLock
           ELSE IF eod.step = "next" /\ refund # NoRefund /\ copy[refund.wallet] # refund.base
             THEN refund.wallet ELSE NoWallet
      ELSE IF pc[p] # "lock" \/ call[p].op = "condition" THEN NoWallet
           ELSE IF Unlocked(p) # {} THEN NextRow(p)
           ELSE IF Creating(p) THEN call[p].to ELSE NoWallet

Processes == Requests \union {Eod}
Holder(w) == IF lock[w] = EodUpdate THEN Eod ELSE lock[w]
WaitsFor(p, q) ==
    /\ p # q /\ Wanted(p) \in Wallets /\ Holder(Wanted(p)) = q
    /\ ~(p \in Requests /\ Creating(p) /\ ReceiverFree(p))

\* p is on a cycle of waiters.
Deadlocked(p) ==
    /\ \E q \in Processes : WaitsFor(p, q)
    /\ \E S \in SUBSET Processes :
        /\ p \in S
        /\ \A q \in S : (\E s \in S : WaitsFor(q, s)) /\ (\E s \in S : WaitsFor(s, q))

\* PostgreSQL fails one statement of the cycle: an API handler answers 500; the worker
\* takes its error path if the statement locks a wallet, and its transaction is lost if
\* it is the flush.
BreakDeadlock(r) == Deadlocked(r) /\ Rollback(r, "failed")
BreakDeadlockOfRun ==
    /\ Deadlocked(Eod)
    /\ IF eod.step = "wallets" THEN ErrorPath ELSE EndRun /\ UNCHANGED tables

-----------------------------------------------------------------------------
Step(r) ==
    \/ LockWallet(r) \/ CommitTransfer(r) \/ CommitCreate(r)
    \/ RejectWalletCall(r) \/ FailCreate(r)
    \/ LockContract(r) \/ CommitCondition(r) \/ RejectCondition(r)

WorkerStep ==
    \/ NextContract \/ LockParticipant \/ FailContract \/ ExecuteContract \/ LeavePending
    \/ RaiseInContract \/ FlushRefund \/ CommitRun

DeadlockBroken == BreakDeadlockOfRun \/ \E r \in Requests : BreakDeadlock(r)

Done == (\A r \in Requests : pc[r] \in Answers) /\ eod.step = "idle" /\ UNCHANGED vars

Next ==
    \/ \E r \in Requests : Receive(r) \/ Step(r) \/ Abort(r)
    \/ BeginRun \/ WorkerStep \/ CrashRun
    \/ DeadlockBroken
    \/ Done

Spec == Init /\ [][Next]_vars

\* Handlers and the worker run when they can, PostgreSQL's deadlock detector acts; no
\* fairness of arrivals, of the schedule or of crashes.
FairSpec ==
    /\ Spec
    /\ \A r \in Requests : WF_vars(Step(r))
    /\ WF_vars(WorkerStep) /\ WF_vars(DeadlockBroken)

-----------------------------------------------------------------------------
(* Properties. *)

TypeOK ==
    /\ wallet \in [Wallets -> WalletRow]
    /\ contract \in [Contracts -> ContractRow \union {NoContract}]
    /\ paid \in [Contracts -> Int]
    /\ lock \in [Wallets -> Processes \union {NoOne, EodUpdate}]
    /\ rowlock \in [Contracts -> Processes \union {NoOne}]
    /\ pc \in [Requests -> {"idle", "lock", "decide"} \union Answers]
    /\ call \in [Requests -> Calls \union {NoCall}]
    /\ eod \in [step : {"idle", "next", "wallets"}, contract : Contracts \union {NoContract}]
    /\ todo \subseteq Contracts /\ savepoint \subseteq Wallets
    /\ copy \in [Wallets -> WalletRow \union {NoRow}]
    /\ draft \in [Wallets -> WalletRow \union {NoRow}]
    /\ verdict \in [Contracts -> [status : {"active", "executed", "failed"}, paid : Int]]
    /\ refund \in [wallet : Wallets, base : WalletRow] \union {NoRefund}
    /\ overwrote \in BOOLEAN /\ runs \in 0..MaxRuns

\* No interleaving of transfers, creations and settlements, with every error path of the
\* worker, makes a balance or an escrow negative.
NonNegative == \A w \in Wallets : wallet[w].balance >= 0 /\ wallet[w].frozen >= 0

\* A settled contract is never settled again, and the oracle's decision is final; what a
\* contract paid never exceeds its escrow.
SettledOnce ==
    [][\A c \in Created :
         /\ contract[c].status # "active" => contract'[c] = contract[c] /\ paid'[c] = paid[c]
         /\ contract[c].condition # "pending" => contract'[c].condition = contract[c].condition
         /\ paid'[c] <= contract[c].amount]_vars

\* The escrow that the contracts S put on wallet w, and the money on all wallets.
Escrow(S, w) ==
    SumFunctionOnSet([c \in S |-> contract[c].amount], {c \in S : contract[c].creator = w})
Money(rows) == SumFunctionOnSet([w \in Wallets |-> rows[w].balance + rows[w].frozen], Wallets)

\* A creator's frozen balance is exactly the escrow of its active contracts.
EscrowBacked == \A w \in Wallets : wallet[w].frozen = Escrow(Active, w)

\* Transfers, creations and settlements move digital rubles, they do not make or lose any.
MoneyConserved == Money(wallet) = SumFunctionOnSet(Opening, Wallets)

\* The copies the worker's session keeps of rows it has no lock on, for the refunds of its
\* error path and from savepoints rolled back, are the only way to lose or make money:
\* while none of them has overwritten a newer row, every escrow is exact.
MoneyLostOnlyByStaleRow == ~overwrote => EscrowBacked /\ MoneyConserved

\* Transfers lock in id order: a deadlock always involves the settlement or the creation
\* of a contract.
TransfersNeverDeadlock ==
    \A S \in (SUBSET {r \in Requests : call[r] # NoCall /\ call[r].op = "transfer"}) \ {{}} :
        \E r \in S : \A s \in S : ~WaitsFor(r, s)

\* Every call is answered and every run of the worker ends, deadlocks included: again
\* and again nobody is busy.
EverythingEnds == []<>(eod.step = "idle" /\ \A r \in Requests : pc[r] \in {"idle"} \union Answers)

=============================================================================
