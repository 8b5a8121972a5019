----------------------------- MODULE RubleProofs -----------------------------
(***************************************************************************)
(* Theorems about RubleContracts, for every set of wallets, contracts,     *)
(* calls and handlers.  The inductive invariant says which rows a handler  *)
(* or the run has locked, and that the run holds the contracts it has      *)
(* decided, which are active, until its transaction ends.  The last part   *)
(* is about the sum of all balances, frozen funds and payments on the way. *)
(***************************************************************************)
EXTENDS RubleContracts, OrderAndSums, FiniteSetTheorems, TLAPS

-----------------------------------------------------------------------------
(* The inductive invariant. *)

Covered(row) == row.balance >= 0 /\ row.frozen >= 0

\* What the worker's session keeps and has written is not negative either, so that no
\* write of an out-of-date copy makes a wallet negative.
RowsCovered ==
    /\ NonNegative
    /\ \A w \in Wallets : /\ copy[w] # NoRow => Covered(copy[w])
                          /\ draft[w] # NoRow => Covered(draft[w])
    /\ refund # NoRefund => Covered(refund.base)

\* A wallet is locked only by a handler that needs it, and before the wallets it still
\* needs.
LocksFit ==
    \A r \in Requests :
        /\ \A w \in Wallets : lock[w] = r =>
             pc[r] = "lock" /\ call[r].op # "condition" /\ w \in RowsToLock(r)
        /\ \A v, w \in Wallets : lock[v] = r /\ w \in Unlocked(r) => v < w
        /\ pc[r] \in {"lock", "decide"} => call[r] \in Calls
        /\ pc[r] = "decide" =>
             call[r] \in ConditionCall /\ rowlock[call[r].contract] = r

\* The worker has a copy of every wallet it has locked, and a refund is pending only
\* between two contracts.
RunFits ==
    /\ eod.step = "idle" => todo = {} /\ refund = NoRefund /\ \A c \in Contracts : rowlock[c] # Eod
    /\ eod.step = "wallets" =>
         /\ eod.contract \in Contracts /\ rowlock[eod.contract] = Eod /\ refund = NoRefund
         /\ \A w \in savepoint : lock[w] = Eod
    /\ \A c \in todo : rowlock[c] = Eod
    /\ \A w \in Wallets : lock[w] = Eod => copy[w] # NoRow
    /\ refund # NoRefund => copy[refund.wallet] # NoRow

\* A contract the run has locked is active, and only such a contract has an outcome.
VerdictsFit ==
    \A c \in Contracts :
        /\ rowlock[c] = Eod => c \in Active
        /\ verdict[c] # NoVerdict => rowlock[c] = Eod
        /\ verdict[c].paid \in Nat
        /\ verdict[c].status = "active" => verdict[c].paid = 0
        /\ verdict[c] # NoVerdict => verdict[c].paid <= contract[c].amount

\* A contract that is not settled has paid nothing, a settled one no more than its escrow.
PaidFits ==
    \A c \in Contracts :
        /\ c \notin Created \/ c \in Active => paid[c] = 0
        /\ c \in Created => paid[c] <= contract[c].amount

IInv == TypeOK /\ RowsCovered /\ LocksFit /\ RunFits /\ VerdictsFit /\ PaidFits

-----------------------------------------------------------------------------
(* Calls and rows. *)

\* The operation of a call tells what fields it has.
LEMMA CallShape ==
    ASSUME NEW c \in Calls
    PROVE  /\ c.op = "transfer" <=> c \in TransferCall
           /\ c.op = "create" <=> c \in CreateCall
           /\ c.op = "condition" <=> c \in ConditionCall
BY RubleAssumption DEF TransferCall, CreateCall, ConditionCall

\* The next wallet a handler locks is the least of those it needs.
LEMMA NextRowIsLeast ==
    ASSUME NEW r \in Requests, Unlocked(r) # {}
    PROVE  NextRow(r) \in Unlocked(r) /\ \A w \in Unlocked(r) : NextRow(r) <= w
<1>1. Unlocked(r) \in SUBSET Nat
  BY RubleAssumption DEF Unlocked, RowsToLock
<1>2. \E v \in Unlocked(r) : \A w \in Unlocked(r) : v <= w
  BY <1>1, LeastNatural
<1> QED
  BY <1>2 DEF NextRow

\* The contract the worker is at is an active one.
LEMMA CurrentIsActive ==
    ASSUME IInv, eod.step = "wallets"
    PROVE  /\ eod.contract \in Active /\ Current \in ContractRow
           /\ Participants \subseteq Wallets
<1>1. eod.contract \in Active /\ Current \in ContractRow
  BY DEF IInv, RunFits, VerdictsFit, TypeOK, Active, Created, Current
<1> QED
  BY <1>1 DEF Participants, ContractRow

\* The next wallet the worker locks is one of its contract.
LEMMA NextToLockIsWallet ==
    ASSUME IInv, eod.step = "wallets", ToLock # {}
    PROVE  NextToLock \in Wallets
<1>1. ToLock \in SUBSET Nat /\ ToLock \subseteq Wallets
  BY CurrentIsActive, RubleAssumption DEF ToLock
<1>2. \E v \in ToLock : \A w \in ToLock : v <= w
  BY <1>1, LeastNatural
<1> QED
  BY <1>1, <1>2 DEF NextToLock

\* Rows as the worker sees them are rows, and not negative.
LEMMA SeenIsCovered ==
    ASSUME IInv, NEW w \in Wallets
    PROVE  /\ InTransaction(w) \in WalletRow /\ Covered(InTransaction(w))
           /\ Seen(w) \in WalletRow /\ Covered(Seen(w)) /\ Seen(w) # NoRow
BY RubleAssumption
   DEF IInv, TypeOK, RowsCovered, NonNegative, Covered, InTransaction, Seen

\* The escrow goes back to the balance, and neither becomes negative.
LEMMA RefundedIsCovered ==
    ASSUME NEW row \in WalletRow, Covered(row), NEW amount \in Nat
    PROVE  Refunded(row, amount) \in WalletRow /\ Covered(Refunded(row, amount))
BY DEF WalletRow, Covered, Refunded, Lesser

\* An UPDATE writes a column of the copy or leaves one of the row.
LEMMA UpdatedIsCovered ==
    ASSUME IInv, NEW w \in Wallets, NEW base, NEW row \in WalletRow, Covered(row)
    PROVE  Updated(w, base, row) \in WalletRow /\ Covered(Updated(w, base, row))
BY SeenIsCovered DEF Updated, WalletRow, Covered

-----------------------------------------------------------------------------
(* The handlers. *)

\* A handler ends: its locks are gone, those of the others and of the run are not touched.
LEMMA FinishKeeps ==
    ASSUME IInv, NEW r \in Requests, NEW how \in Answers, Finish(r, how),
           wallet' \in [Wallets -> WalletRow], NonNegative',
           contract' \in [Contracts -> ContractRow \union {NoContract}],
           \A c \in Contracts : rowlock[c] = Eod => contract'[c] = contract[c],
           paid' = paid, PaidFits'
    PROVE  IInv'
<1> USE DEF IInv, TypeOK, Finish, workerState
<1>1. r \notin {NoOne, Eod, EodUpdate} /\ NoOne \notin {Eod, EodUpdate}
  BY RubleAssumption
<1>2. how \notin {"idle", "lock", "decide"}
  BY DEF Answers
<1>3. TypeOK'
  BY DEF Processes
<1>4. RowsCovered'
  BY DEF RowsCovered
<1>5. \A q \in Requests \ {r} : RowsToLock(q)' = RowsToLock(q)
  BY DEF RowsToLock
<1>6. /\ \A q \in Requests \ {r}, w \in Wallets : lock'[w] = q <=> lock[w] = q
      /\ \A q \in Requests \ {r}, c \in Contracts : rowlock'[c] = q <=> rowlock[c] = q
      /\ \A w \in Wallets : lock'[w] # r
  BY <1>1, RubleAssumption
<1>7. LocksFit'
  <2> SUFFICES ASSUME NEW q \in Requests
               PROVE  /\ \A w \in Wallets : lock'[w] = q =>
                           pc'[q] = "lock" /\ call'[q].op # "condition" /\ w \in RowsToLock(q)'
                      /\ \A v, w \in Wallets : lock'[v] = q /\ w \in Unlocked(q)' => v < w
                      /\ pc'[q] \in {"lock", "decide"} => call'[q] \in Calls
                      /\ pc'[q] = "decide" =>
                           call'[q] \in ConditionCall /\ rowlock'[call'[q].contract] = q
    BY DEF LocksFit
  <2>1. CASE q = r
    BY <2>1, <1>2, <1>6
  <2>2. CASE q # r
    <3>1. pc'[q] = pc[q] /\ call'[q] = call[q]
      BY <2>2
    <3>2. Unlocked(q)' = Unlocked(q)
      BY <2>2, <1>5, <1>6 DEF Unlocked, RowsToLock
    <3>3. \A c \in ConditionCall : c.contract \in Contracts
      BY DEF ConditionCall
    <3> QED
      BY <2>2, <1>5, <1>6, <3>1, <3>2, <3>3 DEF LocksFit
  <2> QED
    BY <2>1, <2>2
<1>8. /\ \A w \in Wallets : lock'[w] = Eod <=> lock[w] = Eod
      /\ \A c \in Contracts : rowlock'[c] = Eod <=> rowlock[c] = Eod
  BY <1>1
<1>9. RunFits'
  BY <1>8 DEF RunFits
<1>10. VerdictsFit'
  BY <1>8 DEF VerdictsFit, Active, Created
<1> QED
  BY <1>3, <1>4, <1>7, <1>9, <1>10

\* A rollback keeps the invariant.
LEMMA RollbackKeeps ==
    ASSUME IInv, NEW r \in Requests, NEW how \in Answers, Rollback(r, how)
    PROVE  IInv'
<1>1. Finish(r, how) /\ UNCHANGED tables
  BY DEF Rollback
<1>2. PaidFits' /\ NonNegative'
  BY <1>1 DEF IInv, PaidFits, Active, Created, RowsCovered, NonNegative, tables
<1> QED
  BY <1>1, <1>2, FinishKeeps DEF IInv, TypeOK, tables

\* A transfer moves what the sender's locked row has.
LEMMA CommitTransferKeeps ==
    ASSUME IInv, NEW r \in Requests, CommitTransfer(r)
    PROVE  IInv'
<1> DEFINE from == call[r].from
           to == call[r].to
           amount == call[r].amount
<1>1. call[r] \in Calls /\ call[r].op = "transfer"
  BY DEF IInv, LocksFit, CommitTransfer, HoldsWallets
<1>2. amount \in Nat /\ from \in Wallets /\ to \in Wallets
  BY <1>1, CallShape DEF CommitTransfer, TransferAllowed, TransferCall
<1>3. /\ wallet[from].balance >= amount
      /\ wallet' = [wallet EXCEPT ![from].balance = @ - amount, ![to].balance = @ + amount]
      /\ Finish(r, "committed") /\ UNCHANGED <<contract, paid>>
  BY DEF CommitTransfer, TransferAllowed
<1> HIDE DEF from, to, amount
<1>4. wallet \in [Wallets -> WalletRow]
      /\ \A w \in Wallets : wallet[w].balance >= 0 /\ wallet[w].frozen >= 0
  BY DEF IInv, TypeOK, RowsCovered, NonNegative
<1>5. \A w \in Wallets : wallet'[w] \in WalletRow /\ Covered(wallet'[w])
  <2> SUFFICES ASSUME NEW w \in Wallets
               PROVE  wallet'[w] \in WalletRow /\ Covered(wallet'[w])
    OBVIOUS
  <2>1. CASE w = to
    BY <1>2, <1>3, <1>4, <2>1 DEF WalletRow, Covered
  <2>2. CASE w # to /\ w = from
    BY <1>2, <1>3, <1>4, <2>2 DEF WalletRow, Covered
  <2>3. CASE w # to /\ w # from
    BY <1>3, <1>4, <2>3 DEF Covered
  <2> QED
    BY <2>1, <2>2, <2>3
<1>6. wallet' \in [Wallets -> WalletRow] /\ NonNegative'
  BY <1>3, <1>5 DEF IInv, TypeOK, NonNegative, Covered
<1>7. PaidFits'
  BY <1>3 DEF IInv, PaidFits, Active, Created
<1> QED
  BY <1>3, <1>6, <1>7, FinishKeeps DEF IInv, TypeOK, Answers

\* A creation moves money into the escrow, and its contract was not there before.
LEMMA CommitCreateKeeps ==
    ASSUME IInv, NEW r \in Requests, CommitCreate(r)
    PROVE  IInv'
<1> DEFINE from == call[r].from
           to == call[r].to
           amount == call[r].amount
           row == [creator |-> from, receiver |-> to, amount |-> amount,
                   condition |-> "pending", status |-> "active"]
<1>1. call[r] \in Calls /\ call[r].op = "create"
  BY DEF IInv, LocksFit, CommitCreate, HoldsWallets
<1>2. amount \in Nat \ {0} /\ from \in Wallets /\ to \in Wallets
  BY <1>1, CallShape DEF CommitCreate, CreateCall
<1>3. /\ wallet[from].balance >= amount
      /\ wallet' = [wallet EXCEPT ![from] =
                      [balance |-> @.balance - amount, frozen |-> @.frozen + amount]]
      /\ Finish(r, "committed") /\ UNCHANGED paid
  BY DEF CommitCreate, CreateAllowed
<1>4. PICK c \in Contracts \ Created : contract' = [contract EXCEPT ![c] = row]
  BY DEF CommitCreate
<1>5. row \in ContractRow /\ row # NoContract
  BY <1>2, RubleAssumption DEF ContractRow
<1>6. row.status = "active" /\ row.amount = amount
  OBVIOUS
<1> HIDE DEF from, to, amount, row
<1>7. \A w \in Wallets : wallet'[w] \in WalletRow /\ Covered(wallet'[w])
  BY <1>2, <1>3 DEF IInv, TypeOK, RowsCovered, NonNegative, WalletRow, Covered
<1>8. wallet' \in [Wallets -> WalletRow] /\ NonNegative'
  BY <1>3, <1>7 DEF IInv, TypeOK, NonNegative, Covered
<1>9. contract' \in [Contracts -> ContractRow \union {NoContract}]
  BY <1>4, <1>5 DEF IInv, TypeOK
<1>10. \A d \in Contracts : rowlock[d] = Eod => contract'[d] = contract[d]
  BY <1>4 DEF IInv, TypeOK, VerdictsFit, Active
<1>11. PaidFits'
  BY <1>2, <1>3, <1>4, <1>5, <1>6 DEF IInv, TypeOK, PaidFits, Active, Created
<1> QED
  BY <1>3, <1>8, <1>9, <1>10, <1>11, FinishKeeps DEF Answers

\* The oracle decides a contract whose row it holds, and only its condition.
LEMMA CommitConditionKeeps ==
    ASSUME IInv, NEW r \in Requests, CommitCondition(r)
    PROVE  IInv'
<1> DEFINE c == call[r].contract
           status == call[r].status
<1>1. /\ call[r] \in ConditionCall /\ rowlock[c] = r
      /\ c \in Active
      /\ contract' = [contract EXCEPT ![c].condition = status]
      /\ Finish(r, "committed") /\ UNCHANGED <<wallet, paid>>
  BY DEF IInv, LocksFit, CommitCondition, ConditionOpen
<1>2. c \in Contracts /\ status \in {"fulfilled", "failed"}
  BY <1>1 DEF ConditionCall
<1>3. contract[c] \in ContractRow
  BY <1>1, <1>2 DEF IInv, TypeOK, Active, Created
<1> HIDE DEF c, status
<1>4. /\ contract'[c] \in ContractRow
      /\ contract'[c].status = contract[c].status /\ contract'[c].amount = contract[c].amount
      /\ \A d \in Contracts \ {c} : contract'[d] = contract[d]
  BY <1>1, <1>2, <1>3 DEF IInv, TypeOK, ContractRow
<1>5. contract' \in [Contracts -> ContractRow \union {NoContract}]
  BY <1>1, <1>4 DEF IInv, TypeOK
<1>6. r # Eod
  BY RubleAssumption
<1>7. PaidFits'
  BY <1>1, <1>4, RubleAssumption DEF IInv, PaidFits, Active, Created
<1>8. NonNegative' /\ wallet' \in [Wallets -> WalletRow]
  BY <1>1 DEF IInv, TypeOK, RowsCovered, NonNegative
<1> QED
  BY <1>1, <1>4, <1>5, <1>6, <1>7, <1>8, FinishKeeps DEF Answers

\* A new call has no lock.
LEMMA ReceiveKeeps ==
    ASSUME IInv, NEW r \in Requests, Receive(r)
    PROVE  IInv'
<1> USE DEF IInv, TypeOK, tables, workerState
<1>1. PICK c \in Calls :
        /\ call' = [call EXCEPT ![r] = c]
        /\ \/ pc' = [pc EXCEPT ![r] = "rejected"]
           \/ pc' = [pc EXCEPT ![r] = "lock"]
  BY DEF Receive
<1>2. pc[r] = "idle" /\ UNCHANGED <<tables, lock, rowlock, workerState>>
  BY DEF Receive
<1>3. TypeOK'
  BY <1>1, <1>2 DEF Answers
<1>4. \A w \in Wallets : lock[w] # r
  BY <1>2 DEF LocksFit
<1>5. LocksFit'
  <2>1. \A q \in Requests \ {r} : RowsToLock(q)' = RowsToLock(q) /\ Unlocked(q)' = Unlocked(q)
    BY <1>1, <1>2 DEF RowsToLock, Unlocked
  <2>2. pc'[r] \in {"lock", "rejected"} /\ call'[r] = c
    BY <1>1
  <2> QED
    BY <1>1, <1>2, <1>4, <2>1, <2>2 DEF LocksFit
<1>6. RowsCovered' /\ RunFits' /\ VerdictsFit' /\ PaidFits'
  BY <1>2 DEF RowsCovered, NonNegative, RunFits, VerdictsFit, PaidFits, Active, Created
<1> QED
  BY <1>3, <1>5, <1>6

\* A handler locks the next wallet.
LEMMA LockWalletKeeps ==
    ASSUME IInv, NEW r \in Requests, LockWallet(r)
    PROVE  IInv'
<1> USE DEF IInv, TypeOK, tables, workerState
<1> DEFINE w == NextRow(r)
<1>1. /\ pc[r] = "lock" /\ call[r].op # "condition" /\ Unlocked(r) # {} /\ lock[w] = NoOne
      /\ lock' = [lock EXCEPT ![w] = r]
      /\ UNCHANGED <<tables, rowlock, pc, call, workerState>>
  BY DEF LockWallet
<1>2. w \in Unlocked(r) /\ \A v \in Unlocked(r) : w <= v
  BY <1>1, NextRowIsLeast
<1> HIDE DEF w
<1>3. w \in Wallets /\ w \in RowsToLock(r) /\ r \notin {NoOne, Eod, EodUpdate}
  BY <1>2, RubleAssumption DEF Unlocked, RowsToLock
<1>4. TypeOK'
  BY <1>1, <1>3 DEF Processes
<1>5. LocksFit'
  <2>1. \A q \in Requests : RowsToLock(q)' = RowsToLock(q) /\ RowsToLock(q) \subseteq Wallets
    BY <1>1 DEF RowsToLock
  <2>2. /\ \A q \in Requests \ {r} : Unlocked(q)' = Unlocked(q)
        /\ Unlocked(r)' = Unlocked(r) \ {w}
    BY <1>1, <1>3, <2>1, RubleAssumption DEF Unlocked
  <2>3. \A v \in Wallets : w <= v /\ v # w => w < v
    <3>1. Wallets \subseteq Nat
      BY RubleAssumption
    <3> QED
      BY <1>3, <3>1
  <2>4. \A v, u \in Wallets : lock'[v] = r /\ u \in Unlocked(r)' => v < u
    BY <1>1, <1>2, <1>3, <2>2, <2>3 DEF LocksFit
  <2> QED
    BY <1>1, <1>3, <2>1, <2>2, <2>4, RubleAssumption DEF LocksFit
<1>6. RunFits'
  BY <1>1, <1>3, RubleAssumption DEF RunFits
<1>7. RowsCovered' /\ VerdictsFit' /\ PaidFits'
  BY <1>1 DEF RowsCovered, NonNegative, VerdictsFit, PaidFits, Active, Created
<1> QED
  BY <1>4, <1>5, <1>6, <1>7

\* The oracle's call locks its contract.
LEMMA LockContractKeeps ==
    ASSUME IInv, NEW r \in Requests, LockContract(r)
    PROVE  IInv'
<1> USE DEF IInv, TypeOK, tables, workerState
<1> DEFINE c == call[r].contract
<1>1. /\ pc[r] = "lock" /\ call[r].op = "condition" /\ rowlock[c] = NoOne
      /\ rowlock' = [rowlock EXCEPT ![c] = r] /\ pc' = [pc EXCEPT ![r] = "decide"]
      /\ UNCHANGED <<tables, lock, call, workerState>>
  BY DEF LockContract
<1>2. call[r] \in ConditionCall /\ c \in Contracts
  BY <1>1, CallShape DEF LocksFit, ConditionCall
<1> HIDE DEF c
<1>3. r \notin {NoOne, Eod, EodUpdate} /\ NoOne \notin Requests /\ NoOne # Eod
  BY RubleAssumption
<1>4. TypeOK'
  BY <1>1, <1>2 DEF Processes
<1>5. \A q \in Requests : RowsToLock(q)' = RowsToLock(q) /\ Unlocked(q)' = Unlocked(q)
  BY <1>1 DEF RowsToLock, Unlocked
<1>6. \A w \in Wallets : lock[w] # r
  BY <1>1 DEF LocksFit
<1>7. LocksFit'
  <2> SUFFICES ASSUME NEW q \in Requests
               PROVE  /\ \A w \in Wallets : lock'[w] = q =>
                           pc'[q] = "lock" /\ call'[q].op # "condition" /\ w \in RowsToLock(q)'
                      /\ \A v, w \in Wallets : lock'[v] = q /\ w \in Unlocked(q)' => v < w
                      /\ pc'[q] \in {"lock", "decide"} => call'[q] \in Calls
                      /\ pc'[q] = "decide" =>
                           call'[q] \in ConditionCall /\ rowlock'[call'[q].contract] = q
    BY DEF LocksFit
  <2>1. CASE q = r
    BY <2>1, <1>1, <1>2, <1>6 DEF LocksFit, c
  <2>2. CASE q # r
    <3>1. \A d \in ConditionCall : d.contract \in Contracts
      BY DEF ConditionCall
    <3> QED
      BY <2>2, <1>1, <1>2, <1>3, <1>5, <3>1 DEF LocksFit
  <2> QED
    BY <2>1, <2>2
<1>8. \A d \in Contracts : rowlock'[d] = Eod <=> rowlock[d] = Eod
  BY <1>1, <1>2, <1>3
<1>9. RunFits' /\ VerdictsFit'
  BY <1>1, <1>8 DEF RunFits, VerdictsFit, Active, Created
<1>10. RowsCovered' /\ PaidFits'
  BY <1>1 DEF RowsCovered, NonNegative, PaidFits, Active, Created
<1> QED
  BY <1>4, <1>7, <1>9, <1>10

-----------------------------------------------------------------------------
(* The nightly run. *)

\* The run locks rows nobody else has locked, and hands none to a handler.
LEMMA RunLeavesHandlers ==
    ASSUME IInv, UNCHANGED <<pc, call>>,
           \A r \in Requests, w \in Wallets : lock'[w] = r <=> lock[w] = r,
           \A r \in Requests, c \in Contracts : rowlock'[c] = r <=> rowlock[c] = r
    PROVE  LocksFit'
<1>1. \A r \in Requests : RowsToLock(r)' = RowsToLock(r) /\ RowsToLock(r) \subseteq Wallets
  BY DEF RowsToLock
<1>2. \A r \in Requests : Unlocked(r)' = Unlocked(r)
  BY <1>1 DEF Unlocked
<1>3. \A c \in ConditionCall : c.contract \in Contracts
  BY DEF ConditionCall
<1> QED
  BY <1>1, <1>2, <1>3 DEF IInv, LocksFit

\* The query takes active contracts that nobody has locked.
LEMMA BeginRunKeeps ==
    ASSUME IInv, BeginRun
    PROVE  IInv'
<1> USE DEF IInv, TypeOK, BeginRun, At, tables
<1>1. Active \subseteq Contracts
  BY DEF Active, Created
<1>2. runs + 1 \in 0..MaxRuns
  BY RubleAssumption
<1>3. TypeOK'
  BY <1>1, <1>2 DEF Processes
<1>4. LocksFit'
  <2>1. \A r \in Requests, c \in Contracts : rowlock'[c] = r <=> rowlock[c] = r
    BY RubleAssumption
  <2> QED
    BY <2>1, RunLeavesHandlers
<1>5. RowsCovered' /\ PaidFits'
  BY DEF RowsCovered, NonNegative, PaidFits, Active, Created
<1>6. RunFits'
  BY <1>1 DEF RunFits
<1>7. VerdictsFit'
  BY DEF RunFits, VerdictsFit, Active, Created
<1> QED
  BY <1>3, <1>4, <1>5, <1>6, <1>7

\* The next contract is one the run has locked.
LEMMA NextContractKeeps ==
    ASSUME IInv, NextContract
    PROVE  IInv'
<1> USE DEF IInv, TypeOK, NextContract, tables
<1>1. PICK c \in todo : todo' = todo \ {c} /\ eod' = [step |-> "wallets", contract |-> c]
  OBVIOUS
<1>2. TypeOK'
  BY <1>1
<1>3. LocksFit'
  BY RunLeavesHandlers
<1>4. RunFits'
  BY <1>1 DEF RunFits
<1>5. RowsCovered' /\ VerdictsFit' /\ PaidFits'
  BY DEF RowsCovered, NonNegative, VerdictsFit, PaidFits, Active, Created
<1> QED
  BY <1>2, <1>3, <1>4, <1>5

\* A wallet the run locks is copied, or copied already.
LEMMA LockParticipantKeeps ==
    ASSUME IInv, LockParticipant
    PROVE  IInv'
<1> USE DEF IInv, TypeOK, tables
<1> DEFINE w == NextToLock
<1>1. /\ eod.step = "wallets" /\ ToLock # {}
      /\ lock[w] \in {NoOne, EodUpdate}
      /\ lock' = [lock EXCEPT ![w] = Eod] /\ savepoint' = savepoint \union {w}
      /\ copy' = [copy EXCEPT ![w] = Seen(w)]
      /\ UNCHANGED <<tables, rowlock, pc, call, eod, todo, draft, verdict, refund, overwrote, runs>>
  BY DEF LockParticipant
<1>2. w \in Wallets
  BY <1>1, NextToLockIsWallet
<1> HIDE DEF w
<1>3. Seen(w) \in WalletRow /\ Covered(Seen(w)) /\ Seen(w) # NoRow
  BY <1>2, SeenIsCovered
<1>4. TypeOK'
  BY <1>1, <1>2, <1>3 DEF Processes
<1>5. LocksFit'
  <2>1. \A r \in Requests, v \in Wallets : lock'[v] = r <=> lock[v] = r
    BY <1>1, <1>2, RubleAssumption
  <2> QED
    BY <1>1, <2>1, RunLeavesHandlers
<1>6. RowsCovered'
  BY <1>1, <1>2, <1>3 DEF RowsCovered, NonNegative
<1>7. RunFits'
  BY <1>1, <1>2, <1>3 DEF RunFits
<1>8. VerdictsFit' /\ PaidFits'
  BY <1>1 DEF VerdictsFit, PaidFits, Active, Created
<1> QED
  BY <1>4, <1>5, <1>6, <1>7, <1>8

\* A flush of rows that are not negative.
LEMMA WriteKeepsRows ==
    ASSUME IInv, NEW S \in SUBSET Wallets, NEW rows \in [S -> WalletRow], Write(rows),
           \A w \in S : Covered(rows[w]) /\ copy[w] # NoRow
    PROVE  /\ copy' \in [Wallets -> WalletRow \union {NoRow}]
           /\ draft' \in [Wallets -> WalletRow \union {NoRow}]
           /\ overwrote' \in BOOLEAN
           /\ \A w \in Wallets : /\ copy'[w] # NoRow => Covered(copy'[w])
                                 /\ draft'[w] # NoRow => Covered(draft'[w])
                                 /\ copy[w] # NoRow => copy'[w] # NoRow
<1> USE DEF IInv, TypeOK
<1> DEFINE changed == {w \in S : rows[w] # copy[w]}
<1>1. /\ copy' = [w \in Wallets |-> IF w \in changed THEN rows[w] ELSE copy[w]]
      /\ draft' = [w \in Wallets |->
                     IF w \in changed THEN Updated(w, copy[w], rows[w]) ELSE draft[w]]
      /\ overwrote' \in BOOLEAN
  BY DEF Write
<1>2. \A w \in changed : /\ Updated(w, copy[w], rows[w]) \in WalletRow
                         /\ Covered(Updated(w, copy[w], rows[w]))
  BY UpdatedIsCovered
<1>3. \A w \in changed : rows[w] \in WalletRow /\ Covered(rows[w]) /\ rows[w] # NoRow
  BY RubleAssumption
<1> HIDE DEF changed
<1> QED
  BY <1>1, <1>2, <1>3 DEF RowsCovered

\* The outcome of a contract: its wallets are locked, what is written is not negative, and
\* what is paid does not exceed the escrow.
LEMMA OutcomeKeeps ==
    ASSUME IInv, Locked, NEW status \in {"active", "executed", "failed"}, NEW sum \in Nat,
           Decide(status, sum), sum <= Current.amount, status = "active" => sum = 0,
           copy' \in [Wallets -> WalletRow \union {NoRow}],
           draft' \in [Wallets -> WalletRow \union {NoRow}], overwrote' \in BOOLEAN,
           \A w \in Wallets : /\ copy'[w] # NoRow => Covered(copy'[w])
                              /\ draft'[w] # NoRow => Covered(draft'[w])
                              /\ copy[w] # NoRow => copy'[w] # NoRow
    PROVE  IInv'
<1> USE DEF IInv, TypeOK, Decide, At, tables
<1>1. eod.step = "wallets"
  BY DEF Locked
<1>2. /\ eod.contract \in Active /\ eod.contract \in Contracts
      /\ rowlock[eod.contract] = Eod /\ refund = NoRefund
  BY <1>1, CurrentIsActive DEF RunFits
<1>3. TypeOK'
  BY <1>2
<1>4. LocksFit'
  BY RunLeavesHandlers
<1>5. RowsCovered'
  <2>1. wallet' = wallet /\ refund' = NoRefund
    BY <1>2
  <2>2. NonNegative'
    BY <2>1 DEF RowsCovered, NonNegative
  <2>3. \A w \in Wallets : /\ copy'[w] # NoRow => Covered(copy'[w])
                           /\ draft'[w] # NoRow => Covered(draft'[w])
    OBVIOUS
  <2> QED
    BY <2>1, <2>2, <2>3 DEF RowsCovered
<1>6. RunFits'
  <2>1. /\ eod'.step = "next" /\ refund' = NoRefund
        /\ UNCHANGED <<lock, rowlock, todo>>
    BY <1>2
  <2>2. \A w \in Wallets : lock'[w] = Eod => copy'[w] # NoRow
    BY <2>1 DEF RunFits
  <2> QED
    BY <2>1, <2>2 DEF RunFits
<1>7. VerdictsFit'
  BY <1>2 DEF VerdictsFit, Active, Created, Current
<1>8. PaidFits'
  BY DEF PaidFits, Active, Created
<1> QED
  BY <1>3, <1>4, <1>5, <1>6, <1>7, <1>8

\* The rows of the participants are in the worker's session once they are locked.
LEMMA ParticipantsCopied ==
    ASSUME IInv, Locked, NEW w \in Participants
    PROVE  w \in Wallets /\ copy[w] \in WalletRow /\ copy[w] # NoRow /\ Covered(copy[w])
<1>1. eod.step = "wallets" /\ lock[w] = Eod
  BY DEF Locked, ToLock
<1>2. w \in Wallets
  BY <1>1, CurrentIsActive
<1> QED
  BY <1>1, <1>2 DEF IInv, TypeOK, RunFits, RowsCovered

\* A contract fails and its escrow goes back.
LEMMA FailContractKeeps ==
    ASSUME IInv, FailContract
    PROVE  IInv'
<1> DEFINE w == Current.creator
           rows == [v \in {w} |-> Refunded(copy[w], Current.amount)]
<1>1. Locked /\ Write(rows) /\ Decide("failed", 0)
  BY DEF FailContract, RefundCreator
<1>2. w \in Participants /\ Current.amount \in Nat /\ Current.amount >= 0
  BY <1>1, CurrentIsActive DEF Participants, Locked, ContractRow
<1>3. w \in Wallets /\ copy[w] # NoRow
  BY <1>1, <1>2, ParticipantsCopied
<1>4. Refunded(copy[w], Current.amount) \in WalletRow /\ Covered(Refunded(copy[w], Current.amount))
  BY <1>1, <1>2, ParticipantsCopied, RefundedIsCovered
<1>5. {w} \in SUBSET Wallets /\ rows \in [{w} -> WalletRow]
      /\ \A v \in {w} : Covered(rows[v]) /\ copy[v] # NoRow
  BY <1>3, <1>4
<1> HIDE DEF rows, w
<1> QED
  BY <1>1, <1>2, <1>5, WriteKeepsRows, OutcomeKeeps

\* A contract is executed: its escrow goes to the receiver and back to the creator.
LEMMA ExecuteContractKeeps ==
    ASSUME IInv, ExecuteContract
    PROVE  IInv'
<1>1. PICK sum \in 0..Current.amount :
        Write([w \in Participants |-> Settled(w, sum)]) /\ Decide("executed", sum)
  BY DEF ExecuteContract
<1>2. Locked
  BY DEF ExecuteContract
<1>3. Current.amount \in Nat /\ Participants \in SUBSET Wallets
  BY <1>2, CurrentIsActive DEF Locked, ContractRow
<1> DEFINE rows == [w \in Participants |-> Settled(w, sum)]
<1>4. ASSUME NEW w \in Participants
      PROVE  Settled(w, sum) \in WalletRow /\ Covered(Settled(w, sum)) /\ copy[w] # NoRow
  BY <1>2, <1>3, ParticipantsCopied DEF Settled, WalletRow, Covered, Lesser
<1>5. rows \in [Participants -> WalletRow] /\ \A w \in Participants : Covered(rows[w]) /\ copy[w] # NoRow
  BY <1>4
<1>6. Write(rows) /\ sum \in Nat /\ sum <= Current.amount
  BY <1>1, <1>3
<1> HIDE DEF rows
<1> QED
  BY <1>1, <1>2, <1>3, <1>5, <1>6, WriteKeepsRows, OutcomeKeeps

\* A contract is left as it is.
LEMMA LeavePendingKeeps ==
    ASSUME IInv, LeavePending
    PROVE  IInv'
<1>1. Locked /\ Decide("active", 0) /\ UNCHANGED <<copy, draft, overwrote>>
  BY DEF LeavePending, WriteNothing
<1>2. Current.amount \in Nat /\ 0 <= Current.amount
  BY <1>1, CurrentIsActive DEF Locked, ContractRow
<1> QED
  BY <1>1, <1>2, OutcomeKeeps DEF IInv, TypeOK, RowsCovered

\* The error path frees what the savepoint locked and keeps a refund for later.
LEMMA ErrorPathKeeps ==
    ASSUME IInv, ErrorPath, eod.step = "wallets"
    PROVE  IInv'
<1> USE DEF IInv, TypeOK, At, tables
<1> DEFINE w == Current.creator
           row == Refunded(Seen(w), Current.amount)
<1>1. /\ lock' = [v \in Wallets |->
                    IF v \notin savepoint THEN lock[v]
                    ELSE IF draft[v] # NoRow THEN EodUpdate ELSE NoOne]
      /\ refund' = [wallet |-> w, base |-> Seen(w)]
      /\ copy' = [copy EXCEPT ![w] = row]
      /\ verdict' = [verdict EXCEPT ![eod.contract] = [status |-> "failed", paid |-> 0]]
      /\ savepoint' = {} /\ eod' = [eod EXCEPT !.step = "next"]
      /\ UNCHANGED <<tables, rowlock, pc, call, todo, draft, overwrote, runs>>
  BY DEF ErrorPath
<1>2. /\ eod.contract \in Active /\ eod.contract \in Contracts /\ rowlock[eod.contract] = Eod
      /\ w \in Wallets /\ Current.amount \in Nat /\ Current.amount >= 0
      /\ contract[eod.contract].amount = Current.amount
  BY CurrentIsActive DEF RunFits, ContractRow, Current
<1>3. Seen(w) \in WalletRow /\ Covered(Seen(w))
  BY <1>2, SeenIsCovered
<1>4. row \in WalletRow /\ Covered(row) /\ row # NoRow
  BY <1>2, <1>3, RefundedIsCovered, RubleAssumption
<1> HIDE DEF w, row
<1>5. TypeOK'
  BY <1>1, <1>2, <1>3, <1>4 DEF Processes
<1>6. LocksFit'
  <2>1. \A v \in savepoint : lock[v] = Eod
    BY DEF RunFits
  <2>2. \A r \in Requests, v \in Wallets : lock'[v] = r <=> lock[v] = r
    BY <1>1, <2>1, RubleAssumption
  <2> QED
    BY <1>1, <2>2, RunLeavesHandlers
<1>7. RowsCovered'
  BY <1>1, <1>2, <1>3, <1>4 DEF RowsCovered, NonNegative
<1>8. RunFits'
  BY <1>1, <1>2, <1>4, RubleAssumption DEF RunFits
<1>9. VerdictsFit'
  BY <1>1, <1>2 DEF VerdictsFit, Active, Created
<1>10. PaidFits'
  BY <1>1 DEF PaidFits, Active, Created
<1> QED
  BY <1>5, <1>6, <1>7, <1>8, <1>9, <1>10

\* The flush of a refund.
LEMMA FlushRefundKeeps ==
    ASSUME IInv, FlushRefund
    PROVE  IInv'
<1> USE DEF IInv, TypeOK, tables
<1> DEFINE w == refund.wallet
<1>1. /\ eod.step = "next" /\ refund # NoRefund /\ refund' = NoRefund
      /\ UNCHANGED <<tables, rowlock, pc, call, eod, todo, savepoint, copy, verdict, runs>>
      /\ \/ UNCHANGED <<lock, draft, overwrote>>
         \/ /\ lock[w] \in {NoOne, Eod, EodUpdate}
            /\ lock' = [lock EXCEPT ![w] = IF @ = NoOne THEN EodUpdate ELSE @]
            /\ draft' = [draft EXCEPT ![w] = Updated(w, refund.base, copy[w])]
            /\ overwrote' \in BOOLEAN
  BY DEF FlushRefund
<1>2. w \in Wallets /\ copy[w] \in WalletRow /\ Covered(copy[w])
  BY <1>1 DEF RunFits, RowsCovered
<1>3. Updated(w, refund.base, copy[w]) \in WalletRow /\ Covered(Updated(w, refund.base, copy[w]))
  BY <1>2, UpdatedIsCovered
<1> HIDE DEF w
<1>4. TypeOK'
  BY <1>1, <1>2, <1>3 DEF Processes
<1>5. \A r \in Requests, v \in Wallets : lock'[v] = r <=> lock[v] = r
  BY <1>1, <1>2, RubleAssumption
<1>6. LocksFit'
  BY <1>1, <1>5, RunLeavesHandlers
<1>7. RowsCovered'
  BY <1>1, <1>2, <1>3 DEF RowsCovered, NonNegative
<1>8. RunFits'
  BY <1>1, <1>2, RubleAssumption DEF RunFits
<1>9. VerdictsFit' /\ PaidFits'
  BY <1>1 DEF VerdictsFit, PaidFits, Active, Created
<1> QED
  BY <1>4, <1>6, <1>7, <1>8, <1>9

\* The end of the transaction frees everything the run holds and forgets its session.
LEMMA EndRunKeeps ==
    ASSUME IInv, EndRun,
           wallet' \in [Wallets -> WalletRow], NonNegative',
           contract' \in [Contracts -> ContractRow \union {NoContract}],
           paid' \in [Contracts -> Int], PaidFits'
    PROVE  IInv'
<1> USE DEF IInv, TypeOK, EndRun, NoVerdict
<1>1. TypeOK'
  BY DEF Processes
<1>2. \A r \in Requests : r \notin {NoOne, Eod, EodUpdate}
  BY RubleAssumption
<1>3. LocksFit'
  BY <1>2, RunLeavesHandlers
<1>4. RowsCovered'
  BY DEF RowsCovered, NonNegative
<1>5. \A c \in Contracts : rowlock'[c] # Eod
  BY RubleAssumption
<1>6. \A w \in Wallets : lock'[w] # Eod
  BY RubleAssumption
<1>7. RunFits'
  BY <1>5, <1>6 DEF RunFits
<1>8. VerdictsFit'
  BY <1>5 DEF VerdictsFit
<1> QED
  BY <1>1, <1>3, <1>4, <1>7, <1>8

\* A run that dies leaves the tables as they were.
LEMMA LostRunKeeps ==
    ASSUME IInv, EndRun, UNCHANGED tables
    PROVE  IInv'
<1>1. NonNegative' /\ PaidFits'
  BY DEF IInv, RowsCovered, NonNegative, PaidFits, Active, Created, tables
<1> QED
  BY <1>1, EndRunKeeps DEF IInv, TypeOK, tables

\* What the commit of a run does to one contract.
LEMMA CommittedContract ==
    ASSUME IInv, CommitRun, NEW c \in Contracts
    PROVE  /\ \/ contract'[c] = contract[c] /\ paid'[c] = paid[c]
              \/ /\ c \in Active /\ contract[c] \in ContractRow /\ contract'[c] \in ContractRow
                 /\ contract'[c].status # "active"
                 /\ contract'[c].amount = contract[c].amount
                 /\ contract'[c].condition = contract[c].condition
           /\ paid'[c] \in Int
           /\ c \in Created => paid'[c] <= contract[c].amount
<1> USE DEF IInv, TypeOK
<1>1. /\ contract'[c] = IF verdict[c].status = "active" THEN contract[c]
                        ELSE [contract[c] EXCEPT !.status = verdict[c].status]
      /\ paid'[c] = paid[c] + verdict[c].paid
  BY DEF CommitRun
<1>2. CASE verdict[c].status = "active"
  <2>1. verdict[c].paid = 0
    BY <1>2 DEF VerdictsFit
  <2> QED
    BY <1>1, <1>2, <2>1 DEF PaidFits
<1>3. CASE verdict[c].status # "active"
  <2>1. verdict[c] # NoVerdict
    BY <1>3 DEF NoVerdict
  <2>2. c \in Active /\ verdict[c].paid \in Nat /\ verdict[c].paid <= contract[c].amount
    BY <2>1 DEF VerdictsFit
  <2>3. contract[c] \in ContractRow /\ paid[c] = 0
    BY <2>2 DEF Active, Created, PaidFits
  <2>4. verdict[c].status \in {"executed", "failed"}
    BY <1>3
  <2>5. contract'[c] = [contract[c] EXCEPT !.status = verdict[c].status]
    BY <1>1, <1>3
  <2>6. /\ contract'[c] \in ContractRow /\ contract'[c].status # "active"
        /\ contract'[c].amount = contract[c].amount
        /\ contract'[c].condition = contract[c].condition
    BY <2>3, <2>4, <2>5 DEF ContractRow
  <2> QED
    BY <1>1, <2>2, <2>3, <2>6
<1> QED
  BY <1>2, <1>3

\* The commit of a run.
LEMMA CommitRunKeeps ==
    ASSUME IInv, CommitRun
    PROVE  IInv'
<1> USE DEF IInv, TypeOK
<1>1. EndRun /\ wallet' = [w \in Wallets |-> InTransaction(w)]
  BY DEF CommitRun
<1>2. wallet' \in [Wallets -> WalletRow] /\ NonNegative'
  BY <1>1, SeenIsCovered DEF NonNegative, Covered
<1>3. contract' \in [Contracts -> ContractRow \union {NoContract}]
  <2>1. contract' = [c \in Contracts |-> contract'[c]]
    BY DEF CommitRun
  <2>2. \A c \in Contracts : contract'[c] \in ContractRow \union {NoContract}
    BY CommittedContract
  <2> QED
    BY <2>1, <2>2
<1>4. paid' \in [Contracts -> Int]
  <2>1. paid' = [c \in Contracts |-> paid[c] + verdict[c].paid]
    BY DEF CommitRun
  <2> QED
    BY <2>1 DEF VerdictsFit
<1>5. PaidFits'
  <2> SUFFICES ASSUME NEW c \in Contracts
               PROVE  /\ c \notin Created' \/ c \in Active' => paid'[c] = 0
                      /\ c \in Created' => paid'[c] <= contract'[c].amount
    BY DEF PaidFits
  <2>1. CASE contract'[c] = contract[c] /\ paid'[c] = paid[c]
    BY <2>1 DEF PaidFits, Active, Created
  <2>2. CASE ~(contract'[c] = contract[c] /\ paid'[c] = paid[c])
    BY <2>2, CommittedContract, RubleAssumption DEF Active, Created
  <2> QED
    BY <2>1, <2>2
<1> QED
  BY <1>1, <1>2, <1>3, <1>4, <1>5, EndRunKeeps

-----------------------------------------------------------------------------
(* The invariant holds. *)

\* Nothing is locked and nothing is under way in the beginning.
LEMMA InitFits == Init => IInv
<1> SUFFICES ASSUME Init PROVE IInv
  OBVIOUS
<1> USE RubleAssumption DEF Init, NoVerdict, NoRefund
<1>1. wallet \in [Wallets -> WalletRow]
  BY DEF WalletRow
<1>2. TypeOK
  <2>1. refund \in {NoRefund} /\ runs \in 0..MaxRuns
    OBVIOUS
  <2>2. overwrote \in BOOLEAN
    OBVIOUS
  <2>3. eod \in [step : {"idle", "next", "wallets"}, contract : Contracts \union {NoContract}]
    OBVIOUS
  <2>4. verdict \in [Contracts -> [status : {"active", "executed", "failed"}, paid : Int]]
    OBVIOUS
  <2>5. /\ contract \in [Contracts -> ContractRow \union {NoContract}]
        /\ paid \in [Contracts -> Int]
        /\ lock \in [Wallets -> Processes \union {NoOne, EodUpdate}]
        /\ rowlock \in [Contracts -> Processes \union {NoOne}]
        /\ pc \in [Requests -> {"idle", "lock", "decide"} \union Answers]
        /\ call \in [Requests -> Calls \union {NoCall}]
        /\ copy \in [Wallets -> WalletRow \union {NoRow}]
        /\ draft \in [Wallets -> WalletRow \union {NoRow}]
        /\ todo \subseteq Contracts /\ savepoint \subseteq Wallets
    OBVIOUS
  <2> QED
    BY <1>1, <2>1, <2>2, <2>3, <2>4, <2>5 DEF TypeOK
<1>3. RowsCovered
  BY DEF RowsCovered, NonNegative
<1>4. LocksFit
  BY DEF LocksFit
<1>5. RunFits
  BY DEF RunFits
<1>6. VerdictsFit
  BY DEF VerdictsFit
<1>7. PaidFits
  BY DEF PaidFits, Active, Created
<1> QED
  BY <1>2, <1>3, <1>4, <1>5, <1>6, <1>7 DEF IInv

\* A step of a handler keeps the invariant.
LEMMA StepKeeps ==
    ASSUME IInv, NEW r \in Requests, Receive(r) \/ Step(r) \/ Abort(r)
    PROVE  IInv'
<1>1. CASE Receive(r)
  BY <1>1, ReceiveKeeps
<1>2. CASE LockWallet(r)
  BY <1>2, LockWalletKeeps
<1>3. CASE CommitTransfer(r)
  BY <1>3, CommitTransferKeeps
<1>4. CASE CommitCreate(r)
  BY <1>4, CommitCreateKeeps
<1>5. CASE LockContract(r)
  BY <1>5, LockContractKeeps
<1>6. CASE CommitCondition(r)
  BY <1>6, CommitConditionKeeps
<1>7. CASE RejectWalletCall(r) \/ FailCreate(r) \/ RejectCondition(r) \/ Abort(r)
  BY <1>7, RollbackKeeps DEF RejectWalletCall, FailCreate, RejectCondition, Abort, Answers
<1> QED
  BY <1>1, <1>2, <1>3, <1>4, <1>5, <1>6, <1>7 DEF Step

\* A step of the worker keeps the invariant.
LEMMA WorkerKeeps ==
    ASSUME IInv, BeginRun \/ WorkerStep \/ CrashRun
    PROVE  IInv'
<1>1. CASE BeginRun
  BY <1>1, BeginRunKeeps
<1>2. CASE NextContract
  BY <1>2, NextContractKeeps
<1>3. CASE LockParticipant
  BY <1>3, LockParticipantKeeps
<1>4. CASE FailContract
  BY <1>4, FailContractKeeps
<1>5. CASE ExecuteContract
  BY <1>5, ExecuteContractKeeps
<1>6. CASE LeavePending
  BY <1>6, LeavePendingKeeps
<1>7. CASE RaiseInContract
  BY <1>7, ErrorPathKeeps DEF RaiseInContract, Locked
<1>8. CASE FlushRefund
  BY <1>8, FlushRefundKeeps
<1>9. CASE CommitRun
  BY <1>9, CommitRunKeeps
<1>10. CASE CrashRun
  BY <1>10, LostRunKeeps DEF CrashRun
<1> QED
  BY <1>1, <1>2, <1>3, <1>4, <1>5, <1>6, <1>7, <1>8, <1>9, <1>10 DEF WorkerStep

\* Every step of the system keeps the invariant.
LEMMA NextKeeps == IInv /\ [Next]_vars => IInv'
<1> SUFFICES ASSUME IInv, [Next]_vars PROVE IInv'
  OBVIOUS
<1>1. CASE UNCHANGED vars
  BY <1>1 DEF vars, IInv, TypeOK, RowsCovered, NonNegative, LocksFit, RowsToLock, Unlocked,
              RunFits, VerdictsFit, PaidFits, Active, Created
<1>2. CASE \E r \in Requests : Receive(r) \/ Step(r) \/ Abort(r)
  BY <1>2, StepKeeps
<1>3. CASE BeginRun \/ WorkerStep \/ CrashRun
  BY <1>3, WorkerKeeps
<1>4. CASE DeadlockBroken
  <2>1. CASE \E r \in Requests : BreakDeadlock(r)
    BY <2>1, RollbackKeeps DEF BreakDeadlock, Answers
  <2>2. CASE BreakDeadlockOfRun
    BY <2>2, ErrorPathKeeps, LostRunKeeps DEF BreakDeadlockOfRun
  <2> QED
    BY <1>4, <2>1, <2>2 DEF DeadlockBroken
<1> QED
  BY <1>1, <1>2, <1>3, <1>4 DEF Next, Done

\* The inductive invariant holds in every reachable state.
THEOREM Invariant == Spec => []IInv
BY InitFits, NextKeeps, PTL DEF Spec

\* Tables, handlers and the worker keep their types.
THEOREM TypeCorrect == Spec => []TypeOK
<1>1. IInv => TypeOK
  BY DEF IInv
<1> QED
  BY <1>1, Invariant, PTL

\* No interleaving of transfers, creations, decisions and settlements makes a balance or an
\* escrow negative, although the run writes rows from copies that may be out of date.
THEOREM WalletsNeverNegative == Spec => []NonNegative
<1>1. IInv => NonNegative
  BY DEF IInv, RowsCovered
<1> QED
  BY <1>1, Invariant, PTL

-----------------------------------------------------------------------------
(* Contracts settle once. *)

\* A handler that ends changes no more than its call says.
LEMMA HandlersSettleNothing ==
    ASSUME IInv, NEW r \in Requests, Receive(r) \/ Step(r) \/ Abort(r), NEW c \in Created
    PROVE  /\ paid' = paid
           /\ \/ contract'[c] = contract[c]
              \/ /\ contract[c].status = "active" /\ contract[c].condition = "pending"
                 /\ contract'[c].status = contract[c].status
<1> USE DEF tables, Rollback
<1>1. CASE CommitCreate(r)
  <2>1. PICK d \in Contracts \ Created : \E row : contract' = [contract EXCEPT ![d] = row]
    BY <1>1 DEF CommitCreate
  <2>2. c \in Contracts /\ c # d
    BY <2>1 DEF Created
  <2> QED
    BY <1>1, <2>1, <2>2 DEF CommitCreate, IInv, TypeOK
<1>2. CASE CommitCondition(r)
  <2> DEFINE d == call[r].contract
  <2>1. /\ d \in Active /\ contract[d].condition = "pending"
        /\ contract' = [contract EXCEPT ![d].condition = call[r].status] /\ paid' = paid
    BY <1>2 DEF CommitCondition, ConditionOpen
  <2>2. c \in Contracts /\ contract[c] \in ContractRow /\ contract[d].status = "active"
    BY <2>1 DEF Created, Active, IInv, TypeOK
  <2> HIDE DEF d
  <2> QED
    BY <2>1, <2>2 DEF IInv, TypeOK, ContractRow
<1>3. CASE ~CommitCreate(r) /\ ~CommitCondition(r)
  <2>1. UNCHANGED <<contract, paid>>
    BY <1>3 DEF Step, Receive, LockWallet, CommitTransfer, RejectWalletCall, FailCreate,
                LockContract, RejectCondition, Abort
  <2> QED
    BY <2>1
<1> QED
  BY <1>1, <1>2, <1>3

\* Of the worker's steps only the commit of a run changes contracts.
LEMMA OnlyCommitSettles ==
    ASSUME BeginRun \/ WorkerStep \/ CrashRun \/ BreakDeadlockOfRun, ~CommitRun
    PROVE  UNCHANGED <<contract, paid>>
BY DEF WorkerStep, BeginRun, NextContract, LockParticipant, FailContract, ExecuteContract,
       LeavePending, RaiseInContract, ErrorPath, FlushRefund, CrashRun, BreakDeadlockOfRun,
       Decide, tables

\* However many runs, crashes, deadlocks and decisions of the oracle there are, a settled
\* contract stays as it is, and no contract pays more than its escrow.
THEOREM ContractsSettleOnce == Spec => SettledOnce
<1> DEFINE Settles(c) ==
        /\ contract[c].status # "active" => contract'[c] = contract[c] /\ paid'[c] = paid[c]
        /\ contract[c].condition # "pending" => contract'[c].condition = contract[c].condition
        /\ paid'[c] <= contract[c].amount
<1>1. ASSUME IInv, [Next]_vars, NEW c \in Created
      PROVE  Settles(c)
  <2>1. c \in Contracts /\ paid[c] <= contract[c].amount
    BY <1>1 DEF Created, IInv, PaidFits
  <2>2. CASE UNCHANGED <<contract, paid>>
    BY <2>1, <2>2
  <2>3. CASE CommitRun
    BY <1>1, <2>1, <2>3, CommittedContract DEF Active
  <2>4. CASE \E r \in Requests : Receive(r) \/ Step(r) \/ Abort(r)
    BY <1>1, <2>1, <2>4, HandlersSettleNothing
  <2>5. CASE \E r \in Requests : BreakDeadlock(r)
    BY <2>2, <2>5 DEF BreakDeadlock, Rollback, tables
  <2>6. CASE UNCHANGED vars
    BY <2>2, <2>6 DEF vars
  <2> QED
    BY <1>1, <2>2, <2>3, <2>4, <2>5, <2>6, OnlyCommitSettles DEF Next, Done, DeadlockBroken
<1>2. IInv /\ [Next]_vars => [\A c \in Created : Settles(c)]_vars
  BY <1>1
<1> QED
  BY <1>2, Invariant, PTL DEF Spec, SettledOnce

-----------------------------------------------------------------------------
(* Deadlock. *)

\* The wallet one transfer waits for is less than the one its holder waits for.
LEMMA WaitersAscend ==
    ASSUME IInv, NEW r \in Requests, NEW s \in Requests, NEW q,
           call[r].op = "transfer", call[s].op = "transfer", WaitsFor(r, s), WaitsFor(s, q)
    PROVE  /\ NextRow(r) \in Wallets /\ NextRow(s) \in Wallets
           /\ NextRow(r) < NextRow(s)
<1>1. ASSUME NEW p \in Requests, NEW t, call[p].op = "transfer", WaitsFor(p, t)
      PROVE  /\ Unlocked(p) # {} /\ NextRow(p) \in Unlocked(p) /\ NextRow(p) \in Wallets
             /\ Holder(NextRow(p)) = t
  <2>1. p # Eod /\ NoWallet \notin Wallets
    BY RubleAssumption
  <2>2. Wanted(p) \in Wallets /\ Holder(Wanted(p)) = t
    BY <1>1 DEF WaitsFor
  <2>3. Unlocked(p) # {} /\ Wanted(p) = NextRow(p)
    BY <1>1, <2>1, <2>2 DEF Wanted, Creating
  <2> QED
    BY <2>2, <2>3, NextRowIsLeast
<1>2. lock[NextRow(r)] = s
  BY <1>1, RubleAssumption DEF Holder
<1>3. NextRow(s) \in Unlocked(s) /\ NextRow(r) \in Wallets /\ NextRow(s) \in Wallets
  BY <1>1
<1> QED
  BY <1>2, <1>3 DEF IInv, LocksFit

\* The transfer that holds the greatest wallet another waits for does not wait.
LEMMA NoCycle == IInv => TransfersNeverDeadlock
<1> SUFFICES ASSUME IInv,
                    NEW S \in (SUBSET {r \in Requests : call[r] # NoCall /\ call[r].op = "transfer"})
                                \ {{}},
                    \A r \in S : \E s \in S : WaitsFor(r, s)
             PROVE  FALSE
  BY DEF TransfersNeverDeadlock
<1> DEFINE wanted == {NextRow(r) : r \in S}
<1>1. \A r \in S : r \in Requests /\ call[r].op = "transfer" /\ NextRow(r) \in Wallets
  BY WaitersAscend
<1>2. wanted \in SUBSET Nat /\ IsFiniteSet(wanted) /\ wanted # {}
  <2>1. wanted \in SUBSET Wallets
    BY <1>1
  <2>2. wanted # {}
    <3>1. PICK p \in S : TRUE
      OBVIOUS
    <3>2. NextRow(p) \in wanted
      BY <3>1
    <3> QED
      BY <3>2
  <2> HIDE DEF wanted
  <2> QED
    BY <2>1, <2>2, RubleAssumption, FS_Subset
<1>3. PICK m \in wanted : \A n \in wanted : n <= m
  BY <1>2, GreatestNatural
<1>4. PICK r \in S : NextRow(r) = m
  BY <1>3
<1>5. PICK s \in S : WaitsFor(r, s) /\ \E q \in S : WaitsFor(s, q)
  BY <1>4
<1>6. NextRow(r) < NextRow(s) /\ NextRow(r) \in Nat /\ NextRow(s) \in Nat
  BY <1>1, <1>5, WaitersAscend, RubleAssumption
<1>7. NextRow(s) <= m
  BY <1>3
<1> QED
  BY <1>4, <1>6, <1>7

\* Transfers lock in id order: no set of transfers is ever deadlocked among itself, for any
\* number of wallets and handlers.
THEOREM LockOrderPreventsDeadlock == Spec => []TransfersNeverDeadlock
BY NoCycle, Invariant, PTL

-----------------------------------------------------------------------------
(* Money: sums of rows and of escrows. *)

\* The escrow of the contracts S of a table cs.
EscrowIn(cs, S, w) ==
    SumFunctionOnSet([c \in S |-> cs[c].amount], {c \in S : cs[c].creator = w})

\* Rows that hold all the money, and exactly the escrow of the contracts S.
Exact(rows, cs, S) ==
    /\ Money(rows) = SumFunctionOnSet(Opening, Wallets)
    /\ \A w \in Wallets : rows[w].frozen = EscrowIn(cs, S, w)

\* Contracts with the same amounts and creators have the same escrow.
LEMMA EscrowSame ==
    ASSUME NEW cs, NEW ds, NEW S,
           \A c \in S : ds[c].amount = cs[c].amount /\ ds[c].creator = cs[c].creator, NEW w
    PROVE  EscrowIn(ds, S, w) = EscrowIn(cs, S, w)
<1>1. [c \in S |-> ds[c].amount] = [c \in S |-> cs[c].amount]
  OBVIOUS
<1>2. {c \in S : ds[c].creator = w} = {c \in S : cs[c].creator = w}
  OBVIOUS
<1> QED
  BY <1>1, <1>2 DEF EscrowIn

\* All amounts of the contracts S are naturals.
Priced(cs, S) == \A c \in S : cs[c].amount \in Nat

\* One contract more puts its amount on its creator.
LEMMA EscrowAdds ==
    ASSUME NEW S \in SUBSET Contracts, NEW x \in Contracts, x \notin S, NEW cs,
           Priced(cs, S), cs[x].amount \in Nat, NEW w
    PROVE  /\ EscrowIn(cs, S, w) \in Int
           /\ cs[x].creator = w => EscrowIn(cs, S \union {x}, w) = EscrowIn(cs, S, w) + cs[x].amount
           /\ cs[x].creator # w => EscrowIn(cs, S \union {x}, w) = EscrowIn(cs, S, w)
<1> DEFINE f == [c \in S |-> cs[c].amount]
           g == [c \in S \union {x} |-> cs[c].amount]
           P == {c \in S : cs[c].creator = w}
<1>1. IsFiniteSet(P) /\ x \notin P
  BY FS_Subset, RubleAssumption
<1>2. (\A c \in P : f[c] \in Int /\ g[c] = f[c]) /\ g[x] = cs[x].amount
  BY DEF Priced
<1>3. EscrowIn(cs, S, w) = SumFunctionOnSet(f, P)
  BY DEF EscrowIn
<1>4. EscrowIn(cs, S \union {x}, w)
        = SumFunctionOnSet(g, {c \in S \union {x} : cs[c].creator = w})
  BY DEF EscrowIn
<1>5. /\ cs[x].creator = w => {c \in S \union {x} : cs[c].creator = w} = P \union {x}
      /\ cs[x].creator # w => {c \in S \union {x} : cs[c].creator = w} = P
  OBVIOUS
<1> HIDE DEF f, g, P
<1>6. SumFunctionOnSet(f, P) \in Int /\ SumFunctionOnSet(g, P) = SumFunctionOnSet(f, P)
  BY <1>1, <1>2, SumUnfold, SumSame
<1>7. SumFunctionOnSet(g, P \union {x}) = SumFunctionOnSet(g, P) + g[x]
  <2>1. \A c \in P \union {x} : g[c] \in Int
    BY <1>2
  <2> QED
    BY <1>1, <2>1, SumAdd
<1> QED
  BY <1>2, <1>3, <1>4, <1>5, <1>6, <1>7

\* One contract less takes it off.
LEMMA EscrowDrops ==
    ASSUME NEW S \in SUBSET Contracts, NEW x \in S, NEW cs, Priced(cs, S), NEW w
    PROVE  /\ EscrowIn(cs, S \ {x}, w) \in Int
           /\ cs[x].creator = w => EscrowIn(cs, S \ {x}, w) = EscrowIn(cs, S, w) - cs[x].amount
           /\ cs[x].creator # w => EscrowIn(cs, S \ {x}, w) = EscrowIn(cs, S, w)
<1> DEFINE T == S \ {x}
<1>1. /\ T \in SUBSET Contracts /\ x \in Contracts /\ x \notin T
      /\ Priced(cs, T) /\ cs[x].amount \in Nat /\ T \union {x} = S
  BY DEF Priced
<1> HIDE DEF T
<1>2. /\ EscrowIn(cs, T, w) \in Int
      /\ cs[x].creator = w => EscrowIn(cs, T \union {x}, w) = EscrowIn(cs, T, w) + cs[x].amount
      /\ cs[x].creator # w => EscrowIn(cs, T \union {x}, w) = EscrowIn(cs, T, w)
  BY <1>1, EscrowAdds
<1>3. /\ EscrowIn(cs, T, w) \in Int
      /\ cs[x].creator = w => EscrowIn(cs, T, w) = EscrowIn(cs, S, w) - cs[x].amount
      /\ cs[x].creator # w => EscrowIn(cs, T, w) = EscrowIn(cs, S, w)
  <2>1. EscrowIn(cs, T \union {x}, w) = EscrowIn(cs, S, w)
    BY <1>1
  <2>2. cs[x].amount \in Int
    BY <1>1
  <2> QED
    BY ONLY <1>2, <2>1, <2>2
<1> QED
  BY <1>3 DEF T

\* The contract of a creator is the escrow of nobody else.
LEMMA EscrowLeaves ==
    ASSUME NEW S \in SUBSET Contracts, NEW c \in S, NEW cs, Priced(cs, S),
           NEW x, cs[c].creator = x, NEW w
    PROVE  /\ x = w => EscrowIn(cs, S \ {c}, w) = EscrowIn(cs, S, w) - cs[c].amount
           /\ x # w => EscrowIn(cs, S \ {c}, w) = EscrowIn(cs, S, w)
<1>1. /\ EscrowIn(cs, S \ {c}, w) \in Int
      /\ cs[c].creator = w => EscrowIn(cs, S \ {c}, w) = EscrowIn(cs, S, w) - cs[c].amount
      /\ cs[c].creator # w => EscrowIn(cs, S \ {c}, w) = EscrowIn(cs, S, w)
  BY EscrowDrops
<1> QED
  BY <1>1

\* Escrows are not negative.
LEMMA EscrowIsNat ==
    ASSUME NEW S \in SUBSET Contracts, NEW cs, Priced(cs, S), NEW w
    PROVE  EscrowIn(cs, S, w) \in Nat
<1> DEFINE P == {c \in S : cs[c].creator = w}
           f == [c \in S |-> cs[c].amount]
<1>1. IsFiniteSet(P) /\ \A c \in P : f[c] \in Nat /\ f[c] \in Int
  BY FS_Subset, RubleAssumption DEF Priced
<1>2. EscrowIn(cs, S, w) = SumFunctionOnSet(f, P)
  BY DEF EscrowIn
<1> HIDE DEF P, f
<1>3. SumFunctionOnSet(f, {}) <= SumFunctionOnSet(f, P) /\ SumFunctionOnSet(f, P) \in Int
  BY <1>1, SumLess, SumUnfold
<1>4. SumFunctionOnSet(f, {}) = 0
  BY SumOfNothing
<1> QED
  BY <1>2, <1>3, <1>4

\* The escrow of fewer contracts is not greater, and that of one is part of it.
LEMMA EscrowLess ==
    ASSUME NEW S \in SUBSET Contracts, NEW cs, Priced(cs, S), NEW w
    PROVE  /\ EscrowIn(cs, S, w) \in Nat
           /\ \A T \in SUBSET S : EscrowIn(cs, T, w) <= EscrowIn(cs, S, w)
           /\ \A c \in S : cs[c].creator = w => cs[c].amount <= EscrowIn(cs, S, w)
<1> DEFINE P(T) == {c \in T : cs[c].creator = w}
           f(T) == [c \in T |-> cs[c].amount]
<1>1. ASSUME NEW T \in SUBSET S
      PROVE  EscrowIn(cs, T, w) = SumFunctionOnSet(f(S), P(T))
  <2>1. IsFiniteSet(P(T)) /\ \A c \in P(T) : f(T)[c] \in Int /\ f(S)[c] = f(T)[c]
    BY FS_Subset, RubleAssumption DEF Priced
  <2>2. SumFunctionOnSet(f(S), P(T)) = SumFunctionOnSet(f(T), P(T))
    <3> HIDE DEF P, f
    <3> QED
      BY <2>1, SumSame
  <2> QED
    BY <2>2 DEF EscrowIn
<1>2. IsFiniteSet(P(S)) /\ \A c \in P(S) : f(S)[c] \in Nat /\ f(S)[c] \in Int
  BY FS_Subset, RubleAssumption DEF Priced
<1>3. ASSUME NEW T \in SUBSET S PROVE EscrowIn(cs, T, w) <= EscrowIn(cs, S, w)
  <2>1. P(T) \in SUBSET P(S) /\ S \in SUBSET S
    OBVIOUS
  <2>2. EscrowIn(cs, T, w) = SumFunctionOnSet(f(S), P(T))
    BY <1>1
  <2>3. EscrowIn(cs, S, w) = SumFunctionOnSet(f(S), P(S))
    BY <1>1, <2>1
  <2> HIDE DEF P, f
  <2> QED
    BY <1>2, <2>1, <2>2, <2>3, SumLess
<1>4. EscrowIn(cs, S, w) \in Nat
  BY EscrowIsNat
<1>5. ASSUME NEW c \in S, cs[c].creator = w PROVE cs[c].amount <= EscrowIn(cs, S, w)
  <2>1. S \ {c} \in SUBSET Contracts /\ Priced(cs, S \ {c})
    BY DEF Priced
  <2>2. EscrowIn(cs, S \ {c}, w) \in Int /\ EscrowIn(cs, S \ {c}, w) = EscrowIn(cs, S, w) - cs[c].amount
    BY <1>5, EscrowDrops
  <2>3. EscrowIn(cs, S \ {c}, w) \in Nat
    BY <2>1, EscrowIsNat
  <2>4. cs[c].amount \in Int
    BY DEF Priced
  <2> QED
    BY ONLY <1>4, <2>2, <2>3, <2>4
<1> QED
  BY <1>3, <1>4, <1>5

\* A transfer between two rows.
LEMMA ExactTransfer ==
    ASSUME NEW rows \in [Wallets -> WalletRow], NEW new \in [Wallets -> WalletRow], NEW cs, NEW S,
           Exact(rows, cs, S), NEW x \in Wallets, NEW y \in Wallets, x # y,
           \A w \in Wallets : w # x /\ w # y => new[w] = rows[w],
           new[x].frozen = rows[x].frozen, new[y].frozen = rows[y].frozen,
           new[x].balance + new[y].balance = rows[x].balance + rows[y].balance
    PROVE  Exact(new, cs, S)
<1> DEFINE f == [w \in Wallets |-> rows[w].balance + rows[w].frozen]
           g == [w \in Wallets |-> new[w].balance + new[w].frozen]
<1>1. \A w \in Wallets : f[w] \in Int /\ g[w] \in Int
  BY DEF WalletRow
<1>2. \A w \in Wallets : w # x /\ w # y => g[w] = f[w]
  OBVIOUS
<1>3. g[x] + g[y] = f[x] + f[y]
  <2>1. /\ rows[x].balance \in Int /\ rows[x].frozen \in Int
        /\ rows[y].balance \in Int /\ rows[y].frozen \in Int
        /\ new[x].balance \in Int /\ new[y].balance \in Int
    BY DEF WalletRow
  <2>2. /\ f[x] = rows[x].balance + rows[x].frozen /\ g[x] = new[x].balance + rows[x].frozen
        /\ f[y] = rows[y].balance + rows[y].frozen /\ g[y] = new[y].balance + rows[y].frozen
    OBVIOUS
  <2> HIDE DEF f, g
  <2> QED
    BY <2>1, <2>2
<1>4. Money(rows) = SumFunctionOnSet(f, Wallets) /\ Money(new) = SumFunctionOnSet(g, Wallets)
  BY DEF Money
<1> HIDE DEF f, g
<1>5. Money(new) = Money(rows)
  <2>1. IsFiniteSet(Wallets)
    BY RubleAssumption
  <2>2. SumFunctionOnSet(g, Wallets) = SumFunctionOnSet(f, Wallets)
    BY ONLY <1>1, <1>2, <1>3, <2>1, x \in Wallets, y \in Wallets, x # y, SumTransfer
  <2> QED
    BY <1>4, <2>2
<1>6. \A w \in Wallets : new[w].frozen = rows[w].frozen
  OBVIOUS
<1> QED
  BY <1>5, <1>6 DEF Exact

\* What one row moves between its balance and its escrow does not change the money.
LEMMA MoneyInRow ==
    ASSUME NEW rows \in [Wallets -> WalletRow], NEW new \in [Wallets -> WalletRow], NEW x \in Wallets,
           \A w \in Wallets : w # x => new[w] = rows[w],
           new[x].balance + new[x].frozen = rows[x].balance + rows[x].frozen
    PROVE  Money(new) = Money(rows)
<1>1. [w \in Wallets |-> new[w].balance + new[w].frozen]
        = [w \in Wallets |-> rows[w].balance + rows[w].frozen]
  OBVIOUS
<1> QED
  BY <1>1 DEF Money

\* A contract is created: its amount goes into the escrow of its creator.
LEMMA ExactCreate ==
    ASSUME NEW rows \in [Wallets -> WalletRow], NEW new \in [Wallets -> WalletRow],
           NEW cs, NEW ds, NEW S \in SUBSET Contracts, Exact(rows, cs, S), Priced(cs, S),
           NEW c \in Contracts, c \notin S, \A d \in S : ds[d] = cs[d],
           ds[c].amount \in Nat, NEW x \in Wallets, ds[c].creator = x,
           new[x].balance = rows[x].balance - ds[c].amount,
           new[x].frozen = rows[x].frozen + ds[c].amount,
           \A w \in Wallets : w # x => new[w] = rows[w]
    PROVE  Exact(new, ds, S \union {c})
<1>1. rows[x].balance \in Int /\ rows[x].frozen \in Int
  BY DEF WalletRow
<1>2. Money(new) = Money(rows)
  BY <1>1, MoneyInRow
<1>3. Priced(ds, S)
  BY DEF Priced
<1>4. \A w \in Wallets : EscrowIn(ds, S, w) = EscrowIn(cs, S, w)
  BY EscrowSame
<1>5. \A w \in Wallets : /\ x = w => EscrowIn(ds, S \union {c}, w) = EscrowIn(ds, S, w) + ds[c].amount
                         /\ x # w => EscrowIn(ds, S \union {c}, w) = EscrowIn(ds, S, w)
  BY <1>3, EscrowAdds
<1>6. \A w \in Wallets : new[w].frozen = EscrowIn(ds, S \union {c}, w)
  BY <1>1, <1>4, <1>5 DEF Exact
<1> QED
  BY <1>2, <1>6 DEF Exact

\* A contract leaves: its amount goes back from the escrow of its creator.
LEMMA ExactRelease ==
    ASSUME NEW rows \in [Wallets -> WalletRow], NEW new \in [Wallets -> WalletRow],
           NEW cs, NEW S \in SUBSET Contracts, Exact(rows, cs, S), Priced(cs, S),
           NEW c \in S, NEW x \in Wallets, cs[c].creator = x,
           new[x].balance = rows[x].balance + cs[c].amount,
           new[x].frozen = rows[x].frozen - cs[c].amount,
           \A w \in Wallets : w # x => new[w] = rows[w]
    PROVE  Exact(new, cs, S \ {c})
<1>1. rows[x].balance \in Int /\ rows[x].frozen \in Int /\ cs[c].amount \in Int
  BY DEF WalletRow, Priced
<1>2. Money(new) = Money(rows)
  BY <1>1, MoneyInRow
<1>3. \A w \in Wallets : /\ x = w => EscrowIn(cs, S \ {c}, w) = EscrowIn(cs, S, w) - cs[c].amount
                         /\ x # w => EscrowIn(cs, S \ {c}, w) = EscrowIn(cs, S, w)
  BY EscrowLeaves
<1>4. \A w \in Wallets : new[w].frozen = EscrowIn(cs, S \ {c}, w)
  BY <1>1, <1>3 DEF Exact
<1> QED
  BY <1>2, <1>4 DEF Exact
-----------------------------------------------------------------------------
(* Money: the invariant. *)

\* The contracts whose escrow is still on the rows as the run sees them, and those of them
\* that the run has locked.
Open == {c \in Active : verdict[c].status = "active" \/ (refund # NoRefund /\ c = eod.contract)}
Mine == {c \in Contracts : rowlock[c] = Eod /\ verdict[c].status = "active"}

\* Nobody else commits a row the run has written; a run that is over has left nothing; a
\* pending refund is of the last contract, which has failed; what is still to do is undecided.
RunApart ==
    /\ \A w \in Wallets : draft[w] # NoRow => lock[w] \in {Eod, EodUpdate}
    /\ eod.step = "idle" =>
         /\ \A w \in Wallets : copy[w] = NoRow /\ draft[w] = NoRow
         /\ \A c \in Contracts : verdict[c] = NoVerdict
    /\ refund # NoRefund =>
         /\ eod.step = "next" /\ eod.contract \in Contracts /\ rowlock[eod.contract] = Eod
         /\ verdict[eod.contract].status = "failed" /\ refund.wallet = Current.creator
         /\ copy[refund.wallet] = Refunded(refund.base, Current.amount)
    /\ \A c \in todo : verdict[c].status = "active"
    /\ eod.step = "wallets" => eod.contract \notin todo /\ verdict[eod.contract].status = "active"

\* A contract is between two wallets.
SidesApart ==
    /\ \A r \in Requests : pc[r] = "lock" /\ call[r].op # "condition" => call[r].from # call[r].to
    /\ \A c \in Created : contract[c].creator # contract[c].receiver

\* Copies, out of date or not, have at least the escrow of the contracts the run has yet to
\* decide, and so has the base of a pending refund.
CopiesSuffice ==
    /\ \A w \in Wallets : copy[w] # NoRow => copy[w].frozen >= EscrowIn(contract, Mine, w)
    /\ refund # NoRefund => refund.base.frozen >= Current.amount

SeenRows == [w \in Wallets |-> InTransaction(w)]

\* While no newer row is overwritten, the tables are exact for the active contracts, and the
\* rows as the run sees them for those it has not settled.
Books ==
    /\ IInv /\ RunApart /\ SidesApart
    /\ ~overwrote => /\ CopiesSuffice
                     /\ Exact(wallet, contract, Active) /\ Exact(SeenRows, contract, Open)

\* What the run has yet to decide is open, and what is open is active.
LEMMA OpenIsActive ==
    ASSUME IInv
    PROVE  /\ Mine \subseteq Open /\ Open \subseteq Active
           /\ Active \in SUBSET Contracts /\ Open \in SUBSET Contracts /\ Mine \in SUBSET Contracts
           /\ Priced(contract, Active) /\ Priced(contract, Open) /\ Priced(contract, Mine)
           /\ \A c \in Active : /\ contract[c] \in ContractRow /\ contract[c].amount \in Nat
                                /\ contract[c].amount > 0
           /\ wallet \in [Wallets -> WalletRow] /\ SeenRows \in [Wallets -> WalletRow]
<1>1. Mine \subseteq Open
  BY DEF IInv, VerdictsFit, Mine, Open
<1>2. Open \subseteq Active /\ Active \in SUBSET Contracts
  BY DEF Open, Active, Created
<1>3. \A c \in Active : /\ contract[c] \in ContractRow /\ contract[c].amount \in Nat
                        /\ contract[c].amount > 0
  BY DEF IInv, TypeOK, Active, Created, ContractRow
<1>4. Priced(contract, Active) /\ Priced(contract, Open) /\ Priced(contract, Mine)
  BY <1>1, <1>2, <1>3 DEF Priced
<1>5. SeenRows \in [Wallets -> WalletRow]
  BY SeenIsCovered DEF SeenRows
<1>6. wallet \in [Wallets -> WalletRow]
  BY DEF IInv, TypeOK
<1> QED
  BY <1>1, <1>2, <1>3, <1>4, <1>5, <1>6

\* Exactness depends on the amounts and creators only.
LEMMA ExactSame ==
    ASSUME NEW rows, NEW cs, NEW ds, NEW S, Exact(rows, cs, S),
           \A c \in S : ds[c].amount = cs[c].amount /\ ds[c].creator = cs[c].creator
    PROVE  Exact(rows, ds, S)
<1>1. \A w \in Wallets : EscrowIn(ds, S, w) = EscrowIn(cs, S, w)
  BY EscrowSame
<1> QED
  BY <1>1 DEF Exact

-----------------------------------------------------------------------------
(* Money: the handlers. *)

\* A handler leaves alone what the run has locked.
LEMMA HandlersLeaveRun ==
    ASSUME Books, UNCHANGED workerState,
           \A w \in Wallets : lock[w] \in {Eod, EodUpdate} => lock'[w] = lock[w],
           \A c \in Contracts : rowlock'[c] = Eod <=> rowlock[c] = Eod,
           \A c \in Contracts : rowlock[c] = Eod => contract'[c] = contract[c]
    PROVE  RunApart' /\ (CopiesSuffice => CopiesSuffice')
<1> USE DEF Books, workerState
<1>1. refund # NoRefund => eod.contract \in Contracts /\ Current' = Current
  BY DEF RunApart, Current
<1>2. RunApart'
  BY <1>1 DEF RunApart
<1>3. Mine' = Mine
  BY DEF Mine
<1>4. \A w \in Wallets : EscrowIn(contract', Mine, w) = EscrowIn(contract, Mine, w)
  <2>1. \A c \in Mine : contract'[c] = contract[c]
    BY DEF Mine
  <2> QED
    BY <2>1, EscrowSame
<1>5. CopiesSuffice => CopiesSuffice'
  BY <1>1, <1>3, <1>4 DEF CopiesSuffice
<1> QED
  BY <1>2, <1>5

\* A handler that ends, with what it commits.
LEMMA FinishKeepsBooks ==
    ASSUME Books, IInv', NEW r \in Requests, NEW how \in Answers, Finish(r, how),
           \A c \in Contracts : rowlock[c] = Eod => contract'[c] = contract[c],
           \A c \in Created' : contract'[c].creator # contract'[c].receiver,
           ~overwrote => Exact(wallet', contract', Active') /\ Exact(SeenRows', contract', Open')
    PROVE  Books'
<1> USE DEF Finish
<1>1. r \notin {NoOne, Eod, EodUpdate} /\ how \notin {"idle", "lock", "decide"}
  BY RubleAssumption DEF Answers
<1>2. /\ \A w \in Wallets : lock[w] \in {Eod, EodUpdate} => lock'[w] = lock[w]
      /\ \A c \in Contracts : rowlock'[c] = Eod <=> rowlock[c] = Eod
      /\ overwrote' = overwrote
  BY <1>1, RubleAssumption DEF workerState
<1>3. RunApart' /\ (CopiesSuffice => CopiesSuffice')
  BY <1>2, HandlersLeaveRun
<1>4. SidesApart'
  BY <1>1 DEF Books, SidesApart, IInv, TypeOK
<1> QED
  BY <1>2, <1>3, <1>4 DEF Books

\* The tables are left as they are: exactness is as it was.
LEMMA HandlersCommitNothing ==
    ASSUME Books, UNCHANGED tables, UNCHANGED workerState
    PROVE  /\ Created' = Created
           /\ ~overwrote => Exact(wallet', contract', Active') /\ Exact(SeenRows', contract', Open')
<1>1. Active' = Active /\ Open' = Open /\ SeenRows' = SeenRows /\ Created' = Created
  BY DEF Active, Created, Open, SeenRows, InTransaction, tables, workerState
<1> QED
  BY <1>1 DEF Books, tables
\* A transfer is between two rows the run has not written.
LEMMA CommitTransferKeepsBooks ==
    ASSUME Books, IInv', NEW r \in Requests, CommitTransfer(r)
    PROVE  Books'
<1> DEFINE x == call[r].from
           y == call[r].to
           amount == call[r].amount
<1>1. call[r] \in Calls /\ call[r].op = "transfer" /\ pc[r] = "lock" /\ Unlocked(r) = {}
  BY DEF Books, IInv, LocksFit, CommitTransfer, HoldsWallets
<1>2. /\ amount \in Nat /\ x \in Wallets /\ y \in Wallets /\ x # y
      /\ lock[x] = r /\ lock[y] = r
  <2>1. amount \in Nat /\ x \in Wallets /\ y \in Wallets
    BY <1>1, CallShape DEF CommitTransfer, TransferAllowed, TransferCall
  <2>2. x # y
    BY <1>1 DEF Books, SidesApart
  <2> QED
    BY <1>1, <2>1, <2>2 DEF Unlocked, RowsToLock
<1>3. /\ wallet' = [wallet EXCEPT ![x].balance = @ - amount, ![y].balance = @ + amount]
      /\ Finish(r, "committed") /\ UNCHANGED <<contract, paid>> /\ UNCHANGED workerState
  BY DEF CommitTransfer, Finish
<1> HIDE DEF x, y, amount
<1>4. wallet \in [Wallets -> WalletRow] /\ SeenRows \in [Wallets -> WalletRow]
  BY OpenIsActive DEF Books
<1>5. /\ wallet'[x].balance = wallet[x].balance - amount /\ wallet'[x].frozen = wallet[x].frozen
      /\ wallet'[y].balance = wallet[y].balance + amount /\ wallet'[y].frozen = wallet[y].frozen
      /\ \A w \in Wallets : w # x /\ w # y => wallet'[w] = wallet[w]
  BY <1>2, <1>3, <1>4 DEF WalletRow
<1>6. draft[x] = NoRow /\ draft[y] = NoRow /\ draft' = draft
  BY <1>2, <1>3, RubleAssumption DEF Books, RunApart, workerState
<1>7. /\ SeenRows[x] = wallet[x] /\ SeenRows[y] = wallet[y]
      /\ SeenRows'[x] = wallet'[x] /\ SeenRows'[y] = wallet'[y]
      /\ \A w \in Wallets : w # x /\ w # y => SeenRows'[w] = SeenRows[w]
  BY <1>2, <1>5, <1>6 DEF SeenRows, InTransaction
<1>8. wallet' \in [Wallets -> WalletRow] /\ SeenRows' \in [Wallets -> WalletRow]
  <2>1. wallet' \in [Wallets -> WalletRow]
    BY DEF IInv, TypeOK
  <2>2. \A w \in Wallets : SeenRows'[w] \in WalletRow
    BY <1>2, <1>4, <1>7, <2>1
  <2> QED
    BY <2>1, <2>2 DEF SeenRows
<1>9. /\ wallet[x].balance \in Int /\ wallet[y].balance \in Int
      /\ wallet'[x].balance + wallet'[y].balance = wallet[x].balance + wallet[y].balance
  <2>1. wallet[x].balance \in Int /\ wallet[y].balance \in Int
    BY <1>2, <1>4 DEF WalletRow
  <2> QED
    BY ONLY <1>2, <1>5, <2>1
<1>10. Active' = Active /\ Open' = Open /\ Created' = Created
  BY <1>3 DEF Active, Created, Open, workerState
<1>11. ASSUME ~overwrote
       PROVE  Exact(wallet', contract', Active') /\ Exact(SeenRows', contract', Open')
  <2>1. Exact(wallet', contract, Active)
    <3>1. Exact(wallet, contract, Active)
      BY <1>11 DEF Books
    <3> QED
      BY <1>2, <1>4, <1>5, <1>8, <1>9, <3>1, ExactTransfer
  <2>2. Exact(SeenRows', contract, Open)
    <3>1. Exact(SeenRows, contract, Open)
      BY <1>11 DEF Books
    <3>2. /\ SeenRows'[x].frozen = SeenRows[x].frozen /\ SeenRows'[y].frozen = SeenRows[y].frozen
          /\ SeenRows'[x].balance + SeenRows'[y].balance = SeenRows[x].balance + SeenRows[y].balance
      BY <1>5, <1>7, <1>9
    <3> QED
      BY <1>2, <1>4, <1>7, <1>8, <3>1, <3>2, ExactTransfer
  <2> QED
    BY <1>3, <1>10, <2>1, <2>2
<1>12. \A c \in Created' : contract'[c].creator # contract'[c].receiver
  BY <1>3, <1>10 DEF Books, SidesApart
<1> QED
  BY <1>3, <1>11, <1>12, FinishKeepsBooks DEF Answers

\* A creation puts its amount into the escrow of a row the run has not written.
LEMMA CommitCreateKeepsBooks ==
    ASSUME Books, IInv', NEW r \in Requests, CommitCreate(r)
    PROVE  Books'
<1> DEFINE x == call[r].from
           y == call[r].to
           amount == call[r].amount
<1>1. /\ call[r] \in Calls /\ call[r].op = "create" /\ pc[r] = "lock" /\ Unlocked(r) = {}
      /\ Finish(r, "committed") /\ UNCHANGED paid /\ UNCHANGED workerState
  BY DEF Books, IInv, LocksFit, CommitCreate, HoldsWallets, Finish
<1>2. /\ amount \in Nat /\ x \in Wallets /\ x # y /\ lock[x] = r
  <2>1. amount \in Nat /\ x \in Wallets
    BY <1>1, CallShape DEF CreateCall
  <2>2. x # y
    BY <1>1 DEF Books, SidesApart
  <2> QED
    BY <1>1, <2>1, <2>2 DEF Unlocked, RowsToLock
<1>3. PICK c \in Contracts \ Created :
        contract' = [contract EXCEPT ![c] =
            [creator |-> x, receiver |-> y, amount |-> amount,
             condition |-> "pending", status |-> "active"]]
  BY DEF CommitCreate
<1>4. /\ contract'[c].creator = x /\ contract'[c].receiver = y /\ contract'[c].amount = amount
      /\ contract'[c].status = "active"
      /\ \A d \in Contracts : d # c => contract'[d] = contract[d]
  BY <1>3 DEF Books, IInv, TypeOK
<1>5. wallet' = [wallet EXCEPT ![x] = [balance |-> @.balance - amount, frozen |-> @.frozen + amount]]
  BY DEF CommitCreate
<1> HIDE DEF x, y, amount
<1>6. wallet \in [Wallets -> WalletRow] /\ SeenRows \in [Wallets -> WalletRow]
  BY OpenIsActive DEF Books
<1>7. /\ wallet'[x].balance = wallet[x].balance - amount
      /\ wallet'[x].frozen = wallet[x].frozen + amount
      /\ \A w \in Wallets : w # x => wallet'[w] = wallet[w]
  BY <1>2, <1>5, <1>6
<1>8. draft[x] = NoRow /\ draft' = draft
  BY <1>1, <1>2, RubleAssumption DEF Books, RunApart, workerState
<1>9. /\ SeenRows[x] = wallet[x] /\ SeenRows'[x] = wallet'[x]
      /\ \A w \in Wallets : w # x => SeenRows'[w] = SeenRows[w]
  BY <1>2, <1>7, <1>8 DEF SeenRows, InTransaction
<1>10. wallet' \in [Wallets -> WalletRow] /\ SeenRows' \in [Wallets -> WalletRow]
  <2>1. wallet' \in [Wallets -> WalletRow]
    BY DEF IInv, TypeOK
  <2>2. \A w \in Wallets : SeenRows'[w] \in WalletRow
    BY <1>2, <1>6, <1>9, <2>1
  <2> QED
    BY <2>1, <2>2 DEF SeenRows
<1>11. /\ contract'[c] # NoContract /\ Created' = Created \union {c}
       /\ c \notin Active /\ c \notin Open
       /\ verdict[c] = NoVerdict
  <2>1. contract'[c] \in ContractRow \union {NoContract}
    BY DEF IInv, TypeOK
  <2>2. c \in Contracts /\ c \notin Active
    BY DEF Active
  <2>3. verdict[c] = NoVerdict
    BY <2>2 DEF Books, IInv, VerdictsFit
  <2>4. contract'[c] = [creator |-> x, receiver |-> y, amount |-> amount,
                        condition |-> "pending", status |-> "active"]
    BY <1>3 DEF Books, IInv, TypeOK
  <2>5. contract'[c] # NoContract
    <3>1. y \in Wallets /\ amount # 0
      BY <1>1, CallShape DEF CommitCreate, CreateCall, y, amount
    <3> QED
      BY <1>2, <2>4, <3>1, RubleAssumption DEF ContractRow
  <2> QED
    BY <1>4, <2>2, <2>3, <2>5 DEF Created, Open
<1>12. Active' = Active \union {c} /\ Open' = Open \union {c}
  <2>1. Active' = Active \union {c}
    BY <1>4, <1>11 DEF Active, Created
  <2>2. verdict[c].status = "active" /\ UNCHANGED <<verdict, refund, eod>>
    BY <1>1, <1>11 DEF NoVerdict, workerState
  <2> QED
    BY <2>1, <2>2 DEF Open
<1>13. /\ \A d \in Active : contract'[d] = contract[d]
       /\ \A d \in Open : contract'[d] = contract[d]
  BY <1>4, <1>11, OpenIsActive DEF Books
<1>14. contract'[c].amount \in Nat /\ c \in Contracts
  BY <1>2, <1>3, <1>4
<1>15. ASSUME ~overwrote
       PROVE  Exact(wallet', contract', Active') /\ Exact(SeenRows', contract', Open')
  <2>1. Exact(wallet', contract', Active \union {c})
    <3>1. Exact(wallet, contract, Active) /\ Active \in SUBSET Contracts /\ Priced(contract, Active)
      BY <1>15, OpenIsActive DEF Books
    <3> QED
      BY <1>2, <1>4, <1>6, <1>7, <1>10, <1>11, <1>13, <1>14, <3>1, ExactCreate
  <2>2. Exact(SeenRows', contract', Open \union {c})
    <3>1. Exact(SeenRows, contract, Open) /\ Open \in SUBSET Contracts /\ Priced(contract, Open)
      BY <1>15, OpenIsActive DEF Books
    <3>2. /\ SeenRows'[x].balance = SeenRows[x].balance - contract'[c].amount
          /\ SeenRows'[x].frozen = SeenRows[x].frozen + contract'[c].amount
      BY <1>4, <1>7, <1>9
    <3> QED
      BY <1>2, <1>4, <1>6, <1>9, <1>10, <1>11, <1>13, <1>14, <3>1, <3>2, ExactCreate
  <2> QED
    BY <1>12, <2>1, <2>2
<1>16. \A d \in Created' : contract'[d].creator # contract'[d].receiver
  BY <1>2, <1>4, <1>11 DEF Books, SidesApart, Created
<1>17. \A d \in Contracts : rowlock[d] = Eod => contract'[d] = contract[d]
  BY <1>4, <1>11 DEF Books, IInv, VerdictsFit
<1> QED
  BY <1>1, <1>15, <1>16, <1>17, FinishKeepsBooks DEF Answers

\* The oracle's decision moves no money.
LEMMA CommitConditionKeepsBooks ==
    ASSUME Books, IInv', NEW r \in Requests, CommitCondition(r)
    PROVE  Books'
<1> DEFINE c == call[r].contract
           status == call[r].status
<1>1. /\ call[r] \in ConditionCall /\ rowlock[c] = r /\ c \in Active
      /\ contract' = [contract EXCEPT ![c].condition = status]
      /\ Finish(r, "committed") /\ UNCHANGED <<wallet, paid>> /\ UNCHANGED workerState
  BY DEF Books, IInv, LocksFit, CommitCondition, ConditionOpen, Finish
<1>2. c \in Contracts /\ contract[c] \in ContractRow
  BY <1>1 DEF Books, IInv, TypeOK, Active, Created
<1> HIDE DEF c, status
<1>3. /\ contract'[c].status = contract[c].status /\ contract'[c].amount = contract[c].amount
      /\ contract'[c].creator = contract[c].creator /\ contract'[c].receiver = contract[c].receiver
      /\ \A d \in Contracts \ {c} : contract'[d] = contract[d]
  BY <1>1, <1>2 DEF Books, IInv, TypeOK, ContractRow
<1>4. contract'[c] # NoContract
  <2>1. contract'[c] \in ContractRow
    <3>1. contract' = [contract EXCEPT ![c].condition = status] /\ status \in {"fulfilled", "failed"}
      BY <1>1 DEF ConditionCall, status
    <3> QED
      BY <1>2, <3>1 DEF Books, IInv, TypeOK, ContractRow
  <2> QED
    BY <2>1, RubleAssumption
<1>5. Created' = Created /\ Active' = Active
  BY <1>1, <1>2, <1>3, <1>4 DEF Active, Created
<1>6. Open' = Open
  BY <1>1, <1>5 DEF Open, workerState
<1>7. SeenRows' = SeenRows
  BY <1>1 DEF SeenRows, InTransaction, workerState
<1>8. \A d \in Contracts : /\ contract'[d].amount = contract[d].amount
                           /\ contract'[d].creator = contract[d].creator
                           /\ contract'[d].receiver = contract[d].receiver
  BY <1>2, <1>3
<1>9. ASSUME ~overwrote
      PROVE  Exact(wallet', contract', Active') /\ Exact(SeenRows', contract', Open')
  <2>1. Exact(wallet, contract, Active) /\ Exact(SeenRows, contract, Open)
    BY <1>9 DEF Books
  <2>2. Active \in SUBSET Contracts /\ Open \in SUBSET Contracts
    BY OpenIsActive DEF Books
  <2>3. Exact(wallet, contract', Active)
    BY <1>8, <2>1, <2>2, ExactSame
  <2>4. Exact(SeenRows, contract', Open)
    BY <1>8, <2>1, <2>2, ExactSame
  <2> QED
    BY <1>1, <1>5, <1>6, <1>7, <2>3, <2>4
<1>10. \A d \in Created' : contract'[d].creator # contract'[d].receiver
  BY <1>5, <1>8 DEF Books, SidesApart, Created
<1>11. \A d \in Contracts : rowlock[d] = Eod => contract'[d] = contract[d]
  BY <1>1, <1>3, RubleAssumption
<1> QED
  BY <1>1, <1>9, <1>10, <1>11, FinishKeepsBooks DEF Answers

\* A handler that commits nothing.
LEMMA RollbackKeepsBooks ==
    ASSUME Books, IInv', NEW r \in Requests, NEW how \in Answers, Rollback(r, how)
    PROVE  Books'
<1>1. Finish(r, how) /\ UNCHANGED tables /\ UNCHANGED workerState
  BY DEF Rollback, Finish
<1>2. Created' = Created /\ contract' = contract
  BY <1>1, HandlersCommitNothing DEF tables
<1>3. \A c \in Created' : contract'[c].creator # contract'[c].receiver
  BY <1>2 DEF Books, SidesApart
<1> QED
  BY <1>1, <1>2, <1>3, HandlersCommitNothing, FinishKeepsBooks

\* A handler that goes on: a new call is between two wallets.
LEMMA WaitingKeepsBooks ==
    ASSUME Books, IInv', NEW r \in Requests, Receive(r) \/ LockWallet(r) \/ LockContract(r)
    PROVE  Books'
<1>1. UNCHANGED tables /\ UNCHANGED workerState /\ overwrote' = overwrote
  BY DEF Receive, LockWallet, LockContract, workerState
<1>2. r # Eod
  BY RubleAssumption
<1>3. /\ \A w \in Wallets : lock[w] \in {Eod, EodUpdate} => lock'[w] = lock[w]
      /\ \A c \in Contracts : rowlock'[c] = Eod <=> rowlock[c] = Eod
  BY <1>2, RubleAssumption DEF Receive, LockWallet, LockContract, Books, IInv, TypeOK
<1>4. RunApart' /\ (CopiesSuffice => CopiesSuffice')
  BY <1>1, <1>3, HandlersLeaveRun DEF tables
<1>5. ASSUME NEW q \in Requests, pc'[q] = "lock", call'[q].op # "condition"
      PROVE  call'[q].from # call'[q].to
  BY <1>5 DEF Books, SidesApart, IInv, TypeOK, Receive, LockWallet, LockContract
<1>6. SidesApart'
  BY <1>1, <1>5, HandlersCommitNothing DEF Books, SidesApart, tables
<1> QED
  BY <1>1, <1>4, <1>6, HandlersCommitNothing DEF Books
-----------------------------------------------------------------------------
(* Money: the nightly run. *)

\* The worker writes no table before its commit: what is left to show is about its session.
LEMMA RunKeepsBooks ==
    ASSUME Books, IInv', UNCHANGED <<tables, pc, call>>, RunApart',
           ~overwrote' => ~overwrote,
           ~overwrote' => CopiesSuffice' /\ Exact(SeenRows', contract, Open')
    PROVE  Books'
<1>1. Active' = Active /\ Created' = Created /\ wallet' = wallet /\ contract' = contract
  BY DEF Active, Created, tables
<1>2. SidesApart'
  BY <1>1 DEF Books, SidesApart
<1>3. ~overwrote' => ~overwrote
  BY DEF Books, IInv, TypeOK
<1> QED
  BY <1>1, <1>2, <1>3 DEF Books

\* The rows and the open contracts are as they were.
LEMMA SameRows ==
    ASSUME UNCHANGED <<wallet, draft>>
    PROVE  SeenRows' = SeenRows
BY DEF SeenRows, InTransaction

\* The contract of the run is one it has yet to decide; its escrow is on its creator.
LEMMA CurrentIsMine ==
    ASSUME Books, eod.step = "wallets", NEW c, c = eod.contract, NEW x, x = Current.creator
    PROVE  /\ c \in Mine /\ c \in Open /\ c \in Active /\ c \in Contracts /\ c \notin todo
           /\ refund = NoRefund /\ x \in Wallets /\ contract[c] \in ContractRow
           /\ contract[c].creator = x /\ Current = contract[c]
           /\ contract[c].amount \in Nat /\ contract[c].amount > 0
           /\ \A w \in Wallets : EscrowIn(contract, Mine, w) \in Nat
           /\ contract[c].amount <= EscrowIn(contract, Mine, x)
<1>1. /\ c \in Contracts /\ c \in Mine /\ refund = NoRefund /\ c \notin todo
      /\ Current = contract[c] /\ contract[c].creator = x
  BY DEF Books, IInv, RunFits, RunApart, Mine, Current
<1>2. c \in Open /\ c \in Active
  BY <1>1, OpenIsActive DEF Books
<1>3. contract[c] \in ContractRow /\ contract[c].amount \in Nat /\ contract[c].amount > 0
  BY <1>2, OpenIsActive DEF Books
<1>4. x \in Wallets
  BY <1>1, <1>3 DEF ContractRow
<1>5. Mine \in SUBSET Contracts /\ Priced(contract, Mine)
  BY OpenIsActive DEF Books
<1>6. \A w \in Wallets : EscrowIn(contract, Mine, w) \in Nat
  BY <1>5, EscrowIsNat
<1>7. contract[c].amount <= EscrowIn(contract, Mine, x)
  BY <1>1, <1>5, EscrowLess
<1> QED
  BY <1>1, <1>2, <1>3, <1>4, <1>6, <1>7

\* A row that the session reads now has the escrow of the run's contracts too.
LEMMA SeenSuffices ==
    ASSUME Books, ~overwrote, NEW w \in Wallets
    PROVE  /\ Seen(w) \in WalletRow /\ Seen(w).frozen \in Nat
           /\ EscrowIn(contract, Mine, w) \in Nat
           /\ Seen(w).frozen >= EscrowIn(contract, Mine, w)
<1>1. Seen(w) \in WalletRow /\ Seen(w).frozen \in Nat
  BY SeenIsCovered DEF Books, Covered, WalletRow
<1>2. Open \in SUBSET Contracts /\ Priced(contract, Open) /\ Mine \in SUBSET Open
      /\ Mine \in SUBSET Contracts /\ Priced(contract, Mine)
  BY OpenIsActive DEF Books
<1>3. EscrowIn(contract, Mine, w) \in Nat
  BY <1>2, EscrowIsNat
<1>4. CASE copy[w] # NoRow
  BY <1>1, <1>3, <1>4 DEF Books, CopiesSuffice, Seen
<1>5. CASE copy[w] = NoRow
  <2>1. Seen(w) = SeenRows[w]
    BY <1>5 DEF Seen, SeenRows
  <2>2. SeenRows[w].frozen = EscrowIn(contract, Open, w)
    BY DEF Books, Exact
  <2>3. EscrowIn(contract, Mine, w) <= EscrowIn(contract, Open, w)
    BY <1>2, EscrowLess
  <2> QED
    BY <1>1, <1>3, <2>1, <2>2, <2>3
<1> QED
  BY <1>1, <1>3, <1>4, <1>5

\* The run begins with what the tables say.
LEMMA BeginRunKeepsBooks ==
    ASSUME Books, IInv', BeginRun
    PROVE  Books'
<1>1. /\ eod.step = "idle" /\ eod'.step = "next"
      /\ todo' = {c \in Active : rowlock[c] = NoOne}
      /\ UNCHANGED <<tables, lock, pc, call, savepoint, copy, draft, verdict, refund, overwrote>>
  BY DEF BeginRun, At, Books, IInv, TypeOK
<1>2. /\ refund = NoRefund /\ \A c \in Contracts : verdict[c] = NoVerdict
      /\ \A w \in Wallets : copy[w] = NoRow /\ draft[w] = NoRow
  BY <1>1 DEF Books, RunApart, IInv, RunFits
<1>3. \A c \in todo' : verdict'[c].status = "active"
  BY <1>1, <1>2 DEF NoVerdict, Active, Created
<1>4. RunApart'
  BY <1>1, <1>2, <1>3 DEF RunApart
<1>5. Open' = Open
  BY <1>1, <1>2 DEF Open, Active, Created, tables
<1>6. SeenRows' = SeenRows
  BY <1>1, SameRows DEF tables
<1>7. CopiesSuffice'
  BY <1>1, <1>2 DEF CopiesSuffice
<1> QED
  BY <1>1, <1>4, <1>5, <1>6, <1>7, RunKeepsBooks DEF Books

\* The next contract is not decided yet.
LEMMA NextContractKeepsBooks ==
    ASSUME Books, IInv', NextContract
    PROVE  Books'
<1>1. PICK c \in todo : todo' = todo \ {c} /\ eod' = [step |-> "wallets", contract |-> c]
  BY DEF NextContract
<1>2. /\ refund = NoRefund /\ eod'.step = "wallets" /\ eod'.contract = c
      /\ UNCHANGED <<tables, lock, rowlock, pc, call, copy, draft, verdict, refund, overwrote, runs>>
  BY <1>1 DEF NextContract
<1>3. RunApart'
  BY <1>1, <1>2 DEF Books, RunApart
<1>4. Open' = Open /\ Mine' = Mine
  BY <1>2 DEF Open, Mine, Active, Created, tables
<1>5. SeenRows' = SeenRows
  BY <1>2, SameRows DEF tables
<1>6. CopiesSuffice => CopiesSuffice'
  BY <1>2, <1>4 DEF CopiesSuffice, tables
<1> QED
  BY <1>2, <1>3, <1>4, <1>5, <1>6, RunKeepsBooks DEF Books

\* A row that is loaded now has the escrow of the contracts to come.
LEMMA LockParticipantKeepsBooks ==
    ASSUME Books, IInv', LockParticipant
    PROVE  Books'
<1> DEFINE x == NextToLock
<1>1. /\ eod.step = "wallets" /\ ToLock # {}
      /\ lock' = [lock EXCEPT ![x] = Eod] /\ copy' = [copy EXCEPT ![x] = Seen(x)]
      /\ UNCHANGED <<tables, rowlock, pc, call, eod, todo, draft, verdict, refund, overwrote, runs>>
  BY DEF LockParticipant
<1>2. x \in Wallets
  BY <1>1, NextToLockIsWallet DEF Books
<1> HIDE DEF x
<1>3. refund = NoRefund /\ eod.step # "idle"
  BY <1>1 DEF Books, IInv, RunFits
<1>4. RunApart'
  BY <1>1, <1>2, <1>3 DEF Books, RunApart, IInv, TypeOK
<1>5. Open' = Open /\ Mine' = Mine
  BY <1>1 DEF Open, Mine, Active, Created, tables
<1>6. SeenRows' = SeenRows
  BY <1>1, SameRows DEF tables
<1>7. ASSUME ~overwrote
      PROVE  CopiesSuffice'
  <2>1. Seen(x).frozen >= EscrowIn(contract, Mine, x)
    BY <1>2, <1>7, SeenSuffices
  <2>2. copy'[x] = Seen(x) /\ \A w \in Wallets : w # x => copy'[w] = copy[w]
    BY <1>1, <1>2 DEF Books, IInv, TypeOK
  <2>3. \A w \in Wallets : copy'[w] # NoRow => copy'[w].frozen >= EscrowIn(contract, Mine, w)
    BY <1>7, <2>1, <2>2 DEF Books, CopiesSuffice
  <2> QED
    BY <1>1, <1>3, <1>5, <2>3 DEF CopiesSuffice, tables
<1> QED
  BY <1>1, <1>4, <1>5, <1>6, <1>7, RunKeepsBooks DEF Books

\* Rows that a flush writes from copies that were up to date are seen as written.
LEMMA WriteIsSeen ==
    ASSUME Books, NEW S \in SUBSET Wallets, NEW rows \in [S -> WalletRow], Write(rows),
           wallet' = wallet, ~overwrote', \A w \in S : copy[w] \in WalletRow
    PROVE  /\ ~overwrote
           /\ \A w \in Wallets :
                /\ w \in S /\ rows[w] # copy[w] =>
                     copy[w] = SeenRows[w] /\ SeenRows'[w] = rows[w] /\ copy'[w] = rows[w]
                /\ w \notin S \/ rows[w] = copy[w] =>
                     SeenRows'[w] = SeenRows[w] /\ copy'[w] = copy[w]
<1> DEFINE changed == {w \in S : rows[w] # copy[w]}
<1>1. /\ copy' = [w \in Wallets |-> IF w \in changed THEN rows[w] ELSE copy[w]]
      /\ draft' = [w \in Wallets |->
                     IF w \in changed THEN Updated(w, copy[w], rows[w]) ELSE draft[w]]
      /\ overwrote' = (overwrote \/ \E w \in changed : copy[w] # InTransaction(w))
  BY DEF Write
<1>2. ~overwrote /\ \A w \in changed : copy[w] = InTransaction(w)
  <2>1. overwrote \in BOOLEAN
    BY DEF Books, IInv, TypeOK
  <2> HIDE DEF changed
  <2> QED
    BY <1>1, <2>1
<1>3. ASSUME NEW w \in changed
      PROVE  Updated(w, copy[w], rows[w]) = rows[w] /\ rows[w] # NoRow
  <2>1. rows[w] \in WalletRow /\ copy[w] = InTransaction(w)
    BY <1>2
  <2>2. Updated(w, copy[w], rows[w]) = [balance |-> rows[w].balance, frozen |-> rows[w].frozen]
    BY <2>1 DEF Updated
  <2>3. rows[w] = [balance |-> rows[w].balance, frozen |-> rows[w].frozen]
    BY <2>1 DEF WalletRow
  <2> QED
    BY <2>1, <2>2, <2>3, RubleAssumption
<1>4. ASSUME NEW w \in changed
      PROVE  w \in Wallets /\ draft'[w] = rows[w] /\ copy'[w] = rows[w] /\ rows[w] # NoRow
  BY <1>1, <1>3
<1>5. ASSUME NEW w \in Wallets, w \notin changed
      PROVE  draft'[w] = draft[w] /\ copy'[w] = copy[w]
  BY <1>1, <1>5
<1>6. \A w \in Wallets : w \in changed <=> w \in S /\ rows[w] # copy[w]
  OBVIOUS
<1> HIDE DEF changed
<1>7. \A w \in changed : copy[w] = SeenRows[w] /\ SeenRows'[w] = rows[w] /\ copy'[w] = rows[w]
  BY <1>2, <1>4 DEF SeenRows, InTransaction
<1>8. \A w \in Wallets : w \notin changed => SeenRows'[w] = SeenRows[w] /\ copy'[w] = copy[w]
  BY <1>5 DEF SeenRows, InTransaction
<1> QED
  BY <1>2, <1>6, <1>7, <1>8
\* A contract is decided: the copy of its creator has less, and needs less.
LEMMA CopiesRelease ==
    ASSUME Books, CopiesSuffice, eod.step = "wallets", NEW c, c = eod.contract,
           NEW x, x = Current.creator, Mine' = Mine \ {c}, contract' = contract,
           NEW n \in Int, n >= EscrowIn(contract, Mine, x),
           copy'[x].frozen = n - contract[c].amount,
           \A w \in Wallets : w # x /\ copy'[w] # NoRow =>
             copy[w] # NoRow /\ copy'[w].frozen = copy[w].frozen
    PROVE  \A w \in Wallets : copy'[w] # NoRow => copy'[w].frozen >= EscrowIn(contract', Mine', w)
<1>1. /\ c \in Mine /\ x \in Wallets /\ contract[c].creator = x /\ contract[c].amount \in Nat
      /\ \A w \in Wallets : EscrowIn(contract, Mine, w) \in Nat
  BY CurrentIsMine
<1>2. Mine \in SUBSET Contracts /\ Priced(contract, Mine)
  BY OpenIsActive DEF Books
<1>3. ASSUME NEW w \in Wallets
      PROVE  /\ x = w => EscrowIn(contract, Mine \ {c}, w) = EscrowIn(contract, Mine, w) - contract[c].amount
             /\ x # w => EscrowIn(contract, Mine \ {c}, w) = EscrowIn(contract, Mine, w)
  <2>1. c \in Mine /\ contract[c].creator = x
    BY <1>1
  <2> QED
    BY ONLY <1>2, <2>1, EscrowLeaves
<1>4. ASSUME NEW w \in Wallets, copy'[w] # NoRow
      PROVE  copy'[w].frozen >= EscrowIn(contract, Mine \ {c}, w)
  <2>1. CASE w = x
    <3>1. EscrowIn(contract, Mine \ {c}, x) = EscrowIn(contract, Mine, x) - contract[c].amount
      BY <1>1, <1>3
    <3>2. EscrowIn(contract, Mine, x) \in Int /\ contract[c].amount \in Int
      BY <1>1
    <3>3. copy'[x].frozen >= EscrowIn(contract, Mine \ {c}, x)
      BY <3>1, <3>2
    <3> QED
      BY <2>1, <3>3
  <2>2. CASE w # x
    BY <1>3, <1>4, <2>2 DEF CopiesSuffice
  <2> QED
    BY <2>1, <2>2
<1> QED
  BY <1>4

\* The outcome of a contract: it is neither open nor the run's any more, once it is decided.
LEMMA OutcomeFrame ==
    ASSUME Books, Locked, NEW status \in {"active", "executed", "failed"}, NEW sum,
           Decide(status, sum), NEW c, c = eod.contract,
           \A w \in Wallets : draft'[w] # NoRow => draft[w] # NoRow \/ lock[w] = Eod
    PROVE  /\ RunApart' /\ refund' = NoRefund /\ UNCHANGED <<tables, pc, call>>
           /\ status = "active" => Open' = Open /\ Mine' = Mine
           /\ status # "active" => Open' = Open \ {c} /\ Mine' = Mine \ {c}
<1>1. eod.step = "wallets" /\ eod'.step = "next"
      /\ verdict' = [verdict EXCEPT ![c] = [status |-> status, paid |-> sum]]
      /\ UNCHANGED <<tables, lock, rowlock, pc, call, todo, savepoint, refund, runs>>
  BY DEF Locked, Decide, At, Books, IInv, TypeOK
<1>2. c \in Mine /\ c \in Open /\ c \in Contracts /\ c \notin todo /\ refund = NoRefund
  BY <1>1, CurrentIsMine
<1>3. verdict'[c].status = status /\ \A d \in Contracts \ {c} : verdict'[d] = verdict[d]
  BY <1>1, <1>2 DEF Books, IInv, TypeOK
<1>4. \A d \in todo : d \in Contracts \ {c}
  BY <1>2 DEF Books, IInv, TypeOK
<1>5. RunApart'
  <2>1. \A w \in Wallets : draft'[w] # NoRow => lock'[w] \in {Eod, EodUpdate}
    BY <1>1 DEF Books, RunApart
  <2>2. \A d \in todo' : verdict'[d].status = "active"
    BY <1>1, <1>3, <1>4 DEF Books, RunApart
  <2> QED
    BY <1>1, <1>2, <2>1, <2>2 DEF RunApart
<1>6. Active' = Active /\ Active \subseteq Contracts
  BY <1>1 DEF Active, Created, tables
<1>7. /\ \A d \in Active' : d \in Open' <=> verdict'[d].status = "active"
      /\ \A d \in Active : d \in Open <=> verdict[d].status = "active"
  BY <1>1, <1>2 DEF Open
<1>8. /\ status = "active" => Open' = Open
      /\ status # "active" => Open' = Open \ {c}
  <2>1. Open \subseteq Active /\ Open' \subseteq Active'
    BY DEF Open
  <2>2. \A d \in Active : d # c => (d \in Open' <=> d \in Open)
    BY <1>3, <1>6, <1>7
  <2>3. c \in Active /\ (c \in Open' <=> status = "active")
    BY <1>2, <1>3, <1>6, <1>7, <2>1
  <2> QED
    BY <1>2, <1>6, <2>1, <2>2, <2>3
<1>9. /\ status = "active" => Mine' = Mine
      /\ status # "active" => Mine' = Mine \ {c}
  BY <1>1, <1>2, <1>3 DEF Mine
<1> QED
  BY <1>1, <1>2, <1>5, <1>8, <1>9

\* What a flush writes are rows of the contract, which the run has locked.
LEMMA WriteIsLocked ==
    ASSUME Books, Locked, NEW S \in SUBSET Participants, NEW rows \in [S -> WalletRow], Write(rows)
    PROVE  \A w \in Wallets : draft'[w] # NoRow => draft[w] # NoRow \/ lock[w] = Eod
<1>1. \A w \in S : lock[w] = Eod
  BY DEF Locked, ToLock
<1>2. draft' = [w \in Wallets |-> IF w \in {v \in S : rows[v] # copy[v]}
                                  THEN Updated(w, copy[w], rows[w]) ELSE draft[w]]
  BY DEF Write
<1> QED
  BY <1>1, <1>2

\* The rows as the run sees them after a step are rows.
LEMMA SeenRowsAreRows ==
    ASSUME IInv' PROVE SeenRows' \in [Wallets -> WalletRow]
BY RubleAssumption DEF IInv, TypeOK, SeenRows, InTransaction

\* Rows in which only the creator's changes, by the amount of the contract.
LEMMA ReleaseIsExact ==
    ASSUME Books, ~overwrote, NEW c \in Open, NEW x \in Wallets, contract[c].creator = x,
           NEW new \in [Wallets -> WalletRow],
           new[x].balance = SeenRows[x].balance + contract[c].amount,
           new[x].frozen = SeenRows[x].frozen - contract[c].amount,
           \A w \in Wallets : w # x => new[w] = SeenRows[w]
    PROVE  Exact(new, contract, Open \ {c})
<1>1. /\ Open \in SUBSET Contracts /\ Priced(contract, Open) /\ SeenRows \in [Wallets -> WalletRow]
      /\ Exact(SeenRows, contract, Open)
  BY OpenIsActive DEF Books
<1> QED
  BY <1>1, ExactRelease

\* A contract fails and its escrow goes back, all of it.
LEMMA FailContractKeepsBooks ==
    ASSUME Books, IInv', FailContract
    PROVE  Books'
<1>1. PICK c, x : c = eod.contract /\ x = Current.creator
  OBVIOUS
<1> DEFINE amount == contract[c].amount
           rows == [v \in {x} |-> Refunded(copy[x], amount)]
<1>2. Locked /\ eod.step = "wallets"
  BY DEF FailContract, Locked
<1>3. /\ c \in Mine /\ c \in Open /\ x \in Wallets /\ contract[c].creator = x
      /\ Current = contract[c] /\ amount \in Nat /\ amount > 0
      /\ EscrowIn(contract, Mine, x) \in Nat /\ amount <= EscrowIn(contract, Mine, x)
  BY <1>1, <1>2, CurrentIsMine
<1>4. Write(rows) /\ Decide("failed", 0)
  BY <1>1, <1>3 DEF FailContract, RefundCreator
<1>5. x \in Participants /\ copy[x] \in WalletRow /\ copy[x] # NoRow /\ Covered(copy[x])
  <2>1. x \in Participants
    BY <1>1 DEF Participants
  <2> QED
    BY <1>2, <2>1, ParticipantsCopied DEF Books
<1>6. Refunded(copy[x], amount) \in WalletRow
  BY <1>3, <1>5, RefundedIsCovered
<1>7. /\ {x} \in SUBSET Wallets /\ {x} \in SUBSET Participants /\ rows \in [{x} -> WalletRow]
      /\ rows[x] = Refunded(copy[x], amount)
  BY <1>3, <1>5, <1>6
<1> HIDE DEF rows
<1>8. \A w \in Wallets : draft'[w] # NoRow => draft[w] # NoRow \/ lock[w] = Eod
  BY <1>2, <1>4, <1>7, WriteIsLocked
<1>9. /\ RunApart' /\ refund' = NoRefund /\ UNCHANGED <<tables, pc, call>>
      /\ Open' = Open \ {c} /\ Mine' = Mine \ {c}
  BY <1>1, <1>2, <1>4, <1>8, OutcomeFrame
<1>10. wallet' = wallet /\ contract' = contract
  BY <1>9 DEF tables
<1>11. ASSUME ~overwrote'
       PROVE  ~overwrote /\ CopiesSuffice' /\ Exact(SeenRows', contract, Open')
  <2>1. /\ ~overwrote
        /\ \A w \in Wallets :
             /\ w \in {x} /\ rows[w] # copy[w] =>
                  copy[w] = SeenRows[w] /\ SeenRows'[w] = rows[w] /\ copy'[w] = rows[w]
             /\ w \notin {x} \/ rows[w] = copy[w] =>
                  SeenRows'[w] = SeenRows[w] /\ copy'[w] = copy[w]
    BY <1>4, <1>5, <1>7, <1>10, <1>11, WriteIsSeen
  <2>2. CopiesSuffice
    BY <2>1 DEF Books
  <2>3. copy[x].frozen >= EscrowIn(contract, Mine, x) /\ copy[x].frozen \in Int /\ copy[x].balance \in Int
    BY <1>3, <1>5, <2>2 DEF CopiesSuffice, WalletRow
  <2>4. rows[x].balance = copy[x].balance + amount /\ rows[x].frozen = copy[x].frozen - amount
    BY <1>3, <1>7, <2>3 DEF Refunded, Lesser
  <2>5. rows[x] # copy[x]
    BY <1>3, <2>3, <2>4
  <2>6. /\ copy[x] = SeenRows[x] /\ SeenRows'[x] = rows[x] /\ copy'[x] = rows[x]
        /\ \A w \in Wallets : w # x => SeenRows'[w] = SeenRows[w] /\ copy'[w] = copy[w]
    BY <1>3, <2>1, <2>5
  <2>7. Exact(SeenRows', contract, Open \ {c})
    <3>1. SeenRows' \in [Wallets -> WalletRow]
      BY SeenRowsAreRows
    <3>2. /\ SeenRows'[x].balance = SeenRows[x].balance + contract[c].amount
          /\ SeenRows'[x].frozen = SeenRows[x].frozen - contract[c].amount
          /\ \A w \in Wallets : w # x => SeenRows'[w] = SeenRows[w]
      BY <2>4, <2>6
    <3> QED
      BY <1>3, <2>1, <3>1, <3>2, ReleaseIsExact
  <2>8. \A w \in Wallets : copy'[w] # NoRow => copy'[w].frozen >= EscrowIn(contract', Mine', w)
    <3>1. /\ copy'[x].frozen = copy[x].frozen - contract[c].amount
          /\ \A w \in Wallets : w # x /\ copy'[w] # NoRow =>
               copy[w] # NoRow /\ copy'[w].frozen = copy[w].frozen
      BY <2>4, <2>6
    <3> QED
      BY <1>1, <1>2, <1>9, <1>10, <2>2, <2>3, <3>1, CopiesRelease
  <2> QED
    BY <1>9, <2>1, <2>7, <2>8 DEF CopiesSuffice
<1> QED
  BY <1>9, <1>11, RunKeepsBooks
\* A contract is executed: its escrow is released, and what it paid goes to its receiver.
LEMMA ExecuteContractKeepsBooks ==
    ASSUME Books, IInv', ExecuteContract
    PROVE  Books'
<1>1. PICK c, x, y : c = eod.contract /\ x = Current.creator /\ y = Current.receiver
  OBVIOUS
<1> DEFINE amount == contract[c].amount
<1>2. PICK sum \in 0..Current.amount :
        Write([w \in Participants |-> Settled(w, sum)]) /\ Decide("executed", sum)
  BY DEF ExecuteContract
<1> DEFINE rows == [w \in Participants |-> Settled(w, sum)]
<1>3. Locked /\ eod.step = "wallets"
  BY DEF ExecuteContract, Locked
<1>4. /\ c \in Mine /\ c \in Open /\ c \in Active /\ x \in Wallets /\ contract[c].creator = x
      /\ contract[c] \in ContractRow
      /\ Current = contract[c] /\ amount \in Nat /\ amount > 0
      /\ EscrowIn(contract, Mine, x) \in Nat /\ amount <= EscrowIn(contract, Mine, x)
  BY <1>1, <1>3, CurrentIsMine
<1>5. Participants = {x, y} /\ y \in Wallets /\ x # y /\ sum \in Nat /\ sum <= amount
  BY <1>1, <1>2, <1>4 DEF Participants, ContractRow, Books, SidesApart, Active
<1>6. \A w \in {x, y} : copy[w] \in WalletRow /\ copy[w] # NoRow /\ Covered(copy[w])
  BY <1>3, <1>5, ParticipantsCopied DEF Books
<1>7. /\ rows[x] = [balance |-> copy[x].balance + (amount - sum),
                    frozen |-> copy[x].frozen - Lesser(copy[x].frozen, amount)]
      /\ rows[y] = [copy[y] EXCEPT !.balance = @ + sum]
      /\ rows \in [Participants -> WalletRow]
  <2>1. Settled(x, sum) = [balance |-> copy[x].balance + (amount - sum),
                           frozen |-> copy[x].frozen - Lesser(copy[x].frozen, amount)]
    BY <1>1, <1>4 DEF Settled
  <2>2. Settled(y, sum) = [copy[y] EXCEPT !.balance = @ + sum]
    BY <1>1, <1>5 DEF Settled
  <2>3. Settled(x, sum) \in WalletRow /\ Settled(y, sum) \in WalletRow
    BY <1>4, <1>5, <1>6, <2>1, <2>2 DEF WalletRow, Lesser
  <2> QED
    BY <1>5, <2>1, <2>2, <2>3
<1>8. Write(rows) /\ Participants \in SUBSET Participants /\ Participants \in SUBSET Wallets
  BY <1>2, <1>4, <1>5
<1> HIDE DEF rows
<1>9. \A w \in Wallets : draft'[w] # NoRow => draft[w] # NoRow \/ lock[w] = Eod
  BY <1>3, <1>7, <1>8, WriteIsLocked
<1>10. /\ RunApart' /\ refund' = NoRefund /\ UNCHANGED <<tables, pc, call>>
       /\ Open' = Open \ {c} /\ Mine' = Mine \ {c}
  BY <1>1, <1>2, <1>3, <1>9, OutcomeFrame
<1>11. wallet' = wallet /\ contract' = contract
  BY <1>10 DEF tables
<1>12. ASSUME ~overwrote'
       PROVE  ~overwrote /\ CopiesSuffice' /\ Exact(SeenRows', contract, Open')
  <2>1. /\ ~overwrote
        /\ \A w \in Wallets :
             /\ w \in Participants /\ rows[w] # copy[w] =>
                  copy[w] = SeenRows[w] /\ SeenRows'[w] = rows[w] /\ copy'[w] = rows[w]
             /\ w \notin Participants \/ rows[w] = copy[w] =>
                  SeenRows'[w] = SeenRows[w] /\ copy'[w] = copy[w]
    BY <1>5, <1>6, <1>7, <1>8, <1>11, <1>12, WriteIsSeen
  <2>2. CopiesSuffice
    BY <2>1 DEF Books
  <2>3. copy[x].frozen >= EscrowIn(contract, Mine, x) /\ copy[x].frozen \in Int /\ copy[x].balance \in Int
    BY <1>4, <1>6, <2>2 DEF CopiesSuffice, WalletRow
  <2>4. /\ rows[x].balance = copy[x].balance + (amount - sum)
        /\ rows[x].frozen = copy[x].frozen - amount
    BY <1>4, <1>7, <2>3 DEF Lesser
  <2>5. rows[x] # copy[x]
    BY <1>4, <2>3, <2>4
  <2>6. copy[x] = SeenRows[x] /\ SeenRows'[x] = rows[x] /\ copy'[x] = rows[x]
    BY <1>4, <1>5, <2>1, <2>5
  <2>7. /\ SeenRows'[y].balance = SeenRows[y].balance + sum
        /\ SeenRows'[y].frozen = SeenRows[y].frozen
        /\ copy'[y].frozen = copy[y].frozen
        /\ SeenRows[y].balance \in Int
    <3>1. SeenRows[y] \in WalletRow /\ SeenRows[y].balance \in Int
      BY <1>5, OpenIsActive DEF Books, WalletRow
    <3>2. CASE rows[y] # copy[y]
      <4>1. copy[y] = SeenRows[y] /\ SeenRows'[y] = rows[y] /\ copy'[y] = rows[y]
        BY <1>5, <2>1, <3>2
      <4>2. rows[y].balance = copy[y].balance + sum /\ rows[y].frozen = copy[y].frozen
        BY <1>6, <1>7 DEF WalletRow
      <4> QED
        BY <3>1, <4>1, <4>2
    <3>3. CASE rows[y] = copy[y]
      <4>1. SeenRows'[y] = SeenRows[y] /\ copy'[y] = copy[y]
        BY <1>5, <2>1, <3>3
      <4>2. sum = 0
        <5>1. rows[y].balance = copy[y].balance + sum /\ copy[y].balance \in Int
          BY <1>6, <1>7 DEF WalletRow
        <5> QED
          BY <1>5, <3>3, <5>1
      <4> QED
        BY <3>1, <4>1, <4>2
    <3> QED
      BY <3>2, <3>3
  <2>8. \A w \in Wallets : w # x /\ w # y => SeenRows'[w] = SeenRows[w] /\ copy'[w] = copy[w]
    BY <1>5, <2>1
  <2>9. Exact(SeenRows', contract, Open \ {c})
    <3>1. SeenRows \in [Wallets -> WalletRow] /\ SeenRows' \in [Wallets -> WalletRow]
      BY SeenRowsAreRows, OpenIsActive DEF Books
    <3>2. SeenRows[x].balance \in Int /\ SeenRows[x].frozen \in Int
      BY <2>3, <2>6
    <3>3. PICK row : row = [balance |-> SeenRows[x].balance + amount, frozen |-> SeenRows[x].frozen - amount]
      OBVIOUS
    <3>4. PICK mid : mid = [SeenRows EXCEPT ![x] = row]
      OBVIOUS
    <3>5. /\ row \in WalletRow /\ row.balance = SeenRows[x].balance + amount
          /\ row.frozen = SeenRows[x].frozen - amount
      BY <1>4, <3>2, <3>3 DEF WalletRow
    <3>6. /\ mid \in [Wallets -> WalletRow]
          /\ mid[x] = row /\ \A w \in Wallets : w # x => mid[w] = SeenRows[w]
      BY <1>4, <3>1, <3>4, <3>5
    <3>7. Exact(mid, contract, Open \ {c})
      <4>1. mid[x].balance = SeenRows[x].balance + contract[c].amount
        BY <3>5, <3>6
      <4>2. mid[x].frozen = SeenRows[x].frozen - contract[c].amount
        BY <3>5, <3>6
      <4> QED
        BY <1>4, <2>1, <3>6, <4>1, <4>2, ReleaseIsExact
    <3>8. /\ SeenRows'[x].frozen = mid[x].frozen /\ SeenRows'[y].frozen = mid[y].frozen
          /\ \A w \in Wallets : w # x /\ w # y => SeenRows'[w] = mid[w]
      BY <1>4, <1>5, <2>4, <2>6, <2>7, <2>8, <3>5, <3>6
    <3>9. SeenRows'[x].balance + SeenRows'[y].balance = mid[x].balance + mid[y].balance
      <4>1. /\ SeenRows'[x].balance = SeenRows[x].balance + (amount - sum)
            /\ SeenRows'[y].balance = SeenRows[y].balance + sum
            /\ mid[x].balance = SeenRows[x].balance + amount
            /\ mid[y].balance = SeenRows[y].balance
        BY <1>5, <2>4, <2>6, <2>7, <3>5, <3>6
      <4>2. amount \in Int /\ sum \in Int /\ SeenRows[y].balance \in Int
        BY <1>4, <1>5, <2>7
      <4> QED
        BY ONLY <3>2, <4>1, <4>2
    <3> QED
      BY <1>4, <1>5, <3>1, <3>6, <3>7, <3>8, <3>9, ExactTransfer
  <2>10. \A w \in Wallets : copy'[w] # NoRow => copy'[w].frozen >= EscrowIn(contract', Mine', w)
    <3>1. /\ copy'[x].frozen = copy[x].frozen - contract[c].amount
          /\ \A w \in Wallets : w # x /\ copy'[w] # NoRow =>
               copy[w] # NoRow /\ copy'[w].frozen = copy[w].frozen
      BY <1>6, <2>4, <2>6, <2>7, <2>8
    <3> QED
      BY <1>1, <1>3, <1>10, <1>11, <2>2, <2>3, <3>1, CopiesRelease
  <2> QED
    BY <1>10, <2>1, <2>9, <2>10 DEF CopiesSuffice
<1> QED
  BY <1>10, <1>12, RunKeepsBooks

\* A contract that did not complete keeps its escrow.
LEMMA LeavePendingKeepsBooks ==
    ASSUME Books, IInv', LeavePending
    PROVE  Books'
<1>1. Locked /\ Decide("active", 0) /\ UNCHANGED <<copy, draft, overwrote>>
  BY DEF LeavePending, WriteNothing
<1>2. /\ RunApart' /\ refund' = NoRefund /\ UNCHANGED <<tables, pc, call>>
      /\ Open' = Open /\ Mine' = Mine
  BY <1>1, OutcomeFrame
<1>3. SeenRows' = SeenRows
  BY <1>1, <1>2, SameRows DEF tables
<1>4. CopiesSuffice => CopiesSuffice'
  BY <1>1, <1>2 DEF CopiesSuffice, tables
<1> QED
  BY <1>1, <1>2, <1>3, <1>4, RunKeepsBooks DEF Books

\* The error path frees locks only of rows that are not written, or not to be overtaken; the
\* refund it keeps is of an escrow that is there.
LEMMA ErrorPathKeepsBooks ==
    ASSUME Books, IInv', ErrorPath, eod.step = "wallets"
    PROVE  Books'
<1>1. PICK c, x : c = eod.contract /\ x = Current.creator
  OBVIOUS
<1> DEFINE amount == contract[c].amount
<1>2. /\ c \in Mine /\ c \in Open /\ c \in Active /\ c \in Contracts /\ c \notin todo /\ refund = NoRefund
      /\ x \in Wallets /\ contract[c].creator = x
      /\ Current = contract[c] /\ amount \in Nat /\ amount > 0
      /\ EscrowIn(contract, Mine, x) \in Nat /\ amount <= EscrowIn(contract, Mine, x)
  BY <1>1, CurrentIsMine
<1>3. /\ lock' = [v \in Wallets |->
                    IF v \notin savepoint THEN lock[v]
                    ELSE IF draft[v] # NoRow THEN EodUpdate ELSE NoOne]
      /\ refund' = [wallet |-> x, base |-> Seen(x)]
      /\ copy' = [copy EXCEPT ![x] = Refunded(Seen(x), amount)]
      /\ verdict' = [verdict EXCEPT ![c] = [status |-> "failed", paid |-> 0]]
      /\ eod' = [eod EXCEPT !.step = "next"]
      /\ UNCHANGED <<tables, rowlock, pc, call, todo, draft, overwrote, runs>>
  BY <1>1, <1>2 DEF ErrorPath, At
<1>4. /\ eod'.step = "next" /\ eod'.contract = c
      /\ verdict'[c].status = "failed" /\ \A d \in Contracts \ {c} : verdict'[d] = verdict[d]
      /\ refund' # NoRefund /\ refund'.wallet = x /\ refund'.base = Seen(x)
      /\ copy'[x] = Refunded(Seen(x), amount)
      /\ \A w \in Wallets : w # x => copy'[w] = copy[w]
  <2>1. eod'.step = "next" /\ eod'.contract = c
    BY <1>1, <1>3 DEF Books, IInv, TypeOK
  <2>2. verdict'[c].status = "failed" /\ \A d \in Contracts \ {c} : verdict'[d] = verdict[d]
    BY <1>2, <1>3 DEF Books, IInv, TypeOK
  <2>3. refund'.wallet = x /\ refund'.base = Seen(x) /\ NoRefund.wallet = NoWallet
    BY <1>3 DEF NoRefund
  <2>4. refund' # NoRefund
    BY <1>2, <2>3, RubleAssumption
  <2>5. copy'[x] = Refunded(Seen(x), amount) /\ \A w \in Wallets : w # x => copy'[w] = copy[w]
    BY <1>2, <1>3 DEF Books, IInv, TypeOK
  <2> QED
    BY <2>1, <2>2, <2>3, <2>4, <2>5
<1>5. Current' = contract[c] /\ rowlock'[c] = Eod
  BY <1>2, <1>3, <1>4 DEF Current, Mine, tables
<1>6. \A d \in todo : d \in Contracts \ {c}
  BY <1>2 DEF Books, IInv, TypeOK
<1>7. RunApart'
  <2>1. \A w \in Wallets : draft'[w] # NoRow => lock'[w] \in {Eod, EodUpdate}
    BY <1>3 DEF Books, RunApart
  <2>2. \A d \in todo' : verdict'[d].status = "active"
    BY <1>3, <1>4, <1>6 DEF Books, RunApart
  <2>3. copy'[refund'.wallet] = Refunded(refund'.base, Current'.amount)
    BY <1>4, <1>5
  <2>4. refund'.wallet = Current'.creator
    BY <1>2, <1>4, <1>5
  <2> QED
    BY <1>2, <1>4, <1>5, <2>1, <2>2, <2>3, <2>4 DEF RunApart
<1>8. Open' = Open
  <2>1. Active' = Active /\ Active \subseteq Contracts
    BY <1>3 DEF Active, Created, tables
  <2>2. \A d \in Active : d # c => (d \in Open' <=> d \in Open)
    BY <1>2, <1>4, <2>1 DEF Open
  <2>3. c \in Open'
    BY <1>2, <1>4, <2>1 DEF Open
  <2>4. Open \subseteq Active /\ Open' \subseteq Active'
    BY DEF Open
  <2> QED
    BY <1>2, <2>1, <2>2, <2>3, <2>4
<1>9. Mine' = Mine \ {c}
  BY <1>2, <1>3, <1>4 DEF Mine
<1>10. SeenRows' = SeenRows /\ contract' = contract
  BY <1>3, SameRows DEF tables
<1>11. ASSUME ~overwrote
       PROVE  CopiesSuffice'
  <2>1. /\ Seen(x).frozen \in Int /\ Seen(x).frozen >= EscrowIn(contract, Mine, x)
        /\ Seen(x).frozen >= amount
    <3>1. Seen(x).frozen \in Nat /\ Seen(x).frozen >= EscrowIn(contract, Mine, x)
      BY <1>2, <1>11, SeenSuffices
    <3> QED
      BY <1>2, <3>1
  <2>2. copy'[x].frozen = Seen(x).frozen - amount
    BY <1>2, <1>4, <2>1 DEF Refunded, Lesser
  <2>3. CopiesSuffice
    BY <1>11 DEF Books
  <2>4. \A w \in Wallets : w # x /\ copy'[w] # NoRow =>
          copy[w] # NoRow /\ copy'[w].frozen = copy[w].frozen
    BY <1>4
  <2>5. \A w \in Wallets : copy'[w] # NoRow => copy'[w].frozen >= EscrowIn(contract', Mine', w)
    BY <1>1, <1>9, <1>10, <2>1, <2>2, <2>3, <2>4, CopiesRelease
  <2>6. refund'.base.frozen >= Current'.amount
    BY <1>4, <1>5, <2>1
  <2> QED
    BY <2>5, <2>6 DEF CopiesSuffice
<1> QED
  BY <1>3, <1>7, <1>8, <1>10, <1>11, RunKeepsBooks DEF Books
\* The flush of a refund gives an escrow back to its creator.
LEMMA FlushRefundKeepsBooks ==
    ASSUME Books, IInv', FlushRefund
    PROVE  Books'
<1>1. PICK c, x, base : c = eod.contract /\ x = refund.wallet /\ base = refund.base
  OBVIOUS
<1> DEFINE amount == contract[c].amount
<1>2. /\ eod.step = "next" /\ refund # NoRefund /\ refund' = NoRefund
      /\ UNCHANGED <<tables, rowlock, pc, call, eod, todo, savepoint, copy, verdict, runs>>
  BY DEF FlushRefund
<1>3. /\ c \in Contracts /\ rowlock[c] = Eod /\ verdict[c].status = "failed"
      /\ contract[c].creator = x /\ copy[x] = Refunded(base, amount)
  BY <1>1, <1>2 DEF Books, RunApart, Current
<1>4. /\ c \in Active /\ c \in Open /\ contract[c] \in ContractRow
      /\ amount \in Nat /\ amount > 0 /\ x \in Wallets
  <2>1. c \in Active
    BY <1>3 DEF Books, IInv, VerdictsFit
  <2>2. contract[c] \in ContractRow /\ amount \in Nat /\ amount > 0
    BY <2>1, OpenIsActive DEF Books
  <2> QED
    BY <1>1, <1>2, <1>3, <2>1, <2>2 DEF Open, ContractRow
<1>5. base \in WalletRow /\ base.frozen \in Int /\ base.balance \in Int
      /\ copy[x] \in WalletRow /\ copy[x] # NoRow
  <2>1. base \in WalletRow
    BY <1>1, <1>2 DEF Books, IInv, TypeOK
  <2>2. copy[x] # NoRow
    BY <1>1, <1>2 DEF Books, IInv, RunFits
  <2> QED
    BY <1>4, <2>1, <2>2 DEF Books, IInv, TypeOK, WalletRow
<1>6. /\ \A w \in Wallets : w # x => draft'[w] = draft[w]
      /\ \A w \in Wallets : draft'[w] # NoRow => lock'[w] \in {Eod, EodUpdate}
  BY <1>1, <1>4 DEF FlushRefund, Books, RunApart, IInv, TypeOK
<1>7. RunApart'
  BY <1>2, <1>6 DEF Books, RunApart
<1>8. Open' = Open \ {c}
  BY <1>1, <1>2, <1>3 DEF Open, Active, Created, tables
<1>9. Mine' = Mine /\ contract' = contract /\ wallet' = wallet
  BY <1>2 DEF Mine, tables
<1>10. ~overwrote' => ~overwrote
  BY DEF FlushRefund, Books, IInv, TypeOK
<1>11. ASSUME ~overwrote'
       PROVE  CopiesSuffice' /\ Exact(SeenRows', contract, Open')
  <2>1. CopiesSuffice /\ ~overwrote
    BY <1>10, <1>11 DEF Books
  <2>2. base.frozen >= amount
    BY <1>1, <1>2, <2>1 DEF CopiesSuffice, Current
  <2>3. copy[x].frozen = base.frozen - amount /\ copy[x].balance = base.balance + amount
    BY <1>3, <1>4, <1>5, <2>2 DEF Refunded, Lesser
  <2>4. copy[x] # base
    BY <1>4, <1>5, <2>3
  <2>5. draft' = [draft EXCEPT ![x] = Updated(x, base, copy[x])] /\ base = InTransaction(x)
    <3>1. ~(copy[x] = base)
      BY <2>4
    <3>2. /\ draft' = [draft EXCEPT ![x] = Updated(x, base, copy[x])]
          /\ overwrote' = (overwrote \/ base # InTransaction(x))
      BY <1>1, <3>1 DEF FlushRefund
    <3> QED
      BY <1>11, <2>1, <3>2
  <2>6. Updated(x, base, copy[x]) = copy[x]
    <3>1. Updated(x, base, copy[x]) = [balance |-> copy[x].balance, frozen |-> copy[x].frozen]
      BY <2>5 DEF Updated
    <3>2. copy[x] = [balance |-> copy[x].balance, frozen |-> copy[x].frozen]
      BY <1>5 DEF WalletRow
    <3> QED
      BY <3>1, <3>2
  <2>7. SeenRows[x] = base /\ SeenRows'[x] = copy[x]
        /\ \A w \in Wallets : w # x => SeenRows'[w] = SeenRows[w]
    <3>1. draft'[x] = copy[x]
      BY <1>4, <2>5, <2>6 DEF Books, IInv, TypeOK
    <3> QED
      BY <1>4, <1>5, <1>6, <1>9, <2>5, <3>1 DEF SeenRows, InTransaction
  <2>8. Exact(SeenRows', contract, Open \ {c})
    <3>1. /\ SeenRows' \in [Wallets -> WalletRow]
          /\ SeenRows'[x].balance = SeenRows[x].balance + contract[c].amount
          /\ SeenRows'[x].frozen = SeenRows[x].frozen - contract[c].amount
      BY <2>3, <2>7, SeenRowsAreRows
    <3> QED
      BY <1>3, <1>4, <2>1, <2>7, <3>1, ReleaseIsExact
  <2>9. CopiesSuffice'
    BY <1>2, <1>9, <2>1 DEF CopiesSuffice
  <2> QED
    BY <1>8, <2>8, <2>9
<1> QED
  BY <1>2, <1>7, <1>10, <1>11, RunKeepsBooks

\* A session that is forgotten leaves the rows of the tables.
LEMMA ForgottenRun ==
    ASSUME Books, IInv', EndRun
    PROVE  /\ RunApart' /\ CopiesSuffice' /\ UNCHANGED <<pc, call, overwrote>>
           /\ SeenRows' = wallet' /\ Open' = Active'
<1>1. /\ eod'.step = "idle" /\ todo' = {} /\ refund' = NoRefund
      /\ \A w \in Wallets : copy'[w] = NoRow /\ draft'[w] = NoRow
      /\ \A c \in Contracts : verdict'[c] = NoVerdict
      /\ UNCHANGED <<pc, call, overwrote>>
  BY DEF EndRun
<1>2. RunApart' /\ CopiesSuffice'
  BY <1>1 DEF RunApart, CopiesSuffice
<1>3. SeenRows' = wallet'
  BY <1>1 DEF SeenRows, InTransaction, IInv, TypeOK
<1>4. Open' = Active'
  BY <1>1 DEF Open, Active, Created, NoVerdict
<1> QED
  BY <1>1, <1>2, <1>3, <1>4

\* A run that dies loses its session only.
LEMMA LostRunKeepsBooks ==
    ASSUME Books, IInv', EndRun, UNCHANGED tables
    PROVE  Books'
<1>1. /\ RunApart' /\ CopiesSuffice' /\ UNCHANGED <<pc, call, overwrote>>
      /\ SeenRows' = wallet' /\ Open' = Active'
  BY ForgottenRun
<1>2. Active' = Active /\ wallet' = wallet
  BY DEF Active, Created, tables
<1>3. ~overwrote => Exact(SeenRows', contract, Open')
  BY <1>1, <1>2 DEF Books
<1> QED
  BY <1>1, <1>3, RunKeepsBooks

\* The commit of a run writes the rows as the run sees them, and what it left open is active.
LEMMA CommitRunKeepsBooks ==
    ASSUME Books, IInv', CommitRun
    PROVE  Books'
<1>1. EndRun /\ refund = NoRefund /\ wallet' = SeenRows
      /\ contract' = [c \in Contracts |->
            IF verdict[c].status = "active" THEN contract[c]
            ELSE [contract[c] EXCEPT !.status = verdict[c].status]]
  BY DEF CommitRun, SeenRows
<1>2. /\ RunApart' /\ CopiesSuffice' /\ UNCHANGED <<pc, call, overwrote>>
      /\ SeenRows' = wallet' /\ Open' = Active'
  BY <1>1, ForgottenRun
<1>3. ASSUME NEW c \in Contracts
      PROVE  /\ contract'[c] = NoContract <=> contract[c] = NoContract
             /\ contract[c] # NoContract =>
                  /\ contract'[c].amount = contract[c].amount
                  /\ contract'[c].creator = contract[c].creator
                  /\ contract'[c].receiver = contract[c].receiver
             /\ verdict[c].status = "active" => contract'[c] = contract[c]
             /\ verdict[c].status # "active" => contract'[c].status # "active"
  <2>1. CASE verdict[c].status = "active"
    BY <1>1, <2>1
  <2>2. CASE verdict[c].status # "active"
    <3>1. verdict[c] # NoVerdict
      BY <2>2 DEF NoVerdict
    <3>2. contract[c] \in ContractRow
      BY <3>1 DEF Books, IInv, TypeOK, VerdictsFit, Active, Created
    <3>3. contract'[c] = [contract[c] EXCEPT !.status = verdict[c].status]
          /\ verdict[c].status \in {"executed", "failed"}
      BY <1>1, <2>2 DEF Books, IInv, TypeOK
    <3>4. contract'[c] \in ContractRow
      BY <3>2, <3>3 DEF ContractRow
    <3> QED
      BY <2>2, <3>2, <3>3, <3>4, RubleAssumption DEF ContractRow
  <2> QED
    BY <2>1, <2>2
<1>4. Created' = Created
  BY <1>3 DEF Created
<1>5. Active' = Open
  <2>1. \A c \in Created : c \in Contracts /\ (c \in Active' <=> c \in Open)
    BY <1>1, <1>3, <1>4 DEF Active, Open, Created
  <2>2. Active' \subseteq Created' /\ Open \subseteq Created
    BY DEF Active, Open
  <2> QED
    BY <1>4, <2>1, <2>2
<1>6. SidesApart'
  <2>1. \A c \in Created' : contract'[c].creator # contract'[c].receiver
    BY <1>3, <1>4 DEF Books, SidesApart, Created
  <2> QED
    BY <1>2, <2>1 DEF Books, SidesApart
<1>7. ASSUME ~overwrote
      PROVE  Exact(SeenRows, contract', Open)
  <2>1. \A c \in Open : contract'[c].amount = contract[c].amount /\ contract'[c].creator = contract[c].creator
    BY <1>3 DEF Open, Active, Created
  <2>2. Exact(SeenRows, contract, Open)
    BY <1>7 DEF Books
  <2> QED
    BY <2>1, <2>2, ExactSame
<1>8. ~overwrote => Exact(wallet', contract', Active') /\ Exact(SeenRows', contract', Open')
  BY <1>1, <1>2, <1>5, <1>7
<1> QED
  BY <1>2, <1>6, <1>8 DEF Books

-----------------------------------------------------------------------------
(* Money: the invariant holds. *)

\* In the beginning there is no contract, and no escrow.
LEMMA BooksOpen == Init => Books
<1> SUFFICES ASSUME Init PROVE Books
  OBVIOUS
<1>1. IInv
  BY InitFits
<1>2. RunApart /\ SidesApart /\ CopiesSuffice
  BY DEF Init, RunApart, SidesApart, CopiesSuffice, Created
<1>3. Active = {} /\ Open = {}
  BY DEF Init, Open, Active, Created
<1>4. SeenRows = wallet
  BY <1>1 DEF Init, SeenRows, InTransaction, IInv, TypeOK
<1>5. \A w \in Wallets : EscrowIn(contract, {}, w) = 0
  <2> SUFFICES ASSUME NEW w \in Wallets PROVE EscrowIn(contract, {}, w) = 0
    OBVIOUS
  <2>1. {c \in {} : contract[c].creator = w} = {}
    OBVIOUS
  <2>2. EscrowIn(contract, {}, w) = SumFunctionOnSet([c \in {} |-> contract[c].amount], {})
    BY <2>1 DEF EscrowIn
  <2> QED
    BY <2>2, SumOfNothing
<1>6. Money(wallet) = SumFunctionOnSet(Opening, Wallets)
  <2>1. \A w \in Wallets : wallet[w].balance = Opening[w] /\ wallet[w].frozen = 0 /\ Opening[w] \in Nat
    BY RubleAssumption DEF Init
  <2>2. [w \in Wallets |-> wallet[w].balance + wallet[w].frozen] = Opening
    <3>1. \A w \in Wallets : wallet[w].balance + wallet[w].frozen = Opening[w]
      BY <2>1
    <3>2. Opening = [w \in Wallets |-> Opening[w]]
      BY RubleAssumption
    <3> QED
      BY <3>1, <3>2
  <2> QED
    BY <2>2 DEF Money
<1>7. \A w \in Wallets : wallet[w].frozen = 0
  BY DEF Init
<1>8. Exact(wallet, contract, {})
  BY <1>5, <1>6, <1>7 DEF Exact
<1> QED
  BY <1>1, <1>2, <1>3, <1>4, <1>8 DEF Books

\* A step of a handler.
LEMMA StepKeepsBooks ==
    ASSUME Books, IInv', NEW r \in Requests, Receive(r) \/ Step(r) \/ Abort(r)
    PROVE  Books'
<1>1. CASE Receive(r) \/ LockWallet(r) \/ LockContract(r)
  BY <1>1, WaitingKeepsBooks
<1>2. CASE CommitTransfer(r)
  BY <1>2, CommitTransferKeepsBooks
<1>3. CASE CommitCreate(r)
  BY <1>3, CommitCreateKeepsBooks
<1>4. CASE CommitCondition(r)
  BY <1>4, CommitConditionKeepsBooks
<1>5. CASE RejectWalletCall(r) \/ FailCreate(r) \/ RejectCondition(r) \/ Abort(r)
  BY <1>5, RollbackKeepsBooks DEF RejectWalletCall, FailCreate, RejectCondition, Abort, Answers
<1> QED
  BY <1>1, <1>2, <1>3, <1>4, <1>5 DEF Step

\* A step of the worker.
LEMMA WorkerKeepsBooks ==
    ASSUME Books, IInv', BeginRun \/ WorkerStep \/ CrashRun
    PROVE  Books'
<1>1. CASE BeginRun
  BY <1>1, BeginRunKeepsBooks
<1>2. CASE NextContract
  BY <1>2, NextContractKeepsBooks
<1>3. CASE LockParticipant
  BY <1>3, LockParticipantKeepsBooks
<1>4. CASE FailContract
  BY <1>4, FailContractKeepsBooks
<1>5. CASE ExecuteContract
  BY <1>5, ExecuteContractKeepsBooks
<1>6. CASE LeavePending
  BY <1>6, LeavePendingKeepsBooks
<1>7. CASE RaiseInContract
  BY <1>7, ErrorPathKeepsBooks DEF RaiseInContract, Locked
<1>8. CASE FlushRefund
  BY <1>8, FlushRefundKeepsBooks
<1>9. CASE CommitRun
  BY <1>9, CommitRunKeepsBooks
<1>10. CASE CrashRun
  BY <1>10, LostRunKeepsBooks DEF CrashRun
<1> QED
  BY <1>1, <1>2, <1>3, <1>4, <1>5, <1>6, <1>7, <1>8, <1>9, <1>10 DEF WorkerStep

\* A step that changes nothing.
LEMMA StutterKeepsBooks ==
    ASSUME Books, IInv', UNCHANGED vars
    PROVE  Books'
<1>1. UNCHANGED tables /\ UNCHANGED workerState /\ UNCHANGED <<pc, call, lock, rowlock>>
  BY DEF vars, tables, workerState
<1>2. RunApart' /\ (CopiesSuffice => CopiesSuffice')
  BY <1>1, HandlersLeaveRun DEF tables
<1>3. SidesApart'
  BY <1>1 DEF Books, SidesApart, Created, tables
<1>4. overwrote' = overwrote
  BY <1>1 DEF workerState
<1> QED
  BY <1>1, <1>2, <1>3, <1>4, HandlersCommitNothing DEF Books

\* Every step of the system keeps the books.
LEMMA BooksKept == Books /\ [Next]_vars => Books'
<1> SUFFICES ASSUME Books, [Next]_vars PROVE Books'
  OBVIOUS
<1>1. IInv'
  BY NextKeeps DEF Books
<1>2. CASE UNCHANGED vars
  BY <1>1, <1>2, StutterKeepsBooks
<1>3. CASE \E r \in Requests : Receive(r) \/ Step(r) \/ Abort(r)
  BY <1>1, <1>3, StepKeepsBooks
<1>4. CASE BeginRun \/ WorkerStep \/ CrashRun
  BY <1>1, <1>4, WorkerKeepsBooks
<1>5. CASE \E r \in Requests : BreakDeadlock(r)
  BY <1>1, <1>5, RollbackKeepsBooks DEF BreakDeadlock, Answers
<1>6. CASE BreakDeadlockOfRun
  BY <1>1, <1>6, ErrorPathKeepsBooks, LostRunKeepsBooks DEF BreakDeadlockOfRun
<1> QED
  BY <1>2, <1>3, <1>4, <1>5, <1>6 DEF Next, Done, DeadlockBroken

\* The copies the worker keeps of rows it has no lock on are the only way to lose digital
\* rubles: until one of them overwrites a newer row, every frozen balance is exactly the
\* escrow of the active contracts and no money is made or lost, whatever the interleaving of
\* handlers, settlements, error paths, crashes and deadlocks.
THEOREM OnlyStaleRowsLoseMoney == Spec => []MoneyLostOnlyByStaleRow
<1>1. Books => MoneyLostOnlyByStaleRow
  BY DEF Books, MoneyLostOnlyByStaleRow, EscrowBacked, MoneyConserved, Exact, Escrow, EscrowIn
<1> QED
  BY <1>1, BooksOpen, BooksKept, PTL DEF Spec
=============================================================================
