-------------------------------- MODULE Sagas --------------------------------
(***************************************************************************)
(* Money moved between two databases: fund_wallet and withdraw_wallet      *)
(* (src/simulations/api/routers/ruble.py) between a bank account and a     *)
(* digital-ruble wallet, open_deposit, open_savings, open_broker_account,  *)
(* close_deposit and close_savings (src/simulations/api/routers/invest.py) *)
(* between a bank account and an investment product.                       *)
(*                                                                         *)
(* Each is a saga: a committed transaction takes the money, a second one   *)
(* in the other database gives it, and an exception of the second runs a   *)
(* third that returns it.  Every transaction reads and writes one row      *)
(* under its FOR UPDATE lock, so it is one step here.                      *)
(***************************************************************************)
EXTENDS Integers, FiniteSets, Functions

CONSTANTS
    Accounts, Wallets, Products,   \* the rows of bank_db, digital_db and invest_db
    Clients,
    Roubles,       \* the accounts in RUB
    Opening,       \* Opening[x]: the row account or wallet x starts as
    Requests,      \* handlers, each serves one call
    Calls,         \* the calls a client may make
    Nobody, NoPlace, NoCall

Places == Accounts \union Wallets \union Products
Statuses == {"none", "active", "blocked", "closed"}
Row == [owner : Clients \union {Nobody}, balance : Int, status : Statuses]

\* A withdrawal names its wallet as source, a funding as destination, and so on.
Call ==
    [op : {"fund"}, source : Accounts \union {NoPlace}, dest : Wallets \union {NoPlace},
     amount : Nat \ {0}]
    \union [op : {"withdraw"}, source : Wallets \union {NoPlace},
            dest : Accounts \union {NoPlace}, amount : Nat \ {0}]
    \union [op : {"open"}, source : Accounts \union {NoPlace}, client : Clients,
            amount : Nat \ {0}]
    \union [op : {"close"}, source : Products, dest : Accounts \union {NoPlace}]

ASSUME SagaAssumption ==
    /\ Accounts \intersect (Wallets \union Products) = {} /\ Wallets \intersect Products = {}
    /\ NoPlace \notin Places /\ Nobody \notin Clients
    /\ IsFiniteSet(Places) /\ IsFiniteSet(Requests)
    /\ Roubles \subseteq Accounts
    /\ Calls \subseteq Call /\ NoCall \notin Calls
    /\ Opening \in [Accounts \union Wallets ->
                      [owner : Clients, balance : Nat, status : Statuses \ {"none"}]]
    /\ \A a \in Accounts : Opening[a].status = "closed" => Opening[a].balance = 0

VARIABLES
    row,       \* row[x]: owner, balance and status of an account, wallet or product
    pc,        \* pc[r]: where handler r is, or how it ended
    call,      \* call[r]: the call it serves
    amount,    \* amount[r]: what its first transaction took
    client,    \* client[r]: the owner of the row it took that from
    did        \* did[r]: the transactions of its saga that have committed

vars == <<row, pc, call, amount, client, did>>

Ended == {"rejected", "done", "undone", "lost"}

Init ==
    /\ row = [x \in Places |-> IF x \in Products
                                 THEN [owner |-> Nobody, balance |-> 0, status |-> "none"]
                                 ELSE Opening[x]]
    /\ pc = [r \in Requests |-> "idle"]
    /\ call = [r \in Requests |-> NoCall]
    /\ amount = [r \in Requests |-> 0]
    /\ client = [r \in Requests |-> Nobody]
    /\ did = [r \in Requests |-> {}]

-----------------------------------------------------------------------------
(* The first transaction takes the money. *)

Exists(x) == x \in Places /\ row[x].status # "none"

\* Mutant: the status of a product is not checked.
MayTakeTwice(c) ==
    /\ Exists(c.source)
    /\ c.op # "close" => row[c.source].status = "active" /\ row[c.source].balance >= c.amount
    /\ c.op \in {"fund", "open"} => c.source \in Roubles
    /\ c.op = "open" => row[c.source].owner = c.client

MayTake(c) ==
    /\ Exists(c.source)
    /\ c.op = "close" => row[c.source].status # "closed"
    /\ c.op # "close" => row[c.source].status = "active" /\ row[c.source].balance >= c.amount
    /\ c.op \in {"fund", "open"} => c.source \in Roubles
    /\ c.op = "open" => row[c.source].owner = c.client

\* Closing a product takes all it has.
Amount(c) == IF c.op = "close" THEN row[c.source].balance ELSE c.amount

Take(r) ==
    /\ pc[r] = "idle"
    /\ \E c \in Calls :
        /\ MayTake(c)
        /\ row' = [row EXCEPT
                     ![c.source].balance = @ - Amount(c),
                     ![c.source].status  = IF c.op = "close" THEN "closed" ELSE @]
        /\ call'   = [call EXCEPT ![r] = c]
        /\ amount' = [amount EXCEPT ![r] = Amount(c)]
        /\ client' = [client EXCEPT ![r] = row[c.source].owner]
    /\ did' = [did EXCEPT ![r] = {"took"}]
    /\ pc'  = [pc EXCEPT ![r] = "took"]

\* A 4xx, or an exception before the first commit.
Refuse(r) ==
    /\ pc[r] = "idle"
    /\ \E c \in Calls : call' = [call EXCEPT ![r] = c]
    /\ pc' = [pc EXCEPT ![r] = "rejected"]
    /\ UNCHANGED <<row, amount, client, did>>

-----------------------------------------------------------------------------
(* The second transaction gives it, in the other database. *)

\* Mutants: the owner, or the status, of the destination is not checked.
MayGiveToAnyone(r) ==
    LET x == call[r].dest IN
    /\ Exists(x) /\ row[x].status = "active"
    /\ x \in Accounts => x \in Roubles
MayGiveToClosed(r) ==
    LET x == call[r].dest IN
    /\ Exists(x) /\ row[x].owner = client[r]
    /\ x \in Accounts => x \in Roubles

MayGive(r) ==
    LET x == call[r].dest IN
    /\ Exists(x) /\ row[x].status = "active" /\ row[x].owner = client[r]
    /\ x \in Accounts => x \in Roubles

Gave(r) ==
    /\ did' = [did EXCEPT ![r] = @ \union {"gave"}]
    /\ pc'  = [pc EXCEPT ![r] = "gave"]
    /\ UNCHANGED <<call, amount, client>>

Give(r) ==
    /\ pc[r] = "took" /\ call[r].op # "open" /\ MayGive(r)
    /\ row' = [row EXCEPT ![call[r].dest].balance = @ + amount[r]]
    /\ Gave(r)

\* A new product row under a fresh account number.
Create(r) ==
    /\ pc[r] = "took" /\ call[r].op = "open"
    /\ \E p \in Products :
        /\ ~Exists(p)
        /\ row' = [row EXCEPT ![p] =
                     [owner |-> call[r].client, balance |-> amount[r], status |-> "active"]]
    /\ Gave(r)

MoveOn(r, from, to) ==
    /\ pc[r] = from /\ pc' = [pc EXCEPT ![r] = to]
    /\ UNCHANGED <<row, call, amount, client, did>>

\* A refusal or any other exception of the second transaction.
Fail(r) == MoveOn(r, "took", "compensate")

\* After its commit: the answer, or an exception that is handled as if nothing had been
\* given (the reply of the commit is lost; for a product, also the refresh of the row and
\* the signature of the receipt).
Succeed(r)         == MoveOn(r, "gave", "done")
FailAfterCommit(r) == MoveOn(r, "gave", "compensate")

-----------------------------------------------------------------------------
(* The compensation returns it. *)

\* Mutant: a product gets its status back and not its balance.
GiveBackStatus(r) ==
    row' = [row EXCEPT
              ![call[r].source].balance = IF call[r].op = "close" THEN @ ELSE @ + amount[r],
              ![call[r].source].status  = IF call[r].op = "close" THEN "active" ELSE @]

\* An account or a wallet is credited whatever its status; a product gets its status and
\* its balance back.
GiveBack(r) ==
    row' = [row EXCEPT
              ![call[r].source].balance = IF call[r].op = "close" THEN amount[r] ELSE @ + amount[r],
              ![call[r].source].status  = IF call[r].op = "close" THEN "active" ELSE @]

Compensate(r) ==
    /\ pc[r] = "compensate"
    /\ GiveBack(r)
    /\ did' = [did EXCEPT ![r] = @ \union {"returned"}]
    /\ pc'  = [pc EXCEPT ![r] = "undone"]
    /\ UNCHANGED <<call, amount, client>>

\* An exception of the compensation is logged and swallowed.
CompensationFails(r) == MoveOn(r, "compensate", "lost")

\* The process dies, or the client goes away and the handler is cancelled: nothing is left
\* that would finish the saga.
Die(r) == \E step \in {"took", "gave", "compensate"} : MoveOn(r, step, "lost")

-----------------------------------------------------------------------------
\* close_account of the bank API.
CloseAccount(a) ==
    /\ row[a].status # "closed" /\ row[a].balance = 0
    /\ row' = [row EXCEPT ![a].status = "closed"]
    /\ UNCHANGED <<pc, call, amount, client, did>>

Step(r) ==
    \/ Give(r) \/ Create(r) \/ Fail(r)
    \/ Succeed(r) \/ FailAfterCommit(r)
    \/ Compensate(r) \/ CompensationFails(r)

AllEnded == (\A r \in Requests : pc[r] \in Ended) /\ UNCHANGED vars

Next ==
    \/ \E r \in Requests : Take(r) \/ Refuse(r) \/ Step(r) \/ Die(r)
    \/ \E a \in Accounts : CloseAccount(a)
    \/ AllEnded

Spec == Init /\ [][Next]_vars

-----------------------------------------------------------------------------
(* Properties. *)

TypeOK ==
    /\ row \in [Places -> Row]
    /\ pc \in [Requests -> {"idle", "took", "gave", "compensate"} \union Ended]
    /\ call \in [Requests -> Calls \union {NoCall}]
    /\ amount \in [Requests -> Int]
    /\ client \in [Requests -> Clients \union {Nobody}]
    /\ did \in [Requests -> SUBSET {"took", "gave", "returned"}]

\* No interleaving of sagas overdraws an account, a wallet or a product.
NonNegative == \A x \in Places : row[x].balance >= 0

Once(r, step) == IF step \in did[r] THEN amount[r] ELSE 0

\* What saga r has taken and neither given nor returned; negative if it did both.
Outstanding(r) == Once(r, "took") - Once(r, "gave") - Once(r, "returned")

HeldBy(c, tbl) ==
    SumFunctionOnSet([x \in DOMAIN tbl |-> tbl[x].balance], {x \in DOMAIN tbl : tbl[x].owner = c})

OutstandingOf(c) ==
    SumFunctionOnSet([r \in Requests |-> Outstanding(r)], {r \in Requests : client[r] = c})

\* Sagas move money only between rows of one client, and all that is missing from a
\* client's rows, or is there too much, is what the sagas on them have left outstanding.
ClientMoneyAccountedFor ==
    \A c \in Clients : HeldBy(c, row) + OutstandingOf(c) = HeldBy(c, Opening)

\* The one credit that does not look at the status is the compensation: there is money on
\* a closed account only if a saga returned it there.
ClosedAccountsEmptyUnlessCompensated ==
    \A a \in Accounts :
        row[a].status = "closed" /\ row[a].balance # 0 =>
            \E r \in Requests : "returned" \in did[r] /\ call[r].source = a

\* However closings of one product race, fail and are compensated, it is paid out once or
\* still active, unless a saga gave the money and then also returned it.
ProductPaidOutOnce ==
    \A p \in Products :
        LET paid == {r \in Requests : call[r] # NoCall /\ call[r].op = "close"
                                        /\ call[r].source = p /\ "gave" \in did[r]
                                        /\ "returned" \notin did[r]} IN
        Cardinality(paid) + (IF row[p].status = "active" THEN 1 ELSE 0) <= 1

\* What the answers let a client believe: as long as none of a client's sagas is between its
\* transactions, none died there and no compensation failed, nothing of the client's money is
\* missing; and there is too much only after a saga that gave the money and returned it too.
MoneyMissingOnlyAfterLostSagas ==
    \A c \in Clients :
        LET of(steps) == {r \in Requests : client[r] = c /\ pc[r] \in steps} IN
        /\ of({"took", "compensate", "lost"}) = {} => HeldBy(c, row) >= HeldBy(c, Opening)
        /\ HeldBy(c, row) > HeldBy(c, Opening) =>
              \E r \in of({"undone"}) : {"gave", "returned"} \subseteq did[r]

=============================================================================
