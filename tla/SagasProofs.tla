----------------------------- MODULE SagasProofs -----------------------------
(***************************************************************************)
(* Theorems about Sagas, for every set of rows, calls and handlers.  The   *)
(* inductive invariant relates the step of a saga to the transactions it   *)
(* has committed, and a product to the one closing that holds its money;   *)
(* with it, each step changes a client's rows by what it does to its saga. *)
(***************************************************************************)
EXTENDS Sagas, OrderAndSums, FiniteSetTheorems, TLAPS

\* The step of a handler, its call and what it has committed belong together.
CallsFit ==
    \A r \in Requests :
        /\ pc[r] # "idle" => call[r] \in Calls
        /\ pc[r] = "idle" => did[r] = {}
        /\ pc[r] \in {"took", "gave", "compensate"} => "took" \in did[r] /\ "returned" \notin did[r]
        /\ "took" \in did[r] => call[r] \in Calls /\ call[r].source \in Places /\ amount[r] >= 0
        /\ "took" \notin did[r] => did[r] = {}

\* A closing whose money has not come back to the product.
Unreturned(r) == "took" \in did[r] /\ "returned" \notin did[r] /\ call[r].op = "close"

\* A product has at most one such closing, and is closed as long as it has one.
ClosingsFit ==
    \A r \in Requests : Unreturned(r) =>
        /\ row[call[r].source].status = "closed"
        /\ \A s \in Requests : Unreturned(s) /\ call[s].source = call[r].source => s = r

IInv ==
    TypeOK /\ NonNegative /\ CallsFit /\ ClosingsFit /\ ClosedAccountsEmptyUnlessCompensated

-----------------------------------------------------------------------------
(* What the steps are made of. *)

\* The fields a call has, by its operation.
LEMMA CallFields ==
    ASSUME NEW c \in Calls
    PROVE  /\ c.op \in {"fund", "withdraw", "open", "close"}
           /\ c.op = "close" => c.source \in Products
           /\ c.op # "close" => c.amount \in Nat \ {0}
           /\ c.op # "close" => c.source \in Accounts \union Wallets \union {NoPlace}
           /\ c.op = "open" => c.client \in Clients
<1>1. c \in Call
  BY SagaAssumption
<1> QED
  BY <1>1 DEF Call

\* Rewriting the balance and the status of a row leaves its owner and the other rows.
LEMMA Rewrite ==
    ASSUME row \in [Places -> Row], NEW x \in Places, NEW b \in Int, NEW st \in Statuses,
           row' = [row EXCEPT ![x].balance = b, ![x].status = st]
    PROVE  /\ row' \in [Places -> Row]
           /\ row'[x].balance = b /\ row'[x].status = st
           /\ \A y \in Places \ {x} : row'[y] = row[y]
  BY DEF Row

\* It keeps its owner.
LEMMA RewriteOwner ==
    ASSUME row \in [Places -> Row], NEW x \in Places, NEW b \in Int, NEW st \in Statuses,
           row' = [row EXCEPT ![x].balance = b, ![x].status = st]
    PROVE  row'[x].owner = row[x].owner
  BY DEF Row

\* A credit of a row leaves its owner, its status and the other rows.
LEMMA Credit ==
    ASSUME row \in [Places -> Row], NEW x \in Places, NEW b \in Int,
           row' = [row EXCEPT ![x].balance = b]
    PROVE  /\ row' \in [Places -> Row]
           /\ row'[x].balance = b /\ row'[x].status = row[x].status
           /\ row'[x].owner = row[x].owner
           /\ \A y \in Places \ {x} : row'[y] = row[y]
  BY DEF Row

\* Closings are of products, so of no account.
LEMMA ProductsAreNotAccounts == Products \intersect Accounts = {}
  BY SagaAssumption

-----------------------------------------------------------------------------
(* The invariant holds initially and every action keeps it. *)

\* The invariant holds initially.
LEMMA InitFits == Init => IInv
<1> SUFFICES ASSUME Init PROVE IInv
  OBVIOUS
<1>1. \A x \in Places : row[x] \in Row /\ row[x].balance >= 0
  BY SagaAssumption DEF Init, Places, Row, Statuses
<1>2. TypeOK
  BY <1>1 DEF Init, TypeOK
<1>3. CallsFit /\ ClosingsFit
  BY DEF Init, CallsFit, ClosingsFit, Unreturned
<1>4. ClosedAccountsEmptyUnlessCompensated
  BY SagaAssumption DEF Init, ClosedAccountsEmptyUnlessCompensated, Places
<1> QED
  BY <1>1, <1>2, <1>3, <1>4 DEF IInv, NonNegative

\* A first transaction takes no more than there is, and closes a product once.
LEMMA TakeKeeps ==
    ASSUME IInv, NEW r \in Requests, Take(r)
    PROVE  IInv'
<1> USE DEF IInv
<1>1. PICK c \in Calls :
        /\ MayTake(c)
        /\ row' = [row EXCEPT
                     ![c.source].balance = @ - Amount(c),
                     ![c.source].status  = IF c.op = "close" THEN "closed" ELSE @]
        /\ call'   = [call EXCEPT ![r] = c]
        /\ amount' = [amount EXCEPT ![r] = Amount(c)]
        /\ client' = [client EXCEPT ![r] = row[c.source].owner]
  BY DEF Take
<1> DEFINE x == c.source
           st == IF c.op = "close" THEN "closed" ELSE row[x].status
<1>2. x \in Places /\ row[x].status # "none" /\ row[x] \in Row
  BY <1>1 DEF MayTake, Exists, TypeOK
<1>3. /\ Amount(c) \in Int /\ Amount(c) >= 0
      /\ row[x].balance \in Int /\ row[x].balance >= Amount(c)
  <2>1. CASE c.op = "close"
    BY <1>2, <2>1 DEF Amount, NonNegative, Row
  <2>2. CASE c.op # "close"
    BY <1>1, <1>2, <2>2, CallFields DEF Amount, MayTake, Row
  <2> QED
    BY <2>1, <2>2
<1>4. st \in Statuses /\ row[x].balance - Amount(c) \in Int
  BY <1>2, <1>3 DEF Row, Statuses
<1>5. row' = [row EXCEPT ![x].balance = row[x].balance - Amount(c), ![x].status = st]
  BY <1>1, <1>2 DEF TypeOK, Row
<1>6. /\ row' \in [Places -> Row]
      /\ row'[x].balance = row[x].balance - Amount(c) /\ row'[x].status = st
      /\ \A y \in Places \ {x} : row'[y] = row[y]
  <2> HIDE DEF x, st
  <2> QED
    BY <1>2, <1>4, <1>5, Rewrite DEF TypeOK
<1>7. /\ pc[r] = "idle" /\ did[r] = {}
      /\ did' = [did EXCEPT ![r] = {"took"}] /\ pc' = [pc EXCEPT ![r] = "took"]
  BY DEF Take, CallsFit
<1>8. TypeOK'
  <2>1. row[x].owner \in Clients \union {Nobody}
    BY <1>2 DEF Row
  <2> QED
    BY <1>1, <1>3, <1>6, <1>7, <2>1 DEF TypeOK
<1>9. NonNegative'
  BY <1>3, <1>6 DEF NonNegative
<1>10. CallsFit'
  BY <1>1, <1>2, <1>3, <1>7 DEF CallsFit, TypeOK
<1>11. ClosingsFit'
  <2>1. \A s \in Requests \ {r} : Unreturned(s)' <=> Unreturned(s)
    BY <1>1, <1>7 DEF Unreturned, TypeOK
  <2>2. \A s \in Requests \ {r} : call'[s] = call[s]
    BY <1>1 DEF TypeOK
  <2>3. call'[r] = c /\ (Unreturned(r)' => c.op = "close")
    BY <1>1 DEF Unreturned, TypeOK
  <2>4. \A s \in Requests : Unreturned(s) => call[s].source \in Places
    BY DEF Unreturned, CallsFit
  <2>5. c.op = "close" => row[x].status # "closed" /\ row'[x].status = "closed"
    BY <1>1, <1>6 DEF MayTake
  <2>6. \A s \in Requests \ {r} : Unreturned(s)' => row'[call[s].source].status = "closed"
    BY <1>6, <2>1, <2>4, <2>5 DEF ClosingsFit
  <2>7. c.op = "close" => \A s \in Requests \ {r} : Unreturned(s)' => call[s].source # x
    BY <2>1, <2>5 DEF ClosingsFit
  <2> QED
    BY <2>1, <2>2, <2>3, <2>5, <2>6, <2>7 DEF ClosingsFit
<1>12. ClosedAccountsEmptyUnlessCompensated'
  <2>1. x \in Accounts => row'[x].status # "closed"
    BY <1>1, <1>6, CallFields, ProductsAreNotAccounts DEF MayTake
  <2>2. \A s \in Requests : "returned" \in did[s] => s # r
    BY <1>7
  <2>3. \A s \in Requests \ {r} : did'[s] = did[s] /\ call'[s] = call[s]
    BY <1>1, <1>7 DEF TypeOK
  <2> QED
    BY <1>6, <2>1, <2>2, <2>3 DEF ClosedAccountsEmptyUnlessCompensated, Places
<1> QED
  BY <1>8, <1>9, <1>10, <1>11, <1>12

\* A refused call has committed nothing.
LEMMA RefuseKeeps ==
    ASSUME IInv, NEW r \in Requests, Refuse(r)
    PROVE  IInv'
<1> USE DEF IInv
<1>1. PICK c \in Calls : call' = [call EXCEPT ![r] = c]
  BY DEF Refuse
<1>2. /\ pc' = [pc EXCEPT ![r] = "rejected"] /\ did[r] = {}
      /\ UNCHANGED <<row, amount, client, did>>
  BY DEF Refuse, CallsFit
<1>3. TypeOK' /\ NonNegative'
  BY <1>1, <1>2 DEF TypeOK, NonNegative, Ended
<1>4. \A s \in Requests \ {r} : call'[s] = call[s] /\ pc'[s] = pc[s]
  BY <1>1, <1>2 DEF TypeOK
<1>5. CallsFit'
  BY <1>1, <1>2, <1>4 DEF CallsFit, TypeOK
<1>6. ClosingsFit'
  <2>1. ~Unreturned(r)'
    BY <1>2 DEF Unreturned
  <2>2. \A s \in Requests \ {r} : Unreturned(s)' <=> Unreturned(s)
    BY <1>2, <1>4 DEF Unreturned
  <2> QED
    BY <1>2, <1>4, <2>1, <2>2 DEF ClosingsFit
<1>7. ClosedAccountsEmptyUnlessCompensated'
  BY <1>2, <1>4 DEF ClosedAccountsEmptyUnlessCompensated
<1> QED
  BY <1>3, <1>5, <1>6, <1>7

\* A step that commits nothing.
LEMMA MoveOnKeeps ==
    ASSUME IInv, NEW r \in Requests, NEW from \in {"took", "gave", "compensate"},
           NEW to \in {"compensate", "done", "lost"}, MoveOn(r, from, to)
    PROVE  IInv'
<1> USE DEF IInv, MoveOn
<1>1. TypeOK' /\ NonNegative'
  BY DEF TypeOK, NonNegative, Ended
<1>2. CallsFit'
  BY DEF CallsFit, TypeOK
<1>3. ClosingsFit'
  BY DEF ClosingsFit, Unreturned
<1>4. ClosedAccountsEmptyUnlessCompensated'
  BY DEF ClosedAccountsEmptyUnlessCompensated
<1> QED
  BY <1>1, <1>2, <1>3, <1>4

\* A saga whose second transaction has committed is as far from returning as before.
LEMMA GaveKeeps ==
    ASSUME IInv, NEW r \in Requests, pc[r] = "took", Gave(r), row' \in [Places -> Row],
           \A x \in Places : row[x].status = "closed" => row'[x] = row[x],
           \A x \in Places : row'[x].balance >= 0,
           \A a \in Accounts : row'[a].status = "closed" => row'[a] = row[a]
    PROVE  IInv'
<1> USE DEF IInv
<1>1. /\ did' = [did EXCEPT ![r] = did[r] \union {"gave"}] /\ pc' = [pc EXCEPT ![r] = "gave"]
      /\ UNCHANGED <<call, amount, client>>
  BY DEF Gave
<1>2. TypeOK'
  BY <1>1 DEF TypeOK
<1>3. NonNegative'
  BY DEF NonNegative
<1>4. CallsFit'
  BY <1>1 DEF CallsFit, TypeOK
<1>5. ClosingsFit'
  <2>1. \A s \in Requests : Unreturned(s)' <=> Unreturned(s)
    BY <1>1 DEF Unreturned, TypeOK, CallsFit
  <2>2. \A s \in Requests : Unreturned(s) => call[s].source \in Places
    BY DEF Unreturned, CallsFit
  <2> QED
    BY <1>1, <2>1, <2>2 DEF ClosingsFit
<1>6. ClosedAccountsEmptyUnlessCompensated'
  BY <1>1 DEF ClosedAccountsEmptyUnlessCompensated, TypeOK
<1> QED
  BY <1>2, <1>3, <1>4, <1>5, <1>6

\* A credit goes to an active row.
LEMMA GiveKeeps ==
    ASSUME IInv, NEW r \in Requests, Give(r)
    PROVE  IInv'
<1> USE DEF IInv
<1> DEFINE x == call[r].dest
<1>1. /\ pc[r] = "took" /\ x \in Places /\ row[x].status = "active" /\ Gave(r)
      /\ row' = [row EXCEPT ![x].balance = row[x].balance + amount[r]]
  BY DEF Give, MayGive, Exists
<1>2. row[x].balance + amount[r] \in Int /\ row[x].balance + amount[r] >= 0
  <2>1. row[x].balance \in Int /\ row[x].balance >= 0
    BY <1>1 DEF TypeOK, Row, NonNegative
  <2>2. amount[r] \in Int /\ amount[r] >= 0
    BY <1>1 DEF TypeOK, CallsFit
  <2> QED
    BY <2>1, <2>2
<1>3. /\ row' \in [Places -> Row]
      /\ row'[x].balance = row[x].balance + amount[r] /\ row'[x].status = row[x].status
      /\ \A y \in Places \ {x} : row'[y] = row[y]
  <2> HIDE DEF x
  <2> QED
    BY <1>1, <1>2, Credit DEF TypeOK
<1>4. \A y \in Places : row[y].status = "closed" => row'[y] = row[y]
  BY <1>1, <1>3
<1>5. \A y \in Places : row'[y].balance >= 0
  BY <1>2, <1>3 DEF NonNegative
<1>6. \A a \in Accounts : row'[a].status = "closed" => row'[a] = row[a]
  BY <1>1, <1>3 DEF Places
<1> QED
  BY <1>1, <1>3, <1>4, <1>5, <1>6, GaveKeeps

\* A new product overwrites no row.
LEMMA CreateKeeps ==
    ASSUME IInv, NEW r \in Requests, Create(r)
    PROVE  IInv'
<1> USE DEF IInv
<1>1. PICK p \in Products :
        /\ ~Exists(p)
        /\ row' = [row EXCEPT ![p] =
                     [owner |-> call[r].client, balance |-> amount[r], status |-> "active"]]
  BY DEF Create
<1>2. pc[r] = "took" /\ call[r].op = "open" /\ Gave(r)
  BY DEF Create
<1>3. amount[r] \in Int /\ amount[r] >= 0 /\ call[r].client \in Clients
  BY <1>2, CallFields DEF TypeOK, CallsFit
<1>4. row' \in [Places -> Row]
  BY <1>1, <1>3 DEF TypeOK, Row, Statuses
<1>5. \A y \in Places : row[y].status = "closed" => row'[y] = row[y]
  BY <1>1 DEF TypeOK, Exists, Places
<1>6. \A y \in Places : row'[y].balance >= 0
  BY <1>1, <1>3 DEF TypeOK, NonNegative
<1>7. \A a \in Accounts : row'[a].status = "closed" => row'[a] = row[a]
  BY <1>1, ProductsAreNotAccounts DEF TypeOK, Places
<1> QED
  BY <1>2, <1>4, <1>5, <1>6, <1>7, GaveKeeps

\* A compensation of a closing is the one that still held the product's money.
LEMMA CompensateKeeps ==
    ASSUME IInv, NEW r \in Requests, Compensate(r)
    PROVE  IInv'
<1> USE DEF IInv
<1> DEFINE x == call[r].source
           b == IF call[r].op = "close" THEN amount[r] ELSE row[x].balance + amount[r]
           st == IF call[r].op = "close" THEN "active" ELSE row[x].status
<1>1. /\ pc[r] = "compensate" /\ "took" \in did[r] /\ "returned" \notin did[r]
      /\ call[r] \in Calls /\ x \in Places /\ amount[r] \in Int /\ amount[r] >= 0
  BY DEF Compensate, CallsFit, TypeOK
<1>2. /\ did' = [did EXCEPT ![r] = did[r] \union {"returned"}]
      /\ pc' = [pc EXCEPT ![r] = "undone"]
      /\ UNCHANGED <<call, amount, client>>
  BY DEF Compensate
<1>3. row[x] \in Row /\ row[x].balance >= 0
  BY <1>1 DEF TypeOK, NonNegative
<1>4. b \in Int /\ b >= 0 /\ st \in Statuses
  BY <1>1, <1>3 DEF Row, Statuses
<1>5. row' = [row EXCEPT ![x].balance = b, ![x].status = st]
  BY <1>1, <1>3 DEF Compensate, GiveBack, TypeOK, Row
<1>6. /\ row' \in [Places -> Row] /\ row'[x].balance = b /\ row'[x].status = st
      /\ \A y \in Places \ {x} : row'[y] = row[y]
  <2> HIDE DEF x, b, st
  <2> QED
    BY <1>1, <1>4, <1>5, Rewrite DEF TypeOK
<1>7. TypeOK'
  BY <1>2, <1>6 DEF TypeOK, Ended
<1>8. NonNegative'
  BY <1>4, <1>6 DEF NonNegative
<1>9. CallsFit'
  BY <1>1, <1>2 DEF CallsFit, TypeOK
<1>10. ClosingsFit'
  <2>1. ~Unreturned(r)'
    BY <1>2 DEF Unreturned, TypeOK
  <2>2. \A s \in Requests \ {r} : Unreturned(s)' <=> Unreturned(s)
    BY <1>2 DEF Unreturned, TypeOK
  <2>3. \A s \in Requests : Unreturned(s) => call[s].source \in Places
    BY DEF Unreturned, CallsFit
  <2>4. call[r].op = "close" => Unreturned(r)
    BY <1>1 DEF Unreturned
  <2>5. \A s \in Requests \ {r} : Unreturned(s) => row'[call[s].source].status = "closed"
    <3> SUFFICES ASSUME NEW s \in Requests \ {r}, Unreturned(s)
                 PROVE  row'[call[s].source].status = "closed"
      OBVIOUS
    <3>1. row[call[s].source].status = "closed"
      BY DEF ClosingsFit
    <3>2. CASE call[s].source # x
      BY <1>6, <2>3, <3>1, <3>2
    <3>3. CASE call[s].source = x
      <4>1. call[r].op # "close"
        BY <2>4, <3>3 DEF ClosingsFit
      <4> QED
        BY <1>6, <3>1, <3>3, <4>1
    <3> QED
      BY <3>2, <3>3
  <2> QED
    BY <1>2, <2>1, <2>2, <2>5 DEF ClosingsFit
<1>11. ClosedAccountsEmptyUnlessCompensated'
  <2>1. "returned" \in did'[r] /\ \A s \in Requests : did[s] \subseteq did'[s]
    BY <1>2 DEF TypeOK
  <2> QED
    BY <1>2, <1>6, <2>1 DEF ClosedAccountsEmptyUnlessCompensated, Places
<1> QED
  BY <1>7, <1>8, <1>9, <1>10, <1>11

\* The bank closes only an empty account.
LEMMA CloseAccountKeeps ==
    ASSUME IInv, NEW a \in Accounts, CloseAccount(a)
    PROVE  IInv'
<1> USE DEF IInv
<1>1. /\ row[a].balance = 0 /\ a \in Places
      /\ row' = [row EXCEPT ![a].status = "closed"]
      /\ UNCHANGED <<pc, call, amount, client, did>>
  BY DEF CloseAccount, Places
<1>2. row[a] \in Row
  BY <1>1 DEF TypeOK
<1>3. /\ row' \in [Places -> Row] /\ row'[a].balance = 0 /\ row'[a].status = "closed"
      /\ \A y \in Places \ {a} : row'[y] = row[y]
  BY <1>1, <1>2 DEF TypeOK, Row, Statuses
<1>4. TypeOK' /\ NonNegative'
  BY <1>1, <1>3 DEF TypeOK, NonNegative
<1>5. CallsFit'
  BY <1>1 DEF CallsFit
<1>6. ClosingsFit'
  <2>1. \A s \in Requests : Unreturned(s)' <=> Unreturned(s)
    BY <1>1 DEF Unreturned
  <2>2. \A s \in Requests : Unreturned(s) => call[s].source \in Places
    BY DEF Unreturned, CallsFit
  <2> QED
    BY <1>1, <1>3, <2>1, <2>2 DEF ClosingsFit
<1>7. ClosedAccountsEmptyUnlessCompensated'
  BY <1>1, <1>3 DEF ClosedAccountsEmptyUnlessCompensated, Places
<1> QED
  BY <1>4, <1>5, <1>6, <1>7

\* Every step of the system keeps the invariant.
LEMMA NextKeeps == IInv /\ [Next]_vars => IInv'
<1> SUFFICES ASSUME IInv, [Next]_vars PROVE IInv'
  OBVIOUS
<1>1. CASE UNCHANGED vars
  BY <1>1 DEF IInv, TypeOK, NonNegative, CallsFit, ClosingsFit, Unreturned,
              ClosedAccountsEmptyUnlessCompensated, vars
<1>2. ASSUME NEW r \in Requests, Take(r) PROVE IInv'
  BY <1>2, TakeKeeps
<1>3. ASSUME NEW r \in Requests, Refuse(r) PROVE IInv'
  BY <1>3, RefuseKeeps
<1>4. ASSUME NEW r \in Requests, Step(r) PROVE IInv'
  <2>1. CASE Give(r)
    BY <2>1, GiveKeeps
  <2>2. CASE Create(r)
    BY <2>2, CreateKeeps
  <2>3. CASE Compensate(r)
    BY <2>3, CompensateKeeps
  <2>4. CASE Fail(r) \/ Succeed(r) \/ FailAfterCommit(r) \/ CompensationFails(r)
    BY <2>4, MoveOnKeeps DEF Fail, Succeed, FailAfterCommit, CompensationFails
  <2> QED
    BY <1>4, <2>1, <2>2, <2>3, <2>4 DEF Step
<1>5. ASSUME NEW r \in Requests, Die(r) PROVE IInv'
  BY <1>5, MoveOnKeeps DEF Die
<1>6. ASSUME NEW a \in Accounts, CloseAccount(a) PROVE IInv'
  BY <1>6, CloseAccountKeeps
<1> QED
  BY <1>1, <1>2, <1>3, <1>4, <1>5, <1>6 DEF Next, AllEnded

-----------------------------------------------------------------------------
(* Theorems. *)

\* The inductive invariant holds in every reachable state.
THEOREM Invariant == Spec => []IInv
<1> QED
  BY InitFits, NextKeeps, PTL DEF Spec

\* Rows, handlers and calls keep their types.
THEOREM TypeCorrect == Spec => []TypeOK
<1>1. IInv => TypeOK
  BY DEF IInv
<1> QED
  BY <1>1, Invariant, PTL

\* However sagas interleave, fail and are compensated, nothing is overdrawn: the check of
\* the funds and the debit are one transaction (ruble.py fund_wallet, withdraw_wallet;
\* invest.py open_*).
THEOREM NothingOverdrawn == Spec => []NonNegative
<1>1. IInv => NonNegative
  BY DEF IInv
<1> QED
  BY <1>1, Invariant, PTL

\* Money is on a closed account only where a compensation put it (_compensate_* look at no
\* status): close_account takes empty accounts and every other credit an active row.
THEOREM ClosedAccountsStayEmpty == Spec => []ClosedAccountsEmptyUnlessCompensated
<1>1. IInv => ClosedAccountsEmptyUnlessCompensated
  BY DEF IInv
<1> QED
  BY <1>1, Invariant, PTL

\* A product is paid out by at most one of the closings that race for it, and by none
\* while it is active (close_deposit and close_savings of invest.py).
LEMMA PaidOnce == IInv => ProductPaidOutOnce
<1> SUFFICES ASSUME IInv, NEW p \in Products
             PROVE  LET paid == {r \in Requests : call[r] # NoCall /\ call[r].op = "close"
                                        /\ call[r].source = p /\ "gave" \in did[r]
                                        /\ "returned" \notin did[r]} IN
                    Cardinality(paid) + (IF row[p].status = "active" THEN 1 ELSE 0) <= 1
  BY DEF ProductPaidOutOnce
<1> DEFINE paid == {r \in Requests : call[r] # NoCall /\ call[r].op = "close"
                                       /\ call[r].source = p /\ "gave" \in did[r]
                                       /\ "returned" \notin did[r]}
<1>1. \A r \in paid : Unreturned(r) /\ call[r].source = p /\ r \in Requests
  BY DEF IInv, CallsFit, Unreturned
<1>2. CASE paid = {}
  <2>1. Cardinality(paid) = 0
    BY <1>2, FS_EmptySet
  <2> QED
    BY <2>1
<1>3. CASE paid # {}
  <2>1. PICK r \in paid : TRUE
    BY <1>3
  <2>2. paid = {r} /\ row[p].status = "closed"
    BY <1>1, <2>1 DEF IInv, ClosingsFit
  <2>3. Cardinality(paid) = 1
    BY <2>2, FS_Singleton
  <2> QED
    BY <2>2, <2>3
<1> QED
  BY <1>2, <1>3

\* No product is paid out twice, whatever races for it: from the uniqueness of its closing.
THEOREM ClosingsPayOnce == Spec => []ProductPaidOutOnce
<1> QED
  BY Invariant, PaidOnce, PTL
-----------------------------------------------------------------------------
(* Money is accounted for. *)

\* Rows keep their owner once they exist; a saga names the owner of the row it took from,
\* and a product has nothing while the money of its closing is on the way.
OwnersFit ==
    /\ \A x \in Places : row[x].status = "none" => row[x].owner = Nobody
    /\ \A r \in Requests : "took" \in did[r] =>
          /\ row[call[r].source].owner = client[r] /\ row[call[r].source].status # "none"
          /\ call[r].op = "open" => call[r].client = client[r]
          /\ pc[r] = "took" => "gave" \notin did[r]
          /\ Unreturned(r) => row[call[r].source].balance = 0

Books == IInv /\ OwnersFit /\ ClientMoneyAccountedFor

\* What a client holds changes with the one row that does.
LEMMA HeldMoves ==
    ASSUME NEW old \in [Places -> Row], NEW new \in [Places -> Row], NEW x \in Places,
           \A y \in Places : y # x => new[y] = old[y], NEW c
    PROVE  /\ HeldBy(c, old) \in Int
           /\ HeldBy(c, new) = HeldBy(c, old)
                + (IF new[x].owner = c THEN new[x].balance ELSE 0)
                - (IF old[x].owner = c THEN old[x].balance ELSE 0)
<1> DEFINE f == [y \in Places |-> old[y].balance]
           g == [y \in Places |-> new[y].balance]
           T == {y \in Places : old[y].owner = c}
           U == {y \in Places : new[y].owner = c}
<1>1. HeldBy(c, old) = SumFunctionOnSet(f, T) /\ HeldBy(c, new) = SumFunctionOnSet(g, U)
  <2>1. DOMAIN old = Places /\ DOMAIN new = Places
    OBVIOUS
  <2> QED
    BY <2>1 DEF HeldBy
<1>2. T \in SUBSET Places /\ U \in SUBSET Places /\ IsFiniteSet(Places)
  BY SagaAssumption
<1>3. \A y \in Places : f[y] \in Int /\ g[y] \in Int
  BY DEF Row
<1>4. \A y \in Places : y # x => g[y] = f[y] /\ (y \in U <=> y \in T)
  OBVIOUS
<1>5. /\ f[x] = old[x].balance /\ g[x] = new[x].balance
      /\ x \in T <=> old[x].owner = c
      /\ x \in U <=> new[x].owner = c
  OBVIOUS
<1> HIDE DEF f, g, T, U
<1>6. /\ SumFunctionOnSet(f, T) \in Int
      /\ SumFunctionOnSet(g, U) = SumFunctionOnSet(f, T)
           + (IF x \in U THEN g[x] ELSE 0) - (IF x \in T THEN f[x] ELSE 0)
  BY <1>2, <1>3, <1>4, SumMove
<1> QED
  BY <1>1, <1>5, <1>6

\* What sagas have outstanding changes with the one saga that goes on.
LEMMA OutstandingMoves ==
    ASSUME TypeOK, TypeOK', NEW r \in Requests, NEW c,
           \A s \in Requests : s # r => /\ client'[s] = client[s] /\ amount'[s] = amount[s]
                                        /\ did'[s] = did[s]
    PROVE  /\ OutstandingOf(c) \in Int
           /\ OutstandingOf(c)' = OutstandingOf(c)
                + (IF client'[r] = c THEN Outstanding(r)' ELSE 0)
                - (IF client[r] = c THEN Outstanding(r) ELSE 0)
<1> DEFINE f == [s \in Requests |-> Outstanding(s)]
           g == [s \in Requests |-> Outstanding(s)']
           T == {s \in Requests : client[s] = c}
           U == {s \in Requests : client'[s] = c}
<1>1. OutstandingOf(c) = SumFunctionOnSet(f, T) /\ OutstandingOf(c)' = SumFunctionOnSet(g, U)
  BY DEF OutstandingOf
<1>2. T \in SUBSET Requests /\ U \in SUBSET Requests /\ IsFiniteSet(Requests)
  BY SagaAssumption
<1>3. \A s \in Requests : Outstanding(s) \in Int /\ Outstanding(s)' \in Int
  BY DEF Outstanding, Once, TypeOK
<1>4. \A s \in Requests : s # r => g[s] = f[s] /\ (s \in U <=> s \in T)
  BY DEF Outstanding, Once
<1>5. /\ f[r] = Outstanding(r) /\ g[r] = Outstanding(r)'
      /\ r \in T <=> client[r] = c
      /\ r \in U <=> client'[r] = c
      /\ \A s \in Requests : f[s] \in Int /\ g[s] \in Int
  BY <1>3
<1> HIDE DEF f, g, T, U
<1>6. /\ SumFunctionOnSet(f, T) \in Int
      /\ SumFunctionOnSet(g, U) = SumFunctionOnSet(f, T)
           + (IF r \in U THEN g[r] ELSE 0) - (IF r \in T THEN f[r] ELSE 0)
  BY <1>2, <1>4, <1>5, SumMove
<1> QED
  BY <1>1, <1>5, <1>6

\* A step that changes one row and one saga is balanced if what it adds to the row it takes
\* from what the saga owes to the same client.
LEMMA StepBalances ==
    ASSUME TypeOK, TypeOK', ClientMoneyAccountedFor, NEW r \in Requests, NEW x \in Places,
           \A y \in Places : y # x => row'[y] = row[y],
           \A s \in Requests : s # r => /\ client'[s] = client[s] /\ amount'[s] = amount[s]
                                        /\ did'[s] = did[s],
           \A c \in Clients :
              (IF row'[x].owner = c THEN row'[x].balance ELSE 0)
                + (IF client'[r] = c THEN Outstanding(r)' ELSE 0)
              = (IF row[x].owner = c THEN row[x].balance ELSE 0)
                + (IF client[r] = c THEN Outstanding(r) ELSE 0)
    PROVE  ClientMoneyAccountedFor'
<1> SUFFICES ASSUME NEW c \in Clients
             PROVE  HeldBy(c, row') + OutstandingOf(c)' = HeldBy(c, Opening)
  BY DEF ClientMoneyAccountedFor
<1> DEFINE share == IF row[x].owner = c THEN row[x].balance ELSE 0
           share2 == IF row'[x].owner = c THEN row'[x].balance ELSE 0
           due == IF client[r] = c THEN Outstanding(r) ELSE 0
           due2 == IF client'[r] = c THEN Outstanding(r)' ELSE 0
<1>1. HeldBy(c, row) \in Int /\ HeldBy(c, row') = HeldBy(c, row) + share2 - share
  BY HeldMoves DEF TypeOK
<1>2. OutstandingOf(c) \in Int /\ OutstandingOf(c)' = OutstandingOf(c) + due2 - due
  BY OutstandingMoves
<1>3. share \in Int /\ share2 \in Int /\ due \in Int /\ due2 \in Int
  <2>1. row[x] \in Row /\ row'[x] \in Row
    BY DEF TypeOK
  <2>2. Outstanding(r) \in Int /\ Outstanding(r)' \in Int
    BY DEF Outstanding, Once, TypeOK
  <2> QED
    BY <2>1, <2>2 DEF Row
<1>4. share2 + due2 = share + due
  OBVIOUS
<1>5. HeldBy(c, row) + OutstandingOf(c) = HeldBy(c, Opening)
  BY DEF ClientMoneyAccountedFor
<1> HIDE DEF share, share2, due, due2
<1> QED
  BY <1>1, <1>2, <1>3, <1>4, <1>5

\* The bookkeeping of owners survives a step that creates or keeps rows and touches no
\* product whose money is on the way.
LEMMA OwnersKeep ==
    ASSUME IInv, OwnersFit, NEW r \in Requests,
           \A y \in Places : row[y].status # "none" =>
               row'[y].owner = row[y].owner /\ row'[y].status # "none",
           \A y \in Places : row'[y].status = "none" => row'[y].owner = Nobody,
           \A s \in Requests : s # r => /\ client'[s] = client[s] /\ call'[s] = call[s]
                                        /\ did'[s] = did[s] /\ pc'[s] = pc[s],
           \A s \in Requests : s # r /\ Unreturned(s) => row'[call[s].source].balance = 0,
           "took" \in did'[r] =>
              /\ row'[call'[r].source].owner = client'[r] /\ row'[call'[r].source].status # "none"
              /\ call'[r].op = "open" => call'[r].client = client'[r]
              /\ pc'[r] = "took" => "gave" \notin did'[r]
              /\ Unreturned(r)' => row'[call'[r].source].balance = 0
    PROVE  OwnersFit'
<1>1. ASSUME NEW s \in Requests, s # r, "took" \in did'[s]
      PROVE  /\ row'[call'[s].source].owner = client'[s] /\ row'[call'[s].source].status # "none"
             /\ call'[s].op = "open" => call'[s].client = client'[s]
             /\ pc'[s] = "took" => "gave" \notin did'[s]
             /\ Unreturned(s)' => row'[call'[s].source].balance = 0
  <2>1. call[s].source \in Places
    BY <1>1 DEF IInv, CallsFit
  <2>2. Unreturned(s)' => Unreturned(s)
    BY <1>1 DEF Unreturned
  <2> QED
    BY <1>1, <2>1, <2>2 DEF OwnersFit
<1> QED
  BY <1>1 DEF OwnersFit

\* The first transaction: what the row loses is outstanding.
LEMMA TakeBalances ==
    ASSUME Books, IInv', NEW r \in Requests, Take(r)
    PROVE  OwnersFit' /\ ClientMoneyAccountedFor'
<1> USE DEF Books
<1>1. PICK c \in Calls :
        /\ MayTake(c)
        /\ row' = [row EXCEPT
                     ![c.source].balance = @ - Amount(c),
                     ![c.source].status  = IF c.op = "close" THEN "closed" ELSE @]
        /\ call'   = [call EXCEPT ![r] = c]
        /\ amount' = [amount EXCEPT ![r] = Amount(c)]
        /\ client' = [client EXCEPT ![r] = row[c.source].owner]
  BY DEF Take
<1> DEFINE x == c.source
           st == IF c.op = "close" THEN "closed" ELSE row[x].status
<1>2. x \in Places /\ row[x].status # "none" /\ row[x] \in Row
  BY <1>1 DEF MayTake, Exists, IInv, TypeOK
<1>3. Amount(c) \in Int /\ row[x].balance \in Int
  <2>1. row[x].balance \in Int
    BY <1>2 DEF Row
  <2>2. c.op # "close" => c.amount \in Int
    BY CallFields
  <2> QED
    BY <2>1, <2>2 DEF Amount
<1>4. st \in Statuses /\ st # "none" /\ row[x].balance - Amount(c) \in Int
  BY <1>2, <1>3 DEF Row, Statuses
<1>5. row' = [row EXCEPT ![x].balance = row[x].balance - Amount(c), ![x].status = st]
  BY <1>1, <1>2 DEF IInv, TypeOK, Row
<1>6. /\ row'[x].balance = row[x].balance - Amount(c) /\ row'[x].status = st
      /\ row'[x].owner = row[x].owner
      /\ \A y \in Places \ {x} : row'[y] = row[y]
  <2> HIDE DEF x, st
  <2> QED
    <3>1. /\ row'[x].balance = row[x].balance - Amount(c) /\ row'[x].status = st
          /\ \A y \in Places \ {x} : row'[y] = row[y]
      BY <1>2, <1>4, <1>5, Rewrite DEF IInv, TypeOK
    <3>2. row'[x].owner = row[x].owner
      BY <1>2, <1>4, <1>5, RewriteOwner DEF IInv, TypeOK
    <3> QED
      BY <3>1, <3>2
<1>7. /\ did[r] = {}
      /\ did' = [did EXCEPT ![r] = {"took"}] /\ pc' = [pc EXCEPT ![r] = "took"]
  BY DEF Take, IInv, CallsFit
<1>8. /\ did'[r] = {"took"} /\ call'[r] = c /\ client'[r] = row[x].owner /\ amount'[r] = Amount(c)
      /\ \A s \in Requests : s # r => /\ client'[s] = client[s] /\ call'[s] = call[s]
                                      /\ did'[s] = did[s] /\ pc'[s] = pc[s]
                                      /\ amount'[s] = amount[s]
  BY <1>1, <1>7 DEF IInv, TypeOK
<1>9. \A s \in Requests : s # r /\ Unreturned(s) => row'[call[s].source].balance = 0
  <2> SUFFICES ASSUME NEW s \in Requests, Unreturned(s) PROVE row'[call[s].source].balance = 0
    OBVIOUS
  <2>1. /\ call[s].source \in Places /\ row[call[s].source].status = "closed"
        /\ row[call[s].source].balance = 0
    BY DEF Unreturned, IInv, CallsFit, ClosingsFit, OwnersFit
  <2>2. row[x].status # "closed"
    BY <1>1 DEF MayTake
  <2> QED
    BY <1>6, <2>1, <2>2
<1>10. OwnersFit'
  <2>1. \A y \in Places : row[y].status # "none" =>
               row'[y].owner = row[y].owner /\ row'[y].status # "none"
    BY <1>4, <1>6
  <2>2. \A y \in Places : row'[y].status = "none" => row'[y].owner = Nobody
    BY <1>4, <1>6 DEF OwnersFit
  <2>3. /\ row'[call'[r].source].owner = client'[r] /\ row'[call'[r].source].status # "none"
        /\ call'[r].op = "open" => call'[r].client = client'[r]
        /\ "gave" \notin did'[r]
    <3>1. row'[x].owner = client'[r] /\ row'[x].status # "none"
      BY <1>4, <1>6, <1>8
    <3>2. c.op = "open" => c.client = client'[r]
      BY <1>1, <1>8 DEF MayTake
    <3> QED
      BY <1>8, <3>1, <3>2
  <2>4. Unreturned(r)' => row'[call'[r].source].balance = 0
    <3>1. Unreturned(r)' => c.op = "close"
      BY <1>8 DEF Unreturned
    <3>2. c.op = "close" => row'[x].balance = 0
      BY <1>3, <1>6 DEF Amount
    <3> QED
      BY <1>8, <3>1, <3>2
  <2> HIDE DEF x, st
  <2> QED
    BY <1>8, <1>9, <2>1, <2>2, <2>3, <2>4, OwnersKeep
<1>11. ClientMoneyAccountedFor'
  <2>1. Outstanding(r) = 0 /\ Outstanding(r)' = Amount(c)
    BY <1>3, <1>7, <1>8 DEF Outstanding, Once
  <2>2. \A b \in Clients :
              (IF row'[x].owner = b THEN row'[x].balance ELSE 0)
                + (IF client'[r] = b THEN Outstanding(r)' ELSE 0)
              = (IF row[x].owner = b THEN row[x].balance ELSE 0)
                + (IF client[r] = b THEN Outstanding(r) ELSE 0)
    <3> SUFFICES ASSUME NEW b \in Clients
                 PROVE (IF row'[x].owner = b THEN row'[x].balance ELSE 0)
                         + (IF client'[r] = b THEN Outstanding(r)' ELSE 0)
                       = (IF row[x].owner = b THEN row[x].balance ELSE 0)
                         + (IF client[r] = b THEN Outstanding(r) ELSE 0)
      OBVIOUS
    <3> HIDE DEF x
    <3> QED
      BY <1>3, <1>6, <1>8, <2>1
  <2> HIDE DEF x, st
  <2> QED
    BY <1>2, <1>6, <1>8, <2>2, StepBalances DEF IInv
<1> QED
  BY <1>10, <1>11

\* The second transaction, for a row that exists: what it gains is no longer outstanding.
LEMMA GiveBalances ==
    ASSUME Books, IInv', NEW r \in Requests, Give(r)
    PROVE  OwnersFit' /\ ClientMoneyAccountedFor'
<1> USE DEF Books
<1> DEFINE x == call[r].dest
<1>1. /\ pc[r] = "took" /\ x \in Places /\ row[x].status = "active" /\ Gave(r)
      /\ row[x].owner = client[r]
      /\ row' = [row EXCEPT ![x].balance = row[x].balance + amount[r]]
  BY DEF Give, MayGive, Exists
<1>2. amount[r] \in Int /\ row[x].balance \in Int
  BY <1>1 DEF IInv, TypeOK, Row
<1>3. /\ row'[x].balance = row[x].balance + amount[r] /\ row'[x].status = row[x].status
      /\ row'[x].owner = row[x].owner
      /\ \A y \in Places \ {x} : row'[y] = row[y]
  <2> HIDE DEF x
  <2> QED
    BY <1>1, <1>2, Credit DEF IInv, TypeOK
<1>4. /\ "took" \in did[r] /\ "returned" \notin did[r] /\ "gave" \notin did[r]
      /\ call[r].source \in Places
  BY <1>1 DEF IInv, CallsFit, OwnersFit
<1>5. /\ did'[r] = did[r] \union {"gave"} /\ pc'[r] = "gave"
      /\ UNCHANGED <<call, amount, client>>
      /\ \A s \in Requests : s # r => did'[s] = did[s] /\ pc'[s] = pc[s]
  BY <1>1 DEF Gave, IInv, TypeOK
<1>6. \A s \in Requests : Unreturned(s) => row'[call[s].source].balance = 0
  <2> SUFFICES ASSUME NEW s \in Requests, Unreturned(s) PROVE row'[call[s].source].balance = 0
    OBVIOUS
  <2>1. /\ call[s].source \in Places /\ row[call[s].source].status = "closed"
        /\ row[call[s].source].balance = 0
    BY DEF Unreturned, IInv, CallsFit, ClosingsFit, OwnersFit
  <2> QED
    BY <1>1, <1>3, <2>1
<1>7. OwnersFit'
  <2>1. \A y \in Places : row[y].status # "none" =>
               row'[y].owner = row[y].owner /\ row'[y].status # "none"
    BY <1>3
  <2>2. \A y \in Places : row'[y].status = "none" => row'[y].owner = Nobody
    BY <1>3 DEF OwnersFit
  <2>3. /\ row'[call'[r].source].owner = client'[r] /\ row'[call'[r].source].status # "none"
        /\ call'[r].op = "open" => call'[r].client = client'[r]
    BY <1>4, <1>5, <2>1 DEF OwnersFit
  <2>4. Unreturned(r)' => row'[call'[r].source].balance = 0
    BY <1>4, <1>5, <1>6 DEF Unreturned
  <2> HIDE DEF x
  <2> QED
    BY <1>5, <1>6, <2>1, <2>2, <2>3, <2>4, OwnersKeep
<1>8. ClientMoneyAccountedFor'
  <2>1. Outstanding(r) = amount[r] /\ Outstanding(r)' = 0
    BY <1>2, <1>4, <1>5 DEF Outstanding, Once
  <2>2. \A b \in Clients :
              (IF row'[x].owner = b THEN row'[x].balance ELSE 0)
                + (IF client'[r] = b THEN Outstanding(r)' ELSE 0)
              = (IF row[x].owner = b THEN row[x].balance ELSE 0)
                + (IF client[r] = b THEN Outstanding(r) ELSE 0)
    <3> HIDE DEF x
    <3> QED
      BY <1>1, <1>2, <1>3, <1>5, <2>1
  <2> HIDE DEF x
  <2> QED
    BY <1>1, <1>3, <1>5, <2>2, StepBalances DEF IInv
<1> QED
  BY <1>7, <1>8

\* The second transaction, for a new product: it belongs to the client whose money it holds.
LEMMA CreateBalances ==
    ASSUME Books, IInv', NEW r \in Requests, Create(r)
    PROVE  OwnersFit' /\ ClientMoneyAccountedFor'
<1> USE DEF Books
<1>1. PICK p \in Products :
        /\ ~Exists(p)
        /\ row' = [row EXCEPT ![p] =
                     [owner |-> call[r].client, balance |-> amount[r], status |-> "active"]]
  BY DEF Create
<1>2. pc[r] = "took" /\ call[r].op = "open" /\ Gave(r)
  BY DEF Create
<1>3. /\ p \in Places /\ row[p].status = "none" /\ row[p].owner = Nobody
  BY <1>1 DEF Exists, Places, OwnersFit
<1>4. /\ row'[p].owner = call[r].client /\ row'[p].balance = amount[r]
      /\ row'[p].status = "active"
      /\ \A y \in Places \ {p} : row'[y] = row[y]
  BY <1>1, <1>3 DEF IInv, TypeOK
<1>5. /\ "took" \in did[r] /\ "returned" \notin did[r] /\ "gave" \notin did[r]
      /\ call[r].source \in Places /\ call[r].client = client[r] /\ amount[r] \in Int
  BY <1>2 DEF IInv, TypeOK, CallsFit, OwnersFit
<1>6. /\ did'[r] = did[r] \union {"gave"} /\ pc'[r] = "gave"
      /\ UNCHANGED <<call, amount, client>>
      /\ \A s \in Requests : s # r => did'[s] = did[s] /\ pc'[s] = pc[s]
  BY <1>2 DEF Gave, IInv, TypeOK
<1>7. \A s \in Requests : "took" \in did[s] =>
          call[s].source \in Places /\ call[s].source # p
  BY <1>3 DEF OwnersFit, IInv, CallsFit
<1>8. OwnersFit'
  <2>1. \A y \in Places : row[y].status # "none" =>
               row'[y].owner = row[y].owner /\ row'[y].status # "none"
    BY <1>3, <1>4
  <2>2. \A y \in Places : row'[y].status = "none" => row'[y].owner = Nobody
    BY <1>4 DEF OwnersFit
  <2>3. \A s \in Requests : Unreturned(s) => row'[call[s].source].balance = 0
    BY <1>4, <1>7 DEF OwnersFit, Unreturned
  <2>4. /\ row'[call'[r].source].owner = client'[r] /\ row'[call'[r].source].status # "none"
        /\ call'[r].op = "open" => call'[r].client = client'[r]
    BY <1>4, <1>5, <1>6, <1>7 DEF OwnersFit
  <2>5. Unreturned(r)' => row'[call'[r].source].balance = 0
    BY <1>2, <1>6 DEF Unreturned
  <2> QED
    BY <1>6, <2>1, <2>2, <2>3, <2>4, <2>5, OwnersKeep
<1>9. ClientMoneyAccountedFor'
  <2>1. Outstanding(r) = amount[r] /\ Outstanding(r)' = 0
    BY <1>5, <1>6 DEF Outstanding, Once
  <2>2. Nobody \notin Clients
    BY SagaAssumption
  <2>3. \A b \in Clients :
              (IF row'[p].owner = b THEN row'[p].balance ELSE 0)
                + (IF client'[r] = b THEN Outstanding(r)' ELSE 0)
              = (IF row[p].owner = b THEN row[p].balance ELSE 0)
                + (IF client[r] = b THEN Outstanding(r) ELSE 0)
    BY <1>3, <1>4, <1>5, <1>6, <2>1, <2>2
  <2> QED
    BY <1>3, <1>4, <1>6, <2>3, StepBalances DEF IInv
<1> QED
  BY <1>8, <1>9

\* The compensation: what the row gets back is no longer outstanding, or, after a payment
\* that did happen, is there too much.
LEMMA CompensateBalances ==
    ASSUME Books, IInv', NEW r \in Requests, Compensate(r)
    PROVE  OwnersFit' /\ ClientMoneyAccountedFor'
<1> USE DEF Books
<1> DEFINE x == call[r].source
           b == IF call[r].op = "close" THEN amount[r] ELSE row[x].balance + amount[r]
           st == IF call[r].op = "close" THEN "active" ELSE row[x].status
<1>1. /\ pc[r] = "compensate" /\ "took" \in did[r] /\ "returned" \notin did[r]
      /\ call[r] \in Calls /\ x \in Places /\ amount[r] \in Int
  BY DEF Compensate, IInv, CallsFit, TypeOK
<1>2. /\ did'[r] = did[r] \union {"returned"} /\ pc'[r] = "undone"
      /\ UNCHANGED <<call, amount, client>>
      /\ \A s \in Requests : s # r => did'[s] = did[s] /\ pc'[s] = pc[s]
  BY DEF Compensate, IInv, TypeOK
<1>3. /\ row[x] \in Row /\ row[x].balance \in Int
      /\ row[x].owner = client[r] /\ row[x].status # "none"
  BY <1>1 DEF IInv, TypeOK, Row, OwnersFit
<1>4. b \in Int /\ st \in Statuses /\ st # "none"
  BY <1>1, <1>3 DEF Row, Statuses
<1>5. row' = [row EXCEPT ![x].balance = b, ![x].status = st]
  BY <1>1, <1>3 DEF Compensate, GiveBack, IInv, TypeOK, Row
<1>6. /\ row'[x].balance = b /\ row'[x].status = st /\ row'[x].owner = row[x].owner
      /\ \A y \in Places \ {x} : row'[y] = row[y]
  <2> HIDE DEF x, b, st
  <2> QED
    BY <1>1, <1>4, <1>5, Rewrite, RewriteOwner DEF IInv, TypeOK
<1>7. b = row[x].balance + amount[r]
  <2>1. call[r].op = "close" => row[x].balance = 0
    BY <1>1 DEF OwnersFit, Unreturned
  <2> QED
    BY <1>1, <1>3, <2>1
<1>8. OwnersFit'
  <2>1. \A y \in Places : row[y].status # "none" =>
               row'[y].owner = row[y].owner /\ row'[y].status # "none"
    BY <1>4, <1>6
  <2>2. \A y \in Places : row'[y].status = "none" => row'[y].owner = Nobody
    BY <1>4, <1>6 DEF OwnersFit
  <2>3. \A s \in Requests : s # r /\ Unreturned(s) => row'[call[s].source].balance = 0
    <3> SUFFICES ASSUME NEW s \in Requests, s # r, Unreturned(s)
                 PROVE  row'[call[s].source].balance = 0
      OBVIOUS
    <3>1. /\ call[s].source \in Places /\ row[call[s].source].balance = 0
          /\ call[s].op = "close" /\ call[s] \in Calls
      BY DEF Unreturned, IInv, CallsFit, OwnersFit
    <3>2. call[s].source # x
      <4>1. CASE call[r].op = "close"
        BY <1>1, <4>1 DEF Unreturned, IInv, ClosingsFit
      <4>2. CASE call[r].op # "close"
        <5>1. call[s].source \in Products
          BY <3>1, CallFields
        <5>2. x \in Accounts \union Wallets \union {NoPlace}
          BY <1>1, <4>2, CallFields
        <5> QED
          BY <3>1, <5>1, <5>2, SagaAssumption
      <4> QED
        BY <4>1, <4>2
    <3> QED
      BY <1>6, <3>1, <3>2
  <2>4. /\ row'[call'[r].source].owner = client'[r] /\ row'[call'[r].source].status # "none"
        /\ call'[r].op = "open" => call'[r].client = client'[r]
    BY <1>1, <1>2, <1>3, <1>4, <1>6 DEF OwnersFit
  <2>5. ~Unreturned(r)'
    BY <1>2 DEF Unreturned
  <2> HIDE DEF x, b, st
  <2> QED
    BY <1>2, <2>1, <2>2, <2>3, <2>4, <2>5, OwnersKeep
<1>9. ClientMoneyAccountedFor'
  <2>1. Outstanding(r) \in Int /\ Outstanding(r)' = Outstanding(r) - amount[r]
    BY <1>1, <1>2 DEF Outstanding, Once
  <2>2. \A c \in Clients :
              (IF row'[x].owner = c THEN row'[x].balance ELSE 0)
                + (IF client'[r] = c THEN Outstanding(r)' ELSE 0)
              = (IF row[x].owner = c THEN row[x].balance ELSE 0)
                + (IF client[r] = c THEN Outstanding(r) ELSE 0)
    <3> HIDE DEF x, b
    <3> QED
      BY <1>1, <1>2, <1>3, <1>6, <1>7, <2>1
  <2> HIDE DEF x, b, st
  <2> QED
    BY <1>1, <1>2, <1>6, <2>2, StepBalances DEF IInv
<1> QED
  BY <1>8, <1>9

\* Steps that commit nothing move no money.
LEMMA IdleBalances ==
    ASSUME Books, NEW r \in Requests,
           Refuse(r) \/ \E from \in {"took", "gave", "compensate"},
                           to \in {"compensate", "done", "lost"} : MoveOn(r, from, to)
    PROVE  OwnersFit' /\ ClientMoneyAccountedFor'
<1> USE DEF Books
<1>1. /\ UNCHANGED <<row, amount, client, did>>
      /\ \A s \in Requests : "took" \in did[s] => call'[s] = call[s]
      /\ \A s \in Requests : pc'[s] = "took" => pc[s] = "took"
  BY DEF Refuse, MoveOn, IInv, CallsFit, TypeOK
<1>2. OwnersFit'
  BY <1>1 DEF OwnersFit, Unreturned
<1>3. ClientMoneyAccountedFor'
  BY <1>1 DEF ClientMoneyAccountedFor, OutstandingOf, Outstanding, Once
<1> QED
  BY <1>2, <1>3

\* Closing an account moves no money.
LEMMA CloseAccountBalances ==
    ASSUME Books, IInv', NEW a \in Accounts, CloseAccount(a)
    PROVE  OwnersFit' /\ ClientMoneyAccountedFor'
<1> USE DEF Books
<1>1. /\ a \in Places /\ row' = [row EXCEPT ![a].status = "closed"]
      /\ UNCHANGED <<pc, call, amount, client, did>>
  BY DEF CloseAccount, Places
<1>2. row[a] \in Row
  BY <1>1 DEF IInv, TypeOK
<1>3. /\ row'[a].balance = row[a].balance /\ row'[a].owner = row[a].owner
      /\ row'[a].status = "closed"
      /\ \A y \in Places \ {a} : row'[y] = row[y]
  BY <1>1, <1>2 DEF IInv, TypeOK, Row
<1>4. OwnersFit'
  BY <1>1, <1>3 DEF OwnersFit, Unreturned, IInv, CallsFit
<1>5. ClientMoneyAccountedFor'
  <2>1. \A c \in Clients : HeldBy(c, row) \in Int /\ HeldBy(c, row') = HeldBy(c, row)
    <3> SUFFICES ASSUME NEW c \in Clients
                 PROVE  HeldBy(c, row) \in Int /\ HeldBy(c, row') = HeldBy(c, row)
      OBVIOUS
    <3>1. /\ HeldBy(c, row) \in Int
          /\ HeldBy(c, row') = HeldBy(c, row)
                + (IF row'[a].owner = c THEN row'[a].balance ELSE 0)
                - (IF row[a].owner = c THEN row[a].balance ELSE 0)
      <4>1. row \in [Places -> Row] /\ row' \in [Places -> Row]
        BY <1>1 DEF IInv, TypeOK
      <4>2. a \in Places
        BY <1>1
      <4> QED
        BY ONLY <1>3, <4>1, <4>2, HeldMoves
    <3>2. row[a].balance \in Int
      BY <1>2 DEF Row
    <3> QED
      BY <1>3, <3>1, <3>2
  <2>2. \A c \in Clients : OutstandingOf(c)' = OutstandingOf(c)
    BY <1>1 DEF OutstandingOf, Outstanding, Once
  <2> QED
    BY <2>1, <2>2 DEF ClientMoneyAccountedFor
<1> QED
  BY <1>4, <1>5

\* Every step keeps the books.
LEMMA BooksKept == Books /\ [Next]_vars => Books'
<1> SUFFICES ASSUME Books, [Next]_vars PROVE Books'
  OBVIOUS
<1>1. IInv'
  BY NextKeeps DEF Books
<1>2. OwnersFit' /\ ClientMoneyAccountedFor'
  <2>1. CASE UNCHANGED vars
    BY <2>1 DEF Books, OwnersFit, Unreturned, ClientMoneyAccountedFor, OutstandingOf,
                Outstanding, Once, vars
  <2>2. ASSUME NEW r \in Requests, Take(r) \/ Refuse(r) \/ Step(r) \/ Die(r)
        PROVE  OwnersFit' /\ ClientMoneyAccountedFor'
    <3>1. CASE Take(r)
      BY <1>1, <3>1, TakeBalances
    <3>2. CASE Give(r)
      BY <1>1, <3>2, GiveBalances
    <3>3. CASE Create(r)
      BY <1>1, <3>3, CreateBalances
    <3>4. CASE Compensate(r)
      BY <1>1, <3>4, CompensateBalances
    <3>5. CASE Refuse(r) \/ Fail(r) \/ Succeed(r) \/ FailAfterCommit(r) \/ CompensationFails(r)
                 \/ Die(r)
      BY <3>5, IdleBalances DEF Fail, Succeed, FailAfterCommit, CompensationFails, Die
    <3> QED
      BY <2>2, <3>1, <3>2, <3>3, <3>4, <3>5 DEF Step
  <2>3. ASSUME NEW a \in Accounts, CloseAccount(a)
        PROVE  OwnersFit' /\ ClientMoneyAccountedFor'
    BY <1>1, <2>3, CloseAccountBalances
  <2> QED
    BY <2>1, <2>2, <2>3 DEF Next, AllEnded
<1> QED
  BY <1>1, <1>2 DEF Books

\* At the start nothing is outstanding, and no product holds anything of a client's.
LEMMA BooksOpen == Init => Books
<1> SUFFICES ASSUME Init PROVE Books
  OBVIOUS
<1>1. IInv
  BY InitFits
<1>2. OwnersFit
  BY SagaAssumption DEF Init, OwnersFit, Places
<1>3. ASSUME NEW c \in Clients
      PROVE  HeldBy(c, row) + OutstandingOf(c) = HeldBy(c, Opening)
  <2> DEFINE T == {x \in Accounts \union Wallets : Opening[x].owner = c}
             f == [x \in Places |-> row[x].balance]
             g == [x \in Accounts \union Wallets |-> Opening[x].balance]
             R == {r \in Requests : client[r] = c}
             out == [r \in Requests |-> Outstanding(r)]
  <2>1. DOMAIN row = Places /\ DOMAIN Opening = Accounts \union Wallets
    BY SagaAssumption DEF Init
  <2>2. {x \in Places : row[x].owner = c} = T
    BY SagaAssumption DEF Init, Places
  <2>3. HeldBy(c, row) = SumFunctionOnSet(f, T) /\ HeldBy(c, Opening) = SumFunctionOnSet(g, T)
    BY <2>1, <2>2 DEF HeldBy
  <2>4. IsFiniteSet(T) /\ \A x \in T : g[x] \in Int /\ f[x] = g[x]
    <3>1. IsFiniteSet(T)
      BY FS_Subset, SagaAssumption DEF Places
    <3> QED
      BY <3>1, SagaAssumption DEF Init, Places
  <2>5. R = {} /\ OutstandingOf(c) = SumFunctionOnSet(out, R)
    BY SagaAssumption DEF Init, OutstandingOf
  <2> HIDE DEF T, f, g, R, out
  <2>6. SumFunctionOnSet(f, T) = SumFunctionOnSet(g, T) /\ SumFunctionOnSet(g, T) \in Int
    BY <2>4, SumSame, SumUnfold
  <2>7. OutstandingOf(c) = 0
    BY <2>5, SumOfNothing
  <2> QED
    BY <2>3, <2>6, <2>7
<1> QED
  BY <1>1, <1>2, <1>3 DEF Books, ClientMoneyAccountedFor

\* However sagas interleave, fail, lose their replies, die and are compensated, each
\* client's money is on the client's rows, but for what the sagas of that client have left
\* outstanding or paid twice (the two-database transfers of ruble.py and invest.py).
THEOREM NoMoneyUnaccounted == Spec => []ClientMoneyAccountedFor
<1>1. Books => ClientMoneyAccountedFor
  BY DEF Books
<1> QED
  BY <1>1, BooksOpen, BooksKept, PTL DEF Spec
-----------------------------------------------------------------------------
(* Whose money is missing, and after what. *)

\* How a saga ended tells what it has committed.
EndsFit ==
    \A r \in Requests :
        /\ pc[r] = "rejected" => did[r] = {}
        /\ pc[r] \in {"gave", "done"} => "gave" \in did[r]
        /\ pc[r] = "undone" <=> "returned" \in did[r]

Ends == Books /\ EndsFit

\* It holds initially.
LEMMA EndsOpen == Init => Ends
<1>1. Init => EndsFit
  BY DEF Init, EndsFit
<1> QED
  BY <1>1, BooksOpen DEF Ends

\* Every step keeps it.
LEMMA EndsKept == Ends /\ [Next]_vars => Ends'
<1> SUFFICES ASSUME Ends, [Next]_vars PROVE EndsFit'
  BY BooksKept DEF Ends
<1>1. TypeOK /\ CallsFit /\ EndsFit
  BY DEF Ends, Books, IInv
<1>2. CASE UNCHANGED vars
  BY <1>1, <1>2 DEF EndsFit, vars
<1>3. ASSUME NEW r \in Requests, Take(r) \/ Refuse(r) \/ Step(r) \/ Die(r)
      PROVE  EndsFit'
  <2>1. /\ pc \in [Requests -> {"idle", "took", "gave", "compensate"} \union Ended]
        /\ did \in [Requests -> SUBSET {"took", "gave", "returned"}]
    BY <1>1 DEF TypeOK
  <2>2. CASE Take(r)
    BY <1>1, <2>1, <2>2 DEF EndsFit, Take
  <2>3. CASE Refuse(r)
    BY <1>1, <2>1, <2>3 DEF EndsFit, CallsFit, Refuse
  <2>4. CASE Give(r) \/ Create(r)
    BY <1>1, <2>1, <2>4 DEF EndsFit, CallsFit, Give, Create, Gave
  <2>5. CASE Fail(r) \/ Succeed(r) \/ FailAfterCommit(r) \/ CompensationFails(r) \/ Die(r)
    BY <1>1, <2>1, <2>5 DEF EndsFit, CallsFit, Fail, Succeed, FailAfterCommit,
                            CompensationFails, Die, MoveOn
  <2>6. CASE Compensate(r)
    BY <1>1, <2>1, <2>6 DEF EndsFit, Compensate
  <2> QED
    BY <1>3, <2>2, <2>3, <2>4, <2>5, <2>6 DEF Step
<1>4. ASSUME NEW a \in Accounts, CloseAccount(a) PROVE EndsFit'
  BY <1>1, <1>4 DEF EndsFit, CloseAccount
<1> QED
  BY <1>2, <1>3, <1>4 DEF Next, AllEnded

\* What is outstanding on a saga, by how far it got.
LEMMA OutstandingByEnd ==
    ASSUME Ends, NEW r \in Requests
    PROVE  /\ Outstanding(r) \in Int
           /\ Outstanding(r) > 0 => pc[r] \in {"took", "compensate", "lost"}
           /\ Outstanding(r) < 0 => pc[r] = "undone" /\ {"gave", "returned"} \subseteq did[r]
<1>1. /\ pc[r] \in {"idle", "took", "gave", "compensate"} \union Ended
      /\ amount[r] \in Int
      /\ "took" \notin did[r] => did[r] = {}
      /\ "took" \in did[r] => amount[r] >= 0
      /\ pc[r] = "idle" => did[r] = {}
  BY DEF Ends, Books, IInv, TypeOK, CallsFit
<1>2. /\ pc[r] = "rejected" => did[r] = {}
      /\ pc[r] \in {"gave", "done"} => "gave" \in did[r]
      /\ pc[r] = "undone" <=> "returned" \in did[r]
  BY DEF Ends, EndsFit
<1>3. Outstanding(r) = (IF "took" \in did[r] THEN amount[r] ELSE 0)
                         - (IF "gave" \in did[r] THEN amount[r] ELSE 0)
                         - (IF "returned" \in did[r] THEN amount[r] ELSE 0)
  BY DEF Outstanding, Once
<1> QED
  BY <1>1, <1>2, <1>3 DEF Ended

\* What a client holds is a number.
LEMMA HeldInt ==
    ASSUME Ends, NEW c \in Clients
    PROVE  HeldBy(c, row) \in Int /\ HeldBy(c, Opening) \in Int
<1> DEFINE f == [x \in Places |-> row[x].balance]
           g == [x \in Accounts \union Wallets |-> Opening[x].balance]
           T == {x \in Places : row[x].owner = c}
           U == {x \in Accounts \union Wallets : Opening[x].owner = c}
<1>1. DOMAIN row = Places /\ DOMAIN Opening = Accounts \union Wallets
  BY SagaAssumption DEF Ends, Books, IInv, TypeOK
<1>2. HeldBy(c, row) = SumFunctionOnSet(f, T) /\ HeldBy(c, Opening) = SumFunctionOnSet(g, U)
  BY <1>1 DEF HeldBy
<1>3. IsFiniteSet(T) /\ IsFiniteSet(U)
  BY FS_Subset, SagaAssumption DEF Places
<1>4. \A x \in T : f[x] \in Int
  BY DEF Ends, Books, IInv, TypeOK, Row
<1>5. \A x \in U : g[x] \in Int
  BY SagaAssumption
<1> HIDE DEF f, g, T, U
<1>6. SumFunctionOnSet(f, T) \in Int
  BY <1>3, <1>4, SumUnfold
<1>7. SumFunctionOnSet(g, U) \in Int
  BY <1>3, <1>5, SumUnfold
<1> QED
  BY <1>2, <1>6, <1>7

\* With it, a client's rows hold less only while, or after, a saga has the money.
LEMMA MissingHasSaga == Ends => MoneyMissingOnlyAfterLostSagas
<1> SUFFICES ASSUME Ends, NEW c \in Clients,
                    NEW held, held = HeldBy(c, row), NEW opened, opened = HeldBy(c, Opening),
                    held \in Int, opened \in Int
             PROVE  /\ {r \in Requests : client[r] = c /\ pc[r] \in {"took", "compensate", "lost"}} = {}
                          => held >= opened
                    /\ held > opened =>
                          \E r \in {s \in Requests : client[s] = c /\ pc[s] \in {"undone"}} :
                              {"gave", "returned"} \subseteq did[r]
  BY HeldInt DEF MoneyMissingOnlyAfterLostSagas
<1> DEFINE R == {r \in Requests : client[r] = c}
           out == [r \in Requests |-> Outstanding(r)]
<1>1. IsFiniteSet(R) /\ \A r \in R : out[r] \in Int
  <2>1. IsFiniteSet(R)
    BY FS_Subset, SagaAssumption
  <2> QED
    BY <2>1, OutstandingByEnd
<1>2. held + SumFunctionOnSet(out, R) = opened
  BY DEF Ends, Books, ClientMoneyAccountedFor, OutstandingOf
<1>3. \A r \in R : out[r] = Outstanding(r) /\ r \in Requests /\ client[r] = c
  OBVIOUS
<1> HIDE DEF R, out
<1>4. /\ SumFunctionOnSet(out, R) \in Int
      /\ SumFunctionOnSet(out, R) > 0 => \E r \in R : out[r] > 0
      /\ SumFunctionOnSet(out, R) < 0 => \E r \in R : out[r] < 0
  BY <1>1, SumHasSign
<1>5. CASE held < opened
  <2>1. PICK r \in R : out[r] > 0
    BY <1>2, <1>4, <1>5
  <2>2. r \in Requests /\ client[r] = c /\ pc[r] \in {"took", "compensate", "lost"}
    BY <1>3, <2>1, OutstandingByEnd
  <2> QED
    BY <1>5, <2>2
<1>6. CASE held > opened
  <2>1. PICK r \in R : out[r] < 0
    BY <1>2, <1>4, <1>6
  <2>2. /\ r \in Requests /\ client[r] = c
        /\ pc[r] = "undone" /\ {"gave", "returned"} \subseteq did[r]
    BY <1>3, <2>1, OutstandingByEnd
  <2> QED
    BY <1>6, <2>2
<1> QED
  BY <1>5, <1>6

\* Whatever the sagas of ruble.py and invest.py do to each other, a client's money is missing
\* only while a saga of that client is between its transactions, or after one died there or
\* could not compensate; and there is too much only after one that gave and also returned it.
THEOREM MoneyMissesOnlyLostSagas == Spec => []MoneyMissingOnlyAfterLostSagas
<1> QED
  BY EndsOpen, EndsKept, MissingHasSaga, PTL DEF Spec
=============================================================================
