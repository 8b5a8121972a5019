---------------------------- MODULE BankApiProofs ----------------------------
(***************************************************************************)
(* Theorems about BankApi, for every set of accounts, cards, calls and     *)
(* handlers.  The inductive invariant says which rows a handler has locked *)
(* and which copies of rows its session may hold; what the handlers do to  *)
(* balances and statuses follows from it, and so does where money can get  *)
(* lost.                                                                   *)
(***************************************************************************)
EXTENDS BankApi, OrderAndSums, FiniteSetTheorems, TLAPS

-----------------------------------------------------------------------------
(* The inductive invariant. *)

Locking == {"lock", "locked"}

\* The call, the resolved receiver and the step of a handler belong together.
CallFits ==
    \A r \in Requests :
        /\ pc[r] # "idle" => call[r] \in Calls
        /\ pc[r] \in {"lookup", "resolve"} => call[r].op = "transfer"
        /\ pc[r] = "card" => /\ call[r] \in CardCall
                             /\ call[r].op = "issue" => call[r].account # NoAccount
        /\ pc[r] \in Locking =>
              \/ call[r].op = "close" /\ call[r].account # NoAccount /\ target[r] = NoAccount
              \/ /\ call[r].op = "transfer"
                 /\ target[r] \in Accounts /\ target[r] # call[r].from
        /\ pc[r] \notin Locking => target[r] = NoAccount

\* A row lock is held only by a handler that needs the row, between its first lock and
\* its commit or rollback; a handler that has gone on to decide holds all of them.  A
\* row it still needs comes after the rows it holds.
LocksFit ==
    \A r \in Requests :
        /\ \A a \in Accounts : lock[a] = r => pc[r] \in Locking /\ a \in RowsToLock(r)
        /\ pc[r] = "lock" => Unlocked(r) # {}
        /\ pc[r] = "locked" => Unlocked(r) = {}
        /\ \A a, b \in Accounts : lock[a] = r /\ b \in Unlocked(r) => a < b

\* A session holds the rows its handler has locked and the receiver it resolved; only
\* the copy of the receiver may be out of date.
SessionsFit ==
    \A r \in Requests, a \in Accounts :
        /\ session[r][a] # NoRow => (a = target[r] \/ lock[a] = r) /\ session[r][a].balance >= 0
        /\ lock[a] = r => session[r][a] # NoRow
        /\ lock[a] = r /\ a # target[r] => session[r][a] = account[a]

IInv == TypeOK /\ NoOverdraft /\ CallFits /\ LocksFit /\ SessionsFit

-----------------------------------------------------------------------------
(* Choices. *)

\* The receiver resolved among several candidates is one of them.
LEMMA OldestIsMember ==
    ASSUME NEW S \in SUBSET Accounts, S # {}
    PROVE  Oldest(S) \in S
<1> DEFINE times == {CreatedAt[a] : a \in S}
<1>1. \A a \in S : CreatedAt[a] \in Nat /\ CreatedAt[a] \in times
  BY ConstantsAssumption
<1>2. PICK m \in times : \A n \in times : m <= n
  <2>1. times \in SUBSET Nat /\ times # {}
    BY <1>1
  <2> QED
    BY <2>1, LeastNatural
<1>3. \E a \in S : \A b \in S : CreatedAt[a] <= CreatedAt[b]
  BY <1>1, <1>2
<1> QED
  BY <1>3 DEF Oldest

\* The next row to lock is the least of those the handler still needs.
LEMMA NextRowIsLeast ==
    ASSUME NEW r \in Requests, Unlocked(r) # {}, RowsToLock(r) \subseteq Accounts
    PROVE  NextRow(r) \in Unlocked(r) /\ \A b \in Unlocked(r) : NextRow(r) <= b
<1>1. Unlocked(r) \in SUBSET Nat
  BY ConstantsAssumption DEF Unlocked
<1>2. \E a \in Unlocked(r) : \A b \in Unlocked(r) : a <= b
  BY <1>1, LeastNatural
<1> QED
  BY <1>2 DEF NextRow

-----------------------------------------------------------------------------
(* Types. *)

\* What every end of a handler, with or without a commit, leaves well typed.
LEMMA FinishType ==
    ASSUME TypeOK, NEW r \in Requests, NEW how \in Answers, Finish(r, how)
    PROVE  /\ lock' \in [Accounts -> Requests \union {NoOne}]
           /\ pc' \in [Requests -> {"idle", "lookup", "resolve", "lock", "locked", "card"} \union Answers]
           /\ call' \in [Requests -> Calls \union {NoCall}]
           /\ target' \in [Requests -> Accounts \union {NoAccount}]
           /\ session' \in [Requests -> [Accounts -> AccountRow \union {NoRow}]]
<1>1. lock' \in [Accounts -> Requests \union {NoOne}]
  BY DEF TypeOK, Finish
<1>2. EmptySession \in [Accounts -> AccountRow \union {NoRow}]
  BY DEF EmptySession
<1> QED
  BY <1>1, <1>2 DEF TypeOK, Finish

\* A rollback changes only the control state.
LEMMA RollbackType ==
    ASSUME TypeOK, NEW r \in Requests, NEW how \in Answers, Rollback(r, how)
    PROVE  TypeOK'
<1>1. Finish(r, how)
  BY DEF Rollback
<1> QED
  BY <1>1, FinishType DEF TypeOK, Rollback

\* Loading a row keeps the session well typed.
LEMMA LoadType ==
    ASSUME TypeOK, NEW r \in Requests, NEW a \in Accounts, Load(r, a)
    PROVE  session' \in [Requests -> [Accounts -> AccountRow \union {NoRow}]]
<1>1. Loaded(r, a) \in AccountRow
  BY DEF TypeOK, Loaded
<1>2. [session[r] EXCEPT ![a] = Loaded(r, a)] \in [Accounts -> AccountRow \union {NoRow}]
  BY <1>1 DEF TypeOK
<1> QED
  BY <1>2 DEF TypeOK, Load

-----------------------------------------------------------------------------
(* The handlers, step by step. *)

\* The operation of a call tells what fields it has.
LEMMA CallShape ==
    ASSUME NEW c \in Calls
    PROVE  /\ c.op = "transfer" => c \in TransferCall
           /\ c.op = "close" => c \in CloseCall
           /\ c.op \notin {"transfer", "close"} => c \in CardCall
BY ConstantsAssumption DEF TransferCall, CloseCall, CardCall

\* The rows a handler locks are accounts.
LEMMA RowsAreAccounts ==
    ASSUME IInv, NEW r \in Requests, pc[r] \in Locking
    PROVE  RowsToLock(r) \subseteq Accounts
<1>1. call[r] \in Calls
  BY DEF IInv, CallFits, Locking
<1>2. CASE call[r].op = "close"
  <2>1. call[r] \in CloseCall /\ call[r].account # NoAccount
    BY <1>1, <1>2, CallShape DEF IInv, CallFits, Locking
  <2> QED
    BY <1>2, <2>1 DEF RowsToLock, CloseCall
<1>3. CASE call[r].op # "close"
  BY <1>3 DEF RowsToLock
<1> QED
  BY <1>2, <1>3

\* A handler ends while the rows that others have locked stay as they are: the locks
\* and the sessions of the others are not disturbed, its own are gone.
LEMMA FinishFits ==
    ASSUME IInv, NEW r \in Requests, NEW how \in Answers, Finish(r, how), pc[r] # "idle",
           \A q \in Requests \ {r}, a \in Accounts : lock[a] = q => account'[a] = account[a]
    PROVE  CallFits' /\ LocksFit' /\ SessionsFit'
<1> USE DEF IInv, TypeOK, Finish
<1>1. how \notin {"idle", "lookup", "resolve", "lock", "locked", "card"}
  BY DEF Answers
<1>2. r # NoOne
  BY ConstantsAssumption
<1>3. CallFits'
  BY <1>1 DEF CallFits, Locking
<1>4. \A q \in Requests \ {r} : RowsToLock(q)' = RowsToLock(q)
  BY DEF RowsToLock
<1>5. \A q \in Requests \ {r}, a \in Accounts : lock'[a] = q <=> lock[a] = q
  BY ConstantsAssumption
<1>6. \A a \in Accounts : lock'[a] # r
  BY <1>2
<1>7. LocksFit'
  <2> SUFFICES ASSUME NEW q \in Requests
               PROVE  /\ \A a \in Accounts : lock'[a] = q => pc'[q] \in Locking /\ a \in RowsToLock(q)'
                      /\ pc'[q] = "lock" => Unlocked(q)' # {}
                      /\ pc'[q] = "locked" => Unlocked(q)' = {}
                      /\ \A a, b \in Accounts : lock'[a] = q /\ b \in Unlocked(q)' => a < b
    BY DEF LocksFit
  <2>1. CASE q = r
    BY <2>1, <1>1, <1>6
  <2>2. CASE q # r
    <3>1. pc'[q] = pc[q]
      BY <2>2
    <3>2. pc[q] \in Locking => Unlocked(q)' = Unlocked(q)
      BY <2>2, <1>4, <1>5, RowsAreAccounts DEF Unlocked
    <3> QED
      BY <2>2, <1>4, <1>5, <3>1, <3>2 DEF LocksFit, Locking
  <2> QED
    BY <2>1, <2>2
<1>8. SessionsFit'
  <2> SUFFICES ASSUME NEW q \in Requests, NEW a \in Accounts
               PROVE  /\ session'[q][a] # NoRow =>
                            (a = target'[q] \/ lock'[a] = q) /\ session'[q][a].balance >= 0
                      /\ lock'[a] = q => session'[q][a] # NoRow
                      /\ lock'[a] = q /\ a # target'[q] => session'[q][a] = account'[a]
    BY DEF SessionsFit
  <2>1. CASE q = r
    BY <2>1, <1>6 DEF EmptySession
  <2>2. CASE q # r
    BY <2>2, <1>5 DEF SessionsFit
  <2> QED
    BY <2>1, <2>2
<1> QED
  BY <1>3, <1>7, <1>8

\* A rollback at any step of a handler keeps the invariant.
LEMMA RollbackKeeps ==
    ASSUME IInv, NEW r \in Requests, NEW how \in Answers, Rollback(r, how), pc[r] # "idle"
    PROVE  IInv'
<1>1. TypeOK'
  BY RollbackType DEF IInv
<1>2. NoOverdraft'
  BY DEF IInv, NoOverdraft, Rollback
<1>3. CallFits' /\ LocksFit' /\ SessionsFit'
  BY FinishFits DEF Rollback
<1> QED
  BY <1>1, <1>2, <1>3 DEF IInv

\* A new call starts with an empty session and no lock.
LEMMA ReceiveKeeps ==
    ASSUME IInv, NEW r \in Requests, Receive(r)
    PROVE  IInv'
<1> USE DEF IInv, TypeOK
<1> PICK c \in Calls :
        /\ call' = [call EXCEPT ![r] = c]
        /\ pc' = [pc EXCEPT ![r] = FirstStep(c)]
  BY DEF Receive
<1>1. /\ pc[r] = "idle"
      /\ UNCHANGED <<account, card, recorded, history, lock, target, session>>
  BY DEF Receive
<1>2. /\ c.op = "transfer" => pc'[r] \in {"lookup", "resolve"}
      /\ c.op = "close" => \/ pc'[r] = "lock" /\ c.account # NoAccount
                           \/ pc'[r] = "rejected"
      /\ c.op \notin {"transfer", "close"} =>
            \/ pc'[r] = "card" /\ (c.op = "issue" => c.account # NoAccount)
            \/ pc'[r] = "rejected"
  BY DEF IInv, TypeOK, FirstStep
<1>3. TypeOK'
  BY <1>1, <1>2 DEF Answers
<1>4. NoOverdraft'
  BY <1>1 DEF NoOverdraft
<1>5. target[r] = NoAccount /\ \A a \in Accounts : lock[a] # r
  BY <1>1 DEF CallFits, LocksFit, Locking
<1>6. CallFits'
  BY <1>1, <1>2, <1>5, CallShape DEF CallFits, Locking
<1>7. LocksFit'
  <2> SUFFICES ASSUME NEW q \in Requests
               PROVE  /\ \A a \in Accounts : lock'[a] = q => pc'[q] \in Locking /\ a \in RowsToLock(q)'
                      /\ pc'[q] = "lock" => Unlocked(q)' # {}
                      /\ pc'[q] = "locked" => Unlocked(q)' = {}
                      /\ \A a, b \in Accounts : lock'[a] = q /\ b \in Unlocked(q)' => a < b
    BY DEF LocksFit
  <2>1. CASE q # r
    <3>1. RowsToLock(q)' = RowsToLock(q) /\ Unlocked(q)' = Unlocked(q) /\ pc'[q] = pc[q]
      BY <2>1, <1>1 DEF RowsToLock, Unlocked
    <3> QED
      BY <3>1, <1>1 DEF LocksFit
  <2>2. CASE q = r
    <3>1. pc'[r] = "lock" => c \in CloseCall /\ c.op = "close" /\ c.account # NoAccount
      BY <1>2, CallShape
    <3>2. pc'[r] = "lock" => RowsToLock(r)' = {c.account} /\ c.account \in Accounts
      BY <3>1 DEF RowsToLock, CloseCall
    <3>3. pc'[r] = "lock" => c.account \in Unlocked(r)'
      BY <3>2, <1>1, <1>5 DEF Unlocked
    <3> QED
      BY <2>2, <3>3, <1>1, <1>2, <1>5
  <2> QED
    BY <2>1, <2>2
<1>8. SessionsFit'
  BY <1>1 DEF SessionsFit
<1> QED
  BY <1>3, <1>4, <1>6, <1>7, <1>8

\* The look-up of a key touches no account row.
LEMMA LookupKeyKeeps ==
    ASSUME IInv, NEW r \in Requests, LookupKey(r)
    PROVE  IInv'
<1>1. CASE Rollback(r, "replayed")
  BY <1>1, RollbackKeeps DEF LookupKey, Answers
<1>2. CASE ~Rollback(r, "replayed")
  <2> USE DEF IInv, TypeOK
  <2>1. /\ pc[r] = "lookup" /\ pc' = [pc EXCEPT ![r] = "resolve"]
        /\ UNCHANGED <<account, card, recorded, history, lock, call, target, session>>
    BY <1>2 DEF LookupKey
  <2>2. TypeOK' /\ NoOverdraft' /\ SessionsFit'
    BY <2>1 DEF NoOverdraft, SessionsFit
  <2>3. CallFits'
    BY <2>1 DEF CallFits, Locking
  <2>4. \A q \in Requests : RowsToLock(q)' = RowsToLock(q) /\ Unlocked(q)' = Unlocked(q)
    BY <2>1 DEF RowsToLock, Unlocked
  <2>5. LocksFit'
    BY <2>1, <2>4 DEF LocksFit, Locking
  <2> QED
    BY <2>2, <2>3, <2>5
<1> QED
  BY <1>1, <1>2

\* A resolved receiver is an account other than the sender, and its copy is typed.
LEMMA ResolveReceiverKeeps ==
    ASSUME IInv, NEW r \in Requests, ResolveReceiver(r)
    PROVE  IInv'
<1> DEFINE a == Oldest(Receivers(call[r]))
<1>1. CASE Rollback(r, "rejected")
  BY <1>1, RollbackKeeps DEF ResolveReceiver, Answers
<1>2. CASE ~Rollback(r, "rejected")
  <2>1. /\ pc[r] = "resolve" /\ pc' = [pc EXCEPT ![r] = "lock"]
        /\ Receivers(call[r]) # {} /\ a # call[r].from
        /\ target' = [target EXCEPT ![r] = a] /\ Load(r, a)
        /\ UNCHANGED <<account, card, recorded, history, lock, call>>
    BY <1>2 DEF ResolveReceiver
  <2>2. a \in Accounts
    BY <2>1, OldestIsMember DEF Receivers
  <2> HIDE DEF a
  <2> USE DEF IInv, TypeOK
  <2>3. TypeOK'
    BY <2>1, <2>2, LoadType
  <2>4. NoOverdraft'
    BY <2>1 DEF NoOverdraft
  <2>5. call[r].op = "transfer" /\ target[r] = NoAccount /\ \A b \in Accounts : lock[b] # r
    BY <2>1 DEF CallFits, LocksFit, Locking
  <2>6. CallFits'
    BY <2>1, <2>2, <2>5 DEF CallFits, Locking
  <2>7. \A q \in Requests \ {r} : RowsToLock(q)' = RowsToLock(q) /\ Unlocked(q)' = Unlocked(q)
    BY <2>1 DEF RowsToLock, Unlocked
  <2>8. a \in Unlocked(r)'
    BY <2>1, <2>2, <2>5 DEF Unlocked, RowsToLock
  <2>9. LocksFit'
    BY <2>1, <2>5, <2>7, <2>8 DEF LocksFit, Locking
  <2>10. session' = [session EXCEPT ![r][a] = Loaded(r, a)]
    BY <2>1 DEF Load
  <2>11. \A b \in Accounts : session[r][b] = NoRow
    BY <2>5, ConstantsAssumption DEF SessionsFit
  <2>12. Loaded(r, a) = account[a] /\ Loaded(r, a).balance >= 0
    BY <2>2, <2>11 DEF Loaded, NoOverdraft
  <2>13. SessionsFit'
    BY <2>1, <2>2, <2>5, <2>10, <2>11, <2>12 DEF SessionsFit
  <2> QED
    BY <2>3, <2>4, <2>6, <2>9, <2>13
<1> QED
  BY <1>1, <1>2

\* A row is locked in id order, and the copy of a row that is not the receiver is fresh.
LEMMA LockRowKeeps ==
    ASSUME IInv, NEW r \in Requests, LockRow(r)
    PROVE  IInv'
<1> DEFINE a == NextRow(r)
<1>1. /\ pc[r] = "lock" /\ lock[a] = NoOne
      /\ lock' = [lock EXCEPT ![a] = r] /\ Load(r, a)
      /\ pc' = [pc EXCEPT ![r] = IF Unlocked(r) = {a} THEN "locked" ELSE "lock"]
      /\ UNCHANGED <<account, card, recorded, history, call, target>>
  BY DEF LockRow
<1>2. RowsToLock(r) \subseteq Accounts /\ Unlocked(r) # {}
  BY <1>1, RowsAreAccounts DEF IInv, LocksFit, Locking
<1>3. a \in Unlocked(r)
  BY <1>2, NextRowIsLeast
<1>4. a \in RowsToLock(r) /\ a \in Accounts
  BY <1>2, <1>3 DEF Unlocked
<1> HIDE DEF a
<1> USE DEF IInv, TypeOK
<1>5. r # NoOne
  BY ConstantsAssumption
<1>6. TypeOK'
  BY <1>1, <1>4, LoadType
<1>7. NoOverdraft'
  BY <1>1 DEF NoOverdraft
<1>8. CallFits'
  BY <1>1 DEF CallFits, Locking
<1>9. \A q \in Requests : RowsToLock(q)' = RowsToLock(q)
  BY <1>1 DEF RowsToLock
<1>10. \A q \in Requests \ {r} : pc[q] \in Locking => Unlocked(q)' = Unlocked(q)
  <2> TAKE q \in Requests \ {r}
  <2> HAVE pc[q] \in Locking
  <2>1. RowsToLock(q) \subseteq Accounts
    BY RowsAreAccounts
  <2>2. \A b \in Accounts : lock'[b] = q <=> lock[b] = q
    BY <1>1, <1>4, ConstantsAssumption
  <2> QED
    BY <2>1, <2>2, <1>9 DEF Unlocked
<1>11. Unlocked(r)' = Unlocked(r) \ {a}
  BY <1>1, <1>2, <1>4, <1>9 DEF Unlocked
<1>12. LocksFit'
  <2> SUFFICES ASSUME NEW q \in Requests
               PROVE  /\ \A b \in Accounts : lock'[b] = q => pc'[q] \in Locking /\ b \in RowsToLock(q)'
                      /\ pc'[q] = "lock" => Unlocked(q)' # {}
                      /\ pc'[q] = "locked" => Unlocked(q)' = {}
                      /\ \A b, c \in Accounts : lock'[b] = q /\ c \in Unlocked(q)' => b < c
    BY DEF LocksFit
  <2>1. CASE q # r
    BY <2>1, <1>1, <1>4, <1>9, <1>10, ConstantsAssumption DEF LocksFit, Locking
  <2>2. CASE q = r
    <3>1. pc'[r] \in Locking
      BY <1>1 DEF Locking
    <3>2. \A b, c \in Accounts : lock'[b] = r /\ c \in Unlocked(r)' => b < c
      <4> SUFFICES ASSUME NEW b \in Accounts, NEW c \in Accounts,
                          lock'[b] = r, c \in Unlocked(r)'
                   PROVE  b < c
        OBVIOUS
      <4>1. c \in Unlocked(r) /\ c # a /\ a <= c /\ a \in Nat /\ c \in Nat
        BY <1>2, <1>4, <1>11, NextRowIsLeast, ConstantsAssumption DEF a
      <4> QED
        BY <4>1, <1>1, <1>4 DEF LocksFit
    <3>3. \A b \in Accounts : lock'[b] = r => b \in RowsToLock(r)'
      BY <1>1, <1>4, <1>9 DEF LocksFit
    <3>4. /\ pc'[r] = "lock" => Unlocked(r)' # {}
          /\ pc'[r] = "locked" => Unlocked(r)' = {}
      BY <1>1, <1>2, <1>3, <1>11
    <3> QED
      BY <2>2, <3>1, <3>2, <3>3, <3>4
  <2> QED
    BY <2>1, <2>2
<1>13. session' = [session EXCEPT ![r][a] = Loaded(r, a)]
  BY <1>1 DEF Load
<1>14. Loaded(r, a) # NoRow /\ Loaded(r, a).balance >= 0
  BY <1>4, ConstantsAssumption DEF Loaded, NoOverdraft, SessionsFit
<1>15. a # target[r] => Loaded(r, a) = account[a]
  BY <1>1, <1>4, <1>5 DEF Loaded, SessionsFit
<1>16. SessionsFit'
  <2> SUFFICES ASSUME NEW q \in Requests, NEW b \in Accounts
               PROVE  /\ session'[q][b] # NoRow =>
                            (b = target'[q] \/ lock'[b] = q) /\ session'[q][b].balance >= 0
                      /\ lock'[b] = q => session'[q][b] # NoRow
                      /\ lock'[b] = q /\ b # target'[q] => session'[q][b] = account'[b]
    BY DEF SessionsFit
  <2>1. CASE q = r /\ b = a
    <3>1. session'[q][b] = Loaded(r, a) /\ lock'[b] = r
      BY <2>1, <1>1, <1>13
    <3> QED
      BY <2>1, <3>1, <1>1, <1>14, <1>15
  <2>2. CASE ~(q = r /\ b = a)
    <3>1. session'[q][b] = session[q][b]
      BY <2>2, <1>13
    <3>2. lock'[b] = q <=> lock[b] = q
      BY <2>2, <1>1, <1>4, ConstantsAssumption
    <3> QED
      BY <3>1, <3>2, <1>1 DEF SessionsFit
  <2> QED
    BY <2>1, <2>2
<1> QED
  BY <1>6, <1>7, <1>8, <1>12, <1>16

\* The two rows a transfer writes: it has locked both, and the one it debits is current.
LEMMA RowsOfTransfer ==
    ASSUME IInv, NEW r \in Requests, pc[r] = "locked", call[r].op = "transfer",
           call[r].from \in Accounts
    PROVE  /\ call[r] \in TransferCall
           /\ target[r] \in Accounts /\ target[r] # call[r].from
           /\ lock[call[r].from] = r /\ lock[target[r]] = r
           /\ session[r][call[r].from] = account[call[r].from]
           /\ session[r][target[r]] \in AccountRow /\ session[r][target[r]].balance >= 0
<1> USE DEF IInv, TypeOK
<1>1. call[r] \in TransferCall
  BY CallShape DEF CallFits
<1>2. target[r] \in Accounts /\ target[r] # call[r].from
  BY DEF CallFits, Locking
<1>3. \A a \in {call[r].from, target[r]} : lock[a] = r
  BY <1>2 DEF LocksFit, Unlocked, RowsToLock
<1> QED
  BY <1>1, <1>2, <1>3 DEF SessionsFit

\* The debit is covered, the credit adds to a copy that is not negative, and no other
\* handler has locked the two rows.
LEMMA CommitTransferKeeps ==
    ASSUME IInv, NEW r \in Requests, CommitTransfer(r)
    PROVE  IInv'
<1> DEFINE from == call[r].from
           to == target[r]
           amount == call[r].amount
<1>1. /\ pc[r] = "locked" /\ call[r].op = "transfer"
      /\ from \in Accounts /\ session[r][from].balance >= amount
      /\ Pay(r) /\ Finish(r, "committed") /\ UNCHANGED card
  BY DEF CommitTransfer, TransferAllowed
<1>2. /\ call[r] \in TransferCall
      /\ to \in Accounts /\ to # from
      /\ lock[from] = r /\ lock[to] = r
      /\ session[r][from] = account[from]
      /\ session[r][to] \in AccountRow /\ session[r][to].balance >= 0
  BY <1>1, RowsOfTransfer
<1>3. amount \in Nat \ {0} /\ call[r].key \in Keys \union {NoKey}
  BY <1>2 DEF TransferCall
<1>4. account' = [account EXCEPT
                    ![from].balance = session[r][from].balance - amount,
                    ![to].balance   = session[r][to].balance + amount]
  BY <1>1 DEF Pay
<1>5. history' \subseteq HistoryRow
  <2> DEFINE new == [by |-> r, from |-> from, to |-> to, amount |-> amount, key |-> call[r].key,
                     fresh |-> session[r][to] = account[to]]
  <2>1. new \in HistoryRow
    <3>1. (session[r][to] = account[to]) \in BOOLEAN
      OBVIOUS
    <3> QED
      BY <1>1, <1>2, <1>3, <3>1 DEF HistoryRow
  <2>2. history' = history \union {new}
    BY DEF CommitTransfer
  <2> QED
    BY <2>1, <2>2 DEF IInv, TypeOK
<1>6. recorded' \subseteq Keys
  BY <1>3 DEF CommitTransfer, IInv, TypeOK
<1> HIDE DEF from, to, amount
<1>7. account' \in [Accounts -> AccountRow]
  <2>1. account[from] \in AccountRow /\ account[to] \in AccountRow
    BY <1>1, <1>2 DEF IInv, TypeOK
  <2>2. [account[from] EXCEPT !.balance = session[r][from].balance - amount] \in AccountRow
    BY <1>2, <1>3, <2>1 DEF AccountRow
  <2>3. [account[to] EXCEPT !.balance = session[r][to].balance + amount] \in AccountRow
    BY <1>2, <1>3, <2>1 DEF AccountRow
  <2> QED
    BY <1>1, <1>2, <1>4, <2>2, <2>3 DEF IInv, TypeOK
<1>8. TypeOK'
  BY <1>1, <1>5, <1>6, <1>7, FinishType DEF IInv, TypeOK, Answers
<1>9. NoOverdraft'
  BY <1>1, <1>2, <1>3, <1>4 DEF IInv, TypeOK, NoOverdraft, AccountRow
<1>10. CallFits' /\ LocksFit' /\ SessionsFit'
  <2>1. \A q \in Requests \ {r}, a \in Accounts : lock[a] = q => account'[a] = account[a]
    BY <1>2, <1>4 DEF IInv, TypeOK
  <2> QED
    BY <1>1, <2>1, FinishFits DEF Answers
<1> QED
  BY <1>8, <1>9, <1>10 DEF IInv

\* A closing writes the status of a row that only its handler has locked.
LEMMA CommitCloseKeeps ==
    ASSUME IInv, NEW r \in Requests, CommitClose(r)
    PROVE  IInv'
<1> DEFINE a == call[r].account
<1>1. /\ pc[r] = "locked" /\ call[r].op = "close"
      /\ account' = [account EXCEPT ![a].status = "closed"]
      /\ Finish(r, "committed") /\ UNCHANGED <<card, recorded, history>>
  BY DEF CommitClose
<1>2. "committed" \in Answers
  BY DEF Answers
<1>3. a \in Accounts /\ lock[a] = r
  <2>1. a \in RowsToLock(r)
    BY <1>1 DEF RowsToLock
  <2>2. RowsToLock(r) \subseteq Accounts
    BY <1>1, RowsAreAccounts DEF Locking
  <2> QED
    BY <1>1, <2>1, <2>2 DEF IInv, LocksFit, Unlocked
<1> HIDE DEF a
<1>4. TypeOK'
  <2>1. account' \in [Accounts -> AccountRow]
    BY <1>1, <1>3 DEF IInv, TypeOK, AccountRow
  <2> QED
    BY <1>1, <1>2, <2>1, FinishType DEF IInv, TypeOK
<1>5. NoOverdraft'
  BY <1>1, <1>3 DEF IInv, TypeOK, NoOverdraft, AccountRow
<1>6. CallFits' /\ LocksFit' /\ SessionsFit'
  <2>1. \A q \in Requests \ {r}, b \in Accounts : lock[b] = q => account'[b] = account[b]
    BY <1>1, <1>3 DEF IInv, TypeOK
  <2> QED
    BY <1>1, <1>2, <2>1, FinishFits
<1> QED
  BY <1>4, <1>5, <1>6 DEF IInv

CardStep(r) ==
    IssueCard(r) \/ BlockCard(r) \/ FreezeCard(r) \/ ReissueCard(r)
        \/ CardNotFound(r) \/ NoCardNumber(r)

\* The card endpoints write cards only, and keep them well typed.
LEMMA CardStepShape ==
    ASSUME IInv, NEW r \in Requests, CardStep(r)
    PROVE  /\ pc[r] = "card" /\ \E how \in Answers : Answer(r, how)
           /\ card' \in [Cards -> [account : Accounts \union {NoAccount},
                                  status : {"unissued", "active", "frozen", "blocked"}]]
<1> DEFINE Card == [account : Accounts \union {NoAccount},
                    status : {"unissued", "active", "frozen", "blocked"}]
<1>1. pc[r] = "card" /\ \E how \in Answers : Answer(r, how)
  BY DEF CardStep, IssueCard, BlockCard, FreezeCard, SetCardStatus, ReissueCard, CardNotFound,
         NoCardNumber, Answers
<1>2. /\ card \in [Cards -> Card] /\ call[r] \in CardCall
      /\ call[r].op = "issue" => call[r].account # NoAccount
  <2>1. card \in [Cards -> Card]
    BY DEF IInv, TypeOK
  <2>2. CallFits
    BY DEF IInv
  <2>3. call[r] \in CardCall /\ (call[r].op = "issue" => call[r].account # NoAccount)
    BY <1>1, <2>2 DEF CallFits
  <2> QED
    BY <2>1, <2>3
<1>3. CASE IssueCard(r)
  <2>1. call[r].account \in Accounts
    BY <1>2, <1>3 DEF IssueCard, CardCall
  <2> QED
    <3>1. PICK new \in Unissued :
            card' = [card EXCEPT ![new] = [account |-> call[r].account, status |-> "active"]]
      BY <1>3 DEF IssueCard
    <3>2. [account |-> call[r].account, status |-> "active"] \in Card
      BY <2>1
    <3> QED
      BY <1>1, <1>2, <3>1, <3>2 DEF Unissued
<1>4. ASSUME NEW op, NEW status \in {"frozen", "blocked"}, SetCardStatus(r, op, status)
      PROVE  card' \in [Cards -> Card]
  BY <1>2, <1>4 DEF SetCardStatus
<1>5. CASE ReissueCard(r)
  <2>1. PICK new \in Unissued :
          card' = [card EXCEPT
                     ![call[r].card].status = "blocked",
                     ![new] = [account |-> card[call[r].card].account, status |-> "active"]]
    BY <1>5 DEF ReissueCard
  <2>2. call[r].card \in Cards
    BY <1>2, <1>5 DEF ReissueCard, CardCall
  <2> QED
    BY <1>1, <1>2, <2>1, <2>2 DEF Unissued
<1>6. CASE CardNotFound(r) \/ NoCardNumber(r)
  BY <1>1, <1>2, <1>6 DEF CardNotFound, NoCardNumber
<1> QED
  BY <1>1, <1>3, <1>4, <1>5, <1>6 DEF CardStep, BlockCard, FreezeCard

\* The card endpoints touch neither accounts nor locks.
LEMMA CardStepKeeps ==
    ASSUME IInv, NEW r \in Requests, CardStep(r)
    PROVE  IInv'
<1>1. pc[r] = "card"
  BY CardStepShape
<1>2. PICK how \in Answers : Answer(r, how)
  BY CardStepShape
<1> USE DEF IInv, TypeOK
<1>3. /\ pc' = [pc EXCEPT ![r] = how]
      /\ UNCHANGED <<account, recorded, history, lock, call, target, session>>
  BY <1>2 DEF Answer, cardsOnly
<1>4. TypeOK'
  BY <1>3, CardStepShape
<1>5. NoOverdraft' /\ SessionsFit'
  BY <1>3 DEF NoOverdraft, SessionsFit
<1>6. CallFits'
  BY <1>1, <1>3 DEF CallFits, Locking, Answers
<1>7. \A q \in Requests : RowsToLock(q)' = RowsToLock(q) /\ Unlocked(q)' = Unlocked(q)
  BY <1>3 DEF RowsToLock, Unlocked
<1>8. LocksFit'
  BY <1>1, <1>3, <1>7 DEF LocksFit, Locking, Answers
<1> QED
  BY <1>4, <1>5, <1>6, <1>8

-----------------------------------------------------------------------------
(* The invariant. *)

\* The invariant holds initially.
LEMMA InitFits == Init => IInv
<1> SUFFICES ASSUME Init PROVE IInv
  OBVIOUS
<1> USE DEF Init
<1>1. EmptySession \in [Accounts -> AccountRow \union {NoRow}]
  BY DEF EmptySession
<1>2. account \in [Accounts -> AccountRow]
  BY ConstantsAssumption DEF AccountRow
<1>3. TypeOK
  BY <1>1, <1>2 DEF TypeOK
<1>4. NoOverdraft
  BY ConstantsAssumption DEF NoOverdraft
<1>5. CallFits
  BY DEF CallFits, Locking
<1>6. LocksFit
  BY ConstantsAssumption DEF LocksFit, Locking
<1>7. SessionsFit
  BY ConstantsAssumption DEF SessionsFit, EmptySession
<1> QED
  BY <1>3, <1>4, <1>5, <1>6, <1>7 DEF IInv

\* Every step of the system keeps the invariant.
LEMMA NextKeeps == IInv /\ [Next]_vars => IInv'
<1> SUFFICES ASSUME IInv, [Next]_vars PROVE IInv'
  OBVIOUS
<1>1. CASE UNCHANGED vars
  BY <1>1 DEF vars, IInv, TypeOK, NoOverdraft, CallFits, LocksFit, SessionsFit, RowsToLock, Unlocked
<1>2. ASSUME NEW r \in Requests, Receive(r) \/ Step(r) \/ Abort(r)
      PROVE  IInv'
  <2>1. CASE Receive(r)
    BY <2>1, ReceiveKeeps
  <2>2. CASE LookupKey(r)
    BY <2>2, LookupKeyKeeps
  <2>3. CASE ResolveReceiver(r)
    BY <2>3, ResolveReceiverKeeps
  <2>4. CASE LockRow(r)
    BY <2>4, LockRowKeeps
  <2>5. CASE CommitTransfer(r)
    BY <2>5, CommitTransferKeeps
  <2>6. CASE CommitClose(r)
    BY <2>6, CommitCloseKeeps
  <2>7. CASE RejectTransfer(r) \/ FailTransfer(r) \/ RejectClose(r) \/ Abort(r)
    BY <2>7, RollbackKeeps DEF RejectTransfer, FailTransfer, RejectClose, Abort, Answers
  <2>8. CASE CardStep(r)
    BY <2>8, CardStepKeeps
  <2> QED
    BY <1>2, <2>1, <2>2, <2>3, <2>4, <2>5, <2>6, <2>7, <2>8 DEF Step, CardStep
<1> QED
  BY <1>1, <1>2 DEF Next, AllAnswered

\* The inductive invariant holds in every reachable state.
THEOREM Invariant == Spec => []IInv
BY InitFits, NextKeeps, PTL DEF Spec

\* Every table, session and handler keeps its type.
THEOREM TypeCorrect == Spec => []TypeOK
<1>1. IInv => TypeOK
  BY DEF IInv
<1> QED
  BY <1>1, Invariant, PTL

\* No interleaving of transfers, closings, refusals and aborts overdraws an account,
\* although a transfer writes both balances from the copies in its session.
THEOREM AccountsNeverOverdrawn == Spec => []NoOverdraft
<1>1. IInv => NoOverdraft
  BY DEF IInv
<1> QED
  BY <1>1, Invariant, PTL

-----------------------------------------------------------------------------
(* What a decision is taken on. *)

\* The decision is made on the committed row.
LEMMA SubjectFresh == IInv => SubjectIsFresh
<1> SUFFICES ASSUME IInv, NEW r \in Requests, pc[r] = "locked", Subject(r) \in Accounts
             PROVE  session[r][Subject(r)] = account[Subject(r)]
  BY DEF SubjectIsFresh
<1> USE DEF IInv, TypeOK
<1>1. CASE call[r].op = "close"
  <2>1. Subject(r) \in RowsToLock(r) /\ Subject(r) # target[r]
    BY <1>1, ConstantsAssumption DEF Subject, RowsToLock, CallFits, Locking
  <2> QED
    BY <2>1 DEF LocksFit, SessionsFit, Unlocked
<1>2. CASE call[r].op # "close"
  <2>1. Subject(r) \in RowsToLock(r) /\ Subject(r) # target[r]
    BY <1>2 DEF Subject, RowsToLock, CallFits, Locking
  <2> QED
    BY <2>1 DEF LocksFit, SessionsFit, Unlocked
<1> QED
  BY <1>1, <1>2

\* Whatever the others do, a handler that is about to debit or to close an account sees
\* that account as it is committed: the row lock protects the check until the write.
THEOREM DecisionsOnFreshRows == Spec => []SubjectIsFresh
BY SubjectFresh, Invariant, PTL

\* Only a commit writes accounts and transactions.
LEMMA WhoWrites ==
    ASSUME [Next]_vars, account' # account \/ history' # history
    PROVE  \E r \in Requests : CommitTransfer(r) \/ CommitClose(r)
<1>1. ~UNCHANGED vars
  BY DEF vars
<1>2. PICK r \in Requests : Receive(r) \/ Step(r) \/ Abort(r)
  BY <1>1 DEF Next, AllAnswered
<1>3. ASSUME NEW how, Rollback(r, how) PROVE FALSE
  BY <1>3 DEF Rollback
<1>4. ~(Receive(r) \/ LookupKey(r) \/ ResolveReceiver(r) \/ LockRow(r))
  BY <1>3 DEF Receive, LookupKey, ResolveReceiver, LockRow
<1>5. ~(RejectTransfer(r) \/ FailTransfer(r) \/ RejectClose(r) \/ Abort(r))
  BY <1>3 DEF RejectTransfer, FailTransfer, RejectClose, Abort
<1>6. ~CardStep(r)
  BY DEF CardStep, IssueCard, BlockCard, FreezeCard, SetCardStatus, ReissueCard, CardNotFound,
         NoCardNumber, Answer, cardsOnly
<1> QED
  BY <1>2, <1>4, <1>5, <1>6 DEF Step, CardStep

\* No transfer commits on a balance or a status another handler has changed since: its
\* sender is open and has the money at the moment of the commit.
THEOREM TransfersAreCovered == Spec => DebitsAreCovered
<1>1. ASSUME IInv, [Next]_vars, NEW h \in history' \ history
      PROVE  /\ account[h.from].status = "active"
             /\ account[h.from].balance >= h.amount
             /\ account'[h.from].balance = account[h.from].balance - h.amount
  <2>1. PICK r \in Requests : CommitTransfer(r) \/ CommitClose(r)
    BY <1>1, WhoWrites
  <2>2. CommitTransfer(r)
    BY <1>1, <2>1 DEF CommitClose
  <2>3. /\ pc[r] = "locked" /\ call[r].op = "transfer" /\ call[r].from \in Accounts
        /\ session[r][call[r].from].status = "active"
        /\ session[r][call[r].from].balance >= call[r].amount
        /\ Pay(r)
        /\ h.from = call[r].from /\ h.amount = call[r].amount
    BY <1>1, <2>2 DEF CommitTransfer, TransferAllowed
  <2>4. /\ target[r] \in Accounts /\ target[r] # call[r].from
        /\ session[r][call[r].from] = account[call[r].from]
    BY <1>1, <2>3, RowsOfTransfer
  <2>5. account'[call[r].from].balance = session[r][call[r].from].balance - call[r].amount
    BY <1>1, <2>3, <2>4 DEF Pay, IInv, TypeOK, AccountRow
  <2> QED
    BY <2>3, <2>4, <2>5
<1>2. IInv /\ [Next]_vars =>
        [\A h \in history' \ history :
            /\ account[h.from].status = "active"
            /\ account[h.from].balance >= h.amount
            /\ account'[h.from].balance = account[h.from].balance - h.amount]_vars
  BY <1>1
<1> QED
  BY <1>2, Invariant, PTL DEF Spec, DebitsAreCovered

\* An account with money on it is never closed, and a closed account never reopens.
THEOREM OnlyEmptyAccountsClose == Spec => ClosesOnlyEmptyAccounts
<1>1. ASSUME IInv, [Next]_vars, NEW a \in Accounts, account'[a].status # account[a].status
      PROVE  account[a].status = "active" /\ account[a].balance = 0
  <2>1. PICK r \in Requests : CommitTransfer(r) \/ CommitClose(r)
    BY <1>1, WhoWrites
  <2>2. CASE CommitTransfer(r)
    <3>1. account'[a].status = account[a].status
      <4>1. account' = [account EXCEPT
                ![call[r].from].balance = session[r][call[r].from].balance - call[r].amount,
                ![target[r]].balance    = session[r][target[r]].balance + call[r].amount]
        BY <2>2 DEF CommitTransfer, Pay
      <4>2. call[r].from \in Accounts /\ target[r] \in Accounts /\ target[r] # call[r].from
        BY <1>1, <2>2, RowsOfTransfer DEF CommitTransfer, TransferAllowed
      <4>3. \A x : \A b \in Accounts : [account[b] EXCEPT !.balance = x].status = account[b].status
        BY <1>1 DEF IInv, TypeOK, AccountRow
      <4>4. account'[a] = account[a] \/ \E x : account'[a] = [account[a] EXCEPT !.balance = x]
        BY <1>1, <4>1, <4>2 DEF IInv, TypeOK
      <4> QED
        BY <4>3, <4>4
    <3> QED
      BY <1>1, <3>1
  <2>3. CASE CommitClose(r)
    <3>1. /\ pc[r] = "locked" /\ call[r].op = "close"
          /\ account' = [account EXCEPT ![call[r].account].status = "closed"]
          /\ session[r][call[r].account].status # "closed"
          /\ session[r][call[r].account].balance = 0
      BY <2>3 DEF CommitClose, CloseAllowed
    <3>2. a = call[r].account
      BY <1>1, <3>1 DEF IInv, TypeOK, AccountRow
    <3>3. session[r][a] = account[a]
      BY <1>1, <3>1, <3>2, SubjectFresh DEF SubjectIsFresh, Subject
    <3> QED
      BY <1>1, <3>1, <3>2, <3>3 DEF IInv, TypeOK, AccountRow
  <2> QED
    BY <2>1, <2>2, <2>3
<1>2. IInv /\ [Next]_vars =>
        [\A a \in Accounts : account'[a].status # account[a].status =>
            account[a].status = "active" /\ account[a].balance = 0]_vars
  BY <1>1
<1> QED
  BY <1>2, Invariant, PTL DEF Spec, ClosesOnlyEmptyAccounts

-----------------------------------------------------------------------------
(* Deadlock. *)

\* A waiter wants a row greater than every row it holds, so the row one waiter wants and
\* the next one holds is less than the row the next one wants.
LEMMA WaitersAscend ==
    ASSUME IInv, NEW r \in Requests, NEW s \in Requests, NEW q, WaitsFor(r, s), WaitsFor(s, q)
    PROVE  /\ NextRow(r) \in Accounts /\ NextRow(s) \in Accounts
           /\ NextRow(r) < NextRow(s)
<1>1. ASSUME NEW p \in Requests, pc[p] = "lock"
      PROVE  NextRow(p) \in Unlocked(p) /\ NextRow(p) \in Accounts
  <2>1. RowsToLock(p) \subseteq Accounts /\ Unlocked(p) # {}
    BY <1>1, RowsAreAccounts DEF IInv, LocksFit, Locking
  <2> QED
    BY <2>1, NextRowIsLeast DEF Unlocked
<1>2. pc[r] = "lock" /\ lock[NextRow(r)] = s /\ pc[s] = "lock"
  BY DEF WaitsFor
<1>3. NextRow(r) \in Accounts /\ NextRow(s) \in Accounts /\ NextRow(s) \in Unlocked(s)
  BY <1>1, <1>2
<1>4. NextRow(r) < NextRow(s)
  BY <1>2, <1>3 DEF IInv, LocksFit
<1> QED
  BY <1>3, <1>4

\* The handler of the set that holds the greatest row that is waited for does not wait.
LEMMA NoCycle == IInv => NoWaitCycle
<1> SUFFICES ASSUME IInv, NEW S \in (SUBSET Requests) \ {{}}
             PROVE  \E r \in S : \A s \in S : ~WaitsFor(r, s)
  BY DEF NoWaitCycle
<1> SUFFICES ASSUME \A r \in S : \E s \in S : WaitsFor(r, s)
             PROVE  FALSE
  OBVIOUS
<1> DEFINE wanted == {NextRow(r) : r \in S}
<1>1. \A r \in S : NextRow(r) \in Accounts
  BY WaitersAscend
<1>2. wanted \in SUBSET Nat /\ IsFiniteSet(wanted) /\ wanted # {}
  <2>1. wanted \in SUBSET Accounts
    BY <1>1
  <2>2. wanted # {}
    <3>1. PICK p \in S : TRUE
      OBVIOUS
    <3>2. NextRow(p) \in wanted
      BY <3>1
    <3> QED
      BY <3>2
  <2> HIDE DEF wanted
  <2> QED
    BY <2>1, <2>2, ConstantsAssumption, FS_Subset
<1>3. PICK m \in wanted : \A n \in wanted : n <= m
  BY <1>2, GreatestNatural
<1>4. PICK r \in S : NextRow(r) = m
  BY <1>3
<1>5. PICK s \in S : WaitsFor(r, s) /\ \E q \in S : WaitsFor(s, q)
  BY <1>4
<1>6. NextRow(r) < NextRow(s) /\ NextRow(r) \in Nat /\ NextRow(s) \in Nat
  BY <1>5, WaitersAscend, ConstantsAssumption
<1>7. NextRow(s) <= m
  BY <1>3
<1> QED
  BY <1>4, <1>6, <1>7

\* Locking rows in id order excludes deadlock among any number of transfers and closings
\* over any set of accounts.
THEOREM LockOrderPreventsDeadlock == Spec => []NoWaitCycle
BY NoCycle, Invariant, PTL
-----------------------------------------------------------------------------
(* Money is conserved. *)

\* There are finitely many transactions, each of a handler that has committed.
HistoryFits == IsFiniteSet(history) /\ \A h \in history : pc[h.by] = "committed"

Books == IInv /\ HistoryFits /\ MoneyLostOnlyByStaleCredit

\* A transaction counts for the accounts at its two ends, and for no others.
LEMMA MovedAdds ==
    ASSUME TypeOK, IsFiniteSet(history), NEW h \in HistoryRow, h \notin history,
           history' = history \union {h}, NEW end \in {"from", "to"}, NEW a
    PROVE  /\ Moved(a, end) \in Int
           /\ Moved(a, end)' = Moved(a, end) + IF h[end] = a THEN h.amount ELSE 0
<1> DEFINE old == [x \in history |-> x.amount]
           new == [x \in history' |-> x.amount]
           S == {x \in history : x[end] = a}
<1>1. IsFiniteSet(S) /\ \A x \in S : x \in HistoryRow /\ x.amount \in Int
  BY FS_Subset DEF TypeOK, HistoryRow
<1>2. (\A x \in S : old[x] \in Int /\ new[x] = old[x]) /\ h \notin S
  BY <1>1
<1>3. new[h] = h.amount /\ h.amount \in Int
  BY DEF HistoryRow
<1>4. Moved(a, end) = SumFunctionOnSet(old, S)
  BY DEF Moved
<1>5. Moved(a, end)' = SumFunctionOnSet(new, {x \in history' : x[end] = a})
  BY DEF Moved
<1>6. {x \in history' : x[end] = a} = IF h[end] = a THEN S \union {h} ELSE S
  OBVIOUS
<1> HIDE DEF old, new, S
<1>7. SumFunctionOnSet(old, S) \in Int /\ SumFunctionOnSet(new, S) = SumFunctionOnSet(old, S)
  BY <1>1, <1>2, SumUnfold, SumSame
<1>8. h \notin S => SumFunctionOnSet(new, S \union {h}) = SumFunctionOnSet(new, S) + new[h]
  <2>1. \A x \in S \union {h} : new[x] \in Int
    BY <1>2, <1>3
  <2> QED
    BY <1>1, <2>1, SumAdd
<1>9. CASE h[end] = a
  BY <1>2, <1>3, <1>4, <1>5, <1>6, <1>7, <1>8, <1>9
<1>10. CASE h[end] # a
  BY <1>4, <1>5, <1>6, <1>7, <1>10
<1> QED
  BY <1>9, <1>10

\* A transfer that credits a current copy moves its amount from one balance to the other
\* and records it.
LEMMA TransferBalances ==
    ASSUME Books, NEW r \in Requests, CommitTransfer(r), \A h \in history' : h.fresh
    PROVE  BalancesMatchHistory'
<1> DEFINE from == call[r].from
           to == target[r]
           amount == call[r].amount
<1>1. /\ pc[r] = "locked" /\ call[r].op = "transfer" /\ from \in Accounts /\ Pay(r)
  BY DEF CommitTransfer, TransferAllowed
<1>2. /\ to \in Accounts /\ to # from
      /\ session[r][from] = account[from]
  BY <1>1, RowsOfTransfer DEF Books
<1>3. amount \in Nat \ {0} /\ call[r].key \in Keys \union {NoKey}
  <2>1. call[r] \in TransferCall
    BY <1>1, CallShape DEF Books, IInv, CallFits
  <2> QED
    BY <2>1 DEF TransferCall
<1>4. PICK h : h = [by |-> r, from |-> from, to |-> to, amount |-> amount,
                    key |-> call[r].key, fresh |-> session[r][to] = account[to]]
  OBVIOUS
<1>5. history' = history \union {h}
  BY <1>4 DEF CommitTransfer
<1>6. h \in HistoryRow /\ h.from = from /\ h.to = to /\ h.amount = amount /\ h.by = r
  BY <1>1, <1>2, <1>3, <1>4 DEF HistoryRow
<1>7. h \notin history
  BY <1>1, <1>6 DEF Books, HistoryFits
<1>8. session[r][to] = account[to]
  <2>1. h.fresh
    BY <1>5
  <2>2. h.fresh = (session[r][to] = account[to])
    BY <1>4
  <2> QED
    BY <2>1, <2>2
<1>9. BalancesMatchHistory
  BY <1>5 DEF Books, MoneyLostOnlyByStaleCredit
<1>10. ASSUME NEW a \in Accounts
       PROVE  account'[a].balance = account[a].balance
                 + (IF to = a THEN amount ELSE 0) - (IF from = a THEN amount ELSE 0)
  <2>1. account' = [account EXCEPT ![from].balance = account[from].balance - amount,
                                   ![to].balance   = account[to].balance + amount]
    BY <1>1, <1>2, <1>8 DEF Pay
  <2>2. account \in [Accounts -> AccountRow]
    BY DEF Books, IInv, TypeOK
  <2> HIDE DEF from, to, amount
  <2> QED
    BY <1>2, <1>3, <2>1, <2>2 DEF AccountRow
<1>11. ASSUME NEW a \in Accounts
       PROVE  account'[a].balance = Opening[a] + Moved(a, "to")' - Moved(a, "from")'
  <2>1. /\ Moved(a, "to") \in Int /\ Moved(a, "from") \in Int
        /\ Moved(a, "to")' = Moved(a, "to") + IF to = a THEN amount ELSE 0
        /\ Moved(a, "from")' = Moved(a, "from") + IF from = a THEN amount ELSE 0
    BY <1>5, <1>6, <1>7, MovedAdds DEF Books, IInv, HistoryFits
  <2>2. account[a].balance = Opening[a] + Moved(a, "to") - Moved(a, "from")
    BY <1>9 DEF BalancesMatchHistory
  <2>3. Opening[a] \in Int
    BY ConstantsAssumption
  <2> HIDE DEF from, to, amount
  <2> QED
    BY <1>3, <1>10, <2>1, <2>2, <2>3
<1> QED
  BY <1>11 DEF BalancesMatchHistory

\* No other step writes a balance or a transaction.
LEMMA OtherStepsBalance ==
    ASSUME Books, [Next]_vars, ~\E r \in Requests : CommitTransfer(r)
    PROVE  /\ history' = history
           /\ \A a \in Accounts : account'[a].balance = account[a].balance
<1>1. CASE account' = account /\ history' = history
  BY <1>1
<1>2. CASE account' # account \/ history' # history
  <2>1. PICK r \in Requests : CommitClose(r)
    BY <1>2, WhoWrites
  <2> QED
    BY <2>1 DEF CommitClose, Books, IInv, TypeOK, AccountRow
<1> QED
  BY <1>1, <1>2

\* A handler that has committed takes no further step.
LEMMA Settled ==
    ASSUME IInv, [Next]_vars, NEW r \in Requests, pc[r] = "committed"
    PROVE  pc'[r] = "committed"
<1>1. CASE UNCHANGED vars
  BY <1>1 DEF vars
<1>2. ASSUME NEW s \in Requests, Receive(s) \/ Step(s) \/ Abort(s)
      PROVE  pc'[r] = "committed"
  <2>1. pc[s] # "committed" /\ \E how : pc' = [pc EXCEPT ![s] = how]
    <3>1. ASSUME NEW how, Rollback(s, how) PROVE \E x : pc' = [pc EXCEPT ![s] = x]
      BY <3>1 DEF Rollback, Finish
    <3>2. CASE Receive(s)
      BY <3>2 DEF Receive
    <3>3. CASE LookupKey(s)
      BY <3>1, <3>3 DEF LookupKey
    <3>4. CASE ResolveReceiver(s)
      BY <3>1, <3>4 DEF ResolveReceiver
    <3>5. CASE LockRow(s)
      BY <3>5 DEF LockRow
    <3>6. CASE CommitTransfer(s) \/ CommitClose(s)
      BY <3>6 DEF CommitTransfer, CommitClose, Finish
    <3>7. CASE RejectTransfer(s) \/ FailTransfer(s) \/ RejectClose(s) \/ Abort(s)
      BY <3>1, <3>7 DEF RejectTransfer, FailTransfer, RejectClose, Abort
    <3>8. CASE CardStep(s)
      BY <3>8, CardStepShape DEF Answer
    <3> QED
      BY <1>2, <3>2, <3>3, <3>4, <3>5, <3>6, <3>7, <3>8 DEF Step, CardStep
  <2>2. s # r
    BY <2>1
  <2> QED
    BY <2>1, <2>2 DEF IInv, TypeOK
<1> QED
  BY <1>1, <1>2 DEF Next, AllAnswered

\* What has been recorded stays recorded, by handlers that have committed.
LEMMA HistoryKeeps ==
    ASSUME Books, [Next]_vars
    PROVE  HistoryFits'
<1>1. CASE \E r \in Requests : CommitTransfer(r)
  <2>1. PICK r \in Requests : CommitTransfer(r)
    BY <1>1
  <2>2. pc' = [pc EXCEPT ![r] = "committed"]
    BY <2>1 DEF CommitTransfer, Finish
  <2>3. PICK h : h.by = r /\ history' = history \union {h}
    <3>1. PICK h : h = [by |-> r, from |-> call[r].from, to |-> target[r], amount |-> call[r].amount,
                        key |-> call[r].key, fresh |-> session[r][target[r]] = account[target[r]]]
      OBVIOUS
    <3>2. h.by = r
      BY <3>1
    <3> QED
      BY <2>1, <3>1, <3>2 DEF CommitTransfer
  <2>4. IsFiniteSet(history')
    BY <2>3, FS_AddElement DEF Books, HistoryFits
  <2>5. ASSUME NEW g \in history' PROVE pc'[g.by] = "committed"
    <3>1. g \in history => g.by \in Requests /\ pc[g.by] = "committed"
      BY DEF Books, HistoryFits, IInv, TypeOK, HistoryRow
    <3> QED
      BY <2>2, <2>3, <3>1 DEF Books, IInv, TypeOK
  <2> QED
    BY <2>4, <2>5 DEF HistoryFits
<1>2. CASE ~\E r \in Requests : CommitTransfer(r)
  <2>1. history' = history
    BY <1>2, OtherStepsBalance
  <2>2. ASSUME NEW r \in Requests, pc[r] = "committed" PROVE pc'[r] = "committed"
    BY <2>2, Settled DEF Books
  <2> QED
    BY <2>1, <2>2 DEF HistoryFits, Books, IInv, TypeOK, HistoryRow
<1> QED
  BY <1>1, <1>2

\* Every step keeps the books.
LEMMA BooksKept == Books /\ [Next]_vars => Books'
<1> SUFFICES ASSUME Books, [Next]_vars PROVE Books'
  OBVIOUS
<1>1. IInv'
  BY NextKeeps DEF Books
<1>2. HistoryFits'
  BY HistoryKeeps
<1>3. MoneyLostOnlyByStaleCredit'
  <2>1. CASE \E r \in Requests : CommitTransfer(r)
    BY <2>1, TransferBalances DEF MoneyLostOnlyByStaleCredit
  <2>2. CASE ~\E r \in Requests : CommitTransfer(r)
    <3>1. history' = history /\ \A a \in Accounts : account'[a].balance = account[a].balance
      BY <2>2, OtherStepsBalance
    <3> QED
      BY <3>1 DEF Books, MoneyLostOnlyByStaleCredit, BalancesMatchHistory, Moved
  <2> QED
    BY <2>1, <2>2
<1> QED
  BY <1>1, <1>2, <1>3 DEF Books

\* Transfers and closings, however they interleave, keep every balance equal to the opening
\* balance plus the account's transactions, as long as no transfer has credited a copy of
\* the receiver that was out of date.
THEOREM OnlyStaleCreditsLoseMoney == Spec => []MoneyLostOnlyByStaleCredit
<1>1. Init => Books
  <2> SUFFICES ASSUME Init PROVE Books
    OBVIOUS
  <2>1. HistoryFits
    BY FS_EmptySet DEF Init, HistoryFits
  <2>2. ASSUME NEW a \in Accounts PROVE account[a].balance = Opening[a] + Moved(a, "to") - Moved(a, "from")
    <3>1. /\ {h \in history : h["to"] = a} = {} /\ {h \in history : h["from"] = a} = {}
      BY DEF Init
    <3>2. Moved(a, "to") = 0 /\ Moved(a, "from") = 0
      BY <3>1, SumOfNothing DEF Moved
    <3> QED
      BY <3>2, ConstantsAssumption DEF Init
  <2> QED
    BY <2>1, <2>2, InitFits DEF Books, MoneyLostOnlyByStaleCredit, BalancesMatchHistory
<1>2. Books => MoneyLostOnlyByStaleCredit
  BY DEF Books
<1> QED
  BY <1>1, <1>2, BooksKept, PTL DEF Spec
=============================================================================
