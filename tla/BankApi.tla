------------------------------- MODULE BankApi -------------------------------
(***************************************************************************)
(* The money and card operations of the bank API                           *)
(* (src/simulations/api/routers/bank.py): transfer_money, close_account    *)
(* and the card endpoints, run by concurrent request handlers over one     *)
(* PostgreSQL database.                                                    *)
(*                                                                         *)
(* A handler owns an ORM session whose identity map keeps the first copy   *)
(* it loads of a row (sessions are made without populate_existing, with    *)
(* autoflush off), reads outside a lock see the last committed row, and    *)
(* SELECT ... ORDER BY id FOR UPDATE takes the row locks one after the     *)
(* other in id order and keeps them until commit or rollback.              *)
(***************************************************************************)
EXTENDS Integers, FiniteSets, Functions

CONSTANTS
    Accounts,      \* account ids: integers, compared as ORDER BY accounts.id does
    Cards,         \* the cards that may be issued
    Clients,
    Keys,          \* idempotency keys
    Requests,      \* request handlers, each serves one call
    Calls,         \* the calls a client may make
    Opening,       \* Opening[a]: the balance account a starts with
    Owner,         \* Owner[a]: the client of account a
    Currency,      \* Currency[a]
    CreatedAt,     \* CreatedAt[a]: creation order of the accounts
    NoAccount, NoKey, NoOne, NoRow, NoCall, NoId

AccountRow == [balance : Int, status : {"active", "closed"}]

TransferCall ==
    [op : {"transfer"}, from : Accounts \union {NoAccount},
     via : {"account", "card", "phone"},
     dest : Accounts \union {NoAccount} \union Cards \union Clients,
     amount : Nat \ {0}, key : Keys \union {NoKey}]
CloseCall == [op : {"close"}, account : Accounts \union {NoAccount}]
CardCall  == [op : {"issue"}, account : Accounts \union {NoAccount}]
                \union [op : {"block", "freeze", "reissue"}, card : Cards]

ASSUME ConstantsAssumption ==
    /\ Accounts \subseteq Nat /\ IsFiniteSet(Accounts)
    /\ NoAccount \notin Accounts /\ NoKey \notin Keys /\ NoOne \notin Requests
    /\ Calls \subseteq TransferCall \union CloseCall \union CardCall
    /\ NoCall \notin Calls
    /\ Opening \in [Accounts -> Nat]
    /\ CreatedAt \in [Accounts -> Nat]
    /\ NoRow \notin AccountRow

VARIABLES
    account,   \* table accounts: balance and status of each row
    card,      \* table cards: account and status, "unissued" before the row exists
    recorded,  \* the keys of table idempotency_records
    history,   \* table transactions: the two rows of each committed transfer, as one record
    lock,      \* lock[a]: the handler that holds the row lock of account a
    pc,        \* pc[r]: the next step of handler r, or how it answered
    call,      \* call[r]: the call it serves
    target,    \* target[r]: the receiver its transfer resolved before taking any lock
    session    \* session[r]: the identity map of its ORM session

vars == <<account, card, recorded, history, lock, pc, call, target, session>>
cardsOnly == <<account, recorded, history, lock, target, session>>

\* How a handler ends: its transaction committed (the refresh and the receipt that follow
\* write nothing), answered from the cache, a 4xx, a commit the database refused, or an
\* error before the commit.
Answers == {"committed", "replayed", "rejected", "failed", "aborted"}
EmptySession == [a \in Accounts |-> NoRow]

Init ==
    /\ account = [a \in Accounts |-> [balance |-> Opening[a], status |-> "active"]]
    /\ card = [c \in Cards |-> [account |-> NoAccount, status |-> "unissued"]]
    /\ recorded = {}
    /\ history = {}
    /\ lock = [a \in Accounts |-> NoOne]
    /\ pc = [r \in Requests |-> "idle"]
    /\ call = [r \in Requests |-> NoCall]
    /\ target = [r \in Requests |-> NoAccount]
    /\ session = [r \in Requests |-> EmptySession]

-----------------------------------------------------------------------------
(* The ORM session. *)

\* What a SELECT of row a puts in the identity map: a row the session already
\* holds is not refreshed, with or without FOR UPDATE.
Loaded(r, a) == IF session[r][a] = NoRow THEN account[a] ELSE session[r][a]

Load(r, a) == session' = [session EXCEPT ![r][a] = Loaded(r, a)]

\* Commit or rollback: the handler answers, its row locks and its session go.
Finish(r, how) ==
    /\ pc' = [pc EXCEPT ![r] = how]
    /\ lock' = [a \in Accounts |-> IF lock[a] = r THEN NoOne ELSE lock[a]]
    /\ session' = [session EXCEPT ![r] = EmptySession]
    /\ target' = [target EXCEPT ![r] = NoAccount]
    /\ UNCHANGED call

\* A rollback leaves every table as it was.
Rollback(r, how) == Finish(r, how) /\ UNCHANGED <<account, card, recorded, history>>

-----------------------------------------------------------------------------
(* A call arrives, 404 if its account does not exist; a keyed transfer is first looked up. *)

FirstStep(c) ==
    CASE c.op = "transfer" -> IF c.key = NoKey THEN "resolve" ELSE "lookup"
      [] c.op = "close"    -> IF c.account = NoAccount THEN "rejected" ELSE "lock"
      [] c.op = "issue"    -> IF c.account = NoAccount THEN "rejected" ELSE "card"
      [] OTHER             -> "card"

Receive(r) ==
    /\ pc[r] = "idle"
    /\ \E c \in Calls :
        /\ call' = [call EXCEPT ![r] = c]
        /\ pc' = [pc EXCEPT ![r] = FirstStep(c)]
    /\ UNCHANGED <<account, card, recorded, history, lock, target, session>>

\* A key with a committed record, or a committed expense row, is answered from it.
Committed(key) == key \in recorded \/ \E h \in history : h.key = key

LookupKey(r) ==
    /\ pc[r] = "lookup"
    /\ IF Committed(call[r].key)
          THEN Rollback(r, "replayed")
          ELSE /\ pc' = [pc EXCEPT ![r] = "resolve"]
               /\ UNCHANGED <<account, card, recorded, history, lock, call, target, session>>

-----------------------------------------------------------------------------
(* The receiver is resolved with plain reads, before any lock. *)

Matches(c, a) ==
    \/ c.via = "account" /\ c.dest = a
    \/ c.via = "card"    /\ c.dest \in Cards /\ card[c.dest].account = a
    \/ c.via = "phone"   /\ c.dest = Owner[a] /\ account[a].status = "active"
                         /\ Currency[a] = "RUB"

Receivers(c) == {a \in Accounts : Matches(c, a)}
Oldest(S) == CHOOSE a \in S : \A b \in S : CreatedAt[a] <= CreatedAt[b]

ResolveReceiver(r) ==
    /\ pc[r] = "resolve"
    /\ LET found == Receivers(call[r]) IN
        IF found = {} \/ Oldest(found) = call[r].from
          THEN Rollback(r, "rejected")
          ELSE /\ target' = [target EXCEPT ![r] = Oldest(found)]
               /\ Load(r, Oldest(found))
               /\ pc' = [pc EXCEPT ![r] = "lock"]
               /\ UNCHANGED <<account, card, recorded, history, lock, call>>

-----------------------------------------------------------------------------
(* SELECT ... ORDER BY id FOR UPDATE: one row lock after the other. *)

RowsToLock(r) ==
    IF call[r].op = "close" THEN {call[r].account}
                            ELSE {call[r].from, target[r]} \intersect Accounts

Unlocked(r) == {a \in RowsToLock(r) : lock[a] # r}

\* Mutant: the sender's row is locked first, whatever the ids.
NextRowSenderFirst(r) ==
    IF call[r].op = "transfer" /\ call[r].from \in Unlocked(r)
      THEN call[r].from ELSE CHOOSE a \in Unlocked(r) : TRUE

NextRow(r) == CHOOSE a \in Unlocked(r) : \A b \in Unlocked(r) : a <= b

\* Mutant: a plain SELECT, without FOR UPDATE.
ReadRow(r) ==
    /\ pc[r] = "lock"
    /\ Load(r, NextRow(r))
    /\ lock' = [lock EXCEPT ![NextRow(r)] = r]
    /\ pc' = [pc EXCEPT ![r] = IF Unlocked(r) = {NextRow(r)} THEN "locked" ELSE "lock"]
    /\ UNCHANGED <<account, card, recorded, history, call, target>>

LockRow(r) ==
    /\ pc[r] = "lock"
    /\ lock[NextRow(r)] = NoOne
    /\ lock' = [lock EXCEPT ![NextRow(r)] = r]
    /\ Load(r, NextRow(r))
    /\ pc' = [pc EXCEPT ![r] = IF Unlocked(r) = {NextRow(r)} THEN "locked" ELSE "lock"]
    /\ UNCHANGED <<account, card, recorded, history, call, target>>

-----------------------------------------------------------------------------
(* transfer_money, with its rows locked. *)

TransferAllowed(r) ==
    LET from == call[r].from  to == target[r] IN
    /\ from \in Accounts
    /\ session[r][from].status = "active"
    /\ session[r][to].status = "active"
    /\ call[r].via = "phone" => Currency[to] = "RUB"
    /\ Currency[from] = Currency[to]
    /\ session[r][from].balance >= call[r].amount

\* tx_out.id when the IdempotencyRecord is built: Column(default=...) is evaluated
\* at flush, and nothing has been flushed yet.
TransactionIdOfRecord(r) == NoId

\* transaction_id is NOT NULL and key is unique.
RecordAccepted(r) ==
    call[r].key # NoKey =>
        /\ TransactionIdOfRecord(r) # NoId
        /\ call[r].key \notin recorded

\* UPDATE ... SET balance for both rows, from the session's copies.
Pay(r) ==
    LET from == call[r].from  to == target[r]  amount == call[r].amount IN
    account' = [account EXCEPT
                  ![from].balance = session[r][from].balance - amount,
                  ![to].balance   = session[r][to].balance + amount]

CommitTransfer(r) ==
    /\ pc[r] = "locked" /\ call[r].op = "transfer"
    /\ TransferAllowed(r) /\ RecordAccepted(r)
    /\ Pay(r)
    /\ history' = history \union
         {[by |-> r, from |-> call[r].from, to |-> target[r], amount |-> call[r].amount,
           key |-> call[r].key, fresh |-> session[r][target[r]] = account[target[r]]]}
    /\ recorded' = recorded \union ({call[r].key} \ {NoKey})
    /\ Finish(r, "committed")
    /\ UNCHANGED card

RejectTransfer(r) ==
    /\ pc[r] = "locked" /\ call[r].op = "transfer"
    /\ ~TransferAllowed(r)
    /\ Rollback(r, "rejected")

\* The flush of the commit raises IntegrityError.
FailTransfer(r) ==
    /\ pc[r] = "locked" /\ call[r].op = "transfer"
    /\ TransferAllowed(r) /\ ~RecordAccepted(r)
    /\ Rollback(r, "failed")

-----------------------------------------------------------------------------
(* close_account, with its row locked. *)

\* Mutant: the balance is not checked.
CloseAllowedFunded(r) == session[r][call[r].account].status # "closed"

CloseAllowed(r) ==
    LET row == session[r][call[r].account] IN row.status # "closed" /\ row.balance = 0

CommitClose(r) ==
    /\ pc[r] = "locked" /\ call[r].op = "close"
    /\ CloseAllowed(r)
    /\ account' = [account EXCEPT ![call[r].account].status = "closed"]
    /\ Finish(r, "committed")
    /\ UNCHANGED <<card, recorded, history>>

RejectClose(r) ==
    /\ pc[r] = "locked" /\ call[r].op = "close"
    /\ ~CloseAllowed(r)
    /\ Rollback(r, "rejected")

\* The handler dies (the connection drops, the receipt cannot be signed) before the
\* commit: the database rolls back and frees its locks.
Abort(r) ==
    /\ pc[r] \in {"lock", "locked"}
    /\ Rollback(r, "aborted")

-----------------------------------------------------------------------------
(* The card endpoints: no lock, the read only decides between 404 and a blind write. *)

Answer(r, how) == pc' = [pc EXCEPT ![r] = how] /\ UNCHANGED <<cardsOnly, call>>

Unissued == {c \in Cards : card[c].status = "unissued"}

IssueCard(r) ==
    /\ pc[r] = "card" /\ call[r].op = "issue"
    /\ \E new \in Unissued :
        card' = [card EXCEPT ![new] = [account |-> call[r].account, status |-> "active"]]
    /\ Answer(r, "committed")

SetCardStatus(r, op, status) ==
    /\ pc[r] = "card" /\ call[r].op = op /\ call[r].card \notin Unissued
    /\ card' = [card EXCEPT ![call[r].card].status = status]
    /\ Answer(r, "committed")

BlockCard(r)  == SetCardStatus(r, "block", "blocked")
FreezeCard(r) == SetCardStatus(r, "freeze", "frozen")

ReissueCard(r) ==
    /\ pc[r] = "card" /\ call[r].op = "reissue" /\ call[r].card \notin Unissued
    /\ \E new \in Unissued :
        card' = [card EXCEPT
                   ![call[r].card].status = "blocked",
                   ![new] = [account |-> card[call[r].card].account, status |-> "active"]]
    /\ Answer(r, "committed")

CardNotFound(r) ==
    /\ pc[r] = "card" /\ call[r].op # "issue" /\ call[r].card \in Unissued
    /\ Answer(r, "rejected")
    /\ UNCHANGED card

\* generate_unique_card_number gives up.
NoCardNumber(r) ==
    /\ pc[r] = "card" /\ call[r].op \in {"issue", "reissue"} /\ Unissued = {}
    /\ Answer(r, "failed")
    /\ UNCHANGED card

-----------------------------------------------------------------------------
Step(r) ==
    \/ LookupKey(r) \/ ResolveReceiver(r) \/ LockRow(r)
    \/ CommitTransfer(r) \/ RejectTransfer(r) \/ FailTransfer(r)
    \/ CommitClose(r) \/ RejectClose(r)
    \/ IssueCard(r) \/ BlockCard(r) \/ FreezeCard(r) \/ ReissueCard(r)
    \/ CardNotFound(r) \/ NoCardNumber(r)

\* Every handler has answered: nothing is left to do.
AllAnswered == (\A r \in Requests : pc[r] \in Answers) /\ UNCHANGED vars

Next == (\E r \in Requests : Receive(r) \/ Step(r) \/ Abort(r)) \/ AllAnswered

Spec == Init /\ [][Next]_vars

-----------------------------------------------------------------------------
(* Properties. *)

HistoryRow == [by : Requests, from : Accounts, to : Accounts, amount : Nat \ {0},
               key : Keys \union {NoKey}, fresh : BOOLEAN]

TypeOK ==
    /\ account \in [Accounts -> AccountRow]
    /\ card \in [Cards -> [account : Accounts \union {NoAccount},
                           status : {"unissued", "active", "frozen", "blocked"}]]
    /\ recorded \subseteq Keys
    /\ history \subseteq HistoryRow
    /\ lock \in [Accounts -> Requests \union {NoOne}]
    /\ pc \in [Requests -> {"idle", "lookup", "resolve", "lock", "locked", "card"} \union Answers]
    /\ call \in [Requests -> Calls \union {NoCall}]
    /\ target \in [Requests -> Accounts \union {NoAccount}]
    /\ session \in [Requests -> [Accounts -> AccountRow \union {NoRow}]]

\* No interleaving of transfers and closings takes an account below zero.
NoOverdraft == \A a \in Accounts : account[a].balance >= 0

\* The row a handler is about to debit or to close.
Subject(r) == IF call[r].op = "close" THEN call[r].account ELSE call[r].from

\* A handler that holds its row locks decides on the committed state of the row it
\* debits or closes, not on a copy another handler has changed since.
SubjectIsFresh ==
    \A r \in Requests :
        pc[r] = "locked" /\ Subject(r) \in Accounts
            => session[r][Subject(r)] = account[Subject(r)]

WaitsFor(r, s) == pc[r] = "lock" /\ lock[NextRow(r)] = s

\* The id order of the row locks excludes a deadlock: in every set of handlers some
\* handler does not wait for one of the set.
NoWaitCycle ==
    \A S \in (SUBSET Requests) \ {{}} : \E r \in S : \A s \in S : ~WaitsFor(r, s)

Moved(a, end) ==
    SumFunctionOnSet([h \in history |-> h.amount], {h \in history : h[end] = a})

\* Each balance is the opening balance plus the account's transactions: transfers and
\* closings, however they interleave, neither lose nor create money.
BalancesMatchHistory ==
    \A a \in Accounts :
        account[a].balance = Opening[a] + Moved(a, "to") - Moved(a, "from")

\* The copy of the receiver that a session keeps from before the lock is the only way
\* to lose track of money: while every transfer credited a current copy, balances and
\* transactions agree.
MoneyLostOnlyByStaleCredit == (\A h \in history : h.fresh) => BalancesMatchHistory

\* A transfer commits only if, at that moment, its sender is open and has the money.
DebitsAreCovered ==
    [][\A h \in history' \ history :
          /\ account[h.from].status = "active"
          /\ account[h.from].balance >= h.amount
          /\ account'[h.from].balance = account[h.from].balance - h.amount]_vars

\* An account is closed only while its committed balance is zero, and stays closed.
ClosesOnlyEmptyAccounts ==
    [][\A a \in Accounts : account'[a].status # account[a].status =>
          account[a].status = "active" /\ account[a].balance = 0]_vars

=============================================================================
