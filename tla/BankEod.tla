------------------------------- MODULE BankEod -------------------------------
(***************************************************************************)
(* The nightly run of the bank (src/simulations/workers/bank_eod/tasks.py):*)
(* autopayments, tariff fees and salaries, by any number of replicas of    *)
(* the worker, over the accounts that transfers and closings of the bank   *)
(* API (src/simulations/api/routers/bank.py) use at the same time.         *)
(*                                                                         *)
(* A run is three transactions of one session.  What a transaction has     *)
(* written is kept in the run until it commits; the row locks it took stay *)
(* until then.  Days are numbers; a month is Plan[p].period days long.     *)
(***************************************************************************)
EXTENDS Integers, FiniteSets

CONSTANTS
    Accounts,      \* account ids: integers, as ORDER BY accounts.id compares them
    Owner,         \* Owner[a]: the client of account a
    Opening,       \* Opening[a]: its balance
    AutoPayments,
    Plan,          \* Plan[p]: account, amount, period and first date of autopayment p
    Fee,           \* Fee[a]: what the tariff of account a costs
    Salaried,      \* the accounts a salary may go to
    Salary,
    FeeDays, SalaryDays,   \* the 1st, the 10th and the 25th
    LastDay,       \* bound: the last day of the model
    Workers,       \* replicas of the worker
    Transfers,     \* handlers of transfer_money, each serves one call
    Route,         \* Route[t]: source, dest and amount of that call
    Returners,     \* other transactions that lock accounts
    Nobody, NoRow

Days == 1 .. LastDay
Lockers == Workers \union Transfers \union Returners

\* Completed rows of table transactions that a run writes.
Charge == [kind : {"auto"}, of : AutoPayments, on : Days]
             \union [kind : {"fee", "salary"}, of : Accounts, on : Days]
AutoOf(p, d)   == [kind |-> "auto", of |-> p, on |-> d]
FeeOf(a, d)    == [kind |-> "fee", of |-> a, on |-> d]
SalaryOf(a, d) == [kind |-> "salary", of |-> a, on |-> d]

ASSUME EodAssumption ==
    /\ Accounts \subseteq Nat /\ IsFiniteSet(Accounts) /\ NoRow \notin Accounts
    /\ Nobody \notin Lockers
    /\ Workers \intersect Transfers = {} /\ Workers \intersect Returners = {}
    /\ Transfers \intersect Returners = {}
    /\ Opening \in [Accounts -> Nat] /\ Fee \in [Accounts -> Nat]
    /\ Plan \in [AutoPayments -> [account : Accounts, amount : Nat \ {0},
                                  period : Nat \ {0}, first : Nat \ {0}]]
    /\ Route \in [Transfers -> [source : Accounts, dest : Accounts, amount : Nat \ {0}]]
    /\ \A t \in Transfers : Route[t].source # Route[t].dest
    /\ Salaried \subseteq Accounts /\ Salary \in Nat /\ LastDay \in Nat

VARIABLES
    day,
    account,    \* table accounts: balance and status
    due,        \* due[p]: next_payment_date of autopayment p, 0 before it is created
    booked,     \* booked[c]: how often charge c was committed
    lock,       \* lock[a]: who holds the row lock of account a
    wait,       \* wait[x]: the row x waits for
    pc,         \* pc[x]: the step of worker or transfer x
    run,        \* run[w]: the date, session and uncommitted writes of w's run
    read,       \* read[t]: the receiver's balance transfer t read before it locked
    advisory,   \* who holds advisory lock 84920481
    leaked      \* leaked[w]: w's pooled connection holds it although no run is on

bankTables == <<account, due, booked>>
locks == <<lock, wait>>
bankVars == <<day, account, due, booked, lock, wait, pc, run, read, advisory, leaked>>

\* A run on day d with the autopayments P, as its session read them.
RunOf(d, P) == [date |-> d, todo |-> P, item |-> NoRow,
                seen |-> [p \in P |-> due[p]], next |-> [p \in P |-> due[p]],
                copy |-> [a \in Accounts |-> 0], charges |-> {}]
NoRun(d) == RunOf(d, {})

BankInit ==
    /\ day = 1
    /\ account = [a \in Accounts |-> [balance |-> Opening[a], status |-> "active"]]
    /\ due = [p \in AutoPayments |-> 0]
    /\ booked = [c \in Charge |-> 0]
    /\ lock = [a \in Accounts |-> Nobody]
    /\ wait = [x \in Lockers |-> NoRow]
    /\ pc = [x \in Workers \union Transfers |-> "idle"]
    /\ run = [w \in Workers |-> NoRun(0)]
    /\ read = [t \in Transfers |-> 0]
    /\ advisory = Nobody
    /\ leaked = [w \in Workers |-> FALSE]

-----------------------------------------------------------------------------
(* Row locks: a transaction asks for a row, and gets it when it is free. *)

Grantable(x) == wait[x] # NoRow /\ lock[wait[x]] \in {Nobody, x}
\* Mutant: the locks outlive the transaction.
KeptLocks(x) == lock
Freed(x) == [a \in Accounts |-> IF lock[a] = x THEN Nobody ELSE lock[a]]
Held(x) == {a \in Accounts : lock[a] = x}

\* x is on a cycle of transactions that wait for each other: PostgreSQL fails one of them.
Deadlocked(x) ==
    \E S \in SUBSET Lockers :
        /\ x \in S
        /\ \A y \in S : wait[y] # NoRow /\ \E z \in S \ {y} : lock[wait[y]] = z
        /\ \A z \in S : \E y \in S \ {z} : wait[y] # NoRow /\ lock[wait[y]] = z

-----------------------------------------------------------------------------
(* A run starts.  A second process that finds the advisory lock taken skips its turn. *)

DueNow == {p \in AutoPayments : due[p] \in 1 .. day}

\* Mutant: no advisory lock.
MayRunAlways(w) == TRUE
MayRun(w) == advisory \in {Nobody, w}

Start(w) ==
    /\ pc[w] = "idle" /\ run[w].date < day
    /\ run' = [run EXCEPT ![w] = RunOf(day, IF MayRun(w) THEN DueNow ELSE {})]
    /\ pc' = [pc EXCEPT ![w] = IF MayRun(w) THEN "items" ELSE "idle"]
    /\ advisory' = IF MayRun(w) THEN w ELSE advisory
    /\ UNCHANGED <<day, bankTables, locks, read, leaked>>

-----------------------------------------------------------------------------
(* Autopayments: a savepoint and a row lock for each. *)

TakeItem(w) ==
    /\ pc[w] = "items"
    /\ \E p \in run[w].todo :
        /\ run' = [run EXCEPT ![w].todo = @ \ {p}, ![w].item = p]
        /\ wait' = [wait EXCEPT ![w] = Plan[p].account]
    /\ pc' = [pc EXCEPT ![w] = "item"]
    /\ UNCHANGED <<day, bankTables, lock, read, advisory, leaked>>

\* The balance the session sees once it has the lock: a row it locked before is its own copy.
Balance(w, a) == IF lock[a] = w THEN run[w].copy[a] ELSE account[a].balance

Covers(b, amount) == b >= amount

\* The run after autopayment p: paid, or put off to the next day; left alone when the account is closed.
AfterItem(w, p) ==
    LET a == Plan[p].account
        b == Balance(w, a)
    IN IF account[a].status # "active"
         THEN [run[w] EXCEPT !.copy[a] = b]
       ELSE IF Covers(b, Plan[p].amount)
         THEN [run[w] EXCEPT !.copy[a] = b - Plan[p].amount,
                             !.next[p] = @ + Plan[p].period,
                             !.charges = @ \union {AutoOf(p, run[w].seen[p])}]
         ELSE [run[w] EXCEPT !.copy[a] = b, !.next[p] = @ + 1]

PayItem(w) ==
    /\ pc[w] = "item" /\ Grantable(w)
    /\ lock' = [lock EXCEPT ![wait[w]] = w]
    /\ wait' = [wait EXCEPT ![w] = NoRow]
    /\ run' = [run EXCEPT ![w] = [AfterItem(w, run[w].item) EXCEPT !.item = NoRow]]
    /\ pc' = [pc EXCEPT ![w] = "items"]
    /\ UNCHANGED <<day, bankTables, read, advisory, leaked>>

\* The statement is the victim of a deadlock: the savepoint is rolled back, the item skipped.
SkipItem(w) ==
    /\ pc[w] = "item" /\ Deadlocked(w)
    /\ wait' = [wait EXCEPT ![w] = NoRow]
    /\ run' = [run EXCEPT ![w].item = NoRow]
    /\ pc' = [pc EXCEPT ![w] = "items"]
    /\ UNCHANGED <<day, bankTables, lock, read, advisory, leaked>>

NextPhase(w, phase) ==
    CASE phase = "items" /\ run[w].date \in FeeDays -> "fees"
      [] phase \in {"items", "fees"} /\ run[w].date \in SalaryDays -> "salaries"
      [] OTHER -> "unlock"

\* Commit: the copies of the locked rows and the charges of the run are stored.
Commit(w, balance, charges, phase) ==
    /\ account' = [a \in Accounts |->
                     IF lock[a] = w THEN [account[a] EXCEPT !.balance = balance[a]] ELSE account[a]]
    /\ booked' = [c \in Charge |-> booked[c] + IF c \in charges THEN 1 ELSE 0]
    /\ due' = [p \in AutoPayments |->
                 IF p \in DOMAIN run[w].seen /\ run[w].next[p] # run[w].seen[p]
                   THEN run[w].next[p] ELSE due[p]]
    /\ lock' = Freed(w)
    /\ run' = [run EXCEPT ![w] = NoRun(@.date)]
    /\ pc' = [pc EXCEPT ![w] = NextPhase(w, phase)]
    /\ UNCHANGED <<day, wait, read, advisory, leaked>>

CommitItems(w) ==
    /\ pc[w] = "items" /\ run[w].todo = {}
    /\ Commit(w, run[w].copy, run[w].charges, "items")

-----------------------------------------------------------------------------
(* Fees and salaries: SELECT of the active accounts FOR UPDATE, in no set order. *)

Unlocked(w) == {a \in Accounts : account[a].status = "active" /\ lock[a] # w}

AskRow(w) ==
    /\ pc[w] \in {"fees", "salaries"} /\ wait[w] = NoRow
    /\ \E a \in Unlocked(w) : wait' = [wait EXCEPT ![w] = a]
    /\ UNCHANGED <<day, bankTables, lock, pc, run, read, advisory, leaked>>

\* A row closed meanwhile is left out.
LockRow(w) ==
    /\ pc[w] \in {"fees", "salaries"} /\ Grantable(w)
    /\ LET a == wait[w] IN
        lock' = [lock EXCEPT ![a] = IF account[a].status = "active" THEN w ELSE @]
    /\ wait' = [wait EXCEPT ![w] = NoRow]
    /\ UNCHANGED <<day, bankTables, pc, run, read, advisory, leaked>>

AllLocked(w) == wait[w] = NoRow /\ Unlocked(w) = {}

OwesFee(a, d) == Fee[a] > 0 /\ booked[FeeOf(a, d)] = 0

\* An item that raises is skipped, so any part of the accounts may be.
ChargeFees(w) ==
    /\ pc[w] = "fees" /\ AllLocked(w)
    /\ \E S \in SUBSET {a \in Held(w) : OwesFee(a, run[w].date) /\ Covers(account[a].balance, Fee[a])} :
        Commit(w, [a \in Accounts |-> account[a].balance - IF a \in S THEN Fee[a] ELSE 0],
               {FeeOf(a, run[w].date) : a \in S}, "fees")

Earns(a, d) ==
    /\ a \in Salaried
    /\ \A b \in Accounts : Owner[b] = Owner[a] => booked[SalaryOf(b, d)] = 0

\* One account of each client, whichever comes first and does not raise.
PaySalaries(w) ==
    /\ pc[w] = "salaries" /\ AllLocked(w)
    /\ \E S \in SUBSET {a \in Held(w) : Earns(a, run[w].date)} :
        /\ \A a, b \in S : Owner[a] = Owner[b] => a = b
        /\ Commit(w, [a \in Accounts |-> account[a].balance + IF a \in S THEN Salary ELSE 0],
                  {SalaryOf(a, run[w].date) : a \in S}, "salaries")

\* The SELECT is the victim of a deadlock.  The exception ends the run, the unlocking fails in
\* the aborted transaction, and the advisory lock stays with the pooled connection.
AbortRun(w) ==
    /\ pc[w] \in {"fees", "salaries"} /\ Deadlocked(w)
    /\ lock' = Freed(w)
    /\ wait' = [wait EXCEPT ![w] = NoRow]
    /\ pc' = [pc EXCEPT ![w] = "idle"]
    /\ leaked' = [leaked EXCEPT ![w] = TRUE]
    /\ UNCHANGED <<day, bankTables, run, read, advisory>>

\* One unlock per run: a connection that kept the lock of an aborted run keeps it.
Unlock(w) ==
    /\ pc[w] = "unlock"
    /\ advisory' = IF leaked[w] THEN w ELSE Nobody
    /\ pc' = [pc EXCEPT ![w] = "idle"]
    /\ UNCHANGED <<day, bankTables, locks, run, read, leaked>>

\* The process dies: PostgreSQL rolls back and drops the locks of its connections.
Die(w) ==
    /\ pc[w] # "idle" \/ leaked[w]
    /\ lock' = Freed(w)
    /\ wait' = [wait EXCEPT ![w] = NoRow]
    /\ pc' = [pc EXCEPT ![w] = "idle"]
    /\ run' = [run EXCEPT ![w] = NoRun(@.date)]
    /\ advisory' = IF advisory = w THEN Nobody ELSE advisory
    /\ leaked' = [leaked EXCEPT ![w] = FALSE]
    /\ UNCHANGED <<day, bankTables, read>>

-----------------------------------------------------------------------------
(* The bank API.  A transfer reads its receiver, locks both rows in id order and pays; *)
(* BankApi has the whole handler. *)

Lower(t)  == IF Route[t].source < Route[t].dest THEN Route[t].source ELSE Route[t].dest
Higher(t) == IF Route[t].source < Route[t].dest THEN Route[t].dest ELSE Route[t].source

BeginTransfer(t) ==
    /\ pc[t] = "idle"
    /\ read' = [read EXCEPT ![t] = account[Route[t].dest].balance]
    /\ wait' = [wait EXCEPT ![t] = Lower(t)]
    /\ pc' = [pc EXCEPT ![t] = "first"]
    /\ UNCHANGED <<day, bankTables, lock, run, advisory, leaked>>

LockFirst(t) ==
    /\ pc[t] = "first" /\ Grantable(t)
    /\ lock' = [lock EXCEPT ![wait[t]] = t]
    /\ wait' = [wait EXCEPT ![t] = Higher(t)]
    /\ pc' = [pc EXCEPT ![t] = "second"]
    /\ UNCHANGED <<day, bankTables, run, read, advisory, leaked>>

MayTransfer(t) ==
    /\ \A a \in {Lower(t), Higher(t)} : account[a].status = "active"
    /\ account[Route[t].source].balance >= Route[t].amount

\* The receiver is credited on the copy read before the lock.
LockSecondAndPay(t) ==
    /\ pc[t] = "second" /\ Grantable(t)
    /\ account' = IF MayTransfer(t)
                     THEN [account EXCEPT ![Route[t].source].balance = @ - Route[t].amount,
                                          ![Route[t].dest].balance = read[t] + Route[t].amount]
                     ELSE account
    /\ lock' = Freed(t)
    /\ wait' = [wait EXCEPT ![t] = NoRow]
    /\ pc' = [pc EXCEPT ![t] = "ended"]
    /\ read' = [read EXCEPT ![t] = 0]
    /\ UNCHANGED <<day, due, booked, run, advisory, leaked>>

AbortTransfer(t) ==
    /\ pc[t] = "second" /\ Deadlocked(t)
    /\ lock' = Freed(t)
    /\ wait' = [wait EXCEPT ![t] = NoRow]
    /\ pc' = [pc EXCEPT ![t] = "ended"]
    /\ UNCHANGED <<day, bankTables, run, read, advisory, leaked>>

CloseAccount(a) ==
    /\ lock[a] = Nobody /\ account[a].status = "active" /\ account[a].balance = 0
    /\ account' = [account EXCEPT ![a].status = "closed"]
    /\ UNCHANGED <<day, due, booked, locks, pc, run, read, advisory, leaked>>

CreateAutopayment(p) ==
    /\ due[p] = 0
    /\ due' = [due EXCEPT ![p] = Plan[p].first]
    /\ UNCHANGED <<day, account, booked, locks, pc, run, read, advisory, leaked>>

\* Runs of a day are over before the next.
NextDay ==
    /\ day < LastDay /\ \A w \in Workers : pc[w] = "idle"
    /\ day' = day + 1
    /\ UNCHANGED <<bankTables, locks, pc, run, read, advisory, leaked>>

-----------------------------------------------------------------------------
RunStep(w) ==
    \/ TakeItem(w) \/ PayItem(w) \/ SkipItem(w) \/ CommitItems(w)
    \/ AskRow(w) \/ LockRow(w) \/ ChargeFees(w) \/ PaySalaries(w)
    \/ AbortRun(w) \/ Unlock(w)

TransferStep(t) == LockFirst(t) \/ LockSecondAndPay(t) \/ AbortTransfer(t)

BankNext ==
    \/ \E w \in Workers : Start(w) \/ RunStep(w) \/ Die(w)
    \/ \E t \in Transfers : BeginTransfer(t) \/ TransferStep(t)
    \/ \E a \in Accounts : CloseAccount(a)
    \/ \E p \in AutoPayments : CreateAutopayment(p)
    \/ NextDay

=============================================================================
