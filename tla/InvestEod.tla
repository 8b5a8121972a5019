------------------------------ MODULE InvestEod ------------------------------
(***************************************************************************)
(* The nightly run of the investments                                      *)
(* (src/simulations/workers/invest_eod/tasks.py) beside that of the bank:  *)
(* interest on savings accounts and deposits, the return of matured        *)
(* deposits, income of broker accounts, while clients close the products   *)
(* and change their strategy (src/simulations/api/routers/invest.py).      *)
(*                                                                         *)
(* A matured deposit is returned by a transaction in bank_db that commits  *)
(* before the one that closes the deposit in invest_db.  The phases for    *)
(* savings and broker accounts touch only rows they lock for the whole     *)
(* phase, so each is one step.                                             *)
(***************************************************************************)
EXTENDS BankEod

CONSTANTS
    Savings, Deposits, Brokers,
    Holder,       \* Holder[x]: the client of product x
    Stake,        \* Stake[x]: its balance
    FirstDate,    \* FirstDate[x]: its first payment date
    Matures,      \* Matures[x]: the last day of the term of deposit x
    Interest,     \* next_payment_amount: what a product earns a month
    Market,       \* the incomes a month of a strategy may bring, success fee taken
    Month,
    Seniority,    \* Seniority[a]: ORDER BY accounts.created_at
    InvestWorkers,
    Closers,      \* handlers of close_deposit and close_savings, each serves one call
    ClosesInto    \* ClosesInto[c]: the product and the account of that call

Products == Savings \union Deposits \union Brokers

ASSUME InvestAssumption ==
    /\ Savings \intersect Deposits = {} /\ Brokers \intersect (Savings \union Deposits) = {}
    /\ InvestWorkers \subseteq Returners /\ Closers \intersect InvestWorkers = {}
    /\ Stake \in [Products -> Nat] /\ FirstDate \in [Products -> Nat \ {0}]
    /\ Matures \in [Deposits -> Nat] /\ Interest \in Nat \ {0} /\ Month \in Nat \ {0}
    /\ Market \subseteq Int
    /\ Seniority \in [Accounts -> Nat]
    /\ \A a, b \in Accounts : Seniority[a] = Seniority[b] => a = b
    /\ ClosesInto \in [Closers -> [product : Savings \union Deposits, account : Accounts]]

VARIABLES
    product,     \* tables savings, deposits and broker accounts of invest_db
    accrued,     \* accrued[x][d]: how often the interest due on day d was added to product x
    returned,    \* returned[x][a]: how often account a was credited with deposit x by a run
    gave,        \* gave[x]: how often a closing handler paid product x out
    torn,        \* deposits of which a run died between the two commits of a return, or was not told
                 \* of the first
    ipc,         \* ipc[i]: the step of an invest worker or a closing handler
    irun,        \* irun[i]: date of the run, the deposits left, the one in work, session copies
    taken,       \* taken[c]: what a closing took
    iadvisory    \* who holds advisory lock 84920482

investVars == <<product, accrued, returned, gave, torn, ipc, irun, taken, iadvisory>>
vars == <<bankVars, investVars>>
bankButWaits == <<day, account, due, booked, pc, run, read, advisory, leaked>>
bankButAccounts == <<day, due, booked, pc, run, read, advisory, leaked>>

\* A run on day d that holds the deposits D.
InvestRun(d, D) == [date |-> d, held |-> D, todo |-> D, item |-> NoRow,
                    copy |-> [x \in D |-> product[x]]]
NoInvestRun(d) == InvestRun(d, {})

Init ==
    /\ BankInit
    /\ product = [x \in Products |->
                    [status |-> "active", balance |-> Stake[x],
                     date |-> FirstDate[x], strategy |-> FALSE]]
    /\ accrued = [x \in Products |-> [d \in Days |-> 0]]
    /\ returned = [x \in Deposits |-> [a \in Accounts |-> 0]]
    /\ gave = [x \in Savings \union Deposits |-> 0]
    /\ torn = {}
    /\ ipc = [i \in InvestWorkers \union Closers |-> "idle"]
    /\ irun = [i \in InvestWorkers |-> NoInvestRun(0)]
    /\ taken = [c \in Closers |-> 0]
    /\ iadvisory = Nobody

-----------------------------------------------------------------------------
(* The run starts; interest of the savings accounts. *)

StartInvest(i) ==
    LET free == iadvisory \in {Nobody, i} IN
    /\ ipc[i] = "idle" /\ irun[i].date < day
    /\ irun' = [irun EXCEPT ![i] = NoInvestRun(day)]
    /\ ipc' = [ipc EXCEPT ![i] = IF free THEN "savings" ELSE "idle"]
    /\ iadvisory' = IF free THEN i ELSE iadvisory
    /\ UNCHANGED <<bankVars, product, accrued, returned, gave, torn, taken>>

\* The rows of a table that are due, and what their interest of this date adds.
DueRows(i, X) == {x \in X : product[x].status = "active" /\ product[x].date <= irun[i].date}
Interests(S) ==
    [x \in Products |-> [d \in Days |->
        accrued[x][d] + IF x \in S /\ product[x].date = d THEN 1 ELSE 0]]

\* What is made of a row.
Earned(row, n)   == [row EXCEPT !.balance = @ + n]
Closed(row)      == [row EXCEPT !.balance = 0, !.status = "closed"]
Restored(row, n) == [row EXCEPT !.balance = n, !.status = "active"]
Toggled(row)     == [row EXCEPT !.strategy = ~@]
\* Mutant: the payment date is not moved.
StaysDue(row) == row
PaidUp(row) == [row EXCEPT !.date = @ + Month]

\* An item that raises is skipped.  Commits the savings phase and selects the deposits, which stay locked until they commit.
PaySavings(i) ==
    /\ ipc[i] = "savings"
    /\ \E S \in SUBSET DueRows(i, Savings) :
        /\ product' = [x \in Products |->
                         IF x \in S THEN PaidUp(Earned(product[x], Interest))
                                    ELSE product[x]]
        /\ accrued' = Interests(S)
    /\ irun' = [irun EXCEPT ![i] = InvestRun(@.date, DueRows(i, Deposits))]
    /\ ipc' = [ipc EXCEPT ![i] = "deposits"]
    /\ UNCHANGED <<bankVars, returned, gave, torn, taken, iadvisory>>

-----------------------------------------------------------------------------
(* Deposits: interest, and the return of the matured ones. *)

\* Run r with the deposits T left, p in work and c as the copy of x.
RunWith(r, T, p, x, c) == [r EXCEPT !.todo = T, !.item = p, !.copy[x] = c]

TakeDeposit(i) ==
    /\ ipc[i] = "deposits"
    /\ \E x \in irun[i].todo :
        LET matured == irun[i].date >= Matures[x]
            row == Earned(irun[i].copy[x], Interest)
        IN
        /\ irun' = [irun EXCEPT ![i] =
                       RunWith(@, @.todo \ {x}, IF matured THEN x ELSE NoRow,
                               x, IF matured THEN row ELSE PaidUp(row))]
        /\ ipc' = [ipc EXCEPT ![i] = IF matured THEN "return" ELSE @]
    /\ UNCHANGED <<bankVars, product, accrued, returned, gave, torn, taken, iadvisory>>

\* SELECT ... ORDER BY created_at FOR UPDATE locks every active account of the client.
Wanted(i) ==
    {a \in Accounts : /\ account[a].status = "active" /\ Owner[a] = Holder[irun[i].item]
                      /\ lock[a] # i}

AskAccount(i) ==
    /\ ipc[i] = "return" /\ wait[i] = NoRow
    /\ \E a \in Wanted(i) :
        /\ \A b \in Wanted(i) : Seniority[a] <= Seniority[b]
        /\ wait' = [wait EXCEPT ![i] = a]
    /\ UNCHANGED <<bankButWaits, lock, investVars>>

LockAccount(i) ==
    /\ ipc[i] = "return" /\ Grantable(i)
    /\ LET a == wait[i] IN
        lock' = [lock EXCEPT ![a] = IF account[a].status = "active" THEN i ELSE @]
    /\ wait' = [wait EXCEPT ![i] = NoRow]
    /\ UNCHANGED <<bankButWaits, investVars>>

\* True: the copy of the deposit is emptied and closed.  False: it stays active, its date where it is.
AfterReturn(i, ok) ==
    LET x == irun[i].item
        row == irun[i].copy[x]
    IN [irun EXCEPT ![i] = RunWith(@, @.todo, NoRow, x, IF ok THEN Closed(row) ELSE row)]

AlreadyReturned(x, a) == returned[x][a] > 0

\* The oldest account is credited, unless it was before.  If the reply of the commit is lost,
\* the worker is told of a failure although the bank has paid.
ReturnDeposit(i) ==
    LET x == irun[i].item
        mine == Held(i)
        a == CHOOSE b \in mine : \A c \in mine : Seniority[b] <= Seniority[c]
        pays == mine # {} /\ ~AlreadyReturned(x, a)
    IN /\ ipc[i] = "return" /\ wait[i] = NoRow /\ Wanted(i) = {}
       /\ account' = IF pays THEN [account EXCEPT ![a].balance = @ + irun[i].copy[x].balance]
                             ELSE account
       /\ returned' = IF pays THEN [returned EXCEPT ![x][a] = @ + 1] ELSE returned
       /\ \E told \in {TRUE, ~pays} :
            /\ irun' = AfterReturn(i, mine # {} /\ told)
            /\ torn' = IF told THEN torn ELSE torn \union {x}
       /\ lock' = Freed(i)
       /\ ipc' = [ipc EXCEPT ![i] = "deposits"]
       /\ UNCHANGED <<bankButAccounts, wait, product, accrued, gave, taken, iadvisory>>

\* An exception before the commit in bank_db: here the victim of a deadlock.
FailReturn(i) ==
    /\ ipc[i] = "return" /\ Deadlocked(i)
    /\ irun' = AfterReturn(i, FALSE)
    /\ lock' = Freed(i)
    /\ wait' = [wait EXCEPT ![i] = NoRow]
    /\ ipc' = [ipc EXCEPT ![i] = "deposits"]
    /\ UNCHANGED <<bankButWaits, product, accrued, returned, gave, torn, taken, iadvisory>>

CommitDeposits(i) ==
    /\ ipc[i] = "deposits" /\ irun[i].todo = {}
    /\ product' = [x \in Products |-> IF x \in irun[i].held THEN irun[i].copy[x] ELSE product[x]]
    /\ accrued' = Interests(irun[i].held)
    /\ irun' = [irun EXCEPT ![i] = NoInvestRun(@.date)]
    /\ ipc' = [ipc EXCEPT ![i] = "brokers"]
    /\ UNCHANGED <<bankVars, returned, gave, torn, taken, iadvisory>>

-----------------------------------------------------------------------------
(* Broker accounts: the income of the strategy, none without one. *)

PayBrokers(i) ==
    /\ ipc[i] = "brokers"
    /\ \E S \in SUBSET DueRows(i, Brokers) : \E income \in [S -> Market] :
        /\ product' = [x \in Products |->
              IF x \notin S THEN product[x]
              ELSE PaidUp(Earned(product[x], IF product[x].strategy THEN income[x] ELSE 0))]
        /\ accrued' = Interests({x \in S : product[x].strategy})
    /\ ipc' = [ipc EXCEPT ![i] = "unlock"]
    /\ UNCHANGED <<bankVars, returned, gave, torn, irun, taken, iadvisory>>

UnlockInvest(i) ==
    /\ ipc[i] = "unlock"
    /\ iadvisory' = Nobody
    /\ ipc' = [ipc EXCEPT ![i] = "idle"]
    /\ UNCHANGED <<bankVars, product, accrued, returned, gave, torn, irun, taken>>

\* The process dies: the returns it committed in bank_db stay, the closings are lost.
DieInvest(i) ==
    /\ ipc[i] # "idle"
    /\ torn' = torn \union {x \in irun[i].held : irun[i].copy[x].status = "closed"}
    /\ irun' = [irun EXCEPT ![i] = NoInvestRun(@.date)]
    /\ lock' = Freed(i)
    /\ wait' = [wait EXCEPT ![i] = NoRow]
    /\ ipc' = [ipc EXCEPT ![i] = "idle"]
    /\ iadvisory' = IF iadvisory = i THEN Nobody ELSE iadvisory
    /\ UNCHANGED <<bankButWaits, product, accrued, returned, gave, taken>>

-----------------------------------------------------------------------------
(* The invest API.  A closing takes all, then pays it into an account or restores the product. *)

\* Mutant: the row is read without FOR UPDATE.
MayCloseUnlocked(x) == product[x].status # "closed"
MayClose(x) == product[x].status # "closed" /\ \A i \in InvestWorkers : x \notin irun[i].held

CloseProduct(c) ==
    LET x == ClosesInto[c].product IN
    /\ ipc[c] = "idle" /\ MayClose(x)
    /\ taken' = [taken EXCEPT ![c] = product[x].balance]
    /\ product' = [product EXCEPT ![x] = Closed(@)]
    /\ ipc' = [ipc EXCEPT ![c] = "took"]
    /\ UNCHANGED <<bankVars, accrued, returned, gave, torn, irun, iadvisory>>

PayOut(c) ==
    LET x == ClosesInto[c].product
        a == ClosesInto[c].account
    IN /\ ipc[c] = "took" /\ lock[a] = Nobody
       /\ IF account[a].status = "active" /\ Owner[a] = Holder[x]
            THEN /\ account' = [account EXCEPT ![a].balance = @ + taken[c]]
                 /\ gave' = [gave EXCEPT ![x] = @ + 1]
                 /\ UNCHANGED product
            ELSE /\ product' = [product EXCEPT ![x] = Restored(@, taken[c])]
                 /\ UNCHANGED <<account, gave>>
       /\ ipc' = [ipc EXCEPT ![c] = "ended"]
       /\ UNCHANGED <<bankButAccounts, locks, accrued, returned, torn, irun, taken, iadvisory>>

SetStrategy(x) ==
    /\ product' = [product EXCEPT ![x] = Toggled(@)]
    /\ UNCHANGED <<bankVars, accrued, returned, gave, torn, ipc, irun, taken, iadvisory>>

-----------------------------------------------------------------------------
InvestStep(i) ==
    \/ PaySavings(i) \/ TakeDeposit(i) \/ AskAccount(i) \/ LockAccount(i)
    \/ ReturnDeposit(i) \/ FailReturn(i) \/ CommitDeposits(i) \/ PayBrokers(i) \/ UnlockInvest(i)

Next ==
    \/ BankNext /\ UNCHANGED investVars
       /\ (day' # day => \A i \in InvestWorkers : ipc[i] = "idle")
    \/ \E i \in InvestWorkers : StartInvest(i) \/ InvestStep(i) \/ DieInvest(i)
    \/ \E c \in Closers : CloseProduct(c) \/ PayOut(c)
    \/ \E x \in Brokers : SetStrategy(x)

Spec == Init /\ [][Next]_vars
FairSpec ==
    /\ Spec
    /\ \A w \in Workers : WF_vars(RunStep(w) /\ UNCHANGED investVars)
    /\ \A t \in Transfers : WF_vars(TransferStep(t) /\ UNCHANGED investVars)
    /\ \A i \in InvestWorkers : WF_vars(InvestStep(i))
-----------------------------------------------------------------------------
(* Properties. *)

\* Whatever the replicas, repeated runs, deaths and deadlocks of the bank's worker: a due date
\* of an autopayment is paid once, a fee is taken once a day, and a client gets one salary a day.
ChargedOnce ==
    /\ \A c \in Charge : booked[c] <= 1
    /\ \A a, b \in Accounts : \A d \in Days :
        (a # b /\ Owner[a] = Owner[b]) => booked[SalaryOf(a, d)] + booked[SalaryOf(b, d)] <= 1

\* How often deposit x was paid to its client.
PaidOut(x) ==
    gave[x] + Cardinality({a \in Accounts : returned[x][a] > 0})

\* "Проверка идемпотентности: не начислять повторно, если возврат уже был выполнен ранее"
\* (return_deposit_to_bank): a deposit is paid out once, by the worker or by the client's own
\* closing, and not closed before, unless the handler that took it is on its way. It is paid
\* twice only if a run died between the two commits of the return, or was not told of the first.
DepositPaidOutExactlyOnce ==
    \A x \in Deposits :
        /\ PaidOut(x) > 1 => x \in torn
        /\ \A a \in Accounts : returned[x][a] <= 1
        /\ product[x].status = "closed" =>
              PaidOut(x) >= 1 \/ \E c \in Closers : ClosesInto[c].product = x /\ ipc[c] = "took"

\* The interest of a date is added once; only a matured deposit that could not be returned
\* earns it again, with every run.
InterestOncePerDate ==
    \A x \in Products : \A d \in Days :
        accrued[x][d] > 1 => x \in Deposits /\ product[x].date = d /\ day >= Matures[x]

\* Deadlocks between the two workers and the transfers are always resolved: every run ends.
RunsEnd ==
    /\ \A w \in Workers : [](pc[w] # "idle" => <>(pc[w] = "idle"))
    /\ \A i \in InvestWorkers : [](ipc[i] # "idle" => <>(ipc[i] = "idle"))
=============================================================================
