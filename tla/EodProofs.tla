------------------------------ MODULE EodProofs ------------------------------
(***************************************************************************)
(* Proofs about the nightly run of the bank beside that of the investments *)
(* (InvestEod), for any number of replicas, accounts, autopayments and     *)
(* products: nobody is charged twice, whatever run is repeated, aborted or *)
(* killed; a deposit is paid out once, its interest added once.            *)
(***************************************************************************)
EXTENDS InvestEod, OrderAndSums, TLAPS

Steps == {"idle", "items", "item", "fees", "salaries", "unlock", "first", "second", "ended"}

\* A run has the fields of RunOf, and a new date for each autopayment it saw.
IsRun(r) ==
    /\ r = [date |-> r.date, todo |-> r.todo, item |-> r.item, seen |-> r.seen,
            next |-> r.next, copy |-> r.copy, charges |-> r.charges]
    /\ DOMAIN r.seen \subseteq AutoPayments
    /\ r.seen \in [DOMAIN r.seen -> Int]
    /\ r.next \in [DOMAIN r.seen -> Int]
    /\ r.todo \subseteq DOMAIN r.seen

Typed ==
    /\ due \in [AutoPayments -> Int]
    /\ booked \in [Charge -> Nat]
    /\ pc \in [Workers \union Transfers -> Steps]
    /\ run \in [Workers -> {run[w] : w \in Workers}]
    /\ \A w \in Workers : IsRun(run[w])
    /\ advisory \in Workers \union {Nobody}
    /\ leaked \in [Workers -> BOOLEAN]

\* The advisory lock belongs to the one replica that runs, or whose connection kept it.
OneRuns == \A w \in Workers : pc[w] # "idle" \/ leaked[w] => advisory = w

\* What a run has read is current, and what it charges is the date it moves on.
IsCurrent(r, dates) ==
    /\ \A p \in DOMAIN r.seen : r.seen[p] = dates[p] /\ r.seen[p] >= 1 /\ r.next[p] >= r.seen[p]
    /\ \A c \in r.charges :
        \E p \in DOMAIN r.seen : c = AutoOf(p, r.seen[p]) /\ r.next[p] > r.seen[p]

RunsAreCurrent ==
    \A w \in Workers :
        /\ IsCurrent(run[w], due)
        /\ pc[w] \notin {"items", "item"} => DOMAIN run[w].seen = {}
        /\ pc[w] = "item" => run[w].item \in DOMAIN run[w].seen

\* A date that was charged lies behind the next payment date.
PaidIsPast ==
    \A p \in AutoPayments : \A d \in Days : booked[AutoOf(p, d)] > 0 => d < due[p]

EInv == Typed /\ OneRuns /\ RunsAreCurrent /\ PaidIsPast /\ ChargedOnce

\* The variables EInv is about.
eodVars == <<due, booked, pc, run, advisory, leaked>>

-----------------------------------------------------------------------------
\* A run that holds no autopayment.
LEMMA EmptyRun ==
    ASSUME NEW d, NEW dates
    PROVE  /\ IsRun(NoRun(d)) /\ IsCurrent(NoRun(d), dates)
           /\ DOMAIN NoRun(d).seen = {} /\ NoRun(d).charges = {}
<1> DEFINE r == NoRun(d)
<1>1. r = [date |-> d, todo |-> {}, item |-> NoRow,
           seen |-> [p \in {} |-> due[p]], next |-> [p \in {} |-> due[p]],
           copy |-> [a \in Accounts |-> 0], charges |-> {}]
  BY DEF NoRun, RunOf
<1> HIDE DEF r
<1>2. DOMAIN r.seen = {} /\ DOMAIN r.next = {} /\ r.charges = {} /\ r.todo = {}
  BY <1>1
<1>3. r.seen \in [{} -> Int] /\ r.next \in [{} -> Int]
  BY <1>1
<1>4. r = [date |-> r.date, todo |-> r.todo, item |-> r.item, seen |-> r.seen,
           next |-> r.next, copy |-> r.copy, charges |-> r.charges]
  BY <1>1
<1>5. IsRun(r) /\ IsCurrent(r, dates)
  BY <1>2, <1>3, <1>4 DEF IsRun, IsCurrent
<1>6. QED
  BY <1>2, <1>5 DEF r

LEMMA InitEInv == EodAssumption /\ Init => EInv
<1> SUFFICES ASSUME EodAssumption, BankInit PROVE EInv
  BY DEF Init
<1>1. \A w \in Workers : run[w] = NoRun(0) /\ pc[w] = "idle" /\ ~leaked[w]
  BY DEF BankInit
<1>2. \A w \in Workers : IsRun(run[w]) /\ IsCurrent(run[w], due) /\ DOMAIN run[w].seen = {}
  BY <1>1, EmptyRun
<1>3. Typed
  BY <1>2 DEF BankInit, Typed, Steps
<1>4. OneRuns /\ RunsAreCurrent
  BY <1>1, <1>2 DEF OneRuns, RunsAreCurrent
<1>5. \A c \in Charge : booked[c] = 0
  BY DEF BankInit
<1>6. /\ \A p \in AutoPayments : \A d \in Days : AutoOf(p, d) \in Charge
      /\ \A a \in Accounts : \A d \in Days : SalaryOf(a, d) \in Charge
  BY DEF AutoOf, SalaryOf, Charge
<1>7. PaidIsPast /\ ChargedOnce
  BY <1>5, <1>6 DEF PaidIsPast, ChargedOnce
<1>8. QED
  BY <1>3, <1>4, <1>7 DEF EInv

LEMMA Unchanged == EInv /\ UNCHANGED eodVars => EInv'
  BY DEF EInv, eodVars, Typed, OneRuns, RunsAreCurrent, PaidIsPast, ChargedOnce, IsRun, IsCurrent

\* If w runs, no other replica does: its run is empty.
LEMMA OthersAreIdle ==
    ASSUME EInv, NEW w \in Workers, pc[w] # "idle"
    PROVE  advisory = w /\ \A v \in Workers \ {w} :
             pc[v] = "idle" /\ ~leaked[v] /\ DOMAIN run[v].seen = {} /\ run[v].charges = {}
  BY DEF EInv, OneRuns, RunsAreCurrent, IsCurrent

\* Records of a run with some fields replaced.
LEMMA ItemField ==
    ASSUME NEW r, IsRun(r), NEW p
    PROVE  [r EXCEPT !.item = p] =
             [date |-> r.date, todo |-> r.todo, item |-> p, seen |-> r.seen,
              next |-> r.next,
              copy |-> r.copy, charges |-> r.charges]
  BY DEF IsRun

LEMMA TodoItemFields ==
    ASSUME NEW r, IsRun(r), NEW p
    PROVE  [r EXCEPT !.todo = @ \ {p}, !.item = p] =
             [date |-> r.date, todo |-> r.todo \ {p}, item |-> p, seen |-> r.seen,
              next |-> r.next,
              copy |-> r.copy, charges |-> r.charges]
<1> r = [date |-> r.date, todo |-> r.todo, item |-> r.item, seen |-> r.seen,
         next |-> r.next, copy |-> r.copy, charges |-> r.charges]
  BY DEF IsRun
<1> DEFINE r1 == [r EXCEPT !.todo = @ \ {p}]
<1>1. [r EXCEPT !.todo = @ \ {p}, !.item = p] = [r1 EXCEPT !.item = p]
  OBVIOUS
<1>2. r1 =
        [date |-> r.date, todo |-> r.todo \ {p}, item |-> r.item, seen |-> r.seen,
         next |-> r.next,
         copy |-> r.copy, charges |-> r.charges]
  OBVIOUS
<1> HIDE DEF r1
<1>3. QED
  BY <1>1, <1>2

LEMMA CopyField ==
    ASSUME NEW r, IsRun(r), NEW a, NEW b
    PROVE  [r EXCEPT !.copy[a] = b] =
             [date |-> r.date, todo |-> r.todo, item |-> r.item, seen |-> r.seen,
              next |-> r.next,
              copy |-> [r.copy EXCEPT ![a] = b], charges |-> r.charges]
  BY DEF IsRun

-----------------------------------------------------------------------------
(* Steps that charge nobody. *)

LEMMA StartKeeps ==
    ASSUME EodAssumption, EInv, NEW w \in Workers, Start(w)
    PROVE  EInv'
<1> DEFINE P == IF MayRun(w) THEN DueNow ELSE {}
           r == RunOf(day, P)
<1>1. /\ due' = due /\ booked' = booked /\ leaked' = leaked
      /\ pc[w] = "idle"
      /\ run' = [run EXCEPT ![w] = r]
      /\ pc' = [pc EXCEPT ![w] = IF MayRun(w) THEN "items" ELSE "idle"]
      /\ advisory' = IF MayRun(w) THEN w ELSE advisory
  BY DEF Start, bankTables
<1>2. /\ P \subseteq AutoPayments /\ \A p \in P : due[p] >= 1 /\ due[p] \in Int
      /\ ~MayRun(w) => P = {}
  BY DEF DueNow, EInv, Typed
<1>3. r = [date |-> day, todo |-> P, item |-> NoRow,
           seen |-> [p \in P |-> due[p]], next |-> [p \in P |-> due[p]],
           copy |-> [a \in Accounts |-> 0], charges |-> {}]
  BY DEF RunOf
<1> HIDE DEF P, r
<1>4. IsRun(r) /\ IsCurrent(r, due) /\ DOMAIN r.seen = P
  BY <1>2, <1>3 DEF IsRun, IsCurrent
<1>5. \A v \in Workers : run'[v] = IF v = w THEN r ELSE run[v]
  BY <1>1 DEF EInv, Typed
<1>6. Typed'
  <2>1. run' \in [Workers -> {run'[v] : v \in Workers}]
    BY <1>1 DEF EInv, Typed
  <2>2. \A v \in Workers : IsRun(run'[v])
    BY <1>4, <1>5 DEF EInv, Typed
  <2>3. QED
    BY <1>1, <2>1, <2>2 DEF EInv, Typed, Steps, IsRun
<1>7. OneRuns'
  BY <1>1, EodAssumption DEF EInv, Typed, OneRuns, MayRun, EodAssumption, Lockers
<1>8. RunsAreCurrent'
  <2>1. \A v \in Workers : IsCurrent(run'[v], due')
    BY <1>1, <1>4, <1>5 DEF EInv, RunsAreCurrent, IsCurrent
  <2>2. \A v \in Workers : pc'[v] \notin {"items", "item"} => DOMAIN run'[v].seen = {}
    BY <1>1, <1>2, <1>4, <1>5 DEF EInv, Typed, RunsAreCurrent
  <2>3. \A v \in Workers : pc'[v] = "item" => run'[v].item \in DOMAIN run'[v].seen
    BY <1>1, <1>5 DEF EInv, Typed, RunsAreCurrent
  <2>4. QED
    BY <2>1, <2>2, <2>3 DEF RunsAreCurrent, IsCurrent
<1>9. PaidIsPast' /\ ChargedOnce'
  BY <1>1 DEF EInv, PaidIsPast, ChargedOnce
<1>10. QED
  BY <1>6, <1>7, <1>8, <1>9 DEF EInv

\* The run of w goes on to another step.
LEMMA RunMovesOn ==
    ASSUME EInv, NEW w \in Workers, pc[w] # "idle",
           NEW r, IsRun(r), IsCurrent(r, due'),
           NEW step \in Steps \ {"idle"},
           step \notin {"items", "item"} => DOMAIN r.seen = {},
           step = "item" => r.item \in DOMAIN r.seen,
           run' = [run EXCEPT ![w] = r], pc' = [pc EXCEPT ![w] = step],
           advisory' = advisory, leaked' = leaked,
           due' \in [AutoPayments -> Int], booked' \in [Charge -> Nat]
    PROVE  Typed' /\ OneRuns' /\ RunsAreCurrent'
<1>1. \A v \in Workers : run'[v] = IF v = w THEN r ELSE run[v]
  BY DEF EInv, Typed
<1>2. \A v \in Workers : pc'[v] = IF v = w THEN step ELSE pc[v]
  BY DEF EInv, Typed
<1>3. Typed'
  <2>1. run' \in [Workers -> {run'[v] : v \in Workers}]
    BY DEF EInv, Typed
  <2>2. \A v \in Workers : IsRun(run'[v])
    BY <1>1 DEF EInv, Typed
  <2>3. pc' \in [Workers \union Transfers -> Steps]
    BY DEF EInv, Typed
  <2>4. QED
    BY <2>1, <2>2, <2>3 DEF EInv, Typed, IsRun
<1>4. OneRuns'
  BY <1>2 DEF EInv, OneRuns
<1>5. RunsAreCurrent'
  <2>1. ASSUME NEW v \in Workers, v # w
        PROVE  /\ IsCurrent(run'[v], due') /\ DOMAIN run'[v].seen = {}
               /\ pc'[v] # "item"
    BY <1>1, <1>2, <2>1, OthersAreIdle DEF IsCurrent
  <2>2. /\ IsCurrent(run'[w], due')
        /\ pc'[w] \notin {"items", "item"} => DOMAIN run'[w].seen = {}
        /\ pc'[w] = "item" => run'[w].item \in DOMAIN run'[w].seen
    BY <1>1, <1>2
  <2>3. \A v \in Workers :
          /\ IsCurrent(run'[v], due')
          /\ pc'[v] \notin {"items", "item"} => DOMAIN run'[v].seen = {}
          /\ pc'[v] = "item" => run'[v].item \in DOMAIN run'[v].seen
    BY <2>1, <2>2
  <2>4. QED
    BY <2>3 DEF RunsAreCurrent, IsCurrent
<1>6. QED
  BY <1>3, <1>4, <1>5

\* ... and charges nobody.
LEMMA QuietMove ==
    ASSUME EInv, NEW w \in Workers, pc[w] # "idle",
           NEW r, IsRun(r), IsCurrent(r, due),
           NEW step \in Steps \ {"idle"},
           step \notin {"items", "item"} => DOMAIN r.seen = {},
           step = "item" => r.item \in DOMAIN r.seen,
           run' = [run EXCEPT ![w] = r], pc' = [pc EXCEPT ![w] = step],
           advisory' = advisory, leaked' = leaked, due' = due, booked' = booked
    PROVE  EInv'
<1>1. due' \in [AutoPayments -> Int] /\ booked' \in [Charge -> Nat]
  BY DEF EInv, Typed
<1>2. IsCurrent(r, due')
  OBVIOUS
<1>3. Typed' /\ OneRuns' /\ RunsAreCurrent'
  BY <1>1, <1>2, RunMovesOn
<1>4. PaidIsPast' /\ ChargedOnce'
  BY DEF EInv, PaidIsPast, ChargedOnce
<1>5. QED
  BY <1>3, <1>4 DEF EInv

LEMMA TakeItemKeeps ==
    ASSUME EInv, NEW w \in Workers, TakeItem(w)
    PROVE  EInv'
<1>1. PICK p \in run[w].todo : run' = [run EXCEPT ![w].todo = @ \ {p}, ![w].item = p]
  BY DEF TakeItem
<1> DEFINE r == [run[w] EXCEPT !.todo = @ \ {p}, !.item = p]
<1>2. run' = [run EXCEPT ![w] = r]
  BY <1>1 DEF EInv, Typed
<1>3. IsRun(run[w]) /\ IsCurrent(run[w], due)
  BY DEF EInv, Typed, RunsAreCurrent
<1>4. r = [date |-> run[w].date, todo |-> run[w].todo \ {p}, item |-> p, seen |-> run[w].seen,
           next |-> run[w].next, copy |-> run[w].copy, charges |-> run[w].charges]
  BY <1>3, TodoItemFields
<1> HIDE DEF r
<1>5. IsRun(r) /\ IsCurrent(r, due) /\ r.item \in DOMAIN r.seen
  BY <1>3, <1>4 DEF IsRun, IsCurrent
<1>6. /\ pc[w] # "idle" /\ pc' = [pc EXCEPT ![w] = "item"] /\ "item" \in Steps \ {"idle"}
      /\ advisory' = advisory /\ leaked' = leaked /\ due' = due /\ booked' = booked
  BY DEF TakeItem, bankTables, Steps
<1>7. QED
  BY <1>2, <1>5, <1>6, QuietMove

LEMMA SkipItemKeeps ==
    ASSUME EInv, NEW w \in Workers, SkipItem(w)
    PROVE  EInv'
<1> DEFINE r == [run[w] EXCEPT !.item = NoRow]
<1>1. run' = [run EXCEPT ![w] = r]
  BY DEF EInv, Typed, SkipItem
<1>2. IsRun(run[w]) /\ IsCurrent(run[w], due)
  BY DEF EInv, Typed, RunsAreCurrent
<1>3. r = [date |-> run[w].date, todo |-> run[w].todo, item |-> NoRow, seen |-> run[w].seen,
           next |-> run[w].next, copy |-> run[w].copy, charges |-> run[w].charges]
  BY <1>2, ItemField
<1> HIDE DEF r
<1>4. IsRun(r) /\ IsCurrent(r, due)
  BY <1>2, <1>3 DEF IsRun, IsCurrent
<1>5. /\ pc[w] # "idle" /\ pc' = [pc EXCEPT ![w] = "items"] /\ "items" \in Steps \ {"idle"}
      /\ advisory' = advisory /\ leaked' = leaked /\ due' = due /\ booked' = booked
  BY DEF SkipItem, bankTables, Steps
<1>6. QED
  BY <1>1, <1>4, <1>5, QuietMove

\* What paying an autopayment, putting it off or leaving it alone makes of the run.
LEMMA PaidItem ==
    ASSUME EodAssumption, EInv, NEW w \in Workers, PayItem(w)
    PROVE  LET p == run[w].item
               r == [AfterItem(w, p) EXCEPT !.item = NoRow]
           IN IsRun(r) /\ IsCurrent(r, due)
<1> DEFINE p == run[w].item
           a == Plan[p].account
           b == Balance(w, a)
<1>1. IsRun(run[w]) /\ IsCurrent(run[w], due) /\ p \in DOMAIN run[w].seen
  BY DEF EInv, Typed, RunsAreCurrent, PayItem
<1>2. p \in AutoPayments /\ Plan[p].period \in Nat \ {0}
  BY <1>1 DEF IsRun, EodAssumption
<1>3. \E next, copy, charges :
        /\ AfterItem(w, p) =
             [date |-> run[w].date, todo |-> run[w].todo, item |-> run[w].item,
              seen |-> run[w].seen, next |-> next, copy |-> copy, charges |-> charges]
        /\ \/ next = run[w].next /\ charges = run[w].charges
           \/ /\ next = [run[w].next EXCEPT ![p] = @ + Plan[p].period]
              /\ charges = run[w].charges \union {AutoOf(p, run[w].seen[p])}
           \/ next = [run[w].next EXCEPT ![p] = @ + 1] /\ charges = run[w].charges
  <2>0. run[w] = [date |-> run[w].date, todo |-> run[w].todo, item |-> run[w].item,
                  seen |-> run[w].seen, next |-> run[w].next, copy |-> run[w].copy,
                  charges |-> run[w].charges]
    BY <1>1 DEF IsRun
  <2> HIDE DEF p
  <2>1. CASE account[a].status # "active"
    <3>1. AfterItem(w, p) = [run[w] EXCEPT !.copy[a] = b]
      BY <2>1 DEF AfterItem
    <3> HIDE DEF a, b
    <3>2. AfterItem(w, p) =
             [date |-> run[w].date, todo |-> run[w].todo, item |-> run[w].item,
              seen |-> run[w].seen, next |-> run[w].next,
              copy |-> [run[w].copy EXCEPT ![a] = b], charges |-> run[w].charges]
      BY <1>1, <3>1, CopyField
    <3>3. QED
      BY <3>2
  <2>2. CASE account[a].status = "active" /\ Covers(b, Plan[p].amount)
    <3> DEFINE v == run[w].next[p] + Plan[p].period
               left == b - Plan[p].amount
               D == run[w].charges \union {AutoOf(p, run[w].seen[p])}
               c1 == [run[w] EXCEPT !.copy[a] = left]
               c2 == [c1 EXCEPT !.next[p] = v]
    <3>1. AfterItem(w, p) = [run[w] EXCEPT !.copy[a] = b - Plan[p].amount,
                                           !.next[p] = @ + Plan[p].period,
                                           !.charges = @ \union {AutoOf(p, run[w].seen[p])}]
      BY <2>2 DEF AfterItem
    <3> HIDE DEF a, b
    <3>2. AfterItem(w, p) = [run[w] EXCEPT !.copy[a] = left, !.next[p] = v, !.charges = D]
      BY Zenon, <3>1
    <3> HIDE DEF left, v, D
    <3>3. AfterItem(w, p) = [c2 EXCEPT !.charges = D]
      BY <2>0, <3>2
    <3>4. c1 = [date |-> run[w].date, todo |-> run[w].todo, item |-> run[w].item,
              seen |-> run[w].seen, next |-> run[w].next,
              copy |-> [run[w].copy EXCEPT ![a] = left], charges |-> run[w].charges]
      BY <1>1, CopyField
    <3> HIDE DEF c1
    <3>5. c2 = [date |-> run[w].date, todo |-> run[w].todo, item |-> run[w].item,
              seen |-> run[w].seen, next |-> [run[w].next EXCEPT ![p] = v],
              copy |-> [run[w].copy EXCEPT ![a] = left], charges |-> run[w].charges]
      BY <3>4
    <3> HIDE DEF c2
    <3>6. AfterItem(w, p) =
             [date |-> run[w].date, todo |-> run[w].todo, item |-> run[w].item,
              seen |-> run[w].seen, next |-> [run[w].next EXCEPT ![p] = v],
              copy |-> [run[w].copy EXCEPT ![a] = left], charges |-> D]
      BY <3>3, <3>5
    <3>7. QED
      BY <3>6 DEF v, D
  <2>3. CASE account[a].status = "active" /\ ~Covers(b, Plan[p].amount)
    <3> DEFINE v == run[w].next[p] + 1
               c1 == [run[w] EXCEPT !.copy[a] = b]
    <3>1. AfterItem(w, p) = [run[w] EXCEPT !.copy[a] = b, !.next[p] = @ + 1]
      BY <2>3 DEF AfterItem
    <3> HIDE DEF a, b
    <3>2. AfterItem(w, p) = [run[w] EXCEPT !.copy[a] = b, !.next[p] = v]
      BY Zenon, <3>1
    <3> HIDE DEF v
    <3>3. AfterItem(w, p) = [c1 EXCEPT !.next[p] = v]
      BY <2>0, <3>2
    <3>4. c1 = [date |-> run[w].date, todo |-> run[w].todo, item |-> run[w].item,
              seen |-> run[w].seen, next |-> run[w].next,
              copy |-> [run[w].copy EXCEPT ![a] = b], charges |-> run[w].charges]
      BY <1>1, CopyField
    <3> HIDE DEF c1
    <3>5. AfterItem(w, p) =
             [date |-> run[w].date, todo |-> run[w].todo, item |-> run[w].item,
              seen |-> run[w].seen, next |-> [run[w].next EXCEPT ![p] = v],
              copy |-> [run[w].copy EXCEPT ![a] = b], charges |-> run[w].charges]
      BY <3>3, <3>4
    <3>6. QED
      BY <3>5 DEF v
  <2>4. QED
    BY <2>1, <2>2, <2>3
<1>4. PICK next, copy, charges :
        /\ AfterItem(w, p) =
             [date |-> run[w].date, todo |-> run[w].todo, item |-> run[w].item,
              seen |-> run[w].seen, next |-> next, copy |-> copy, charges |-> charges]
        /\ \/ next = run[w].next /\ charges = run[w].charges
           \/ /\ next = [run[w].next EXCEPT ![p] = @ + Plan[p].period]
              /\ charges = run[w].charges \union {AutoOf(p, run[w].seen[p])}
           \/ next = [run[w].next EXCEPT ![p] = @ + 1] /\ charges = run[w].charges
  BY <1>3
<1> DEFINE s == AfterItem(w, p)
<1> HIDE DEF s, p
<1>5. /\ next \in [DOMAIN run[w].seen -> Int]
      /\ \A q \in DOMAIN run[w].seen : next[q] >= run[w].next[q]
      /\ \A c \in charges \ run[w].charges :
            c = AutoOf(p, run[w].seen[p]) /\ next[p] > run[w].next[p]
  BY <1>1, <1>2, <1>4 DEF IsRun
<1>6. /\ s = [date |-> s.date, todo |-> s.todo, item |-> s.item, seen |-> s.seen,
                next |-> s.next, copy |-> s.copy, charges |-> s.charges]
      /\ s.seen = run[w].seen /\ s.next = next /\ s.charges = charges /\ s.todo = run[w].todo
  BY <1>4 DEF s
<1>7. \A q \in DOMAIN run[w].seen : /\ run[w].seen[q] \in Int /\ run[w].next[q] \in Int
                                   /\ next[q] \in Int
  BY <1>1, <1>5 DEF IsRun
<1>8. IsRun(s)
  BY <1>1, <1>5, <1>6 DEF IsRun
<1>9. IsCurrent(s, due)
  <2>1. \A q \in DOMAIN s.seen : s.seen[q] = due[q] /\ s.seen[q] >= 1 /\ s.next[q] >= s.seen[q]
    BY <1>1, <1>5, <1>6, <1>7 DEF IsCurrent
  <2>2. ASSUME NEW c \in charges
        PROVE  \E q \in DOMAIN s.seen : c = AutoOf(q, s.seen[q]) /\ s.next[q] > s.seen[q]
    <3>1. CASE c \in run[w].charges
      BY <1>1, <1>5, <1>6, <1>7, <3>1 DEF IsCurrent
    <3>2. CASE c \notin run[w].charges
      BY <1>1, <1>5, <1>6, <1>7, <3>2 DEF IsCurrent
    <3>3. QED
      BY <3>1, <3>2
  <2>3. QED
    BY <1>6, <2>1, <2>2 DEF IsCurrent
<1>10. [s EXCEPT !.item = NoRow] =
         [date |-> s.date, todo |-> s.todo, item |-> NoRow, seen |-> s.seen,
          next |-> s.next, copy |-> s.copy, charges |-> s.charges]
  BY <1>8, ItemField
<1> DEFINE t == [s EXCEPT !.item = NoRow]
<1> HIDE DEF t
<1>11. IsRun(t) /\ IsCurrent(t, due)
  BY <1>8, <1>9, <1>10 DEF IsRun, IsCurrent, t
<1>12. QED
  BY <1>11 DEF t, s, p

LEMMA PayItemKeeps ==
    ASSUME EodAssumption, EInv, NEW w \in Workers, PayItem(w)
    PROVE  EInv'
<1> DEFINE r == [AfterItem(w, run[w].item) EXCEPT !.item = NoRow]
<1>1. IsRun(r) /\ IsCurrent(r, due)
  BY PaidItem
<1>2. run' = [run EXCEPT ![w] = r]
  BY DEF PayItem
<1>3. /\ pc[w] # "idle" /\ pc' = [pc EXCEPT ![w] = "items"] /\ "items" \in Steps \ {"idle"}
      /\ advisory' = advisory /\ leaked' = leaked /\ due' = due /\ booked' = booked
  BY DEF PayItem, bankTables, Steps
<1> HIDE DEF r
<1>4. QED
  BY <1>1, <1>2, <1>3, QuietMove

-----------------------------------------------------------------------------
(* Commits. *)

\* A commit charges what was not charged before, autopayments on the date it moves on, and
\* one account of a client a salary.
LEMMA CommitKeeps ==
    ASSUME EInv, NEW w \in Workers, pc[w] # "idle",
           NEW balance, NEW C, NEW phase \in {"items", "fees", "salaries"},
           Commit(w, balance, C, phase),
           \A c \in C \intersect Charge : booked[c] = 0,
           \A p \in AutoPayments : \A d \in Days : AutoOf(p, d) \in C =>
              p \in DOMAIN run[w].seen /\ d = run[w].seen[p] /\ run[w].next[p] > d,
           \A a, b \in Accounts : \A d \in Days :
              (a # b /\ Owner[a] = Owner[b] /\ SalaryOf(a, d) \in C) =>
                 SalaryOf(b, d) \notin C /\ booked[SalaryOf(b, d)] = 0
    PROVE  EInv'
<1>1. IsRun(run[w]) /\ IsCurrent(run[w], due)
  BY DEF EInv, Typed, RunsAreCurrent
<1>2. /\ booked' = [c \in Charge |-> booked[c] + IF c \in C THEN 1 ELSE 0]
      /\ due' = [p \in AutoPayments |->
                   IF p \in DOMAIN run[w].seen /\ run[w].next[p] # run[w].seen[p]
                     THEN run[w].next[p] ELSE due[p]]
      /\ run' = [run EXCEPT ![w] = NoRun(run[w].date)]
      /\ pc' = [pc EXCEPT ![w] = NextPhase(w, phase)]
      /\ advisory' = advisory /\ leaked' = leaked
  BY DEF Commit, EInv, Typed
<1>3. due' \in [AutoPayments -> Int] /\ \A p \in AutoPayments : due'[p] >= due[p]
  BY <1>1, <1>2 DEF EInv, Typed, IsRun, IsCurrent
<1>4. booked' \in [Charge -> Nat]
  BY <1>2 DEF EInv, Typed
<1>5. NextPhase(w, phase) \in Steps \ {"idle", "items", "item"}
  BY DEF NextPhase, Steps
<1>6. Typed' /\ OneRuns' /\ RunsAreCurrent'
  <2> DEFINE r == NoRun(run[w].date)
             step == NextPhase(w, phase)
  <2>1. IsRun(r) /\ IsCurrent(r, due') /\ DOMAIN r.seen = {}
    BY EmptyRun
  <2>2. /\ run' = [run EXCEPT ![w] = r] /\ pc' = [pc EXCEPT ![w] = step]
        /\ step \in Steps \ {"idle"} /\ step # "items" /\ step # "item"
    BY <1>2, <1>5
  <2> HIDE DEF r, step
  <2>3. QED
    BY <1>2, <1>3, <1>4, <2>1, <2>2, RunMovesOn
<1>7. /\ \A p \in AutoPayments : \A d \in Days : AutoOf(p, d) \in Charge
      /\ \A a \in Accounts : \A d \in Days : SalaryOf(a, d) \in Charge
  BY DEF AutoOf, SalaryOf, Charge
<1>8. PaidIsPast'
  <2> SUFFICES ASSUME NEW p \in AutoPayments, NEW d \in Days, booked'[AutoOf(p, d)] > 0
               PROVE  d < due'[p]
    BY DEF PaidIsPast
  <2>1. due[p] \in Int /\ due'[p] \in Int /\ d \in Int /\ booked[AutoOf(p, d)] \in Nat
    BY <1>3, <1>7 DEF EInv, Typed, Days
  <2>2. CASE AutoOf(p, d) \in C
    <3>1. p \in DOMAIN run[w].seen /\ d = run[w].seen[p] /\ run[w].next[p] > d
      BY <2>2
    <3>2. run[w].next[p] \in Int
      BY <1>1, <3>1 DEF IsRun
    <3>3. due'[p] = run[w].next[p]
      BY <1>2, <2>1, <3>1, <3>2
    <3>4. QED
      BY <3>1, <3>3
  <2>3. CASE AutoOf(p, d) \notin C
    <3>1. booked[AutoOf(p, d)] > 0
      BY <1>2, <1>7, <2>1, <2>3
    <3>2. d < due[p]
      BY <3>1 DEF EInv, PaidIsPast
    <3>3. QED
      BY <1>3, <2>1, <3>2
  <2>4. QED
    BY <2>2, <2>3
<1>9. ChargedOnce'
  <2>1. \A c \in Charge : booked'[c] <= 1
    BY <1>2 DEF EInv, Typed, ChargedOnce
  <2>2. ASSUME NEW a \in Accounts, NEW b \in Accounts, NEW d \in Days,
               a # b, Owner[a] = Owner[b]
        PROVE  booked'[SalaryOf(a, d)] + booked'[SalaryOf(b, d)] <= 1
    <3>1. /\ SalaryOf(a, d) \in Charge /\ SalaryOf(b, d) \in Charge
          /\ booked[SalaryOf(a, d)] \in Nat /\ booked[SalaryOf(b, d)] \in Nat
          /\ booked[SalaryOf(a, d)] + booked[SalaryOf(b, d)] <= 1
      BY <1>7, <2>2 DEF EInv, Typed, ChargedOnce
    <3>2. SalaryOf(a, d) \in C => booked[SalaryOf(a, d)] = 0 /\ booked[SalaryOf(b, d)] = 0
                                  /\ SalaryOf(b, d) \notin C
      BY <2>2, <3>1
    <3>3. SalaryOf(b, d) \in C => booked[SalaryOf(a, d)] = 0 /\ booked[SalaryOf(b, d)] = 0
                                  /\ SalaryOf(a, d) \notin C
      BY <2>2, <3>1
    <3>4. /\ booked'[SalaryOf(a, d)]
               = booked[SalaryOf(a, d)] + IF SalaryOf(a, d) \in C THEN 1 ELSE 0
          /\ booked'[SalaryOf(b, d)]
               = booked[SalaryOf(b, d)] + IF SalaryOf(b, d) \in C THEN 1 ELSE 0
      BY <1>2, <3>1
    <3>5. QED
      BY <3>1, <3>2, <3>3, <3>4
  <2>3. QED
    BY <2>1, <2>2 DEF ChargedOnce
<1>10. QED
  BY <1>6, <1>8, <1>9 DEF EInv

LEMMA CommitItemsKeeps ==
    ASSUME EInv, NEW w \in Workers, CommitItems(w)
    PROVE  EInv'
<1>1. pc[w] # "idle" /\ Commit(w, run[w].copy, run[w].charges, "items")
  BY DEF CommitItems
<1>2. IsRun(run[w]) /\ IsCurrent(run[w], due)
  BY DEF EInv, Typed, RunsAreCurrent
<1>3. ASSUME NEW c \in run[w].charges \intersect Charge
      PROVE  booked[c] = 0
  <2>1. PICK p \in DOMAIN run[w].seen : c = AutoOf(p, run[w].seen[p])
    BY <1>2 DEF IsCurrent
  <2>2. p \in AutoPayments /\ run[w].seen[p] = due[p] /\ due[p] \in Int
    BY <1>2, <2>1 DEF IsRun, IsCurrent, EInv, Typed
  <2>3. run[w].seen[p] \in Days
    BY <2>1 DEF AutoOf, Charge
  <2>4. ~(booked[c] > 0)
    BY <2>1, <2>2, <2>3 DEF EInv, PaidIsPast
  <2>5. QED
    BY <2>4 DEF EInv, Typed
<1>4. ASSUME NEW p \in AutoPayments, NEW d \in Days, AutoOf(p, d) \in run[w].charges
      PROVE  p \in DOMAIN run[w].seen /\ d = run[w].seen[p] /\ run[w].next[p] > d
  <2>1. PICK q \in DOMAIN run[w].seen :
          AutoOf(p, d) = AutoOf(q, run[w].seen[q]) /\ run[w].next[q] > run[w].seen[q]
    BY <1>2, <1>4 DEF IsCurrent
  <2>2. p = q /\ d = run[w].seen[q]
    BY <2>1 DEF AutoOf
  <2>3. QED
    BY <2>1, <2>2
<1>5. \A a \in Accounts : \A d \in Days : SalaryOf(a, d) \notin run[w].charges
  BY <1>2 DEF IsCurrent, SalaryOf, AutoOf
<1>6. QED
  BY <1>1, <1>3, <1>4, <1>5, CommitKeeps

LEMMA ChargeFeesKeeps ==
    ASSUME EInv, NEW w \in Workers, ChargeFees(w)
    PROVE  EInv'
<1> DEFINE d0 == run[w].date
           Owing == {a \in Held(w) : OwesFee(a, d0) /\ Covers(account[a].balance, Fee[a])}
<1>1. PICK S \in SUBSET Owing :
        Commit(w, [a \in Accounts |-> account[a].balance - IF a \in S THEN Fee[a] ELSE 0],
               {FeeOf(a, d0) : a \in S}, "fees")
  BY DEF ChargeFees
<1> DEFINE B == [a \in Accounts |-> account[a].balance - IF a \in S THEN Fee[a] ELSE 0]
           C == {FeeOf(a, d0) : a \in S}
<1>2. pc[w] # "idle" /\ Commit(w, B, C, "fees")
  BY <1>1 DEF ChargeFees
<1>3. \A c \in C : booked[c] = 0
  BY DEF OwesFee
<1>4. \A p \in AutoPayments : \A d \in Days : AutoOf(p, d) \notin C
  BY DEF FeeOf, AutoOf
<1>5. \A a \in Accounts : \A d \in Days : SalaryOf(a, d) \notin C
  BY DEF FeeOf, SalaryOf
<1> HIDE DEF B, C
<1>6. QED
  BY <1>2, <1>3, <1>4, <1>5, CommitKeeps

LEMMA PaySalariesKeeps ==
    ASSUME EInv, NEW w \in Workers, PaySalaries(w)
    PROVE  EInv'
<1> DEFINE d0 == run[w].date
<1>1. PICK S \in SUBSET {a \in Held(w) : Earns(a, d0)} :
        /\ \A a, b \in S : Owner[a] = Owner[b] => a = b
        /\ Commit(w, [a \in Accounts |-> account[a].balance + IF a \in S THEN Salary ELSE 0],
                  {SalaryOf(a, d0) : a \in S}, "salaries")
  BY DEF PaySalaries
<1> DEFINE B == [a \in Accounts |-> account[a].balance + IF a \in S THEN Salary ELSE 0]
           C == {SalaryOf(a, d0) : a \in S}
<1>2. pc[w] # "idle" /\ Commit(w, B, C, "salaries")
  BY <1>1 DEF PaySalaries
<1>3. S \subseteq Accounts
        /\ \A a \in S : \A b \in Accounts : Owner[b] = Owner[a] => booked[SalaryOf(b, d0)] = 0
  BY DEF Earns, Held
<1>4. \A c \in C : booked[c] = 0
  BY <1>3
<1>5. \A p \in AutoPayments : \A d \in Days : AutoOf(p, d) \notin C
  BY DEF SalaryOf, AutoOf
<1>6. ASSUME NEW a \in Accounts, NEW b \in Accounts, NEW d \in Days,
             a # b, Owner[a] = Owner[b], SalaryOf(a, d) \in C
      PROVE  SalaryOf(b, d) \notin C /\ booked[SalaryOf(b, d)] = 0
  <2>1. a \in S /\ d = d0
    BY <1>6 DEF SalaryOf
  <2>2. booked[SalaryOf(b, d)] = 0
    BY <1>3, <1>6, <2>1
  <2>3. SalaryOf(b, d) \in C => b \in S
    BY DEF SalaryOf
  <2>4. QED
    BY <1>1, <1>6, <2>1, <2>2, <2>3
<1> HIDE DEF B, C
<1>7. QED
  BY <1>2, <1>4, <1>5, <1>6, CommitKeeps

-----------------------------------------------------------------------------
(* The end of a run, and what goes on beside it. *)

LEMMA EndKeeps ==
    ASSUME EodAssumption, EInv, NEW w \in Workers, AbortRun(w) \/ Unlock(w) \/ Die(w)
    PROVE  EInv'
<1>1. /\ due' = due /\ booked' = booked /\ pc' = [pc EXCEPT ![w] = "idle"]
      /\ run' = run \/ run' = [run EXCEPT ![w] = NoRun(run[w].date)]
      /\ run' = run => pc[w] \notin {"items", "item"} \/ Die(w)
  BY DEF AbortRun, Unlock, Die, bankTables, EInv, Typed
<1>2. \A v \in Workers : run'[v] = IF v = w /\ run' # run THEN NoRun(run[w].date) ELSE run[v]
  BY <1>1 DEF EInv, Typed
<1>3. \A v \in Workers : IsRun(run'[v]) /\ IsCurrent(run'[v], due')
  BY <1>1, <1>2, EmptyRun DEF EInv, Typed, RunsAreCurrent
<1>4. DOMAIN run'[w].seen = {}
  <2>1. CASE AbortRun(w) \/ Unlock(w)
    BY <1>2, <2>1, EmptyRun DEF EInv, RunsAreCurrent, AbortRun, Unlock
  <2>2. CASE Die(w)
    <3>1. run' = [run EXCEPT ![w] = NoRun(run[w].date)]
      BY <2>2 DEF Die
    <3>2. run'[w] = NoRun(run[w].date)
      BY <3>1 DEF EInv, Typed
    <3>3. QED
      BY <3>2, EmptyRun
  <2>3. QED
    BY <2>1, <2>2
<1>5. Typed'
  <2>1. run' \in [Workers -> {run'[v] : v \in Workers}]
    BY <1>1 DEF EInv, Typed
  <2>2. pc' \in [Workers \union Transfers -> Steps]
    BY <1>1 DEF EInv, Typed, Steps
  <2>3. advisory' \in Workers \union {Nobody} /\ leaked' \in [Workers -> BOOLEAN]
    BY DEF EInv, Typed, AbortRun, Unlock, Die
  <2>4. QED
    BY <1>1, <1>3, <2>1, <2>2, <2>3 DEF EInv, Typed, IsRun
<1>6. OneRuns'
  <2>1. CASE AbortRun(w)
    BY <1>1, <2>1 DEF EInv, Typed, OneRuns, AbortRun
  <2>2. CASE Unlock(w)
    BY <1>1, <2>2 DEF EInv, Typed, OneRuns, Unlock
  <2>3. CASE Die(w)
    BY <1>1, <2>3 DEF EInv, Typed, OneRuns, Die
  <2>4. QED
    BY <2>1, <2>2, <2>3
<1>7. RunsAreCurrent'
  <2>1. ASSUME NEW v \in Workers
        PROVE  /\ pc'[v] \notin {"items", "item"} => DOMAIN run'[v].seen = {}
               /\ pc'[v] = "item" => run'[v].item \in DOMAIN run'[v].seen
    BY <1>1, <1>2, <1>4 DEF EInv, Typed, RunsAreCurrent
  <2>2. QED
    BY <1>3, <2>1 DEF RunsAreCurrent, IsCurrent
<1>8. PaidIsPast' /\ ChargedOnce'
  BY <1>1 DEF EInv, PaidIsPast, ChargedOnce
<1>9. QED
  BY <1>5, <1>6, <1>7, <1>8 DEF EInv

LEMMA TransferKeeps ==
    ASSUME EodAssumption, EInv, NEW t \in Transfers, BeginTransfer(t) \/ TransferStep(t)
    PROVE  EInv'
<1>1. /\ due' = due /\ booked' = booked /\ run' = run /\ advisory' = advisory
      /\ leaked' = leaked
      /\ \E step \in {"first", "second", "ended"} : pc' = [pc EXCEPT ![t] = step]
  BY DEF BeginTransfer, TransferStep, LockFirst, LockSecondAndPay, AbortTransfer, bankTables
<1>2. t \notin Workers
  BY DEF EodAssumption
<1>3. pc' \in [Workers \union Transfers -> Steps] /\ \A w \in Workers : pc'[w] = pc[w]
  BY <1>1, <1>2 DEF EInv, Typed, Steps
<1>4. Typed'
  BY <1>1, <1>3 DEF EInv, Typed, IsRun
<1>5. OneRuns' /\ PaidIsPast' /\ ChargedOnce'
  BY <1>1, <1>3 DEF EInv, OneRuns, PaidIsPast, ChargedOnce
<1>6. RunsAreCurrent'
  BY <1>1, <1>3 DEF EInv, RunsAreCurrent, IsCurrent
<1>7. QED
  BY <1>4, <1>5, <1>6 DEF EInv

LEMMA CreateAutopaymentKeeps ==
    ASSUME EodAssumption, EInv, NEW p \in AutoPayments, CreateAutopayment(p)
    PROVE  EInv'
<1>1. /\ due[p] = 0 /\ due' = [due EXCEPT ![p] = Plan[p].first] /\ Plan[p].first \in Nat \ {0}
      /\ booked' = booked /\ pc' = pc /\ run' = run /\ advisory' = advisory /\ leaked' = leaked
  BY DEF CreateAutopayment, EodAssumption
<1>2. due' \in [AutoPayments -> Int] /\ \A q \in AutoPayments : q # p => due'[q] = due[q]
  BY <1>1 DEF EInv, Typed
<1>3. Typed' /\ OneRuns' /\ ChargedOnce'
  BY <1>1, <1>2 DEF EInv, Typed, IsRun, OneRuns, ChargedOnce
<1>4. PaidIsPast'
  \* Nothing was charged for an autopayment that did not exist.
  <2>1. \A d \in Days : ~(booked[AutoOf(p, d)] > 0)
    BY <1>1 DEF EInv, PaidIsPast, Days
  <2>2. QED
    BY <1>1, <1>2, <2>1 DEF EInv, PaidIsPast
<1>5. RunsAreCurrent'
  <2>1. ASSUME NEW w \in Workers
        PROVE  IsCurrent(run[w], due')
    <3>1. IsCurrent(run[w], due) /\ IsRun(run[w])
      BY DEF EInv, Typed, RunsAreCurrent
    <3>2. \A q \in DOMAIN run[w].seen : q \in AutoPayments /\ q # p
      BY <1>1, <3>1 DEF IsCurrent, IsRun
    <3>3. QED
      BY <1>2, <3>1, <3>2 DEF IsCurrent
  <2>2. QED
    BY <1>1, <2>1 DEF EInv, RunsAreCurrent, IsCurrent
<1>6. QED
  BY <1>3, <1>4, <1>5 DEF EInv

-----------------------------------------------------------------------------
LEMMA BankNextKeeps == EodAssumption /\ EInv /\ BankNext => EInv'
<1> SUFFICES ASSUME EodAssumption, EInv, BankNext PROVE EInv'
  OBVIOUS
<1>1. ASSUME NEW w \in Workers, Start(w) \/ RunStep(w) \/ Die(w)
      PROVE  EInv'
  <2>1. CASE Start(w)
    BY <2>1, StartKeeps
  <2>2. CASE TakeItem(w) \/ PayItem(w) \/ SkipItem(w)
    BY <2>2, TakeItemKeeps, PayItemKeeps, SkipItemKeeps
  <2>3. CASE CommitItems(w) \/ ChargeFees(w) \/ PaySalaries(w)
    BY <2>3, CommitItemsKeeps, ChargeFeesKeeps, PaySalariesKeeps
  <2>4. CASE AskRow(w) \/ LockRow(w)
    <3>1. UNCHANGED eodVars
      BY <2>4 DEF AskRow, LockRow, bankTables, eodVars
    <3>2. QED
      BY <3>1, Unchanged
  <2>5. CASE AbortRun(w) \/ Unlock(w) \/ Die(w)
    BY <2>5, EndKeeps
  <2>6. QED
    BY <1>1, <2>1, <2>2, <2>3, <2>4, <2>5 DEF RunStep
<1>2. ASSUME NEW t \in Transfers, BeginTransfer(t) \/ TransferStep(t)
      PROVE  EInv'
  BY <1>2, TransferKeeps
<1>3. ASSUME NEW a \in Accounts, CloseAccount(a)
      PROVE  EInv'
  <2>1. UNCHANGED eodVars
    BY <1>3 DEF CloseAccount, eodVars
  <2>2. QED
    BY <2>1, Unchanged
<1>4. ASSUME NEW p \in AutoPayments, CreateAutopayment(p)
      PROVE  EInv'
  BY <1>4, CreateAutopaymentKeeps
<1>5. CASE NextDay
  <2>1. UNCHANGED eodVars
    BY <1>5 DEF NextDay, bankTables, eodVars
  <2>2. QED
    BY <2>1, Unchanged
<1>6. QED
  BY <1>1, <1>2, <1>3, <1>4, <1>5 DEF BankNext

\* The investments' worker and its clients touch accounts and row locks only.
LEMMA InvestNextKeeps ==
    ASSUME \/ \E i \in InvestWorkers : StartInvest(i) \/ InvestStep(i) \/ DieInvest(i)
           \/ \E c \in Closers : CloseProduct(c) \/ PayOut(c)
           \/ \E x \in Brokers : SetStrategy(x)
    PROVE  UNCHANGED eodVars
  BY DEF StartInvest, InvestStep, DieInvest, CloseProduct, PayOut, SetStrategy, PaySavings,
         TakeDeposit, AskAccount, LockAccount, ReturnDeposit, FailReturn, CommitDeposits,
         PayBrokers, UnlockInvest, bankVars, bankTables, bankButWaits, bankButAccounts, eodVars

LEMMA NextKeepsEInv == EodAssumption /\ EInv /\ [Next]_vars => EInv'
<1> SUFFICES ASSUME EodAssumption, EInv, [Next]_vars PROVE EInv'
  OBVIOUS
<1>1. CASE UNCHANGED vars
  <2>1. UNCHANGED eodVars
    BY <1>1 DEF vars, bankVars, bankTables, eodVars
  <2>2. QED
    BY <2>1, Unchanged
<1>2. CASE BankNext
  BY <1>2, BankNextKeeps
<1>3. CASE \/ \E i \in InvestWorkers : StartInvest(i) \/ InvestStep(i) \/ DieInvest(i)
           \/ \E c \in Closers : CloseProduct(c) \/ PayOut(c)
           \/ \E x \in Brokers : SetStrategy(x)
  BY <1>3, InvestNextKeeps, Unchanged
<1>4. QED
  BY <1>1, <1>2, <1>3 DEF Next

\* The inductive invariant: one replica runs, what it has read is current, and a date that was
\* charged lies behind the next payment date.
THEOREM Invariant == Spec => []EInv
  BY EodAssumption, InitEInv, NextKeepsEInv, PTL DEF Spec

\* Whatever the replicas, repeated runs, deaths and deadlocks of the bank's worker: a due date
\* of an autopayment is paid once, a fee is taken once a day, and a client gets one salary a day.
THEOREM NobodyIsChargedTwice == Spec => []ChargedOnce
<1>1. EInv => ChargedOnce
  BY DEF EInv
<1>2. QED
  BY <1>1, Invariant, PTL

-----------------------------------------------------------------------------
(* The run of the investments. *)

InvestSteps == {"idle", "savings", "deposits", "return", "brokers", "unlock", "took", "ended"}

\* A product has the columns the run uses.
IsRow(r) ==
    /\ r = [status |-> r.status, balance |-> r.balance, date |-> r.date, strategy |-> r.strategy]
    /\ r.status \in {"active", "closed"} /\ r.date \in Nat

\* A run has the fields of InvestRun, and a copy of each deposit it holds.
IsInvestRun(r) ==
    /\ r = [date |-> r.date, held |-> r.held, todo |-> r.todo, item |-> r.item, copy |-> r.copy]
    /\ r.held \subseteq Deposits /\ r.todo \subseteq r.held
    /\ r.copy \in [r.held -> {r.copy[x] : x \in r.held}]
    /\ \A x \in r.held : IsRow(r.copy[x])

InvestTyped ==
    /\ product \in [Products -> {product[x] : x \in Products}]
    /\ \A x \in Products : IsRow(product[x])
    /\ accrued \in [Products -> [Days -> Nat]]
    /\ returned \in [Deposits -> [Accounts -> Nat]]
    /\ gave \in [Savings \union Deposits -> Nat]
    /\ ipc \in [InvestWorkers \union Closers -> InvestSteps]
    /\ irun \in [InvestWorkers -> {irun[i] : i \in InvestWorkers}]
    /\ \A i \in InvestWorkers : IsInvestRun(irun[i])
    /\ day \in Nat

\* The second advisory lock belongs to the one replica that runs.
OneInvestRuns == \A i \in InvestWorkers : ipc[i] # "idle" => iadvisory = i

Untouched(x) == gave[x] = 0 /\ \A a \in Accounts : returned[x][a] = 0
TakenBy(c, x) == ipc[c] = "took" /\ ClosesInto[c].product = x

\* What a run knows of a deposit it holds: it is active, the copy has been given the interest
\* of one date, and the copy is closed only when the bank has paid.
CopyFits(r, x) ==
    /\ product[x].status = "active"
    /\ x \in r.todo => r.copy[x].status = "active" /\ r.copy[x].date = product[x].date
    /\ x \notin r.todo =>
          \/ r.copy[x].date = product[x].date + Month /\ day < Matures[x]
          \/ r.copy[x].date = product[x].date /\ day >= Matures[x]
    /\ r.copy[x].status = "closed" => \E a \in Accounts : returned[x][a] > 0
    /\ r.copy[x].status = "active" /\ x \notin torn => Untouched(x)

HoldsFit ==
    \A i \in InvestWorkers :
        /\ ipc[i] # "idle" => irun[i].date = day
        /\ ipc[i] \notin {"deposits", "return"} => irun[i].held = {}
        /\ ipc[i] = "return" =>
             /\ irun[i].item \in irun[i].held \ irun[i].todo
             /\ irun[i].copy[irun[i].item].status = "active"
        /\ \A x \in irun[i].held : CopyFits(irun[i], x)

\* A product that a client's closing has taken is closed, and taken by no other.
ClosingsFit ==
    \A c \in Closers : \A x \in Savings \union Deposits : TakenBy(c, x) =>
        /\ product[x].status = "closed"
        /\ \A e \in Closers : TakenBy(e, x) => e = c

\* A deposit that is active was not paid out, unless a run is about to close it or died before
\* it did; one that is closed was, or is about to be.
PaymentsFit ==
    \A x \in Deposits :
        /\ x \notin torn =>
             /\ product[x].status = "active" => gave[x] = 0
             /\ product[x].status = "active" /\ (\A i \in InvestWorkers : x \notin irun[i].held)
                  => Untouched(x)
             /\ \A c \in Closers : TakenBy(c, x) => Untouched(x)
             /\ gave[x] <= 1
             /\ gave[x] = 1 => \A a \in Accounts : returned[x][a] = 0
             /\ \A a, b \in Accounts : returned[x][a] > 0 /\ returned[x][b] > 0 => a = b
        /\ \A a \in Accounts : returned[x][a] <= 1
        /\ product[x].status = "closed" =>
              ~Untouched(x) \/ \E c \in Closers : TakenBy(c, x)

\* Interest of a date is added when the date moves on; it stays where it is for a matured deposit.
InterestFits ==
    \A x \in Products : \A d \in Days :
        \/ accrued[x][d] = 0
        \/ accrued[x][d] = 1 /\ d < product[x].date
        \/ x \in Deposits /\ d = product[x].date /\ day >= Matures[x]

InvestInv ==
    InvestTyped /\ OneInvestRuns /\ HoldsFit /\ ClosingsFit /\ PaymentsFit /\ InterestFits

-----------------------------------------------------------------------------
\* Rows with some columns replaced.
LEMMA RowOf ==
    ASSUME NEW s \in {"active", "closed"}, NEW b, NEW d \in Nat, NEW g
    PROVE  LET r == [status |-> s, balance |-> b, date |-> d, strategy |-> g]
           IN  IsRow(r) /\ r.status = s
  BY DEF IsRow

LEMMA RowBalance ==
    ASSUME NEW r, IsRow(r), NEW b
    PROVE  /\ IsRow([r EXCEPT !.balance = b])
           /\ [r EXCEPT !.balance = b].status = r.status
           /\ [r EXCEPT !.balance = b].date = r.date
<1>1. [r EXCEPT !.balance = b] =
        [status |-> r.status, balance |-> b, date |-> r.date, strategy |-> r.strategy]
  BY DEF IsRow
<1>2. QED
  BY <1>1 DEF IsRow

LEMMA RowClosed ==
    ASSUME NEW r, IsRow(r)
    PROVE  IsRow(Closed(r)) /\ Closed(r).status = "closed" /\ Closed(r).date = r.date
<1> DEFINE m == [r EXCEPT !.balance = 0]
<1>1. m = [status |-> r.status, balance |-> 0, date |-> r.date, strategy |-> r.strategy]
  BY DEF IsRow
<1>2. Closed(r) = [m EXCEPT !.status = "closed"]
  BY DEF Closed
<1> HIDE DEF m
<1>3. Closed(r) = [status |-> "closed", balance |-> 0, date |-> r.date, strategy |-> r.strategy]
  BY <1>1, <1>2
<1>4. QED
  BY <1>3, RowOf DEF IsRow

LEMMA RowRestored ==
    ASSUME NEW r, IsRow(r), NEW n
    PROVE  /\ IsRow(Restored(r, n)) /\ Restored(r, n).status = "active"
           /\ Restored(r, n).date = r.date
<1> DEFINE m == [r EXCEPT !.balance = n]
<1>1. m = [status |-> r.status, balance |-> n, date |-> r.date, strategy |-> r.strategy]
  BY DEF IsRow
<1>2. Restored(r, n) = [m EXCEPT !.status = "active"]
  BY DEF Restored
<1> HIDE DEF m
<1>3. Restored(r, n) =
        [status |-> "active", balance |-> n, date |-> r.date, strategy |-> r.strategy]
  BY <1>1, <1>2
<1>4. QED
  BY <1>3, RowOf DEF IsRow

LEMMA RowToggled ==
    ASSUME NEW r, IsRow(r)
    PROVE  IsRow(Toggled(r)) /\ Toggled(r).status = r.status /\ Toggled(r).date = r.date
<1>1. ASSUME NEW b
      PROVE  [r EXCEPT !.strategy = b] =
               [status |-> r.status, balance |-> r.balance, date |-> r.date, strategy |-> b]
  BY DEF IsRow
<1>2. PICK b : b = ~r.strategy
  OBVIOUS
<1>3. Toggled(r) = [r EXCEPT !.strategy = b]
  BY Zenon, <1>2 DEF Toggled
<1>4. QED
  BY <1>1, <1>3 DEF IsRow

LEMMA RowEarned ==
    ASSUME NEW r, IsRow(r), NEW n
    PROVE  IsRow(Earned(r, n)) /\ Earned(r, n).status = r.status /\ Earned(r, n).date = r.date
  BY RowBalance DEF Earned

LEMMA RowPaidUp ==
    ASSUME InvestAssumption, NEW r, IsRow(r)
    PROVE  IsRow(PaidUp(r)) /\ PaidUp(r).status = r.status /\ PaidUp(r).date = r.date + Month
<1>1. PaidUp(r) = [status |-> r.status, balance |-> r.balance, date |-> r.date + Month,
                   strategy |-> r.strategy]
  BY DEF IsRow, PaidUp
<1>2. r.date + Month \in Nat
  BY DEF IsRow, InvestAssumption
<1>3. QED
  BY <1>1, <1>2 DEF IsRow

LEMMA RowEarnedAndPaidUp ==
    ASSUME InvestAssumption, NEW r, IsRow(r), NEW n
    PROVE  LET q == PaidUp(Earned(r, n))
           IN  IsRow(q) /\ q.status = r.status /\ q.date = r.date + Month
<1>1. IsRow(Earned(r, n)) /\ Earned(r, n).status = r.status /\ Earned(r, n).date = r.date
  BY RowEarned
<1>2. QED
  BY <1>1, RowPaidUp

\* A run that holds no deposit.
LEMMA EmptyInvestRun ==
    ASSUME NEW d
    PROVE  IsInvestRun(NoInvestRun(d)) /\ NoInvestRun(d).held = {} /\ NoInvestRun(d).date = d
<1> DEFINE r == NoInvestRun(d)
<1>1. r = [date |-> d, held |-> {}, todo |-> {}, item |-> NoRow,
           copy |-> [x \in {} |-> product[x]]]
  BY DEF NoInvestRun, InvestRun
<1> HIDE DEF r
<1>2. IsInvestRun(r) /\ r.held = {} /\ r.date = d
  BY <1>1 DEF IsInvestRun
<1>3. QED
  BY <1>2 DEF r

LEMMA InitInvestInv == EodAssumption /\ InvestAssumption /\ Init => InvestInv
<1> SUFFICES ASSUME EodAssumption, InvestAssumption, Init PROVE InvestInv
  OBVIOUS
<1>1. \A x \in Products :
        product[x] = [status |-> "active", balance |-> Stake[x], date |-> FirstDate[x],
                      strategy |-> FALSE]
  BY DEF Init
<1>2. \A x \in Products : IsRow(product[x]) /\ product[x].status = "active"
  <2> SUFFICES ASSUME NEW x \in Products
               PROVE  IsRow(product[x]) /\ product[x].status = "active"
    OBVIOUS
  <2>1. FirstDate[x] \in Nat
    BY DEF InvestAssumption
  <2> DEFINE r == [status |-> "active", balance |-> Stake[x], date |-> FirstDate[x],
                   strategy |-> FALSE]
  <2>2. IsRow(r) /\ r.status = "active"
    BY <2>1, RowOf
  <2>3. product[x] = r
    BY Zenon, <1>1
  <2>4. QED
    BY Zenon, <2>2, <2>3
<1>3. \A i \in InvestWorkers : irun[i] = NoInvestRun(0)
  BY DEF Init
<1>4. \A i \in InvestWorkers : IsInvestRun(irun[i]) /\ irun[i].held = {}
  BY <1>3, EmptyInvestRun
<1>5. \A i \in InvestWorkers \union Closers : ipc[i] = "idle"
  BY DEF Init
<1>6. InvestTyped
  BY <1>2, <1>4 DEF Init, BankInit, InvestTyped, InvestSteps
<1>7. OneInvestRuns /\ HoldsFit
  BY <1>4, <1>5 DEF OneInvestRuns, HoldsFit
<1>8. ClosingsFit /\ InterestFits
  BY <1>5 DEF Init, ClosingsFit, TakenBy, InterestFits
<1>9. \A x \in Deposits : Untouched(x) /\ product[x].status = "active"
  BY <1>2 DEF Init, Untouched, Products
<1>10. PaymentsFit
  <2>1. \A x \in Deposits : gave[x] = 0 /\ \A a \in Accounts : returned[x][a] = 0
    BY <1>9 DEF Untouched
  <2>2. \A c \in Closers : \A x : ~TakenBy(c, x)
    BY <1>5 DEF TakenBy
  <2>3. \A x \in Deposits :
          /\ gave[x] <= 1 /\ gave[x] # 1
          /\ \A a \in Accounts : ~(returned[x][a] > 0) /\ returned[x][a] <= 1
    BY <2>1
  <2>4. \A x \in Deposits : product[x].status # "closed"
    BY <1>9
  <2>5. QED
    BY <1>9, <2>1, <2>2, <2>3, <2>4 DEF PaymentsFit
<1>11. QED
  BY <1>6, <1>7, <1>8, <1>10 DEF InvestInv

\* If i runs, no other replica does: its run holds nothing.
LEMMA OtherRunsIdle ==
    ASSUME InvestInv, NEW i \in InvestWorkers, ipc[i] # "idle"
    PROVE  iadvisory = i /\ \A v \in InvestWorkers \ {i} : ipc[v] = "idle" /\ irun[v].held = {}
  BY DEF InvestInv, OneInvestRuns, HoldsFit

\* The run of i goes on to another step.
LEMMA InvestMovesOn ==
    ASSUME InvestAssumption, InvestInv, NEW i \in InvestWorkers, ipc[i] # "idle",
           NEW r, IsInvestRun(r), NEW step \in InvestSteps,
           irun' = [irun EXCEPT ![i] = r], ipc' = [ipc EXCEPT ![i] = step],
           step # "idle" => iadvisory' = iadvisory
    PROVE  /\ irun' \in [InvestWorkers -> {irun'[v] : v \in InvestWorkers}]
           /\ \A v \in InvestWorkers : IsInvestRun(irun'[v])
           /\ ipc' \in [InvestWorkers \union Closers -> InvestSteps]
           /\ irun'[i] = r /\ ipc'[i] = step
           /\ \A v \in InvestWorkers \ {i} : ipc'[v] = "idle" /\ irun'[v].held = {}
           /\ \A c \in Closers : ipc'[c] = ipc[c]
           /\ OneInvestRuns'
<1>1. \A v \in InvestWorkers : irun'[v] = IF v = i THEN r ELSE irun[v]
  BY DEF InvestInv, InvestTyped
<1>2. \A v \in InvestWorkers \union Closers : ipc'[v] = IF v = i THEN step ELSE ipc[v]
  BY DEF InvestInv, InvestTyped
<1>3. irun' \in [InvestWorkers -> {irun'[v] : v \in InvestWorkers}]
  BY DEF InvestInv, InvestTyped
<1>4. \A v \in InvestWorkers : IsInvestRun(irun'[v])
  BY <1>1 DEF InvestInv, InvestTyped
<1>5. ipc' \in [InvestWorkers \union Closers -> InvestSteps]
  BY DEF InvestInv, InvestTyped
<1>6. \A c \in Closers : ipc'[c] = ipc[c]
  BY <1>2 DEF InvestAssumption
<1>7. \A v \in InvestWorkers \ {i} : ipc'[v] = "idle" /\ irun'[v].held = {}
  BY <1>1, <1>2, OtherRunsIdle
<1>8. OneInvestRuns'
  BY <1>2, <1>7, OtherRunsIdle DEF OneInvestRuns
<1>9. QED
  BY <1>1, <1>2, <1>3, <1>4, <1>5, <1>6, <1>7, <1>8

\* The tables that payments are about stay, and no hold is dropped.
LEMMA PaymentsStay ==
    ASSUME InvestInv, gave' = gave, returned' = returned, torn' = torn,
           \A c \in Closers : ipc'[c] = ipc[c],
           \A x \in Savings \union Deposits : product'[x].status = product[x].status,
           \A x \in Deposits : (\A v \in InvestWorkers : x \notin irun'[v].held)
                                 => \A v \in InvestWorkers : x \notin irun[v].held
    PROVE  ClosingsFit' /\ PaymentsFit'
<1>1. /\ \A x : Untouched(x)' <=> Untouched(x)
      /\ \A c \in Closers : \A x : TakenBy(c, x)' <=> TakenBy(c, x)
  BY DEF Untouched, TakenBy
<1>2. ClosingsFit'
  BY <1>1 DEF InvestInv, ClosingsFit
<1>3. PaymentsFit'
  BY <1>1 DEF InvestInv, PaymentsFit
<1>4. QED
  BY <1>2, <1>3

LEMMA InterestStays ==
    ASSUME InvestInv, accrued' = accrued, day' = day,
           \A x \in Products : product'[x].date = product[x].date
    PROVE  InterestFits'
  BY DEF InvestInv, InterestFits

\* The interest of a date comes with the next date, or for a matured deposit.
LEMMA InterestAdded ==
    ASSUME InvestAssumption, InvestInv, NEW S, accrued' = Interests(S), day' = day,
           \A x \in Products : IsRow(product'[x]),
           \A x \in Products \ S : product'[x].date = product[x].date
                                     \/ (x \notin Deposits /\ product'[x].date = product[x].date + Month),
           \A x \in Products \intersect S :
              \/ /\ product'[x].date = product[x].date + Month
                 /\ x \in Deposits => day < Matures[x]
              \/ x \in Deposits /\ product'[x].date = product[x].date /\ day >= Matures[x]
    PROVE  InterestFits' /\ accrued' \in [Products -> [Days -> Nat]]
<1>1. ASSUME NEW x \in Products, NEW d \in Days
      PROVE  accrued'[x][d] = accrued[x][d] + IF x \in S /\ product[x].date = d THEN 1 ELSE 0
  BY DEF Interests
<1>2. /\ \A x \in Products : \A d \in Days : accrued[x][d] \in Nat
      /\ \A x \in Products : product[x].date \in Nat /\ product'[x].date \in Nat
      /\ Month \in Nat /\ Month > 0 /\ day \in Nat /\ \A x \in Deposits : Matures[x] \in Nat
  <2>1. \A x \in Products : product[x].date \in Nat /\ product'[x].date \in Nat
    BY DEF InvestInv, InvestTyped, IsRow
  <2>3. day \in Nat /\ accrued \in [Products -> [Days -> Nat]]
    BY DEF InvestInv, InvestTyped
  <2>2. Month \in Nat /\ Month > 0 /\ \A x \in Deposits : Matures[x] \in Nat
    BY DEF InvestAssumption
  <2>4. QED
    BY <2>1, <2>2, <2>3
<1>3. accrued' \in [Products -> [Days -> Nat]]
  BY <1>2 DEF Interests
<1>4. ASSUME NEW x \in Products, NEW d \in Days
      PROVE  \/ accrued'[x][d] = 0
             \/ accrued'[x][d] = 1 /\ d < product'[x].date
             \/ x \in Deposits /\ d = product'[x].date /\ day' >= Matures[x]
  <2>1. \/ accrued[x][d] = 0
        \/ accrued[x][d] = 1 /\ d < product[x].date
        \/ x \in Deposits /\ d = product[x].date /\ day >= Matures[x]
    BY DEF InvestInv, InterestFits
  <2>2. d \in Int
    BY DEF Days
  <2>3. CASE x \in S
    BY <1>1, <1>2, <2>1, <2>2, <2>3
  <2>4. CASE x \notin S
    BY <1>1, <1>2, <2>1, <2>2, <2>4
  <2>5. QED
    BY <2>3, <2>4
<1>5. QED
  BY <1>3, <1>4 DEF InterestFits

-----------------------------------------------------------------------------
LEMMA StartInvestKeeps ==
    ASSUME EodAssumption, InvestAssumption, InvestInv, NEW i \in InvestWorkers, StartInvest(i)
    PROVE  InvestInv'
<1> DEFINE r == NoInvestRun(day)
           free == iadvisory \in {Nobody, i}
<1>1. /\ irun' = [irun EXCEPT ![i] = r] /\ ipc[i] = "idle" /\ irun[i].held = {}
      /\ ipc' = [ipc EXCEPT ![i] = IF free THEN "savings" ELSE "idle"]
      /\ iadvisory' = IF free THEN i ELSE iadvisory
      /\ product' = product /\ accrued' = accrued /\ returned' = returned /\ gave' = gave
      /\ torn' = torn /\ day' = day
  BY DEF StartInvest, bankVars, InvestInv, HoldsFit
<1>2. IsInvestRun(r) /\ r.held = {} /\ r.date = day
  BY EmptyInvestRun
<1> HIDE DEF r
<1>3. \A v \in InvestWorkers : irun'[v] = IF v = i THEN r ELSE irun[v]
  BY <1>1 DEF InvestInv, InvestTyped
<1>4. \A v \in InvestWorkers \union Closers :
        ipc'[v] = IF v = i THEN (IF free THEN "savings" ELSE "idle") ELSE ipc[v]
  BY <1>1 DEF InvestInv, InvestTyped
<1>5. InvestTyped'
  <2>1. ipc' \in [InvestWorkers \union Closers -> InvestSteps]
    BY <1>1 DEF InvestInv, InvestTyped, InvestSteps
  <2>2. \A v \in InvestWorkers : IsInvestRun(irun'[v])
    BY <1>2, <1>3 DEF InvestInv, InvestTyped
  <2>3. irun' \in [InvestWorkers -> {irun'[v] : v \in InvestWorkers}]
    BY <1>1 DEF InvestInv, InvestTyped
  <2>4. QED
    BY <1>1, <2>1, <2>2, <2>3 DEF InvestInv, InvestTyped
<1>6. OneInvestRuns'
  <2>1. \A v \in InvestWorkers : v # Nobody
    BY DEF EodAssumption, InvestAssumption, Lockers
  <2>2. QED
    BY <1>1, <1>4, <2>1 DEF InvestInv, OneInvestRuns
<1>7. HoldsFit'
  <2>1. ASSUME NEW v \in InvestWorkers, v # i
        PROVE  irun'[v] = irun[v] /\ ipc'[v] = ipc[v]
    BY <1>3, <1>4, <2>1
  <2>2. ASSUME NEW v \in InvestWorkers, v # i, NEW x \in irun[v].held
        PROVE  CopyFits(irun[v], x)'
    BY <1>1, <2>1, <2>2 DEF InvestInv, HoldsFit, CopyFits, Untouched
  <2>3. irun'[i] = r /\ ipc'[i] \in {"savings", "idle"}
    BY <1>3, <1>4
  <2>4. QED
    BY <1>1, <1>2, <2>1, <2>2, <2>3 DEF InvestInv, HoldsFit
<1>8. ClosingsFit' /\ PaymentsFit'
  <2>1. \A c \in Closers : ipc'[c] = ipc[c]
    BY <1>4 DEF InvestAssumption
  <2>2. QED
    BY <1>1, <1>2, <1>3, <2>1, PaymentsStay
<1>9. InterestFits'
  BY <1>1, InterestStays
<1>10. QED
  BY <1>5, <1>6, <1>7, <1>8, <1>9 DEF InvestInv

LEMMA PaySavingsKeeps ==
    ASSUME EodAssumption, InvestAssumption, InvestInv, NEW i \in InvestWorkers, PaySavings(i)
    PROVE  InvestInv'
<1> DEFINE D == DueRows(i, Deposits)
           r == InvestRun(irun[i].date, D)
<1>1. PICK S \in SUBSET DueRows(i, Savings) :
        /\ product' = [x \in Products |->
                         IF x \in S THEN PaidUp(Earned(product[x], Interest))
                                    ELSE product[x]]
        /\ accrued' = Interests(S)
  BY DEF PaySavings
<1>2. /\ ipc[i] = "savings" /\ irun[i].date = day /\ irun[i].held = {}
      /\ irun' = [irun EXCEPT ![i] = r] /\ ipc' = [ipc EXCEPT ![i] = "deposits"]
      /\ "deposits" \in InvestSteps
      /\ iadvisory' = iadvisory /\ day' = day /\ gave' = gave /\ returned' = returned
      /\ torn' = torn
  BY DEF PaySavings, bankVars, InvestSteps, InvestInv, HoldsFit, InvestTyped
<1>3. /\ D \subseteq Deposits /\ \A x \in D : x \in Products /\ product[x].status = "active"
      /\ S \subseteq Savings /\ S \intersect Deposits = {}
  BY DEF DueRows, Products, InvestAssumption
<1>4. r = [date |-> day, held |-> D, todo |-> D, item |-> NoRow, copy |-> [x \in D |-> product[x]]]
  BY <1>2 DEF InvestRun
<1> HIDE DEF D, r
<1>5. /\ r.held = D /\ r.todo = D /\ r.date = day /\ r.copy = [x \in D |-> product[x]]
      /\ IsInvestRun(r)
  <2>1. r.held = D /\ r.todo = D /\ r.date = day /\ r.copy = [x \in D |-> product[x]]
    BY <1>4
  <2>2. \A x \in D : r.copy[x] = product[x] /\ IsRow(r.copy[x])
    BY <1>3, <2>1 DEF InvestInv, InvestTyped
  <2>3. r.copy \in [D -> {r.copy[x] : x \in D}]
    BY <2>1
  <2>4. r = [date |-> r.date, held |-> r.held, todo |-> r.todo, item |-> r.item,
             copy |-> r.copy]
    BY <1>4
  <2>5. QED
    BY <1>3, <2>1, <2>2, <2>3, <2>4 DEF IsInvestRun
<1>6. \A x \in Products :
        /\ IsRow(product'[x]) /\ product'[x].status = product[x].status
        /\ x \in S => product'[x].date = product[x].date + Month
        /\ x \notin S => product'[x] = product[x]
  <2> SUFFICES ASSUME NEW x \in Products
               PROVE /\ IsRow(product'[x]) /\ product'[x].status = product[x].status
                     /\ x \in S => product'[x].date = product[x].date + Month
                     /\ x \notin S => product'[x] = product[x]
    OBVIOUS
  <2>1. IsRow(product[x])
    BY DEF InvestInv, InvestTyped
  <2>2. CASE x \in S
    <3>1. product'[x] = PaidUp(Earned(product[x], Interest))
      BY <1>1, <2>2
    <3>2. /\ IsRow(product'[x]) /\ product'[x].status = product[x].status
          /\ product'[x].date = product[x].date + Month
      BY <2>1, <3>1, RowEarnedAndPaidUp
    <3>3. QED
      BY <2>2, <3>2
  <2>3. CASE x \notin S
    BY <1>1, <2>1, <2>3
  <2>4. QED
    BY <2>2, <2>3
<1>7. /\ irun' \in [InvestWorkers -> {irun'[v] : v \in InvestWorkers}]
      /\ \A v \in InvestWorkers : IsInvestRun(irun'[v])
      /\ ipc' \in [InvestWorkers \union Closers -> InvestSteps]
      /\ irun'[i] = r /\ ipc'[i] = "deposits"
      /\ \A v \in InvestWorkers \ {i} : ipc'[v] = "idle" /\ irun'[v].held = {}
      /\ \A c \in Closers : ipc'[c] = ipc[c]
      /\ OneInvestRuns'
  BY <1>2, <1>5, InvestMovesOn
<1>8. InterestFits' /\ accrued' \in [Products -> [Days -> Nat]]
  <2>1. /\ \A x \in Products : IsRow(product'[x])
        /\ \A x \in Products \ S : product'[x].date = product[x].date
                                     \/ (x \notin Deposits /\ product'[x].date = product[x].date + Month)
    BY <1>6
  <2>2. \A x \in Products \intersect S :
          \/ /\ product'[x].date = product[x].date + Month
             /\ x \in Deposits => day < Matures[x]
          \/ x \in Deposits /\ product'[x].date = product[x].date /\ day >= Matures[x]
    BY <1>3, <1>6
  <2>3. QED
    BY <1>1, <1>2, <2>1, <2>2, InterestAdded
<1>9. InvestTyped'
  <2>1. product' \in [Products -> {product'[x] : x \in Products}]
    BY <1>1
  <2>2. QED
    BY <1>2, <1>6, <1>7, <1>8, <2>1 DEF InvestInv, InvestTyped
<1>10. HoldsFit'
  <2>1. ASSUME NEW x \in D
        PROVE  CopyFits(irun[i], x)'
    <3>1. /\ product'[x] = product[x] /\ product[x].status = "active" /\ x \in Deposits
          /\ x \in Products
      BY <1>3, <1>6
    <3>2. r.copy[x] = product[x]
      BY <1>5
    <3>3. x \notin torn => Untouched(x)
      <4>1. \A v \in InvestWorkers : irun[v].held = {}
        BY <1>2, OtherRunsIdle
      <4>2. QED
        BY <3>1, <4>1 DEF InvestInv, PaymentsFit
    <3>4. QED
      BY <1>2, <1>5, <1>7, <3>1, <3>2, <3>3 DEF CopyFits, Untouched
  <2>2. QED
    BY <1>2, <1>5, <1>7, <2>1 DEF HoldsFit
<1>11. ClosingsFit' /\ PaymentsFit'
  <2>1. \A v \in InvestWorkers : irun[v].held = {}
    BY <1>2, OtherRunsIdle
  <2>2. \A x \in Savings \union Deposits : product'[x].status = product[x].status
    BY <1>6 DEF Products
  <2>3. QED
    BY <1>2, <1>7, <2>1, <2>2, PaymentsStay
<1>12. QED
  BY <1>7, <1>8, <1>9, <1>10, <1>11 DEF InvestInv

\* Runs with some fields replaced.
LEMMA RunWithCopy ==
    ASSUME NEW r, IsInvestRun(r), NEW T, T \subseteq r.todo, NEW p, NEW x \in r.held,
           NEW c, IsRow(c), NEW q, q = RunWith(r, T, p, x, c)
    PROVE  /\ IsInvestRun(q) /\ q.held = r.held /\ q.todo = T /\ q.item = p
           /\ q.date = r.date /\ q.copy[x] = c
           /\ \A y \in r.held : y # x => q.copy[y] = r.copy[y]
<1> DEFINE r1 == [r EXCEPT !.todo = T]
           r2 == [r1 EXCEPT !.item = p]
           copy == [r.copy EXCEPT ![x] = c]
<1>1. r1 = [date |-> r.date, held |-> r.held, todo |-> T, item |-> r.item, copy |-> r.copy]
  BY DEF IsInvestRun
<1>2. q = [r2 EXCEPT !.copy[x] = c]
  BY DEF RunWith
<1> HIDE DEF r1
<1>3. r2 = [date |-> r.date, held |-> r.held, todo |-> T, item |-> p, copy |-> r.copy]
  BY <1>1
<1> HIDE DEF r2
<1>4. q = [date |-> r.date, held |-> r.held, todo |-> T, item |-> p, copy |-> copy]
  BY <1>2, <1>3
<1>5. /\ copy \in [r.held -> {copy[y] : y \in r.held}] /\ copy[x] = c
      /\ \A y \in r.held : y # x => copy[y] = r.copy[y]
  BY DEF IsInvestRun
<1>6. \A y \in r.held : IsRow(copy[y])
  BY <1>5 DEF IsInvestRun
<1> HIDE DEF copy
<1>7. /\ q.held = r.held /\ q.todo = T /\ q.item = p /\ q.date = r.date /\ q.copy = copy
      /\ q = [date |-> q.date, held |-> q.held, todo |-> q.todo, item |-> q.item,
              copy |-> q.copy]
  BY <1>4
<1>8. T \subseteq r.held /\ r.held \subseteq Deposits
  BY DEF IsInvestRun
<1>9. IsInvestRun(q)
  BY <1>5, <1>6, <1>7, <1>8 DEF IsInvestRun
<1>10. QED
  BY <1>5, <1>7, <1>9

LEMMA TakeDepositKeeps ==
    ASSUME EodAssumption, InvestAssumption, InvestInv, NEW i \in InvestWorkers, TakeDeposit(i)
    PROVE  InvestInv'
<1>1. PICK x \in irun[i].todo :
        LET matured == irun[i].date >= Matures[x]
            row == Earned(irun[i].copy[x], Interest)
        IN /\ irun' = [irun EXCEPT ![i] =
                         RunWith(irun[i], irun[i].todo \ {x}, IF matured THEN x ELSE NoRow,
                                 x, IF matured THEN row ELSE PaidUp(row))]
           /\ ipc' = [ipc EXCEPT ![i] = IF matured THEN "return" ELSE ipc[i]]
  BY DEF TakeDeposit
<1> DEFINE matured == irun[i].date >= Matures[x]
           row == Earned(irun[i].copy[x], Interest)
           c == IF matured THEN row ELSE PaidUp(row)
           step == IF matured THEN "return" ELSE "deposits"
           T == irun[i].todo \ {x}
           p == IF matured THEN x ELSE NoRow
           r == RunWith(irun[i], T, p, x, c)
<1>2. /\ ipc[i] = "deposits" /\ irun[i].date = day
      /\ iadvisory' = iadvisory /\ day' = day /\ gave' = gave /\ returned' = returned
      /\ torn' = torn /\ product' = product /\ accrued' = accrued
  BY DEF TakeDeposit, bankVars, InvestInv, HoldsFit, InvestTyped
<1>3. ipc' = [ipc EXCEPT ![i] = step] /\ step \in InvestSteps \ {"idle"}
  BY <1>1, <1>2 DEF InvestSteps, InvestInv, InvestTyped
<1>4. /\ IsInvestRun(irun[i]) /\ x \in irun[i].held /\ IsRow(irun[i].copy[x])
      /\ CopyFits(irun[i], x) /\ T \subseteq irun[i].todo /\ x \in Deposits
  BY DEF InvestInv, InvestTyped, IsInvestRun, HoldsFit
<1>5. irun' = [irun EXCEPT ![i] = r]
  BY Zenon, <1>1
<1>6. /\ IsRow(c) /\ c.status = "active"
      /\ matured => c.date = product[x].date
      /\ ~matured => c.date = product[x].date + Month
  <2>1. irun[i].copy[x].status = "active" /\ irun[i].copy[x].date = product[x].date
    BY <1>4 DEF CopyFits
  <2>2. CASE matured
    BY <1>4, <2>1, <2>2, RowEarned
  <2>3. CASE ~matured
    BY <1>4, <2>1, <2>3, RowEarnedAndPaidUp
  <2>4. QED
    BY <2>2, <2>3
<1> HIDE DEF c
<1>7. /\ IsInvestRun(r) /\ r.held = irun[i].held /\ r.todo = T /\ r.item = p
      /\ r.date = irun[i].date /\ r.copy[x] = c
      /\ \A y \in irun[i].held : y # x => r.copy[y] = irun[i].copy[y]
  <2> HIDE DEF T, p, matured, step, row
  <2>1. /\ IsInvestRun(irun[i]) /\ T \subseteq irun[i].todo /\ x \in irun[i].held
        /\ IsRow(c)
    BY <1>4, <1>6
  <2> HIDE DEF r
  <2>2. r = RunWith(irun[i], T, p, x, c)
    BY DEF r
  <2>3. QED
    BY ONLY <2>1, <2>2, RunWithCopy
<1> HIDE DEF r
<1>8. /\ irun' \in [InvestWorkers -> {irun'[v] : v \in InvestWorkers}]
      /\ \A v \in InvestWorkers : IsInvestRun(irun'[v])
      /\ ipc' \in [InvestWorkers \union Closers -> InvestSteps]
      /\ irun'[i] = r /\ ipc'[i] = step
      /\ \A v \in InvestWorkers \ {i} : ipc'[v] = "idle" /\ irun'[v].held = {}
      /\ \A e \in Closers : ipc'[e] = ipc[e]
      /\ OneInvestRuns'
  BY <1>2, <1>3, <1>5, <1>7, InvestMovesOn
<1>9. InvestTyped'
  <2>1. /\ product' \in [Products -> {product'[y] : y \in Products}]
        /\ \A y \in Products : IsRow(product'[y])
    BY <1>2 DEF InvestInv, InvestTyped
  <2>2. QED
    BY <1>2, <1>8, <2>1 DEF InvestInv, InvestTyped
<1>10. HoldsFit'
  <2>1. ASSUME NEW y \in irun[i].held, y # x
        PROVE  CopyFits(irun[i], y)'
    <3>1. CopyFits(irun[i], y)
      BY DEF InvestInv, HoldsFit
    <3>2. r.copy[y] = irun[i].copy[y] /\ (y \in r.todo <=> y \in irun[i].todo)
      BY <1>7, <2>1
    <3>3. QED
      BY <1>2, <1>8, <3>1, <3>2 DEF CopyFits, Untouched
  <2>2. CopyFits(irun[i], x)'
    <3>1. x \notin r.todo /\ r.copy[x] = c
      BY <1>7
    <3>2. day \in Nat /\ Matures[x] \in Nat
      BY <1>4 DEF InvestInv, InvestTyped, InvestAssumption
    <3>3. \/ r.copy[x].date = product[x].date + Month /\ day < Matures[x]
          \/ r.copy[x].date = product[x].date /\ day >= Matures[x]
      BY <1>2, <1>6, <3>1, <3>2
    <3>4. product[x].status = "active" /\ (x \notin torn => Untouched(x))
      BY <1>4 DEF CopyFits
    <3>5. r.copy[x].status = "active"
      BY <1>6, <3>1
    <3>6. QED
      BY <1>2, <1>8, <3>1, <3>3, <3>4, <3>5 DEF CopyFits, Untouched
  <2>3. step = "return" => r.item \in r.held \ r.todo /\ r.copy[r.item].status = "active"
    BY <1>4, <1>6, <1>7
  <2>4. QED
    BY <1>2, <1>7, <1>8, <2>1, <2>2, <2>3 DEF HoldsFit
<1>11. ClosingsFit' /\ PaymentsFit'
  <2>1. \A y \in Deposits : (\A v \in InvestWorkers : y \notin irun'[v].held)
                              => \A v \in InvestWorkers : y \notin irun[v].held
    BY <1>2, <1>7, <1>8, OtherRunsIdle
  <2>2. QED
    BY <1>2, <1>8, <2>1, PaymentsStay
<1>12. InterestFits'
  BY <1>2, InterestStays
<1>13. QED
  BY <1>8, <1>9, <1>10, <1>11, <1>12 DEF InvestInv

\* What the answer of the bank makes of the run: the deposit is closed, or left active.
LEMMA AnsweredRun ==
    ASSUME InvestInv, NEW i \in InvestWorkers, ipc[i] = "return", NEW ok \in BOOLEAN
    PROVE  \E r : /\ AfterReturn(i, ok) = [irun EXCEPT ![i] = r]
                  /\ IsInvestRun(r) /\ r.held = irun[i].held /\ r.todo = irun[i].todo
                  /\ r.date = irun[i].date
                  /\ r.copy[irun[i].item].status = IF ok THEN "closed" ELSE "active"
                  /\ r.copy[irun[i].item].date = irun[i].copy[irun[i].item].date
                  /\ \A y \in irun[i].held : y # irun[i].item => r.copy[y] = irun[i].copy[y]
<1> DEFINE x == irun[i].item
           b == irun[i].copy[x]
           c == IF ok THEN Closed(b) ELSE b
           r == RunWith(irun[i], irun[i].todo, NoRow, x, c)
<1>1. /\ IsInvestRun(irun[i]) /\ x \in irun[i].held /\ IsRow(b) /\ b.status = "active"
  BY DEF InvestInv, InvestTyped, HoldsFit, IsInvestRun
<1>2. AfterReturn(i, ok) = [irun EXCEPT ![i] = r]
  BY Zenon DEF AfterReturn
<1>3. IsRow(c) /\ c.status = (IF ok THEN "closed" ELSE "active") /\ c.date = b.date
  BY <1>1, RowClosed
<1> HIDE DEF b, c, x
<1>4. /\ IsInvestRun(r) /\ r.held = irun[i].held /\ r.todo = irun[i].todo
      /\ r.date = irun[i].date /\ r.copy[x] = c
      /\ \A y \in irun[i].held : y # x => r.copy[y] = irun[i].copy[y]
  BY <1>1, <1>3, RunWithCopy
<1> HIDE DEF r
<1>5. QED
  BY <1>2, <1>3, <1>4 DEF x, b

\* The run goes on after the bank has answered, whatever it has credited for deposit x.
Answered(i, ok) ==
    /\ ipc[i] = "return" /\ irun' = AfterReturn(i, ok) /\ ipc' = [ipc EXCEPT ![i] = "deposits"]
    /\ day' = day /\ product' = product /\ accrued' = accrued /\ gave' = gave
    /\ torn' = torn \/ (~ok /\ torn' = torn \union {irun[i].item})
    /\ iadvisory' = iadvisory

Credited(x, ok) ==
    /\ returned' \in [Deposits -> [Accounts -> Nat]]
    /\ \A y \in Deposits \ {x} : returned'[y] = returned[y]
    /\ \A a \in Accounts : returned'[x][a] <= 1
    /\ x \notin torn' =>
         \A a, b \in Accounts : returned'[x][a] > 0 /\ returned'[x][b] > 0 => a = b
    /\ ok => \E a \in Accounts : returned'[x][a] > 0
    /\ ~ok => returned' = returned \/ x \in torn'

LEMMA AnswerKeeps ==
    ASSUME EodAssumption, InvestAssumption, InvestInv, NEW i \in InvestWorkers,
           NEW ok \in BOOLEAN, Answered(i, ok), Credited(irun[i].item, ok)
    PROVE  InvestInv'
<1>x. PICK x : x = irun[i].item
  OBVIOUS
<1>0. /\ ipc[i] = "return" /\ irun' = AfterReturn(i, ok)
      /\ ipc' = [ipc EXCEPT ![i] = "deposits"]
      /\ day' = day /\ product' = product /\ accrued' = accrued /\ gave' = gave
      /\ torn' = torn \/ torn' = torn \union {x}
      /\ \A y \in Deposits : /\ y \notin torn' => y \notin torn
                            /\ y # x => (y \in torn' <=> y \in torn)
      /\ iadvisory' = iadvisory
  BY <1>x DEF Answered
<1>1. PICK r : /\ irun' = [irun EXCEPT ![i] = r]
               /\ IsInvestRun(r) /\ r.held = irun[i].held /\ r.todo = irun[i].todo
               /\ r.date = irun[i].date
               /\ r.copy[x].status = IF ok THEN "closed" ELSE "active"
               /\ r.copy[x].date = irun[i].copy[x].date
               /\ \A y \in irun[i].held : y # x => r.copy[y] = irun[i].copy[y]
  BY <1>x, <1>0, AnsweredRun
<1>2. /\ irun[i].date = day /\ x \in irun[i].held \ irun[i].todo /\ x \in Deposits
      /\ irun[i].copy[x].status = "active" /\ irun[i].held \subseteq Deposits
      /\ \A y \in irun[i].held : CopyFits(irun[i], y)
  BY <1>x, <1>0 DEF InvestInv, InvestTyped, HoldsFit, IsInvestRun
<1>3. product[x].status = "active"
  BY <1>2 DEF CopyFits
<1>4. /\ irun' \in [InvestWorkers -> {irun'[v] : v \in InvestWorkers}]
      /\ \A v \in InvestWorkers : IsInvestRun(irun'[v])
      /\ ipc' \in [InvestWorkers \union Closers -> InvestSteps]
      /\ irun'[i] = r /\ ipc'[i] = "deposits"
      /\ \A v \in InvestWorkers \ {i} : ipc'[v] = "idle" /\ irun'[v].held = {}
      /\ \A e \in Closers : ipc'[e] = ipc[e]
      /\ OneInvestRuns'
  <2>1. "deposits" \in InvestSteps
    BY DEF InvestSteps
  <2>2. QED
    BY <1>0, <1>1, <2>1, InvestMovesOn
<1>5. InvestTyped'
  <2>1. /\ product' \in [Products -> {product'[y] : y \in Products}]
        /\ \A y \in Products : IsRow(product'[y])
    BY <1>0 DEF InvestInv, InvestTyped
  <2>2. returned' \in [Deposits -> [Accounts -> Nat]]
    BY DEF Credited
  <2>3. QED
    BY <1>0, <1>4, <2>1, <2>2 DEF InvestInv, InvestTyped
<1>6. \A y \in Deposits : y # x => (Untouched(y)' <=> Untouched(y))
  BY <1>x, <1>0 DEF Untouched, Credited
<1>7. HoldsFit'
  <2>1. ASSUME NEW y \in irun[i].held, y # x
        PROVE  CopyFits(irun[i], y)'
    <3>1. /\ r.copy[y] = irun[i].copy[y] /\ (y \in r.todo <=> y \in irun[i].todo)
          /\ returned'[y] = returned[y] /\ y \in Deposits
      BY <1>x, <1>1, <1>2, <2>1 DEF Credited
    <3>2. QED
      BY <1>0, <1>2, <1>4, <1>6, <2>1, <3>1 DEF CopyFits
  <2>2. CopyFits(irun[i], x)'
    <3>1. x \notin r.todo
      BY <1>1, <1>2
    <3>2. \/ r.copy[x].date = product[x].date + Month /\ day < Matures[x]
          \/ r.copy[x].date = product[x].date /\ day >= Matures[x]
      BY <1>1, <1>2 DEF CopyFits
    <3>3. CASE ok
      <4>1. \E a \in Accounts : returned'[x][a] > 0
        BY <1>x, <3>3 DEF Credited
      <4>2. QED
        BY <1>0, <1>1, <1>3, <1>4, <3>1, <3>2, <3>3, <4>1 DEF CopyFits
    <3>4. CASE ~ok
      <4>1. x \notin torn => Untouched(x)
        BY <1>1, <1>2 DEF CopyFits
      <4>2. returned' = returned \/ x \in torn'
        BY <1>x, <3>4 DEF Credited
      <4>3. QED
        BY <1>0, <1>1, <1>3, <1>4, <3>1, <3>2, <3>4, <4>1, <4>2 DEF CopyFits, Untouched
    <3>5. QED
      BY <3>3, <3>4
  <2>3. QED
    BY <1>0, <1>1, <1>2, <1>4, <2>1, <2>2 DEF HoldsFit
<1>8. \A c \in Closers : \A y : TakenBy(c, y)' <=> TakenBy(c, y)
  BY <1>4 DEF TakenBy
<1>9. ClosingsFit'
  BY <1>0, <1>8 DEF InvestInv, ClosingsFit
<1>10. PaymentsFit'
  <2>1. \A y \in Deposits : (\A v \in InvestWorkers : y \notin irun'[v].held)
                              => \A v \in InvestWorkers : y \notin irun[v].held
    BY <1>0, <1>1, <1>4, OtherRunsIdle
  <2>2. ASSUME NEW y \in Deposits, y # x
        PROVE  /\ y \notin torn =>
                    /\ product[y].status = "active" => gave[y] = 0
                    /\ product[y].status = "active"
                         /\ (\A v \in InvestWorkers : y \notin irun'[v].held) => Untouched(y)
                    /\ \A c \in Closers : TakenBy(c, y) => Untouched(y)
                    /\ gave[y] <= 1
                    /\ gave[y] = 1 => \A a \in Accounts : returned[y][a] = 0
                    /\ \A a, b \in Accounts : returned[y][a] > 0 /\ returned[y][b] > 0 => a = b
               /\ \A a \in Accounts : returned[y][a] <= 1
               /\ product[y].status = "closed" =>
                     ~Untouched(y) \/ \E c \in Closers : TakenBy(c, y)
    BY <2>1, <2>2 DEF InvestInv, PaymentsFit
  <2>3. \A y \in Deposits : y # x => returned'[y] = returned[y]
    BY <1>x DEF Credited
  <2>4. \A c \in Closers : ~TakenBy(c, x)
    BY <1>2, <1>3 DEF InvestInv, ClosingsFit
  <2>5. x \notin torn => gave[x] = 0
    BY <1>2, <1>3 DEF InvestInv, PaymentsFit
  <2>6. \E v \in InvestWorkers : x \in irun'[v].held
    BY <1>1, <1>2, <1>4
  <2>7. /\ \A a \in Accounts : returned'[x][a] <= 1
        /\ x \notin torn' => \A a, b \in Accounts :
                              returned'[x][a] > 0 /\ returned'[x][b] > 0 => a = b
    BY <1>x DEF Credited
  <2>8. /\ x \notin torn => gave[x] <= 1 /\ gave[x] # 1
        /\ product[x].status # "closed"
    BY <1>3, <2>5
  <2>9. \A y \in Deposits : y \notin torn' => y \notin torn
    BY <1>0
  <2>10. ASSUME NEW y \in Deposits
         PROVE  /\ y \notin torn' =>
                     /\ product[y].status = "active" => gave[y] = 0
                     /\ product[y].status = "active"
                          /\ (\A v \in InvestWorkers : y \notin irun'[v].held) => Untouched(y)'
                     /\ \A c \in Closers : TakenBy(c, y) => Untouched(y)'
                     /\ gave[y] <= 1
                     /\ gave[y] = 1 => \A a \in Accounts : returned'[y][a] = 0
                     /\ \A a, b \in Accounts :
                          returned'[y][a] > 0 /\ returned'[y][b] > 0 => a = b
                /\ \A a \in Accounts : returned'[y][a] <= 1
                /\ product[y].status = "closed" =>
                      ~Untouched(y)' \/ \E c \in Closers : TakenBy(c, y)
    <3>1. CASE y = x
      BY <2>4, <2>5, <2>6, <2>7, <2>8, <2>9, <3>1
    <3>2. CASE y # x
      BY <1>6, <2>2, <2>3, <2>9, <2>10, <3>2
    <3>3. QED
      BY <3>1, <3>2
  <2>11. QED
    BY <1>0, <1>8, <2>10 DEF PaymentsFit
<1>11. InterestFits'
  BY <1>0, InterestStays
<1>12. QED
  BY <1>4, <1>5, <1>7, <1>9, <1>10, <1>11 DEF InvestInv

LEMMA ReturnDepositKeeps ==
    ASSUME EodAssumption, InvestAssumption, InvestInv, NEW i \in InvestWorkers, ReturnDeposit(i)
    PROVE  InvestInv'
<1> DEFINE x == irun[i].item
           mine == Held(i)
           a == CHOOSE b \in mine : \A c \in mine : Seniority[b] <= Seniority[c]
           pays == mine # {} /\ ~AlreadyReturned(x, a)
<1>1. PICK told \in BOOLEAN :
      /\ ipc[i] = "return" /\ irun' = AfterReturn(i, mine # {} /\ told)
      /\ torn' = IF told THEN torn ELSE torn \union {x}
      /\ returned' = IF pays THEN [returned EXCEPT ![x][a] = @ + 1] ELSE returned
      /\ ipc' = [ipc EXCEPT ![i] = "deposits"]
      /\ day' = day /\ product' = product /\ accrued' = accrued /\ gave' = gave
      /\ iadvisory' = iadvisory
  BY DEF ReturnDeposit, bankButAccounts
<1>2. /\ x \in Deposits /\ returned \in [Deposits -> [Accounts -> Nat]]
      /\ irun[i].copy[x].status = "active" /\ CopyFits(irun[i], x)
      /\ \A b \in Accounts : returned[x][b] \in Nat /\ returned[x][b] <= 1
  <2>1. x \in irun[i].held /\ irun[i].copy[x].status = "active" /\ CopyFits(irun[i], x)
    BY <1>1 DEF InvestInv, HoldsFit
  <2>2. x \in Deposits /\ returned \in [Deposits -> [Accounts -> Nat]]
    BY <2>1 DEF InvestInv, InvestTyped, IsInvestRun
  <2>3. \A b \in Accounts : returned[x][b] \in Nat /\ returned[x][b] <= 1
    BY <2>2 DEF InvestInv, PaymentsFit
  <2> QED
    BY <2>1, <2>2, <2>3
\* The oldest of the locked accounts.
<1>3. mine # {} => a \in Accounts
  <2>1. ASSUME mine # {}
        PROVE  \E b \in mine : \A c \in mine : Seniority[b] <= Seniority[c]
    <3>1. \A b \in mine : b \in Accounts /\ Seniority[b] \in Nat
      BY DEF Held, InvestAssumption
    <3> DEFINE ages == {Seniority[b] : b \in mine}
    <3>2. ages \in SUBSET Nat /\ ages # {}
      BY <2>1, <3>1
    <3>3. PICK m \in ages : \A n \in ages : m <= n
      BY <3>2, LeastNatural
    <3>4. QED
      BY <3>3
  <2>2. mine # {} => a \in mine
    BY <2>1
  <2>3. QED
    BY <2>2 DEF Held
<1> HIDE DEF a, mine, x
<1>4. /\ returned' \in [Deposits -> [Accounts -> Nat]]
      /\ \A y \in Deposits \ {x} : returned'[y] = returned[y]
      /\ \A b \in Accounts : returned'[x][b] =
            returned[x][b] + IF pays /\ b = a THEN 1 ELSE 0
  <2>1. CASE pays
    <3>1. a \in Accounts /\ returned' = [returned EXCEPT ![x][a] = returned[x][a] + 1]
      BY <1>1, <1>3, <2>1
    <3>2. returned[x] \in [Accounts -> Nat]
      BY <1>2
    <3> DEFINE f == [returned[x] EXCEPT ![a] = returned[x][a] + 1]
    <3>3. f \in [Accounts -> Nat]
      BY <3>1, <3>2
    <3>4. \A b \in Accounts : f[b] = returned[x][b] + IF b = a THEN 1 ELSE 0
      BY <3>1, <3>2
    <3>5. returned' = [returned EXCEPT ![x] = f]
      BY <3>1
    <3> HIDE DEF f, pays
    <3>6. QED
      BY <1>2, <2>1, <3>3, <3>4, <3>5
  <2>2. CASE ~pays
    <3>1. returned' = returned
      BY <1>1, <2>2
    <3> HIDE DEF pays
    <3>2. QED
      BY <1>2, <2>2, <3>1
  <2>3. QED
    BY <2>1, <2>2
<1>5. pays => returned[x][a] = 0
  <2>1. ASSUME pays PROVE returned[x][a] = 0
    <3>1. a \in Accounts /\ ~(returned[x][a] > 0)
      BY <1>3, <2>1 DEF AlreadyReturned
    <3>2. returned[x][a] \in Nat
      BY <1>2, <3>1
    <3>3. QED
      BY <3>1, <3>2
  <2>2. QED
    BY <2>1
<1>6. \A b \in Accounts : returned'[x][b] <= 1
  BY <1>2, <1>3, <1>4, <1>5
<1>7. x \notin torn' =>
        \A b, c \in Accounts : returned'[x][b] > 0 /\ returned'[x][c] > 0 => b = c
  <2>1. x \notin torn => \A b \in Accounts : returned[x][b] = 0
    BY <1>2 DEF CopyFits, Untouched
  <2>2. x \notin torn' => x \notin torn
    BY <1>1
  <2>3. QED
    BY <1>4, <2>1, <2>2
<1>8. mine # {} => \E b \in Accounts : returned'[x][b] > 0
  <2>1. ASSUME mine # {} PROVE returned'[x][a] > 0
    <3>1. a \in Accounts /\ returned[x][a] \in Nat
      BY <1>2, <1>3, <2>1
    <3>2. CASE pays
      BY <1>4, <3>1, <3>2
    <3>3. CASE ~pays
      BY <1>4, <2>1, <3>1, <3>3 DEF AlreadyReturned
    <3>4. QED
      BY <3>2, <3>3
  <2>2. QED
    BY <1>3, <2>1
<1>9. ~(mine # {} /\ told) => returned' = returned \/ x \in torn'
  BY <1>1
<1>10. Credited(x, mine # {} /\ told)
  BY <1>4, <1>6, <1>7, <1>8, <1>9 DEF Credited
<1>11. Answered(i, mine # {} /\ told)
  BY <1>1 DEF Answered, x
<1>12. QED
  BY <1>10, <1>11, AnswerKeeps DEF x

LEMMA FailReturnKeeps ==
    ASSUME EodAssumption, InvestAssumption, InvestInv, NEW i \in InvestWorkers, FailReturn(i)
    PROVE  InvestInv'
<1>1. /\ ipc[i] = "return" /\ irun' = AfterReturn(i, FALSE)
      /\ ipc' = [ipc EXCEPT ![i] = "deposits"] /\ returned' = returned
      /\ day' = day /\ product' = product /\ accrued' = accrued /\ gave' = gave
      /\ torn' = torn /\ iadvisory' = iadvisory
  BY DEF FailReturn, bankButWaits
<1>2. /\ irun[i].item \in Deposits /\ returned \in [Deposits -> [Accounts -> Nat]]
      /\ irun[i].copy[irun[i].item].status = "active" /\ CopyFits(irun[i], irun[i].item)
      /\ \A b \in Accounts : returned[irun[i].item][b] <= 1
  BY <1>1 DEF InvestInv, InvestTyped, HoldsFit, IsInvestRun, PaymentsFit
<1>3. irun[i].item \notin torn => \A b \in Accounts : returned[irun[i].item][b] = 0
  BY <1>2 DEF CopyFits, Untouched
<1>4. Answered(i, FALSE) /\ Credited(irun[i].item, FALSE)
  BY <1>1, <1>2, <1>3 DEF Answered, Credited
<1>5. QED
  BY <1>4, AnswerKeeps

LEMMA CommitDepositsKeeps ==
    ASSUME EodAssumption, InvestAssumption, InvestInv, NEW i \in InvestWorkers, CommitDeposits(i)
    PROVE  InvestInv'
<1> DEFINE H == irun[i].held
           r == NoInvestRun(irun[i].date)
<1>1. /\ ipc[i] = "deposits" /\ irun[i].todo = {}
      /\ product' = [x \in Products |-> IF x \in H THEN irun[i].copy[x] ELSE product[x]]
      /\ accrued' = Interests(H) /\ irun' = [irun EXCEPT ![i] = r]
      /\ ipc' = [ipc EXCEPT ![i] = "brokers"] /\ "brokers" \in InvestSteps
      /\ iadvisory' = iadvisory /\ day' = day /\ gave' = gave /\ returned' = returned
      /\ torn' = torn
  BY DEF CommitDeposits, bankVars, InvestSteps, InvestInv, InvestTyped
<1>2. IsInvestRun(r) /\ r.held = {} /\ r.date = irun[i].date /\ irun[i].date = day
  BY <1>1, EmptyInvestRun DEF InvestInv, HoldsFit
<1> HIDE DEF r
<1>3. /\ irun' \in [InvestWorkers -> {irun'[v] : v \in InvestWorkers}]
      /\ \A v \in InvestWorkers : IsInvestRun(irun'[v])
      /\ ipc' \in [InvestWorkers \union Closers -> InvestSteps]
      /\ irun'[i] = r /\ ipc'[i] = "brokers"
      /\ \A v \in InvestWorkers \ {i} : ipc'[v] = "idle" /\ irun'[v].held = {}
      /\ \A c \in Closers : ipc'[c] = ipc[c]
      /\ OneInvestRuns'
  BY <1>1, <1>2, InvestMovesOn
<1>4. ASSUME NEW x \in H
      PROVE  /\ x \in Deposits /\ x \in Products
             /\ product'[x] = irun[i].copy[x] /\ IsRow(product'[x])
             /\ product[x].status = "active"
             /\ \/ product'[x].date = product[x].date + Month /\ day < Matures[x]
                \/ product'[x].date = product[x].date /\ day >= Matures[x]
             /\ product'[x].status = "closed" => ~Untouched(x)
             /\ product'[x].status = "active" /\ x \notin torn => Untouched(x)
  <2>1. x \in Deposits /\ x \in Products /\ IsRow(irun[i].copy[x]) /\ CopyFits(irun[i], x)
    BY DEF Products, InvestInv, InvestTyped, IsInvestRun, HoldsFit
  <2>2. product'[x] = irun[i].copy[x]
    BY <1>1, <2>1
  <2>3. \A a \in Accounts : returned[x][a] > 0 => returned[x][a] # 0
    BY <2>1 DEF InvestInv, InvestTyped
  <2>4. product'[x].status = "closed" => ~Untouched(x)
    BY <2>1, <2>2, <2>3 DEF CopyFits, Untouched
  <2>5. QED
    BY <1>1, <2>1, <2>2, <2>4 DEF CopyFits
<1>5. \A x \in Products \ H : product'[x] = product[x]
  BY <1>1
<1>6. \A x \in Products : IsRow(product'[x])
  BY <1>4, <1>5 DEF InvestInv, InvestTyped
<1>7. InterestFits' /\ accrued' \in [Products -> [Days -> Nat]]
  <2>1. \A x \in Products \ H :
          \/ product'[x].date = product[x].date
          \/ (x \notin Deposits /\ product'[x].date = product[x].date + Month)
    BY <1>5
  <2>2. \A x \in Products \intersect H :
              \/ /\ product'[x].date = product[x].date + Month
                 /\ x \in Deposits => day < Matures[x]
              \/ x \in Deposits /\ product'[x].date = product[x].date /\ day >= Matures[x]
    BY <1>4
  <2>3. QED
    BY <1>1, <1>6, <2>1, <2>2, InterestAdded
<1>8. InvestTyped'
  <2>1. product' \in [Products -> {product'[x] : x \in Products}]
    BY <1>1
  <2>2. QED
    BY <1>1, <1>3, <1>6, <1>7, <2>1 DEF InvestInv, InvestTyped
<1>9. HoldsFit'
  BY <1>1, <1>2, <1>3 DEF HoldsFit
<1>10. /\ \A x : Untouched(x)' <=> Untouched(x)
       /\ \A c \in Closers : \A x : TakenBy(c, x)' <=> TakenBy(c, x)
  BY <1>1, <1>3 DEF Untouched, TakenBy
\* A product that a closing has taken is held by no run.
<1>11. \A c \in Closers : \A x \in H : ~TakenBy(c, x)
  BY <1>4 DEF InvestInv, ClosingsFit
<1>12. ClosingsFit'
  <2>1. \A x \in Savings \union Deposits : x \notin H => product'[x] = product[x]
    BY <1>5 DEF Products
  <2>2. QED
    BY <1>10, <1>11, <2>1 DEF InvestInv, ClosingsFit
<1>13. PaymentsFit'
  <2>1. ASSUME NEW x \in Deposits, x \notin H
        PROVE  /\ product'[x] = product[x] /\ \A v \in InvestWorkers : x \notin irun[v].held
    BY <1>1, <1>5, <2>1, OtherRunsIdle DEF Products
  <2>2. ASSUME NEW x \in Deposits
        PROVE  /\ x \notin torn =>
                    /\ product'[x].status = "active" => gave[x] = 0
                    /\ product'[x].status = "active" => Untouched(x)
                    /\ \A c \in Closers : TakenBy(c, x) => Untouched(x)
                    /\ gave[x] <= 1
                    /\ gave[x] = 1 => \A a \in Accounts : returned[x][a] = 0
                    /\ \A a, b \in Accounts : returned[x][a] > 0 /\ returned[x][b] > 0 => a = b
               /\ \A a \in Accounts : returned[x][a] <= 1
               /\ product'[x].status = "closed" =>
                     ~Untouched(x) \/ \E c \in Closers : TakenBy(c, x)
    <3>1. CASE x \in H
      BY <1>4, <1>11, <3>1 DEF InvestInv, PaymentsFit
    <3>2. CASE x \notin H
      BY <2>1, <3>2 DEF InvestInv, PaymentsFit
    <3>3. QED
      BY <3>1, <3>2
  <2>3. QED
    BY <1>1, <1>10, <2>2 DEF PaymentsFit
<1>14. QED
  BY <1>3, <1>7, <1>8, <1>9, <1>12, <1>13 DEF InvestInv

LEMMA PayBrokersKeeps ==
    ASSUME EodAssumption, InvestAssumption, InvestInv, NEW i \in InvestWorkers, PayBrokers(i)
    PROVE  InvestInv'
<1>1. PICK S \in SUBSET DueRows(i, Brokers) : \E income \in [S -> Market] :
        /\ product' = [x \in Products |->
              IF x \notin S THEN product[x]
              ELSE PaidUp(Earned(product[x], IF product[x].strategy THEN income[x] ELSE 0))]
        /\ accrued' = Interests({x \in S : product[x].strategy})
  BY DEF PayBrokers
<1>2. /\ ipc[i] = "brokers" /\ ipc' = [ipc EXCEPT ![i] = "unlock"] /\ "unlock" \in InvestSteps
      /\ irun[i].held = {} /\ irun[i].date = day
      /\ irun' = irun /\ iadvisory' = iadvisory /\ day' = day /\ gave' = gave
      /\ returned' = returned /\ torn' = torn
  BY DEF PayBrokers, bankVars, InvestSteps, InvestInv, HoldsFit
<1>3. S \subseteq Brokers /\ \A x \in S : x \notin Deposits /\ x \notin Savings
  BY DEF DueRows, InvestAssumption
<1>4. \A x \in Products :
        /\ IsRow(product'[x]) /\ product'[x].status = product[x].status
        /\ x \in S => product'[x].date = product[x].date + Month
        /\ x \notin S => product'[x] = product[x]
  <2> SUFFICES ASSUME NEW x \in Products
               PROVE /\ IsRow(product'[x]) /\ product'[x].status = product[x].status
                     /\ x \in S => product'[x].date = product[x].date + Month
                     /\ x \notin S => product'[x] = product[x]
    OBVIOUS
  <2>1. IsRow(product[x])
    BY DEF InvestInv, InvestTyped
  <2>2. CASE x \in S
    <3>1. \E n : product'[x] = PaidUp(Earned(product[x], n))
      BY <1>1, <2>2
    <3>2. QED
      BY <2>1, <2>2, <3>1, RowEarnedAndPaidUp
  <2>3. CASE x \notin S
    BY <1>1, <2>1, <2>3
  <2>4. QED
    BY <2>2, <2>3
<1>5. InterestFits' /\ accrued' \in [Products -> [Days -> Nat]]
  <2> DEFINE P == {x \in S : product[x].strategy}
  <2>1. \A x \in Products \ P :
          \/ product'[x].date = product[x].date
          \/ (x \notin Deposits /\ product'[x].date = product[x].date + Month)
    BY <1>3, <1>4
  <2>2. \A x \in Products \intersect P :
              \/ /\ product'[x].date = product[x].date + Month
                 /\ x \in Deposits => day < Matures[x]
              \/ x \in Deposits /\ product'[x].date = product[x].date /\ day >= Matures[x]
    BY <1>3, <1>4
  <2>3. accrued' = Interests(P)
    BY <1>1
  <2> HIDE DEF P
  <2>4. QED
    BY <1>2, <1>4, <2>1, <2>2, <2>3, InterestAdded
<1>6. irun' = [irun EXCEPT ![i] = irun[i]] /\ IsInvestRun(irun[i])
  BY <1>2 DEF InvestInv, InvestTyped
<1>7. /\ irun' \in [InvestWorkers -> {irun'[v] : v \in InvestWorkers}]
      /\ \A v \in InvestWorkers : IsInvestRun(irun'[v])
      /\ ipc' \in [InvestWorkers \union Closers -> InvestSteps]
      /\ irun'[i] = irun[i] /\ ipc'[i] = "unlock"
      /\ \A v \in InvestWorkers \ {i} : ipc'[v] = "idle" /\ irun'[v].held = {}
      /\ \A c \in Closers : ipc'[c] = ipc[c]
      /\ OneInvestRuns'
  BY <1>2, <1>6, InvestMovesOn
<1>8. InvestTyped'
  <2>1. product' \in [Products -> {product'[x] : x \in Products}]
    BY <1>1
  <2>2. QED
    BY <1>2, <1>4, <1>5, <1>7, <2>1 DEF InvestInv, InvestTyped
<1>9. HoldsFit'
  BY <1>2, <1>7 DEF HoldsFit
<1>10. ClosingsFit' /\ PaymentsFit'
  <2>1. \A x \in Savings \union Deposits : product'[x].status = product[x].status
    BY <1>4 DEF Products
  <2>2. QED
    BY <1>2, <1>7, <2>1, PaymentsStay
<1>11. QED
  BY <1>5, <1>7, <1>8, <1>9, <1>10 DEF InvestInv

\* The end of a run.
LEMMA UnlockInvestKeeps ==
    ASSUME EodAssumption, InvestAssumption, InvestInv, NEW i \in InvestWorkers, UnlockInvest(i)
    PROVE  InvestInv'
<1>1. /\ ipc[i] = "unlock" /\ ipc' = [ipc EXCEPT ![i] = "idle"] /\ "idle" \in InvestSteps
      /\ irun[i].held = {} /\ irun' = irun /\ day' = day /\ gave' = gave
      /\ returned' = returned /\ torn' = torn /\ product' = product /\ accrued' = accrued
  BY DEF UnlockInvest, bankVars, InvestSteps, InvestInv, HoldsFit
<1>2. irun' = [irun EXCEPT ![i] = irun[i]] /\ IsInvestRun(irun[i])
  BY <1>1 DEF InvestInv, InvestTyped
<1>3. /\ irun' \in [InvestWorkers -> {irun'[v] : v \in InvestWorkers}]
      /\ \A v \in InvestWorkers : IsInvestRun(irun'[v])
      /\ ipc' \in [InvestWorkers \union Closers -> InvestSteps]
      /\ irun'[i] = irun[i] /\ ipc'[i] = "idle"
      /\ \A v \in InvestWorkers \ {i} : ipc'[v] = "idle" /\ irun'[v].held = {}
      /\ \A c \in Closers : ipc'[c] = ipc[c]
      /\ OneInvestRuns'
  BY <1>1, <1>2, InvestMovesOn
<1>4. InvestTyped'
  <2>1. /\ product' \in [Products -> {product'[x] : x \in Products}]
        /\ \A x \in Products : IsRow(product'[x])
    BY <1>1 DEF InvestInv, InvestTyped
  <2>2. QED
    BY <1>1, <1>3, <2>1 DEF InvestInv, InvestTyped
<1>5. HoldsFit'
  BY <1>1, <1>3 DEF HoldsFit
<1>6. ClosingsFit' /\ PaymentsFit' /\ InterestFits'
  BY <1>1, <1>3, PaymentsStay, InterestStays
<1>7. QED
  BY <1>3, <1>4, <1>5, <1>6 DEF InvestInv

LEMMA DieInvestKeeps ==
    ASSUME EodAssumption, InvestAssumption, InvestInv, NEW i \in InvestWorkers, DieInvest(i)
    PROVE  InvestInv'
<1> DEFINE H == irun[i].held
           r == NoInvestRun(irun[i].date)
<1>1. /\ ipc[i] # "idle" /\ ipc' = [ipc EXCEPT ![i] = "idle"] /\ "idle" \in InvestSteps
      /\ torn' = torn \union {x \in H : irun[i].copy[x].status = "closed"}
      /\ irun' = [irun EXCEPT ![i] = r]
      /\ day' = day /\ gave' = gave /\ returned' = returned
      /\ product' = product /\ accrued' = accrued
  BY DEF DieInvest, bankButWaits, InvestSteps
<1>2. IsInvestRun(r) /\ r.held = {}
  BY EmptyInvestRun
<1> HIDE DEF r
<1>3. /\ irun' \in [InvestWorkers -> {irun'[v] : v \in InvestWorkers}]
      /\ \A v \in InvestWorkers : IsInvestRun(irun'[v])
      /\ ipc' \in [InvestWorkers \union Closers -> InvestSteps]
      /\ irun'[i] = r /\ ipc'[i] = "idle"
      /\ \A v \in InvestWorkers \ {i} : ipc'[v] = "idle" /\ irun'[v].held = {}
      /\ \A c \in Closers : ipc'[c] = ipc[c]
      /\ OneInvestRuns'
  BY <1>1, <1>2, InvestMovesOn
<1>4. InvestTyped'
  <2>1. /\ product' \in [Products -> {product'[x] : x \in Products}]
        /\ \A x \in Products : IsRow(product'[x])
    BY <1>1 DEF InvestInv, InvestTyped
  <2>2. QED
    BY <1>1, <1>3, <2>1 DEF InvestInv, InvestTyped
<1>5. HoldsFit'
  BY <1>2, <1>3 DEF HoldsFit
<1>6. /\ \A x : Untouched(x)' <=> Untouched(x)
      /\ \A c \in Closers : \A x : TakenBy(c, x)' <=> TakenBy(c, x)
  BY <1>1, <1>3 DEF Untouched, TakenBy
<1>7. ClosingsFit'
  BY <1>1, <1>6 DEF InvestInv, ClosingsFit
<1>8. PaymentsFit'
  \* A deposit that the dead run held and had not closed is as it was.
  <2>1. ASSUME NEW x \in H, x \notin torn' PROVE Untouched(x)
    <3>1. CopyFits(irun[i], x) /\ IsRow(irun[i].copy[x])
      BY DEF InvestInv, InvestTyped, HoldsFit, IsInvestRun
    <3>2. irun[i].copy[x].status = "active" /\ x \notin torn
      BY <1>1, <2>1, <3>1 DEF IsRow
    <3>3. QED
      BY <3>1, <3>2 DEF CopyFits
  <2>2. ASSUME NEW x \in Deposits, x \notin torn', product[x].status = "active"
        PROVE  Untouched(x)
    <3>1. x \notin torn
      BY <1>1, <2>2
    <3>2. CASE x \in H
      BY <2>1, <2>2, <3>2
    <3>3. CASE x \notin H
      <4>1. \A v \in InvestWorkers : x \notin irun[v].held
        BY <1>1, <3>3, OtherRunsIdle
      <4>2. QED
        BY <2>2, <3>1, <4>1 DEF InvestInv, PaymentsFit
    <3>4. QED
      BY <3>2, <3>3
  <2>3. \A x : x \notin torn' => x \notin torn
    BY <1>1
  <2>4. QED
    BY <1>1, <1>6, <2>2, <2>3 DEF InvestInv, PaymentsFit
<1>9. InterestFits'
  BY <1>1, InterestStays
<1>10. QED
  BY <1>3, <1>4, <1>5, <1>7, <1>8, <1>9 DEF InvestInv

-----------------------------------------------------------------------------
(* The clients. *)

\* A step of a client leaves the runs alone, and the rows they hold.
LEMMA ClientKeepsRuns ==
    ASSUME InvestInv, irun' = irun, day' = day, returned' = returned, torn' = torn,
           iadvisory' = iadvisory,
           \A i \in InvestWorkers : ipc'[i] = ipc[i],
           \A i \in InvestWorkers : \A x \in irun[i].held :
              product'[x] = product[x] /\ gave'[x] = gave[x]
    PROVE  OneInvestRuns' /\ HoldsFit'
<1>1. OneInvestRuns'
  BY DEF InvestInv, OneInvestRuns
<1>2. ASSUME NEW i \in InvestWorkers, NEW x \in irun[i].held
      PROVE  CopyFits(irun[i], x)'
  BY DEF InvestInv, HoldsFit, CopyFits, Untouched
<1>3. HoldsFit'
  BY <1>2 DEF InvestInv, HoldsFit
<1>4. QED
  BY <1>1, <1>3

LEMMA CloseProductKeeps ==
    ASSUME EodAssumption, InvestAssumption, InvestInv, NEW c \in Closers, CloseProduct(c)
    PROVE  InvestInv'
<1>0. PICK x : x = ClosesInto[c].product
  OBVIOUS
<1>1. /\ ipc[c] = "idle" /\ product[x].status # "closed"
      /\ \A i \in InvestWorkers : x \notin irun[i].held
      /\ product' = [product EXCEPT ![x] = Closed(product[x])]
      /\ ipc' = [ipc EXCEPT ![c] = "took"]
      /\ accrued' = accrued /\ returned' = returned /\ gave' = gave /\ torn' = torn
      /\ irun' = irun /\ iadvisory' = iadvisory /\ day' = day
  BY <1>0 DEF CloseProduct, MayClose, bankVars
<1>2. x \in Savings \union Deposits /\ x \in Products
  BY <1>0 DEF InvestAssumption, Products
<1>3. product[x].status = "active"
  BY <1>1, <1>2 DEF InvestInv, InvestTyped, IsRow
<1>4. /\ \A y \in Products : y # x => product'[y] = product[y]
      /\ IsRow(product'[x]) /\ product'[x].status = "closed"
      /\ product'[x].date = product[x].date
  <2>1. product'[x] = Closed(product[x]) /\ IsRow(product[x])
    BY <1>1, <1>2 DEF InvestInv, InvestTyped
  <2>2. QED
    BY <1>1, <2>1, RowClosed DEF InvestInv, InvestTyped
<1>5. /\ ipc' \in [InvestWorkers \union Closers -> InvestSteps] /\ ipc'[c] = "took"
      /\ \A v \in InvestWorkers \union Closers : v # c => ipc'[v] = ipc[v]
      /\ c \notin InvestWorkers
  BY <1>1 DEF InvestInv, InvestTyped, InvestSteps, InvestAssumption
<1>6. InvestTyped'
  <2>1. product' \in [Products -> {product'[y] : y \in Products}]
    BY <1>1 DEF InvestInv, InvestTyped
  <2>2. \A y \in Products : IsRow(product'[y])
    BY <1>4 DEF InvestInv, InvestTyped
  <2>3. \A i \in InvestWorkers : IsInvestRun(irun'[i])
    BY <1>1 DEF InvestInv, InvestTyped
  <2>4. QED
    BY <1>1, <1>5, <2>1, <2>2, <2>3 DEF InvestInv, InvestTyped
<1>7. OneInvestRuns' /\ HoldsFit'
  <2>1. \A i \in InvestWorkers : ipc'[i] = ipc[i]
    BY <1>5
  <2>2. \A i \in InvestWorkers : \A y \in irun[i].held :
          product'[y] = product[y] /\ gave'[y] = gave[y]
    BY <1>1, <1>4 DEF InvestInv, InvestTyped, IsInvestRun, Products
  <2>3. QED
    BY <1>1, <2>1, <2>2, ClientKeepsRuns
<1>8. /\ \A e \in Closers : \A y : TakenBy(e, y)' <=> (e = c /\ y = x) \/ TakenBy(e, y)
      /\ \A y : ~TakenBy(c, y) /\ \A e \in Closers : ~TakenBy(e, x)
      /\ \A y : Untouched(y)' <=> Untouched(y)
  <2>1. \A e \in Closers : ~TakenBy(e, x)
    BY <1>2, <1>3 DEF InvestInv, ClosingsFit
  <2>2. QED
    BY <1>0, <1>1, <1>5, <2>1 DEF TakenBy, Untouched
<1>9. ClosingsFit'
  <2>1. \A y \in Savings \union Deposits : y # x => product'[y] = product[y]
    BY <1>4 DEF Products
  <2>2. QED
    BY <1>4, <1>8, <2>1 DEF InvestInv, ClosingsFit
<1>10. PaymentsFit'
  <2>1. ASSUME NEW y \in Deposits, y # x
        PROVE  product'[y] = product[y] /\ \A e \in Closers : TakenBy(e, y)' <=> TakenBy(e, y)
    BY <1>4, <1>8, <2>1 DEF Products
  <2>2. x \in Deposits /\ x \notin torn => Untouched(x)
    BY <1>1, <1>3 DEF InvestInv, PaymentsFit
  <2>3. ASSUME NEW y \in Deposits
        PROVE  /\ y \notin torn =>
                    /\ product'[y].status = "active" => gave[y] = 0
                    /\ product'[y].status = "active"
                         /\ (\A i \in InvestWorkers : y \notin irun[i].held) => Untouched(y)
                    /\ \A e \in Closers : TakenBy(e, y)' => Untouched(y)
                    /\ gave[y] <= 1
                    /\ gave[y] = 1 => \A a \in Accounts : returned[y][a] = 0
                    /\ \A a, b \in Accounts : returned[y][a] > 0 /\ returned[y][b] > 0 => a = b
               /\ \A a \in Accounts : returned[y][a] <= 1
               /\ product'[y].status = "closed" =>
                     ~Untouched(y) \/ \E e \in Closers : TakenBy(e, y)'
    <3>1. CASE y = x
      BY <1>4, <1>8, <2>2, <3>1 DEF InvestInv, PaymentsFit
    <3>2. CASE y # x
      BY <2>1, <3>2 DEF InvestInv, PaymentsFit
    <3>3. QED
      BY <3>1, <3>2
  <2>4. QED
    BY <1>1, <1>8, <2>3 DEF PaymentsFit
<1>11. InterestFits'
  <2>1. \A y \in Products : product'[y].date = product[y].date
    BY <1>4
  <2>2. QED
    BY <1>1, <2>1, InterestStays
<1>12. QED
  BY <1>6, <1>7, <1>9, <1>10, <1>11 DEF InvestInv

\* The product is paid out, or restored.
LEMMA PayOutKeeps ==
    ASSUME EodAssumption, InvestAssumption, InvestInv, NEW c \in Closers, PayOut(c)
    PROVE  InvestInv'
<1>0. PICK x : x = ClosesInto[c].product
  OBVIOUS
<1>1. /\ ipc[c] = "took" /\ ipc' = [ipc EXCEPT ![c] = "ended"]
      /\ accrued' = accrued /\ returned' = returned /\ torn' = torn
      /\ irun' = irun /\ iadvisory' = iadvisory /\ day' = day
      /\ \/ gave' = [gave EXCEPT ![x] = gave[x] + 1] /\ product' = product
         \/ gave' = gave /\ product' = [product EXCEPT ![x] = Restored(product[x], taken[c])]
  BY <1>0 DEF PayOut, bankButAccounts
<1>2. /\ x \in Savings \union Deposits /\ x \in Products /\ TakenBy(c, x)
      /\ product[x].status = "closed"
      /\ \A e \in Closers : TakenBy(e, x) => e = c
  <2>1. x \in Savings \union Deposits /\ x \in Products /\ TakenBy(c, x)
    BY <1>0, <1>1 DEF InvestAssumption, Products, TakenBy
  <2>2. QED
    BY <2>1 DEF InvestInv, ClosingsFit
<1>3. /\ x \in Deposits /\ x \notin torn => Untouched(x)
      /\ \A i \in InvestWorkers : x \notin irun[i].held
  BY <1>2 DEF InvestInv, PaymentsFit, HoldsFit, CopyFits
<1>4. /\ \A y \in Products : y # x => product'[y] = product[y]
      /\ IsRow(product'[x]) /\ product'[x].date = product[x].date
      /\ product' \in [Products -> {product'[y] : y \in Products}]
      /\ gave' \in [Savings \union Deposits -> Nat]
      /\ \A y \in Savings \union Deposits : y # x => gave'[y] = gave[y]
      /\ \/ gave'[x] = gave[x] + 1 /\ product'[x] = product[x]
         \/ gave'[x] = gave[x] /\ product'[x].status = "active"
  <2>1. IsRow(product[x])
    BY <1>2 DEF InvestInv, InvestTyped
  <2>2. CASE gave' = [gave EXCEPT ![x] = gave[x] + 1] /\ product' = product
    BY <1>2, <2>1, <2>2 DEF InvestInv, InvestTyped
  <2>3. CASE gave' = gave /\ product' = [product EXCEPT ![x] = Restored(product[x], taken[c])]
    <3>1. product'[x] = Restored(product[x], taken[c])
      BY <1>2, <2>3 DEF InvestInv, InvestTyped
    <3>2. IsRow(product'[x]) /\ product'[x].status = "active"
          /\ product'[x].date = product[x].date
      BY <2>1, <3>1, RowRestored
    <3>3. QED
      BY <1>2, <2>3, <3>2 DEF InvestInv, InvestTyped
  <2>4. QED
    BY <1>1, <2>2, <2>3
<1>5. /\ ipc' \in [InvestWorkers \union Closers -> InvestSteps] /\ ipc'[c] = "ended"
      /\ \A v \in InvestWorkers \union Closers : v # c => ipc'[v] = ipc[v]
      /\ c \notin InvestWorkers
  BY <1>1 DEF InvestInv, InvestTyped, InvestSteps, InvestAssumption
<1>6. InvestTyped'
  <2>1. \A y \in Products : IsRow(product'[y])
    BY <1>4 DEF InvestInv, InvestTyped
  <2>2. \A i \in InvestWorkers : IsInvestRun(irun'[i])
    BY <1>1 DEF InvestInv, InvestTyped
  <2>3. /\ product' \in [Products -> {product'[y] : y \in Products}]
        /\ gave' \in [Savings \union Deposits -> Nat]
        /\ irun' = irun /\ day' = day /\ accrued' = accrued /\ returned' = returned
    BY <1>1, <1>4
  <2>4. QED
    BY <1>5, <2>1, <2>2, <2>3 DEF InvestInv, InvestTyped
<1>7. OneInvestRuns' /\ HoldsFit'
  <2>1. \A i \in InvestWorkers : ipc'[i] = ipc[i]
    BY <1>5
  <2>2. \A i \in InvestWorkers : \A y \in irun[i].held :
          product'[y] = product[y] /\ gave'[y] = gave[y]
    <3>1. \A i \in InvestWorkers : \A y \in irun[i].held :
            y # x /\ y \in Deposits /\ y \in Products
      BY <1>3 DEF InvestInv, InvestTyped, IsInvestRun, Products
    <3>2. QED
      BY <1>4, <3>1
  <2>3. QED
    BY <1>1, <2>1, <2>2, ClientKeepsRuns
<1>8. /\ \A e \in Closers : \A y : TakenBy(e, y)' <=> e # c /\ TakenBy(e, y)
      /\ \A e \in Closers : ~TakenBy(e, x)'
      /\ \A y \in Deposits : y # x => (Untouched(y)' <=> Untouched(y))
  <2>1. \A e \in Closers : \A y : TakenBy(e, y)' <=> e # c /\ TakenBy(e, y)
    BY <1>5 DEF TakenBy
  <2>2. \A y \in Deposits : y # x => (Untouched(y)' <=> Untouched(y))
    BY <1>1, <1>4 DEF Untouched
  <2>3. QED
    BY <1>2, <2>1, <2>2
<1>9. ClosingsFit'
  <2>1. \A y \in Savings \union Deposits : y # x => product'[y] = product[y]
    BY <1>4 DEF Products
  <2>2. QED
    BY <1>8, <2>1 DEF InvestInv, ClosingsFit
<1>10. PaymentsFit'
  <2>1. ASSUME NEW y \in Deposits, y # x
        PROVE  /\ product'[y] = product[y] /\ gave'[y] = gave[y]
               /\ \A e \in Closers : TakenBy(e, y)' <=> TakenBy(e, y)
    <3>1. ~TakenBy(c, y)
      BY <1>0, <2>1 DEF TakenBy
    <3>2. QED
      BY <1>4, <1>8, <2>1, <3>1 DEF Products
  <2>2. ASSUME x \in Deposits
        PROVE  /\ x \notin torn =>
                    /\ product'[x].status = "active" => gave'[x] = 0
                    /\ product'[x].status = "active" => Untouched(x)'
                    /\ gave'[x] <= 1
                    /\ gave'[x] = 1 => \A a \in Accounts : returned[x][a] = 0
                    /\ \A a, b \in Accounts : returned[x][a] > 0 /\ returned[x][b] > 0 => a = b
               /\ \A a \in Accounts : returned[x][a] <= 1
               /\ product'[x].status = "closed" => ~Untouched(x)'
    <3>1. x \notin torn => gave[x] = 0 /\ \A a \in Accounts : returned[x][a] = 0
      BY <1>3, <2>2 DEF Untouched
    <3>2. gave[x] \in Nat
      BY <2>2 DEF InvestInv, InvestTyped
    <3>3. \A a \in Accounts : returned[x][a] <= 1
      BY <2>2 DEF InvestInv, PaymentsFit
    <3>4. CASE gave'[x] = gave[x] + 1 /\ product'[x] = product[x]
      <4>1. ~Untouched(x)'
        BY <3>2, <3>4 DEF Untouched
      <4>2. QED
        BY <1>2, <3>1, <3>2, <3>3, <3>4, <4>1
    <3>5. CASE gave'[x] = gave[x] /\ product'[x].status = "active"
      <4>1. x \notin torn => Untouched(x)'
        BY <1>1, <3>1, <3>5 DEF Untouched
      <4>2. x \notin torn => gave'[x] = 0
        BY <3>1, <3>5
      <4>3. product'[x].status # "closed"
        BY <3>5
      <4>4. QED
        BY <3>1, <3>3, <4>1, <4>2, <4>3
    <3>6. QED
      BY <1>4, <3>4, <3>5
  <2>3. ASSUME NEW y \in Deposits
        PROVE  /\ y \notin torn =>
                    /\ product'[y].status = "active" => gave'[y] = 0
                    /\ product'[y].status = "active"
                         /\ (\A i \in InvestWorkers : y \notin irun[i].held) => Untouched(y)'
                    /\ \A e \in Closers : TakenBy(e, y)' => Untouched(y)'
                    /\ gave'[y] <= 1
                    /\ gave'[y] = 1 => \A a \in Accounts : returned[y][a] = 0
                    /\ \A a, b \in Accounts : returned[y][a] > 0 /\ returned[y][b] > 0 => a = b
               /\ \A a \in Accounts : returned[y][a] <= 1
               /\ product'[y].status = "closed" =>
                     ~Untouched(y)' \/ \E e \in Closers : TakenBy(e, y)'
    <3>1. CASE y = x
      BY <1>8, <2>2, <3>1
    <3>2. CASE y # x
      BY <1>8, <2>1, <3>2 DEF InvestInv, PaymentsFit
    <3>3. QED
      BY <3>1, <3>2
  <2>4. QED
    BY <1>1, <2>3 DEF PaymentsFit
<1>11. InterestFits'
  <2>1. \A y \in Products : product'[y].date = product[y].date
    BY <1>4
  <2>2. QED
    BY <1>1, <2>1, InterestStays
<1>12. QED
  BY <1>6, <1>7, <1>9, <1>10, <1>11 DEF InvestInv

LEMMA SetStrategyKeeps ==
    ASSUME EodAssumption, InvestAssumption, InvestInv, NEW x \in Brokers, SetStrategy(x)
    PROVE  InvestInv'
<1>1. /\ product' = [product EXCEPT ![x] = Toggled(product[x])]
      /\ accrued' = accrued /\ returned' = returned /\ gave' = gave /\ torn' = torn
      /\ irun' = irun /\ ipc' = ipc /\ iadvisory' = iadvisory /\ day' = day
  BY DEF SetStrategy, bankVars
<1>2. x \in Products /\ x \notin Savings \union Deposits
  BY DEF Products, InvestAssumption
<1>3. /\ \A y \in Products : y # x => product'[y] = product[y]
      /\ IsRow(product'[x]) /\ product'[x].date = product[x].date
  <2>1. product'[x] = Toggled(product[x])
    BY <1>1, <1>2 DEF InvestInv, InvestTyped
  <2>2. IsRow(product[x])
    BY <1>2 DEF InvestInv, InvestTyped
  <2>3. QED
    BY <1>1, <2>1, <2>2, RowToggled DEF InvestInv, InvestTyped
<1>4. \A y \in Savings \union Deposits : product'[y] = product[y]
  BY <1>2, <1>3 DEF Products
<1>5. InvestTyped'
  <2>1. product' \in [Products -> {product'[y] : y \in Products}]
    BY <1>1 DEF InvestInv, InvestTyped
  <2>2. \A y \in Products : IsRow(product'[y])
    BY <1>3 DEF InvestInv, InvestTyped
  <2>3. \A i \in InvestWorkers : IsInvestRun(irun'[i])
    BY <1>1 DEF InvestInv, InvestTyped
  <2>4. QED
    BY <1>1, <2>1, <2>2, <2>3 DEF InvestInv, InvestTyped
<1>6. OneInvestRuns' /\ HoldsFit'
  <2>1. \A i \in InvestWorkers : \A y \in irun[i].held :
          product'[y] = product[y] /\ gave'[y] = gave[y]
    BY <1>1, <1>4 DEF InvestInv, InvestTyped, IsInvestRun
  <2>2. QED
    BY <1>1, <2>1, ClientKeepsRuns
<1>7. ClosingsFit' /\ PaymentsFit'
  BY <1>1, <1>4, PaymentsStay
<1>8. InterestFits'
  BY <1>1, <1>3, InterestStays
<1>9. QED
  BY <1>5, <1>6, <1>7, <1>8 DEF InvestInv

-----------------------------------------------------------------------------
\* The bank's own steps touch none of the products.  The day ends only when no run is on.
LEMMA BankKeepsInvestInv ==
    ASSUME InvestAssumption, InvestInv, UNCHANGED investVars,
           day' = day \/ (day' = day + 1 /\ \A i \in InvestWorkers : ipc[i] = "idle")
    PROVE  InvestInv'
<1>1. /\ product' = product /\ accrued' = accrued /\ returned' = returned /\ gave' = gave
      /\ torn' = torn /\ ipc' = ipc /\ irun' = irun /\ iadvisory' = iadvisory
  BY DEF investVars
<1>2. day \in Nat /\ day' \in Nat /\ day' >= day
  BY DEF InvestInv, InvestTyped
<1>3. InvestTyped'
  <2>1. \A y \in Products : IsRow(product'[y])
    BY <1>1 DEF InvestInv, InvestTyped
  <2>2. \A i \in InvestWorkers : IsInvestRun(irun'[i])
    BY <1>1 DEF InvestInv, InvestTyped
  <2>3. QED
    BY <1>1, <1>2, <2>1, <2>2 DEF InvestInv, InvestTyped
<1>4. OneInvestRuns'
  BY <1>1 DEF InvestInv, OneInvestRuns
<1>5. HoldsFit'
  <2>1. CASE day' = day
    <3>1. ASSUME NEW i \in InvestWorkers, NEW x \in irun[i].held
          PROVE  CopyFits(irun[i], x)'
      BY <1>1, <2>1 DEF InvestInv, HoldsFit, CopyFits, Untouched
    <3>2. QED
      BY <1>1, <2>1, <3>1 DEF InvestInv, HoldsFit
  <2>2. CASE \A i \in InvestWorkers : ipc[i] = "idle"
    BY <1>1, <2>2 DEF InvestInv, HoldsFit
  <2>3. QED
    BY <2>1, <2>2
<1>6. ClosingsFit' /\ PaymentsFit'
  BY <1>1, PaymentsStay
<1>7. InterestFits'
  <2>1. \A x \in Deposits : Matures[x] \in Nat
    BY DEF InvestAssumption
  <2>2. QED
    BY <1>1, <1>2, <2>1 DEF InvestInv, InterestFits
<1>8. QED
  BY <1>3, <1>4, <1>5, <1>6, <1>7 DEF InvestInv

LEMMA BankTellsTheDay == BankNext => day' = day \/ day' = day + 1
  BY DEF BankNext, Start, RunStep, TakeItem, PayItem, SkipItem, CommitItems, Commit, AskRow,
         LockRow, ChargeFees, PaySalaries, AbortRun, Unlock, Die, BeginTransfer, TransferStep,
         LockFirst, LockSecondAndPay, AbortTransfer, CloseAccount, CreateAutopayment, NextDay

LEMMA NextKeepsInvestInv ==
    EodAssumption /\ InvestAssumption /\ InvestInv /\ [Next]_vars => InvestInv'
<1> SUFFICES ASSUME EodAssumption, InvestAssumption, InvestInv, [Next]_vars PROVE InvestInv'
  OBVIOUS
<1>1. CASE UNCHANGED vars
  BY <1>1, BankKeepsInvestInv DEF vars, bankVars
<1>2. CASE /\ BankNext /\ UNCHANGED investVars
           /\ (day' # day => \A i \in InvestWorkers : ipc[i] = "idle")
  BY <1>2, BankTellsTheDay, BankKeepsInvestInv
<1>3. ASSUME NEW i \in InvestWorkers, StartInvest(i) \/ InvestStep(i) \/ DieInvest(i)
      PROVE  InvestInv'
  <2>1. CASE StartInvest(i)
    BY <2>1, StartInvestKeeps
  <2>2. CASE PaySavings(i)
    BY <2>2, PaySavingsKeeps
  <2>3. CASE TakeDeposit(i)
    BY <2>3, TakeDepositKeeps
  <2>4. CASE AskAccount(i) \/ LockAccount(i)
    BY <2>4, BankKeepsInvestInv DEF AskAccount, LockAccount, bankButWaits
  <2>5. CASE ReturnDeposit(i)
    BY <2>5, ReturnDepositKeeps
  <2>6. CASE FailReturn(i)
    BY <2>6, FailReturnKeeps
  <2>7. CASE CommitDeposits(i)
    BY <2>7, CommitDepositsKeeps
  <2>8. CASE PayBrokers(i)
    BY <2>8, PayBrokersKeeps
  <2>9. CASE UnlockInvest(i)
    BY <2>9, UnlockInvestKeeps
  <2>10. CASE DieInvest(i)
    BY <2>10, DieInvestKeeps
  <2>11. QED
    BY <1>3, <2>1, <2>2, <2>3, <2>4, <2>5, <2>6, <2>7, <2>8, <2>9, <2>10 DEF InvestStep
<1>4. ASSUME NEW c \in Closers, CloseProduct(c) \/ PayOut(c)
      PROVE  InvestInv'
  BY <1>4, CloseProductKeeps, PayOutKeeps
<1>5. ASSUME NEW x \in Brokers, SetStrategy(x)
      PROVE  InvestInv'
  BY <1>5, SetStrategyKeeps
<1>6. QED
  BY <1>1, <1>2, <1>3, <1>4, <1>5 DEF Next

\* The inductive invariant of the investments' run: its copies of the deposits it holds are up to
\* date, a product a client closes is in one hand, and interest comes with the next date.
THEOREM InvestInvariant == Spec => []InvestInv
  BY EodAssumption, InvestAssumption, InitInvestInv, NextKeepsInvestInv, PTL DEF Spec

\* A set with one element at most.
LEMMA AtMostOne ==
    ASSUME NEW S, \A a, b \in S : a = b
    PROVE  /\ Cardinality(S) \in {0, 1}
           /\ S # {} => Cardinality(S) = 1
           /\ S = {} => Cardinality(S) = 0
<1>1. CASE S = {}
  BY <1>1, FS_EmptySet
<1>2. CASE S # {}
  <2>1. PICK a : S = {a}
    BY <1>2
  <2>2. QED
    BY <2>1, FS_Singleton
<1>3. QED
  BY <1>1, <1>2

\* "Проверка идемпотентности": a deposit is paid out once, by the worker or by the client's own
\* closing, and not closed before, unless the handler that took it is on its way. It is paid
\* twice only if a run died between the two commits of the return, or was not told of the first.
THEOREM DepositsArePaidOnce == Spec => []DepositPaidOutExactlyOnce
<1>1. EodAssumption /\ InvestInv => DepositPaidOutExactlyOnce
  <2> SUFFICES ASSUME EodAssumption, InvestInv, NEW x \in Deposits
               PROVE  /\ PaidOut(x) > 1 => x \in torn
                      /\ \A a \in Accounts : returned[x][a] <= 1
                      /\ product[x].status = "closed" =>
                            PaidOut(x) >= 1
                              \/ \E c \in Closers : ClosesInto[c].product = x /\ ipc[c] = "took"
    BY DEF DepositPaidOutExactlyOnce
  <2> DEFINE R == {a \in Accounts : returned[x][a] > 0}
  <2>1. gave[x] \in Nat /\ \A a \in Accounts : returned[x][a] \in Nat
    BY DEF InvestInv, InvestTyped
  <2>2. IsFiniteSet(R) /\ Cardinality(R) \in Nat
    BY FS_Subset, FS_CardinalityType DEF EodAssumption
  <2>3. PaidOut(x) = gave[x] + Cardinality(R)
    BY DEF PaidOut
  <2>4. x \notin torn => PaidOut(x) <= 1
    <3>1. ASSUME x \notin torn
          PROVE  /\ \A a, b \in R : a = b
                 /\ gave[x] <= 1 /\ (gave[x] = 1 => R = {})
      <4>1. \A a, b \in Accounts : returned[x][a] > 0 /\ returned[x][b] > 0 => a = b
        BY <3>1 DEF InvestInv, PaymentsFit
      <4>2. gave[x] <= 1 /\ (gave[x] = 1 => \A a \in Accounts : returned[x][a] = 0)
        BY <3>1 DEF InvestInv, PaymentsFit
      <4>3. \A a, b \in R : a = b
        BY <4>1
      <4>4. (\A a \in Accounts : returned[x][a] = 0) => R = {}
        OBVIOUS
      <4>5. QED
        BY <4>2, <4>3, <4>4
    <3> HIDE DEF R
    <3>2. QED
      BY <2>1, <2>3, <3>1, AtMostOne
  <2>5. R # {} => Cardinality(R) >= 1
    <3> HIDE DEF R
    <3>1. R # {} => Cardinality(R) # 0
      BY <2>2, FS_EmptySet
    <3>2. QED
      BY <2>2, <3>1
  <2>6. ~Untouched(x) => PaidOut(x) >= 1
    <3>1. ~Untouched(x) => gave[x] >= 1 \/ R # {}
      BY <2>1 DEF Untouched
    <3> HIDE DEF R
    <3>2. QED
      BY <2>1, <2>2, <2>3, <2>5, <3>1
  <2>7. \A a \in Accounts : returned[x][a] <= 1
    BY DEF InvestInv, PaymentsFit
  <2>8. product[x].status = "closed" => ~Untouched(x) \/ \E c \in Closers : TakenBy(c, x)
    BY DEF InvestInv, PaymentsFit
  <2>9. PaidOut(x) > 1 => x \in torn
    <3> HIDE DEF R
    <3>1. QED
      BY <2>1, <2>2, <2>3, <2>4
  <2>10. QED
    BY <2>6, <2>7, <2>8, <2>9 DEF TakenBy
<1>2. QED
  BY <1>1, EodAssumption, InvestInvariant, PTL

\* The interest of a date is added once; only a matured deposit that could not be returned
\* earns it again, with every run.
THEOREM InterestIsAddedOnce == Spec => []InterestOncePerDate
<1>1. InvestInv => InterestOncePerDate
  BY DEF InvestInv, InterestFits, InterestOncePerDate
<1>2. QED
  BY <1>1, InvestInvariant, PTL
=============================================================================
