------------------------------- MODULE MCSagas -------------------------------
(***************************************************************************)
(* Small instances of Sagas for TLC: ann has the accounts a1 (RUB, 2       *)
(* units) and a2 (USD) and the wallet w1, bob the account a3 (RUB, empty)  *)
(* and the blocked wallet w2.  At most two products are opened.            *)
(***************************************************************************)
EXTENDS Sagas, TLC

CONSTANTS ann, bob, a1, a2, a3, w1, w2, p1, p2

MCOpening ==
    a1 :> [owner |-> ann, balance |-> 2, status |-> "active"] @@
    a2 :> [owner |-> ann, balance |-> 1, status |-> "active"] @@
    a3 :> [owner |-> bob, balance |-> 0, status |-> "active"] @@
    w1 :> [owner |-> ann, balance |-> 1, status |-> "active"] @@
    w2 :> [owner |-> bob, balance |-> 1, status |-> "blocked"]

Fund(from, to)     == [op |-> "fund", source |-> from, dest |-> to, amount |-> 2]
Withdraw(from, to) == [op |-> "withdraw", source |-> from, dest |-> to, amount |-> 1]
Open(from, c)      == [op |-> "open", source |-> from, client |-> c, amount |-> 2]
Close(p, to)       == [op |-> "close", source |-> p, dest |-> to]

MCCalls ==
    {Fund(a1, w1), Fund(a1, w2), Withdraw(w1, a1), Withdraw(w1, a3), Withdraw(w1, NoPlace),
     Open(a1, ann), Close(p1, a1), Close(p1, a3)}

=============================================================================
