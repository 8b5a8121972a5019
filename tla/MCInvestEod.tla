----------------------------- MODULE MCInvestEod -----------------------------
(***************************************************************************)
(* Small instances of InvestEod for TLC: ann has the accounts 1 and 2, 2   *)
(* is the older one, and one product of each kind; two days, the first     *)
(* with fees, the second with salaries.  In the instance without products  *)
(* two replicas of the bank's worker run over two autopayments.            *)
(***************************************************************************)
EXTENDS InvestEod, TLC

CONSTANTS ann, p1, p2, s1, d1, b1, c1, t1

MCOwner   == [a \in Accounts |-> ann]
MCOpening == 1 :> 1 @@ 2 :> 1
MCPlan    == [p \in AutoPayments |->
                [account |-> IF p = p1 THEN 1 ELSE 2, amount |-> 1, period |-> 1, first |-> 1]]
MCFee     == 1 :> 0 @@ 2 :> 1
MCRoute   == [t \in Transfers |-> [source |-> 1, dest |-> 2, amount |-> 1]]
MCRouteBack == [t \in Transfers |-> [source |-> 2, dest |-> 1, amount |-> 3]]
MCHolder  == [x \in Products |-> ann]
MCStake   == [x \in Products |-> 1]
MCFirst   == [x \in Products |-> 1]
MCMatures == [x \in Deposits |-> 1]
MCSeniority == 1 :> 2 @@ 2 :> 1
MCMarket  == {-1}
MCClosesInto == [c \in Closers |-> [product |-> d1, account |-> 1]]
=============================================================================
