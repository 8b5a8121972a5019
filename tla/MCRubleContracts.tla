--------------------------- MODULE MCRubleContracts ---------------------------
(***************************************************************************)
(* Small instances of RubleContracts for TLC: three wallets, of which 3 is *)
(* blocked, at most two contracts, and the calls each configuration lets   *)
(* its handlers receive.                                                   *)
(***************************************************************************)
EXTENDS RubleContracts, TLC

CONSTANTS k1, k2

MCWallets   == 1..3
MCContracts == {k1, k2}
MCOpening   == 1 :> 2 @@ 2 :> 1 @@ 3 :> 0
MCBlocked   == {3}

Transfer(from, to) == [op |-> "transfer", from |-> from, to |-> to, amount |-> 1]
Create(from, to, amount) == [op |-> "create", from |-> from, to |-> to, amount |-> amount]
Condition(c, status) == [op |-> "condition", contract |-> c, status |-> status]

\* Contracts in both directions between wallets 1 and 2, transfers that cross them, the
\* oracle, and a creation the database refuses.
MCCalls ==
    {Create(1, 2, 2), Create(2, 1, 1), Create(1, NoWallet, 1), Transfer(1, 2), Transfer(2, 1),
     Transfer(1, 3), Condition(k1, "fulfilled")}

=============================================================================
