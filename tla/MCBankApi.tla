------------------------------ MODULE MCBankApi ------------------------------
(***************************************************************************)
(* Small instances of BankApi for TLC.  ann has accounts 1 (RUB, 2 units)  *)
(* and 4 (USD); bob has 2 (RUB, empty) and the older 3 (RUB, 1 unit).      *)
(* Each configuration names the calls its handlers may receive.            *)
(***************************************************************************)
EXTENDS BankApi, TLC

CONSTANTS ann, bob, c1, c2, k1

MCAccounts  == 1..4
MCCards     == {c1, c2}
MCClients   == {ann, bob}
MCKeys      == {k1}
MCOpening   == 1 :> 2 @@ 2 :> 0 @@ 3 :> 1 @@ 4 :> 1
MCOwner     == 1 :> ann @@ 2 :> bob @@ 3 :> bob @@ 4 :> ann
MCCurrency  == [a \in MCAccounts |-> IF a = 4 THEN "USD" ELSE "RUB"]
MCCreatedAt == 1 :> 1 @@ 2 :> 4 @@ 3 :> 2 @@ 4 :> 3

Transfer(from, via, dest, amount) ==
    [op |-> "transfer", from |-> from, via |-> via, dest |-> dest,
     amount |-> amount, key |-> NoKey]
Keyed(c) == [c EXCEPT !.key = k1]
Close(a) == [op |-> "close", account |-> a]
OnCard(op, c) == [op |-> op, card |-> c]

\* Transfers that meet on accounts 1, 2 and 3 from both sides, the closings they race
\* with, and one call of every other endpoint and of every refusal.
MCCalls ==
    {Transfer(1, "account", 2, 1), Transfer(2, "account", 1, 1),
     Transfer(1, "phone", bob, 1), Transfer(3, "account", 1, 1),
     Transfer(1, "card", c1, 1), Transfer(4, "account", 1, 1), Transfer(NoAccount, "account", 2, 1),
     Keyed(Transfer(1, "account", 2, 1)),
     Close(2), Close(3), Close(NoAccount),
     [op |-> "issue", account |-> 2], OnCard("block", c1), OnCard("freeze", c1),
     OnCard("reissue", c1)}

\* Transfers into one account, to see what concurrent credits do to it.
MCCreditCalls ==
    {Transfer(1, "account", 2, 1), Transfer(3, "account", 2, 1), Transfer(2, "account", 1, 1),
     Close(2)}

=============================================================================
