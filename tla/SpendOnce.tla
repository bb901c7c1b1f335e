----------------------------- MODULE SpendOnce -----------------------------
(***************************************************************************)
(* What a wallet owes the node, whatever it keeps to that end: a coin is   *)
(* in one transaction at a time, and in none once it has been spent.  The  *)
(* node then has no reason to refuse a transaction for its coins.          *)
(*                                                                         *)
(* ShieldedWallet and DustWallet say which of their wallets implement it.  *)
(***************************************************************************)
CONSTANT Coins

VARIABLES
    out,    \* the transactions that have left, each the set of its coins
    spent   \* the coins the node has seen spent

vars == <<out, spent>>

Taken == (UNION out) \cup spent

Init == out = {} /\ spent = {}

\* A transaction leaves, with coins nothing else has.
Send(S) ==
    /\ S # {} /\ S \cap Taken = {}
    /\ out' = out \cup {S}
    /\ UNCHANGED spent

\* The node takes it.
Settle(S) ==
    /\ S \in out
    /\ out' = out \ {S}
    /\ spent' = spent \cup S

\* It is refused, expires or is never submitted: its coins are free again.
Lose(S) ==
    /\ S \in out
    /\ out' = out \ {S}
    /\ UNCHANGED spent

Next == \E S \in SUBSET Coins : Send(S) \/ Settle(S) \/ Lose(S)

Spec == Init /\ [][Next]_vars
=============================================================================
