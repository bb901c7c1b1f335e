-------------------------- MODULE MCShieldedWallet --------------------------
EXTENDS ShieldedWallet, TLC

CONSTANTS c1, c2, c3, x1, x2

MCCoins == {c1, c2, c3}
MCValue == c1 :> 1 @@ c2 :> 2 @@ c3 :> 2
MCTransfers == {x1, x2}
Symmetry == Permutations(MCTransfers) \cup Permutations({c2, c3})
=============================================================================
