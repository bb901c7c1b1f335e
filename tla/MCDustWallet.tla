---- MODULE MCDustWallet ----
(* Three interchangeable coins.                                            *)
EXTENDS DustWallet, TLC

CONSTANTS c1, c2, c3

MCCoins == {c1, c2, c3}
Symmetry == Permutations(MCCoins)
====
