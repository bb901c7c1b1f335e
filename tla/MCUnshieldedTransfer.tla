------------------------ MODULE MCUnshieldedTransfer ------------------------
EXTENDS UnshieldedTransfer, TLC

CONSTANTS k1, k2

(* Two UTXOs of each key, alternating in the order of the ledger.         *)
MCOwner == 1 :> k1 @@ 2 :> k2 @@ 3 :> k1 @@ 4 :> k2
=============================================================================
