--------------------------- MODULE MCCallPipeline ---------------------------
(***************************************************************************)
(* A small instance of CallPipeline: ceilings below, at and well above the *)
(* margin, a price that may rise twice and a margin of one rise.           *)
(***************************************************************************)
EXTENDS CallPipeline

MCCeilings == {1, 2, 3, 8}
MCCallFee(p) == 2 * p
MCDustFee(p) == p
MCMergedFee(p) == 3 * p
=============================================================================
