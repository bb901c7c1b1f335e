------------------------ MODULE MCContractStatePool ------------------------
(***************************************************************************)
(* A small instance of ContractStatePool: contract data is a counter that  *)
(* wraps, one program reads and increments it, one reads it and fails on   *)
(* zero, and one operation name can be registered.                         *)
(***************************************************************************)
EXTENDS ContractStatePool, TLC

CONSTANT Modulus    \* the counter wraps here

MCData == 0 .. Modulus - 1
MCPrograms == {"increment", "take"}
MCTraps(p, d) == p = "take" /\ d = 0
MCEffect(p, d) == IF p = "increment" THEN (d + 1) % Modulus ELSE 0
MCResult(p, d) == d
MCParsed == {[data |-> 0, ops |-> {}]}

ThreadSymmetry == Permutations(Threads)
=============================================================================
