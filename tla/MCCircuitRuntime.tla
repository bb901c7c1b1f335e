-------------------------- MODULE MCCircuitRuntime --------------------------
(***************************************************************************)
(* A small instance of CircuitRuntime: two runtimes, a counter contract,   *)
(* and a program that reads its context (the clock) and nothing else.      *)
(***************************************************************************)
EXTENDS CircuitRuntime

CONSTANT Modulus    \* the counter wraps here

MCData == 0 .. Modulus - 1
MCPrograms == {"increment", "take", "clock"}
MCTraps(p, d) == p = "take" /\ d = 0
MCEffect(p, d) ==
    CASE p = "increment" -> (d + 1) % Modulus
      [] p = "take" -> 0
      [] p = "clock" -> d
MCResult(p, d) == IF p = "clock" THEN 0 ELSE d
\* The replay's context is another one.
MCReplayResult(p, d) == IF p = "clock" THEN 1 ELSE d
MCParsed == {[data |-> 0, ops |-> {}]}
=============================================================================
