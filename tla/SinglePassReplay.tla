-------------------------- MODULE SinglePassReplay --------------------------
(***************************************************************************)
(* What a replay promises, whichever way the events come in: all of them   *)
(* are decoded, then applied to the caller's state in one pass.  Only the  *)
(* answer replaces the caller's state, and a call may always refuse.       *)
(***************************************************************************)
EXTENDS ReplayPass

CONSTANTS
    Routes,        \* the functions that replay
    Inputs,        \* what a caller may hand over: sequences of lines
    Reading(_, _), \* what a route makes of a line: "event", "skip" or "bad"
    Idle,          \* no call
    Waiting,       \* a call without an answer yet
    Nulls          \* the ways to answer null

VARIABLES
    base,    \* the state the caller holds
    route,   \* the function called
    input,   \* the lines it was handed
    line,    \* number of lines read
    read,    \* the events decoded from them
    answer   \* what the call returned

vars == <<base, route, input, line, read, answer>>

Init ==
    /\ base \in States
    /\ route \in Routes
    /\ input = <<>>
    /\ line = 0
    /\ read = <<>>
    /\ answer = Idle

Call(r, f) ==
    /\ answer = Idle
    /\ route' = r
    /\ input' = f
    /\ answer' = Waiting
    /\ UNCHANGED <<base, line, read>>

Read ==
    /\ answer = Waiting
    /\ line < Len(input)
    /\ Reading(route, input[line + 1]) # "bad"
    /\ line' = line + 1
    /\ read' = IF Reading(route, input[line + 1]) = "event"
               THEN Append(read, input[line + 1].event)
               ELSE read
    /\ UNCHANGED <<base, route, input, answer>>

Answer ==
    /\ answer = Waiting
    /\ line = Len(input)
    /\ answer' \in {t \in States : Replays(base, read, t)}
    /\ UNCHANGED <<base, route, input, line, read>>

Refuse ==
    /\ answer = Waiting
    /\ answer' \in Nulls
    /\ UNCHANGED <<base, route, input, line, read>>

(* The caller goes on with what it was answered, or with what it had.      *)
Adopt ==
    /\ answer \in States \cup Nulls
    /\ base' = IF answer \in States THEN answer ELSE base
    /\ input' = <<>>
    /\ line' = 0
    /\ read' = <<>>
    /\ answer' = Idle
    /\ UNCHANGED route

Next ==
    \/ \E r \in Routes, f \in Inputs : Call(r, f)
    \/ Read
    \/ Answer
    \/ Refuse
    \/ Adopt

Spec == Init /\ [][Next]_vars
=============================================================================
