--------------------------- MODULE MCEventReplay ---------------------------
(***************************************************************************)
(* A state is the number of events applied; an event is its place in the   *)
(* stream and is refused anywhere else.  Inputs are all short sequences of *)
(* lines, and some longer ones in order.                                   *)
(***************************************************************************)
EXTENDS EventReplay

CONSTANTS Tip, MaxShort

MCStates == 0..Tip
MCEvents == 1..Tip
MCApply(s, e) == IF e = s + 1 THEN e ELSE Tip + 1

Clean(e) == [form |-> "clean", event |-> e]
MCLines == {Clean(e) : e \in MCEvents}
           \cup {[form |-> "padded", event |-> 2], [form |-> "nested", event |-> 2]}
           \cup [form : {"empty", "blanks", "garbage"}]

Short == UNION {[1..n -> MCLines] : n \in 0..MaxShort}
Slice(m, n) == [i \in 1..(n - m) |-> Clean(m + i)]
MCInputs == Short \cup {Slice(m, n) : m, n \in 0..Tip} \cup
            {Slice(0, n) \o <<[form |-> "empty"]>> \o Slice(n, Tip) : n \in 0..Tip}
=============================================================================
