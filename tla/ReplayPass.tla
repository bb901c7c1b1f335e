----------------------------- MODULE ReplayPass -----------------------------
(***************************************************************************)
(* replay_events of the ledger crates: a batch of events applied in order. *)
(* What one event does to a state is the ledger's affair: Apply.           *)
(***************************************************************************)
EXTENDS Naturals, Sequences

CONSTANTS
    States,       \* wallet states
    Apply(_, _)   \* the state after one event, outside States if it is refused

(* The states tr on the way from s to t.                                   *)
Leads(tr, s, evs, t) ==
    /\ tr[0] = s
    /\ tr[Len(evs)] = t
    /\ \A i \in 1..Len(evs) : tr[i] = Apply(tr[i - 1], evs[i])

Replays(s, evs, t) == \E tr \in [0..Len(evs) -> States] : Leads(tr, s, evs, t)
=============================================================================
