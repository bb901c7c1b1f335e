-------------------------- MODULE AtomicStatePool --------------------------
(***************************************************************************)
(* What the contract-state pool of contract_ffi.rs promises its callers:   *)
(* a map from handles to contract states in which every call takes effect  *)
(* in one step, together with the answer it returns, and in which a handle *)
(* that has been used for one entry is never used for another.             *)
(*                                                                         *)
(* ContractStatePool is the code's version, where a call that reads a      *)
(* snapshot, runs, and writes back is several steps; ContractStatePool     *)
(* states when that version implements this one.                           *)
(***************************************************************************)
EXTENDS Naturals

CONSTANTS
    Threads,        \* native threads that call into the library
    Handles,        \* handles the library may hand out
    States,         \* contract states
    NoState,        \* "no entry in the map"
    Programs,       \* opcode programs a query may run
    OpNames,        \* circuit names set_operation may register
    Effect(_, _),   \* Effect(p, s): the state after running p on s
    Result(_, _),   \* Result(p, s): the events p reports when run on s
    WithOp(_, _)    \* WithOp(s, n): s with operation n registered

VARIABLES
    pool,           \* pool[h] is the state h names, or NoState
    used,           \* handles that have named an entry so far
    resp            \* resp[t] is the answer to t's last completed call

vars == <<pool, used, resp>>

Answer(t, r) == resp' = [resp EXCEPT ![t] = r]

Init ==
    /\ pool = [h \in Handles |-> NoState]
    /\ used = {}
    /\ resp = [t \in Threads |-> <<"none">>]

\* A new entry, under a handle that never named one before.
Create(t, h, s) ==
    /\ h \notin used
    /\ pool' = [pool EXCEPT ![h] = s]
    /\ used' = used \cup {h}
    /\ Answer(t, <<"created", h>>)

\* A second entry with the state the source names at this very moment.
Clone(t, src, h) ==
    /\ h \notin used
    /\ pool[src] # NoState
    /\ pool' = [pool EXCEPT ![h] = pool[src]]
    /\ used' = used \cup {h}
    /\ Answer(t, <<"cloned", src, h>>)

\* The program runs on the state h names now, and its result replaces it.
\* The events may fail to reach the caller after the state has changed.
Query(t, h, p) ==
    /\ pool[h] # NoState
    /\ pool' = [pool EXCEPT ![h] = Effect(p, pool[h])]
    /\ \/ Answer(t, <<"events", Result(p, pool[h])>>)
       \/ Answer(t, <<"unreported">>)
    /\ UNCHANGED used

SetOperation(t, h, n) ==
    /\ pool[h] # NoState
    /\ pool' = [pool EXCEPT ![h] = WithOp(pool[h], n)]
    /\ Answer(t, <<"done">>)
    /\ UNCHANGED used

Read(t, h) ==
    /\ pool[h] # NoState
    /\ Answer(t, <<"state", pool[h]>>)
    /\ UNCHANGED <<pool, used>>

\* Free and deploy both take the entry out; deploy hands out its state.
Remove(t, h) ==
    /\ pool[h] # NoState
    /\ pool' = [pool EXCEPT ![h] = NoState]
    /\ \/ Answer(t, <<"done">>)
       \/ Answer(t, <<"deployed", pool[h]>>)
       \/ Answer(t, <<"error">>)
    /\ UNCHANGED used

\* A call that changes no entry: a failure, or a no-op on a missing one.
NoEffect(t) ==
    /\ \E r \in {<<"error">>, <<"done">>, <<"assembled">>} : Answer(t, r)
    /\ UNCHANGED <<pool, used>>

Step(t) ==
    \/ \E h \in Handles, s \in States : Create(t, h, s)
    \/ \E src, h \in Handles : Clone(t, src, h)
    \/ \E h \in Handles, p \in Programs : Query(t, h, p)
    \/ \E h \in Handles, n \in OpNames : SetOperation(t, h, n)
    \/ \E h \in Handles : Read(t, h) \/ Remove(t, h)
    \/ NoEffect(t)

Next == \E t \in Threads : Step(t)

Spec == Init /\ [][Next]_vars
=============================================================================
