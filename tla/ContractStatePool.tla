------------------------- MODULE ContractStatePool -------------------------
(***************************************************************************)
(* The contract-state handle pool of contract_ffi.rs and every FFI call    *)
(* that touches it, as native threads interleave them.                     *)
(*                                                                         *)
(* STATE_POOL is a process-global map behind one mutex and NEXT_HANDLE an  *)
(* atomic counter. A call that takes the mutex once is one action here     *)
(* (nothing else of the pool can be observed inside it). A call that takes *)
(* it, lets it go and takes it again is split at that point:               *)
(*   contract_query          lookup+clone  | run, write back               *)
(*   contract_state_clone    lookup+clone  | fetch_add | insert            *)
(*   contract_state_create   parse, fetch_add          | insert            *)
(* contract_assemble_call_tx keeps the mutex while it replays a transcript *)
(* and is split into taking and releasing it.                              *)
(*                                                                         *)
(* Contract data is abstract: a program either traps on it or has an       *)
(* effect and a result, given by the constants.                            *)
(***************************************************************************)
EXTENDS Naturals, FiniteSets

CONSTANTS
    Threads,        \* native threads that call into the library
    MaxHandle,      \* bound on NEXT_HANDLE: how many handles are ever issued
    Data,           \* contract data (the ChargedState)
    OpNames,        \* names a contract operation may have
    Programs,       \* opcode programs
    Traps(_, _),    \* Traps(p, d): p does not decode, or running it on d fails
    Effect(_, _),   \* Effect(p, d): data after running p on d
    Result(_, _),   \* Result(p, d): events gathered by running p on d
    Results,        \* all possible event lists
    Parsed,         \* states that create may be given, parsed
    NoState,        \* no entry / no local state
    NoProgram,      \* no local program
    NoThread,       \* the mutex is free
    Shared          \* whether a thread may use a handle another was given

Handles == 1 .. MaxHandle

\* ContractState: data, and the set of registered operations.
States == [data : Data, ops : SUBSET OpNames]

ASSUME MaxHandleAssumption == MaxHandle \in Nat
ASSUME SharedAssumption == Shared \in BOOLEAN
ASSUME ParsedAssumption == Parsed \subseteq States
ASSUME EffectAssumption ==
    \A p \in Programs, d \in Data :
        /\ Effect(p, d) \in Data
        /\ Result(p, d) \in Results
ASSUME NoStateAssumption == NoState \notin States
ASSUME NoThreadAssumption == NoThread \notin Threads

VARIABLES
    pool,           \* STATE_POOL: pool[h] is a state, or NoState
    next,           \* NEXT_HANDLE
    lock,           \* the thread that keeps the mutex between two steps
    call,           \* call[t]: where t is inside a call, and its locals
    given,          \* given[t]: handles the library has returned to t
    resp,           \* resp[t]: what t's last completed call returned
    gone            \* handles some call has removed (a history variable)

vars == <<pool, next, lock, call, given, resp, gone>>

Labels == {"idle", "clone_take", "insert", "query_write", "assemble"}

\* The locals of one call: the handle argument, the handle fetched from
\* NEXT_HANDLE, the state held outside the pool, and the opcodes to run.
Calls == [at : Labels, h : 0 .. MaxHandle, new : 0 .. MaxHandle,
          st : States \cup {NoState}, prog : Programs \cup {NoProgram}]

Frame(at, h, new, st, prog) ==
    [at |-> at, h |-> h, new |-> new, st |-> st, prog |-> prog]

Idle == Frame("idle", 0, 0, NoState, NoProgram)

Responses ==
    {<<"none">>, <<"done">>, <<"error">>, <<"unreported">>, <<"assembled">>}
    \cup {<<"created", h>> : h \in Handles}
    \cup {<<"cloned", src, h>> : src \in Handles, h \in Handles}
    \cup {<<"events", r>> : r \in Results}
    \cup {<<"state", s>> : s \in States}
    \cup {<<"deployed", s>> : s \in States}

Live(h) == pool[h] # NoState

\* Handles t may pass: those the library returned to it, or, when handles
\* are shared, those it returned to anyone. Removed ones are included: a
\* caller may free twice, or query a handle a deploy has consumed.
Usable(t) == IF Shared THEN UNION {given[u] : u \in Threads} ELSE given[t]

WithOp(s, n) == [s EXCEPT !.ops = @ \cup {n}]
WithData(s, d) == [s EXCEPT !.data = d]

-----------------------------------------------------------------------------

\* A thread that is between calls; the mutex can be had.
Ready(t) == call[t] = Idle
CanLock == lock = NoThread

\* The bound on NEXT_HANDLE: a handle is left for this call besides those
\* that calls in flight have yet to take.
HandleLeft ==
    /\ next <= MaxHandle
    /\ next + Cardinality({u \in Threads : call[u].at = "clone_take"}) <= MaxHandle

Respond(t, r) ==
    /\ resp' = [resp EXCEPT ![t] = r]
    /\ call' = [call EXCEPT ![t] = Idle]

Remove(h) ==
    /\ pool' = [pool EXCEPT ![h] = NoState]
    /\ gone' = gone \cup {h}

Init ==
    /\ pool = [h \in Handles |-> NoState]
    /\ next = 1
    /\ lock = NoThread
    /\ call = [t \in Threads |-> Idle]
    /\ given = [t \in Threads |-> {}]
    /\ resp = [t \in Threads |-> <<"none">>]
    /\ gone = {}

-----------------------------------------------------------------------------
\* Slips the runs must catch: each is an action below with one mistake in it.

\* The new handle is the number of entries plus one: free makes it repeat.
CreateTakeByCount(t, s) ==
    /\ Ready(t)
    /\ HandleLeft
    /\ next' = next + 1
    /\ call' = [call EXCEPT ![t] = Frame("insert", 0,
                  Cardinality({h \in Handles : Live(h)}) + 1, s, NoProgram)]
    /\ UNCHANGED <<pool, lock, given, resp, gone>>

\* The counter is loaded and not advanced.
CloneTakeNoAdvance(t) ==
    /\ call[t].at = "clone_take"
    /\ call' = [call EXCEPT ![t] = Frame("insert", call[t].h, next, call[t].st, NoProgram)]
    /\ UNCHANGED <<pool, next, lock, given, resp, gone>>

\* The fetched handle is not stored.
CloneTakeNoHandle(t) ==
    /\ call[t].at = "clone_take"
    /\ next <= MaxHandle
    /\ next' = next + 1
    /\ call' = [call EXCEPT ![t] = Frame("insert", call[t].h, 0, call[t].st, NoProgram)]
    /\ UNCHANGED <<pool, lock, given, resp, gone>>

\* drop(pool) is missing.
CloneReadKeepsLock(t, h) ==
    /\ Ready(t)
    /\ CanLock
    /\ Live(h)
    /\ HandleLeft
    /\ lock' = t
    /\ call' = [call EXCEPT ![t] = Frame("clone_take", h, 0, pool[h], NoProgram)]
    /\ UNCHANGED <<pool, next, given, resp, gone>>

\* Only the data is copied, the registered operations are not.
CloneReadDataOnly(t, h) ==
    /\ Ready(t)
    /\ CanLock
    /\ Live(h)
    /\ HandleLeft
    /\ call' = [call EXCEPT ![t] =
                  Frame("clone_take", h, 0, [pool[h] EXCEPT !.ops = {}], NoProgram)]
    /\ UNCHANGED <<pool, next, lock, given, resp, gone>>

\* A copy is stored under the handle it was copied from.
InsertUnderSource(t) ==
    LET c == call[t] IN
    /\ c.at = "insert"
    /\ CanLock
    /\ pool' = [pool EXCEPT ![IF c.h = 0 THEN c.new ELSE c.h] = c.st]
    /\ given' = [given EXCEPT ![t] = @ \cup {c.new}]
    /\ Respond(t, IF c.h = 0 THEN <<"created", c.new>> ELSE <<"cloned", c.h, c.new>>)
    /\ UNCHANGED <<next, lock, gone>>

\* entry(handle).or_insert instead of get_mut.
SetOperationOrInsert(t, h, n) ==
    /\ Ready(t)
    /\ CanLock
    /\ pool' = [pool EXCEPT ![h] =
                  WithOp(IF Live(h) THEN pool[h] ELSE CHOOSE s \in Parsed : TRUE, n)]
    /\ Respond(t, <<"done">>)
    /\ UNCHANGED <<next, lock, given, gone>>

\* A run that fails is tried again.
QueryRetries(t) ==
    /\ call[t].at = "query_write"
    /\ Traps(call[t].prog, call[t].st.data)
    /\ UNCHANGED vars

\* The state written back is built anew around the data.
QueryWriteDropsOps(t) ==
    LET c == call[t] IN
    /\ c.at = "query_write"
    /\ CanLock
    /\ ~Traps(c.prog, c.st.data)
    /\ pool' = [pool EXCEPT ![c.h] = [data |-> Effect(c.prog, c.st.data), ops |-> {}]]
    /\ Respond(t, <<"events", Result(c.prog, c.st.data)>>)
    /\ UNCHANGED <<next, lock, given, gone>>

\* The new state is not written back.
QueryWriteForgets(t) ==
    LET c == call[t] IN
    /\ c.at = "query_write"
    /\ CanLock
    /\ ~Traps(c.prog, c.st.data)
    /\ Respond(t, <<"events", Result(c.prog, c.st.data)>>)
    /\ UNCHANGED <<pool, next, lock, given, gone>>

-----------------------------------------------------------------------------

\* A call whose arguments do not parse: create, create_with_nulls, query,
\* assemble and deploy answer with 0 or an error before they touch the pool
\* or take a handle.
Rejected(t) ==
    /\ Ready(t)
    /\ Respond(t, <<"error">>)
    /\ UNCHANGED <<pool, next, lock, given, gone>>

\* The same on input that parses to s: NEXT_HANDLE.fetch_add, no mutex.
CreateTake(t, s) ==
    /\ Ready(t)
    /\ HandleLeft
    /\ next' = next + 1
    /\ call' = [call EXCEPT ![t] = Frame("insert", 0, next, s, NoProgram)]
    /\ UNCHANGED <<pool, lock, given, resp, gone>>

\* contract_state_clone, first critical section.
CloneMissing(t, h) ==
    /\ Ready(t)
    /\ CanLock
    /\ ~Live(h)
    /\ Respond(t, <<"error">>)
    /\ UNCHANGED <<pool, next, lock, given, gone>>

\* The guard is dropped (drop(pool)) before anything else is done.
CloneRead(t, h) ==
    /\ Ready(t)
    /\ CanLock
    /\ Live(h)
    /\ HandleLeft
    /\ call' = [call EXCEPT ![t] = Frame("clone_take", h, 0, pool[h], NoProgram)]
    /\ UNCHANGED <<pool, next, lock, given, resp, gone>>

\* contract_state_clone's fetch_add.
CloneTake(t) ==
    /\ call[t].at = "clone_take"
    /\ next <= MaxHandle
    /\ next' = next + 1
    /\ call' = [call EXCEPT ![t] = Frame("insert", call[t].h, next, call[t].st, NoProgram)]
    /\ UNCHANGED <<pool, lock, given, resp, gone>>

\* The insert that ends create (no source) and clone (source call[t].h).
Insert(t) ==
    LET c == call[t] IN
    /\ c.at = "insert"
    /\ CanLock
    /\ pool' = [pool EXCEPT ![c.new] = c.st]
    /\ given' = [given EXCEPT ![t] = @ \cup {c.new}]
    /\ Respond(t, IF c.h = 0 THEN <<"created", c.new>> ELSE <<"cloned", c.h, c.new>>)
    /\ UNCHANGED <<next, lock, gone>>

\* contract_state_serialize and contract_state_read_fields.
ReadState(t, h) ==
    /\ Ready(t)
    /\ CanLock
    /\ Respond(t, IF Live(h) THEN <<"state", pool[h]>> ELSE <<"error">>)
    /\ UNCHANGED <<pool, next, lock, given, gone>>

\* contract_state_set_operation: a missing handle is ignored.
SetOperation(t, h, n) ==
    /\ Ready(t)
    /\ CanLock
    /\ pool' = IF Live(h) THEN [pool EXCEPT ![h] = WithOp(pool[h], n)] ELSE pool
    /\ Respond(t, <<"done">>)
    /\ UNCHANGED <<next, lock, given, gone>>

\* contract_state_free: removing a missing handle is a no-op.
Free(t, h) ==
    /\ Ready(t)
    /\ CanLock
    /\ Remove(h)
    /\ Respond(t, <<"done">>)
    /\ UNCHANGED <<next, lock, given>>

\* contract_query on a handle that is not in the pool.
QueryMissing(t, h) ==
    /\ Ready(t)
    /\ CanLock
    /\ ~Live(h)
    /\ Respond(t, <<"error">>)
    /\ UNCHANGED <<pool, next, lock, given, gone>>

\* contract_query clones the state out and lets the mutex go.
QueryRead(t, h, p) ==
    /\ Ready(t)
    /\ CanLock
    /\ Live(h)
    /\ call' = [call EXCEPT ![t] = Frame("query_write", h, 0, pool[h], p)]
    /\ UNCHANGED <<pool, next, lock, given, resp, gone>>

\* The opcodes do not decode, or running them fails: nothing is written.
QueryFails(t) ==
    /\ call[t].at = "query_write"
    /\ Traps(call[t].prog, call[t].st.data)
    /\ Respond(t, <<"error">>)
    /\ UNCHANGED <<pool, next, lock, given, gone>>

\* The run succeeds: the snapshot with its new data replaces whatever the
\* handle names by now. Encoding the events or the gas may then still fail,
\* and the caller gets an error although the state was written.
QueryWrite(t) ==
    LET c == call[t] IN
    /\ c.at = "query_write"
    /\ CanLock
    /\ ~Traps(c.prog, c.st.data)
    /\ pool' = [pool EXCEPT ![c.h] = WithData(c.st, Effect(c.prog, c.st.data))]
    /\ \/ Respond(t, <<"events", Result(c.prog, c.st.data)>>)
       \/ Respond(t, <<"unreported">>)
    /\ UNCHANGED <<next, lock, given, gone>>

\* assemble_deploy_tx_impl: the entry is taken out of the pool before the
\* verifier keys are decoded, so a bad key loses it.
DeployMissing(t, h) ==
    /\ Ready(t)
    /\ CanLock
    /\ ~Live(h)
    /\ Respond(t, <<"error">>)
    /\ UNCHANGED <<pool, next, lock, given, gone>>

Deploy(t, h) ==
    /\ Ready(t)
    /\ CanLock
    /\ Live(h)
    /\ Remove(h)
    /\ \/ Respond(t, <<"deployed", pool[h]>>)
       \/ Respond(t, <<"error">>)
    /\ UNCHANGED <<next, lock, given>>

\* assemble_call_tx_impl takes the mutex, needs both handles, and keeps the
\* mutex while the transcript is replayed on the initial state.
AssembleMissing(t, hi, h) ==
    /\ Ready(t)
    /\ CanLock
    /\ ~(Live(hi) /\ Live(h))
    /\ Respond(t, <<"error">>)
    /\ UNCHANGED <<pool, next, lock, given, gone>>

AssembleLock(t, hi, h) ==
    /\ Ready(t)
    /\ CanLock
    /\ Live(hi) /\ Live(h)
    /\ lock' = t
    /\ call' = [call EXCEPT ![t] = Frame("assemble", hi, 0, NoState, NoProgram)]
    /\ UNCHANGED <<pool, next, given, resp, gone>>

\* The replay accepts the transcript (ok) or reports a mismatch.
AssembleUnlock(t, ok) ==
    /\ call[t].at = "assemble"
    /\ lock = t
    /\ lock' = NoThread
    /\ Respond(t, IF ok THEN <<"assembled">> ELSE <<"error">>)
    /\ UNCHANGED <<pool, next, given, gone>>

-----------------------------------------------------------------------------

\* A new call, on a handle or not.
Start(t) ==
    \/ Rejected(t)
    \/ \E s \in Parsed : CreateTake(t, s)
    \/ \E h \in Usable(t) :
        \/ CloneMissing(t, h) \/ CloneRead(t, h)
        \/ ReadState(t, h)
        \/ \E n \in OpNames : SetOperation(t, h, n)
        \/ Free(t, h)
        \/ QueryMissing(t, h)
        \/ \E p \in Programs : QueryRead(t, h, p)
        \/ DeployMissing(t, h) \/ Deploy(t, h)
        \/ \E hi \in Usable(t) : AssembleMissing(t, hi, h) \/ AssembleLock(t, hi, h)

\* The rest of a call that has begun.
Continue(t) ==
    \/ CloneTake(t)
    \/ Insert(t)
    \/ QueryFails(t)
    \/ QueryWrite(t)
    \/ \E ok \in BOOLEAN : AssembleUnlock(t, ok)

Next == \E t \in Threads : Start(t) \/ Continue(t)

Spec == Init /\ [][Next]_vars

\* A thread inside a call goes on, and is not passed over for ever when the
\* mutex is let go: critical sections are finite and no call parks in one.
\* Nothing makes a thread start a call.
FairSpec == Spec /\ \A t \in Threads : SF_vars(Continue(t))

-----------------------------------------------------------------------------

\* Every variable keeps its type.
TypeOK ==
    /\ pool \in [Handles -> States \cup {NoState}]
    /\ next \in 1 .. MaxHandle + 1
    /\ lock \in Threads \cup {NoThread}
    /\ call \in [Threads -> Calls]
    /\ given \in [Threads -> SUBSET Handles]
    /\ resp \in [Threads -> Responses]
    /\ gone \in SUBSET Handles

Given == UNION {given[t] : t \in Threads}

\* The fetched handle of a call that has yet to insert is below NEXT_HANDLE,
\* names no entry, was removed by nobody, is known to no caller, and no other
\* call in flight holds it: an insert cannot overwrite or alias an entry,
\* however create and clone calls of several threads interleave.
FreshHandles ==
    \A t \in Threads : call[t].at = "insert" =>
        /\ call[t].new \in 1 .. next - 1
        /\ ~Live(call[t].new)
        /\ call[t].new \notin Given \cup gone
        /\ \A u \in Threads : call[u].at = "insert" /\ u # t => call[u].new # call[t].new

\* Two callers are never given the same handle.
DisjointHandles ==
    \A t, u \in Threads : t # u => given[t] \cap given[u] = {}

\* A thread never waits for the pool's mutex while it keeps it (the mutex is
\* not re-entrant): the only step that leaves it taken is the replay of
\* assemble_call, and there the holder's next step releases it. In particular
\* the guard of clone's lookup is dropped before its insert locks again.
NeverWaitsHoldingLock ==
    \A t \in Threads : lock = t <=> call[t].at = "assemble"

\* A call that has begun returns, on its own thread, whatever the calls of
\* the other threads do to its handle or hold the mutex for.
CallsReturn ==
    \A t \in Threads : ~Ready(t) ~> Ready(t)

\* Once free or deploy has taken an entry out, its handle names nothing: a
\* later lookup fails (state_pool_len_reflects_create_and_free) and a state
\* is deployed at most once. A query that was running on it must not bring
\* it back.
FreedStaysGone ==
    \A h \in gone : ~Live(h)

\* However callers share handles, the one thing that brings a removed entry
\* back is the write-back of a contract_query that had read it before: a
\* clone that raced with the removal, a create, a set_operation never do.
OnlyWriteBacksRevive ==
    [][\A h \in gone : ~Live(h) /\ Live(h)' =>
          \E t \in Threads : QueryWrite(t) /\ call[t].h = h]_vars

\* A call that will write back, or insert a copy of, a state it read earlier
\* still holds what the handle names: no update of another call is lost.
SnapshotCurrent ==
    \A t \in Threads :
        LET c == call[t] IN
        c.at \in {"clone_take", "query_write"} \/ (c.at = "insert" /\ c.h # 0) =>
            c.h \in Handles /\ Live(c.h) /\ pool[c.h] = c.st

\* With a state in hand, the whole state is what the effect is applied to.
StateEffect(p, s) == WithData(s, Effect(p, s.data))
StateResult(p, s) == Result(p, s.data)

\* Handles that name or have named an entry.
Used == gone \cup {h \in Handles : Live(h)}

\* Callers that keep to their own handles cannot tell the pool from one in
\* which each call happens at once: same entries, same answers.
Atomic == INSTANCE AtomicStatePool
    WITH Effect <- StateEffect, Result <- StateResult,
         used <- Used
ImplementsAtomicPool == Atomic!Spec
=============================================================================
