--------------------------- MODULE CircuitRuntime ---------------------------
(***************************************************************************)
(* A JS runtime executing contract circuits on the pool: clone the handle  *)
(* of the state, keep it as the initial state, run one contract_query per  *)
(* ledger operation against the clone, record each query's events, and     *)
(* hand the record (the public transcript) with both handles to            *)
(* contract_assemble_call_tx, which replays it on the initial state and    *)
(* refuses a read that differs.                                            *)
(*                                                                         *)
(* The runtime itself is not part of the library. Which handle is cloned   *)
(* and which is passed as what is taken from the tests of readmismatch_    *)
(* repro; one query per operation from the comment on the device's path    *)
(* there. Between circuits a thread makes any other call.                  *)
(***************************************************************************)
EXTENDS ContractStatePool, Sequences

CONSTANTS
    MaxQueries,             \* bound on the queries of one circuit
    ReplayResult(_, _)      \* ReplayResult(p, d): what p reads when replayed

ASSUME MaxQueriesAssumption == MaxQueries \in Nat

VARIABLE circ   \* circ[t]: the circuit t is executing

cvars == <<vars, circ>>

Phases == {"none", "cloning", "running", "assembling"}

\* One entry of a public transcript: the operation and the read it recorded.
Records == [prog : Programs, read : Results]

Circuits == [phase : Phases, init : 0 .. MaxHandle, work : 0 .. MaxHandle,
             tr : Seq(Records)]

NoCircuit == [phase |-> "none", init |-> 0, work |-> 0, tr |-> <<>>]

\* path is the data before, between and after the operations of tr, each of
\* which reads what tr recorded.
IsRun(path, tr) ==
    \A i \in 1 .. Len(tr) :
        /\ ~Traps(tr[i].prog, path[i])
        /\ Result(tr[i].prog, path[i]) = tr[i].read
        /\ path[i + 1] = Effect(tr[i].prog, path[i])

\* Running tr by contract_query from d reads what tr recorded and ends at e.
RunsTo(d, tr, e) ==
    \E path \in [1 .. Len(tr) + 1 -> Data] :
        path[1] = d /\ path[Len(tr) + 1] = e /\ IsRun(path, tr)

\* partition_transcripts on the initial state finds no ReadMismatch. Its
\* context is the call's own (address, chain block time), not contract_query's
\* (no address, wall clock), so a program may read something else.
Replays(d, tr) ==
    \E path \in [1 .. Len(tr) + 1 -> Data] :
        /\ path[1] = d
        /\ \A i \in 1 .. Len(tr) :
            /\ ~Traps(tr[i].prog, path[i])
            /\ ReplayResult(tr[i].prog, path[i]) = tr[i].read
            /\ path[i + 1] = Effect(tr[i].prog, path[i])

\* No operation of tr reads the context it runs in.
ReadsNoContext(tr) ==
    \A i \in 1 .. Len(tr) : \A d \in Data :
        ReplayResult(tr[i].prog, d) = Result(tr[i].prog, d)

CInit == Init /\ circ = [t \in Threads |-> NoCircuit]

-----------------------------------------------------------------------------

\* Any call that is not part of a circuit.
Outside(t) ==
    /\ circ[t].phase = "none"
    /\ Start(t) \/ Continue(t)
    /\ UNCHANGED circ

\* The state's handle stays the initial one: the circuit is to run on a clone.
Begin(t, h) ==
    /\ circ[t].phase = "none"
    /\ CloneRead(t, h)
    /\ circ' = [circ EXCEPT ![t] =
        [phase |-> "cloning", init |-> h, work |-> 0, tr |-> <<>>]]

BeginTake(t) ==
    /\ circ[t].phase = "cloning"
    /\ CloneTake(t)
    /\ UNCHANGED circ

\* A slip the run must catch: the circuit runs on the initial handle itself.
BeginDoneAliased(t) ==
    /\ circ[t].phase = "cloning"
    /\ Insert(t)
    /\ circ' = [circ EXCEPT ![t].phase = "running", ![t].work = call[t].h]

BeginDone(t) ==
    /\ circ[t].phase = "cloning"
    /\ Insert(t)
    /\ circ' = [circ EXCEPT ![t].phase = "running", ![t].work = call[t].new]

Abort(t) == circ' = [circ EXCEPT ![t] = NoCircuit]

\* The next ledger operation of the circuit.
Op(t, p) ==
    /\ circ[t].phase = "running"
    /\ Len(circ[t].tr) < MaxQueries
    /\ \/ QueryRead(t, circ[t].work, p) /\ UNCHANGED circ
       \/ QueryMissing(t, circ[t].work) /\ Abort(t)

\* Its events are recorded; an error ends the circuit.
OpDone(t) ==
    /\ circ[t].phase = "running"
    /\ \/ /\ QueryWrite(t)
          /\ resp'[t] # <<"unreported">>
          /\ circ' = [circ EXCEPT ![t].tr =
                Append(@, [prog |-> call[t].prog, read |-> resp'[t][2]])]
       \/ /\ QueryWrite(t)
          /\ resp'[t] = <<"unreported">>
          /\ Abort(t)
       \/ QueryFails(t) /\ Abort(t)

\* contract_assemble_call_tx with the recorded transcript.
Assemble(t) ==
    /\ circ[t].phase = "running"
    /\ \/ /\ AssembleLock(t, circ[t].init, circ[t].work)
          /\ circ' = [circ EXCEPT ![t].phase = "assembling"]
       \/ AssembleMissing(t, circ[t].init, circ[t].work) /\ Abort(t)

AssembleDone(t) ==
    /\ circ[t].phase = "assembling"
    /\ AssembleUnlock(t, Replays(pool[call[t].h].data, circ[t].tr))
    /\ Abort(t)

CNext ==
    \E t \in Threads :
        \/ Outside(t)
        \/ \E h \in Usable(t) : Begin(t, h)
        \/ BeginTake(t) \/ BeginDone(t)
        \/ \E p \in Programs : Op(t, p)
        \/ OpDone(t)
        \/ Assemble(t) \/ AssembleDone(t)

CSpec == CInit /\ [][CNext]_cvars

-----------------------------------------------------------------------------

CTypeOK == TypeOK /\ circ \in [Threads -> Circuits]

\* Between two operations of a circuit, the transcript recorded so far leads
\* from the data of the initial handle to the data of the working handle:
\* every query saw the previous one's write-back, and none of them reached
\* the state that was cloned (split_query_path_preserves_counter).
TranscriptMatchesPool ==
    \A t \in Threads :
        LET c == circ[t] IN
        c.phase \in {"running", "assembling"} =>
            /\ Live(c.init) /\ Live(c.work) /\ c.init # c.work
            /\ RunsTo(pool[c.init].data, c.tr, pool[c.work].data)

\* A runtime that records what the library told it is refused only for having
\* read its context, which contract_query and the replay give differently:
\* when any other transcript is replayed on the initial state, no read
\* differs (corrected_transcript_assembles_on_evolved_state).
HonestCallAssembles ==
    \A t \in Threads :
        circ[t].phase = "assembling" =>
            /\ Live(circ[t].init)
            /\ ReadsNoContext(circ[t].tr) =>
                Replays(pool[circ[t].init].data, circ[t].tr)
=============================================================================
