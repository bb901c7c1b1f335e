------------------------ MODULE CircuitRuntimeProofs ------------------------
(***************************************************************************)
(* That a runtime which keeps to its own handles is never refused by       *)
(* contract_assemble_call_tx, for any number of runtimes, any programs and *)
(* any data.                                                               *)
(***************************************************************************)
EXTENDS CircuitRuntime, ContractStatePoolProofs

\* A run one operation longer.
LEMMA RunAppend ==
    ASSUME NEW d \in Data, NEW e \in Data, NEW tr \in Seq(Records), RunsTo(d, tr, e),
           NEW p \in Programs, ~Traps(p, e)
    PROVE  RunsTo(d, Append(tr, [prog |-> p, read |-> Result(p, e)]), Effect(p, e))
<1> DEFINE n == Len(tr)
           rec == [prog |-> p, read |-> Result(p, e)]
           tr2 == Append(tr, rec)
<1>1. PICK path \in [1 .. n + 1 -> Data] : path[1] = d /\ path[n + 1] = e /\ IsRun(path, tr)
  BY DEF RunsTo
<1> DEFINE path2 == [i \in 1 .. Len(tr2) + 1 |-> IF i = n + 2 THEN Effect(p, e) ELSE path[i]]
<1>2. n \in Nat /\ Len(tr2) = n + 1 /\ tr2[n + 1] = rec /\ \A i \in 1 .. n : tr2[i] = tr[i]
  OBVIOUS
<1>3. path2 \in [1 .. Len(tr2) + 1 -> Data]
  BY <1>1, <1>2, EffectAssumption
<1>4. path2[1] = d /\ path2[Len(tr2) + 1] = Effect(p, e) /\ path2[n + 1] = e
  BY <1>1, <1>2
<1>5. \A i \in 1 .. n : path2[i] = path[i] /\ path2[i + 1] = path[i + 1]
  BY <1>2
<1>6. ASSUME NEW i \in 1 .. Len(tr2)
      PROVE  /\ ~Traps(tr2[i].prog, path2[i])
             /\ Result(tr2[i].prog, path2[i]) = tr2[i].read
             /\ path2[i + 1] = Effect(tr2[i].prog, path2[i])
  <2>1. CASE i = n + 1
    BY <1>2, <1>4, <2>1
  <2>2. CASE i \in 1 .. n
    BY <1>1, <1>2, <1>5, <2>2 DEF IsRun
  <2>3. QED
    BY <1>2, <2>1, <2>2
<1>7. IsRun(path2, tr2)
  BY <1>6 DEF IsRun
<1>8. QED
  BY <1>3, <1>4, <1>7 DEF RunsTo

LEMMA RunEmpty ==
    ASSUME NEW d \in Data
    PROVE  RunsTo(d, <<>>, d)
<1> DEFINE path == [i \in 1 .. 1 |-> d]
<1>1. path \in [1 .. Len(<<>>) + 1 -> Data] /\ path[1] = d /\ path[Len(<<>>) + 1] = d
  OBVIOUS
<1>2. IsRun(path, <<>>)
  BY DEF IsRun
<1>3. QED
  BY <1>1, <1>2 DEF RunsTo

-----------------------------------------------------------------------------

\* Where the runtime of thread t stands in its circuit.
Cloning(t) ==
    /\ call[t].at \in {"clone_take", "insert"}
    /\ call[t].h = circ[t].init
    /\ circ[t].init \in given[t]
    /\ circ[t].tr = <<>>

Running(t) ==
    /\ circ[t].init \in given[t] /\ circ[t].work \in given[t]
    /\ circ[t].init # circ[t].work
    /\ Live(circ[t].init) /\ Live(circ[t].work)
    /\ RunsTo(pool[circ[t].init].data, circ[t].tr, pool[circ[t].work].data)

CircuitAt(t) ==
    /\ circ[t].phase = "cloning" => Cloning(t)
    /\ circ[t].phase = "running" =>
        /\ Running(t)
        /\ call[t].at \in {"idle", "query_write"}
        /\ call[t].at = "query_write" => call[t].h = circ[t].work
    /\ circ[t].phase = "assembling" =>
        /\ Running(t)
        /\ call[t].at = "assemble" /\ call[t].h = circ[t].init

\* The inductive invariant of a runtime that keeps to its own handles.
CircInv ==
    /\ circ \in [Threads -> Circuits]
    /\ \A t \in Threads : CircuitAt(t)

LEMMA NoCircuitType == NoCircuit \in Circuits /\ NoCircuit.phase = "none"
  BY MaxHandleAssumption DEF NoCircuit, Circuits, Phases

LEMMA CircInit == CInit => CircInv
  BY NoCircuitType DEF CInit, CircInv, CircuitAt

-----------------------------------------------------------------------------

\* Whoever uses which handle: the circuits keep their types, and a runtime
\* uses handles it may use.
UsesInv ==
    /\ circ \in [Threads -> Circuits]
    /\ \A t \in Threads :
        /\ circ[t].phase # "none" => circ[t].init \in Usable(t)
        /\ circ[t].phase \in {"running", "assembling"} => circ[t].work \in Usable(t)

LEMMA UsesInit == CInit => UsesInv
  BY NoCircuitType DEF CInit, UsesInv

\* A step of a runtime is one of the pool's.
LEMMA RuntimeStepOfThread ==
    ASSUME UsesInv, NEW t \in Threads,
           \/ Outside(t)
           \/ \E h \in Usable(t) : Begin(t, h)
           \/ BeginTake(t) \/ BeginDone(t)
           \/ \E p \in Programs : Op(t, p)
           \/ OpDone(t) \/ Assemble(t) \/ AssembleDone(t)
    PROVE  Start(t) \/ Continue(t)
<1>1. CASE \/ Outside(t)
           \/ \E h \in Usable(t) : Begin(t, h)
           \/ BeginTake(t) \/ BeginDone(t) \/ OpDone(t) \/ AssembleDone(t)
  BY <1>1 DEF Start, Continue, Outside, Begin, BeginTake, BeginDone, OpDone, AssembleDone, Replays
<1>2. CASE Assemble(t)
  BY <1>2 DEF Start, Assemble, UsesInv
<1>3. CASE \E p \in Programs : Op(t, p)
  BY <1>3 DEF Start, Op, UsesInv
<1>4. QED
  BY <1>1, <1>2, <1>3

LEMMA RuntimeStepIsPoolStep ==
    ASSUME UsesInv, [CNext]_cvars
    PROVE  [Next]_vars
<1>1. CASE UNCHANGED cvars
  BY <1>1 DEF cvars, vars
<1>2. CASE CNext
  <2>1. \E t \in Threads : Start(t) \/ Continue(t)
    BY <1>2, RuntimeStepOfThread DEF CNext
  <2>2. QED
    BY <2>1 DEF Next
<1>3. QED
  BY <1>1, <1>2

\* What a caller may use it may use for ever.
LEMMA UsableGrows ==
    ASSUME TypeOK, [Next]_vars, NEW t \in Threads
    PROVE  Usable(t) \subseteq Usable(t)'
<1>1. \A u \in Threads : given[u] \subseteq given'[u]
  <2>1. ASSUME NEW v \in Threads, Insert(v)
        PROVE  \A u \in Threads : given[u] \subseteq given'[u]
    BY <2>1 DEF Insert, TypeOK
  <2>2. given' = given \/ \E v \in Threads : Insert(v)
    BY Steps DEF vars, Rejected, CreateTake, CloneTake, QueryFails, QueryWrite, AssembleUnlock,
         CloneMissing, CloneRead, ReadState, SetOperation, Free, QueryMissing, QueryRead,
         DeployMissing, Deploy, AssembleMissing, AssembleLock
  <2>3. QED
    BY <2>1, <2>2
<1>2. QED
  BY <1>1 DEF Usable

LEMMA UsesStep ==
    ASSUME PoolInv, UsesInv, [CNext]_cvars
    PROVE  UsesInv'
<1>p. TypeOK /\ HandleInv
  BY DEF PoolInv, HandleInv
<1>g. \A t \in Threads : Usable(t) \subseteq Usable(t)' /\ Usable(t) \subseteq 0 .. MaxHandle
  BY <1>p, UsableGrows, RuntimeStepIsPoolStep, UsableGiven, MaxHandleAssumption DEF Handles, Given
\* A step that gives t's circuit the value c.
<1>1. ASSUME NEW t \in Threads, NEW c \in Circuits, circ' = [circ EXCEPT ![t] = c],
             c.phase # "none" => c.init \in Usable(t)',
             c.phase \in {"running", "assembling"} => c.work \in Usable(t)'
      PROVE  UsesInv'
  BY <1>1, <1>g DEF UsesInv
<1>2. ASSUME UNCHANGED circ PROVE UsesInv'
  BY <1>2, <1>g DEF UsesInv
<1>3. ASSUME NEW t \in Threads, Abort(t) PROVE UsesInv'
  BY <1>1, <1>3, NoCircuitType DEF Abort
<1>t. ASSUME NEW t \in Threads PROVE circ[t] \in Circuits /\ circ[t].tr \in Seq(Records)
  BY DEF UsesInv, Circuits
<1>4. ASSUME NEW t \in Threads, NEW h \in Usable(t), Begin(t, h) PROVE UsesInv'
  <2> DEFINE c == [phase |-> "cloning", init |-> h, work |-> 0, tr |-> <<>>]
  <2>1. c \in Circuits /\ c.phase = "cloning" /\ c.init = h
    <3>1. h \in 0 .. MaxHandle /\ 0 \in 0 .. MaxHandle /\ <<>> \in Seq(Records)
      BY <1>g, MaxHandleAssumption
    <3>2. QED
      BY <3>1 DEF Circuits, Phases
  <2>2. circ' = [circ EXCEPT ![t] = c]
    BY <1>4 DEF Begin
  <2> HIDE DEF c
  <2>3. QED
    BY <1>1, <1>g, <2>1, <2>2
<1>5. ASSUME NEW t \in Threads, BeginDone(t) PROVE UsesInv'
  <2> DEFINE new == call[t].new
             c == [circ[t] EXCEPT !.phase = "running", !.work = new]
  <2>1. /\ circ[t].phase = "cloning" /\ call[t].at = "insert"
        /\ given' = [given EXCEPT ![t] = @ \cup {new}]
        /\ circ' = [circ EXCEPT ![t].phase = "running", ![t].work = new]
    BY <1>5 DEF BeginDone, Insert
  <2>2. new \in Handles /\ new \in given'[t]
    BY <2>1, <1>p DEF HandleInv, CallShape, TypeOK
  <2>3. circ' = [circ EXCEPT ![t] = c]
    BY <2>1 DEF UsesInv
  <2>4. c \in Circuits /\ c.work = new /\ c.init = circ[t].init
    <3>1. new \in 0 .. MaxHandle
      BY <2>2, MaxHandleAssumption DEF Handles
    <3> HIDE DEF new
    <3>2. QED
      BY <3>1, <1>t DEF Circuits, Phases
  <2> HIDE DEF c, new
  <2>5. new \in Usable(t)'
    BY <2>2 DEF Usable
  <2>6. circ[t].init \in Usable(t)'
    BY <2>1, <1>g DEF UsesInv
  <2>7. QED
    BY <1>1, <2>3, <2>4, <2>5, <2>6
<1>6. ASSUME NEW t \in Threads, OpDone(t) PROVE UsesInv'
  <2>1. CASE Abort(t)
    BY <2>1, <1>3
  <2>2. CASE ~Abort(t)
    <3> DEFINE q == call[t]
               rec == [prog |-> q.prog, read |-> Result(q.prog, q.st.data)]
               c == [circ[t] EXCEPT !.tr = Append(@, rec)]
    <3>1. /\ circ[t].phase = "running"
          /\ QueryWrite(t) /\ resp'[t] # <<"unreported">>
          /\ circ' = [circ EXCEPT ![t].tr = Append(@, [prog |-> q.prog, read |-> resp'[t][2]])]
      BY <1>6, <2>2 DEF OpDone
    <3>2. /\ q.at = "query_write"
          /\ \/ resp' = [resp EXCEPT ![t] = <<"events", Result(q.prog, q.st.data)>>]
             \/ resp' = [resp EXCEPT ![t] = <<"unreported">>]
      BY <3>1 DEF QueryWrite, Respond
    <3>3. resp'[t] = <<"events", Result(q.prog, q.st.data)>>
      BY <3>1, <3>2, <1>p DEF TypeOK
    <3>4. resp'[t][2] = Result(q.prog, q.st.data)
      BY <3>3
    <3>5. circ' = [circ EXCEPT ![t] = c]
      BY <3>1, <3>4 DEF UsesInv
    <3>6. rec \in Records
      BY <3>2, <1>p, EffectAssumption DEF HandleInv, CallShape, States, Records
    <3>7. Append(circ[t].tr, rec) \in Seq(Records)
      BY <3>6, <1>t
    <3> HIDE DEF rec
    <3>8. c \in Circuits /\ c.phase = circ[t].phase /\ c.init = circ[t].init /\ c.work = circ[t].work
      BY <3>7, <1>t DEF Circuits
    <3> HIDE DEF c
    <3>9. QED
      BY <1>1, <1>g, <3>1, <3>5, <3>8 DEF UsesInv
  <2>3. QED
    BY <2>1, <2>2
<1>7. ASSUME NEW t \in Threads, Assemble(t) PROVE UsesInv'
  <2>1. CASE Abort(t)
    BY <2>1, <1>3
  <2>2. CASE ~Abort(t)
    <3> DEFINE c == [circ[t] EXCEPT !.phase = "assembling"]
    <3>1. circ[t].phase = "running" /\ circ' = [circ EXCEPT ![t].phase = "assembling"]
      BY <1>7, <2>2 DEF Assemble
    <3>2. circ' = [circ EXCEPT ![t] = c]
      BY <3>1 DEF UsesInv
    <3>3. c \in Circuits /\ c.init = circ[t].init /\ c.work = circ[t].work
      BY <1>t DEF Circuits, Phases
    <3> HIDE DEF c
    <3>4. QED
      BY <1>1, <1>g, <3>1, <3>2, <3>3 DEF UsesInv
  <2>3. QED
    BY <2>1, <2>2
<1>8. ASSUME NEW t \in Threads, \/ Outside(t) \/ BeginTake(t) \/ AssembleDone(t)
                               \/ \E p \in Programs : Op(t, p)
      PROVE  UNCHANGED circ \/ Abort(t)
  BY <1>8 DEF Outside, BeginTake, AssembleDone, Op
<1>9. CASE UNCHANGED cvars
  BY <1>2, <1>9 DEF cvars
<1>10. QED
  BY <1>2, <1>3, <1>4, <1>5, <1>6, <1>7, <1>8, <1>9 DEF CNext

LEMMA RuntimeInvariant == CSpec => Spec /\ [](PoolInv /\ UsesInv)
<1>1. CInit => Init /\ PoolInv /\ UsesInv
  BY TypeInit, HandleInit, UsesInit DEF CInit, PoolInv, HandleInv
<1>2. PoolInv /\ UsesInv /\ [CNext]_cvars => [Next]_vars /\ (PoolInv /\ UsesInv)'
  BY RuntimeStepIsPoolStep, UsesStep, TypeStep, HandleStep DEF PoolInv, HandleInv
<1>3. QED
  BY <1>1, <1>2, PTL DEF CSpec, Spec

\* Every variable of the runtimes and of the pool keeps its type.
THEOREM CircuitTypeCorrect == CSpec => []CTypeOK
<1>1. PoolInv /\ UsesInv => CTypeOK
  BY DEF PoolInv, UsesInv, CTypeOK
<1>2. QED
  BY <1>1, RuntimeInvariant, PTL

\* Executing circuits is one way to use the pool: whether or not handles are
\* shared, what every caller of the pool is promised holds for runtimes.
THEOREM RuntimesUseThePool ==
    CSpec => Spec /\ [](FreshHandles /\ DisjointHandles /\ NeverWaitsHoldingLock)
<1>1. PoolInv => FreshHandles /\ DisjointHandles /\ NeverWaitsHoldingLock
  BY DEF PoolInv
<1>2. QED
  BY <1>1, RuntimeInvariant, PTL

\* Runtimes that keep to their own handles use the atomic pool.
THEOREM RuntimesUseAtomicPool ==
    ASSUME ~Shared
    PROVE  CSpec => []FreedStaysGone /\ []SnapshotCurrent /\ ImplementsAtomicPool
<1>1. CSpec => Spec
  BY RuntimeInvariant, PTL
<1>2. QED
  BY <1>1, FreedStaysGoneWhenOwned, SnapshotCurrentWhenOwned, PoolIsAtomicWhenOwned, PTL

-----------------------------------------------------------------------------

\* What is given to a runtime it may use.
LEMMA OwnersUse == ASSUME ~Shared, CircInv PROVE UsesInv
  BY DEF CircInv, CircuitAt, Cloning, Running, UsesInv, Usable, Circuits, Phases

\* A step of one thread leaves the entries of another as they are.
LEMMA StepsKeepOthers ==
    ASSUME ~Shared, PoolInv, PoolInv', OwnInv, NEW t \in Threads, Start(t) \/ Continue(t)
    PROVE  \A u \in Threads : u # t =>
             /\ call'[u] = call[u]
             /\ given'[u] = given[u]
             /\ \A h \in given[u] : pool'[h] = pool[h]
<1> SUFFICES ASSUME NEW u \in Threads, u # t
             PROVE  /\ call'[u] = call[u]
                    /\ given'[u] = given[u]
                    /\ \A h \in given[u] : pool'[h] = pool[h]
  OBVIOUS
<1>p. TypeOK /\ HandleInv
  BY DEF PoolInv, HandleInv
<1>g. Usable(t) = given[t] /\ given[t] \cap given[u] = {} /\ given[u] \subseteq Handles
  BY <1>p DEF Usable, HandleInv, DisjointHandles, TypeOK
<1>1. ASSUME NEW c, call' = [call EXCEPT ![t] = c], UNCHANGED <<pool, given>>
      PROVE  call'[u] = call[u] /\ given'[u] = given[u] /\ \A h \in given[u] : pool'[h] = pool[h]
  BY <1>1, <1>p DEF TypeOK
<1>2. ASSUME \/ Rejected(t) \/ (\E s \in Parsed : CreateTake(t, s)) \/ CloneTake(t)
             \/ QueryFails(t) \/ (\E ok \in BOOLEAN : AssembleUnlock(t, ok))
             \/ \E h \in Usable(t) :
                  \/ CloneMissing(t, h) \/ CloneRead(t, h) \/ ReadState(t, h)
                  \/ QueryMissing(t, h) \/ (\E p \in Programs : QueryRead(t, h, p))
                  \/ DeployMissing(t, h)
                  \/ \E hi \in Usable(t) : AssembleMissing(t, hi, h) \/ AssembleLock(t, hi, h)
      PROVE  call'[u] = call[u] /\ given'[u] = given[u] /\ \A h \in given[u] : pool'[h] = pool[h]
  BY <1>1, <1>2 DEF Rejected, CreateTake, CloneTake, QueryFails, AssembleUnlock, CloneMissing,
       CloneRead, ReadState, QueryMissing, QueryRead, DeployMissing, AssembleMissing, AssembleLock, Respond
<1>3. ASSUME Insert(t)
      PROVE  call'[u] = call[u] /\ given'[u] = given[u] /\ \A h \in given[u] : pool'[h] = pool[h]
  <2>1. call[t].new \notin given[u]
    BY <1>3, <1>p DEF Insert, HandleInv, FreshHandles, Given
  <2>2. QED
    BY <1>3, <1>p, <1>g, <2>1 DEF Insert, Respond, TypeOK
<1>4. ASSUME QueryWrite(t)
      PROVE  call'[u] = call[u] /\ given'[u] = given[u] /\ \A h \in given[u] : pool'[h] = pool[h]
  <2>1. call[t].h \in given[t]
    BY <1>4 DEF QueryWrite, OwnInv, CallsOwn, Holds
  <2>2. call[t].h \notin given[u]
    BY <1>g, <2>1
  <2>3. /\ call' = [call EXCEPT ![t] = Idle] /\ given' = given
        /\ \A h \in Handles : h # call[t].h => pool'[h] = pool[h]
    BY <1>4, <1>p DEF QueryWrite, Respond, TypeOK
  <2>4. QED
    BY <1>p, <1>g, <2>2, <2>3 DEF TypeOK
<1>5. ASSUME NEW h \in Usable(t), NEW n \in OpNames, SetOperation(t, h, n)
      PROVE  call'[u] = call[u] /\ given'[u] = given[u] /\ \A g \in given[u] : pool'[g] = pool[g]
  BY <1>5, <1>p, <1>g DEF SetOperation, Respond, TypeOK
<1>6. ASSUME NEW h \in Usable(t), Free(t, h) \/ Deploy(t, h)
      PROVE  call'[u] = call[u] /\ given'[u] = given[u] /\ \A g \in given[u] : pool'[g] = pool[g]
  BY <1>6, <1>p, <1>g DEF Free, Deploy, Remove, Respond, TypeOK
<1>7. QED
  BY <1>2, <1>3, <1>4, <1>5, <1>6 DEF Start, Continue

\* What another thread does cannot move a runtime in its circuit.
LEMMA OthersKeepCircuit ==
    ASSUME NEW t \in Threads, CircuitAt(t),
           call'[t] = call[t], given'[t] = given[t], circ'[t] = circ[t],
           \A h \in given[t] : pool'[h] = pool[h]
    PROVE  CircuitAt(t)'
  BY DEF CircuitAt, Cloning, Running, Live

\* What t's own circuit step establishes.
LEMMA OwnCircuitStep ==
    ASSUME ~Shared, PoolInv, PoolInv', OwnInv, CircInv, NEW t \in Threads,
           \/ Outside(t)
           \/ \E h \in Usable(t) : Begin(t, h)
           \/ BeginTake(t) \/ BeginDone(t)
           \/ \E p \in Programs : Op(t, p)
           \/ OpDone(t) \/ Assemble(t) \/ AssembleDone(t)
    PROVE  /\ \A u \in Threads : u # t => circ'[u] = circ[u]
           /\ circ' \in [Threads -> Circuits]
           /\ CircuitAt(t)'
<1>p. TypeOK /\ HandleInv /\ circ \in [Threads -> Circuits] /\ CircuitAt(t)
  BY DEF PoolInv, HandleInv, CircInv
<1>g. Usable(t) = given[t] /\ given[t] \subseteq Handles /\ Handles \subseteq 0 .. MaxHandle
  BY <1>p, MaxHandleAssumption DEF Usable, TypeOK, Handles
<1>t. circ[t] \in Circuits /\ circ[t].tr \in Seq(Records)
  BY <1>p DEF Circuits
\* Changing t's circuit leaves the others alone.
<1>e. ASSUME NEW c \in Circuits, circ' = [circ EXCEPT ![t] = c]
      PROVE  /\ circ'[t] = c
             /\ \A u \in Threads : u # t => circ'[u] = circ[u]
             /\ circ' \in [Threads -> Circuits]
  BY <1>e, <1>p
<1>n. ASSUME circ' = [circ EXCEPT ![t] = NoCircuit]
      PROVE  /\ \A u \in Threads : u # t => circ'[u] = circ[u]
             /\ circ' \in [Threads -> Circuits]
             /\ CircuitAt(t)'
  BY <1>e, <1>n, NoCircuitType DEF CircuitAt
<1>1. CASE Outside(t)
  BY <1>1, <1>p DEF Outside, CircuitAt
<1>2. ASSUME NEW h \in Usable(t), Begin(t, h)
      PROVE  /\ \A u \in Threads : u # t => circ'[u] = circ[u]
             /\ circ' \in [Threads -> Circuits]
             /\ CircuitAt(t)'
  <2> DEFINE c == [phase |-> "cloning", init |-> h, work |-> 0, tr |-> <<>>]
  <2>1. c \in Circuits /\ c.phase = "cloning" /\ c.init = h /\ c.tr = <<>>
    <3>1. <<>> \in Seq(Records)
      OBVIOUS
    <3>2. h \in 0 .. MaxHandle
      BY <1>g
    <3>3. 0 \in 0 .. MaxHandle
      BY MaxHandleAssumption
    <3>4. QED
      BY <3>1, <3>2, <3>3 DEF Circuits, Phases
  <2>2. circ' = [circ EXCEPT ![t] = c]
    BY <1>2 DEF Begin
  <2> HIDE DEF c
  <2>3. call'[t].at = "clone_take" /\ call'[t].h = h /\ given' = given
    <3>1. call' = [call EXCEPT ![t] = Frame("clone_take", h, 0, pool[h], NoProgram)] /\ given' = given
      BY <1>2 DEF Begin, CloneRead
    <3>2. call'[t] = Frame("clone_take", h, 0, pool[h], NoProgram)
      BY <3>1, <1>p DEF TypeOK
    <3>3. QED
      BY <3>1, <3>2, FrameFields
  <2>4. CircuitAt(t)'
    BY <1>e, <1>g, <2>1, <2>2, <2>3 DEF CircuitAt, Cloning
  <2>5. QED
    BY <1>e, <2>1, <2>2, <2>4
<1>3. CASE BeginTake(t)
  <2>1. circ[t].phase = "cloning" /\ circ' = circ /\ given' = given
    BY <1>3 DEF BeginTake, CloneTake
  <2>2. call'[t].at = "insert" /\ call'[t].h = call[t].h
    BY <1>3, <1>p, FrameFields DEF BeginTake, CloneTake, TypeOK
  <2>3. QED
    BY <1>p, <2>1, <2>2 DEF CircuitAt, Cloning
<1>4. CASE BeginDone(t)
  <2> DEFINE new == call[t].new
             c == [circ[t] EXCEPT !.phase = "running", !.work = new]
  <2>1. /\ circ[t].phase = "cloning" /\ call[t].at = "insert"
        /\ pool' = [pool EXCEPT ![new] = call[t].st]
        /\ given' = [given EXCEPT ![t] = @ \cup {new}]
        /\ call' = [call EXCEPT ![t] = Idle]
        /\ circ' = [circ EXCEPT ![t].phase = "running", ![t].work = new]
    BY <1>4 DEF BeginDone, Insert, Respond
  <2>2. /\ circ[t].init \in given[t] /\ call[t].h = circ[t].init /\ circ[t].tr = <<>>
        /\ new \in Handles /\ new \notin given[t]
    BY <2>1, <1>p DEF CircuitAt, Cloning, HandleInv, CallShape, FreshHandles, Given
  <2>3. circ' = [circ EXCEPT ![t] = c]
    BY <2>1, <1>p
  <2>4. /\ c \in Circuits
        /\ c.phase = "running" /\ c.work = new /\ c.init = circ[t].init /\ c.tr = <<>>
    BY <2>2, <1>t, <1>g DEF Circuits, Phases
  <2> HIDE DEF c
  <2>5. Holds(call[t]) /\ call[t].h # 0
    BY <2>1, <2>2, <1>g, MaxHandleAssumption DEF Holds, Handles
  <2>6. pool[circ[t].init] # NoState /\ pool[circ[t].init] = call[t].st
    BY <2>2, <2>5 DEF OwnInv, SnapshotCurrent, Holds, Live
  <2>7. /\ pool'[circ[t].init] = pool[circ[t].init]
        /\ pool'[new] = pool[circ[t].init]
        /\ given'[t] = given[t] \cup {new}
        /\ call'[t].at = "idle"
    BY <2>1, <2>2, <2>6, <1>p, <1>g, IdleFields DEF TypeOK
  <2>8. pool[circ[t].init].data \in Data
    BY <2>2, <2>6, <1>p, <1>g DEF TypeOK, States
  <2>9. circ'[t] = c
    BY <1>e, <2>3, <2>4
  <2>10. Running(t)'
    BY <2>2, <2>4, <2>6, <2>7, <2>8, <2>9, RunEmpty DEF Running, Live
  <2>11. CircuitAt(t)'
    BY <2>4, <2>7, <2>9, <2>10 DEF CircuitAt
  <2>12. QED
    BY <1>e, <2>3, <2>4, <2>11
<1>5. ASSUME NEW p \in Programs, Op(t, p)
      PROVE  /\ \A u \in Threads : u # t => circ'[u] = circ[u]
             /\ circ' \in [Threads -> Circuits]
             /\ CircuitAt(t)'
  <2>1. CASE QueryRead(t, circ[t].work, p) /\ UNCHANGED circ
    <3>1. call'[t].at = "query_write" /\ call'[t].h = circ[t].work
      BY <2>1, <1>p, FrameFields DEF QueryRead, TypeOK
    <3>2. given' = given /\ pool' = pool
      BY <2>1 DEF QueryRead
    <3>3. circ[t].phase = "running"
      BY <1>5 DEF Op
    <3>4. QED
      BY <2>1, <3>1, <3>2, <3>3, <1>p DEF CircuitAt, Running, Live
  <2>2. CASE Abort(t)
    BY <2>2, <1>n DEF Abort
  <2>3. QED
    BY <1>5, <2>1, <2>2 DEF Op
<1>6. CASE OpDone(t)
  <2>1. CASE Abort(t)
    BY <2>1, <1>n DEF Abort
  <2>2. CASE ~Abort(t)
    <3> DEFINE q == call[t]
               s == q.st
               rec == [prog |-> q.prog, read |-> Result(q.prog, s.data)]
               c == [circ[t] EXCEPT !.tr = Append(@, rec)]
    <3>1. /\ circ[t].phase = "running"
          /\ QueryWrite(t) /\ resp'[t] # <<"unreported">>
          /\ circ' = [circ EXCEPT ![t].tr = Append(@, [prog |-> q.prog, read |-> resp'[t][2]])]
      BY <1>6, <2>2 DEF OpDone
    <3>2. /\ q.at = "query_write" /\ ~Traps(q.prog, s.data)
          /\ pool' = [pool EXCEPT ![q.h] = WithData(s, Effect(q.prog, s.data))]
          /\ call' = [call EXCEPT ![t] = Idle] /\ given' = given
          /\ \/ resp' = [resp EXCEPT ![t] = <<"events", Result(q.prog, s.data)>>]
             \/ resp' = [resp EXCEPT ![t] = <<"unreported">>]
      BY <3>1 DEF QueryWrite, Respond
    <3>3. resp'[t] = <<"events", Result(q.prog, s.data)>>
      BY <3>1, <3>2, <1>p DEF TypeOK
    <3>4. resp'[t][2] = Result(q.prog, s.data)
      BY <3>3
    <3>5. circ' = [circ EXCEPT ![t] = c]
      BY <3>1, <3>4, <1>p
    <3>6. q.prog \in Programs /\ s \in States /\ q.h = circ[t].work
      BY <3>1, <3>2, <1>p DEF HandleInv, CallShape, CircuitAt
    <3>7. s.data \in Data /\ rec \in Records
      BY <3>6, EffectAssumption DEF States, Records
    <3>8. /\ c \in Circuits /\ c.phase = "running"
          /\ c.init = circ[t].init /\ c.work = circ[t].work /\ c.tr = Append(circ[t].tr, rec)
      <4>1. Append(circ[t].tr, rec) \in Seq(Records)
        BY <3>7, <1>t
      <4> HIDE DEF rec
      <4>2. QED
        BY <3>1, <4>1, <1>t DEF Circuits
    <3>9. circ'[t] = c
      BY <1>e, <3>5, <3>8
    <3>10. Running(t)
      BY <3>1, <1>p DEF CircuitAt
    <3>11. pool[circ[t].work] = s
      BY <3>2, <3>6 DEF OwnInv, SnapshotCurrent
    <3>12. /\ pool'[circ[t].init] = pool[circ[t].init]
           /\ pool'[circ[t].work] = WithData(s, Effect(q.prog, s.data))
           /\ call'[t].at = "idle"
      BY <3>2, <3>6, <3>10, <1>p, <1>g, IdleFields DEF Running, TypeOK
    <3>13. pool[circ[t].init].data \in Data
      BY <3>10, <1>p, <1>g DEF Running, Live, TypeOK, States
    <3>14. RunsTo(pool[circ[t].init].data, circ[t].tr, s.data)
      BY <3>10, <3>11 DEF Running
    <3>15. RunsTo(pool[circ[t].init].data, Append(circ[t].tr, rec), Effect(q.prog, s.data))
      BY <3>2, <3>6, <3>7, <3>13, <3>14, <1>t, RunAppend
    <3>16. WithData(s, Effect(q.prog, s.data)) # NoState
           /\ WithData(s, Effect(q.prog, s.data)).data = Effect(q.prog, s.data)
      <4>1. Effect(q.prog, s.data) \in Data
        BY <3>6, <3>7, EffectAssumption
      <4>2. WithData(s, Effect(q.prog, s.data)) \in States
        BY <4>1, <3>6, StateUpdates
      <4>3. WithData(s, Effect(q.prog, s.data)) # NoState
        BY <4>2, NoStateAssumption
      <4>4. WithData(s, Effect(q.prog, s.data)).data = Effect(q.prog, s.data)
        BY <3>6 DEF WithData, States
      <4>5. QED
        BY <4>3, <4>4
    <3> HIDE DEF c, rec
    <3>17. Running(t)'
      BY <3>2, <3>8, <3>9, <3>10, <3>12, <3>15, <3>16 DEF Running, Live
    <3>18. CircuitAt(t)'
      BY <3>8, <3>9, <3>12, <3>17 DEF CircuitAt
    <3>19. QED
      BY <1>e, <3>5, <3>8, <3>18
  <2>3. QED
    BY <2>1, <2>2
<1>7. CASE Assemble(t)
  <2>1. CASE Abort(t)
    BY <2>1, <1>n DEF Abort
  <2>2. CASE ~Abort(t)
    <3> DEFINE c == [circ[t] EXCEPT !.phase = "assembling"]
    <3>1. /\ circ[t].phase = "running"
          /\ AssembleLock(t, circ[t].init, circ[t].work)
          /\ circ' = [circ EXCEPT ![t].phase = "assembling"]
      BY <1>7, <2>2 DEF Assemble
    <3>2. circ' = [circ EXCEPT ![t] = c]
      BY <3>1, <1>p
    <3>3. /\ c \in Circuits /\ c.phase = "assembling"
          /\ c.init = circ[t].init /\ c.work = circ[t].work /\ c.tr = circ[t].tr
      BY <1>t DEF Circuits, Phases
    <3> HIDE DEF c
    <3>4. call'[t].at = "assemble" /\ call'[t].h = circ[t].init /\ given' = given /\ pool' = pool
      BY <3>1, <1>p, FrameFields DEF AssembleLock, TypeOK
    <3>5. circ'[t] = c
      BY <1>e, <3>2, <3>3
    <3>6. CircuitAt(t)'
      BY <3>1, <3>3, <3>4, <3>5, <1>p DEF CircuitAt, Running, Live
    <3>7. QED
      BY <1>e, <3>2, <3>3, <3>6
  <2>3. QED
    BY <2>1, <2>2
<1>8. CASE AssembleDone(t)
  BY <1>8, <1>n DEF AssembleDone, Abort
<1>9. QED
  BY <1>1, <1>2, <1>3, <1>4, <1>5, <1>6, <1>7, <1>8
-----------------------------------------------------------------------------

\* Nobody's circuit is disturbed: a thread's own step keeps its circuit's
\* part of the invariant, and every other thread keeps what it relies on.
LEMMA CircStep ==
    ASSUME ~Shared, PoolInv, PoolInv', OwnInv, CircInv, [CNext]_cvars
    PROVE  CircInv'
<1>1. CASE UNCHANGED cvars
  BY <1>1 DEF cvars, vars, CircInv, CircuitAt, Cloning, Running, Live
<1>2. ASSUME NEW t \in Threads,
             \/ Outside(t)
             \/ \E h \in Usable(t) : Begin(t, h)
             \/ BeginTake(t) \/ BeginDone(t)
             \/ \E p \in Programs : Op(t, p)
             \/ OpDone(t) \/ Assemble(t) \/ AssembleDone(t)
      PROVE  CircInv'
  <2>1. /\ \A u \in Threads : u # t => circ'[u] = circ[u]
        /\ circ' \in [Threads -> Circuits]
        /\ CircuitAt(t)'
    BY <1>2, OwnCircuitStep
  <2>2. Start(t) \/ Continue(t)
    BY <1>2, OwnersUse, RuntimeStepOfThread
  <2>3. ASSUME NEW u \in Threads, u # t
        PROVE  CircuitAt(u)'
    <3>1. CircuitAt(u)
      BY DEF CircInv
    <3>2. call'[u] = call[u] /\ given'[u] = given[u] /\ \A h \in given[u] : pool'[h] = pool[h]
      BY <2>2, <2>3, StepsKeepOthers
    <3>3. QED
      BY <2>1, <2>3, <3>1, <3>2, OthersKeepCircuit
  <2>4. QED
    BY <2>1, <2>3 DEF CircInv
<1>3. QED
  BY <1>1, <1>2 DEF CNext

\* The pool's two invariants and the runtimes' hold together, as long as
\* every runtime keeps to its own handles.
THEOREM CircuitInvariant ==
    ASSUME ~Shared
    PROVE  CSpec => [](PoolInv /\ OwnInv /\ CircInv)
<1>1. CInit => PoolInv /\ OwnInv /\ CircInv
  BY TypeInit, HandleInit, OwnInit, CircInit DEF CInit, PoolInv, HandleInv
<1>2. ASSUME PoolInv, OwnInv, CircInv, [CNext]_cvars
      PROVE  PoolInv' /\ OwnInv' /\ CircInv'
  <2>1. [Next]_vars
    BY <1>2, OwnersUse, RuntimeStepIsPoolStep
  <2>2. PoolInv'
    BY <1>2, <2>1, TypeStep, HandleStep DEF PoolInv, HandleInv
  <2>3. QED
    BY <1>2, <2>1, <2>2, OwnStep, CircStep
<1>3. PoolInv /\ OwnInv /\ CircInv /\ [CNext]_cvars => (PoolInv /\ OwnInv /\ CircInv)'
  BY <1>2
<1>4. QED
  BY <1>1, <1>3, PTL DEF CSpec

\* Whatever other threads do with their own handles, the transcript of a
\* circuit leads from its initial handle's data to its working handle's: no
\* contract_query reached the clone, none missed the previous write-back.
THEOREM TranscriptsMatchThePool ==
    ASSUME ~Shared
    PROVE  CSpec => []TranscriptMatchesPool
<1>1. CircInv => TranscriptMatchesPool
  BY DEF CircInv, CircuitAt, Running, TranscriptMatchesPool
<1>2. QED
  BY <1>1, CircuitInvariant, PTL

\* contract_assemble_call_tx answers an honest runtime with a read mismatch
\* only if one of the operations it recorded read its context, for any number
\* of circuits in flight on handles of their own.
THEOREM HonestCallsAssemble ==
    ASSUME ~Shared
    PROVE  CSpec => []HonestCallAssembles
<1>1. ASSUME PoolInv, CircInv, NEW t \in Threads, circ[t].phase = "assembling"
      PROVE  /\ Live(circ[t].init)
             /\ ReadsNoContext(circ[t].tr) => Replays(pool[circ[t].init].data, circ[t].tr)
  <2> DEFINE d == pool[circ[t].init].data
             tr == circ[t].tr
  <2>1. Live(circ[t].init) /\ RunsTo(d, tr, pool[circ[t].work].data)
    BY <1>1 DEF CircInv, CircuitAt, Running
  <2>2. tr \in Seq(Records)
    BY <1>1 DEF CircInv, Circuits
  <2> HIDE DEF d, tr
  <2>3. PICK path \in [1 .. Len(tr) + 1 -> Data] : path[1] = d /\ IsRun(path, tr)
    BY <2>1 DEF RunsTo
  <2>4. ASSUME ReadsNoContext(tr), NEW i \in 1 .. Len(tr)
        PROVE  ReplayResult(tr[i].prog, path[i]) = Result(tr[i].prog, path[i])
    <3>1. path[i] \in Data
      BY <2>2, <2>3
    <3>2. QED
      BY <2>4, <3>1 DEF ReadsNoContext
  <2>5. ReadsNoContext(tr) => Replays(d, tr)
    BY <2>3, <2>4 DEF Replays, IsRun
  <2>6. QED
    BY <2>1, <2>5 DEF d, tr
<1>2. PoolInv /\ OwnInv /\ CircInv => HonestCallAssembles
  BY <1>1 DEF HonestCallAssembles
<1>3. QED
  BY <1>2, CircuitInvariant, PTL
=============================================================================
