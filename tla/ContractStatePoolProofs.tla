---------------------- MODULE ContractStatePoolProofs ----------------------
(***************************************************************************)
(* Theorems about ContractStatePool, for any number of threads, handles,   *)
(* programs and data.                                                      *)
(***************************************************************************)
EXTENDS ContractStatePool, FiniteSetTheorems, TLAPS

\* What a call carries, by where it is: a state it has read or parsed, a
\* handle some caller was given, and, once fetched, its own new handle.
CallShape ==
    \A t \in Threads :
        LET c == call[t] IN
        /\ c.at = "idle" => c = Idle
        /\ c.at = "clone_take" => c.h \in Given /\ c.st \in States
        /\ c.at = "insert" => c.h \in Given \cup {0} /\ c.st \in States /\ c.new \in Handles
        /\ c.at = "query_write" => c.h \in Given /\ c.st \in States /\ c.prog \in Programs

\* The handles known to callers have been issued, and are exactly those that
\* name an entry or named one that was removed.
GivenHandles ==
    /\ Given \subseteq 1 .. next - 1
    /\ Given = Used

\* The inductive invariant behind handle uniqueness.
PoolInv ==
    /\ TypeOK
    /\ CallShape
    /\ GivenHandles
    /\ FreshHandles
    /\ DisjointHandles
    /\ NeverWaitsHoldingLock

-----------------------------------------------------------------------------

LEMMA FrameType ==
    ASSUME NEW at \in Labels, NEW h \in 0 .. MaxHandle, NEW new \in 0 .. MaxHandle,
           NEW st \in States \cup {NoState}, NEW prog \in Programs \cup {NoProgram}
    PROVE  Frame(at, h, new, st, prog) \in Calls
  BY DEF Frame, Calls

LEMMA IdleType == Idle \in Calls
  BY FrameType, MaxHandleAssumption DEF Idle, Labels

\* What it takes for a returning call to keep the types.
LEMMA RespondType ==
    ASSUME TypeOK, NEW t \in Threads, NEW r \in Responses, Respond(t, r)
    PROVE  call' \in [Threads -> Calls] /\ resp' \in [Threads -> Responses]
  BY IdleType DEF TypeOK, Respond

LEMMA EnterType ==
    ASSUME TypeOK, NEW t \in Threads, NEW c \in Calls, call' = [call EXCEPT ![t] = c]
    PROVE  call' \in [Threads -> Calls]
  BY DEF TypeOK

LEMMA StateUpdates ==
    ASSUME NEW s \in States
    PROVE  /\ \A n \in OpNames : WithOp(s, n) \in States
           /\ \A d \in Data : WithData(s, d) \in States
           /\ s # NoState
           /\ s.data \in Data
  BY NoStateAssumption DEF States, WithOp, WithData

\* A step is one named action of one thread.
LEMMA Steps ==
    ASSUME Next
    PROVE  \E t \in Threads :
             \/ Rejected(t)
             \/ \E s \in Parsed : CreateTake(t, s)
             \/ CloneTake(t)
             \/ Insert(t)
             \/ QueryFails(t)
             \/ QueryWrite(t)
             \/ \E ok \in BOOLEAN : AssembleUnlock(t, ok)
             \/ \E h \in Usable(t) :
                  \/ CloneMissing(t, h) \/ CloneRead(t, h) \/ ReadState(t, h)
                  \/ \E n \in OpNames : SetOperation(t, h, n)
                  \/ Free(t, h)
                  \/ QueryMissing(t, h)
                  \/ \E p \in Programs : QueryRead(t, h, p)
                  \/ DeployMissing(t, h) \/ Deploy(t, h)
                  \/ \E hi \in Usable(t) : AssembleMissing(t, hi, h) \/ AssembleLock(t, hi, h)
  BY DEF Next, Start, Continue

LEMMA UsableGiven ==
    ASSUME TypeOK, NEW t \in Threads
    PROVE  Usable(t) \subseteq Given /\ Given \subseteq Handles
  BY DEF TypeOK, Usable, Given

-----------------------------------------------------------------------------

LEMMA TypeInit == Init => TypeOK
  BY MaxHandleAssumption, IdleType
     DEF Init, TypeOK, Responses, Handles

LEMMA TypeStep ==
    ASSUME TypeOK, CallShape, [Next]_vars
    PROVE  TypeOK'
<1> USE MaxHandleAssumption DEF Handles
<1>r. /\ {<<"done">>, <<"error">>, <<"unreported">>, <<"assembled">>} \subseteq Responses
      /\ \A h \in Handles : <<"created", h>> \in Responses
      /\ \A src, h \in Handles : <<"cloned", src, h>> \in Responses
      /\ \A e \in Results : <<"events", e>> \in Responses
      /\ \A s \in States : <<"state", s>> \in Responses /\ <<"deployed", s>> \in Responses
  BY DEF Responses
<1>g. Given \subseteq Handles /\ \A t \in Threads : Usable(t) \subseteq Handles
  BY UsableGiven DEF Given
<1>1. CASE UNCHANGED vars
  BY <1>1 DEF vars, TypeOK
<1>2. ASSUME NEW t \in Threads,
             Rejected(t) \/ QueryFails(t) \/ \E ok \in BOOLEAN : AssembleUnlock(t, ok)
      PROVE  TypeOK'
  BY <1>2, <1>r, RespondType DEF Rejected, QueryFails, AssembleUnlock, TypeOK
<1>3. ASSUME NEW t \in Threads, NEW s \in Parsed, CreateTake(t, s)
      PROVE  TypeOK'
  <2>1. next \in 0 .. MaxHandle /\ next + 1 \in 1 .. MaxHandle + 1
    BY <1>3 DEF CreateTake, HandleLeft, TypeOK
  <2>2. Frame("insert", 0, next, s, NoProgram) \in Calls
    BY <2>1, ParsedAssumption, FrameType DEF Labels
  <2>3. QED
    BY <1>3, <2>1, <2>2, EnterType DEF CreateTake, TypeOK
<1>4. ASSUME NEW t \in Threads, CloneTake(t)
      PROVE  TypeOK'
  <2>1. next \in 0 .. MaxHandle /\ next + 1 \in 1 .. MaxHandle + 1
    BY <1>4 DEF CloneTake, TypeOK
  <2>2. call[t].h \in Given /\ call[t].st \in States
    BY <1>4 DEF CloneTake, CallShape
  <2>3. Frame("insert", call[t].h, next, call[t].st, NoProgram) \in Calls
    <3>1. call[t].h \in Handles
      BY <2>2, <1>g
    <3>2. call[t].h \in 0 .. MaxHandle
      BY <3>1
    <3>3. "insert" \in Labels
      BY DEF Labels
    <3>4. QED
      BY <2>1, <2>2, <3>2, <3>3, FrameType
  <2>4. QED
    BY <1>4, <2>1, <2>3, EnterType DEF CloneTake, TypeOK
<1>5. ASSUME NEW t \in Threads, Insert(t)
      PROVE  TypeOK'
  <2> DEFINE c == call[t]
             r == IF c.h = 0 THEN <<"created", c.new>> ELSE <<"cloned", c.h, c.new>>
  <2>1. c.st \in States /\ c.new \in Handles /\ c.h \in Handles \cup {0}
    BY <1>5, <1>g DEF Insert, CallShape
  <2>2. r \in Responses
    BY <2>1, <1>r
  <2>3. Respond(t, r)
    BY <1>5 DEF Insert
  <2>4. pool' \in [Handles -> States \cup {NoState}] /\ given' \in [Threads -> SUBSET Handles]
    BY <1>5, <2>1 DEF Insert, TypeOK
  <2>5. QED
    BY <1>5, <2>2, <2>3, <2>4, RespondType DEF Insert, TypeOK
<1>6. ASSUME NEW t \in Threads, QueryWrite(t)
      PROVE  TypeOK'
  <2> DEFINE c == call[t]
             d == Effect(c.prog, c.st.data)
             e == Result(c.prog, c.st.data)
  <2>1. c.st \in States /\ c.prog \in Programs
    BY <1>6 DEF QueryWrite, CallShape
  <2>2. d \in Data /\ e \in Results
    BY <2>1, StateUpdates, EffectAssumption
  <2>3. WithData(c.st, d) \in States
    BY <2>1, <2>2, StateUpdates
  <2>4. pool' \in [Handles -> States \cup {NoState}]
    BY <1>6, <2>3 DEF QueryWrite, TypeOK
  <2>5. Respond(t, <<"events", e>>) \/ Respond(t, <<"unreported">>)
    BY <1>6 DEF QueryWrite
  <2>6. QED
    BY <1>6, <2>2, <2>4, <2>5, <1>r, RespondType DEF QueryWrite, TypeOK
<1>7. ASSUME NEW t \in Threads, NEW h \in Handles,
             CloneMissing(t, h) \/ QueryMissing(t, h) \/ DeployMissing(t, h)
      PROVE  TypeOK'
  BY <1>7, <1>r, RespondType DEF CloneMissing, QueryMissing, DeployMissing, TypeOK
<1>8. ASSUME NEW t \in Threads, NEW h \in Handles, CloneRead(t, h)
      PROVE  TypeOK'
  <2>1. Frame("clone_take", h, 0, pool[h], NoProgram) \in Calls
    BY FrameType DEF Labels, TypeOK
  <2>2. QED
    BY <1>8, <2>1, EnterType DEF CloneRead, TypeOK
<1>9. ASSUME NEW t \in Threads, NEW h \in Handles, ReadState(t, h)
      PROVE  TypeOK'
  <2>1. (IF Live(h) THEN <<"state", pool[h]>> ELSE <<"error">>) \in Responses
    BY <1>r DEF Live, TypeOK
  <2>2. QED
    BY <1>9, <2>1, RespondType DEF ReadState, TypeOK
<1>10. ASSUME NEW t \in Threads, NEW h \in Handles, NEW n \in OpNames, SetOperation(t, h, n)
       PROVE  TypeOK'
  <2>1. Live(h) => WithOp(pool[h], n) \in States
    BY StateUpdates DEF Live, TypeOK
  <2>2. pool' \in [Handles -> States \cup {NoState}]
    BY <1>10, <2>1 DEF SetOperation, TypeOK
  <2>3. QED
    BY <1>10, <2>2, <1>r, RespondType DEF SetOperation, TypeOK
<1>11. ASSUME NEW t \in Threads, NEW h \in Handles, Free(t, h)
       PROVE  TypeOK'
  BY <1>11, <1>r, RespondType DEF Free, Remove, TypeOK
<1>12. ASSUME NEW t \in Threads, NEW h \in Handles, NEW p \in Programs, QueryRead(t, h, p)
       PROVE  TypeOK'
  <2>1. Frame("query_write", h, 0, pool[h], p) \in Calls
    <3>1. h \in 0 .. MaxHandle /\ 0 \in 0 .. MaxHandle /\ "query_write" \in Labels
      BY DEF Labels
    <3>2. pool[h] \in States \cup {NoState} /\ p \in Programs \cup {NoProgram}
      BY DEF TypeOK
    <3>3. QED
      BY <3>1, <3>2, FrameType
  <2>2. QED
    BY <1>12, <2>1, EnterType DEF QueryRead, TypeOK
<1>13. ASSUME NEW t \in Threads, NEW h \in Handles, Deploy(t, h)
       PROVE  TypeOK'
  <2>1. pool[h] \in States
    BY <1>13 DEF Deploy, Live, TypeOK
  <2>2. Respond(t, <<"deployed", pool[h]>>) \/ Respond(t, <<"error">>)
    BY <1>13 DEF Deploy
  <2>3. QED
    BY <1>13, <2>1, <2>2, <1>r, RespondType DEF Deploy, Remove, TypeOK
<1>14. ASSUME NEW t \in Threads, NEW hi \in Handles, NEW h \in Handles,
              AssembleMissing(t, hi, h) \/ AssembleLock(t, hi, h)
       PROVE  TypeOK'
  <2>1. CASE AssembleMissing(t, hi, h)
    BY <2>1, <1>r, RespondType DEF AssembleMissing, TypeOK
  <2>2. CASE AssembleLock(t, hi, h)
    <3>1. Frame("assemble", hi, 0, NoState, NoProgram) \in Calls
      BY FrameType DEF Labels
    <3>2. QED
      BY <2>2, <3>1, EnterType DEF AssembleLock, TypeOK
  <2>3. QED
    BY <1>14, <2>1, <2>2
<1>15. QED
  BY <1>1, <1>2, <1>3, <1>4, <1>5, <1>6, <1>7, <1>8, <1>9, <1>10, <1>11, <1>12,
     <1>13, <1>14, <1>g, Steps

-----------------------------------------------------------------------------

\* The part of PoolInv that is not typing.
HandleInv == CallShape /\ GivenHandles /\ FreshHandles /\ DisjointHandles /\ NeverWaitsHoldingLock

LEMMA FrameFields ==
    \A at, h, new, st, prog :
        LET f == Frame(at, h, new, st, prog) IN
        f.at = at /\ f.h = h /\ f.new = new /\ f.st = st /\ f.prog = prog
  BY DEF Frame

LEMMA IdleFields == Idle.at = "idle" /\ Idle.h = 0 /\ Idle.new = 0
  BY DEF Idle, Frame

\* A call that ends, whatever it did to the entries callers know, disturbs
\* no call in flight. Insert and the end of a replay are not of this kind.
LEMMA ReturnKeepsHandleInv ==
    ASSUME TypeOK, HandleInv, NEW t \in Threads,
           call[t].at # "assemble",
           call' = [call EXCEPT ![t] = Idle],
           UNCHANGED <<next, lock, given>>,
           Used' = Used
    PROVE  HandleInv'
<1> USE IdleFields DEF HandleInv
<1>1. Given' = Given
  BY DEF Given
<1>2. /\ call'[t] = Idle
      /\ \A u \in Threads : u # t => call'[u] = call[u]
  BY DEF TypeOK
<1>3. CallShape'
  BY <1>1, <1>2 DEF CallShape
<1>4. GivenHandles'
  BY <1>1 DEF GivenHandles
<1>u. gone' \subseteq Given /\ \A h \in Handles : pool'[h] # NoState => h \in Given
  BY DEF GivenHandles, Used, Live
<1>5. FreshHandles'
  <2> SUFFICES ASSUME NEW u \in Threads, call'[u].at = "insert"
               PROVE  /\ call'[u].new \in 1 .. next' - 1
                      /\ pool'[call'[u].new] = NoState
                      /\ call'[u].new \notin Given' \cup gone'
                      /\ \A v \in Threads : call'[v].at = "insert" /\ v # u => call'[v].new # call'[u].new
    BY DEF FreshHandles, Live
  <2>1. u # t /\ call'[u] = call[u]
    BY <1>2
  <2>2. /\ call[u].new \in 1 .. next - 1
        /\ call[u].new \notin Given \cup gone
        /\ call[u].new \in Handles
    BY <2>1 DEF FreshHandles, CallShape
  <2>3. \A v \in Threads : call'[v].at = "insert" /\ v # u => call'[v].new # call'[u].new
    BY <1>2, <2>1 DEF FreshHandles
  <2>4. pool'[call'[u].new] = NoState
    BY <1>u, <2>1, <2>2
  <2>5. QED
    BY <1>1, <1>u, <2>1, <2>2, <2>3, <2>4
<1>6. DisjointHandles'
  BY DEF DisjointHandles
<1>7. NeverWaitsHoldingLock'
  BY <1>2 DEF NeverWaitsHoldingLock
<1>8. QED
  BY <1>3, <1>4, <1>5, <1>6, <1>7

\* A call that has only read a state disturbs nothing either.
LEMMA EnterKeepsHandleInv ==
    ASSUME TypeOK, HandleInv, NEW t \in Threads, NEW c,
           call[t].at # "assemble",
           call' = [call EXCEPT ![t] = c],
           c.at \in {"clone_take", "query_write"},
           c.h \in Given, c.st \in States,
           c.at = "query_write" => c.prog \in Programs,
           UNCHANGED <<pool, next, lock, given, gone>>
    PROVE  HandleInv'
<1> USE DEF HandleInv
<1>1. Given' = Given /\ Used' = Used /\ \A h : Live(h)' = Live(h)
  BY DEF Given, Used, Live
<1>2. /\ call'[t] = c
      /\ \A u \in Threads : u # t => call'[u] = call[u]
  BY DEF TypeOK
<1>3. CallShape'
  BY <1>1, <1>2 DEF CallShape
<1>4. GivenHandles'
  BY <1>1 DEF GivenHandles
<1>5. FreshHandles'
  BY <1>1, <1>2 DEF FreshHandles, Live
<1>6. DisjointHandles'
  BY DEF DisjointHandles
<1>7. NeverWaitsHoldingLock'
  BY <1>2 DEF NeverWaitsHoldingLock
<1>8. QED
  BY <1>3, <1>4, <1>5, <1>6, <1>7

\* A handle taken from NEXT_HANDLE is above every handle in sight.
LEMMA TakeKeepsHandleInv ==
    ASSUME TypeOK, HandleInv, NEW t \in Threads, NEW c,
           call[t].at # "assemble",
           call' = [call EXCEPT ![t] = c],
           c.at = "insert", c.new = next, c.h \in Given \cup {0}, c.st \in States,
           next <= MaxHandle, next' = next + 1,
           UNCHANGED <<pool, lock, given, gone>>
    PROVE  HandleInv'
<1> USE MaxHandleAssumption DEF HandleInv
<1>1. Given' = Given /\ Used' = Used /\ \A h : Live(h)' = Live(h)
  BY DEF Given, Used, Live
<1>2. /\ call'[t] = c
      /\ \A u \in Threads : u # t => call'[u] = call[u]
  BY DEF TypeOK
<1>3. next \in Handles /\ next \in 1 .. next' - 1 /\ 1 .. next - 1 \subseteq 1 .. next' - 1
  BY DEF TypeOK, Handles
<1>4. next \notin Given \cup gone /\ ~Live(next)
  <2>1. next \notin 1 .. next - 1
    BY DEF TypeOK
  <2>2. QED
    BY <1>3, <2>1 DEF GivenHandles, Used
<1>5. CallShape'
  BY <1>1, <1>2, <1>3 DEF CallShape
<1>6. GivenHandles'
  BY <1>1, <1>3 DEF GivenHandles
<1>7. FreshHandles'
  <2>1. \A u \in Threads : u # t /\ call[u].at = "insert" => call[u].new # next
    BY DEF FreshHandles, TypeOK
  <2>2. QED
    BY <1>1, <1>2, <1>3, <1>4, <2>1 DEF FreshHandles, Live
<1>8. DisjointHandles'
  BY DEF DisjointHandles
<1>9. NeverWaitsHoldingLock'
  BY <1>2 DEF NeverWaitsHoldingLock
<1>10. QED
  BY <1>5, <1>6, <1>7, <1>8, <1>9

-----------------------------------------------------------------------------

LEMMA HandleInit == Init => HandleInv
<1> SUFFICES ASSUME Init PROVE HandleInv
  OBVIOUS
<1>1. Given = {}
  BY DEF Init, Given
<1>2. \A t \in Threads : call[t] = Idle /\ call[t].at = "idle"
  BY IdleFields DEF Init
<1>3. \A h \in Handles : ~Live(h)
  BY DEF Init, Live
<1>4. CallShape /\ FreshHandles
  BY <1>2 DEF CallShape, FreshHandles
<1>5. GivenHandles /\ DisjointHandles
  BY <1>1, <1>3 DEF Init, GivenHandles, DisjointHandles, Used
<1>6. NeverWaitsHoldingLock
  BY <1>2, NoThreadAssumption DEF Init, NeverWaitsHoldingLock
<1>7. QED
  BY <1>4, <1>5, <1>6 DEF HandleInv

LEMMA InsertKeepsHandleInv ==
    ASSUME TypeOK, HandleInv, NEW t \in Threads, Insert(t)
    PROVE  HandleInv'
<1> DEFINE new == call[t].new
<1> USE IdleFields DEF HandleInv
<1>1. /\ call[t].at = "insert"
      /\ pool' = [pool EXCEPT ![new] = call[t].st]
      /\ given' = [given EXCEPT ![t] = @ \cup {new}]
      /\ call' = [call EXCEPT ![t] = Idle]
      /\ UNCHANGED <<next, lock, gone>>
  BY DEF Insert, Respond
<1>2. /\ call'[t] = Idle
      /\ \A u \in Threads : u # t => call'[u] = call[u]
  BY <1>1 DEF TypeOK
<1>3. new \in 1 .. next - 1 /\ new \notin Given /\ new \in Handles
  BY <1>1 DEF FreshHandles, CallShape
<1>4. /\ given'[t] = given[t] \cup {new}
      /\ \A u \in Threads : u # t => given'[u] = given[u]
  BY <1>1 DEF TypeOK
<1>5. Given' = Given \cup {new}
  BY <1>4 DEF Given
<1>6. \A h \in Handles : h # new => pool'[h] = pool[h]
  BY <1>1 DEF TypeOK
<1>7. CallShape'
  BY <1>2, <1>5 DEF CallShape
<1>8. GivenHandles'
  <2>1. pool'[new] # NoState
    BY <1>1, <1>3, StateUpdates DEF CallShape, TypeOK
  <2>2. Used' = Used \cup {new}
    BY <1>1, <1>3, <1>6, <2>1 DEF Used, Live
  <2>3. QED
    BY <1>1, <1>3, <1>5, <2>2 DEF GivenHandles
<1>9. FreshHandles'
  <2> SUFFICES ASSUME NEW u \in Threads, call'[u].at = "insert"
               PROVE  /\ call'[u].new \in 1 .. next' - 1
                      /\ pool'[call'[u].new] = NoState
                      /\ call'[u].new \notin Given' \cup gone'
                      /\ \A v \in Threads : call'[v].at = "insert" /\ v # u => call'[v].new # call'[u].new
    BY DEF FreshHandles, Live
  <2>1. u # t /\ call'[u] = call[u]
    BY <1>2
  <2>2. /\ call[u].new \in 1 .. next - 1
        /\ call[u].new \notin Given \cup gone
        /\ pool[call[u].new] = NoState
        /\ call[u].new # new
    BY <1>1, <2>1 DEF FreshHandles, Live
  <2>3. call[u].new \in Handles
    BY <2>1 DEF CallShape
  <2>4. \A v \in Threads : call'[v].at = "insert" /\ v # u => call'[v].new # call'[u].new
    BY <1>2, <2>1 DEF FreshHandles
  <2>5. QED
    BY <1>1, <1>5, <1>6, <2>1, <2>2, <2>3, <2>4
<1>10. DisjointHandles'
  BY <1>3, <1>4 DEF DisjointHandles, Given
<1>11. NeverWaitsHoldingLock'
  BY <1>1, <1>2 DEF NeverWaitsHoldingLock
<1>12. QED
  BY <1>7, <1>8, <1>9, <1>10, <1>11

\* Taking the mutex for a replay and releasing it.
LEMMA AssembleKeepsHandleInv ==
    ASSUME TypeOK, HandleInv, NEW t \in Threads, NEW c,
           call' = [call EXCEPT ![t] = c],
           UNCHANGED <<pool, next, given, gone>>,
           \/ lock = NoThread /\ lock' = t /\ c.at = "assemble"
           \/ lock = t /\ lock' = NoThread /\ c = Idle
    PROVE  HandleInv'
<1> USE IdleFields, NoThreadAssumption DEF HandleInv
<1>1. Given' = Given /\ Used' = Used /\ \A h : Live(h)' = Live(h)
  BY DEF Given, Used, Live
<1>2. /\ call'[t] = c
      /\ \A u \in Threads : u # t => call'[u] = call[u]
  BY DEF TypeOK
<1>3. CallShape'
  BY <1>1, <1>2 DEF CallShape
<1>4. GivenHandles'
  BY <1>1 DEF GivenHandles
<1>5. FreshHandles'
  BY <1>1, <1>2 DEF FreshHandles, Live
<1>6. DisjointHandles'
  BY DEF DisjointHandles
<1>7. NeverWaitsHoldingLock'
  BY <1>2 DEF NeverWaitsHoldingLock
<1>8. QED
  BY <1>3, <1>4, <1>5, <1>6, <1>7

LEMMA HandleStep ==
    ASSUME TypeOK, HandleInv, [Next]_vars
    PROVE  HandleInv'
<1> USE IdleFields
<1>g. \A u \in Threads : Usable(u) \subseteq Given /\ Given \subseteq Handles
  BY UsableGiven
<1>l. \A h \in Handles : pool[h] # NoState => pool[h] \in States /\ h \in Given
  BY DEF TypeOK, HandleInv, GivenHandles, Used, Live
<1>u. Given = Used
  BY DEF HandleInv, GivenHandles
<1>s. UNCHANGED <<pool, gone>> => Used' = Used
  BY DEF Used, Live
<1>1. CASE UNCHANGED vars
  BY <1>1, <1>s DEF vars, HandleInv, CallShape, GivenHandles, FreshHandles, DisjointHandles,
              NeverWaitsHoldingLock, Live, Given
<1>2. ASSUME NEW t \in Threads, Rejected(t) \/ QueryFails(t)
      PROVE  HandleInv'
  BY <1>2, <1>s, ReturnKeepsHandleInv DEF Rejected, QueryFails, Ready, Respond
<1>3. ASSUME NEW t \in Threads, NEW h \in Usable(t),
             CloneMissing(t, h) \/ QueryMissing(t, h) \/ DeployMissing(t, h) \/ ReadState(t, h)
      PROVE  HandleInv'
  BY <1>3, <1>s, ReturnKeepsHandleInv
     DEF CloneMissing, QueryMissing, DeployMissing, ReadState, Ready, Respond
<1>4. ASSUME NEW t \in Threads, NEW s \in Parsed, CreateTake(t, s)
      PROVE  HandleInv'
  <2> DEFINE c == Frame("insert", 0, next, s, NoProgram)
  <2>1. c.at = "insert" /\ c.new = next /\ c.h = 0 /\ c.st = s
    BY FrameFields
  <2> HIDE DEF c
  <2>2. call' = [call EXCEPT ![t] = c] /\ next <= MaxHandle
    BY <1>4 DEF CreateTake, HandleLeft, c
  <2>3. s \in States
    BY ParsedAssumption
  <2>4. QED
    BY <1>4, <2>1, <2>2, <2>3, TakeKeepsHandleInv DEF CreateTake, Ready
<1>5. ASSUME NEW t \in Threads, CloneTake(t)
      PROVE  HandleInv'
  <2> DEFINE c == Frame("insert", call[t].h, next, call[t].st, NoProgram)
  <2>1. c.at = "insert" /\ c.new = next /\ c.h = call[t].h /\ c.st = call[t].st
    BY FrameFields
  <2> HIDE DEF c
  <2>2. call' = [call EXCEPT ![t] = c]
    BY <1>5 DEF CloneTake, c
  <2>3. c.h \in Given /\ c.st \in States
    BY <1>5, <2>1 DEF CloneTake, HandleInv, CallShape
  <2>4. QED
    BY <1>5, <2>1, <2>2, <2>3, TakeKeepsHandleInv DEF CloneTake
<1>6. ASSUME NEW t \in Threads, Insert(t)
      PROVE  HandleInv'
  BY <1>6, InsertKeepsHandleInv
<1>7. ASSUME NEW t \in Threads, QueryWrite(t)
      PROVE  HandleInv'
  <2>1. call[t].at = "query_write" /\ call[t].h \in Given
    BY <1>7 DEF QueryWrite, HandleInv, CallShape
  <2>2. Used' = Used
    <3>1. \A h \in Handles : h # call[t].h => pool'[h] = pool[h]
      BY <1>7 DEF QueryWrite, TypeOK
    <3>2. call[t].h \in Handles /\ WithData(call[t].st, Effect(call[t].prog, call[t].st.data)) # NoState
      BY <1>7, <1>g, <2>1, StateUpdates, EffectAssumption DEF QueryWrite, HandleInv, CallShape
    <3>3. pool'[call[t].h] # NoState /\ gone' = gone
      BY <1>7, <3>2 DEF QueryWrite, TypeOK
    <3>4. QED
      BY <1>u, <2>1, <3>1, <3>3 DEF Used, Live
  <2>3. call' = [call EXCEPT ![t] = Idle] /\ UNCHANGED <<next, lock, given, gone>>
    BY <1>7 DEF QueryWrite, Respond
  <2>4. QED
    BY <2>1, <2>2, <2>3, ReturnKeepsHandleInv
<1>8. ASSUME NEW t \in Threads, NEW h \in Usable(t), NEW n \in OpNames, SetOperation(t, h, n)
      PROVE  HandleInv'
  <2>1. Used' = Used
    <3>1. pool[h] # NoState => WithOp(pool[h], n) # NoState
      BY <1>g, <1>l, StateUpdates
    <3>2. \A g \in Handles : pool'[g] # NoState <=> pool[g] # NoState
      BY <1>8, <3>1 DEF SetOperation, TypeOK, Live
    <3>3. QED
      BY <1>8, <3>2 DEF SetOperation, Used, Live
  <2>2. QED
    BY <1>8, <2>1, ReturnKeepsHandleInv DEF SetOperation, Ready, Respond
<1>9. ASSUME NEW t \in Threads, NEW h \in Usable(t), Free(t, h) \/ Deploy(t, h)
      PROVE  HandleInv'
  <2>1. pool' = [pool EXCEPT ![h] = NoState] /\ gone' = gone \cup {h}
    BY <1>9 DEF Free, Deploy, Remove
  <2>2. Used' = Used
    BY <2>1, <1>g, <1>u DEF TypeOK, Used, Live
  <2>3. /\ call' = [call EXCEPT ![t] = Idle] /\ UNCHANGED <<next, lock, given>>
        /\ call[t] = Idle
    BY <1>9 DEF Free, Deploy, Respond, Ready
  <2>4. QED
    BY <2>1, <2>2, <2>3, <1>g, ReturnKeepsHandleInv
<1>10. ASSUME NEW t \in Threads, NEW h \in Usable(t), CloneRead(t, h)
       PROVE  HandleInv'
  <2> DEFINE c == Frame("clone_take", h, 0, pool[h], NoProgram)
  <2>1. c.at = "clone_take" /\ c.h = h /\ c.st = pool[h]
    BY FrameFields
  <2> HIDE DEF c
  <2>2. call' = [call EXCEPT ![t] = c] /\ call[t] = Idle /\ pool[h] # NoState
    BY <1>10 DEF CloneRead, Ready, Live, c
  <2>3. h \in Given /\ pool[h] \in States
    BY <2>2, <1>g, <1>l
  <2>4. QED
    BY <1>10, <2>1, <2>2, <2>3, IdleFields, EnterKeepsHandleInv DEF CloneRead
<1>11. ASSUME NEW t \in Threads, NEW h \in Usable(t), NEW p \in Programs, QueryRead(t, h, p)
       PROVE  HandleInv'
  <2> DEFINE c == Frame("query_write", h, 0, pool[h], p)
  <2>1. c.at = "query_write" /\ c.h = h /\ c.st = pool[h] /\ c.prog = p
    BY FrameFields
  <2> HIDE DEF c
  <2>2. call' = [call EXCEPT ![t] = c] /\ call[t] = Idle /\ pool[h] # NoState
    BY <1>11 DEF QueryRead, Ready, Live, c
  <2>3. h \in Given /\ pool[h] \in States
    BY <2>2, <1>g, <1>l
  <2>4. QED
    BY <1>11, <2>1, <2>2, <2>3, IdleFields, EnterKeepsHandleInv DEF QueryRead
<1>12. ASSUME NEW t \in Threads, NEW hi \in Usable(t), NEW h \in Usable(t), AssembleMissing(t, hi, h)
       PROVE  HandleInv'
  BY <1>12, <1>s, ReturnKeepsHandleInv DEF AssembleMissing, Ready, Respond
<1>13. ASSUME NEW t \in Threads, NEW hi \in Usable(t), NEW h \in Usable(t), AssembleLock(t, hi, h)
       PROVE  HandleInv'
  <2> DEFINE c == Frame("assemble", hi, 0, NoState, NoProgram)
  <2>1. c.at = "assemble"
    BY FrameFields
  <2> HIDE DEF c
  <2>2. call' = [call EXCEPT ![t] = c] /\ lock = NoThread /\ lock' = t
    BY <1>13 DEF AssembleLock, CanLock, c
  <2>3. QED
    BY <1>13, <2>1, <2>2, AssembleKeepsHandleInv DEF AssembleLock
<1>14. ASSUME NEW t \in Threads, NEW ok \in BOOLEAN, AssembleUnlock(t, ok)
       PROVE  HandleInv'
  BY <1>14, AssembleKeepsHandleInv DEF AssembleUnlock, Respond
<1>15. QED
  BY <1>1, <1>2, <1>3, <1>4, <1>5, <1>6, <1>7, <1>8, <1>9, <1>10, <1>11, <1>12,
     <1>13, <1>14, Steps

-----------------------------------------------------------------------------

\* PoolInv holds in every state, whoever uses which handle.
THEOREM PoolInvariant == Spec => []PoolInv
<1>1. Init => PoolInv
  BY TypeInit, HandleInit DEF PoolInv, HandleInv
<1>2. PoolInv /\ [Next]_vars => PoolInv'
  BY TypeStep, HandleStep DEF PoolInv, HandleInv
<1>3. QED
  BY <1>1, <1>2, PTL DEF Spec

\* Every variable of the pool and of the calls in flight keeps its type.
THEOREM TypeCorrect == Spec => []TypeOK
<1>1. PoolInv => TypeOK
  BY DEF PoolInv
<1>2. QED
  BY <1>1, PoolInvariant, PTL

\* NEXT_HANDLE never yields a handle that names an entry, that a caller
\* knows, that was removed, or that another call in flight has taken; so no
\* insert of create or clone overwrites an entry.
THEOREM HandlesAreFresh == Spec => []FreshHandles
<1>1. PoolInv => FreshHandles
  BY DEF PoolInv
<1>2. QED
  BY <1>1, PoolInvariant, PTL

\* No handle is returned to two callers.
THEOREM HandlesAreDisjoint == Spec => []DisjointHandles
<1>1. PoolInv => DisjointHandles
  BY DEF PoolInv
<1>2. QED
  BY <1>1, PoolInvariant, PTL

\* No call waits for the pool's mutex while its own thread keeps it.
THEOREM NoSelfDeadlock == Spec => []NeverWaitsHoldingLock
<1>1. PoolInv => NeverWaitsHoldingLock
  BY DEF PoolInv
<1>2. QED
  BY <1>1, PoolInvariant, PTL

-----------------------------------------------------------------------------

\* Only Insert and a query's write-back can put an entry where there was none.
LEMMA EntriesAppear ==
    ASSUME TypeOK, Next, NEW h \in Handles, ~Live(h), Live(h)'
    PROVE  \E t \in Threads :
             \/ Insert(t) /\ call[t].new = h
             \/ QueryWrite(t) /\ call[t].h = h
<1>p. pool \in [Handles -> States \cup {NoState}]
  BY DEF TypeOK
<1>1. pool'[h] # pool[h]
  BY DEF Live
<1>2. ASSUME NEW t \in Threads, Insert(t)
      PROVE  call[t].new = h
  BY <1>p, <1>1, <1>2 DEF Insert
<1>3. ASSUME NEW t \in Threads, QueryWrite(t)
      PROVE  call[t].h = h
  BY <1>p, <1>1, <1>3 DEF QueryWrite
<1>4. ASSUME NEW t \in Threads, NEW g \in Usable(t), NEW n \in OpNames, SetOperation(t, g, n)
      PROVE  FALSE
  BY <1>p, <1>4 DEF SetOperation, Live
<1>5. ASSUME NEW t \in Threads, NEW g \in Usable(t), Free(t, g) \/ Deploy(t, g)
      PROVE  FALSE
  BY <1>p, <1>5 DEF Free, Deploy, Remove, Live
<1>6. QED
  BY <1>1, <1>2, <1>3, <1>4, <1>5, Steps
     DEF Rejected, CreateTake, CloneTake, QueryFails, AssembleUnlock, CloneMissing, CloneRead,
         ReadState, QueryMissing, QueryRead, DeployMissing, AssembleMissing, AssembleLock

\* A removed entry comes back by no other call than the contract_query that
\* had read it, for any number of threads that share handles.
THEOREM RevivedByWriteBack == Spec => OnlyWriteBacksRevive
<1>1. ASSUME PoolInv, Next, NEW h \in gone, ~Live(h), Live(h)'
      PROVE  \E t \in Threads : QueryWrite(t) /\ call[t].h = h
  <2>1. h \in Handles
    BY <1>1 DEF PoolInv, TypeOK
  <2>2. ASSUME NEW t \in Threads, Insert(t) PROVE call[t].new # h
    BY <1>1, <2>2 DEF Insert, PoolInv, FreshHandles
  <2>3. QED
    BY <1>1, <2>1, <2>2, EntriesAppear DEF PoolInv
<1>2. PoolInv /\ [Next]_vars =>
        [\A h \in gone : ~Live(h) /\ Live(h)' =>
            \E t \in Threads : QueryWrite(t) /\ call[t].h = h]_vars
  BY <1>1
<1>3. QED
  BY <1>2, PoolInvariant, PTL DEF OnlyWriteBacksRevive, Spec

-----------------------------------------------------------------------------

\* The steps a call has still to take, on its own thread.
StepsLeft(c) == IF c.at = "idle" THEN 0 ELSE IF c.at = "clone_take" THEN 2 ELSE 1

\* Every step of a call that has begun brings it nearer to its end, and no
\* step of another thread changes where it stands: a call returns after two
\* steps of its own at most. That it takes them is CallsReturn.
CallsAdvance ==
    [][\A t \in Threads : ~Ready(t) =>
          /\ call'[t] # call[t] => Continue(t)
          /\ Continue(t) => StepsLeft(call'[t]) < StepsLeft(call[t])]_vars

THEOREM CallsOnlyAdvance == Spec => CallsAdvance
<1> USE FrameFields, IdleFields
<1>1. ASSUME TypeOK, NEW t \in Threads, Continue(t)
      PROVE  /\ StepsLeft(call'[t]) < StepsLeft(call[t])
             /\ \A u \in Threads : u # t => call'[u] = call[u]
  <2>1. CASE CloneTake(t)
    BY <1>1, <2>1 DEF CloneTake, TypeOK, StepsLeft
  <2>2. CASE Insert(t) \/ QueryFails(t) \/ QueryWrite(t) \/ \E ok \in BOOLEAN : AssembleUnlock(t, ok)
    <3>1. call[t].at \in {"insert", "query_write", "assemble"} /\ call' = [call EXCEPT ![t] = Idle]
      BY <2>2 DEF Insert, QueryFails, QueryWrite, AssembleUnlock, Respond
    <3>2. QED
      BY <1>1, <3>1 DEF TypeOK, StepsLeft
  <2>3. QED
    BY <1>1, <2>1, <2>2 DEF Continue
<1>2. ASSUME TypeOK, NEW t \in Threads, Start(t)
      PROVE  Ready(t) /\ \A u \in Threads : u # t => call'[u] = call[u]
  BY <1>2 DEF Start, TypeOK, Respond, Rejected, CreateTake, CloneMissing, CloneRead, ReadState,
              SetOperation, Free, QueryMissing, QueryRead, DeployMissing, Deploy,
              AssembleMissing, AssembleLock
<1>3. ASSUME PoolInv, Next, NEW t \in Threads, ~Ready(t)
      PROVE  /\ call'[t] # call[t] => Continue(t)
             /\ Continue(t) => StepsLeft(call'[t]) < StepsLeft(call[t])
  BY <1>1, <1>2, <1>3 DEF PoolInv, Next
<1>4. PoolInv /\ [Next]_vars =>
        [\A t \in Threads : ~Ready(t) =>
            /\ call'[t] # call[t] => Continue(t)
            /\ Continue(t) => StepsLeft(call'[t]) < StepsLeft(call[t])]_vars
  BY <1>3
<1>5. QED
  BY <1>4, PoolInvariant, PTL DEF CallsAdvance, Spec

-----------------------------------------------------------------------------

\* The calls that have yet to fetch a handle, and the handles left for them.
Fetching == {t \in Threads : call[t].at = "clone_take"}

EnoughHandles == IsFiniteSet(Fetching) /\ next + Cardinality(Fetching) <= MaxHandle + 1

LEMMA EnoughInit == Init => EnoughHandles
<1> SUFFICES ASSUME Init PROVE EnoughHandles
  OBVIOUS
<1>1. Fetching = {}
  BY IdleFields DEF Init, Fetching
<1>2. QED
  BY <1>1, FS_EmptySet, MaxHandleAssumption DEF Init, EnoughHandles

LEMMA EnoughStep ==
    ASSUME TypeOK, EnoughHandles, [Next]_vars
    PROVE  EnoughHandles'
<1> USE IdleFields, FrameFields, MaxHandleAssumption
<1>n. next \in Nat /\ IsFiniteSet(Fetching) /\ Cardinality(Fetching) \in Nat
  BY FS_CardinalityType DEF TypeOK, EnoughHandles
\* A call that ends or goes on otherwise.
<1>1. ASSUME next' = next, Fetching' = Fetching
      PROVE  EnoughHandles'
  BY <1>1 DEF EnoughHandles
<1>2. ASSUME NEW t \in Threads, NEW c, c.at # "clone_take", call[t].at # "clone_take",
             call' = [call EXCEPT ![t] = c]
      PROVE  Fetching' = Fetching
  BY <1>2 DEF Fetching, TypeOK
<1>3. ASSUME NEW t \in Threads, NEW s \in Parsed, CreateTake(t, s)
      PROVE  EnoughHandles'
  <2>1. next' = next + 1 /\ next + Cardinality(Fetching) <= MaxHandle
    BY <1>3 DEF CreateTake, HandleLeft, Fetching
  <2> DEFINE c == Frame("insert", 0, next, s, NoProgram)
  <2>2. Fetching' = Fetching
    <3>1. c.at # "clone_take" /\ call[t].at # "clone_take" /\ call' = [call EXCEPT ![t] = c]
      BY <1>3 DEF CreateTake, Ready, Frame
    <3> HIDE DEF c
    <3>2. QED
      BY <1>2, <3>1
  <2>3. QED
    BY <1>n, <2>1, <2>2 DEF EnoughHandles
<1>4. ASSUME NEW t \in Threads, NEW h \in Usable(t), CloneRead(t, h)
      PROVE  EnoughHandles'
  <2>1. next' = next /\ next + Cardinality(Fetching) <= MaxHandle
    BY <1>4 DEF CloneRead, HandleLeft, Fetching
  <2>2. Fetching' = Fetching \cup {t}
    BY <1>4 DEF CloneRead, Fetching, TypeOK
  <2>3. IsFiniteSet(Fetching') /\ Cardinality(Fetching') <= Cardinality(Fetching) + 1
    <3>1. /\ IsFiniteSet(Fetching \cup {t})
          /\ Cardinality(Fetching \cup {t}) =
               IF t \in Fetching THEN Cardinality(Fetching) ELSE Cardinality(Fetching) + 1
      BY <1>n, FS_AddElement, Zenon
    <3>2. QED
      BY <1>n, <2>2, <3>1
  <2>4. Cardinality(Fetching') \in Nat
    BY <2>3, FS_CardinalityType
  <2>5. QED
    BY <1>n, <2>1, <2>3, <2>4 DEF EnoughHandles
<1>5. ASSUME NEW t \in Threads, CloneTake(t)
      PROVE  EnoughHandles'
  <2>1. next' = next + 1 /\ t \in Fetching
    BY <1>5 DEF CloneTake, Fetching
  <2>2. Fetching' = Fetching \ {t}
    BY <1>5 DEF CloneTake, Fetching, TypeOK
  <2>3. IsFiniteSet(Fetching') /\ Cardinality(Fetching') = Cardinality(Fetching) - 1
    BY <1>n, <2>1, <2>2, FS_RemoveElement
  <2>4. QED
    BY <1>n, <2>1, <2>3 DEF EnoughHandles
<1>6. ASSUME NEW t \in Threads, call[t].at # "clone_take", call' = [call EXCEPT ![t] = Idle], next' = next
      PROVE  EnoughHandles'
  BY <1>1, <1>2, <1>6
<1>7. ASSUME NEW t \in Threads,
             \/ Rejected(t) \/ Insert(t) \/ QueryFails(t) \/ QueryWrite(t)
             \/ \E ok \in BOOLEAN : AssembleUnlock(t, ok)
             \/ \E h \in Usable(t) :
                  \/ CloneMissing(t, h) \/ ReadState(t, h)
                  \/ \E n \in OpNames : SetOperation(t, h, n)
                  \/ Free(t, h) \/ QueryMissing(t, h) \/ DeployMissing(t, h) \/ Deploy(t, h)
                  \/ \E hi \in Usable(t) : AssembleMissing(t, hi, h)
      PROVE  EnoughHandles'
  BY <1>6, <1>7 DEF Ready, Respond, Rejected, Insert, QueryFails, QueryWrite, AssembleUnlock,
                    CloneMissing, ReadState, SetOperation, Free, QueryMissing, DeployMissing,
                    Deploy, AssembleMissing
<1>8. ASSUME NEW t \in Threads, NEW h \in Usable(t), NEW p \in Programs, QueryRead(t, h, p)
      PROVE  EnoughHandles'
  <2> DEFINE c == Frame("query_write", h, 0, pool[h], p)
  <2>1. /\ next' = next /\ call' = [call EXCEPT ![t] = c]
        /\ c.at # "clone_take" /\ call[t].at # "clone_take"
    BY <1>8 DEF QueryRead, Ready, Frame
  <2> HIDE DEF c
  <2>2. QED
    BY <1>1, <1>2, <2>1
<1>9. ASSUME NEW t \in Threads, NEW h \in Usable(t), NEW hi \in Usable(t), AssembleLock(t, hi, h)
      PROVE  EnoughHandles'
  <2> DEFINE c == Frame("assemble", hi, 0, NoState, NoProgram)
  <2>1. /\ next' = next /\ call' = [call EXCEPT ![t] = c]
        /\ c.at # "clone_take" /\ call[t].at # "clone_take"
    BY <1>9 DEF AssembleLock, Ready, Frame
  <2> HIDE DEF c
  <2>2. QED
    BY <1>1, <1>2, <2>1
<1>10. CASE UNCHANGED vars
  BY <1>1, <1>10 DEF vars, Fetching
<1>11. QED
  BY <1>3, <1>4, <1>5, <1>7, <1>8, <1>9, <1>10, Steps

\* Nothing but the mutex delays a call that has begun, and the mutex is kept
\* only by another thread's replay, whose next step releases it: fetching a
\* handle never waits, and a call never finds itself without one.
OnlyTheMutexDelays ==
    \A t \in Threads :
        /\ call[t].at = "clone_take" => next <= MaxHandle
        /\ call[t].at = "assemble" => lock = t
        /\ call[t].at \in {"insert", "query_write"} /\ ~CanLock =>
              lock \in Threads \ {t} /\ call[lock].at = "assemble"

THEOREM CallsMayGoOn == Spec => []OnlyTheMutexDelays
<1>1. ASSUME PoolInv, EnoughHandles
      PROVE  OnlyTheMutexDelays
  <2>1. ASSUME NEW t \in Threads, call[t].at = "clone_take"
        PROVE  next <= MaxHandle
    <3>1. t \in Fetching
      BY <2>1 DEF Fetching
    <3>2. Cardinality(Fetching) \in Nat /\ Cardinality(Fetching) # 0
      BY <1>1, <3>1, FS_CardinalityType, FS_EmptySet DEF EnoughHandles
    <3>3. QED
      BY <1>1, <3>2, MaxHandleAssumption DEF EnoughHandles, PoolInv, TypeOK
  <2>2. QED
    BY <1>1, <2>1 DEF OnlyTheMutexDelays, PoolInv, TypeOK, NeverWaitsHoldingLock, CanLock
<1>2. PoolInv /\ EnoughHandles /\ [Next]_vars => EnoughHandles'
  BY EnoughStep DEF PoolInv
<1>3. QED
  BY <1>1, <1>2, EnoughInit, PoolInvariant, PTL DEF Spec

-----------------------------------------------------------------------------

\* A call that holds a state it has read works on a handle of its own.
Holds(c) == c.at \in {"clone_take", "query_write"} \/ (c.at = "insert" /\ c.h # 0)

CallsOwn == \A t \in Threads : Holds(call[t]) => call[t].h \in given[t]

\* The inductive invariant when callers keep to their own handles.
OwnInv == CallsOwn /\ SnapshotCurrent /\ FreedStaysGone

LEMMA OwnInit == Init => OwnInv
  BY IdleFields DEF Init, OwnInv, CallsOwn, Holds, SnapshotCurrent, FreedStaysGone

\* A step of t that touches only entries t was given leaves every other
\* call's snapshot current.
LEMMA OthersKeepSnapshots ==
    ASSUME TypeOK, DisjointHandles', OwnInv, NEW t \in Threads, NEW c,
           call' = [call EXCEPT ![t] = c],
           \A u \in Threads : given[u] \subseteq given'[u],
           \A h \in Handles : h \notin given'[t] => pool'[h] = pool[h],
           Holds(c) => c.h \in given'[t] /\ c.h \in Handles /\ pool'[c.h] # NoState /\ pool'[c.h] = c.st
    PROVE  CallsOwn' /\ SnapshotCurrent'
<1>1. /\ call'[t] = c
      /\ \A u \in Threads : u # t => call'[u] = call[u]
  BY DEF TypeOK
<1>2. ASSUME NEW u \in Threads, Holds(call'[u])
      PROVE  /\ call'[u].h \in given'[u]
             /\ call'[u].h \in Handles
             /\ pool'[call'[u].h] # NoState
             /\ pool'[call'[u].h] = call'[u].st
  <2>1. CASE u = t
    BY <1>1, <1>2, <2>1
  <2>2. CASE u # t
    <3>1. call'[u] = call[u] /\ Holds(call[u])
      BY <1>1, <1>2, <2>2
    <3>2. call[u].h \in given[u]
      BY <3>1 DEF OwnInv, CallsOwn
    <3>3. /\ call[u].h \in Handles /\ pool[call[u].h] # NoState
          /\ pool[call[u].h] = call[u].st
      BY <3>1 DEF OwnInv, SnapshotCurrent, Holds, Live
    <3>4. call[u].h \notin given'[t]
      BY <2>2, <3>2 DEF DisjointHandles
    <3>5. QED
      BY <3>1, <3>2, <3>3, <3>4
  <2>3. QED
    BY <2>1, <2>2
<1>3. CallsOwn'
  BY <1>2 DEF CallsOwn, Holds
<1>4. SnapshotCurrent'
  BY <1>2 DEF SnapshotCurrent, Holds, Live
<1>5. QED
  BY <1>3, <1>4

LEMMA OwnStep ==
    ASSUME ~Shared, PoolInv, PoolInv', OwnInv, [Next]_vars
    PROVE  OwnInv'
<1> USE IdleFields
<1>p. TypeOK /\ DisjointHandles' /\ HandleInv
  BY DEF PoolInv, HandleInv
<1>g. \A u \in Threads : Usable(u) = given[u] /\ given[u] \subseteq Handles
  BY <1>p DEF Usable, TypeOK
<1>i. ~Holds(Idle)
  BY DEF Holds
<1>1. CASE UNCHANGED vars
  BY <1>1 DEF vars, OwnInv, CallsOwn, SnapshotCurrent, FreedStaysGone, Holds, Live
\* Calls that return without touching the pool.
<1>2. ASSUME NEW t \in Threads, call' = [call EXCEPT ![t] = Idle],
             UNCHANGED <<pool, given, gone>>
      PROVE  OwnInv'
  <2>1. CallsOwn' /\ SnapshotCurrent'
    BY <1>2, <1>p, <1>i, OthersKeepSnapshots
  <2>2. FreedStaysGone'
    BY <1>2 DEF OwnInv, FreedStaysGone, Live
  <2>3. QED
    BY <2>1, <2>2 DEF OwnInv
<1>3. ASSUME NEW t \in Threads,
             \/ Rejected(t) \/ QueryFails(t) \/ \E ok \in BOOLEAN : AssembleUnlock(t, ok)
             \/ \E h \in Usable(t) :
                  \/ CloneMissing(t, h) \/ QueryMissing(t, h) \/ DeployMissing(t, h) \/ ReadState(t, h)
                  \/ \E hi \in Usable(t) : AssembleMissing(t, hi, h)
      PROVE  OwnInv'
  BY <1>2, <1>3 DEF Rejected, QueryFails, AssembleUnlock, CloneMissing, QueryMissing,
                    DeployMissing, ReadState, AssembleMissing, Respond
\* Calls that go on, with or without a snapshot.
<1>4. ASSUME NEW t \in Threads, NEW c, call' = [call EXCEPT ![t] = c],
             UNCHANGED <<pool, given, gone>>,
             Holds(c) => c.h \in given[t] /\ pool[c.h] # NoState /\ pool[c.h] = c.st
      PROVE  OwnInv'
  <2>1. CallsOwn' /\ SnapshotCurrent'
    BY <1>4, <1>p, <1>g, OthersKeepSnapshots
  <2>2. FreedStaysGone'
    BY <1>4 DEF OwnInv, FreedStaysGone, Live
  <2>3. QED
    BY <2>1, <2>2 DEF OwnInv
<1>5. ASSUME NEW t \in Threads, NEW s \in Parsed, CreateTake(t, s)
      PROVE  OwnInv'
  <2> DEFINE c == Frame("insert", 0, next, s, NoProgram)
  <2>1. c.at = "insert" /\ c.h = 0
    BY FrameFields
  <2> HIDE DEF c
  <2>2. ~Holds(c)
    BY <2>1 DEF Holds
  <2>3. call' = [call EXCEPT ![t] = c] /\ UNCHANGED <<pool, given, gone>>
    BY <1>5 DEF CreateTake, c
  <2>4. QED
    BY <1>4, <2>2, <2>3
<1>6. ASSUME NEW t \in Threads, CloneTake(t)
      PROVE  OwnInv'
  <2> DEFINE c == Frame("insert", call[t].h, next, call[t].st, NoProgram)
  <2>1. c.h = call[t].h /\ c.st = call[t].st
    BY FrameFields
  <2> HIDE DEF c
  <2>2. call' = [call EXCEPT ![t] = c] /\ UNCHANGED <<pool, given, gone>>
    BY <1>6 DEF CloneTake, c
  <2>3. Holds(call[t])
    BY <1>6 DEF CloneTake, Holds
  <2>4. c.h \in given[t] /\ pool[c.h] # NoState /\ pool[c.h] = c.st
    BY <2>1, <2>3 DEF OwnInv, CallsOwn, SnapshotCurrent, Holds, Live
  <2>5. QED
    BY <1>4, <2>2, <2>4
<1>7. ASSUME NEW t \in Threads, NEW h \in Usable(t), CloneRead(t, h)
      PROVE  OwnInv'
  <2> DEFINE c == Frame("clone_take", h, 0, pool[h], NoProgram)
  <2>1. c.h = h /\ c.st = pool[h]
    BY FrameFields
  <2> HIDE DEF c
  <2>2. call' = [call EXCEPT ![t] = c] /\ UNCHANGED <<pool, given, gone>> /\ pool[h] # NoState
    BY <1>7 DEF CloneRead, Live, c
  <2>3. QED
    BY <1>4, <1>g, <2>1, <2>2
<1>8. ASSUME NEW t \in Threads, NEW h \in Usable(t), NEW p \in Programs, QueryRead(t, h, p)
      PROVE  OwnInv'
  <2> DEFINE c == Frame("query_write", h, 0, pool[h], p)
  <2>1. c.h = h /\ c.st = pool[h]
    BY FrameFields
  <2> HIDE DEF c
  <2>2. call' = [call EXCEPT ![t] = c] /\ UNCHANGED <<pool, given, gone>> /\ pool[h] # NoState
    BY <1>8 DEF QueryRead, Live, c
  <2>3. QED
    BY <1>4, <1>g, <2>1, <2>2
<1>9. ASSUME NEW t \in Threads, NEW hi \in Usable(t), NEW h \in Usable(t), AssembleLock(t, hi, h)
      PROVE  OwnInv'
  <2> DEFINE c == Frame("assemble", hi, 0, NoState, NoProgram)
  <2>1. c.at = "assemble"
    BY FrameFields
  <2> HIDE DEF c
  <2>2. call' = [call EXCEPT ![t] = c] /\ UNCHANGED <<pool, given, gone>> /\ ~Holds(c)
    BY <1>9, <2>1 DEF AssembleLock, Holds, c
  <2>3. QED
    BY <1>4, <2>2
\* Calls that change entries.
<1>10. ASSUME NEW t \in Threads, Insert(t)
       PROVE  OwnInv'
  <2>1. /\ call[t].at = "insert"
        /\ pool' = [pool EXCEPT ![call[t].new] = call[t].st]
        /\ given' = [given EXCEPT ![t] = @ \cup {call[t].new}]
        /\ call' = [call EXCEPT ![t] = Idle]
        /\ gone' = gone
    BY <1>10 DEF Insert, Respond
  <2>2. /\ call[t].new \in given'[t]
        /\ \A u \in Threads : given[u] \subseteq given'[u]
    BY <2>1, <1>p DEF TypeOK
  <2>3. \A h \in Handles : h \notin given'[t] => pool'[h] = pool[h]
    BY <2>1, <2>2, <1>p DEF TypeOK
  <2>4. CallsOwn' /\ SnapshotCurrent'
    BY <2>1, <2>2, <2>3, <1>p, <1>i, OthersKeepSnapshots
  <2>5. call[t].new \notin gone
    BY <2>1, <1>p DEF HandleInv, FreshHandles
  <2>6. FreedStaysGone'
    BY <2>1, <2>5, <1>p DEF OwnInv, FreedStaysGone, Live, TypeOK
  <2>7. QED
    BY <2>4, <2>6 DEF OwnInv
<1>11. ASSUME NEW t \in Threads, QueryWrite(t)
       PROVE  OwnInv'
  <2>1. /\ call[t].at = "query_write"
        /\ \A h \in Handles : h # call[t].h => pool'[h] = pool[h]
        /\ call' = [call EXCEPT ![t] = Idle]
        /\ UNCHANGED <<given, gone>>
    BY <1>11, <1>p DEF QueryWrite, Respond, TypeOK
  <2>2. Holds(call[t])
    BY <2>1 DEF Holds
  <2>3. call[t].h \in given[t] /\ pool[call[t].h] # NoState
    BY <2>2 DEF OwnInv, CallsOwn, SnapshotCurrent, Holds, Live
  <2>4. CallsOwn' /\ SnapshotCurrent'
    BY <2>1, <2>3, <1>p, <1>i, OthersKeepSnapshots
  <2>5. call[t].h \notin gone
    BY <2>3 DEF OwnInv, FreedStaysGone, Live
  <2>6. FreedStaysGone'
    BY <2>1, <2>5, <1>p DEF OwnInv, FreedStaysGone, Live, TypeOK
  <2>7. QED
    BY <2>4, <2>6 DEF OwnInv
<1>12. ASSUME NEW t \in Threads, NEW h \in Usable(t), NEW n \in OpNames, SetOperation(t, h, n)
       PROVE  OwnInv'
  <2>1. /\ \A g \in Handles : g # h => pool'[g] = pool[g]
        /\ pool[h] = NoState => pool'[h] = NoState
        /\ call' = [call EXCEPT ![t] = Idle]
        /\ UNCHANGED <<given, gone>>
    BY <1>12, <1>p DEF SetOperation, Respond, TypeOK, Live
  <2>2. CallsOwn' /\ SnapshotCurrent'
    BY <2>1, <1>p, <1>g, <1>i, OthersKeepSnapshots
  <2>3. FreedStaysGone'
    BY <2>1, <1>p DEF OwnInv, FreedStaysGone, Live, TypeOK
  <2>4. QED
    BY <2>2, <2>3 DEF OwnInv
<1>13. ASSUME NEW t \in Threads, NEW h \in Usable(t), Free(t, h) \/ Deploy(t, h)
       PROVE  OwnInv'
  <2>1. /\ pool' = [pool EXCEPT ![h] = NoState] /\ gone' = gone \cup {h}
        /\ call' = [call EXCEPT ![t] = Idle]
        /\ UNCHANGED given
    BY <1>13 DEF Free, Deploy, Remove, Respond
  <2>2. \A g \in Handles : g # h => pool'[g] = pool[g]
    BY <2>1, <1>p DEF TypeOK
  <2>3. CallsOwn' /\ SnapshotCurrent'
    BY <2>1, <2>2, <1>p, <1>g, <1>i, OthersKeepSnapshots
  <2>4. FreedStaysGone'
    BY <2>1, <2>2, <1>p, <1>g DEF OwnInv, FreedStaysGone, Live, TypeOK
  <2>5. QED
    BY <2>3, <2>4 DEF OwnInv
<1>14. QED
  BY <1>1, <1>3, <1>5, <1>6, <1>7, <1>8, <1>9, <1>10, <1>11, <1>12, <1>13, Steps

\* When callers keep to their own handles, the snapshot of every call in
\* flight is current and what was removed stays removed.
THEOREM OwnedInvariant ==
    ASSUME ~Shared
    PROVE  Spec => []OwnInv
<1>1. Init => OwnInv
  BY OwnInit
<1>2. PoolInv /\ PoolInv' /\ OwnInv /\ [Next]_vars => OwnInv'
  BY OwnStep
<1>3. QED
  BY <1>1, <1>2, PoolInvariant, PTL DEF Spec

\* A handle that free or deploy has consumed names nothing ever after, if
\* callers keep to their own handles.
THEOREM FreedStaysGoneWhenOwned ==
    ASSUME ~Shared
    PROVE  Spec => []FreedStaysGone
<1>1. OwnInv => FreedStaysGone
  BY DEF OwnInv
<1>2. QED
  BY <1>1, OwnedInvariant, PTL

\* No write-back of a query undoes another call, and every clone inserts
\* the state its source still names, if callers keep to their own handles.
THEOREM SnapshotCurrentWhenOwned ==
    ASSUME ~Shared
    PROVE  Spec => []SnapshotCurrent
<1>1. OwnInv => SnapshotCurrent
  BY DEF OwnInv
<1>2. QED
  BY <1>1, OwnedInvariant, PTL

-----------------------------------------------------------------------------

LEMMA RefinesInit == Init => Atomic!Init
  BY DEF Init, Atomic!Init, Used, Live

\* Each step is the one step of an atomic call, or leaves the atomic pool as
\* it is: create and clone happen at their insert, query at its write-back.
LEMMA RefinesStep ==
    ASSUME ~Shared, PoolInv, PoolInv', OwnInv, [Next]_vars
    PROVE  [Atomic!Next]_(Atomic!vars)
<1> USE DEF Atomic!Next, Atomic!Step, Atomic!vars
<1>p. TypeOK /\ HandleInv
  BY DEF PoolInv, HandleInv
<1>g. \A u \in Threads : Usable(u) \subseteq Handles
  BY <1>p, UsableGiven
<1>l. \A h \in Handles : pool[h] # NoState => pool[h] \in States
  BY <1>p DEF TypeOK
\* Steps inside a call.
<1>1. ASSUME UNCHANGED <<pool, gone, resp>>
      PROVE  UNCHANGED Atomic!vars
  BY <1>1 DEF Used, Live
<1>2. CASE UNCHANGED vars
  BY <1>1, <1>2 DEF vars
<1>3. ASSUME NEW t \in Threads,
             \/ \E s \in Parsed : CreateTake(t, s)
             \/ CloneTake(t)
             \/ \E h \in Usable(t) :
                  \/ CloneRead(t, h)
                  \/ \E p \in Programs : QueryRead(t, h, p)
                  \/ \E hi \in Usable(t) : AssembleLock(t, hi, h)
      PROVE  UNCHANGED Atomic!vars
  BY <1>1, <1>3 DEF CreateTake, CloneTake, CloneRead, QueryRead, AssembleLock
\* Calls that return without changing an entry.
<1>4. ASSUME NEW t \in Threads, UNCHANGED <<pool, gone>>,
             \E r \in {<<"error">>, <<"done">>, <<"assembled">>} : Respond(t, r)
      PROVE  Atomic!NoEffect(t)
  BY <1>4 DEF Atomic!NoEffect, Atomic!Answer, Respond, Used, Live
<1>5. ASSUME NEW t \in Threads,
             \/ Rejected(t) \/ QueryFails(t) \/ \E ok \in BOOLEAN : AssembleUnlock(t, ok)
             \/ \E h \in Usable(t) :
                  \/ CloneMissing(t, h) \/ QueryMissing(t, h) \/ DeployMissing(t, h)
                  \/ \E hi \in Usable(t) : AssembleMissing(t, hi, h)
      PROVE  Atomic!NoEffect(t)
  BY <1>4, <1>5 DEF Rejected, QueryFails, AssembleUnlock, CloneMissing, QueryMissing,
                    DeployMissing, AssembleMissing
<1>6. ASSUME NEW t \in Threads, NEW h \in Handles, ReadState(t, h)
      PROVE  Atomic!Step(t)
  <2>1. CASE Live(h)
    <3>1. Atomic!Read(t, h)
      BY <1>6, <2>1 DEF ReadState, Respond, Atomic!Read, Atomic!Answer, Used, Live
    <3>2. QED
      BY <3>1
  <2>2. CASE ~Live(h)
    <3>1. Atomic!NoEffect(t)
      BY <1>4, <1>6, <2>2 DEF ReadState
    <3>2. QED
      BY <3>1
  <2>3. QED
    BY <2>1, <2>2
\* Calls that change an entry.
<1>7. ASSUME NEW t \in Threads, Insert(t)
      PROVE  Atomic!Step(t)
  <2> DEFINE c == call[t]
  <2>1. /\ c.at = "insert" /\ c.new \in Handles /\ c.st \in States
        /\ c.new \notin gone /\ pool[c.new] = NoState
    BY <1>7, <1>p DEF Insert, HandleInv, CallShape, FreshHandles, Live
  <2>2. /\ pool' = [pool EXCEPT ![c.new] = c.st]
        /\ gone' = gone
        /\ resp' = [resp EXCEPT ![t] =
              IF c.h = 0 THEN <<"created", c.new>> ELSE <<"cloned", c.h, c.new>>]
    BY <1>7 DEF Insert, Respond
  <2>3. /\ c.new \notin Used
        /\ Used' = Used \cup {c.new}
    BY <2>1, <2>2, <1>p, StateUpdates DEF Used, Live, TypeOK
  <2>4. CASE c.h = 0
    <3>1. Atomic!Create(t, c.new, c.st)
      BY <2>2, <2>3, <2>4 DEF Atomic!Create, Atomic!Answer
    <3>2. QED
      BY <2>1, <3>1
  <2>5. CASE c.h # 0
    <3>1. c.h \in Handles /\ pool[c.h] # NoState /\ pool[c.h] = c.st
      BY <2>1, <2>5 DEF OwnInv, SnapshotCurrent, Live
    <3>2. Atomic!Clone(t, c.h, c.new)
      BY <2>2, <2>3, <2>5, <3>1 DEF Atomic!Clone, Atomic!Answer
    <3>3. QED
      BY <2>1, <3>1, <3>2
  <2>6. QED
    BY <2>4, <2>5
<1>8. ASSUME NEW t \in Threads, QueryWrite(t)
      PROVE  Atomic!Step(t)
  <2> DEFINE c == call[t]
             s == WithData(c.st, Effect(c.prog, c.st.data))
             e == Result(c.prog, c.st.data)
  <2>1. /\ c.at = "query_write" /\ c.prog \in Programs
        /\ c.h \in Handles /\ pool[c.h] # NoState /\ pool[c.h] = c.st /\ c.st \in States
    BY <1>8, <1>p DEF QueryWrite, HandleInv, CallShape, OwnInv, SnapshotCurrent, Live
  <2>2. s = StateEffect(c.prog, pool[c.h]) /\ e = StateResult(c.prog, pool[c.h])
    BY <2>1 DEF StateEffect, StateResult
  <2>3. s \in States /\ s # NoState
    BY <2>1, StateUpdates, EffectAssumption
  <2>4. /\ pool' = [pool EXCEPT ![c.h] = s]
        /\ gone' = gone
        /\ \/ resp' = [resp EXCEPT ![t] = <<"events", e>>]
           \/ resp' = [resp EXCEPT ![t] = <<"unreported">>]
    BY <1>8 DEF QueryWrite, Respond
  <2>5. Used' = Used
    BY <2>1, <2>3, <2>4, <1>p DEF Used, Live, TypeOK
  <2> HIDE DEF s, e
  <2>6. Atomic!Query(t, c.h, c.prog)
    BY <2>1, <2>2, <2>4, <2>5 DEF Atomic!Query, Atomic!Answer
  <2>7. QED
    BY <2>1, <2>6
<1>9. ASSUME NEW t \in Threads, NEW h \in Handles, NEW n \in OpNames, SetOperation(t, h, n)
      PROVE  Atomic!Step(t)
  <2>1. CASE Live(h)
    <3>1. WithOp(pool[h], n) # NoState
      BY <2>1, <1>l, StateUpdates DEF Live
    <3>2. /\ pool' = [pool EXCEPT ![h] = WithOp(pool[h], n)]
          /\ gone' = gone
          /\ resp' = [resp EXCEPT ![t] = <<"done">>]
      BY <1>9, <2>1 DEF SetOperation, Respond
    <3>3. Used' = Used
      BY <2>1, <3>1, <3>2, <1>p DEF Used, Live, TypeOK
    <3>4. Atomic!SetOperation(t, h, n)
      BY <2>1, <3>2, <3>3 DEF Atomic!SetOperation, Atomic!Answer, Live
    <3>5. QED
      BY <3>4
  <2>2. CASE ~Live(h)
    <3>1. Atomic!NoEffect(t)
      BY <1>4, <1>9, <2>2 DEF SetOperation
    <3>2. QED
      BY <3>1
  <2>3. QED
    BY <2>1, <2>2
<1>10. ASSUME NEW t \in Threads, NEW h \in Usable(t), Free(t, h) \/ Deploy(t, h)
       PROVE  Atomic!Step(t)
  <2>1. h \in Handles
    BY <1>g
  <2>2. /\ pool' = [pool EXCEPT ![h] = NoState]
        /\ gone' = gone \cup {h}
        /\ \/ Respond(t, <<"done">>)
           \/ Live(h) /\ Respond(t, <<"deployed", pool[h]>>)
           \/ Live(h) /\ Respond(t, <<"error">>)
    BY <1>10 DEF Free, Deploy, Remove
  <2>3. CASE Live(h)
    <3>1. Used' = Used
      BY <2>1, <2>2, <2>3, <1>p DEF Used, Live, TypeOK
    <3>2. Atomic!Remove(t, h)
      BY <2>2, <2>3, <3>1 DEF Atomic!Remove, Atomic!Answer, Respond, Live
    <3>3. QED
      BY <2>1, <3>2
  <2>4. CASE ~Live(h)
    <3>1. pool' = pool
      BY <2>1, <2>2, <2>4, <1>p DEF Live, TypeOK
    <3>2. Respond(t, <<"done">>)
      BY <2>2, <2>4
    <3>3. h \in gone
      BY <2>4, <1>p, UsableGiven DEF HandleInv, GivenHandles, Used
    <3>4. Atomic!NoEffect(t)
      BY <1>4, <2>2, <3>1, <3>2, <3>3
    <3>5. QED
      BY <3>4
  <2>5. QED
    BY <2>3, <2>4
<1>11. QED
  BY <1>2, <1>3, <1>5, <1>6, <1>7, <1>8, <1>9, <1>10, <1>g, Steps

\* Callers that keep to their own handles cannot tell the pool from one in
\* which every call happens in a single step.
THEOREM PoolIsAtomicWhenOwned ==
    ASSUME ~Shared
    PROVE  Spec => ImplementsAtomicPool
<1>1. Init => Atomic!Init
  BY RefinesInit
<1>2. PoolInv /\ PoolInv' /\ OwnInv /\ [Next]_vars => [Atomic!Next]_(Atomic!vars)
  BY RefinesStep
<1>3. QED
  BY <1>1, <1>2, PoolInvariant, OwnedInvariant, PTL DEF Spec, Atomic!Spec, ImplementsAtomicPool

=============================================================================
