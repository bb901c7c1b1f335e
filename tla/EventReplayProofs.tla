-------------------------- MODULE EventReplayProofs --------------------------
(***************************************************************************)
(* For every chunk size, every input and whatever an event does to a state:*)
(* replaying in chunks while a file is read is one replay of all of it.    *)
(***************************************************************************)
EXTENDS EventReplay, SequenceTheorems, WellFoundedInduction, TLAPS

-----------------------------------------------------------------------------
(* Passes.                                                                 *)

LEMMA NothingReplays == ASSUME NEW s \in States PROVE Replays(s, <<>>, s)
<1> DEFINE tr == [i \in 0..0 |-> s]
<1>1. tr \in [0..Len(<<>>) -> States] /\ Leads(tr, s, <<>>, s)
  BY DEF Leads
<1> QED BY <1>1 DEF Replays

(* A pass and one that starts where it ended are a pass.                   *)
LEMMA PassesCompose ==
  ASSUME NEW d \in Seq(Events), NEW e \in Seq(Events),
         NEW s, NEW t, NEW u,
         Replays(s, d, t), Replays(t, e, u)
  PROVE  Replays(s, d \o e, u)
<1>1. PICK f \in [0..Len(d) -> States] : Leads(f, s, d, t)
  BY DEF Replays
<1>2. PICK g \in [0..Len(e) -> States] : Leads(g, t, e, u)
  BY DEF Replays
<1> DEFINE h == [i \in 0..Len(d \o e) |-> IF i <= Len(d) THEN f[i] ELSE g[i - Len(d)]]
<1>3. Len(d \o e) = Len(d) + Len(e) /\ Len(d) \in Nat /\ Len(e) \in Nat
  BY LenProperties, ConcatProperties
<1>4. h \in [0..Len(d \o e) -> States]
  BY <1>3
<1>5. h[0] = s
  BY <1>1, <1>3 DEF Leads
<1>6. h[Len(d \o e)] = u
  <2>1. CASE Len(e) = 0
    BY <1>1, <1>2, <1>3, <2>1 DEF Leads
  <2>2. CASE Len(e) > 0
    BY <1>2, <1>3, <2>2 DEF Leads
  <2> QED BY <1>3, <2>1, <2>2
<1>7. ASSUME NEW i \in 1..Len(d \o e) PROVE h[i] = Apply(h[i - 1], (d \o e)[i])
  <2>1. CASE i <= Len(d)
    <3>1. h[i] = f[i] /\ h[i - 1] = f[i - 1] /\ (d \o e)[i] = d[i] /\ i \in 1..Len(d)
      BY <1>3, <1>7, <2>1, ConcatProperties
    <3> QED BY <3>1, <1>1 DEF Leads
  <2>2. CASE i > Len(d)
    <3> DEFINE k == i - Len(d)
    <3>1. k \in 1..Len(e) /\ h[i] = g[k] /\ (d \o e)[i] = e[k]
      BY <1>3, <1>7, <2>2, ConcatProperties
    <3>2. h[i - 1] = g[k - 1]
      <4>1. CASE k = 1
        BY <1>1, <1>2, <1>3, <1>7, <4>1 DEF Leads
      <4>2. CASE k > 1
        BY <1>3, <1>7, <3>1, <4>2
      <4> QED BY <3>1, <4>1, <4>2
    <3> QED BY <3>1, <3>2, <1>2 DEF Leads
  <2> QED BY <1>3, <1>7, <2>1, <2>2
<1> QED BY <1>4, <1>5, <1>6, <1>7 DEF Leads, Replays

LEMMA PrefixGrows ==
  ASSUME NEW r \in Seq(Events), NEW m \in Nat, NEW n \in Nat, m <= n, n <= Len(r)
  PROVE  /\ SubSeq(r, 1, n) = SubSeq(r, 1, m) \o SubSeq(r, m + 1, n)
         /\ SubSeq(r, 1, m) \in Seq(Events)
         /\ SubSeq(r, m + 1, n) \in Seq(Events)
  OBVIOUS

-----------------------------------------------------------------------------
(* What has been replayed of the events read is in the copy, and between   *)
(* calls nothing is left over.                                             *)
Types ==
    /\ base \in States /\ state \in States
    /\ route \in Routes
    /\ input \in Seq(Lines)
    /\ line \in 0..Len(input)
    /\ read \in Seq(Events)
    /\ done \in 0..Len(read)
    /\ answer \in {Idle, Waiting} \cup States \cup Nulls

Caught == Replays(base, SubSeq(read, 1, done), state)

Fresh ==
    answer = Idle =>
        input = <<>> /\ line = 0 /\ read = <<>> /\ done = 0 /\ state = base

ReplayInv == Types /\ Caught /\ Fresh

LEMMA ReplayInit == ASSUME Init PROVE ReplayInv
<1>1. SubSeq(read, 1, done) = <<>>
  BY DEF Init
<1>2. Caught
  BY <1>1, NothingReplays DEF Init, Caught
<1> QED BY <1>2 DEF Init, ReplayInv, Types, Fresh

LEMMA DecodedLine ==
  ASSUME Types, NEW i \in 1..Len(input), Reading(route, input[i]) = "event"
  PROVE  input[i].event \in Events
  BY DEF Types, Lines, Reading, Decodes

LEMMA ReplayStep == ASSUME ReplayInv, [Next]_vars PROVE ReplayInv'
<1> USE ReplayAssumption DEF ReplayInv
<1>1. ASSUME NEW r \in Routes, NEW f \in Inputs, Call(r, f) PROVE ReplayInv'
  BY <1>1 DEF Call, Types, Caught, Fresh
<1>2. ASSUME ReadLine PROVE ReplayInv'
  <2>1. line + 1 \in 1..Len(input)
    BY <1>2 DEF ReadLine, AllRead, Types
  <2>2. read' \in Seq(Events) /\ done \in 0..Len(read')
    <3>1. CASE Reading(route, input[line + 1]) = "event"
      BY <1>2, <2>1, <3>1, DecodedLine DEF ReadLine, Types
    <3>2. CASE Reading(route, input[line + 1]) # "event"
      BY <1>2, <3>2 DEF ReadLine, Types
    <3> QED BY <3>1, <3>2
  <2>3. SubSeq(read', 1, done) = SubSeq(read, 1, done)
    <3>1. CASE Reading(route, input[line + 1]) = "event"
      BY <1>2, <2>1, <3>1, DecodedLine DEF ReadLine, Types
    <3>2. CASE Reading(route, input[line + 1]) # "event"
      BY <1>2, <3>2 DEF ReadLine
    <3> QED BY <3>1, <3>2
  <2>4. answer' = Waiting /\ line' = line + 1
        /\ UNCHANGED <<base, route, input, done, state>>
    BY <1>2 DEF ReadLine
  <2>5. Types'
    BY <2>1, <2>2, <2>4 DEF Types
  <2>6. Caught' /\ Fresh'
    BY <2>3, <2>4 DEF Caught, Fresh
  <2> QED BY <2>5, <2>6
<1>3. ASSUME RefuseLine \/ FailToRead \/ RefuseBatch PROVE ReplayInv'
  <2>1. answer' \in Nulls /\ UNCHANGED <<base, route, input, line, read, done, state>>
    BY <1>3 DEF RefuseLine, FailToRead, RefuseBatch, Nulls
  <2>2. answer' # Idle
    BY <2>1
  <2> QED BY <2>1, <2>2 DEF Types, Caught, Fresh
<1>4. ASSUME ReplayBatch PROVE ReplayInv'
  <2>1. done + Batch \in done..Len(read) /\ done \in Nat /\ Len(read) \in Nat
    BY <1>4 DEF ReplayBatch, Batch, Held, Types
  <2>2. SubSeq(read, 1, done') = SubSeq(read, 1, done) \o Batched
    BY <1>4, <2>1, PrefixGrows DEF ReplayBatch, Types, Batched
  <2>3. SubSeq(read, 1, done) \in Seq(Events) /\ Batched \in Seq(Events)
    BY <2>1, PrefixGrows DEF Types, Batched
  <2>4. Replays(base, SubSeq(read, 1, done), state) /\ Replays(state, Batched, state')
    BY <1>4 DEF ReplayBatch, Caught
  <2>5. Replays(base, SubSeq(read, 1, done'), state')
    BY <2>2, <2>3, <2>4, PassesCompose
  <2> QED BY <1>4, <2>1, <2>5 DEF ReplayBatch, Types, Caught, Fresh
<1>5. ASSUME Finish PROVE ReplayInv'
  BY <1>5 DEF Finish, Types, Caught, Fresh
<1>6. ASSUME Adopt PROVE ReplayInv'
  <2>1. base' \in States
    BY <1>6 DEF Adopt, Types
  <2>2. SubSeq(read', 1, done') = <<>>
    BY <1>6 DEF Adopt
  <2>3. Caught'
    BY <1>6, <2>1, <2>2, NothingReplays DEF Adopt, Caught
  <2> QED BY <1>6, <2>1, <2>3 DEF Adopt, Types, Fresh
<1>7. ASSUME UNCHANGED vars PROVE ReplayInv'
  BY <1>7 DEF vars, Types, Caught, Fresh
<1> QED BY <1>1, <1>2, <1>3, <1>4, <1>5, <1>6, <1>7 DEF Next, Step

LEMMA ReplayInvariant == Spec => []ReplayInv
  BY ReplayInit, ReplayStep, PTL DEF Spec

-----------------------------------------------------------------------------
(* Every call does what one pass over all the events of its input does, or *)
(* answers null: chunks and streaming make no difference, and a failure in *)
(* a later chunk leaves nothing of the earlier ones.                       *)
LEMMA SinglePassStep ==
  ASSUME ReplayInv, [Next]_vars
  PROVE  [SinglePass!Next]_(SinglePass!vars)
<1> USE ReplayAssumption DEF SinglePass!vars
<1>1. ASSUME NEW r \in Routes, NEW f \in Inputs, Call(r, f) PROVE SinglePass!Next
  BY <1>1 DEF Call, SinglePass!Call, SinglePass!Next
<1>2. ASSUME ReadLine PROVE SinglePass!Next
  <2>1. line < Len(input)
    BY <1>2 DEF ReadLine, AllRead, ReplayInv, Types
  <2>2. SinglePass!Read
    BY <1>2, <2>1 DEF ReadLine, SinglePass!Read
  <2> QED BY <2>2 DEF SinglePass!Next
<1>3. ASSUME RefuseLine \/ FailToRead \/ RefuseBatch PROVE SinglePass!Next
  BY <1>3 DEF RefuseLine, FailToRead, RefuseBatch, Nulls, SinglePass!Refuse, SinglePass!Next
<1>4. ASSUME ReplayBatch PROVE UNCHANGED SinglePass!vars
  BY <1>4 DEF ReplayBatch
<1>5. ASSUME Finish PROVE SinglePass!Next
  <2>1. done = Len(read) /\ SubSeq(read, 1, Len(read)) = read
    BY <1>5 DEF Finish, Held, ReplayInv, Types
  <2>2. Replays(base, read, state)
    BY <2>1 DEF ReplayInv, Caught
  <2>3. SinglePass!Replays(base, read, state)
    BY <2>2 DEF Replays, Leads, SinglePass!Replays, SinglePass!Leads
  <2>4. SinglePass!Answer
    BY <1>5, <2>3 DEF Finish, AllRead, SinglePass!Answer, ReplayInv, Types
  <2> QED BY <2>4 DEF SinglePass!Next
<1>6. ASSUME Adopt PROVE SinglePass!Next
  BY <1>6 DEF Adopt, SinglePass!Adopt, SinglePass!Next
<1>7. ASSUME UNCHANGED vars PROVE UNCHANGED SinglePass!vars
  BY <1>7 DEF vars
<1> QED BY <1>1, <1>2, <1>3, <1>4, <1>5, <1>6, <1>7 DEF Next, Step

THEOREM ChunksAreOnePass == Spec => ImplementsSinglePass
<1>1. Init => SinglePass!Init
  BY DEF Init, SinglePass!Init
<1>2. ReplayInv /\ [Next]_vars => [SinglePass!Next]_(SinglePass!vars)
  BY SinglePassStep
<1> QED BY <1>1, <1>2, ReplayInvariant, PTL DEF Spec, ImplementsSinglePass, SinglePass!Spec

-----------------------------------------------------------------------------
(* The streamed file never holds more than one chunk of decoded events.    *)
LEMMA ChunkStep == ASSUME ReplayInv, HoldsOneChunk, [Next]_vars PROVE HoldsOneChunk'
<1> USE ReplayAssumption DEF HoldsOneChunk, Held, ReplayInv, Types
<1>1. ASSUME NEW r \in Routes, NEW f \in Inputs, Call(r, f) PROVE HoldsOneChunk'
  BY <1>1 DEF Call, Fresh
<1>2. ASSUME ReadLine PROVE HoldsOneChunk'
  <2>1. Len(read') <= Len(read) + 1
    BY <1>2, DecodedLine DEF ReadLine, AllRead
  <2>2. route = "dust_file" => Len(read) - done < ChunkSize
    BY <1>2 DEF ReadLine, ChunkFull
  <2>3. read' \in Seq(Events)
    BY <1>2, ReplayStep DEF Next, Step
  <2> QED BY <1>2, <2>1, <2>2, <2>3 DEF ReadLine
<1>3. ASSUME RefuseLine \/ FailToRead \/ RefuseBatch PROVE HoldsOneChunk'
  BY <1>3 DEF RefuseLine, FailToRead, RefuseBatch
<1>4. ASSUME ReplayBatch PROVE HoldsOneChunk'
  BY <1>4 DEF ReplayBatch, Batch
<1>5. ASSUME Finish \/ Adopt PROVE HoldsOneChunk'
  BY <1>5 DEF Finish, Adopt
<1>6. ASSUME UNCHANGED vars PROVE HoldsOneChunk'
  BY <1>6 DEF vars
<1> QED BY <1>1, <1>2, <1>3, <1>4, <1>5, <1>6 DEF Next, Step

THEOREM StreamingHoldsOneChunk == Spec => []HoldsOneChunk
<1>1. Init => HoldsOneChunk
  BY ReplayAssumption DEF Init, HoldsOneChunk, Held
<1> QED BY <1>1, ReplayInvariant, ChunkStep, PTL DEF Spec

(* The types of a call in flight, and that nothing is replayed that was not*)
(* decoded (dust_ffi.rs 516-759, zswap_ffi.rs 128-372).                    *)
THEOREM ReplayTypeCorrect == Spec => []TypeOK
<1>1. Types /\ input \in Inputs \cup {<<>>} => TypeOK
  BY Zenon DEF TypeOK, Types
<1>2. Init => input \in Inputs \cup {<<>>}
  BY DEF Init
<1>3. input \in Inputs \cup {<<>>} /\ [Next]_vars => (input \in Inputs \cup {<<>>})'
  BY DEF Next, Step, vars, Call, ReadLine, RefuseLine, FailToRead, ReplayBatch,
         RefuseBatch, Finish, Adopt
<1>4. ReplayInv => Types
  BY DEF ReplayInv
<1> QED BY <1>1, <1>2, <1>3, <1>4, ReplayInvariant, PTL DEF Spec

-----------------------------------------------------------------------------
(* Refusals.                                                               *)

(* Events leave no choice: a pass over a longer sequence goes on from where*)
(* one over its beginning has come, for there is no first place at which   *)
(* the two differ.                                                         *)
LEMMA PassesSplit ==
  ASSUME NEW d \in Seq(Events), NEW e \in Seq(Events), NEW s, NEW t, NEW u,
         Replays(s, d, t), Replays(s, d \o e, u)
  PROVE  Replays(t, e, u)
<1> DEFINE all == d \o e
<1>1. PICK f \in [0..Len(d) -> States] : Leads(f, s, d, t)
  BY DEF Replays
<1>2. PICK g \in [0..Len(all) -> States] : Leads(g, s, all, u)
  BY DEF Replays
<1>3. /\ Len(d) \in Nat /\ Len(e) \in Nat /\ Len(all) = Len(d) + Len(e)
      /\ \A i \in 1..Len(d) : all[i] = d[i]
      /\ \A i \in 1..Len(e) : all[i + Len(d)] = e[i]
  OBVIOUS
<1> HIDE DEF all
<1>4. \A i \in 0..Len(d) : f[i] = g[i]
  <2>1. f[0] = g[0]
    BY <1>1, <1>2 DEF Leads
  <2>2. \A i \in 1..Len(d) : f[i - 1] = g[i - 1] => f[i] = g[i]
    BY <1>1, <1>2, <1>3 DEF Leads
  <2> DEFINE Differ == {i \in 0..Len(d) : f[i] # g[i]}
  <2>3. SUFFICES ASSUME Differ # {} PROVE FALSE
    OBVIOUS
  <2>4. Differ \subseteq Nat
    BY <1>3
  <2>5. PICK i \in Differ : \A j \in Differ : <<j, i>> \notin OpToRel(<, Nat)
    BY <2>3, <2>4, NatLessThanWellFounded, WFMin
  <2>6. i \in 1..Len(d)
    BY <1>3, <2>1
  <2>7. <<i - 1, i>> \in OpToRel(<, Nat)
    BY <1>3, <2>6 DEF OpToRel
  <2>8. i - 1 \notin Differ
    <3> HIDE DEF Differ
    <3> QED BY <2>5, <2>7, Zenon
  <2>9. f[i - 1] = g[i - 1]
    <3>1. i - 1 \in 0..Len(d)
      BY <1>3, <2>6
    <3> QED BY <2>8, <3>1
  <2> QED BY <2>2, <2>6, <2>9
<1>5. g[Len(d)] = t
  BY <1>1, <1>3, <1>4 DEF Leads
<1> DEFINE h == [i \in 0..Len(e) |-> g[i + Len(d)]]
<1>6. h \in [0..Len(e) -> States]
  BY <1>3
<1>7. \A i \in 1..Len(e) : h[i] = Apply(h[i - 1], e[i])
  <2>1. SUFFICES ASSUME NEW i \in 1..Len(e) PROVE h[i] = Apply(h[i - 1], e[i])
    OBVIOUS
  <2>2. i + Len(d) \in 1..Len(all) /\ (i + Len(d)) - 1 = (i - 1) + Len(d)
    BY <1>3
  <2>3. g[i + Len(d)] = Apply(g[(i + Len(d)) - 1], all[i + Len(d)])
    BY <1>2, <2>2 DEF Leads
  <2>4. h[i] = g[i + Len(d)] /\ h[i - 1] = g[(i - 1) + Len(d)]
    BY <1>3
  <2> HIDE DEF h
  <2> QED BY <1>3, <2>2, <2>3, <2>4
<1>8. h[0] = t /\ h[Len(e)] = g[Len(all)] /\ g[Len(all)] = u
  BY <1>2, <1>3, <1>5 DEF Leads
<1> HIDE DEF h
<1> QED BY <1>6, <1>7, <1>8 DEF Leads, Replays

(* So two passes over the same events end alike.                           *)
LEMMA PassesEndAlike ==
  ASSUME NEW d \in Seq(Events), NEW s, NEW t, NEW u, Replays(s, d, t), Replays(s, d, u)
  PROVE  t = u
<1>1. d \o <<>> = d /\ <<>> \in Seq(Events)
  OBVIOUS
<1>2. Replays(s, d \o <<>>, u)
  BY <1>1
<1>3. Replays(t, <<>>, u)
  BY <1>1, <1>2, PassesSplit, Zenon
<1> QED BY <1>3 DEF Replays, Leads

(* A pass that gets to its end gets to every place before it.              *)
LEMMA PassesStop ==
  ASSUME NEW e \in Seq(Events), NEW r \in Seq(Events), NEW s, NEW u,
         Replays(s, e \o r, u)
  PROVE  \E v \in States : Replays(s, e, v)
<1>1. PICK g \in [0..Len(e \o r) -> States] : Leads(g, s, e \o r, u)
  BY DEF Replays
<1>2. /\ Len(e) \in Nat /\ Len(r) \in Nat /\ Len(e \o r) = Len(e) + Len(r)
      /\ \A i \in 1..Len(e) : (e \o r)[i] = e[i]
  OBVIOUS
<1> DEFINE h == [i \in 0..Len(e) |-> g[i]]
<1>3. h \in [0..Len(e) -> States] /\ h[Len(e)] \in States
  BY <1>2
<1>4. Leads(h, s, e, h[Len(e)])
  BY <1>1, <1>2 DEF Leads
<1> HIDE DEF h
<1> QED BY <1>3, <1>4 DEF Replays

(* If the next batch is refused, so is a pass over everything read.        *)
LEMMA RefusedBatchRefusesAll ==
  ASSUME ReplayInv, RefuseBatch, NEW u \in States, Replays(base, read, u)
  PROVE  FALSE
<1> DEFINE d == SubSeq(read, 1, done)
           n == done + Batch
           r == SubSeq(read, n + 1, Len(read))
<1>1. read \in Seq(Events) /\ done \in 0..Len(read) /\ Replays(base, d, state)
  BY DEF ReplayInv, Types, Caught
<1>2. n \in Nat /\ done \in Nat /\ Len(read) \in Nat /\ done <= n /\ n <= Len(read)
  BY <1>1, ReplayAssumption DEF RefuseBatch, Batch, Held
<1>3. Batched = SubSeq(read, done + 1, n)
  BY DEF Batched
<1> HIDE DEF n
<1>4. /\ SubSeq(read, 1, n) = d \o Batched
      /\ d \in Seq(Events) /\ Batched \in Seq(Events)
  BY <1>1, <1>2, <1>3, PrefixGrows
<1> HIDE DEF d, r
<1>5. SubSeq(read, 1, Len(read)) = SubSeq(read, 1, n) \o r /\ r \in Seq(Events)
  <2>1. Len(read) <= Len(read)
    BY <1>2
  <2> QED BY <1>1, <1>2, <2>1, PrefixGrows DEF r
<1>6. SubSeq(read, 1, Len(read)) = read
  BY <1>1
<1>7. d \o Batched \o r = d \o (Batched \o r) /\ Batched \o r \in Seq(Events)
  BY <1>4, <1>5
<1>8. Replays(base, d \o (Batched \o r), u)
  BY <1>4, <1>5, <1>6, <1>7
<1>9. Replays(state, Batched \o r, u)
  BY <1>1, <1>4, <1>7, <1>8, PassesSplit
<1>10. \E v \in States : Replays(state, Batched, v)
  BY <1>4, <1>5, <1>9, PassesStop
<1> QED BY <1>10 DEF RefuseBatch

LEMMA GoodFilesStep ==
  ASSUME ReplayInv, GoodFilesReplay, [Next]_vars PROVE GoodFilesReplay'
<1> USE ReplayAssumption DEF Nulls
<1>1. ASSUME RefuseLine PROVE GoodFilesReplay'
  <2>1. line + 1 \in DOMAIN input
    BY <1>1 DEF RefuseLine, AllRead, ReplayInv, Types
  <2>2. input[line + 1].form \notin {"clean", "empty"}
    BY <1>1 DEF RefuseLine, Reading, Decodes, Skips
  <2> QED BY <1>1, <2>1, <2>2 DEF RefuseLine, GoodFilesReplay
<1>2. ASSUME RefuseBatch PROVE GoodFilesReplay'
  <2>1. \A t \in States : ~Replays(base, read, t)
    BY <1>2, RefusedBatchRefusesAll
  <2>2. UNCHANGED <<base, read>>
    BY <1>2 DEF RefuseBatch
  <2> QED BY <2>1, <2>2 DEF GoodFilesReplay
<1>3. ASSUME answer' # Null PROVE GoodFilesReplay'
  BY <1>3 DEF GoodFilesReplay
<1>4. ASSUME UNCHANGED vars PROVE GoodFilesReplay'
  BY <1>4 DEF vars, GoodFilesReplay
<1>5. ASSUME \/ Adopt \/ ReadLine \/ FailToRead \/ ReplayBatch \/ Finish
             \/ \E r \in Routes, f \in Inputs : Call(r, f)
      PROVE  answer' # Null
  BY <1>5 DEF Adopt, ReadLine, FailToRead, ReplayBatch, Finish, Call, ReplayInv, Types
<1> QED BY <1>1, <1>2, <1>3, <1>4, <1>5 DEF Next, Step

(* A file of good lines is refused only if one pass over what was read of  *)
(* it would be too: no chunk boundary (dust_ffi.rs 703) makes a good file  *)
(* bad.                                                                    *)
THEOREM ChunksRefuseNothingGood == Spec => []GoodFilesReplay
<1>1. Init => GoodFilesReplay
  BY ReplayAssumption DEF Init, GoodFilesReplay, Nulls
<1> QED BY <1>1, ReplayInvariant, GoodFilesStep, PTL DEF Spec
-----------------------------------------------------------------------------
(* Answers.                                                                *)

(* A call that answers a state answers the only one that a single pass     *)
(* over the events can lead to: from one state, the memory route and the   *)
(* file route of a wallet cannot come to different states over the same    *)
(* events, wherever the chunks end (dust_ffi.rs 653-657).                  *)
AnswersTheOne ==
    answer \in States => \A t \in States : Replays(base, read, t) <=> t = answer

(* What has been answered is what has been replayed, all of it.            *)
Complete == answer \in States => answer = state /\ done = Len(read)

LEMMA CompleteStep == ASSUME ReplayInv, Complete, [Next]_vars PROVE Complete'
<1> USE ReplayAssumption DEF Complete
<1>1. ASSUME \/ Adopt \/ ReadLine \/ RefuseLine \/ FailToRead \/ ReplayBatch \/ RefuseBatch
             \/ \E r \in Routes, f \in Inputs : Call(r, f)
      PROVE  answer' \notin States
  BY <1>1 DEF Adopt, ReadLine, RefuseLine, FailToRead, ReplayBatch, RefuseBatch, Call, Nulls
<1>2. ASSUME Finish PROVE Complete'
  BY <1>2 DEF Finish, Held, ReplayInv, Types
<1>3. ASSUME UNCHANGED vars PROVE Complete'
  BY <1>3 DEF vars
<1> QED BY <1>1, <1>2, <1>3 DEF Next, Step

THEOREM AnswersAreDetermined == Spec => []AnswersTheOne
<1>1. ASSUME ReplayInv, Complete PROVE AnswersTheOne
  <2> SUFFICES ASSUME answer \in States, NEW t \in States
               PROVE  Replays(base, read, t) <=> t = answer
    BY DEF AnswersTheOne
  <2>1. read \in Seq(Events) /\ SubSeq(read, 1, Len(read)) = read
    BY <1>1 DEF ReplayInv, Types
  <2>2. Replays(base, read, answer)
    BY <1>1, <2>1 DEF ReplayInv, Caught, Complete
  <2> QED BY <2>1, <2>2, PassesEndAlike
<1>2. Init => Complete
  BY ReplayAssumption DEF Init, Complete
<1>3. ReplayInv /\ Complete /\ [Next]_vars => Complete'
  BY CompleteStep
<1> QED BY <1>1, <1>2, <1>3, ReplayInvariant, PTL DEF Spec

-----------------------------------------------------------------------------
(* Progress.                                                               *)

(* What a call has still to do: two for a line, which may become an event, *)
(* one for an event to replay, one to answer.                              *)
Work == IF answer = Waiting THEN 2 * (Len(input) - line) + Held + 1 ELSE 0

(* Every step of a call leaves less to do, and nothing but its own steps   *)
(* touches it before it has answered: a call takes at most 2 n + 1 steps   *)
(* for n lines.  That it takes them is CallsFinish.                        *)
CallsWorkOff ==
    [][answer = Waiting => Step /\ Work' \in Nat /\ Work' < Work]_vars

THEOREM ReplayWorksOff == Spec => CallsWorkOff
<1>1. ASSUME ReplayInv, Next, answer = Waiting
      PROVE  Step /\ Work' \in Nat /\ Work' < Work
  <2> USE ReplayAssumption
  <2>1. /\ line \in Nat /\ Len(input) \in Nat /\ line <= Len(input)
        /\ done \in Nat /\ Len(read) \in Nat /\ done <= Len(read)
    BY <1>1 DEF ReplayInv, Types
  <2>2. Work = 2 * (Len(input) - line) + Held + 1 /\ Held \in Nat /\ Work \in Nat
    BY <1>1, <2>1 DEF Work, Held
  <2>3. CASE ReadLine
    <3>1. line' = line + 1 /\ line < Len(input) /\ UNCHANGED <<input, done, answer>>
      BY <2>1, <2>3 DEF ReadLine, AllRead
    <3>2. Len(read') \in {Len(read), Len(read) + 1}
      <4>1. read \in Seq(Events)
        BY <1>1 DEF ReplayInv, Types
      <4>2. CASE Reading(route, input[line + 1]) = "event"
        <5>1. input[line + 1].event \in Events
          BY <1>1, <2>1, <3>1, <4>2, DecodedLine DEF ReplayInv
        <5> QED BY <2>3, <4>1, <4>2, <5>1 DEF ReadLine
      <4>3. CASE Reading(route, input[line + 1]) # "event"
        BY <2>3, <4>3 DEF ReadLine
      <4> QED BY <4>2, <4>3
    <3>3. Held' \in Nat /\ Held' <= Held + 1
      BY <2>1, <3>1, <3>2 DEF Held
    <3>4. Work' = 2 * (Len(input) - (line + 1)) + Held' + 1
      BY <1>1, <3>1 DEF Work
    <3> HIDE DEF Held
    <3> QED BY <2>1, <2>2, <2>3, <3>1, <3>3, <3>4 DEF Step
  <2>4. CASE ReplayBatch
    <3>1. UNCHANGED <<input, line, read, answer>> /\ done' = done + Batch /\ Held > 0
      BY <2>4 DEF ReplayBatch
    <3>2. Batch \in 1..Held
      BY <2>2, <3>1 DEF Batch
    <3>3. Held' = Held - Batch
      BY <2>1, <2>2, <3>1, <3>2 DEF Held
    <3>4. Work' = 2 * (Len(input) - line) + Held' + 1
      BY <1>1, <3>1 DEF Work
    <3> HIDE DEF Held
    <3> QED BY <2>1, <2>2, <2>4, <3>2, <3>3, <3>4 DEF Step
  <2>5. CASE RefuseLine \/ FailToRead \/ RefuseBatch \/ Finish
    <3>1. answer' # Waiting
      BY <1>1, <2>5 DEF RefuseLine, FailToRead, RefuseBatch, Finish, Nulls, ReplayInv, Types
    <3>2. Work' = 0
      BY <3>1 DEF Work
    <3> QED BY <2>1, <2>2, <2>5, <3>2 DEF Step
  <2>6. ASSUME Adopt \/ \E r \in Routes, f \in Inputs : Call(r, f) PROVE FALSE
    BY <1>1, <2>6 DEF Adopt, Call
  <2> QED BY <1>1, <2>3, <2>4, <2>5, <2>6 DEF Next, Step
<1>2. ReplayInv /\ [Next]_vars =>
        [answer = Waiting => Step /\ Work' \in Nat /\ Work' < Work]_vars
  BY <1>1
<1> QED BY <1>2, ReplayInvariant, PTL DEF CallsWorkOff, Spec
=============================================================================
