---------------------------- MODULE EventReplay ----------------------------
(***************************************************************************)
(* Replaying ledger events into a wallet state (dust_ffi.rs 516-759,       *)
(* zswap_ffi.rs 128-372).                                                  *)
(*                                                                         *)
(* Each wallet has two functions for it.  One takes all events in one      *)
(* string and splits it at the event tag; the other reads a file line by   *)
(* line.  The dust file is replayed while it is read, whenever a chunk is  *)
(* full; the zswap file is read to its end and replayed in chunks then.    *)
(* Every function works on a copy: an error anywhere answers null and      *)
(* leaves the caller with the state it has.                                *)
(***************************************************************************)
EXTENDS ReplayPass

CONSTANTS
    Events,
    Inputs,      \* sequences of lines
    ChunkSize,   \* 500 in the code
    Idle,        \* no call
    Waiting,     \* a call that has not returned
    Null,        \* a null pointer: the input or an event is refused
    Unreadable   \* a null pointer: the file cannot be read

Routes == {"dust_memory", "dust_file", "zswap_memory", "zswap_file"}
Files == {"dust_file", "zswap_file"}
Nulls == {Null, Unreadable}

(* A line is one event in hexadecimal, as it should be, with blanks around *)
(* it, or with the event tag once more inside; or it is none.              *)
Lines == [form : {"clean", "padded", "nested"}, event : Events]
         \cup [form : {"empty", "blanks", "garbage"}]

ASSUME ReplayAssumption ==
    /\ ChunkSize \in Nat \ {0}
    /\ Inputs \subseteq Seq(Lines)
    /\ Waiting # Idle
    /\ {Idle, Waiting} \cap (States \cup Nulls) = {}
    /\ Nulls \cap States = {} /\ Null # Unreadable

VARIABLES
    base,    \* the state behind the caller's pointer
    route,   \* the function called
    input,   \* its lines, in memory or in a file
    line,    \* number of lines read
    read,    \* events decoded so far, in order
    done,    \* how many of them have been replayed
    state,   \* the copy they were replayed into
    answer   \* what the call returned

vars == <<base, route, input, line, read, done, state, answer>>

-----------------------------------------------------------------------------
(* What the four functions make of a line.  Only zswap_file trims it; only *)
(* the memory routes look for the tag inside, and split the event there.   *)
Decodes(r, l) ==
    \/ l.form = "clean"
    \/ l.form = "padded" /\ r = "zswap_file"
    \/ l.form = "nested" /\ r \in Files

(* A slip: an empty line is an error.                                      *)
SkipsNothing(r, l) == FALSE

Skips(r, l) ==
    \/ l.form = "empty"
    \/ l.form = "blanks" /\ r = "zswap_file"

Reading(r, l) ==
    IF Decodes(r, l) THEN "event" ELSE IF Skips(r, l) THEN "skip" ELSE "bad"

AllRead == line = Len(input)

(* Decoded and not replayed yet, and what the next call of replay_events   *)
(* gets of it.                                                             *)
Held == Len(read) - done
Batch == IF route \in Files /\ Held > ChunkSize THEN ChunkSize ELSE Held
Batched == SubSeq(read, done + 1, done + Batch)

(* A slip: a chunk is replayed one event late.                             *)
ChunkOverfull == route = "dust_file" /\ Held > ChunkSize

(* The dust file is replayed as soon as a chunk is full, everything else   *)
(* when it has been read.                                                  *)
ChunkFull == route = "dust_file" /\ Held = ChunkSize

-----------------------------------------------------------------------------
(* Slips, part of no specification.                                        *)

(* The last, partial chunk is forgotten.                                   *)
FinishWithoutLastChunk ==
    /\ answer = Waiting
    /\ AllRead
    /\ Held < ChunkSize
    /\ answer' = state
    /\ UNCHANGED <<base, route, input, line, read, done, state>>

(* A line without an event is read again and again.                        *)
ReadLineInPlace ==
    /\ answer = Waiting
    /\ ~AllRead /\ ~ChunkFull
    /\ Reading(route, input[line + 1]) # "bad"
    /\ IF Reading(route, input[line + 1]) = "event"
       THEN read' = Append(read, input[line + 1].event) /\ line' = line + 1
       ELSE UNCHANGED <<read, line>>
    /\ UNCHANGED <<base, route, input, done, state, answer>>

(* The index into the events moves by the chunk's size.                    *)
ReplayBatchFullStride ==
    /\ answer = Waiting
    /\ AllRead \/ ChunkFull
    /\ Held > 0
    /\ state' \in {t \in States : Replays(state, Batched, t)}
    /\ done' = done + ChunkSize
    /\ UNCHANGED <<base, route, input, line, read, answer>>

-----------------------------------------------------------------------------
Init ==
    /\ base \in States
    /\ route \in Routes
    /\ input = <<>>
    /\ line = 0
    /\ read = <<>>
    /\ done = 0
    /\ state = base
    /\ answer = Idle

Call(r, f) ==
    /\ answer = Idle
    /\ route' = r
    /\ input' = f
    /\ answer' = Waiting
    /\ UNCHANGED <<base, line, read, done, state>>

ReadLine ==
    /\ answer = Waiting
    /\ ~AllRead /\ ~ChunkFull
    /\ LET l == input[line + 1]
       IN  /\ Reading(route, l) # "bad"
           /\ read' = IF Reading(route, l) = "event" THEN Append(read, l.event)
                                                     ELSE read
    /\ line' = line + 1
    /\ UNCHANGED <<base, route, input, done, state, answer>>

RefuseLine ==
    /\ answer = Waiting
    /\ ~AllRead /\ ~ChunkFull
    /\ Reading(route, input[line + 1]) = "bad"
    /\ answer' = Null
    /\ UNCHANGED <<base, route, input, line, read, done, state>>

(* The file cannot be opened, or its next line not be read.                *)
FailToRead ==
    /\ answer = Waiting
    /\ route \in Files
    /\ line = 0 \/ (~AllRead /\ ~ChunkFull)
    /\ answer' = Unreadable
    /\ UNCHANGED <<base, route, input, line, read, done, state>>

ReplayBatch ==
    /\ answer = Waiting
    /\ AllRead \/ ChunkFull
    /\ Held > 0
    /\ state' \in {t \in States : Replays(state, Batched, t)}
    /\ done' = done + Batch
    /\ UNCHANGED <<base, route, input, line, read, answer>>

RefuseBatch ==
    /\ answer = Waiting
    /\ AllRead \/ ChunkFull
    /\ Held > 0
    /\ \A t \in States : ~Replays(state, Batched, t)
    /\ answer' = Null
    /\ UNCHANGED <<base, route, input, line, read, done, state>>

Finish ==
    /\ answer = Waiting
    /\ AllRead
    /\ Held = 0
    /\ answer' = state
    /\ UNCHANGED <<base, route, input, line, read, done, state>>

(* A caller keeps the pointer it is answered, or the one it has.           *)
Adopt ==
    /\ answer \in States \cup Nulls
    /\ base' = IF answer \in States THEN answer ELSE base
    /\ input' = <<>>
    /\ line' = 0
    /\ read' = <<>>
    /\ done' = 0
    /\ state' = base'
    /\ answer' = Idle
    /\ UNCHANGED route

Step == ReadLine \/ RefuseLine \/ FailToRead \/ ReplayBatch \/ RefuseBatch \/ Finish

Next == Adopt \/ Step \/ \E r \in Routes, f \in Inputs : Call(r, f)

Spec == Init /\ [][Next]_vars

(* A call that has begun runs on: nothing in it waits for anybody.         *)
FairSpec == Spec /\ WF_vars(Step)

-----------------------------------------------------------------------------
(* Properties.                                                             *)

(* Types, and no event is replayed that has not been decoded.              *)
TypeOK ==
    /\ base \in States
    /\ route \in Routes
    /\ input \in Inputs \cup {<<>>}
    /\ line \in 0..Len(input)
    /\ read \in Seq(Events)
    /\ done \in 0..Len(read)
    /\ state \in States
    /\ answer \in {Idle, Waiting} \cup States \cup Nulls

(* Streaming the dust file never holds more than one chunk of events, which*)
(* is what keeps a full sync from exhausting the memory (dust_ffi.rs       *)
(* 653-657).                                                               *)
HoldsOneChunk == route = "dust_file" => Held <= ChunkSize

(* A file of clean lines and empty ones is refused only if a single pass   *)
(* over its events, as far as they were read, would be refused too: no     *)
(* chunk boundary makes a good file bad.                                   *)
GoodFilesReplay ==
    /\ answer = Null
    /\ \A i \in DOMAIN input : input[i].form \in {"clean", "empty"}
    => \A t \in States : ~Replays(base, read, t)

(* Chunks and streaming change nothing: each call does what a single pass  *)
(* over all events does, or refuses and leaves the caller's state alone.   *)
SinglePass == INSTANCE SinglePassReplay

ImplementsSinglePass == SinglePass!Spec

(* Every call returns.                                                     *)
CallsFinish == answer = Waiting ~> answer # Waiting
=============================================================================
