------------------------------ MODULE Pipeline ------------------------------
(***************************************************************************)
(* What the threads of one Store share: the frames that travel between     *)
(* them, the commands of the event loop's channel, and that channel.       *)
(* Source: genet-kernel/src/store.rs, genet-kernel/src/frame.rs.           *)
(*                                                                         *)
(* A frame is its index and the layer its reader produced (the reader's id *)
(* and a per-reader serial number stand for the packet).  Decoding changes *)
(* the layers of a frame only, which no property of this model looks at.   *)
(***************************************************************************)
EXTENDS Integers, Sequences, FiniteSets

CONSTANTS
  Concurrency,  \* Profile::concurrency: threads of the parallel pool
  MaxIo,        \* bound: readers and writers the session creates
  FilterIds,    \* ids a user interface sets filters under
  Filters,      \* compiled display filters
  NoFilter,     \* Option::None where a filter is expected
  Matches(_, _) \* Matches(f, frame): Filter::test on the frame's layers

ASSUME ConcurrencyAssumption == Concurrency \in Nat \ {0}
ASSUME MaxIoAssumption == MaxIo \in Nat
ASSUME FilterAssumption == NoFilter \notin Filters

Ids == 1..MaxIo
Workers == 1..Concurrency

Layer == [src : Ids, seq : Nat]
Frame == [index : Nat, src : Ids, seq : Nat]

\* Mutant of NewFrame: the indices start one too low.
NewFrameTooLow(index, root) ==
  [index |-> index - 1, src |-> root.src, seq |-> root.seq]

\* Frame::new(index, root)
NewFrame(index, root) == [index |-> index, src |-> root.src, seq |-> root.seq]

\* A Vec<Frame> that a thread hands to the next one is never empty.
Batch == Seq(Frame) \ {<<>>}
First(batch) == batch[1].index
Final(batch) == batch[Len(batch)].index

\* enum Command: one constructor per variant.
PushFrames(id, layers) ==
  [op |-> "PushFrames", id |-> id, ok |-> TRUE, layers |-> layers]
PushError(id) ==
  [op |-> "PushFrames", id |-> id, ok |-> FALSE, layers |-> <<>>]
PushSerialFrames(frames) == [op |-> "PushSerialFrames", frames |-> frames]
StoreFrames(frames) == [op |-> "StoreFrames", frames |-> frames]
SetFilter(id, filter) == [op |-> "SetFilter", id |-> id, filter |-> filter]
PushOutput(id, filter) == [op |-> "PushOutput", id |-> id, filter |-> filter]
Close == [op |-> "Close"]

Command ==
  [op : {"PushFrames"}, id : Ids, ok : BOOLEAN, layers : Seq(Layer)]
    \cup [op : {"PushSerialFrames", "StoreFrames"}, frames : Batch]
    \cup [op : {"SetFilter"}, id : FilterIds, filter : Filters \cup {NoFilter}]
    \cup [op : {"PushOutput"}, id : Ids, filter : Filters \cup {NoFilter}]
    \cup [op : {"Close"}]

\* The message that stops one thread of a pool: a pool's channel carries
\* Option<Vec<Frame>>, and the empty batch stands for None.
Poison == <<>>

VARIABLES
  chan,   \* the unbounded channel every thread sends the event loop commands on
  panics  \* how often code of a plug-in has panicked on a thread of the store

\* The payload test of Option<Filter>: no filter lets every frame pass.
Test(filter, frame) == filter = NoFilter \/ Matches(filter, frame)

\* The frames of a sequence that pass a filter, in the order of the sequence:
\* Found(frames, filter)[n] are those among the first n.
Found(frames, filter) ==
  LET found[n \in 0..Len(frames)] ==
        IF n = 0 THEN <<>>
        ELSE IF Test(filter, frames[n]) THEN Append(found[n - 1], frames[n])
             ELSE found[n - 1]
  IN found
Selected(frames, filter) == Found(frames, filter)[Len(frames)]
=============================================================================
