-------------------------- MODULE StoreOrderProofs --------------------------
(***************************************************************************)
(* The variables of the store have their types, for every number of        *)
(* threads, of readers and of filters, and every chunk size.               *)
(*                                                                         *)
(* The store publishes the frames in the order they were numbered, and     *)
(* implements FrameLog.  The argument follows one batch: process_input     *)
(* makes it of consecutive frames (BatchesConsecutive), whichever threads  *)
(* it passes; the serial thread hands batches over one after the other     *)
(* (SerialHandover); so the batch the event loop stores continues the      *)
(* store.                                                                  *)
(***************************************************************************)
EXTENDS StoreProperties, TLAPS

-----------------------------------------------------------------------------
(* The commands of the event loop's channel.                               *)

\* What the variants of Command carry.
LEMMA CommandFields ==
  ASSUME NEW c \in Command
  PROVE  /\ c.op = "PushFrames" => c.id \in Ids /\ c.layers \in Seq(Layer)
         /\ c.op \in {"PushSerialFrames", "StoreFrames"} => c.frames \in Batch
         /\ c.op = "SetFilter" =>
              c.id \in FilterIds /\ c.filter \in Filters \cup {NoFilter}
         /\ c.op = "PushOutput" => c.id \in Ids /\ c.filter \in Filters \cup {NoFilter}
  BY DEF Command

\* What the threads send is a Command.
LEMMA CommandForms ==
  /\ \A i \in Ids, layers \in Seq(Layer) : PushFrames(i, layers) \in Command
  /\ \A i \in Ids : PushError(i) \in Command
  /\ \A b \in Batch : PushSerialFrames(b) \in Command /\ StoreFrames(b) \in Command
  /\ \A id \in FilterIds, f \in Filters \cup {NoFilter} : SetFilter(id, f) \in Command
  /\ \A i \in Ids, f \in Filters \cup {NoFilter} : PushOutput(i, f) \in Command
  /\ Close \in Command
  BY DEF Command, PushFrames, PushError, PushSerialFrames, StoreFrames, SetFilter,
         PushOutput, Close

\* A batch has a first and a last frame.
LEMMA BatchEnds ==
  ASSUME NEW b \in Batch
  PROVE  /\ Len(b) \in Nat \ {0}
         /\ \A k \in 1..Len(b) : b[k] \in Frame /\ b[k].index \in Nat
         /\ First(b) \in Nat /\ Final(b) \in Nat
<1>1. b \in Seq(Frame) /\ Len(b) \in Nat \ {0}
  BY DEF Batch
<1>2. \A k \in 1..Len(b) : b[k] \in Frame
  BY <1>1
<1>3. \A k \in 1..Len(b) : b[k].index \in Nat
  BY <1>2 DEF Frame
<1>4. 1 \in 1..Len(b) /\ Len(b) \in 1..Len(b)
  BY <1>1
<1> QED
  BY <1>1, <1>2, <1>3, <1>4 DEF First, Final

\* Taking a command leaves commands in the channel.
LEMMA Taken ==
  ASSUME ChannelsOK, NEW op, Received(op)
  PROVE  /\ chan' \in Seq(Command)
         /\ Head(chan) \in Command
         /\ Head(chan).op = op
  BY DEF ChannelsOK, Received

\* process_input makes frames of layers.
LEMMA NumberedFrames ==
  ASSUME NEW n \in Nat, NEW layers \in Seq(Layer)
  PROVE  [k \in 1..Len(layers) |-> NewFrame(n + k - 1, layers[k])] \in Seq(Frame)
<1>1. ASSUME NEW k \in 1..Len(layers)
      PROVE  NewFrame(n + k - 1, layers[k]) \in Frame
  <2>1. n + k - 1 \in Nat /\ layers[k] \in Layer
    OBVIOUS
  <2> QED
    BY <2>1 DEF Layer, NewFrame, Frame
<1>2. [k \in 1..Len(layers) |-> NewFrame(n + k - 1, layers[k])] \in [1..Len(layers) -> Frame]
  BY <1>1
<1> QED
  BY <1>2

-----------------------------------------------------------------------------

LEMMA InitType == Init => TypeOK
<1> SUFFICES ASSUME Init PROVE TypeOK
  OBVIOUS
<1>1. ChannelsOK
  BY DEF Init, ParallelInit, SerialInit, ChannelsOK
<1>2. PoolsOK
  BY DEF Init, ParallelInit, SerialInit, PoolsOK, Waiting
<1>3. ReadersOK
  BY DEF Init, InputsInit, ReadersOK
<1>4. FramesOK
  BY DEF Init, FramesOK
<1>5. ViewsOK
  BY DEF Init, ViewsOK, Unset, NoOutput
<1>6. ControlOK
  <2>1. done \in [Ids -> Seq({"ok", "err"})]
    BY DEF Init
  <2>2. joined \in 0..Concurrency /\ ioCnt \in 0..MaxIo /\ fops \in 0..MaxFilterOps
    BY ConcurrencyAssumption, MaxIoAssumption, BoundAssumption DEF Init
  <2> QED
    BY <2>1, <2>2 DEF Init, ControlOK
<1> QED
  BY <1>1, <1>2, <1>3, <1>4, <1>5, <1>6 DEF TypeOK

\* A thread of the parallel pool.
LEMMA WorkerType ==
  ASSUME TypeOK, NEW w \in Workers, Worker(w)
  PROVE  TypeOK'
<1>1. CASE WorkerRecv(w)
  <2>1. Head(pq) \in Seq(Frame) /\ pq' \in Seq(Seq(Frame))
    BY <1>1 DEF TypeOK, ChannelsOK, WorkerRecv
  <2>2. ChannelsOK'
    BY <1>1, <2>1 DEF TypeOK, ChannelsOK, WorkerRecv, Worker, serialVars
  <2>3. PoolsOK'
    BY <1>1, <2>1 DEF TypeOK, PoolsOK, WorkerRecv, Worker, serialVars, Returned, Working,
                      Poison
  <2> QED
    BY <1>1, <2>2, <2>3 DEF TypeOK, WorkerRecv, Worker, poolStutter, inputVars, loopVars,
           filterVars, filterView, outputVars, eventVars, downVars, callerVars, ReadersOK,
           FramesOK, ViewsOK, ControlOK
<1>2. CASE WorkerDone(w)
  <2>1. wk[w].frames \in Batch
    BY <1>2 DEF TypeOK, PoolsOK, WorkerDone, Batch
  <2>2. ChannelsOK'
    BY <1>2, <2>1, CommandForms DEF TypeOK, ChannelsOK, WorkerDone, Worker, serialVars
  <2>3. PoolsOK'
    BY <1>2 DEF TypeOK, PoolsOK, WorkerDone, Worker, serialVars, Waiting
  <2> QED
    BY <1>2, <2>2, <2>3 DEF TypeOK, WorkerDone, Worker, poolStutter, inputVars, loopVars,
           filterVars, filterView, outputVars, eventVars, downVars, callerVars, ReadersOK,
           FramesOK, ViewsOK, ControlOK
<1> QED
  BY <1>1, <1>2 DEF Worker

\* The thread of the serial pool.
LEMMA SerialType ==
  ASSUME TypeOK, Serial
  PROVE  TypeOK'
<1>1. CASE SerialRecv
  <2>1. Head(sq) \in Seq(Frame) /\ sq' \in Seq(Seq(Frame))
    BY <1>1 DEF TypeOK, ChannelsOK, SerialRecv
  <2>2. ChannelsOK'
    BY <1>1, <2>1 DEF TypeOK, ChannelsOK, SerialRecv, Serial, parallelVars
  <2>3. Head(sq) # Poison => Head(sq) \in Batch /\ First(Head(sq)) \in Nat
    BY <2>1, BatchEnds DEF Batch, Poison
  <2>4. UNCHANGED <<wk, snext>>
    BY <1>1 DEF SerialRecv, Serial, parallelVars
  <2>5. /\ spc' \in {"recv", "drain", "ended", "dead"} /\ DOMAIN smap' \subseteq Nat
        /\ \A k \in DOMAIN smap' : smap'[k] \in Batch
    <3>1. CASE Head(sq) = Poison
      BY <1>1, <3>1 DEF SerialRecv
    <3>2. CASE Head(sq) # Poison
      BY <1>1, <2>3, <3>2 DEF TypeOK, PoolsOK, SerialRecv, MapInsert
    <3> QED
      BY <3>1, <3>2
  <2>6. PoolsOK'
    BY <2>4, <2>5 DEF TypeOK, PoolsOK
  <2> QED
    BY <1>1, <2>2, <2>6 DEF TypeOK, SerialRecv, Serial, poolStutter, inputVars, loopVars,
           filterVars, filterView, outputVars, eventVars, downVars, callerVars, ReadersOK,
           FramesOK, ViewsOK, ControlOK
<1>2. CASE SerialDrain
  <2>1. smap[snext] \in Batch /\ Final(smap[snext]) \in Nat
    BY <1>2, BatchEnds DEF TypeOK, PoolsOK, SerialDrain
  <2>2. ChannelsOK'
    BY <1>2, <2>1, CommandForms DEF TypeOK, ChannelsOK, SerialDrain, Serial, parallelVars
  <2>3. PoolsOK'
    BY <1>2, <2>1 DEF TypeOK, PoolsOK, SerialDrain, Serial, parallelVars, MapRemove
  <2> QED
    BY <1>2, <2>2, <2>3 DEF TypeOK, SerialDrain, Serial, poolStutter, inputVars, loopVars,
           filterVars, filterView, outputVars, eventVars, downVars, callerVars, ReadersOK,
           FramesOK, ViewsOK, ControlOK
<1>3. CASE SerialWait
  <2>1. ChannelsOK' /\ PoolsOK'
    BY <1>3 DEF TypeOK, ChannelsOK, PoolsOK, SerialWait, Serial, parallelVars
  <2> QED
    BY <1>3, <2>1 DEF TypeOK, SerialWait, Serial, poolStutter, inputVars, loopVars,
           filterVars, filterView, outputVars, eventVars, downVars, callerVars, ReadersOK,
           FramesOK, ViewsOK, ControlOK
<1> QED
  BY <1>1, <1>2, <1>3 DEF Serial

\* The layers one read returns.
LEMMA ReadLayers ==
  ASSUME NEW i \in Ids, NEW m \in Nat, NEW n \in Nat
  PROVE  [k \in 1..n |-> [src |-> i, seq |-> m + k]] \in Seq(Layer)
<1>1. [k \in 1..n |-> [src |-> i, seq |-> m + k]] \in [1..n -> Layer]
  BY DEF Layer
<1> QED
  BY <1>1

\* A reader's thread.
LEMMA ReaderType ==
  ASSUME TypeOK, NEW i \in Ids, Reader(i)
  PROVE  TypeOK'
<1>1. CASE ReaderCheck(i)
  <2>1. ChannelsOK' /\ ReadersOK'
    BY <1>1 DEF TypeOK, ChannelsOK, ReadersOK, ReaderCheck, Reader, readerStutter, parallelVars,
                   serialVars
  <2> QED
    BY <1>1, <2>1 DEF TypeOK, ReaderCheck, Reader, readerStutter, parallelVars, serialVars,
           loopVars, filterVars, filterView, outputVars, eventVars, downVars, callerVars,
           PoolsOK, FramesOK, ViewsOK, ControlOK
<1>2. CASE ReaderRead(i)
  <2>1. PICK n \in 0..MaxBatch :
          /\ nread' = [nread EXCEPT ![i] = @ + n]
          /\ chan' = IF n = 0
                     THEN chan
                     ELSE Append(chan, PushFrames(i,
                            [k \in 1..n |-> [src |-> i, seq |-> nread[i] + k]]))
    BY <1>2 DEF ReaderRead
  <2>2. n \in Nat /\ nread[i] \in Nat
    BY ReadAssumption DEF TypeOK, ReadersOK
  <2>3. ReadersOK'
    BY <1>2, <2>1, <2>2 DEF TypeOK, ReadersOK, ReaderRead
  <2>4. [k \in 1..n |-> [src |-> i, seq |-> nread[i] + k]] \in Seq(Layer)
    BY <2>2, ReadLayers
  <2>5. PushFrames(i, [k \in 1..n |-> [src |-> i, seq |-> nread[i] + k]]) \in Command
    BY <2>4, CommandForms
  <2>6. ChannelsOK'
    BY <2>1, <2>5 DEF TypeOK, ChannelsOK, Reader, readerStutter, parallelVars,
                   serialVars
  <2> QED
    BY <1>2, <2>3, <2>6 DEF TypeOK, ReaderRead, Reader, readerStutter, parallelVars, serialVars,
           loopVars, filterVars, filterView, outputVars, eventVars, downVars, callerVars,
           PoolsOK, FramesOK, ViewsOK, ControlOK
<1>3. CASE ReaderFail(i)
  <2>1. ChannelsOK' /\ ReadersOK'
    BY <1>3, CommandForms DEF TypeOK, ChannelsOK, ReadersOK, ReaderFail, Reader, readerStutter, parallelVars,
                   serialVars
  <2> QED
    BY <1>3, <2>1 DEF TypeOK, ReaderFail, Reader, readerStutter, parallelVars, serialVars,
           loopVars, filterVars, filterView, outputVars, eventVars, downVars, callerVars,
           PoolsOK, FramesOK, ViewsOK, ControlOK
<1> QED
  BY <1>1, <1>2, <1>3 DEF Reader

-----------------------------------------------------------------------------
(* The event loop: no step of it touches the threads of the pools or the   *)
(* readers.                                                                *)

LoopOK == ChannelsOK /\ FramesOK /\ ViewsOK /\ ControlOK

LEMMA ProcessInputType ==
  ASSUME TypeOK, ProcessInput, UNCHANGED loopStutter
  PROVE  LoopOK'
<1> DEFINE layers == Head(chan).layers
           frames == [k \in 1..Len(layers) |-> NewFrame(cnt + k - 1, layers[k])]
<1>a. chan' \in Seq(Command) /\ layers \in Seq(Layer)
  BY Taken, CommandFields DEF ProcessInput, TypeOK
<1>b. frames \in Seq(Frame)
  BY <1>a, NumberedFrames DEF TypeOK, FramesOK
<1>1. ChannelsOK'
  BY <1>a, <1>b DEF ProcessInput, Numbered, TypeOK, ChannelsOK
<1>2. FramesOK'
  BY <1>a, <1>b DEF ProcessInput, Numbered, TypeOK, FramesOK
<1>3. ViewsOK'
  BY DEF ProcessInput, FiltersDue, filterView, outputVars, TypeOK, ViewsOK,
         Active
<1>4. ControlOK'
  BY DEF ProcessInput, FiltersDue, filterView, outputVars, eventVars, downVars,
         TypeOK, ControlOK, loopStutter, callerVars
<1> QED
  BY <1>1, <1>2, <1>3, <1>4 DEF LoopOK

LEMMA ProcessInputErrorType ==
  ASSUME TypeOK, ProcessInputError, UNCHANGED loopStutter
  PROVE  LoopOK'
<1>1. ChannelsOK'
  BY Taken DEF ProcessInputError, queues, TypeOK, ChannelsOK
<1>2. FramesOK'
  BY DEF ProcessInputError, loopVars, TypeOK, FramesOK
<1>3. ViewsOK'
  BY DEF ProcessInputError, FiltersDue, filterView, outputVars, TypeOK, ViewsOK,
         Active
<1>4. ControlOK'
  BY Taken, CommandFields DEF ProcessInputError, FiltersDue, filterView,
         outputVars, downVars, TypeOK, ControlOK, loopStutter, callerVars
<1> QED
  BY <1>1, <1>2, <1>3, <1>4 DEF LoopOK

LEMMA ProcessSerialType ==
  ASSUME TypeOK, ProcessSerial, UNCHANGED loopStutter
  PROVE  LoopOK'
<1>1. ChannelsOK'
  <2>1. chan' \in Seq(Command) /\ Head(chan).frames \in Seq(Frame)
    BY Taken, CommandFields DEF ProcessSerial, TypeOK, Batch
  <2> QED
    BY <2>1 DEF ProcessSerial, TypeOK, ChannelsOK
<1>2. FramesOK'
  BY DEF ProcessSerial, loopVars, TypeOK, FramesOK
<1>3. ViewsOK'
  BY DEF ProcessSerial, FiltersDue, filterView, outputVars, TypeOK, ViewsOK,
         Active
<1>4. ControlOK'
  BY DEF ProcessSerial, FiltersDue, filterView, outputVars, eventVars, downVars,
         TypeOK, ControlOK, loopStutter, callerVars
<1> QED
  BY <1>1, <1>2, <1>3, <1>4 DEF LoopOK

LEMMA ProcessStoreType ==
  ASSUME TypeOK, ProcessStore, UNCHANGED loopStutter
  PROVE  LoopOK'
<1>1. ChannelsOK'
  BY Taken DEF ProcessStore, queues, TypeOK, ChannelsOK
<1>2. FramesOK'
  <2>1. Head(chan).frames \in Seq(Frame)
    BY Taken, CommandFields DEF ProcessStore, TypeOK, Batch
  <2> QED
    BY <2>1 DEF ProcessStore, TypeOK, FramesOK
<1>3. ViewsOK'
  BY DEF ProcessStore, filterVars, filterView, outputVars, TypeOK, ViewsOK
<1>4. ControlOK'
  BY DEF ProcessStore, filterVars, filterView, outputVars, eventVars, downVars,
         TypeOK, ControlOK, loopStutter, callerVars
<1> QED
  BY <1>1, <1>2, <1>3, <1>4 DEF LoopOK

LEMMA AnnounceFramesType ==
  ASSUME TypeOK, AnnounceFrames, UNCHANGED loopStutter
  PROVE  LoopOK'
<1>1. ChannelsOK'
  BY DEF AnnounceFrames, queues, TypeOK, ChannelsOK
<1>2. FramesOK'
  BY DEF AnnounceFrames, loopVars, TypeOK, FramesOK
<1>3. ViewsOK'
  BY DEF AnnounceFrames, FiltersDue, filterView, outputVars, TypeOK, ViewsOK,
         Active
<1>4. ControlOK'
  BY DEF AnnounceFrames, FiltersDue, filterView, outputVars, downVars, TypeOK,
         ControlOK, loopStutter, callerVars, FramesOK
<1> QED
  BY <1>1, <1>2, <1>3, <1>4 DEF LoopOK

LEMMA ProcessPushFilterType ==
  ASSUME TypeOK, ProcessPushFilter, UNCHANGED loopStutter
  PROVE  LoopOK'
<1>1. ChannelsOK'
  BY Taken DEF ProcessPushFilter, queues, TypeOK, ChannelsOK
<1>2. FramesOK'
  BY DEF ProcessPushFilter, loopVars, TypeOK, FramesOK
<1>3. ViewsOK'
  BY Taken, CommandFields DEF ProcessPushFilter, NewContext, outputVars, TypeOK, ViewsOK
<1>4. ControlOK'
  BY Taken, CommandFields DEF ProcessPushFilter, outputVars, eventVars,
         downVars, TypeOK, ControlOK, loopStutter, callerVars
<1> QED
  BY <1>1, <1>2, <1>3, <1>4 DEF LoopOK

LEMMA UnlinkFilteredType ==
  ASSUME TypeOK, UnlinkFiltered, UNCHANGED loopStutter
  PROVE  LoopOK'
<1>1. ChannelsOK'
  BY DEF UnlinkFiltered, queues, TypeOK, ChannelsOK
<1>2. FramesOK'
  BY DEF UnlinkFiltered, loopVars, TypeOK, FramesOK
<1>3. ViewsOK'
  BY DEF UnlinkFiltered, FiltersDue, outputVars, TypeOK, ViewsOK, Active
<1>4. ControlOK'
  BY DEF UnlinkFiltered, FiltersDue, outputVars, eventVars, downVars, TypeOK,
         ControlOK, loopStutter, callerVars
<1> QED
  BY <1>1, <1>2, <1>3, <1>4 DEF LoopOK

LEMMA ProcessRemoveFilterType ==
  ASSUME TypeOK, ProcessRemoveFilter, UNCHANGED loopStutter
  PROVE  LoopOK'
<1>1. ChannelsOK'
  BY Taken DEF ProcessRemoveFilter, queues, TypeOK, ChannelsOK
<1>2. FramesOK'
  BY DEF ProcessRemoveFilter, loopVars, TypeOK, FramesOK
<1>3. ViewsOK'
  BY Taken, CommandFields DEF ProcessRemoveFilter, FiltersDue, outputVars,
         TypeOK, ViewsOK, Active, Unset
<1>4. ControlOK'
  BY DEF ProcessRemoveFilter, FiltersDue, outputVars, eventVars, downVars,
         TypeOK, ControlOK, loopStutter, callerVars
<1> QED
  BY <1>1, <1>2, <1>3, <1>4 DEF LoopOK

LEMMA ScanFilterType ==
  ASSUME TypeOK, NEW id \in FilterIds, ScanFilter(id), UNCHANGED loopStutter
  PROVE  LoopOK'
<1>1. ChannelsOK'
  BY DEF ScanFilter, queues, TypeOK, ChannelsOK
<1>2. FramesOK'
  BY DEF ScanFilter, loopVars, TypeOK, FramesOK
<1>3. ViewsOK'
  <2> DEFINE end == Least(Len(stored), filterMap[id].offset + FilterChunk)
  <2>1. Len(stored) \in Nat /\ filterMap[id].offset \in Nat
    BY DEF TypeOK, FramesOK, ViewsOK
  <2>2. end \in Nat
    BY <2>1, ChunkAssumption DEF Least
  <2>3. filterMap' \in [FilterIds -> [filter : Filters \cup {NoFilter}, offset : Nat]]
    <3> HIDE DEF end
    <3>1. filterMap' = [filterMap EXCEPT ![id].offset = end]
      BY DEF ScanFilter, end
    <3> QED
      BY <2>2, <3>1 DEF TypeOK, ViewsOK
  <2>4. DOMAIN filtered' = FilterIds /\ todo' \subseteq FilterIds /\ cur' \in FilterIds \cup {NoId}
    BY DEF ScanFilter, TypeOK, ViewsOK
  <2> QED
    BY <2>3, <2>4 DEF ScanFilter, outputVars, TypeOK, ViewsOK
<1>4. ControlOK'
  BY DEF ScanFilter, outputVars, eventVars, downVars, TypeOK, ControlOK,
         loopStutter, callerVars
<1> QED
  BY <1>1, <1>2, <1>3, <1>4 DEF LoopOK

LEMMA AnnounceFilteredType ==
  ASSUME TypeOK, AnnounceFiltered, UNCHANGED loopStutter
  PROVE  LoopOK'
<1>1. ChannelsOK'
  BY DEF AnnounceFiltered, queues, TypeOK, ChannelsOK
<1>2. FramesOK'
  BY DEF AnnounceFiltered, loopVars, TypeOK, FramesOK
<1>3. ViewsOK'
  BY DEF AnnounceFiltered, outputVars, TypeOK, ViewsOK
<1>4. ControlOK'
  BY DEF AnnounceFiltered, outputVars, eventVars, downVars, TypeOK, ControlOK,
         loopStutter, callerVars
<1> QED
  BY <1>1, <1>2, <1>3, <1>4 DEF LoopOK

LEMMA ProcessOutputType ==
  ASSUME TypeOK, ProcessOutput, UNCHANGED loopStutter
  PROVE  LoopOK'
<1>1. ChannelsOK'
  BY Taken DEF ProcessOutput, queues, TypeOK, ChannelsOK
<1>2. FramesOK'
  BY DEF ProcessOutput, loopVars, TypeOK, FramesOK
<1>3. ViewsOK'
  BY Taken, CommandFields DEF ProcessOutput, filterVars, filterView, TypeOK,
         ViewsOK
<1>4. ControlOK'
  BY Taken, CommandFields DEF ProcessOutput, filterVars, filterView, eventVars,
         downVars, TypeOK, ControlOK, loopStutter, callerVars
<1> QED
  BY <1>1, <1>2, <1>3, <1>4 DEF LoopOK

LEMMA OutputWriteType ==
  ASSUME TypeOK, OutputWrite, UNCHANGED loopStutter
  PROVE  LoopOK'
<1>1. ChannelsOK'
  BY DEF OutputWrite, queues, TypeOK, ChannelsOK
<1>2. FramesOK'
  BY DEF OutputWrite, loopVars, TypeOK, FramesOK
<1>3. ViewsOK'
  <2>1. Len(stored) \in Nat /\ out.offset \in Nat
    BY DEF TypeOK, FramesOK, ViewsOK
  <2>2. OutputEnd \in Nat
    BY <2>1, ChunkAssumption DEF OutputEnd, Least
  <2>3. out' \in [id : Ids \cup {0}, filter : Filters \cup {NoFilter}, offset : Nat]
    BY <2>2 DEF OutputWrite, TypeOK, ViewsOK
  <2> QED
    BY <2>3 DEF OutputWrite, filterVars, filterView, TypeOK, ViewsOK
<1>4. ControlOK'
  BY DEF OutputWrite, OutputEnd, filterVars, filterView, eventVars, downVars,
         TypeOK, ControlOK, loopStutter, callerVars
<1> QED
  BY <1>1, <1>2, <1>3, <1>4 DEF LoopOK

LEMMA OutputWriteErrorType ==
  ASSUME TypeOK, OutputWriteError, UNCHANGED loopStutter
  PROVE  LoopOK'
<1>1. ChannelsOK'
  BY DEF OutputWriteError, Finished, queues, TypeOK, ChannelsOK
<1>2. FramesOK'
  BY DEF OutputWriteError, Finished, loopVars, TypeOK, FramesOK
<1>3. ViewsOK'
  BY DEF OutputWriteError, Finished, FiltersDue, filterView, TypeOK, ViewsOK, Active,
         NoOutput
<1>4. ControlOK'
  BY DEF OutputWriteError, Finished, FiltersDue, filterView, downVars, TypeOK, ControlOK,
         loopStutter, callerVars
<1> QED
  BY <1>1, <1>2, <1>3, <1>4 DEF LoopOK

LEMMA OutputFinishType ==
  ASSUME TypeOK, OutputFinish, UNCHANGED loopStutter
  PROVE  LoopOK'
<1>1. ChannelsOK'
  BY DEF OutputFinish, Finished, queues, TypeOK, ChannelsOK
<1>2. FramesOK'
  BY DEF OutputFinish, Finished, loopVars, TypeOK, FramesOK
<1>3. ViewsOK'
  BY DEF OutputFinish, Finished, FiltersDue, filterView, TypeOK, ViewsOK, Active, NoOutput
<1>4. ControlOK'
  BY DEF OutputFinish, Finished, FiltersDue, filterView, downVars, TypeOK, ControlOK,
         loopStutter, callerVars
<1> QED
  BY <1>1, <1>2, <1>3, <1>4 DEF LoopOK

LEMMA ProcessCloseType ==
  ASSUME TypeOK, ProcessClose, UNCHANGED loopStutter
  PROVE  LoopOK'
<1>1. ChannelsOK'
  BY Taken DEF ProcessClose, queues, TypeOK, ChannelsOK
<1>2. FramesOK'
  BY DEF ProcessClose, loopVars, TypeOK, FramesOK
<1>3. ViewsOK'
  BY DEF ProcessClose, filterVars, filterView, outputVars, TypeOK, ViewsOK
<1>4. ControlOK'
  BY DEF ProcessClose, filterVars, filterView, outputVars, eventVars, downVars,
         TypeOK, ControlOK, loopStutter, callerVars
<1> QED
  BY <1>1, <1>2, <1>3, <1>4 DEF LoopOK

LEMMA DropSerialType ==
  ASSUME TypeOK, DropSerial, UNCHANGED loopStutter
  PROVE  LoopOK'
<1>1. ChannelsOK'
  BY DEF DropSerial, TypeOK, ChannelsOK, Poison
<1>2. FramesOK'
  BY DEF DropSerial, loopVars, TypeOK, FramesOK
<1>3. ViewsOK'
  BY DEF DropSerial, filterVars, filterView, outputVars, TypeOK, ViewsOK
<1>4. ControlOK'
  BY DEF DropSerial, filterVars, filterView, outputVars, eventVars, downVars,
         TypeOK, ControlOK, loopStutter, callerVars
<1> QED
  BY <1>1, <1>2, <1>3, <1>4 DEF LoopOK

LEMMA JoinSerialType ==
  ASSUME TypeOK, JoinSerial, UNCHANGED loopStutter
  PROVE  LoopOK'
<1>1. ChannelsOK'
  BY DEF JoinSerial, queues, TypeOK, ChannelsOK
<1>2. FramesOK'
  BY DEF JoinSerial, loopVars, TypeOK, FramesOK
<1>3. ViewsOK'
  BY DEF JoinSerial, JoinPanics, filterVars, filterView, outputVars, TypeOK,
         ViewsOK
<1>4. ControlOK'
  BY ConcurrencyAssumption DEF JoinSerial, JoinPanics, filterVars, filterView,
         outputVars, eventVars, TypeOK, ControlOK, loopStutter, callerVars
<1> QED
  BY <1>1, <1>2, <1>3, <1>4 DEF LoopOK

LEMMA DropParallelType ==
  ASSUME TypeOK, DropParallel, UNCHANGED loopStutter
  PROVE  LoopOK'
<1>1. ChannelsOK'
  <2>1. [w \in Workers |-> Poison] \in [1..Concurrency -> Seq(Frame)]
    BY DEF Workers, Poison
  <2>2. [w \in Workers |-> Poison] \in Seq(Seq(Frame))
    BY <2>1, ConcurrencyAssumption
  <2> QED
    BY <2>2 DEF DropParallel, Poisons, TypeOK, ChannelsOK
<1>2. FramesOK'
  BY DEF DropParallel, loopVars, TypeOK, FramesOK
<1>3. ViewsOK'
  BY DEF DropParallel, filterVars, filterView, outputVars, TypeOK, ViewsOK
<1>4. ControlOK'
  BY ConcurrencyAssumption DEF DropParallel, filterVars, filterView, outputVars,
         eventVars, TypeOK, ControlOK, loopStutter, callerVars
<1> QED
  BY <1>1, <1>2, <1>3, <1>4 DEF LoopOK

LEMMA JoinParallelType ==
  ASSUME TypeOK, JoinParallel, UNCHANGED loopStutter
  PROVE  LoopOK'
<1>1. ChannelsOK'
  BY DEF JoinParallel, queues, TypeOK, ChannelsOK
<1>2. FramesOK'
  BY DEF JoinParallel, loopVars, TypeOK, FramesOK
<1>3. ViewsOK'
  BY DEF JoinParallel, JoinPanics, filterVars, filterView, outputVars, TypeOK,
         ViewsOK
<1>4. ControlOK'
  <2>1. joined' \in 0..Concurrency
    BY ConcurrencyAssumption DEF JoinParallel, TypeOK, ControlOK
  <2>2. unwinding' \in BOOLEAN /\ evpc' \in {evpc, "joinParallel", "aborted"}
    BY DEF JoinParallel, JoinPanics, TypeOK, ControlOK
  <2> QED
    BY <2>1, <2>2 DEF JoinParallel, filterVars, filterView, outputVars, eventVars,
                      TypeOK, ControlOK, loopStutter, callerVars
<1> QED
  BY <1>1, <1>2, <1>3, <1>4 DEF LoopOK

LEMMA LoopExitType ==
  ASSUME TypeOK, LoopExit, UNCHANGED loopStutter
  PROVE  LoopOK'
<1>1. ChannelsOK'
  BY DEF LoopExit, queues, TypeOK, ChannelsOK
<1>2. FramesOK'
  BY DEF LoopExit, loopVars, TypeOK, FramesOK
<1>3. ViewsOK'
  BY DEF LoopExit, filterVars, filterView, outputVars, TypeOK, ViewsOK
<1>4. ControlOK'
  BY DEF LoopExit, filterVars, filterView, outputVars, eventVars, TypeOK,
         ControlOK, loopStutter, callerVars
<1> QED
  BY <1>1, <1>2, <1>3, <1>4 DEF LoopOK

LEMMA EventLoopType ==
  ASSUME TypeOK, EventLoop
  PROVE  TypeOK'
<1>1. PoolsOK' /\ ReadersOK'
  BY DEF EventLoop, loopStutter, inputVars, TypeOK, PoolsOK, ReadersOK
<1>2. LoopOK'
  BY ProcessInputType, ProcessInputErrorType, ProcessSerialType, ProcessStoreType,
     AnnounceFramesType, ProcessPushFilterType, UnlinkFilteredType,
     ProcessRemoveFilterType, ScanFilterType, AnnounceFilteredType, ProcessOutputType,
     OutputWriteType, OutputWriteErrorType, OutputFinishType, ProcessCloseType,
     DropSerialType, JoinSerialType, DropParallelType, JoinParallelType, LoopExitType
  DEF EventLoop
<1> QED
  BY <1>1, <1>2 DEF LoopOK, TypeOK

-----------------------------------------------------------------------------
(* The session, panics, and the whole program.                             *)

\* What a call of the session leaves alone.
LEMMA CallerRest ==
  ASSUME TypeOK, UNCHANGED callerStutter
  PROVE  /\ PoolsOK' /\ FramesOK' /\ ViewsOK'
         /\ UNCHANGED <<panics, pq, sq, nread, errors, announced, done, joined,
                        unwinding, evpc, out, cur>>
  BY DEF callerStutter, parallelVars, serialVars, loopVars, filterVars, filterView,
         outputVars, eventVars, downVars, TypeOK, PoolsOK, FramesOK, ViewsOK

LEMMA CallerType ==
  ASSUME TypeOK, Caller
  PROVE  TypeOK'
<1>0. UNCHANGED callerStutter
  BY DEF Caller
<1> USE CallerRest, <1>0
<1>1. CASE CreateReader
  <2>1. ioCnt' \in Ids
    BY <1>1, MaxIoAssumption DEF CreateReader, TypeOK, ControlOK, Ids
  <2>2. ChannelsOK' /\ ReadersOK'
    BY <1>1, <2>1 DEF CreateReader, TypeOK, ChannelsOK, ReadersOK
  <2>3. ControlOK'
    BY <1>1, <2>1 DEF CreateReader, TypeOK, ControlOK, Ids
  <2> QED
    BY <2>2, <2>3 DEF TypeOK
<1>2. CASE CreateWriter
  <2>1. ioCnt' \in Ids
    BY <1>2, MaxIoAssumption DEF CreateWriter, TypeOK, ControlOK, Ids
  <2>2. ChannelsOK'
    BY <1>2, <2>1, CommandForms DEF CreateWriter, TypeOK, ChannelsOK
  <2>3. ReadersOK' /\ ControlOK'
    BY <1>2, <2>1 DEF CreateWriter, TypeOK, ReadersOK, ControlOK, Ids
  <2> QED
    BY <2>2, <2>3 DEF TypeOK
<1>3. CASE CreateFails
  <2>1. ioCnt' \in Ids
    BY <1>3, MaxIoAssumption DEF CreateFails, TypeOK, ControlOK, Ids
  <2>2. ChannelsOK' /\ ReadersOK'
    BY <1>3, <2>1 DEF CreateFails, TypeOK, ChannelsOK, ReadersOK
  <2>3. ControlOK'
    BY <1>3, <2>1 DEF CreateFails, TypeOK, ControlOK, Ids
  <2> QED
    BY <2>2, <2>3 DEF TypeOK
<1>4. ASSUME NEW i \in Ids, CloseReader(i)
      PROVE  TypeOK'
  <2>1. ChannelsOK' /\ ReadersOK' /\ ControlOK'
    BY <1>4 DEF CloseReader, TypeOK, ChannelsOK, ReadersOK, ControlOK
  <2> QED
    BY <2>1 DEF TypeOK
<1>5. CASE CallSetFilter
  <2>1. ChannelsOK' /\ ReadersOK'
    BY <1>5, CommandForms DEF CallSetFilter, TypeOK, ChannelsOK, ReadersOK
  <2>2. ControlOK'
    BY <1>5, BoundAssumption DEF CallSetFilter, TypeOK, ControlOK
  <2> QED
    BY <2>1, <2>2 DEF TypeOK
<1>6. CASE DropLoop
  <2>1. ChannelsOK' /\ ReadersOK' /\ ControlOK'
    BY <1>6, CommandForms DEF DropLoop, TypeOK, ChannelsOK, ReadersOK, ControlOK
  <2> QED
    BY <2>1 DEF TypeOK
<1> QED
  BY <1>1, <1>2, <1>3, <1>4, <1>5, <1>6 DEF Caller

LEMMA DropType ==
  ASSUME TypeOK, Drop
  PROVE  TypeOK'
<1>0. UNCHANGED callerStutter
  BY DEF Drop
<1> USE CallerRest, <1>0
<1>1. CASE JoinLoop \/ Closed
  <2>1. ChannelsOK' /\ ReadersOK' /\ ControlOK'
    BY <1>1 DEF JoinLoop, Closed, TypeOK, ChannelsOK, ReadersOK, ControlOK
  <2> QED
    BY <2>1 DEF TypeOK
<1>2. ASSUME NEW i \in Ids, DropInput(i) \/ JoinInput(i)
      PROVE  TypeOK'
  <2>1. ChannelsOK' /\ ReadersOK' /\ ControlOK'
    BY <1>2 DEF DropInput, JoinInput, TypeOK, ChannelsOK, ReadersOK, ControlOK
  <2> QED
    BY <2>1 DEF TypeOK
<1> QED
  BY <1>1, <1>2 DEF Drop

LEMMA PanicType ==
  ASSUME TypeOK, Panic
  PROVE  TypeOK'
<1> USE DEF poolStutter, readerStutter, parallelVars, serialVars, inputVars, loopVars,
            filterVars, filterView, outputVars, eventVars, downVars, callerVars
<1>1. ASSUME NEW w \in Workers, WorkerPanic(w), UNCHANGED <<serialVars, poolStutter>>
      PROVE  TypeOK'
  <2>1. ChannelsOK' /\ PoolsOK' /\ ControlOK'
    BY <1>1 DEF WorkerPanic, Panicked, TypeOK, ChannelsOK, PoolsOK, ControlOK
  <2>2. ReadersOK' /\ FramesOK' /\ ViewsOK'
    BY <1>1 DEF TypeOK, ReadersOK, FramesOK, ViewsOK
  <2> QED
    BY <2>1, <2>2 DEF TypeOK
<1>2. ASSUME SerialPanic, UNCHANGED <<parallelVars, poolStutter>>
      PROVE  TypeOK'
  <2>1. Final(smap[snext]) \in Nat
    BY <1>2, BatchEnds DEF TypeOK, PoolsOK, SerialPanic
  <2>2. ChannelsOK' /\ PoolsOK' /\ ControlOK'
    BY <1>2, <2>1 DEF SerialPanic, TypeOK, ChannelsOK, PoolsOK, ControlOK
  <2>3. ReadersOK' /\ FramesOK' /\ ViewsOK'
    BY <1>2 DEF TypeOK, ReadersOK, FramesOK, ViewsOK
  <2> QED
    BY <2>2, <2>3 DEF TypeOK
<1>3. ASSUME NEW i \in Ids, ReaderPanic(i), UNCHANGED readerStutter
      PROVE  TypeOK'
  <2>1. ChannelsOK' /\ ReadersOK' /\ ControlOK'
    BY <1>3 DEF ReaderPanic, TypeOK, ChannelsOK, ReadersOK, ControlOK
  <2>2. PoolsOK' /\ FramesOK' /\ ViewsOK'
    BY <1>3 DEF TypeOK, PoolsOK, FramesOK, ViewsOK
  <2> QED
    BY <2>1, <2>2 DEF TypeOK
<1>4. ASSUME PluginPanic
      PROVE  TypeOK'
  <2>1. ChannelsOK' /\ ControlOK'
    BY <1>4 DEF PluginPanic, NoOutput, TypeOK, ChannelsOK, ControlOK
  <2>2. PoolsOK' /\ ReadersOK' /\ FramesOK'
    BY <1>4 DEF PluginPanic, TypeOK, PoolsOK, ReadersOK, FramesOK
  <2>3. ViewsOK'
    BY <1>4 DEF PluginPanic, NoOutput, TypeOK, ViewsOK
  <2> QED
    BY <2>1, <2>2, <2>3 DEF TypeOK
<1> QED
  BY <1>1, <1>2, <1>3, <1>4 DEF Panic

LEMMA StutterType ==
  ASSUME TypeOK, UNCHANGED vars
  PROVE  TypeOK'
<1> USE DEF vars, parallelVars, serialVars, inputVars, loopVars, filterVars, filterView,
            outputVars, eventVars, downVars, callerVars
<1>1. ChannelsOK' /\ PoolsOK' /\ ReadersOK' /\ FramesOK'
  BY DEF TypeOK, ChannelsOK, PoolsOK, ReadersOK, FramesOK
<1>2. ViewsOK' /\ ControlOK'
  BY DEF TypeOK, ViewsOK, ControlOK
<1> QED
  BY <1>1, <1>2 DEF TypeOK

LEMMA NextType == TypeOK /\ [Next]_vars => TypeOK'
<1> SUFFICES ASSUME TypeOK, [Next]_vars PROVE TypeOK'
  OBVIOUS
<1> QED
  BY WorkerType, SerialType, ReaderType, EventLoopType, CallerType, DropType, PanicType,
     StutterType
  DEF Next, Terminated

(* Every variable of the store always has its type: in particular only      *)
(* commands are in the event loop's channel, and only batches in the pools. *)
THEOREM TypeCorrect == Spec => []TypeOK
<1> QED
  BY InitType, NextType, PTL DEF Spec

-----------------------------------------------------------------------------
(* The hand-over from the serial thread, as the channel changes.           *)

\* A batch whose frames are consecutive ends where its length says.
Whole(batch) == Final(batch) = First(batch) + Len(batch) - 1

LEMMA ConsecutiveWhole ==
  ASSUME NEW log, NEW b \in Batch, Consecutive(log, b)
  PROVE  Whole(b) /\ First(b) <= Final(b)
<1>1. Len(b) \in Nat \ {0} /\ First(b) \in Nat
  BY BatchEnds
<1>2. Len(b) \in DOMAIN b
  BY <1>1 DEF Batch
<1>3. b[Len(b)].index = First(b) + Len(b) - 1
  BY <1>2 DEF Consecutive
<1> QED
  BY <1>1, <1>3 DEF Whole, Final

\* The batches handed over in a channel of commands.
LEMMA HandedBatches ==
  ASSUME NEW c \in Seq(Command), NEW p \in Handed(c)
  PROVE  /\ p \in 1..Len(c)
         /\ c[p].frames \in Batch
         /\ First(c[p].frames) \in Nat /\ Final(c[p].frames) \in Nat
<1>1. p \in 1..Len(c) /\ c[p] \in Command /\ c[p].op = "StoreFrames"
  BY DEF Handed
<1>2. c[p].frames \in Batch
  BY <1>1, CommandFields
<1> QED
  BY <1>1, <1>2, BatchEnds

\* Another command at the end changes nothing.
LEMMA HandoverAppendOther ==
  ASSUME NEW c \in Seq(Command), NEW d \in Command, d.op # "StoreFrames",
         NEW len, NEW next, NEW live, Handover(c, len, next, live)
  PROVE  Handover(Append(c, d), len, next, live)
<1>1. Handed(Append(c, d)) = Handed(c)
  BY DEF Handed
<1>2. \A p \in Handed(c) : Append(c, d)[p] = c[p]
  BY DEF Handed
<1> QED
  BY <1>1, <1>2 DEF Handover

\* Another command taken away shifts the rest.
LEMMA HandoverTailOther ==
  ASSUME NEW c \in Seq(Command), c # <<>>, Head(c).op # "StoreFrames",
         NEW len, NEW next, NEW live, Handover(c, len, next, live)
  PROVE  Handover(Tail(c), len, next, live)
<1>1. \A p \in Handed(Tail(c)) : p \in Nat /\ p + 1 \in Handed(c) /\ Tail(c)[p] = c[p + 1]
  BY DEF Handed
<1>2. \A p \in Handed(c) : p - 1 \in Handed(Tail(c)) /\ p \in Nat /\ c[p] = Tail(c)[p - 1]
  BY DEF Handed
<1>3. \A p \in Handed(Tail(c)) :
        \/ First(Tail(c)[p].frames) = len
        \/ \E q \in Handed(Tail(c)) :
             q < p /\ Final(Tail(c)[q].frames) + 1 = First(Tail(c)[p].frames)
  <2>1. TAKE p \in Handed(Tail(c))
  <2>2. CASE First(c[p + 1].frames) = len
    BY <2>2, <1>1
  <2>3. ASSUME NEW q \in Handed(c), q < p + 1, Final(c[q].frames) + 1 = First(c[p + 1].frames)
        PROVE  \E r \in Handed(Tail(c)) :
                 r < p /\ Final(Tail(c)[r].frames) + 1 = First(Tail(c)[p].frames)
    <3>1. q - 1 \in Handed(Tail(c)) /\ q \in Nat /\ p \in Nat /\ c[q] = Tail(c)[q - 1]
      BY <2>3, <1>1, <1>2
    <3>2. q - 1 < p
      BY <3>1, <2>3
    <3> QED
      BY <3>1, <3>2, <2>3, <1>1
  <2> QED
    BY <1>1, <2>2, <2>3 DEF Handover
<1>4. ASSUME NEW p \in Handed(Tail(c)), NEW q \in Handed(Tail(c)), p < q
      PROVE  First(Tail(c)[p].frames) < First(Tail(c)[q].frames)
  <2>1. p + 1 \in Handed(c) /\ q + 1 \in Handed(c) /\ p + 1 < q + 1
    BY <1>1, <1>4
  <2>2. First(c[p + 1].frames) < First(c[q + 1].frames)
    BY <2>1 DEF Handover
  <2> QED
    BY <2>2, <1>1
<1>5. \A p \in Handed(Tail(c)) : Final(Tail(c)[p].frames) < next
  BY <1>1 DEF Handover
<1>6. live => next = len \/ \E p \in Handed(Tail(c)) : Final(Tail(c)[p].frames) + 1 = next
  BY <1>2 DEF Handover
<1> QED
  BY <1>3, <1>4, <1>5, <1>6 DEF Handover

\* The serial thread hands the batch over that starts at next.
LEMMA HandoverAppendStore ==
  ASSUME NEW c \in Seq(Command), NEW b \in Batch, First(b) <= Final(b),
         \A p \in Handed(c) : First(c[p].frames) <= Final(c[p].frames),
         NEW len \in Nat, NEW next \in Nat, First(b) = next, Handover(c, len, next, TRUE)
  PROVE  Handover(Append(c, StoreFrames(b)), len, Final(b) + 1, TRUE)
<1> DEFINE d == Append(c, StoreFrames(b))
           new == Len(c) + 1
<1>1. Handed(d) = Handed(c) \cup {new}
  BY DEF Handed, StoreFrames
<1>2. \A p \in Handed(c) : d[p] = c[p] /\ p < new /\ p \in Nat
  BY DEF Handed
<1>3. d[new].frames = b /\ new \in Nat
  BY DEF StoreFrames
<1>4. First(b) \in Nat /\ Final(b) \in Nat
  BY BatchEnds
<1>5. \A p \in Handed(c) : First(c[p].frames) \in Nat /\ Final(c[p].frames) \in Nat
  BY HandedBatches
<1> HIDE DEF d, new
<1>6. \A p \in Handed(d) :
        \/ First(d[p].frames) = len
        \/ \E q \in Handed(d) : q < p /\ Final(d[q].frames) + 1 = First(d[p].frames)
  <2>1. TAKE p \in Handed(d)
  <2>2. CASE p = new
    <3>1. CASE next = len
      BY <2>2, <3>1, <1>3
    <3>2. CASE next # len
      <4>1. PICK q \in Handed(c) : Final(c[q].frames) + 1 = next
        BY <3>2 DEF Handover
      <4>2. q \in Handed(d) /\ q < p /\ Final(d[q].frames) + 1 = First(d[p].frames)
        BY <4>1, <2>2, <1>1, <1>2, <1>3
      <4> QED
        BY <4>2
    <3> QED
      BY <3>1, <3>2
  <2>3. CASE p \in Handed(c)
    <3>1. \/ First(c[p].frames) = len
          \/ \E q \in Handed(c) : q < p /\ Final(c[q].frames) + 1 = First(c[p].frames)
      BY <2>3 DEF Handover
    <3> QED
      BY <2>3, <3>1, <1>1, <1>2
  <2> QED
    BY <2>2, <2>3, <1>1
<1>7. ASSUME NEW p \in Handed(d), NEW q \in Handed(d), p < q
      PROVE  First(d[p].frames) < First(d[q].frames)
  <2>1. p # new /\ p \in Handed(c)
    BY <1>7, <1>1, <1>2, <1>3
  <2>2. CASE q = new
    <3>1. First(c[p].frames) <= Final(c[p].frames) /\ Final(c[p].frames) < next
      BY <2>1 DEF Handover
    <3> QED
      BY <2>1, <2>2, <3>1, <1>2, <1>3, <1>5
  <2>3. CASE q \in Handed(c)
    <3>1. First(c[p].frames) < First(c[q].frames)
      BY <2>1, <2>3, <1>7 DEF Handover
    <3> QED
      BY <2>1, <2>3, <3>1, <1>2
  <2> QED
    BY <2>2, <2>3, <1>1
<1>8. \A p \in Handed(d) : Final(d[p].frames) < Final(b) + 1
  BY <1>1, <1>2, <1>3, <1>4, <1>5 DEF Handover
<1>9. \E p \in Handed(d) : Final(d[p].frames) + 1 = Final(b) + 1
  BY <1>1, <1>3
<1> QED
  BY <1>6, <1>7, <1>8, <1>9 DEF Handover, d

\* The event loop stores the first batch handed over: it continues the store.
LEMMA HandoverTailStore ==
  ASSUME NEW c \in Seq(Command), c # <<>>, Head(c).op = "StoreFrames",
         Whole(Head(c).frames), NEW len \in Nat, NEW next \in Nat, NEW live,
         Handover(c, len, next, live)
  PROVE  /\ First(Head(c).frames) = len
         /\ Handover(Tail(c), len + Len(Head(c).frames), next, live)
<1> DEFINE b == Head(c).frames
<1>1. 1 \in Handed(c) /\ c[1].frames = b
  BY DEF Handed
<1>2. b \in Batch /\ Len(b) \in Nat \ {0} /\ First(b) \in Nat /\ Final(b) \in Nat
  BY <1>1, HandedBatches, BatchEnds
<1>3. \A p \in Handed(c) : p \in Nat \ {0}
  BY DEF Handed
<1>4. First(b) = len
  BY <1>1, <1>3 DEF Handover
<1>5. Final(b) + 1 = len + Len(b)
  BY <1>2, <1>4 DEF Whole
<1>6. \A p \in Handed(Tail(c)) : p \in Nat \ {0} /\ p + 1 \in Handed(c) /\ Tail(c)[p] = c[p + 1]
  BY DEF Handed
<1>7. \A p \in Handed(c) \ {1} : p - 1 \in Handed(Tail(c)) /\ c[p] = Tail(c)[p - 1]
  BY DEF Handed
<1>8. \A p \in Handed(c) : First(c[p].frames) \in Nat /\ Final(c[p].frames) \in Nat
  BY HandedBatches
<1> HIDE DEF b
<1>9. \A p \in Handed(Tail(c)) :
        \/ First(Tail(c)[p].frames) = len + Len(b)
        \/ \E q \in Handed(Tail(c)) :
             q < p /\ Final(Tail(c)[q].frames) + 1 = First(Tail(c)[p].frames)
  <2>1. TAKE p \in Handed(Tail(c))
  <2>2. First(c[p + 1].frames) # len
    <3>1. p + 1 \in Handed(c) /\ 1 < p + 1
      BY <1>6
    <3>2. First(c[1].frames) < First(c[p + 1].frames)
      BY <3>1, <1>1 DEF Handover
    <3> QED
      BY <3>1, <3>2, <1>1, <1>4, <1>8
  <2>3. PICK q \in Handed(c) : q < p + 1 /\ Final(c[q].frames) + 1 = First(c[p + 1].frames)
    BY <2>2, <1>6 DEF Handover
  <2>4. CASE q = 1
    BY <2>3, <2>4, <1>1, <1>5, <1>6
  <2>5. CASE q # 1
    <3>1. /\ q - 1 \in Handed(Tail(c)) /\ c[q] = Tail(c)[q - 1]
          /\ q \in Nat /\ p \in Nat
      BY <2>5, <1>3, <1>6, <1>7
    <3>2. q - 1 < p
      BY <3>1, <2>3
    <3> QED
      BY <3>1, <3>2, <2>3, <1>6
  <2> QED
    BY <2>4, <2>5
<1>10. ASSUME NEW p \in Handed(Tail(c)), NEW q \in Handed(Tail(c)), p < q
       PROVE  First(Tail(c)[p].frames) < First(Tail(c)[q].frames)
  <2>1. p + 1 \in Handed(c) /\ q + 1 \in Handed(c) /\ p + 1 < q + 1
    BY <1>6, <1>10
  <2>2. First(c[p + 1].frames) < First(c[q + 1].frames)
    BY <2>1 DEF Handover
  <2> QED
    BY <2>2, <1>6
<1>11. \A p \in Handed(Tail(c)) : Final(Tail(c)[p].frames) < next
  BY <1>6 DEF Handover
<1>12. ASSUME live
       PROVE  \/ next = len + Len(b)
              \/ \E p \in Handed(Tail(c)) : Final(Tail(c)[p].frames) + 1 = next
  <2>1. next # len
    BY <1>1, <1>2, <1>5 DEF Handover
  <2>2. PICK p \in Handed(c) : Final(c[p].frames) + 1 = next
    BY <2>1, <1>12 DEF Handover
  <2> QED
    BY <2>2, <1>1, <1>5, <1>7
<1> QED
  BY <1>4, <1>9, <1>10, <1>11, <1>12 DEF Handover, b

\* The serial thread dies with a batch: what it handed over is as before.
LEMMA HandoverPanic ==
  ASSUME NEW c \in Seq(Command), NEW len, NEW next \in Nat, NEW later \in Nat,
         next <= later, NEW live, Handover(c, len, next, live)
  PROVE  Handover(c, len, later, FALSE)
<1>1. \A p \in Handed(c) : Final(c[p].frames) \in Nat
  BY HandedBatches
<1> QED
  BY <1>1 DEF Handover

-----------------------------------------------------------------------------
(* The batches: who makes them, and how they move.                         *)

\* The numbering goes on: what was consecutive stays so.
LEMMA ConsecutiveExtends ==
  ASSUME NEW log \in Seq(Frame), NEW more \in Seq(Frame), NEW b \in Seq(Frame),
         Consecutive(log, b)
  PROVE  Consecutive(log \o more, b)
<1> SUFFICES ASSUME NEW k \in DOMAIN b
             PROVE  /\ b[k].index = First(b) + k - 1
                    /\ b[k].index < Len(log \o more)
                    /\ b[k] = (log \o more)[b[k].index + 1]
  BY DEF Consecutive
<1>1. b[k].index \in Nat
  <2>1. b[k] \in Frame
    OBVIOUS
  <2> QED
    BY <2>1 DEF Frame
<1>2. b[k].index = First(b) + k - 1 /\ b[k].index < Len(log) /\ b[k] = log[b[k].index + 1]
  BY DEF Consecutive
<1>3. b[k].index + 1 \in 1..Len(log)
  BY <1>1, <1>2
<1>4. (log \o more)[b[k].index + 1] = log[b[k].index + 1]
  BY <1>3
<1>5. Len(log \o more) = Len(log) + Len(more) /\ Len(log) \in Nat /\ Len(more) \in Nat
  OBVIOUS
<1>6. b[k].index < Len(log \o more)
  BY <1>1, <1>2, <1>5
<1> QED
  BY <1>2, <1>4, <1>6

\* The empty batch, which is also what stops a thread.
LEMMA ConsecutiveEmpty ==
  ASSUME NEW log
  PROVE  Consecutive(log, <<>>)
  BY DEF Consecutive

\* process_input continues the numbering.
LEMMA ConsecutiveNumbered ==
  ASSUME NEW log \in Seq(Frame), NEW layers \in Seq(Layer), NEW more,
         more = [k \in 1..Len(layers) |-> NewFrame(Len(log) + k - 1, layers[k])]
  PROVE  /\ more \in Seq(Frame) /\ Len(more) = Len(layers)
         /\ \A k \in 1..Len(more) : more[k].index = Len(log) + k - 1
         /\ Consecutive(log \o more, more)
<1>1. more \in Seq(Frame) /\ Len(more) = Len(layers)
  BY NumberedFrames
<1>2. \A k \in 1..Len(more) : more[k].index = Len(log) + k - 1
  BY <1>1 DEF NewFrame
<1>3. ASSUME NEW k \in DOMAIN more
      PROVE  /\ more[k].index = First(more) + k - 1
             /\ more[k].index < Len(log \o more)
             /\ more[k] = (log \o more)[more[k].index + 1]
  <2>1. k \in 1..Len(more) /\ 1 \in 1..Len(more) /\ Len(more) \in Nat
    <3>1. k \in 1..Len(more) /\ Len(more) \in Nat
      BY <1>1, <1>3
    <3> QED
      BY <3>1
  <2>2. First(more) = Len(log)
    <3>1. more[1].index = Len(log) + 1 - 1
      BY <1>2, <2>1
    <3>2. Len(log) \in Nat
      OBVIOUS
    <3> QED
      BY <3>1, <3>2 DEF First
  <2>3. more[k].index = Len(log) + k - 1
    BY <1>2, <2>1
  <2>4. (log \o more)[Len(log) + k] = more[k] /\ Len(log \o more) = Len(log) + Len(more)
    <3>1. Len(log) + k \in 1..Len(log) + Len(more) /\ Len(log) + k > Len(log)
      BY <2>1
    <3> HIDE <1>3
    <3> QED
      BY <1>1, <2>1, <3>1
  <2>5. Len(log) \in Nat /\ k \in Nat /\ k <= Len(more)
    BY <2>1
  <2> HIDE <1>3
  <2>6. more[k].index = First(more) + k - 1 /\ more[k].index < Len(log \o more)
    BY <2>1, <2>2, <2>3, <2>4, <2>5
  <2>7. more[k].index + 1 = Len(log) + k
    BY <2>3, <2>5
  <2> QED
    BY <2>4, <2>6, <2>7
<1> QED
  BY <1>1, <1>2, <1>3 DEF Consecutive

-----------------------------------------------------------------------------
(* OrderInv is inductive.                                                  *)

LEMMA InitOrder == Init => OrderInv
<1> SUFFICES ASSUME Init PROVE OrderInv
  OBVIOUS
<1>1. TypeOK
  BY InitType
<1>2. BatchesConsecutive
  BY ConsecutiveEmpty DEF Init, ParallelInit, SerialInit, Waiting, BatchesConsecutive
<1>3. SerialHandover
  BY DEF Init, SerialInit, SerialHandover, Handover, Handed
<1>4. StoredInOrder
  BY DEF Init, StoredInOrder
<1> QED
  BY <1>1, <1>2, <1>3, <1>4 DEF OrderInv

\* What the batches handed over look like.
LEMMA HandedWhole ==
  ASSUME TypeOK, BatchesConsecutive, NEW p \in Handed(chan)
  PROVE  Whole(chan[p].frames) /\ First(chan[p].frames) <= Final(chan[p].frames)
<1>1. chan[p].frames \in Batch
  BY HandedBatches DEF TypeOK, ChannelsOK
<1>2. Consecutive(accepted, chan[p].frames)
  BY DEF BatchesConsecutive, Handed
<1> QED
  BY <1>1, <1>2, ConsecutiveWhole

\* A thread of the parallel pool.
LEMMA WorkerOrder ==
  ASSUME OrderInv, NEW w \in Workers, Worker(w)
  PROVE  OrderInv'
<1> USE DEF OrderInv
<1>0. /\ TypeOK'
      /\ UNCHANGED <<cnt, accepted, stored, sq, spc, smap, snext, evpc>>
  BY WorkerType DEF Worker, serialVars, poolStutter, loopVars
<1>1. StoredInOrder'
  BY <1>0 DEF StoredInOrder
<1>2. CASE WorkerRecv(w)
  <2>1. BatchesConsecutive'
    BY <1>0, <1>2, ConsecutiveEmpty DEF TypeOK, ChannelsOK, PoolsOK, WorkerRecv, Returned,
       Working, BatchesConsecutive
  <2>2. SerialHandover'
    BY <1>0, <1>2 DEF WorkerRecv, SerialHandover
  <2> QED
    BY <1>0, <1>1, <2>1, <2>2
<1>3. CASE WorkerDone(w)
  <2>1. wk[w].frames \in Batch /\ chan \in Seq(Command)
    BY <1>3 DEF TypeOK, ChannelsOK, PoolsOK, WorkerDone, Batch
  <2>2. PushSerialFrames(wk[w].frames) \in Command
    BY <2>1, CommandForms
  <2>3. BatchesConsecutive'
    BY <1>0, <1>3, <2>1, ConsecutiveEmpty DEF TypeOK, PoolsOK, WorkerDone, Waiting,
       PushSerialFrames, BatchesConsecutive
  <2>4. SerialHandover'
    BY <1>0, <1>3, <2>1, <2>2, HandoverAppendOther DEF WorkerDone, PushSerialFrames,
       SerialHandover
  <2> QED
    BY <1>0, <1>1, <2>3, <2>4
<1> QED
  BY <1>2, <1>3 DEF Worker

\* The thread of the serial pool.
LEMMA SerialOrder ==
  ASSUME OrderInv, Serial
  PROVE  OrderInv'
<1> USE DEF OrderInv
<1>0. /\ TypeOK'
      /\ UNCHANGED <<cnt, accepted, stored, pq, wk, evpc>>
  BY SerialType DEF Serial, parallelVars, poolStutter, loopVars
<1>1. StoredInOrder'
  BY <1>0 DEF StoredInOrder
<1>2. CASE SerialRecv
  <2>1. /\ \A k \in DOMAIN sq' : Consecutive(accepted, sq'[k])
        /\ Consecutive(accepted, Head(sq))
    BY <1>2 DEF TypeOK, ChannelsOK, SerialRecv, BatchesConsecutive
  <2>2. \A k \in DOMAIN smap' : Consecutive(accepted, smap'[k]) /\ First(smap'[k]) = k
    BY <1>2, <2>1 DEF SerialRecv, MapInsert, BatchesConsecutive
  <2>3. BatchesConsecutive'
    BY <1>0, <1>2, <2>1, <2>2 DEF SerialRecv, BatchesConsecutive
  <2>4. SerialHandover'
    BY <1>0, <1>2 DEF SerialRecv, SerialHandover
  <2> QED
    BY <1>0, <1>1, <2>3, <2>4
<1>3. CASE SerialDrain
  <2> DEFINE b == smap[snext]
  <2>1. b \in Batch /\ chan \in Seq(Command) /\ snext \in Nat /\ Len(stored) \in Nat
    BY <1>3 DEF TypeOK, ChannelsOK, PoolsOK, FramesOK, SerialDrain
  <2>2. Consecutive(accepted, b) /\ First(b) = snext
    BY <1>3 DEF SerialDrain, BatchesConsecutive
  <2>3. First(b) <= Final(b)
    BY <2>1, <2>2, ConsecutiveWhole
  <2>4. BatchesConsecutive'
    BY <1>0, <1>3, <2>1, <2>2 DEF SerialDrain, MapRemove, StoreFrames, BatchesConsecutive
  <2>5. evpc # "ended" => Handover(chan, Len(stored), snext, TRUE)
    BY <1>3 DEF SerialDrain, SerialHandover
  <2>6. evpc # "ended"
          => Handover(Append(chan, StoreFrames(b)), Len(stored), Final(b) + 1, TRUE)
    <3> HIDE DEF b
    <3> QED
      BY <2>1, <2>2, <2>3, <2>5, HandedWhole, HandoverAppendStore
  <2>7. SerialHandover'
    BY <1>0, <1>3, <2>6 DEF SerialDrain, SerialHandover
  <2> QED
    BY <1>0, <1>1, <2>4, <2>7
<1>4. CASE SerialWait
  BY <1>0, <1>1, <1>4 DEF SerialWait, SerialHandover, BatchesConsecutive
<1> QED
  BY <1>2, <1>3, <1>4 DEF Serial

\* A thread other than the event loop sends a command that is no StoreFrames,
\* or none, and leaves the batches where they are.
LEMMA SenderOrder ==
  ASSUME OrderInv, TypeOK',
         UNCHANGED <<cnt, accepted, stored, pq, wk, sq, spc, smap, snext>>,
         evpc = "ended" => evpc' = "ended",
         \/ UNCHANGED chan
         \/ \E c \in Command : /\ c.op \notin {"PushSerialFrames", "StoreFrames"}
                               /\ chan' = Append(chan, c)
  PROVE  OrderInv'
<1> USE DEF OrderInv
<1>1. StoredInOrder'
  BY DEF StoredInOrder
<1>2. chan \in Seq(Command)
  BY DEF TypeOK, ChannelsOK
<1>3. BatchesConsecutive'
  BY <1>2 DEF BatchesConsecutive
<1>4. SerialHandover'
  BY <1>2, HandoverAppendOther DEF SerialHandover
<1> QED
  BY <1>1, <1>3, <1>4

\* A reader's thread.
LEMMA ReaderOrderKept ==
  ASSUME OrderInv, NEW i \in Ids, Reader(i)
  PROVE  OrderInv'
<1>0. /\ TypeOK /\ TypeOK'
      /\ UNCHANGED <<cnt, accepted, stored, pq, wk, sq, spc, smap, snext, evpc>>
  BY ReaderType DEF OrderInv, Reader, readerStutter, parallelVars, serialVars, loopVars
<1>1. CASE ReaderCheck(i)
  BY <1>0, <1>1, SenderOrder DEF ReaderCheck
<1>2. CASE ReaderRead(i)
  <2>1. PICK n \in 0..MaxBatch :
          chan' = IF n = 0
                  THEN chan
                  ELSE Append(chan, PushFrames(i,
                         [k \in 1..n |-> [src |-> i, seq |-> nread[i] + k]]))
    BY <1>2 DEF ReaderRead
  <2>2. n \in Nat /\ nread[i] \in Nat
    BY <1>0, ReadAssumption DEF TypeOK, ReadersOK
  <2>3. [k \in 1..n |-> [src |-> i, seq |-> nread[i] + k]] \in Seq(Layer)
    BY <2>2, ReadLayers
  <2> DEFINE c == PushFrames(i, [k \in 1..n |-> [src |-> i, seq |-> nread[i] + k]])
  <2>4. c \in Command /\ c.op \notin {"PushSerialFrames", "StoreFrames"}
    <3>1. c \in Command
      BY <2>3, CommandForms
    <3> QED
      BY <3>1 DEF PushFrames
  <2> HIDE DEF c
  <2> QED
    BY <1>0, <2>1, <2>4, SenderOrder DEF c
<1>3. CASE ReaderFail(i)
  <2>1. PushError(i) \in Command /\ PushError(i).op \notin {"PushSerialFrames", "StoreFrames"}
    BY CommandForms DEF PushError
  <2> QED
    BY <1>0, <1>3, <2>1, SenderOrder DEF ReaderFail
<1> QED
  BY <1>1, <1>2, <1>3 DEF Reader

-----------------------------------------------------------------------------
(* The event loop.                                                         *)

\* Numbering: the layers of one read become a batch that continues the log.
LEMMA ProcessInputOrder ==
  ASSUME OrderInv, TypeOK', ProcessInput, UNCHANGED loopStutter
  PROVE  OrderInv'
<1> USE DEF OrderInv
<1> DEFINE layers == Head(chan).layers
           frames == [k \in 1..Len(layers) |-> NewFrame(cnt + k - 1, layers[k])]
<1>0. /\ chan \in Seq(Command) /\ chan # <<>> /\ Head(chan).op = "PushFrames"
      /\ chan' = Tail(chan)
      /\ layers \in Seq(Layer)
  BY Taken, CommandFields DEF ProcessInput, TypeOK, ChannelsOK, Received
<1>1. cnt = Len(accepted) /\ accepted \in Seq(Frame)
  BY DEF TypeOK, FramesOK, BatchesConsecutive
<1>2. /\ frames \in Seq(Frame) /\ Len(frames) = Len(layers)
      /\ \A k \in 1..Len(frames) : frames[k].index = Len(accepted) + k - 1
      /\ Consecutive(accepted \o frames, frames)
  BY <1>0, <1>1, ConsecutiveNumbered
<1>3. /\ accepted' = accepted \o frames /\ cnt' = cnt + Len(layers)
      /\ pq' = Append(pq, frames)
      /\ UNCHANGED <<stored, wk, sq, spc, smap, snext>>
  BY DEF ProcessInput, Numbered, loopStutter
<1> HIDE DEF frames
<1>4. ASSUME NEW b \in Seq(Frame), Consecutive(accepted, b)
      PROVE  Consecutive(accepted', b)
  BY <1>1, <1>2, <1>3, <1>4, ConsecutiveExtends
<1>5. BatchesConsecutive'
  <2>1. cnt' = Len(accepted')
    BY <1>0, <1>1, <1>2, <1>3
  <2>2. ASSUME NEW k \in DOMAIN accepted'
        PROVE  accepted'[k].index = k - 1
    <3>1. CASE k \in 1..Len(accepted)
      BY <1>1, <1>2, <1>3, <3>1 DEF BatchesConsecutive
    <3>2. CASE k \notin 1..Len(accepted)
      <4>1. /\ k \in Nat /\ k > Len(accepted) /\ k <= Len(accepted) + Len(frames)
            /\ Len(accepted) \in Nat /\ Len(frames) \in Nat
        BY <1>1, <1>2, <1>3, <2>2, <3>2
      <4>2. accepted'[k] = frames[k - Len(accepted)]
        BY <1>1, <1>2, <1>3, <4>1
      <4>3. k - Len(accepted) \in 1..Len(frames)
        BY <4>1
      <4>4. accepted'[k].index = Len(accepted) + (k - Len(accepted)) - 1
        BY <1>2, <4>2, <4>3
      <4> QED
        BY <4>1, <4>4
    <3> QED
      BY <3>1, <3>2
  <2>3. \A k \in DOMAIN pq' : Consecutive(accepted', pq'[k])
    <3>1. \A k \in DOMAIN pq : Consecutive(accepted', pq[k])
      BY <1>4 DEF TypeOK, ChannelsOK, BatchesConsecutive
    <3> QED
      BY <1>2, <1>3, <3>1 DEF TypeOK, ChannelsOK
  <2>4. \A w \in Workers : Consecutive(accepted', wk'[w].frames)
    BY <1>3, <1>4 DEF TypeOK, PoolsOK, BatchesConsecutive
  <2>5. \A k \in DOMAIN chan' :
          chan'[k].op \in {"PushSerialFrames", "StoreFrames"}
            => Consecutive(accepted', chan'[k].frames)
    <3>1. ASSUME NEW k \in DOMAIN chan, chan[k].op \in {"PushSerialFrames", "StoreFrames"}
          PROVE  Consecutive(accepted', chan[k].frames)
      <4>1. chan[k].frames \in Seq(Frame)
        BY <1>0, <3>1, CommandFields DEF Batch
      <4> QED
        BY <1>4, <3>1, <4>1 DEF BatchesConsecutive
    <3> QED
      BY <1>0, <3>1
  <2>6. \A k \in DOMAIN sq' : Consecutive(accepted', sq'[k])
    BY <1>3, <1>4 DEF TypeOK, ChannelsOK, BatchesConsecutive
  <2>7. \A k \in DOMAIN smap' : Consecutive(accepted', smap'[k]) /\ First(smap'[k]) = k
    BY <1>3, <1>4 DEF TypeOK, PoolsOK, BatchesConsecutive, Batch
  <2> QED
    BY <2>1, <2>2, <2>3, <2>4, <2>5, <2>6, <2>7 DEF BatchesConsecutive
<1>6. SerialHandover'
  <2>1. evpc # "ended"
    BY DEF ProcessInput, Received
  <2> QED
    BY <1>0, <1>3, <2>1, HandoverTailOther DEF SerialHandover
<1>7. StoredInOrder'
  BY <1>1, <1>2, <1>3 DEF TypeOK, FramesOK, StoredInOrder
<1> QED
  BY <1>5, <1>6, <1>7

\* A batch goes to the serial thread.
LEMMA ProcessSerialOrder ==
  ASSUME OrderInv, TypeOK', ProcessSerial, UNCHANGED loopStutter
  PROVE  OrderInv'
<1> USE DEF OrderInv
<1>0. /\ chan \in Seq(Command) /\ chan # <<>> /\ Head(chan).op = "PushSerialFrames"
      /\ chan' = Tail(chan) /\ sq' = Append(sq, Head(chan).frames)
      /\ UNCHANGED <<cnt, accepted, stored, pq, wk, spc, smap, snext>>
      /\ evpc # "ended"
  BY DEF ProcessSerial, Received, loopVars, loopStutter, TypeOK, ChannelsOK
<1>1. Consecutive(accepted, Head(chan).frames)
  BY <1>0 DEF BatchesConsecutive
<1>2. \A k \in DOMAIN sq' : Consecutive(accepted, sq'[k])
  BY <1>0, <1>1 DEF TypeOK, ChannelsOK, BatchesConsecutive
<1>3. BatchesConsecutive'
  BY <1>0, <1>2 DEF BatchesConsecutive
<1>4. SerialHandover'
  BY <1>0, HandoverTailOther DEF SerialHandover
<1>5. StoredInOrder'
  BY <1>0 DEF StoredInOrder
<1> QED
  BY <1>3, <1>4, <1>5

\* The batch the event loop stores is the next one in the log.
LEMMA StoredNext ==
  ASSUME OrderInv, ProcessStore
  PROVE  LET b == Head(chan).frames
         IN /\ b \in Batch
            /\ Len(stored) + Len(b) <= Len(accepted)
            /\ \A k \in 1..Len(b) : /\ b[k] = accepted[Len(stored) + k]
                                    /\ b[k].index = Len(stored) + k - 1
            /\ Handover(Tail(chan), Len(stored) + Len(b), snext, spc # "dead")
<1> USE DEF OrderInv
<1> DEFINE b == Head(chan).frames
<1>0. chan \in Seq(Command) /\ chan # <<>> /\ Head(chan).op = "StoreFrames" /\ evpc # "ended"
  BY DEF ProcessStore, Received, TypeOK, ChannelsOK
<1>1. b \in Batch /\ 1 \in Handed(chan) /\ chan[1].frames = b
  BY <1>0, HandedBatches DEF Handed
<1>2. Whole(b) /\ Consecutive(accepted, b)
  BY <1>0, <1>1, HandedWhole DEF BatchesConsecutive
<1>3. Len(stored) \in Nat /\ snext \in Nat
  BY DEF TypeOK, FramesOK, PoolsOK
<1>4. /\ First(b) = Len(stored)
      /\ Handover(Tail(chan), Len(stored) + Len(b), snext, spc # "dead")
  BY <1>0, <1>2, <1>3, HandoverTailStore DEF SerialHandover
<1>5. Len(b) \in Nat \ {0} /\ DOMAIN b = 1..Len(b)
  BY <1>1, BatchEnds DEF Batch
<1> HIDE DEF b
<1>6. ASSUME NEW k \in 1..Len(b)
      PROVE  /\ b[k].index = Len(stored) + k - 1 /\ b[k].index < Len(accepted)
             /\ b[k] = accepted[Len(stored) + k]
  <2>1. /\ b[k].index = Len(stored) + k - 1 /\ b[k].index < Len(accepted)
        /\ b[k] = accepted[b[k].index + 1]
    BY <1>2, <1>4, <1>5 DEF Consecutive
  <2>2. b[k].index + 1 = Len(stored) + k
    BY <1>3, <1>5, <2>1
  <2> QED
    BY <2>1, <2>2
<1>7. Len(stored) + Len(b) <= Len(accepted)
  <2>1. b[Len(b)].index = Len(stored) + Len(b) - 1 /\ b[Len(b)].index < Len(accepted)
    BY <1>5, <1>6
  <2>2. Len(accepted) \in Nat
    BY DEF TypeOK, FramesOK
  <2> QED
    BY <1>3, <1>5, <2>1, <2>2
<1> QED
  BY <1>1, <1>4, <1>6, <1>7 DEF b

\* Storing: the store continues with that batch.
LEMMA ProcessStoreOrder ==
  ASSUME OrderInv, TypeOK', ProcessStore, UNCHANGED loopStutter
  PROVE  OrderInv'
<1> USE DEF OrderInv
<1> DEFINE b == Head(chan).frames
<1>0. /\ chan \in Seq(Command) /\ chan # <<>> /\ chan' = Tail(chan)
      /\ stored' = stored \o b
      /\ UNCHANGED <<cnt, accepted, pq, sq, wk, spc, smap, snext>>
  BY DEF ProcessStore, Received, queues, loopStutter, TypeOK, ChannelsOK
<1>1. /\ b \in Batch
      /\ Len(stored) + Len(b) <= Len(accepted)
      /\ \A k \in 1..Len(b) : /\ b[k] = accepted[Len(stored) + k]
                              /\ b[k].index = Len(stored) + k - 1
      /\ Handover(Tail(chan), Len(stored) + Len(b), snext, spc # "dead")
  BY StoredNext
<1>2. BatchesConsecutive'
  BY <1>0 DEF BatchesConsecutive
<1> HIDE DEF b
<1>3. /\ stored \in Seq(Frame) /\ b \in Seq(Frame)
      /\ Len(stored) \in Nat /\ Len(b) \in Nat
      /\ Len(stored') = Len(stored) + Len(b)
  BY <1>0, <1>1 DEF TypeOK, FramesOK, Batch
<1>4. SerialHandover'
  BY <1>0, <1>1, <1>3 DEF SerialHandover
<1>5. ASSUME NEW k \in DOMAIN stored'
      PROVE  stored'[k] = accepted[k] /\ stored'[k].index = k - 1
  <2>1. CASE k \in 1..Len(stored)
    BY <1>0, <1>3, <2>1 DEF StoredInOrder
  <2>2. CASE k \notin 1..Len(stored)
    <3>1. k \in Nat /\ k > Len(stored) /\ k <= Len(stored) + Len(b)
      BY <1>0, <1>3, <1>5, <2>2
    <3>2. stored'[k] = b[k - Len(stored)]
      BY <1>0, <1>3, <3>1
    <3>3. k - Len(stored) \in 1..Len(b)
      BY <1>3, <3>1
    <3>4. /\ b[k - Len(stored)] = accepted[Len(stored) + (k - Len(stored))]
          /\ b[k - Len(stored)].index = Len(stored) + (k - Len(stored)) - 1
      BY <1>1, <3>3
    <3>5. Len(stored) + (k - Len(stored)) = k /\ Len(stored) + (k - Len(stored)) - 1 = k - 1
      BY <1>3, <3>1
    <3> QED
      BY <3>2, <3>4, <3>5
  <2> QED
    BY <2>1, <2>2
<1>6. StoredInOrder'
  BY <1>0, <1>1, <1>3, <1>5 DEF StoredInOrder
<1> QED
  BY <1>2, <1>4, <1>6

\* The other steps of the event loop take another command or none, and send the
\* pools nothing but the message that stops them.
LEMMA LoopRestOrder ==
  ASSUME OrderInv, TypeOK',
         UNCHANGED <<cnt, accepted, stored, wk, spc, smap, snext>>,
         \/ evpc # "ended" /\ UNCHANGED chan
         \/ /\ evpc # "ended" /\ chan # <<>> /\ Head(chan).op # "StoreFrames"
            /\ chan' = Tail(chan)
         \/ evpc' = "ended" /\ chan' = <<>>,
         \A k \in DOMAIN pq' : pq'[k] = Poison \/ (k \in DOMAIN pq /\ pq'[k] = pq[k]),
         \A k \in DOMAIN sq' : sq'[k] = Poison \/ (k \in DOMAIN sq /\ sq'[k] = sq[k])
  PROVE  OrderInv'
<1> USE DEF OrderInv
<1>0. chan \in Seq(Command)
  BY DEF TypeOK, ChannelsOK
<1>1. StoredInOrder'
  BY DEF StoredInOrder
<1>2. /\ \A k \in DOMAIN pq' : Consecutive(accepted, pq'[k])
      /\ \A k \in DOMAIN sq' : Consecutive(accepted, sq'[k])
  BY ConsecutiveEmpty DEF BatchesConsecutive, Poison
<1>3. \A k \in DOMAIN chan' :
        chan'[k].op \in {"PushSerialFrames", "StoreFrames"}
          => Consecutive(accepted, chan'[k].frames)
  <2>1. \A k \in DOMAIN chan' : \E j \in DOMAIN chan : chan'[k] = chan[j]
    <3>1. CASE chan' = Tail(chan) /\ chan # <<>>
      <4>1. \A k \in DOMAIN chan' : k + 1 \in DOMAIN chan /\ chan'[k] = chan[k + 1]
        BY <1>0, <3>1
      <4> QED
        BY <4>1
    <3> QED
      BY <3>1
  <2> QED
    BY <2>1 DEF BatchesConsecutive
<1>4. BatchesConsecutive'
  <2>1. /\ cnt = Len(accepted)
        /\ \A k \in DOMAIN accepted : accepted[k].index = k - 1
        /\ \A w \in Workers : Consecutive(accepted, wk[w].frames)
        /\ \A k \in DOMAIN smap : Consecutive(accepted, smap[k]) /\ First(smap[k]) = k
    BY DEF BatchesConsecutive
  <2> QED
    BY <1>2, <1>3, <2>1 DEF BatchesConsecutive
<1>5. SerialHandover'
  BY <1>0, HandoverTailOther DEF SerialHandover
<1> QED
  BY <1>1, <1>4, <1>5

LEMMA EventLoopOrder ==
  ASSUME OrderInv, EventLoop
  PROVE  OrderInv'
<1>0. TypeOK' /\ UNCHANGED loopStutter /\ TypeOK
  BY EventLoopType DEF OrderInv, EventLoop
<1>1. CASE ProcessInput
  BY <1>0, <1>1, ProcessInputOrder
<1>2. CASE ProcessSerial
  BY <1>0, <1>2, ProcessSerialOrder
<1>3. CASE ProcessStore
  BY <1>0, <1>3, ProcessStoreOrder
<1>4. CASE ProcessInputError \/ ProcessPushFilter \/ ProcessRemoveFilter \/ ProcessOutput
             \/ ProcessClose
  BY <1>0, <1>4, LoopRestOrder DEF ProcessInputError, ProcessPushFilter, ProcessRemoveFilter,
     ProcessOutput, ProcessClose, Received, queues, loopVars, loopStutter
<1>5. ASSUME evpc # "ended", UNCHANGED <<chan, pq, sq, cnt, accepted, stored>>
      PROVE  OrderInv'
  BY <1>0, <1>5, LoopRestOrder DEF loopStutter
<1>6. CASE \/ AnnounceFrames \/ UnlinkFiltered \/ AnnounceFiltered
           \/ OutputWrite \/ OutputWriteError \/ OutputFinish
  BY <1>5, <1>6 DEF AnnounceFrames, UnlinkFiltered, AnnounceFiltered, OutputWrite,
     OutputWriteError, OutputFinish, Finished, queues, loopVars
<1>7. CASE JoinSerial \/ JoinParallel
  BY <1>5, <1>7 DEF JoinSerial, JoinParallel, queues, loopVars
<1>8. ASSUME NEW id \in FilterIds, ScanFilter(id)
      PROVE  OrderInv'
  BY <1>5, <1>8 DEF ScanFilter, queues, loopVars
<1>9. CASE DropSerial
  <2>1. \A k \in DOMAIN sq' : sq'[k] = Poison \/ (k \in DOMAIN sq /\ sq'[k] = sq[k])
    <3>1. sq \in Seq(Seq(Frame)) /\ sq' = Append(sq, Poison)
      BY <1>0, <1>9 DEF DropSerial, TypeOK, ChannelsOK
    <3> QED
      BY <3>1
  <2> QED
    BY <1>0, <1>9, <2>1, LoopRestOrder DEF DropSerial, loopVars, loopStutter
<1>10. CASE DropParallel
  <2> DEFINE poisons == [w \in Workers |-> Poison]
  <2>1. pq \in Seq(Seq(Frame)) /\ pq' = pq \o poisons
    BY <1>0, <1>10 DEF DropParallel, Poisons, TypeOK, ChannelsOK
  <2>2. poisons \in Seq({Poison})
    <3>1. poisons \in [1..Concurrency -> {Poison}]
      BY DEF Workers
    <3> QED
      BY <3>1, ConcurrencyAssumption
  <2> HIDE DEF poisons
  <2>3. \A k \in DOMAIN pq' : pq'[k] = Poison \/ (k \in DOMAIN pq /\ pq'[k] = pq[k])
    BY <2>1, <2>2
  <2> QED
    BY <1>0, <1>10, <2>3, LoopRestOrder DEF DropParallel, loopVars, loopStutter
<1>11. CASE LoopExit
  BY <1>0, <1>11, LoopRestOrder DEF LoopExit, queues, loopVars, loopStutter
<1> QED
  BY <1>1, <1>2, <1>3, <1>4, <1>6, <1>7, <1>8, <1>9, <1>10, <1>11 DEF EventLoop

-----------------------------------------------------------------------------
(* The session, panics, and the whole program.                             *)

LEMMA CallerOrder ==
  ASSUME OrderInv, Caller
  PROVE  OrderInv'
<1>0. /\ TypeOK /\ TypeOK'
      /\ UNCHANGED <<cnt, accepted, stored, pq, wk, sq, spc, smap, snext, evpc>>
  BY CallerType DEF OrderInv, Caller, callerStutter, parallelVars, serialVars, loopVars
<1>1. CASE CreateReader \/ CreateFails \/ \E i \in Ids : CloseReader(i)
  BY <1>0, <1>1, SenderOrder DEF CreateReader, CreateFails, CloseReader
<1>2. CASE CreateWriter
  <2>1. PICK filter \in Filters \cup {NoFilter} :
          chan' = Append(chan, PushOutput(ioCnt', filter))
    BY <1>2 DEF CreateWriter
  <2>2. ioCnt' \in Ids
    BY <1>0, <1>2, MaxIoAssumption DEF CreateWriter, TypeOK, ControlOK, Ids
  <2>3. /\ PushOutput(ioCnt', filter) \in Command
        /\ PushOutput(ioCnt', filter).op \notin {"PushSerialFrames", "StoreFrames"}
    <3>1. PushOutput(ioCnt', filter) \in Command
      BY <2>2, CommandForms
    <3> QED
      BY <3>1 DEF PushOutput
  <2> QED
    BY <1>0, <2>1, <2>3, SenderOrder
<1>3. CASE CallSetFilter
  <2>1. PICK id \in FilterIds, filter \in Filters \cup {NoFilter} :
          chan' = Append(chan, SetFilter(id, filter))
    BY <1>3 DEF CallSetFilter
  <2>2. /\ SetFilter(id, filter) \in Command
        /\ SetFilter(id, filter).op \notin {"PushSerialFrames", "StoreFrames"}
    <3>1. SetFilter(id, filter) \in Command
      BY CommandForms
    <3> QED
      BY <3>1 DEF SetFilter
  <2> QED
    BY <1>0, <2>1, <2>2, SenderOrder
<1>4. CASE DropLoop
  <2>1. Close \in Command /\ Close.op \notin {"PushSerialFrames", "StoreFrames"}
    BY CommandForms DEF Close
  <2> QED
    BY <1>0, <1>4, <2>1, SenderOrder DEF DropLoop
<1> QED
  BY <1>1, <1>2, <1>3, <1>4 DEF Caller

LEMMA DropOrder ==
  ASSUME OrderInv, Drop
  PROVE  OrderInv'
<1>1. /\ TypeOK'
      /\ UNCHANGED <<cnt, accepted, stored, pq, wk, sq, spc, smap, snext, evpc>>
  BY DropType DEF OrderInv, Drop, callerStutter, parallelVars, serialVars, loopVars
<1>2. UNCHANGED chan
  BY DEF Drop, JoinLoop, DropInput, JoinInput, Closed
<1> QED
  BY <1>1, <1>2, SenderOrder

LEMMA PanicOrder ==
  ASSUME OrderInv, Panic
  PROVE  OrderInv'
<1> USE DEF OrderInv
<1>0. TypeOK'
  BY PanicType
<1>1. ASSUME NEW w \in Workers, WorkerPanic(w), UNCHANGED <<serialVars, poolStutter>>
      PROVE  OrderInv'
  <2>1. UNCHANGED <<chan, pq, cnt, accepted, stored, sq, spc, smap, snext, evpc>>
    BY <1>1 DEF WorkerPanic, serialVars, poolStutter, loopVars
  <2>2. BatchesConsecutive'
    BY <1>1, <2>1, ConsecutiveEmpty DEF WorkerPanic, Panicked, TypeOK, PoolsOK,
       BatchesConsecutive
  <2> QED
    BY <1>0, <2>1, <2>2 DEF SerialHandover, StoredInOrder
<1>2. ASSUME SerialPanic, UNCHANGED <<parallelVars, poolStutter>>
      PROVE  OrderInv'
  <2>1. UNCHANGED <<chan, pq, wk, sq, cnt, accepted, stored, evpc>> /\ smap' = <<>>
    BY <1>2 DEF SerialPanic, parallelVars, poolStutter, loopVars
  <2>2. /\ smap[snext] \in Batch /\ chan \in Seq(Command) /\ snext \in Nat
        /\ snext' = Final(smap[snext]) + 1 /\ spc' = "dead"
        /\ evpc # "ended" => Handover(chan, Len(stored), snext, spc # "dead")
    BY <1>2 DEF SerialPanic, TypeOK, ChannelsOK, PoolsOK, SerialHandover
  <2>3. Consecutive(accepted, smap[snext]) /\ First(smap[snext]) = snext
    BY <1>2 DEF SerialPanic, BatchesConsecutive
  <2>4. snext <= Final(smap[snext]) /\ Final(smap[snext]) \in Nat
    BY <2>2, <2>3, ConsecutiveWhole, BatchEnds
  <2>5. evpc # "ended" => Handover(chan, Len(stored), snext', FALSE)
    <3>1. snext' \in Nat /\ snext <= snext'
      BY <2>2, <2>4
    <3> QED
      BY <2>2, <3>1, HandoverPanic
  <2>6. BatchesConsecutive'
    BY <2>1 DEF BatchesConsecutive
  <2> QED
    BY <1>0, <2>1, <2>2, <2>5, <2>6 DEF SerialHandover, StoredInOrder
<1>3. ASSUME NEW i \in Ids, ReaderPanic(i), UNCHANGED readerStutter
      PROVE  OrderInv'
  BY <1>0, <1>3, SenderOrder DEF ReaderPanic, readerStutter, parallelVars, serialVars,
     loopVars
<1>4. CASE PluginPanic
  <2>1. UNCHANGED <<chan, cnt, accepted, stored, pq, wk, sq, spc, smap, snext>>
        /\ evpc # "ended"
    BY <1>4 DEF PluginPanic, parallelVars, serialVars, loopVars
  <2> QED
    BY <1>0, <2>1, SenderOrder
<1> QED
  BY <1>1, <1>2, <1>3, <1>4 DEF Panic

LEMMA NextOrder == OrderInv /\ [Next]_vars => OrderInv'
<1> SUFFICES ASSUME OrderInv, [Next]_vars PROVE OrderInv'
  OBVIOUS
<1>1. CASE UNCHANGED vars
  <2>1. /\ TypeOK'
        /\ UNCHANGED <<chan, cnt, accepted, stored, pq, wk, sq, spc, smap, snext, evpc>>
    BY <1>1, StutterType DEF OrderInv, vars, parallelVars, serialVars, loopVars
  <2> QED
    BY <2>1, SenderOrder
<1>2. CASE Next
  BY <1>1, <1>2, WorkerOrder, SerialOrder, ReaderOrderKept, EventLoopOrder, CallerOrder,
     DropOrder, PanicOrder
  DEF Next, Terminated
<1> QED
  BY <1>1, <1>2

\* The conjuncts of OrderInv hold throughout.
LEMMA OrderKept == Spec => []OrderInv
<1> QED
  BY InitOrder, NextOrder, PTL DEF Spec

(* The user interface reads the frames in the order they were numbered,     *)
(* with no gap and no frame twice, for any number of decoder threads: the   *)
(* serial thread's map undoes the order the parallel pool returns them in.  *)
THEOREM OrderCorrect == Spec => []StoredInOrder
<1>1. OrderInv => StoredInOrder
  BY DEF OrderInv
<1> QED
  BY OrderKept, <1>1, PTL

(* Whatever is on its way from the serial thread to the store continues the *)
(* store, also after that thread has panicked, until the event loop ends    *)
(* and drops it.                                                            *)
THEOREM HandoverCorrect == Spec => []SerialHandover
<1>1. OrderInv => SerialHandover
  BY DEF OrderInv
<1> QED
  BY OrderKept, <1>1, PTL

-----------------------------------------------------------------------------
(* The store implements FrameLog: seen from outside, its threads number    *)
(* frames and publish them in that order, and do nothing else.             *)

\* A sequence that agrees with the start of another one is a part of it.
LEMMA InitialPart ==
  ASSUME NEW s \in Seq(Frame), NEW t \in Seq(Frame), Len(s) <= Len(t),
         \A k \in DOMAIN s : s[k] = t[k]
  PROVE  s = SubSeq(t, 1, Len(s))
<1>1. Len(s) \in Nat /\ Len(t) \in Nat /\ DOMAIN s = 1..Len(s) /\ DOMAIN t = 1..Len(t)
  OBVIOUS
<1>2. SubSeq(t, 1, Len(s)) = [k \in 1..Len(s) |-> t[k]]
  BY <1>1
<1>3. s = [k \in 1..Len(s) |-> s[k]]
  BY <1>1
<1> QED
  BY <1>1, <1>2, <1>3

\* Only process_input numbers frames: it accepts a batch.
LEMMA AcceptStep ==
  ASSUME OrderInv, ProcessInput
  PROVE  Log!Accept \/ UNCHANGED Log!vars
<1> DEFINE layers == Head(chan).layers
           frames == [k \in 1..Len(layers) |-> NewFrame(cnt + k - 1, layers[k])]
<1>1. accepted \in Seq(Frame) /\ cnt = Len(accepted) /\ cnt \in Nat
  BY DEF OrderInv, TypeOK, FramesOK, BatchesConsecutive
<1>2. layers \in Seq(Layer)
  BY Taken, CommandFields DEF ProcessInput, OrderInv, TypeOK
<1>3. frames \in Seq(Frame)
  BY <1>1, <1>2, NumberedFrames
<1>4. accepted' = accepted \o frames /\ UNCHANGED stored
  BY DEF ProcessInput, Numbered
<1> HIDE DEF frames
<1>5. SubSeq(accepted', 1, Len(accepted)) = accepted
  <2>1. /\ accepted' \in Seq(Frame) /\ Len(accepted) <= Len(accepted')
        /\ \A k \in DOMAIN accepted : accepted[k] = accepted'[k]
    BY <1>1, <1>3, <1>4
  <2> QED
    BY <1>1, <2>1, InitialPart
<1>6. CASE Len(frames) > 0
  <2>1. Len(accepted') > Len(accepted)
    BY <1>1, <1>3, <1>4, <1>6
  <2> QED
    BY <1>4, <1>5, <2>1 DEF Log!Accept
<1>7. CASE ~(Len(frames) > 0)
  <2>1. frames = <<>>
    BY <1>3, <1>7
  <2> QED
    BY <1>1, <1>4, <2>1 DEF Log!vars
<1> QED
  BY <1>6, <1>7

\* Only Command::StoreFrames changes the store: it publishes a batch.
LEMMA PublishStep ==
  ASSUME OrderInv, OrderInv', ProcessStore
  PROVE  Log!Publish
<1> DEFINE b == Head(chan).frames
<1>1. stored' = stored \o b /\ UNCHANGED accepted
  BY DEF ProcessStore
<1>2. b \in Batch /\ Len(b) \in Nat \ {0}
  BY StoredNext, BatchEnds
<1>3. /\ stored \in Seq(Frame) /\ stored' \in Seq(Frame) /\ accepted \in Seq(Frame)
      /\ Len(stored') <= Len(accepted)
      /\ \A k \in DOMAIN stored' : stored'[k] = accepted[k]
  BY <1>1 DEF OrderInv, TypeOK, FramesOK, StoredInOrder
<1> HIDE DEF b
<1>4. stored' = SubSeq(accepted, 1, Len(stored'))
  BY <1>3, InitialPart
<1>5. Len(stored') = Len(stored) + Len(b)
  BY <1>1, <1>2, <1>3 DEF Batch
<1>6. Len(stored') \in Len(stored) + 1..Len(accepted)
  BY <1>2, <1>3, <1>5
<1> QED
  BY <1>1, <1>4, <1>6 DEF Log!Publish

LEMMA LogStep ==
  ASSUME OrderInv, OrderInv', [Next]_vars
  PROVE  [Log!Next]_(Log!vars)
<1>1. CASE EventLoop
  <2>1. CASE ProcessInput
    BY <2>1, AcceptStep DEF Log!Next
  <2>2. CASE ProcessStore
    BY <2>2, PublishStep DEF Log!Next
  <2>3. CASE ~ProcessInput /\ ~ProcessStore
    <3>1. UNCHANGED <<accepted, stored>>
      BY <1>1, <2>3 DEF EventLoop, ProcessInputError, ProcessSerial, AnnounceFrames,
         ProcessPushFilter, UnlinkFiltered, ProcessRemoveFilter, ScanFilter,
         AnnounceFiltered, ProcessOutput, OutputWrite, OutputWriteError, OutputFinish,
         Finished, ProcessClose, DropSerial, JoinSerial, DropParallel, JoinParallel,
         LoopExit, loopVars
    <3> QED
      BY <3>1 DEF Log!vars
  <2> QED
    BY <2>1, <2>2, <2>3
<1>2. CASE ~EventLoop
  <2>1. UNCHANGED <<accepted, stored>>
    BY <1>2 DEF Next, Worker, Serial, Reader, Caller, Drop, Panic, PluginPanic, Terminated,
       poolStutter, readerStutter, callerStutter, vars, loopVars
  <2> QED
    BY <2>1 DEF Log!vars
<1> QED
  BY <1>1, <1>2

(* The store implements FrameLog, with the frames its readers see as the    *)
(* log: nothing that was published is ever changed, moved or taken back.    *)
THEOREM LogImplemented == Spec => LogSpec
<1>1. Init => Log!Init
  BY DEF Init, Log!Init
<1>2. OrderInv /\ OrderInv' /\ [Next]_vars => [Log!Next]_(Log!vars)
  BY LogStep
<1>3. OrderInv /\ [Next]_vars => OrderInv'
  BY NextOrder
<1>4. Init => OrderInv
  BY InitOrder
<1> QED
  BY <1>1, <1>2, <1>3, <1>4, PTL DEF Spec, LogSpec, Log!Spec
=============================================================================
