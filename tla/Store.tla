------------------------------- MODULE Store --------------------------------
(***************************************************************************)
(* The frame store of one session: reader threads, the event loop and its  *)
(* two pools of decoder threads, display filters, outputs, and the shut-   *)
(* down that Session's drop starts.                                        *)
(* Source: genet-kernel/src/store.rs and the callers in                    *)
(* genet-kernel/src/session.rs.                                            *)
(*                                                                         *)
(* Every action is what one thread does between two points where another   *)
(* thread can see or disturb it: a channel, a lock, a callback, a join.    *)
(***************************************************************************)
EXTENDS ParallelPool, SerialPool, Inputs

CONSTANTS
  NoId,          \* no filter id
  FilterChunk,   \* MAX_FILTER_SIZE: frames one turn of process_filters scans
  OutputChunk,   \* OUTPUT_BLOCK_SIZE: frames one turn of process_output writes
  Roles(_),      \* bound: what id i may be: "reader", "writer", "failed"
  MaxFilterOps,  \* bound: calls of set_filter
  MaxPanics      \* bound: panics of plug-in code

ASSUME ChunkAssumption ==
  /\ FilterChunk \in Nat \ {0}
  /\ OutputChunk \in Nat \ {0}
ASSUME NoIdAssumption == NoId \notin FilterIds
ASSUME BoundAssumption == MaxFilterOps \in Nat /\ MaxPanics \in Nat

VARIABLES
  cnt,         \* the index of the next frame to be numbered
  accepted,    \* history: the frames numbered so far, in that order
  stored,      \* frames: the store, which the user interface reads
  filterMap,   \* filter_map: the filter under an id and how far it has got
  filtered,    \* filtered: the indices found, which the user interface reads
  evpc,        \* where the event loop is
  todo,        \* ids process_filters has still to bring up to date
  cur,         \* the id whose filter command or filter callback is under way
  out,         \* the output being written: its id, its filter, its offset
  joined,      \* threads of the parallel pool its Drop has still to join
  unwinding,   \* the event loop is unwinding from a panic
  file,        \* file[i]: the frames writer i was given
  announced,   \* the last length on_frames_updated announced
  fannounced,  \* the last length on_filtered_frames_updated announced for an id
  done,        \* done[i]: the on_input_done and on_output_done calls for id i
  errors,      \* calls of on_error
  ioCnt,       \* io_cnt: ids given to readers and writers
  fops,        \* calls of set_filter so far
  main         \* "running", then the steps of the Store's Drop

queues == <<pq, sq>>
loopVars == <<cnt, accepted, stored>>
filterView == <<filterMap, filtered, cur, fannounced>>
filterVars == <<filterView, todo>>
outputVars == <<out, file>>
eventVars == <<announced, done>>
downVars == <<joined, unwinding, errors>>
callerVars == <<ioCnt, fops, main>>
vars == <<chan, panics, parallelVars, serialVars, inputVars, loopVars, filterVars,
          outputVars, eventVars, downVars, callerVars, evpc>>

Unset == [filter |-> NoFilter, offset |-> 0]
NoOutput == [id |-> 0, filter |-> NoFilter, offset |-> 0]

Least(a, b) == IF a < b THEN a ELSE b
Active(map) == {id \in FilterIds : map[id].filter # NoFilter}
Indices(frames) == [k \in DOMAIN frames |-> frames[k].index]

Init ==
  /\ chan = <<>> /\ panics = 0
  /\ ParallelInit /\ SerialInit /\ InputsInit
  /\ cnt = 0 /\ accepted = <<>> /\ stored = <<>>
  /\ filterMap = [id \in FilterIds |-> Unset]
  /\ filtered = [id \in FilterIds |-> <<>>]
  /\ fannounced = [id \in FilterIds |-> 0]
  /\ todo = {} /\ cur = NoId
  /\ out = NoOutput /\ file = [i \in Ids |-> <<>>]
  /\ announced = 0 /\ done = [i \in Ids |-> <<>>]
  /\ joined = 0 /\ unwinding = FALSE /\ errors = 0
  /\ ioCnt = 0 /\ fops = 0 /\ main = "running"
  /\ evpc = "loop"

-----------------------------------------------------------------------------
(* The event loop takes a command when every filter is up to date.         *)

Received(op) ==
  /\ evpc = "loop" /\ todo = {}
  /\ chan # <<>> /\ Head(chan).op = op
  /\ chan' = Tail(chan)

\* process_filters runs after the command: every active filter is due.
FiltersDue(map) == evpc' = "loop" /\ todo' = Active(map)

\* Mutants of Numbered: the index stays the same for the whole read; and the
\* layers are taken from the end of the vector.
NumberedAlike(layers) == [k \in 1..Len(layers) |-> NewFrame(cnt, layers[k])]
NumberedFromEnd(layers) ==
  [k \in 1..Len(layers) |-> NewFrame(cnt + k - 1, layers[Len(layers) + 1 - k])]

Numbered(layers) == [k \in 1..Len(layers) |-> NewFrame(cnt + k - 1, layers[k])]

\* process_input, Ok(layers): number the frames, hand them to the pool.  The
\* threads of set_input never send an empty Ok, whose branch cannot run.
ProcessInput ==
  /\ Received("PushFrames")
  /\ Head(chan).ok
  /\ LET layers == Head(chan).layers
         frames == Numbered(layers)
     IN /\ cnt' = cnt + Len(layers)
        /\ accepted' = accepted \o frames
        /\ pq' = Append(pq, frames)
  /\ FiltersDue(filterMap)
  /\ UNCHANGED <<filterView, outputVars, eventVars, downVars, sq, stored>>

\* process_input, Err(err): the reader is done.
ProcessInputError ==
  /\ Received("PushFrames")
  /\ ~Head(chan).ok
  /\ done' = [done EXCEPT ![Head(chan).id] = Append(@, "err")]
  /\ FiltersDue(filterMap)
  /\ UNCHANGED <<queues, loopVars, filterView, outputVars, downVars,
                 announced>>

\* Command::PushSerialFrames(vec) => spool.process(vec)
ProcessSerial ==
  /\ Received("PushSerialFrames")
  /\ sq' = Append(sq, Head(chan).frames)
  /\ FiltersDue(filterMap)
  /\ UNCHANGED <<loopVars, filterView, outputVars, eventVars, downVars, pq>>

\* Command::StoreFrames(vec): all frames are pushed under one write lock ...
ProcessStore ==
  /\ Received("StoreFrames")
  /\ stored' = stored \o Head(chan).frames
  /\ evpc' = "announce"
  /\ UNCHANGED <<queues, filterVars, outputVars, eventVars, downVars, cnt,
                 accepted>>

\* ... and the callbacks run after the lock is released.
AnnounceFrames ==
  /\ evpc = "announce"
  /\ announced' = Len(stored)
  /\ FiltersDue(filterMap)
  /\ UNCHANGED <<chan, queues, loopVars, filterView, outputVars, downVars,
                 done>>

\* Mutant of NewContext: a filter that is replaced keeps its offset.
NewContextKeepsOffset(id, filter) == [filterMap[id] EXCEPT !.filter = filter]

NewContext(id, filter) == [filter |-> filter, offset |-> 0]

\* Mutant of ProcessPushFilter: the user interface is not told of the reset.
ProcessPushFilterSilent ==
  /\ Received("SetFilter")
  /\ Head(chan).filter # NoFilter
  /\ LET id == Head(chan).id
     IN filterMap' = [filterMap EXCEPT ![id] = NewContext(id, Head(chan).filter)]
  /\ cur' = Head(chan).id
  /\ evpc' = "unlink"
  /\ UNCHANGED <<queues, loopVars, outputVars, eventVars, downVars, filtered,
                 todo, fannounced>>

\* process_push_filter, Some(filter): the new context and the callback ...
ProcessPushFilter ==
  /\ Received("SetFilter")
  /\ Head(chan).filter # NoFilter
  /\ LET id == Head(chan).id
     IN filterMap' = [filterMap EXCEPT ![id] = NewContext(id, Head(chan).filter)]
  /\ fannounced' = [fannounced EXCEPT ![Head(chan).id] = 0]
  /\ cur' = Head(chan).id
  /\ evpc' = "unlink"
  /\ UNCHANGED <<queues, loopVars, outputVars, eventVars, downVars, filtered,
                 todo>>

\* ... and only then are the indices of the former filter removed.
UnlinkFiltered ==
  /\ evpc = "unlink"
  /\ filtered' = [filtered EXCEPT ![cur] = <<>>]
  /\ cur' = NoId
  /\ FiltersDue(filterMap)
  /\ UNCHANGED <<chan, queues, loopVars, outputVars, eventVars, downVars,
                 filterMap, fannounced>>

\* process_push_filter, None: no callback.
ProcessRemoveFilter ==
  /\ Received("SetFilter")
  /\ Head(chan).filter = NoFilter
  /\ filterMap' = [filterMap EXCEPT ![Head(chan).id] = Unset]
  /\ filtered' = [filtered EXCEPT ![Head(chan).id] = <<>>]
  /\ FiltersDue(filterMap')
  /\ UNCHANGED <<queues, loopVars, outputVars, eventVars, downVars, cur,
                 fannounced>>

-----------------------------------------------------------------------------
(* process_filters: for one id, one turn of the inner loop.                *)

\* Scan the next frames of one filter; when that is the last turn the id is
\* not due any more.  Found indices are appended before their callback runs.
ScanFilter(id) ==
  /\ evpc = "loop" /\ id \in todo
  /\ LET offset == filterMap[id].offset
         end == Least(Len(stored), offset + FilterChunk)
         found == Indices(Selected(SubSeq(stored, offset + 1, end), filterMap[id].filter))
     IN /\ filterMap' = [filterMap EXCEPT ![id].offset = end]
        /\ todo' = IF end >= Len(stored) THEN todo \ {id} ELSE todo
        /\ filtered' = [filtered EXCEPT ![id] = @ \o found]
        /\ IF found = <<>>
           THEN UNCHANGED <<cur, evpc>>
           ELSE cur' = id /\ evpc' = "announceFiltered"
  /\ UNCHANGED <<chan, queues, loopVars, outputVars, eventVars, downVars,
                 fannounced>>

AnnounceFiltered ==
  /\ evpc = "announceFiltered"
  /\ fannounced' = [fannounced EXCEPT ![cur] = Len(filtered[cur])]
  /\ cur' = NoId
  /\ evpc' = "loop"
  /\ UNCHANGED <<chan, queues, loopVars, outputVars, eventVars, downVars,
                 filterMap, filtered, todo>>

-----------------------------------------------------------------------------
(* process_output: the read lock is held throughout, and only the event    *)
(* loop ever writes frames, so that the store does not change meanwhile.   *)

ProcessOutput ==
  /\ Received("PushOutput")
  /\ out' = [id |-> Head(chan).id, filter |-> Head(chan).filter, offset |-> 0]
  /\ evpc' = "output"
  /\ UNCHANGED <<queues, loopVars, filterVars, eventVars, downVars, file>>

OutputEnd == Least(Len(stored), out.offset + OutputChunk)
OutputFrames == Selected(SubSeq(stored, out.offset + 1, OutputEnd), out.filter)

\* output.write(frames) succeeds: the next chunk.
OutputWrite ==
  /\ evpc = "output" /\ out.offset < Len(stored)
  /\ file' = [file EXCEPT ![out.id] = @ \o OutputFrames]
  /\ out' = [out EXCEPT !.offset = OutputEnd]
  /\ UNCHANGED <<chan, queues, loopVars, filterVars, eventVars, downVars,
                 evpc>>

\* Mutant of Finished: an error is not reported.
FinishedSilently(result) ==
  /\ done' = IF result = "ok" THEN [done EXCEPT ![out.id] = Append(@, result)] ELSE done
  /\ out' = NoOutput
  /\ FiltersDue(filterMap)
  /\ UNCHANGED <<chan, queues, loopVars, filterView, downVars, announced>>

Finished(result) ==
  /\ done' = [done EXCEPT ![out.id] = Append(@, result)]
  /\ out' = NoOutput
  /\ FiltersDue(filterMap)
  /\ UNCHANGED <<chan, queues, loopVars, filterView, downVars, announced>>

\* A frame of the chunk cannot be written: those before it have been.
OutputWriteError ==
  /\ evpc = "output" /\ out.offset < Len(stored)
  /\ \E n \in 0..Len(OutputFrames) - 1 :
       file' = [file EXCEPT ![out.id] = @ \o SubSeq(OutputFrames, 1, n)]
  /\ Finished("err")

\* Mutant of OutputFinish: the last frame is taken for the end.
OutputFinishEarly ==
  /\ evpc = "output" /\ out.offset >= Len(stored) - 1
  /\ \E result \in {"ok", "err"} : Finished(result)
  /\ UNCHANGED file

\* output.end(), which may fail too.
OutputFinish ==
  /\ evpc = "output" /\ out.offset >= Len(stored)
  /\ \E result \in {"ok", "err"} : Finished(result)
  /\ UNCHANGED file

-----------------------------------------------------------------------------
(* The end of the event loop: Close, or a panic of a filter or a writer,   *)
(* which unwinds out of the loop.  Both drop the serial pool, then the     *)
(* parallel one.                                                           *)

ProcessClose ==
  /\ Received("Close")
  /\ evpc' = "dropSerial"
  /\ UNCHANGED <<queues, loopVars, filterVars, outputVars, eventVars,
                 downVars>>

\* Filter::test panics on a frame that is scanned, or, in an output, it or the
\* writer's write() or end(), which was given the frames before.
PluginPanic ==
  /\ \/ /\ evpc = "loop" /\ \E id \in todo : filterMap[id].offset < Len(stored)
        /\ UNCHANGED file
     \/ /\ evpc = "output"
        /\ \E n \in 0..Len(OutputFrames) :
             file' = [file EXCEPT ![out.id] = @ \o SubSeq(OutputFrames, 1, n)]
  /\ panics' = panics + 1
  /\ unwinding' = TRUE
  /\ evpc' = "dropSerial"
  /\ todo' = {} /\ out' = NoOutput
  /\ UNCHANGED <<chan, parallelVars, serialVars, inputVars, loopVars, filterView,
                 eventVars, joined, errors, callerVars>>

\* serial::Pool::drop sends None ...
DropSerial ==
  /\ evpc = "dropSerial"
  /\ sq' = Append(sq, Poison)
  /\ evpc' = "joinSerial"
  /\ UNCHANGED <<chan, loopVars, filterVars, outputVars, eventVars, downVars,
                 pq>>

\* Mutant of JoinPanics: a panic in a destructor always aborts.
JoinPanicsAtOnce(next) == unwinding' = TRUE /\ evpc' = "aborted"

\* h.join().unwrap() on a thread that panicked panics: during a normal drop
\* that starts to unwind, while unwinding it aborts the process.
JoinPanics(next) ==
  /\ unwinding' = TRUE
  /\ evpc' = IF unwinding THEN "aborted" ELSE next

\* ... and joins the thread.
JoinSerial ==
  /\ evpc = "joinSerial"
  /\ \/ spc = "ended" /\ evpc' = "dropParallel" /\ UNCHANGED unwinding
     \/ spc = "dead" /\ JoinPanics("dropParallel")
  /\ UNCHANGED <<chan, queues, loopVars, filterVars, outputVars, eventVars,
                 joined, errors>>

\* Mutant of Poisons: one None for the whole pool.
PoisonOnce == <<Poison>>

Poisons == [w \in Workers |-> Poison]

\* parallel::Pool::drop sends one None per thread ...
DropParallel ==
  /\ evpc = "dropParallel"
  /\ pq' = pq \o Poisons
  /\ joined' = Concurrency
  /\ evpc' = "joinParallel"
  /\ UNCHANGED <<chan, loopVars, filterVars, outputVars, eventVars, sq,
                 unwinding, errors>>

\* ... and joins them, the last one first; a panic leaves the rest detached.
JoinParallel ==
  /\ evpc = "joinParallel" /\ joined > 0
  /\ \/ /\ wk[joined].pc = "ended"
        /\ joined' = joined - 1
        /\ UNCHANGED <<evpc, unwinding>>
     \/ /\ wk[joined].pc = "dead"
        /\ joined' = 0
        /\ JoinPanics("joinParallel")
  /\ UNCHANGED <<chan, queues, loopVars, filterVars, outputVars, eventVars,
                 errors>>

\* Mutant of LoopExit: a panic is caught and forgotten.
LoopExitSilent ==
  /\ evpc = "joinParallel" /\ joined = 0
  /\ evpc' = "ended"
  /\ chan' = <<>>
  /\ UNCHANGED <<queues, loopVars, filterVars, outputVars, eventVars, joined,
                 unwinding, errors>>

\* The closure ends: the receiver goes, with the commands that are queued, and
\* what is sent from now on nobody takes.  catch_unwind: a panic ends in on_error.
LoopExit ==
  /\ evpc = "joinParallel" /\ joined = 0
  /\ evpc' = "ended"
  /\ chan' = <<>>
  /\ errors' = IF unwinding THEN errors + 1 ELSE errors
  /\ UNCHANGED <<queues, loopVars, filterVars, outputVars, eventVars, joined,
                 unwinding>>

-----------------------------------------------------------------------------
(* The session: calls of the user interface, and the Store's Drop.         *)

\* create_reader: new_worker succeeds, and set_input spawns the thread.
CreateReader ==
  /\ main = "running" /\ ioCnt < MaxIo /\ "reader" \in Roles(ioCnt + 1)
  /\ ioCnt' = ioCnt + 1
  /\ rpc' = [rpc EXCEPT ![ioCnt'] = "check"]
  /\ slot' = [slot EXCEPT ![ioCnt'] = "held"]
  /\ UNCHANGED <<chan, fops, main>>

\* create_writer: new_worker succeeds, and push_output sends the command.
CreateWriter ==
  /\ main = "running" /\ ioCnt < MaxIo /\ "writer" \in Roles(ioCnt + 1)
  /\ ioCnt' = ioCnt + 1
  /\ \E filter \in Filters \cup {NoFilter} :
       chan' = Append(chan, PushOutput(ioCnt', filter))
  /\ UNCHANGED <<rpc, slot, fops, main>>

\* create_reader and create_writer: new_worker fails; the id is used up.
CreateFails ==
  /\ main = "running" /\ ioCnt < MaxIo /\ "failed" \in Roles(ioCnt + 1)
  /\ ioCnt' = ioCnt + 1
  /\ UNCHANGED <<chan, rpc, slot, fops, main>>

\* close_reader: unset_input drops the holder, the thread is joined later.
CloseReader(i) ==
  /\ main = "running" /\ slot[i] = "held"
  /\ slot' = [slot EXCEPT ![i] = "unset"]
  /\ UNCHANGED <<chan, rpc, ioCnt, fops, main>>

CallSetFilter ==
  /\ main = "running" /\ fops < MaxFilterOps
  /\ fops' = fops + 1
  /\ \E id \in FilterIds, filter \in Filters \cup {NoFilter} :
       chan' = Append(chan, SetFilter(id, filter))
  /\ UNCHANGED <<rpc, slot, ioCnt, main>>

\* The session is dropped: EventLoop::drop sends Close ...
DropLoop ==
  /\ main = "running"
  /\ main' = "joinLoop"
  /\ chan' = Append(chan, Close)
  /\ UNCHANGED <<rpc, slot, ioCnt, fops>>

\* ... and joins the event loop's thread.
JoinLoop ==
  /\ main = "joinLoop" /\ evpc = "ended"
  /\ main' = "joinInputs"
  /\ UNCHANGED <<chan, rpc, slot, ioCnt, fops>>

InSlot(where) == {i \in Ids : slot[i] = where}

\* InputContext::drop releases the holder; inputs go before inputs_trash.
DropInput(i) ==
  /\ main = "joinInputs" /\ InSlot("joining") = {}
  /\ i \in InSlot("held") \/ (InSlot("held") = {} /\ i \in InSlot("unset"))
  /\ slot' = [slot EXCEPT ![i] = "joining"]
  /\ UNCHANGED <<chan, rpc, ioCnt, fops, main>>

\* Mutant of JoinInput: the handle is dropped, which detaches the thread.
JoinInputDetaches(i) ==
  /\ main = "joinInputs" /\ slot[i] = "joining"
  /\ slot' = [slot EXCEPT ![i] = "joined"]
  /\ UNCHANGED <<chan, rpc, ioCnt, fops, main>>

\* The reader's thread is joined; join().expect() panics if that one did.
JoinInput(i) ==
  /\ main = "joinInputs" /\ slot[i] = "joining"
  /\ \/ /\ rpc[i] = "ended"
        /\ slot' = [slot EXCEPT ![i] = "joined"]
        /\ UNCHANGED main
     \/ rpc[i] = "dead" /\ main' = "panicked" /\ UNCHANGED slot
  /\ UNCHANGED <<chan, rpc, ioCnt, fops>>

Closed ==
  /\ main = "joinInputs"
  /\ InSlot("held") \cup InSlot("unset") \cup InSlot("joining") = {}
  /\ main' = "closed"
  /\ UNCHANGED <<chan, rpc, slot, ioCnt, fops>>

-----------------------------------------------------------------------------
(* The threads, and what the steps of each leave alone.                    *)

poolStutter == <<inputVars, loopVars, filterVars, outputVars, eventVars, downVars,
                 callerVars, evpc>>
loopStutter == <<panics, wk, spc, smap, snext, inputVars, callerVars>>
callerStutter == <<panics, parallelVars, serialVars, nread, loopVars, filterVars,
                   outputVars, eventVars, downVars, evpc>>
readerStutter == <<parallelVars, serialVars, loopVars, filterVars, outputVars,
                   eventVars, downVars, callerVars, evpc>>

\* The process is over when it aborts, or when the drop itself panics.
Alive == evpc # "aborted" /\ main # "panicked"

Worker(w) ==
  /\ Alive
  /\ WorkerRecv(w) \/ WorkerDone(w)
  /\ UNCHANGED <<serialVars, poolStutter>>
Serial ==
  /\ Alive
  /\ SerialRecv \/ SerialDrain \/ SerialWait
  /\ UNCHANGED <<parallelVars, poolStutter>>
Reader(i) ==
  /\ Alive
  /\ ReaderCheck(i) \/ ReaderRead(i) \/ ReaderFail(i)
  /\ UNCHANGED readerStutter

EventLoop ==
  /\ Alive
  /\ \/ ProcessInput \/ ProcessInputError \/ ProcessSerial
     \/ ProcessStore \/ AnnounceFrames
     \/ ProcessPushFilter \/ UnlinkFiltered \/ ProcessRemoveFilter
     \/ \E id \in FilterIds : ScanFilter(id)
     \/ AnnounceFiltered
     \/ ProcessOutput \/ OutputWrite \/ OutputWriteError \/ OutputFinish
     \/ ProcessClose \/ DropSerial \/ JoinSerial
     \/ DropParallel \/ JoinParallel \/ LoopExit
  /\ UNCHANGED loopStutter

Caller ==
  /\ Alive
  /\ \/ CreateReader \/ CreateWriter \/ CreateFails
     \/ \E i \in Ids : CloseReader(i)
     \/ CallSetFilter \/ DropLoop
  /\ UNCHANGED callerStutter

Drop ==
  /\ Alive
  /\ \/ JoinLoop
     \/ \E i \in Ids : DropInput(i) \/ JoinInput(i)
     \/ Closed
  /\ UNCHANGED callerStutter

Panic ==
  /\ Alive /\ panics < MaxPanics
  /\ \/ \E w \in Workers : WorkerPanic(w) /\ UNCHANGED <<serialVars, poolStutter>>
     \/ SerialPanic /\ UNCHANGED <<parallelVars, poolStutter>>
     \/ \E i \in Ids : ReaderPanic(i) /\ UNCHANGED readerStutter
     \/ PluginPanic

\* The store is gone, or the process is.
Terminated == (main = "closed" \/ ~Alive) /\ UNCHANGED vars

Next ==
  \/ \E w \in Workers : Worker(w)
  \/ Serial
  \/ \E i \in Ids : Reader(i)
  \/ EventLoop
  \/ Caller
  \/ Drop
  \/ Panic
  \/ Terminated

Spec == Init /\ [][Next]_vars

(* Every thread of the process runs on; a reader's read returns in the end, *)
(* if only with nothing.  The user interface need not call anything.        *)
Fairness ==
  /\ WF_vars(EventLoop)
  /\ WF_vars(Serial)
  /\ \A w \in Workers : WF_vars(Worker(w))
  /\ \A i \in Ids : WF_vars(Reader(i))
  /\ WF_vars(Drop)

FairSpec == Spec /\ Fairness
=============================================================================
