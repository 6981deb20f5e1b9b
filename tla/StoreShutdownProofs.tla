------------------------- MODULE StoreShutdownProofs -------------------------
(***************************************************************************)
(* The end of the store: which threads have ended when the drop returns,   *)
(* what is reported of a panic, and what a panic may take down.            *)
(*                                                                         *)
(* The argument counts.  A panic is remembered where it happened, by a     *)
(* dead thread or by the event loop that unwinds (PanicsCounted); and the  *)
(* drops run in one order, each join leaving an ended thread behind or     *)
(* starting to unwind (JoinedInTurn).                                      *)
(***************************************************************************)
EXTENDS StoreOrderProofs

DeadWorker == \E w \in Workers : wk[w].pc = "dead"
DeadReader == \E i \in Ids : rpc[i] = "dead"

\* The steps of the event loop before it ends, and the steps of its drops.
Looping == {"loop", "announce", "unlink", "announceFiltered", "output"}
Dropping == {"dropSerial", "joinSerial", "dropParallel", "joinParallel", "ended", "aborted"}

\* The event loop has joins before it that a dead thread makes panic: of the
\* parallel pool, and of the serial thread.
ParallelToJoin ==
  evpc \in {"dropSerial", "joinSerial", "dropParallel"} \/ (evpc = "joinParallel" /\ joined > 0)
SerialToJoin == evpc \in {"dropSerial", "joinSerial"}

PanicsCounted ==
  /\ unwinding \/ spc = "dead" \/ DeadWorker => panics >= 1
  /\ panics >= 1 => unwinding \/ spc = "dead" \/ DeadWorker \/ DeadReader
  /\ unwinding => evpc \in Dropping
  /\ DeadWorker /\ spc = "dead" => panics >= 2
  /\ DeadWorker /\ unwinding /\ ParallelToJoin => panics >= 2
  /\ spc = "dead" /\ unwinding /\ SerialToJoin => panics >= 2
  /\ evpc = "aborted" => panics >= 2
  /\ main = "panicked" => DeadReader

LoopJoins ==
  /\ main \in {"joinInputs", "closed", "panicked"} => evpc = "ended"
  /\ evpc \in {"dropParallel", "joinParallel", "ended"} =>
       spc = "ended" \/ (spc = "dead" /\ unwinding)
  /\ evpc \in {"joinParallel", "ended"} =>
       unwinding \/ \A w \in Workers : w > joined => wk[w].pc = "ended"
  /\ evpc = "ended" => joined = 0
  /\ errors = IF evpc = "ended" /\ unwinding THEN 1 ELSE 0
InputJoins ==
  \A i \in Ids :
    /\ i > ioCnt => slot[i] = "free"
    /\ slot[i] = "free" <=> rpc[i] = "none"
    /\ slot[i] = "joined" => rpc[i] = "ended"
    /\ main = "closed" => slot[i] \in {"free", "joined"}
JoinedInTurn == LoopJoins /\ InputJoins

\* The inductive strengthening of ThreadsJoined, PanicReported and
\* OnePanicSurvived.
ShutdownInv == TypeOK /\ PanicsCounted /\ JoinedInTurn

-----------------------------------------------------------------------------

LEMMA InitShutdown == Init => ShutdownInv
<1> SUFFICES ASSUME Init PROVE ShutdownInv
  OBVIOUS
<1>1. TypeOK
  BY InitType
<1>2. PanicsCounted
  BY DEF Init, ParallelInit, SerialInit, InputsInit, Waiting, PanicsCounted, DeadWorker, DeadReader
<1>3. JoinedInTurn
  BY DEF Init, SerialInit, InputsInit, JoinedInTurn, LoopJoins, InputJoins
<1> QED
  BY <1>1, <1>2, <1>3 DEF ShutdownInv

\* A thread of the parallel pool takes a batch, ends, or sends its batch on.
LEMMA WorkerShutdown ==
  ASSUME ShutdownInv, NEW w \in Workers, Worker(w)
  PROVE  ShutdownInv'
<1>1. /\ TypeOK /\ TypeOK'
      /\ UNCHANGED <<panics, spc, rpc, slot, main, evpc, joined, unwinding, errors,
                     ioCnt>>
  BY WorkerType DEF ShutdownInv, Worker, WorkerRecv, WorkerDone, serialVars, poolStutter,
     inputVars, downVars, callerVars
<1>2. \A v \in Workers : /\ wk'[v].pc = "dead" <=> wk[v].pc = "dead"
                         /\ wk[v].pc = "ended" => wk'[v].pc = "ended"
  <2>1. CASE WorkerRecv(w)
    BY <1>1, <2>1 DEF WorkerRecv, Returned, Working, TypeOK, PoolsOK
  <2>2. CASE WorkerDone(w)
    BY <1>1, <2>2 DEF WorkerDone, Waiting, TypeOK, PoolsOK
  <2> QED
    BY <2>1, <2>2 DEF Worker
<1>3. PanicsCounted'
  BY <1>1, <1>2 DEF ShutdownInv, PanicsCounted, DeadWorker, DeadReader, ParallelToJoin,
     SerialToJoin
<1>4. JoinedInTurn'
  BY <1>1, <1>2 DEF ShutdownInv, JoinedInTurn, LoopJoins, InputJoins
<1> QED
  BY <1>1, <1>3, <1>4 DEF ShutdownInv

\* The thread of the serial pool; it does nothing more once it has ended.
LEMMA SerialShutdown ==
  ASSUME ShutdownInv, Serial
  PROVE  ShutdownInv'
<1>1. /\ TypeOK'
      /\ UNCHANGED <<panics, wk, rpc, slot, main, evpc, joined, unwinding, errors,
                     ioCnt>>
  BY SerialType DEF ShutdownInv, Serial, SerialRecv, SerialDrain, SerialWait, parallelVars,
     poolStutter, inputVars, downVars, callerVars
<1>2. spc \in {"recv", "drain"} /\ spc' # "dead"
  BY DEF Serial, SerialRecv, SerialDrain, SerialWait
<1>3. PanicsCounted'
  BY <1>1, <1>2 DEF ShutdownInv, PanicsCounted, DeadWorker, DeadReader, ParallelToJoin,
     SerialToJoin
<1>4. JoinedInTurn'
  BY <1>1, <1>2 DEF ShutdownInv, JoinedInTurn, LoopJoins, InputJoins
<1> QED
  BY <1>1, <1>3, <1>4 DEF ShutdownInv

\* A reader's thread goes on or ends.
LEMMA ReaderShutdown ==
  ASSUME ShutdownInv, NEW i \in Ids, Reader(i)
  PROVE  ShutdownInv'
<1>1. /\ TypeOK /\ TypeOK'
      /\ UNCHANGED <<panics, wk, spc, slot, main, evpc, joined, unwinding, errors,
                     ioCnt>>
  BY ReaderType DEF ShutdownInv, Reader, ReaderCheck, ReaderRead, ReaderFail, readerStutter,
     parallelVars, serialVars, downVars, callerVars
<1>2. \A j \in Ids : /\ rpc'[j] = "dead" <=> rpc[j] = "dead"
                     /\ rpc'[j] = "none" <=> rpc[j] = "none"
                     /\ rpc[j] = "ended" => rpc'[j] = "ended"
  BY <1>1 DEF Reader, ReaderCheck, ReaderRead, ReaderFail, TypeOK, ReadersOK
<1>3. PanicsCounted'
  BY <1>1, <1>2 DEF ShutdownInv, PanicsCounted, DeadWorker, DeadReader, ParallelToJoin,
     SerialToJoin
<1>4. JoinedInTurn'
  BY <1>1, <1>2 DEF ShutdownInv, JoinedInTurn, LoopJoins, InputJoins
<1> QED
  BY <1>1, <1>3, <1>4 DEF ShutdownInv

-----------------------------------------------------------------------------
(* The event loop.                                                         *)

\* Up to the moment it starts to drop its pools nothing is joined.
LEMMA LoopingShutdown ==
  ASSUME ShutdownInv, TypeOK',
         UNCHANGED <<panics, wk, spc, rpc, slot, main, joined, unwinding, errors, ioCnt>>,
         evpc \in Looping, evpc' \in Looping \cup {"dropSerial"}
  PROVE  ShutdownInv'
<1>1. ~unwinding
  BY DEF ShutdownInv, PanicsCounted, Looping, Dropping
<1>2. PanicsCounted'
  BY <1>1 DEF ShutdownInv, PanicsCounted, DeadWorker, DeadReader, Looping
<1>3. JoinedInTurn'
  BY DEF ShutdownInv, JoinedInTurn, LoopJoins, InputJoins, Looping
<1> QED
  BY <1>2, <1>3 DEF ShutdownInv

\* The drops, one after the other.
LEMMA DroppingShutdown ==
  ASSUME ShutdownInv, TypeOK', UNCHANGED loopStutter,
         DropSerial \/ JoinSerial \/ DropParallel \/ JoinParallel \/ LoopExit
  PROVE  ShutdownInv'
<1>1. UNCHANGED <<panics, wk, spc, rpc, slot, main, ioCnt>> /\ TypeOK
  BY DEF loopStutter, inputVars, callerVars, ShutdownInv
<1>2. /\ joined \in Int /\ joined' \in Int /\ panics \in Int /\ errors \in Int
      /\ unwinding \in BOOLEAN /\ unwinding' \in BOOLEAN
  BY <1>1 DEF TypeOK, ControlOK
<1>3. InputJoins' /\ main \notin {"joinInputs", "closed", "panicked"}
  BY <1>1 DEF ShutdownInv, JoinedInTurn, LoopJoins, InputJoins, DropSerial, JoinSerial,
     DropParallel, JoinParallel, LoopExit
<1> DEFINE Rest == /\ DeadWorker <=> DeadWorker'
                   /\ DeadReader <=> DeadReader'
<1>4. Rest
  BY <1>1 DEF DeadWorker, DeadReader
<1> HIDE DEF Rest
<1>5. CASE DropSerial
  <2>1. PanicsCounted'
    BY <1>1, <1>4, <1>5 DEF Rest, ShutdownInv, PanicsCounted, ParallelToJoin, SerialToJoin,
       DropSerial, downVars, Dropping
  <2>2. LoopJoins'
    BY <1>1, <1>3, <1>5 DEF ShutdownInv, JoinedInTurn, LoopJoins, DropSerial, downVars
  <2> QED
    BY <1>3, <2>1, <2>2 DEF ShutdownInv, JoinedInTurn
<1>6. CASE JoinSerial
  <2>1. PanicsCounted'
    BY <1>1, <1>2, <1>4, <1>6 DEF Rest, ShutdownInv, PanicsCounted, ParallelToJoin,
       SerialToJoin, JoinSerial, JoinPanics, Dropping
  <2>2. LoopJoins'
    BY <1>1, <1>3, <1>6 DEF ShutdownInv, JoinedInTurn, LoopJoins, JoinSerial, JoinPanics
  <2> QED
    BY <1>3, <2>1, <2>2 DEF ShutdownInv, JoinedInTurn
<1>7. CASE DropParallel
  <2>1. PanicsCounted'
    BY <1>1, <1>4, <1>7 DEF Rest, ShutdownInv, PanicsCounted, ParallelToJoin, SerialToJoin,
       DropParallel, Dropping
  <2>2. \A w \in Workers : ~(w > joined')
    BY <1>7, ConcurrencyAssumption DEF DropParallel, Workers
  <2>3. LoopJoins'
    BY <1>1, <1>3, <1>7, <2>2 DEF ShutdownInv, JoinedInTurn, LoopJoins, DropParallel
  <2> QED
    BY <1>3, <2>1, <2>3 DEF ShutdownInv, JoinedInTurn
<1>8. CASE JoinParallel
  <2>1. joined \in Workers
    BY <1>1, <1>2, <1>8, ConcurrencyAssumption DEF JoinParallel, TypeOK, ControlOK, Workers
  <2>2. CASE /\ wk[joined].pc = "ended" /\ joined' = joined - 1
             /\ UNCHANGED <<evpc, unwinding>>
    <3>1. PanicsCounted'
      BY <1>1, <1>2, <1>4, <1>8, <2>2 DEF Rest, ShutdownInv, PanicsCounted, ParallelToJoin,
         SerialToJoin, JoinParallel
    <3>2. \A w \in Workers : w > joined' => w = joined \/ w > joined
      BY <1>2, <2>2 DEF Workers
    <3>3. LoopJoins'
      BY <1>1, <1>3, <1>8, <2>2, <3>2 DEF ShutdownInv, JoinedInTurn, LoopJoins, JoinParallel
    <3> QED
      BY <1>3, <3>1, <3>3 DEF ShutdownInv, JoinedInTurn
  <2>3. CASE wk[joined].pc = "dead" /\ joined' = 0 /\ JoinPanics("joinParallel")
    <3>1. DeadWorker
      BY <2>1, <2>3 DEF DeadWorker
    <3>2. PanicsCounted'
      BY <1>1, <1>2, <1>4, <1>8, <2>3, <3>1 DEF Rest, ShutdownInv, PanicsCounted,
         ParallelToJoin, SerialToJoin, JoinParallel, JoinPanics, Dropping
    <3>3. LoopJoins'
      BY <1>1, <1>3, <1>8, <2>3 DEF ShutdownInv, JoinedInTurn, LoopJoins, JoinParallel,
         JoinPanics
    <3> QED
      BY <1>3, <3>2, <3>3 DEF ShutdownInv, JoinedInTurn
  <2> QED
    BY <1>8, <2>2, <2>3 DEF JoinParallel
<1>9. CASE LoopExit
  <2>1. PanicsCounted'
    BY <1>1, <1>4, <1>9 DEF Rest, ShutdownInv, PanicsCounted, ParallelToJoin, SerialToJoin,
       LoopExit, Dropping
  <2>2. LoopJoins'
    BY <1>1, <1>2, <1>3, <1>9 DEF ShutdownInv, JoinedInTurn, LoopJoins, LoopExit
  <2> QED
    BY <1>3, <2>1, <2>2 DEF ShutdownInv, JoinedInTurn
<1> QED
  BY <1>5, <1>6, <1>7, <1>8, <1>9

LEMMA EventLoopShutdown ==
  ASSUME ShutdownInv, EventLoop
  PROVE  ShutdownInv'
<1>1. TypeOK' /\ UNCHANGED loopStutter /\ UNCHANGED <<panics, wk, spc, rpc, slot, main, ioCnt>>
  BY EventLoopType DEF ShutdownInv, EventLoop, loopStutter, inputVars, callerVars
<1>2. CASE DropSerial \/ JoinSerial \/ DropParallel \/ JoinParallel \/ LoopExit
  BY <1>1, <1>2, DroppingShutdown
<1>3. ASSUME UNCHANGED downVars, evpc \in Looping, evpc' \in Looping \cup {"dropSerial"}
      PROVE  ShutdownInv'
  BY <1>1, <1>3, LoopingShutdown DEF downVars
<1>4. CASE \/ ProcessInput \/ ProcessInputError \/ ProcessSerial \/ ProcessStore
           \/ ProcessPushFilter \/ ProcessRemoveFilter \/ ProcessOutput \/ ProcessClose
  BY <1>3, <1>4 DEF ProcessInput, ProcessInputError, ProcessSerial, ProcessStore,
     ProcessPushFilter, ProcessRemoveFilter, ProcessOutput, ProcessClose, Received,
     FiltersDue, Looping
<1>5. CASE \/ AnnounceFrames \/ UnlinkFiltered \/ AnnounceFiltered
           \/ OutputWrite \/ OutputWriteError \/ OutputFinish
  BY <1>3, <1>5 DEF AnnounceFrames, UnlinkFiltered, AnnounceFiltered, OutputWrite,
     OutputWriteError, OutputFinish, Finished, FiltersDue, Looping
<1>6. ASSUME NEW id \in FilterIds, ScanFilter(id)
      PROVE  ShutdownInv'
  BY <1>3, <1>6 DEF ScanFilter, Looping
<1> QED
  BY <1>2, <1>4, <1>5, <1>6 DEF EventLoop

-----------------------------------------------------------------------------
(* The session, panics, and the whole program.                             *)

LEMMA CallerShutdown ==
  ASSUME ShutdownInv, Caller
  PROVE  ShutdownInv'
<1>1. /\ TypeOK /\ TypeOK'
      /\ UNCHANGED <<panics, wk, spc, evpc, joined, unwinding, errors>>
  BY CallerType DEF ShutdownInv, Caller, callerStutter, parallelVars, serialVars, downVars
<1>2. main = "running" /\ main' \in {"running", "joinLoop"}
  BY DEF Caller, CreateReader, CreateWriter, CreateFails, CloseReader, CallSetFilter, DropLoop
<1>3. ASSUME /\ \A i \in Ids : /\ slot'[i] = "free" <=> rpc'[i] = "none"
                               /\ i > ioCnt' => slot'[i] = "free"
                               /\ rpc[i] = "dead" => rpc'[i] = "dead"
                               /\ slot'[i] = "joined" => rpc'[i] = "ended"
      PROVE  ShutdownInv'
  <2>1. PanicsCounted'
    BY <1>1, <1>2, <1>3 DEF ShutdownInv, PanicsCounted, DeadWorker, DeadReader,
       ParallelToJoin, SerialToJoin
  <2>2. JoinedInTurn'
    BY <1>1, <1>2, <1>3 DEF ShutdownInv, JoinedInTurn, LoopJoins, InputJoins
  <2> QED
    BY <1>1, <2>1, <2>2 DEF ShutdownInv
<1>4. ioCnt \in Int /\ rpc \in [Ids -> {"none", "check", "read", "ended", "dead"}]
      /\ slot \in [Ids -> {"free", "held", "unset", "joining", "joined"}]
  BY <1>1 DEF TypeOK, ControlOK, ReadersOK
<1>5. InputJoins
  BY DEF ShutdownInv, JoinedInTurn
<1>6. CASE CreateReader
  BY <1>3, <1>4, <1>5, <1>6 DEF CreateReader, InputJoins, Ids
<1>7. CASE CreateWriter \/ CreateFails \/ CallSetFilter \/ DropLoop
  <2>1. UNCHANGED <<rpc, slot>> /\ ioCnt' >= ioCnt
    BY <1>4, <1>7 DEF CreateWriter, CreateFails, CallSetFilter, DropLoop
  <2>2. \A i \in Ids : i > ioCnt' => i > ioCnt
    BY <1>1, <1>4, <2>1 DEF Ids, TypeOK, ControlOK
  <2> QED
    BY <1>3, <1>5, <2>1, <2>2 DEF InputJoins
<1>8. ASSUME NEW i \in Ids, CloseReader(i)
      PROVE  ShutdownInv'
  BY <1>3, <1>4, <1>5, <1>8 DEF CloseReader, InputJoins
<1> QED
  BY <1>6, <1>7, <1>8 DEF Caller

LEMMA DropShutdown ==
  ASSUME ShutdownInv, Drop
  PROVE  ShutdownInv'
<1>1. /\ TypeOK /\ TypeOK'
      /\ UNCHANGED <<panics, wk, spc, rpc, evpc, joined, unwinding, errors, ioCnt>>
  BY DropType DEF ShutdownInv, Drop, JoinLoop, DropInput, JoinInput, Closed, callerStutter,
     parallelVars, serialVars, downVars
<1>2. slot \in [Ids -> {"free", "held", "unset", "joining", "joined"}]
  BY <1>1 DEF TypeOK, ReadersOK
<1>3. ASSUME main' = "panicked" => DeadReader,
             main' \in {"joinInputs", "closed", "panicked"} => evpc = "ended",
             InputJoins'
      PROVE  ShutdownInv'
  <2>1. PanicsCounted'
    BY <1>1, <1>3 DEF ShutdownInv, PanicsCounted, DeadWorker, DeadReader, ParallelToJoin,
       SerialToJoin
  <2>2. LoopJoins'
    BY <1>1, <1>3 DEF ShutdownInv, JoinedInTurn, LoopJoins
  <2> QED
    BY <1>1, <1>3, <2>1, <2>2 DEF ShutdownInv, JoinedInTurn
<1>4. InputJoins /\ (main = "joinInputs" => evpc = "ended")
  BY DEF ShutdownInv, JoinedInTurn, LoopJoins
<1>5. CASE JoinLoop
  BY <1>1, <1>3, <1>4, <1>5 DEF JoinLoop, InputJoins
<1>6. ASSUME NEW i \in Ids, DropInput(i)
      PROVE  ShutdownInv'
  <2>1. slot[i] # "free" /\ slot' = [slot EXCEPT ![i] = "joining"] /\ UNCHANGED main
        /\ main = "joinInputs"
    BY <1>6 DEF DropInput, InSlot
  <2>2. InputJoins'
    BY <1>1, <1>2, <1>4, <2>1 DEF InputJoins
  <2> QED
    BY <1>3, <1>4, <2>1, <2>2
<1>7. ASSUME NEW i \in Ids, JoinInput(i)
      PROVE  ShutdownInv'
  <2>1. main = "joinInputs" /\ main' # "closed"
    BY <1>7 DEF JoinInput
  <2>2. InputJoins'
    BY <1>1, <1>2, <1>4, <1>7, <2>1 DEF InputJoins, JoinInput
  <2>3. main' = "panicked" => DeadReader
    BY <1>7, <2>1 DEF JoinInput, DeadReader
  <2> QED
    BY <1>3, <1>4, <2>1, <2>2, <2>3
<1>8. CASE Closed
  <2>1. UNCHANGED slot /\ main = "joinInputs" /\ main' = "closed"
    BY <1>8 DEF Closed
  <2>2. \A i \in Ids : slot[i] \in {"free", "joined"}
    BY <1>2, <1>8 DEF Closed, InSlot
  <2>3. InputJoins'
    BY <1>1, <1>4, <2>1, <2>2 DEF InputJoins
  <2> QED
    BY <1>3, <1>4, <2>1, <2>3
<1> QED
  BY <1>5, <1>6, <1>7, <1>8 DEF Drop

LEMMA PanicShutdown ==
  ASSUME ShutdownInv, Panic
  PROVE  ShutdownInv'
<1>1. TypeOK' /\ TypeOK /\ PanicsCounted /\ JoinedInTurn
  BY PanicType DEF ShutdownInv
<1>2. panics \in Nat /\ unwinding \in BOOLEAN
  BY <1>1 DEF TypeOK, ControlOK
<1>3. ASSUME NEW w \in Workers, WorkerPanic(w), UNCHANGED <<serialVars, poolStutter>>
      PROVE  ShutdownInv'
  <2>1. /\ panics' = panics + 1 /\ wk[w].pc = "decode" /\ wk'[w].pc = "dead"
        /\ \A v \in Workers : v # w => wk'[v] = wk[v]
        /\ UNCHANGED <<spc, rpc, slot, main, evpc, joined, unwinding, errors, ioCnt>>
    BY <1>1, <1>3 DEF WorkerPanic, Panicked, serialVars, poolStutter, inputVars, downVars,
       callerVars, TypeOK, PoolsOK
  <2>2. PanicsCounted'
    <3>1. DeadWorker' /\ (DeadReader <=> DeadReader')
      BY <2>1 DEF DeadWorker, DeadReader
    <3> QED
      BY <1>1, <1>2, <2>1, <3>1 DEF PanicsCounted
  <2>3. JoinedInTurn'
    BY <1>1, <2>1 DEF JoinedInTurn, LoopJoins, InputJoins
  <2> QED
    BY <1>1, <2>2, <2>3 DEF ShutdownInv
<1>4. ASSUME SerialPanic, UNCHANGED <<parallelVars, poolStutter>>
      PROVE  ShutdownInv'
  <2>1. /\ panics' = panics + 1 /\ spc = "drain" /\ spc' = "dead"
        /\ UNCHANGED <<wk, rpc, slot, main, evpc, joined, unwinding, errors, ioCnt>>
    BY <1>4 DEF SerialPanic, parallelVars, poolStutter, inputVars, downVars, callerVars
  <2>2. PanicsCounted'
    <3>1. (DeadWorker <=> DeadWorker') /\ (DeadReader <=> DeadReader')
      BY <2>1 DEF DeadWorker, DeadReader
    <3> QED
      BY <1>1, <1>2, <2>1, <3>1 DEF PanicsCounted
  <2>3. JoinedInTurn'
    BY <1>1, <2>1 DEF JoinedInTurn, LoopJoins, InputJoins
  <2> QED
    BY <1>1, <2>2, <2>3 DEF ShutdownInv
<1>5. ASSUME NEW i \in Ids, ReaderPanic(i), UNCHANGED readerStutter
      PROVE  ShutdownInv'
  <2>1. /\ panics' = panics + 1 /\ rpc[i] = "read"
        /\ rpc' = [rpc EXCEPT ![i] = "dead"]
        /\ UNCHANGED <<wk, spc, slot, main, evpc, joined, unwinding, errors, ioCnt>>
    BY <1>5 DEF ReaderPanic, readerStutter, parallelVars, serialVars, downVars, callerVars
  <2>2. rpc \in [Ids -> {"none", "check", "read", "ended", "dead"}]
    BY <1>1 DEF TypeOK, ReadersOK
  <2>3. PanicsCounted'
    <3>1. (DeadWorker <=> DeadWorker') /\ DeadReader'
      BY <2>1, <2>2 DEF DeadWorker, DeadReader
    <3> QED
      BY <1>1, <1>2, <2>1, <3>1 DEF PanicsCounted, ParallelToJoin, SerialToJoin
  <2>4. JoinedInTurn'
    BY <1>1, <2>1, <2>2 DEF JoinedInTurn, LoopJoins, InputJoins
  <2> QED
    BY <1>1, <2>3, <2>4 DEF ShutdownInv
<1>6. CASE PluginPanic
  <2>1. /\ panics' = panics + 1 /\ unwinding' = TRUE
        /\ evpc \in {"loop", "output"} /\ evpc' = "dropSerial"
        /\ UNCHANGED <<wk, spc, rpc, slot, main, joined, errors, ioCnt>>
    BY <1>6 DEF PluginPanic, parallelVars, serialVars, inputVars, callerVars
  <2>2. PanicsCounted'
    <3>1. (DeadWorker <=> DeadWorker') /\ (DeadReader <=> DeadReader')
      BY <2>1 DEF DeadWorker, DeadReader
    <3> QED
      BY <1>1, <1>2, <2>1, <3>1 DEF PanicsCounted, Dropping
  <2>3. JoinedInTurn'
    BY <1>1, <2>1 DEF JoinedInTurn, LoopJoins, InputJoins
  <2> QED
    BY <1>1, <2>2, <2>3 DEF ShutdownInv
<1> QED
  BY <1>3, <1>4, <1>5, <1>6 DEF Panic

LEMMA NextShutdown == ShutdownInv /\ [Next]_vars => ShutdownInv'
<1> SUFFICES ASSUME ShutdownInv, [Next]_vars PROVE ShutdownInv'
  OBVIOUS
<1>1. CASE UNCHANGED vars
  <2>1. /\ TypeOK' /\ UNCHANGED <<panics, wk, spc, rpc, slot, main, ioCnt>>
        /\ UNCHANGED <<evpc, joined, unwinding, errors>>
    BY <1>1, StutterType DEF ShutdownInv, vars, parallelVars, serialVars, inputVars, downVars,
       callerVars
  <2>2. PanicsCounted' /\ JoinedInTurn'
    BY <2>1 DEF ShutdownInv, PanicsCounted, DeadWorker, DeadReader, ParallelToJoin,
       SerialToJoin, JoinedInTurn, LoopJoins, InputJoins
  <2> QED
    BY <2>1, <2>2 DEF ShutdownInv
<1>2. CASE Next
  BY <1>1, <1>2, WorkerShutdown, SerialShutdown, ReaderShutdown, EventLoopShutdown,
     CallerShutdown, DropShutdown, PanicShutdown
  DEF Next, Terminated
<1> QED
  BY <1>1, <1>2

\* The conjuncts of ShutdownInv hold throughout.
LEMMA ShutdownKept == Spec => []ShutdownInv
<1> QED
  BY InitShutdown, NextShutdown, PTL DEF Spec

(* When the drop of the store returns, every thread it started has ended,   *)
(* but for threads of the parallel pool after a panic, which are detached.  *)
THEOREM ThreadsAreJoined == Spec => []ThreadsJoined
<1>1. ShutdownInv => ThreadsJoined
  <2> SUFFICES ASSUME ShutdownInv, main = "closed" PROVE ThreadsJoined
    BY DEF ThreadsJoined
  <2>1. panics \in Nat /\ joined \in Nat /\ LoopJoins /\ InputJoins /\ PanicsCounted
    BY DEF ShutdownInv, JoinedInTurn, TypeOK, ControlOK
  <2>2. evpc = "ended" /\ spc \in {"ended", "dead"} /\ joined = 0
    BY <2>1 DEF LoopJoins
  <2>3. \A i \in Ids : rpc[i] \in {"none", "ended"}
    BY <2>1 DEF InputJoins
  <2>4. panics = 0 => \A w \in Workers : wk[w].pc = "ended"
    BY <2>1, <2>2, ConcurrencyAssumption DEF LoopJoins, PanicsCounted, Workers
  <2> QED
    BY <2>2, <2>3, <2>4 DEF ThreadsJoined
<1> QED
  BY ShutdownKept, <1>1, PTL

(* A store that was closed has reported a panic exactly once, and only if   *)
(* there was one, whichever thread it was on.                               *)
THEOREM PanicIsReported == Spec => []PanicReported
<1>1. ShutdownInv => PanicReported
  <2> SUFFICES ASSUME ShutdownInv, main = "closed" PROVE errors = IF panics > 0 THEN 1 ELSE 0
    BY DEF PanicReported
  <2>1. panics \in Nat /\ joined \in Nat /\ LoopJoins /\ InputJoins /\ PanicsCounted
    BY DEF ShutdownInv, JoinedInTurn, TypeOK, ControlOK
  <2>2. evpc = "ended" /\ joined = 0 /\ (spc = "dead" => unwinding)
    BY <2>1 DEF LoopJoins
  <2>3. ~DeadReader
    BY <2>1 DEF InputJoins, DeadReader
  <2>4. DeadWorker => unwinding
    BY <2>1, <2>2, ConcurrencyAssumption DEF LoopJoins, DeadWorker, Workers
  <2>5. panics > 0 <=> unwinding
    BY <2>1, <2>2, <2>3, <2>4 DEF PanicsCounted
  <2> QED
    BY <2>1, <2>2, <2>5 DEF LoopJoins
<1> QED
  BY ShutdownKept, <1>1, PTL

(* The process survives one panic of a decoder, a filter or a writer: it    *)
(* dies of a second one that meets the unwinding of the first, or of a      *)
(* reader's.                                                                *)
THEOREM OnePanicIsSurvived == Spec => []OnePanicSurvived
<1>1. ShutdownInv => OnePanicSurvived
  BY DEF ShutdownInv, PanicsCounted, DeadReader, OnePanicSurvived, Alive
<1> QED
  BY ShutdownKept, <1>1, PTL
=============================================================================
