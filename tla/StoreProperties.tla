-------------------------- MODULE StoreProperties ---------------------------
(***************************************************************************)
(* What the frame store promises its user interface.                       *)
(***************************************************************************)
EXTENDS Store

ChannelsOK ==
  /\ chan \in Seq(Command)
  /\ pq \in Seq(Seq(Frame))
  /\ sq \in Seq(Seq(Frame))
PoolsOK ==
  /\ wk \in [Workers -> [pc : {"recv", "decode", "ended", "dead"}, frames : Seq(Frame)]]
  /\ \A w \in Workers : wk[w].pc = "decode" => wk[w].frames # <<>>
  /\ spc \in {"recv", "drain", "ended", "dead"}
  /\ DOMAIN smap \subseteq Nat
  /\ \A k \in DOMAIN smap : smap[k] \in Batch
  /\ snext \in Nat
ReadersOK ==
  /\ rpc \in [Ids -> {"none", "check", "read", "ended", "dead"}]
  /\ slot \in [Ids -> {"free", "held", "unset", "joining", "joined"}]
  /\ nread \in [Ids -> Nat]
FramesOK ==
  /\ cnt \in Nat
  /\ accepted \in Seq(Frame)
  /\ stored \in Seq(Frame)
ViewsOK ==
  /\ filterMap \in [FilterIds -> [filter : Filters \cup {NoFilter}, offset : Nat]]
  /\ DOMAIN filtered = FilterIds /\ DOMAIN fannounced = FilterIds /\ DOMAIN file = Ids
  /\ todo \subseteq FilterIds
  /\ cur \in FilterIds \cup {NoId}
  /\ out \in [id : Ids \cup {0}, filter : Filters \cup {NoFilter}, offset : Nat]
ControlOK ==
  /\ panics \in Nat /\ errors \in Nat /\ announced \in Nat
  /\ done \in [Ids -> Seq({"ok", "err"})]
  /\ joined \in 0..Concurrency
  /\ unwinding \in BOOLEAN
  /\ ioCnt \in 0..MaxIo /\ fops \in 0..MaxFilterOps
  /\ main \in {"running", "joinLoop", "joinInputs", "closed", "panicked"}
  /\ evpc \in {"loop", "announce", "unlink", "announceFiltered", "output", "dropSerial",
               "joinSerial", "dropParallel", "joinParallel", "ended", "aborted"}
  /\ evpc = "output" => out.id \in Ids
  /\ evpc \in {"unlink", "announceFiltered"} => cur \in FilterIds
\* The shape of the variables, the messages in the channels included.  What the
\* filters and writers are given is the subject of FilteredExact and
\* OutputComplete.
TypeOK ==
  ChannelsOK /\ PoolsOK /\ ReadersOK /\ FramesOK /\ ViewsOK /\ ControlOK

\* The frames a reader of the store sees are the frames that were numbered, in
\* that order and without a gap, whatever order the parallel threads return
\* their batches in: frame k of the store has index k - 1.
StoredInOrder ==
  /\ Len(stored) <= Len(accepted)
  /\ \A k \in DOMAIN stored : stored[k] = accepted[k] /\ stored[k].index = k - 1

\* A batch holds consecutive frames, as they were numbered in the log.
Consecutive(log, batch) ==
  \A k \in DOMAIN batch :
    /\ batch[k].index = First(batch) + k - 1
    /\ batch[k].index < Len(log)
    /\ batch[k] = log[batch[k].index + 1]

\* Wherever a batch is, process_input made it, and the map of the serial thread
\* keeps it under its first index.
BatchesConsecutive ==
  /\ cnt = Len(accepted)
  /\ \A k \in DOMAIN accepted : accepted[k].index = k - 1
  /\ \A k \in DOMAIN pq : Consecutive(accepted, pq[k])
  /\ \A w \in Workers : Consecutive(accepted, wk[w].frames)
  /\ \A k \in DOMAIN chan :
       chan[k].op \in {"PushSerialFrames", "StoreFrames"}
         => Consecutive(accepted, chan[k].frames)
  /\ \A k \in DOMAIN sq : Consecutive(accepted, sq[k])
  /\ \A k \in DOMAIN smap : Consecutive(accepted, smap[k]) /\ First(smap[k]) = k

\* The batches the serial thread has handed over and the event loop has not
\* stored: the first continues the store, each starts where one before it ends,
\* and the last ends where the thread's next batch has to start, unless that
\* thread panicked.  When the event loop ends it drops them all.
Handed(c) == {p \in DOMAIN c : c[p].op = "StoreFrames"}
Handover(c, len, next, live) ==
  /\ \A p \in Handed(c) :
       \/ First(c[p].frames) = len
       \/ \E q \in Handed(c) : q < p /\ Final(c[q].frames) + 1 = First(c[p].frames)
  /\ \A p, q \in Handed(c) : p < q => First(c[p].frames) < First(c[q].frames)
  /\ \A p \in Handed(c) : Final(c[p].frames) < next
  /\ live => \/ next = len
             \/ \E p \in Handed(c) : Final(c[p].frames) + 1 = next
SerialHandover ==
  evpc # "ended" => Handover(chan, Len(stored), snext, spc # "dead")

\* The inductive strengthening of StoredInOrder.
OrderInv == TypeOK /\ BatchesConsecutive /\ SerialHandover /\ StoredInOrder

\* The places of the program that can hold a frame.
Containers ==
  {<<"stored", 0, stored>>}
    \cup {<<"chan", k, chan[k].frames>> :
            k \in {j \in DOMAIN chan : chan[j].op \in {"PushSerialFrames", "StoreFrames"}}}
    \cup {<<"pq", k, pq[k]>> : k \in DOMAIN pq}
    \cup {<<"wk", w, wk[w].frames>> : w \in Workers}
    \cup {<<"sq", k, sq[k]>> : k \in DOMAIN sq}
    \cup {<<"smap", k, smap[k]>> : k \in DOMAIN smap}
Holding(containers, index) ==
  {c \in containers : \E k \in DOMAIN c[3] : c[3][k].index = index}

\* Where nothing may drop a frame, as long as no plug-in panicked: nowhere until
\* the serial thread ends, which happens in the shutdown and takes what it holds
\* back with it; from then on where the frame's turn had come, until the event
\* loop ends, which takes what it has not stored.
Kept(index) ==
  /\ panics = 0 /\ evpc # "ended"
  /\ spc = "ended" => index < snext

\* A numbered frame is never in two places, and it is in one as long as it must be
\* kept: no channel, pool or map drops it, and the shutdown drops only frames that
\* wait for one that has not reached the serial thread, and in the end those
\* that have not reached the store.
NothingLost ==
  LET containers == Containers
  IN \A index \in 0..cnt - 1 :
       LET places == Cardinality(Holding(containers, index))
       IN places <= 1 /\ (Kept(index) => places = 1)

\* The frames of one reader are numbered in the order the reader returned them,
\* with none missing before one that is numbered.
ReaderOrder ==
  \A k \in DOMAIN accepted :
    accepted[k].seq = Cardinality({j \in 1..k : accepted[j].src = accepted[k].src})

\* A length the user interface was told is backed by as many frames, or by as
\* many indices while the filter is set; and between two commands it has been
\* told everything.  The callback of set_filter must run before the indices go.
AnnouncedBacked ==
  /\ announced <= Len(stored)
  /\ \A id \in Active(filterMap) : fannounced[id] <= Len(filtered[id])
  /\ evpc = "loop" =>
       /\ announced = Len(stored)
       /\ \A id \in Active(filterMap) : fannounced[id] = Len(filtered[id])

\* The indices kept under a filter are those of exactly the matching frames, in
\* order and once each, among the frames scanned so far, and between two
\* commands that is all frames; without a filter there are none.
FilteredExact ==
  /\ \A id \in FilterIds :
       LET ctx == filterMap[id]
       IN IF id \notin Active(filterMap)
          THEN filtered[id] = <<>>
          ELSE \/ evpc = "unlink" /\ cur = id
               \/ filtered[id] = Indices(Selected(SubSeq(stored, 1, ctx.offset), ctx.filter))
  /\ evpc = "loop" =>
       \A id \in Active(filterMap) \ todo : filterMap[id].offset = Len(stored)

\* A reader or writer completes at most once, and a reader only after every
\* layer it returned has been numbered.
CompletionLast ==
  \A i \in Ids :
    /\ Len(done[i]) <= 1
    /\ done[i] # <<>> => nread[i] = Cardinality({k \in DOMAIN accepted : accepted[k].src = i})

\* When the drop of the store returns, every thread it started has ended, but
\* for the threads of a pool one of whose threads panicked.
ThreadsJoined ==
  main = "closed" =>
    /\ evpc = "ended"
    /\ spc \in {"ended", "dead"}
    /\ \A i \in Ids : rpc[i] \in {"none", "ended"}
    /\ panics = 0 => \A w \in Workers : wk[w].pc = "ended"

\* A store that was closed has reported a panic of its threads exactly once, and
\* only if there was one.
PanicReported ==
  main = "closed" => errors = IF panics > 0 THEN 1 ELSE 0

\* One panic of a decoder, a filter or a writer does not take the process down:
\* that needs a second one while the first unwinds, or a reader that panicked.
OnePanicSurvived ==
  ~Alive => panics >= 2 \/ \E i \in Ids : rpc[i] = "dead"

\* When a writer is told "ok", it was given every matching frame of the store;
\* when it is told an error, some matching frames from the start.
OutputComplete ==
  [][\A i \in Ids :
       done'[i] # done[i] /\ evpc = "output" =>
         LET selection == Selected(stored, out.filter)
         IN /\ i = out.id
            /\ file'[i] = SubSeq(selection, 1, Len(file'[i]))
            /\ done'[i] = <<"ok">> => file'[i] = selection]_vars

\* The store implements the log of numbered frames.
Log == INSTANCE FrameLog WITH log <- stored
LogSpec == Log!Spec

-----------------------------------------------------------------------------
(* Liveness, under the fairness of Store.                                  *)

\* Every layer a reader returned ends up in the store, unless the store is
\* closed or a plug-in panicked.
EveryLayerStored ==
  \A i \in Ids : \A n \in 1..MaxRead(i) :
    nread[i] >= n ~> \/ \E k \in DOMAIN stored : stored[k].src = i /\ stored[k].seq = n
                     \/ main # "running" \/ panics > 0

\* A reader that was closed stops reading.
ReleasedReaderEnds ==
  \A i \in Ids : slot[i] = "unset" ~> rpc[i] \in {"ended", "dead"} \/ ~Alive

\* Every writer gets its answer, also when the store is closed behind it.
WriterAnswered ==
  \A i \in Ids :
    (\E k \in DOMAIN chan : chan[k].op = "PushOutput" /\ chan[k].id = i)
      ~> done[i] # <<>> \/ panics > 0

\* Dropping the store returns: no thread waits for one that waits for it.
ShutdownCompletes == main = "joinLoop" ~> main = "closed" \/ ~Alive

\* CHANGELOG.md:57 "Show thread panic to the gui notification instead of
\* stdout": a panic on a thread of the store is reported while the store runs.
PanicShown == panics > 0 ~> errors > 0 \/ main # "running"
=============================================================================
