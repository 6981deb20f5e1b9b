# Verification of genet

genet is a packet analyser: readers of plug-ins produce layers, the kernel
(Rust) numbers and decodes them into frames, filters them and hands them to
writers, and an Electron user interface (TypeScript) shows them.  This
directory models the program in TLA+.  TLC checks the models on small
instances, TLAPS proves the most important properties for every value of the
constants.

It follows a packet from libpcap through the capture process, the decoders, the
frame store and its filters, the queue of events and JavaScript, into a file
and back.  What is left out is listed under "Not modelled".

## Inventory

| component | source (under `src/`) | state | operations | what makes it correct |
|---|---|---|---|---|
| Frame store, event loop | `genet-kernel/src/store.rs` | `cnt`, `filter_map`, the shared `frames` and `filtered` | the commands PushFrames, PushSerialFrames, StoreFrames, SetFilter, PushOutput, Close; Drop | frames in order and without a gap, none lost before the shutdown; exact filters; honest announcements; complete outputs; a clean shutdown |
| Parallel pool | `genet-kernel/src/decoder/parallel.rs` | a shared channel, one thread per `concurrency` | process, Drop | every batch returned once; all threads joined |
| Serial pool | `genet-kernel/src/decoder/serial.rs` | a channel, `map`, `next` | process, Drop | batches leave in the order of their indices |
| Input threads | `genet-kernel/src/store.rs` (`set_input`, `unset_input`, `InputContext`) | a `Weak` sender, the `Arc` in `inputs` or none in `inputs_trash` | read, stop, join | the order of the reader kept; ends after it was closed; its end told after its layers |
| Session | `genet-kernel/src/session.rs` | `io_cnt` | create_reader, create_writer, close_reader, set_filter, frames, filtered_frames | ids unique; every reader and writer answered once |
| Node binding | `genet-kernel/src/binding/session.rs`, `genet-napi/src/uv.rs` | `events` under a mutex, a `uv_async` handle | on_event, the callback in JavaScript | no event lost; no deadlock on the mutex |
| JavaScript session | `genet-node/session.js` | status, promises, stream readers | createReader, createWriter, setFilter, close, the event handler | the status agrees with the store; every promise settles |
| Dispatcher, frame tree | `genet-kernel/src/decoder/dispatcher.rs`, `frame.rs`, `session.js` (`treefy`) | layers and child counts of a frame | process_frame, treefy | the tree read back is the tree decoded |
| Display filter | `genet-filter/src/*.rs` | none | parse, eval, `shrink`, `op_cmp` | the comparisons are those of the numbers |
| Decoder ABI | `genet-abi/src/*.rs`, `genet-sdk/src/cast.rs` | none | attributes, casts, layers, variants | a value is made of the bits it highlights; a short packet changes nothing else |
| Protocol decoders | `package/{eth,arp,ipv4,ipv6,tcp,udp,ntp}` | none | decode | header and payload do not overlap; nothing but what the packet has |
| Token registry | `genet-abi/src/env.rs`, `token.rs`, `genet-node/token.js`, `genet-kernel/src/binding/token.rs` | two tables under two locks, a copy in each plug-in, two maps in JavaScript | token, string, load_library | a string has one token and a token one string, for ever |
| Array of frames | `genet-kernel/src/array_vec.rs` | buckets, offsets | push, extend, get | behaves as a sequence |
| TCP stream reassembly | `package/tcp/tcp-stream/src/lib.rs` | per stream: seq, len, the map of slices | decode, put, fetch | offsets agree with the stream |
| Capture, file readers and writers | `package/pcap`, `package/pcap-file`, `package/genet-file` | a child process with its pipe; a file and its buffer | read, write, end | in order, without a gap, whole records only; done means written |
| Package manager | `src/lib/package-manager.ts` | packages, tasks, `updating`, `queued` | update, install, uninstall, enable | one update at a time, none forgotten |
| Settings, workspace | `src/lib/config.ts`, `workspace.ts`, `disposable.ts` | the tree, its listeners | get, set, watch, update | listeners told exactly of changes |
| Frame list | `src/view/display/*.ts` | the range shown, the filter | scroll, reload, filter | indices within the store |
| Views, windows, N-API, the rest of the SDK, gpm, scripts | `src/view`, `genet-napi`, `genet-sdk`, `gpm`, `scripts` | - | I/O, rendering, bindings | - |

How they interact: the session owns the store; the store owns the event
loop's thread and one thread for each reader; the event loop owns both pools.
All threads send commands on one unbounded channel (crossbeam-channel 0.2: a
send never fails or blocks), each pool has a channel of its own.  The event
loop alone writes `frames` and `filtered`; the user interface reads both from
its own thread under their locks, whenever it likes, and learns of their
lengths by callbacks.  The callbacks put events into a queue of the Node
binding, which wakes the JavaScript thread; that handles them while it holds
the queue's mutex.

What is hard: batches overtake each other in the parallel pool; filters are
replaced while frames arrive and while the user interface reads; a reader is
closed inside a read; a writer fails in the middle; the store is dropped while
all threads send to each other; plug-ins panic on any of these threads.
`PROJECT.json` lists the hazards at their lines, with the properties that
cover them; a hazard without one has a note.

## The modules

| module | models | state and actions |
|---|---|---|
| `Pipeline` | frames, `enum Command`, the event loop's channel, what passes a filter (`Found`, `Selected`) | `chan`, `panics` |
| `ParallelPool` | the threads of `parallel.rs` | `pq`, `wk`; WorkerRecv, WorkerDone, WorkerPanic |
| `SerialPool` | the thread of `serial.rs` | `sq`, `spc`, `smap`, `snext`; SerialRecv, SerialDrain (a turn of the inner loop), SerialWait, SerialPanic |
| `Inputs` | the threads of `set_input` | `rpc`, `slot`, `nread`; ReaderCheck (`upgrade`), ReaderRead, ReaderFail, ReaderPanic |
| `Store` | composes the three with the event loop, the session's calls and the drop | see below |
| `FrameLog` | the abstract store: frames are numbered, and a log of them grows | Accept, Publish |
| `StoreProperties` | every property, and the refinement to `FrameLog` | |
| `MCStore` | the instance for TLC | |
| `StoreOrderProofs`, `StoreFlowProofs`, `StoreViewProofs`, `StoreShutdownProofs` | the theorems | |

The rest of the program, one module per component:

| module | models | state and actions |
|---|---|---|
| `Abi` | `genet-abi`, the casts of `genet-sdk` | operators: slices, variants, attributes, layers |
| `Protocols` | the decoders of `package/*` | one operator per decoder: from the layers so far to a result |
| `Dispatcher` | `decoder/dispatcher.rs` | a frame's `layers` and `indices`, the runners; one step is one call of a decoder, first in the parallel worker, then in the serial thread |
| `FrameTree` | `treefy` of `session.js`, on what `Dispatcher` leaves | recursive operators |
| `DisplayFilter` | `genet-filter` | compilation of lexemes, evaluation, comparisons, the unparser |
| `RangeExport` | `output-dialog.ts` (`parseRange`), `createWriter` | `entered`, `result`, `writer`; CreateWriter |
| `FileFormats` | both file formats | what is written, and one read of it |
| `FileExport` | `WorkerOutput`, the two writers, a disk; the two readers | `written`, `disk`, `outcome`; a write, a full disk, a crash, the flush in the drop |
| `Capture` | pcap-cli, its pipe, the reader worker | `queue`, `buffer`, `pipe`, `child`, `thread` |
| `ArrayVec` | `array_vec.rs`, the pointers of `frames()` | `heap`, `buckets`, `length`, `handles`; Push, Frames |
| `EventQueue` | `SessionCallback` and `uv.rs` | `queue`, `locked`, `signal`, `uv`; PushBack, Send, Wake, PopFront, Return, DrainDone |
| `NodeSession` | `binding/session.rs`, the status of `session.js` | `commands`, `filter`, `offset`, `raise`, `status` |
| `TokenRegistry` | `env.rs`, `load_library`, `token.js` | `tokens`, `strings`, their locks, `pc` of each thread |
| `TcpStream` | `package/tcp/tcp-stream` | `streams`, `payloads` |
| `MCDispatcher`, `MCProtocols`, `MCFiles`, `MCNodeSession`, `MCTcpStream` | the instances for TLC | |
| `FilesProofs` (capture, export, array), `NodeSessionProofs`, `TokenProofs`, `DispatcherProofs` | the theorems | |

`MCProtocols` composes `Dispatcher`, `Protocols` and `DisplayFilter`: frames go
through the real dispatcher with the real decoders, then through filters.
`MCFiles` composes `Capture`, `ArrayVec` and `FileExport`: what was captured is
stored, exported, and read again.  `NodeSession` composes the queue with an
event loop reduced to the length of the store and one filter; that reduction
promises what `StoreProperties` shows of the whole store (`AnnouncedBacked`,
`FilteredExact`).

`Store` has one action for each stretch of the event loop between two points
where another thread can see or disturb it: a receive, a lock released, a
callback, a join.  So `Command::StoreFrames` is `ProcessStore` (the write
lock) and then `AnnounceFrames` (the callbacks); `process_push_filter` is
`ProcessPushFilter` (context and callback) and then `UnlinkFiltered` (the
indices go), between which the user interface can look; `process_filters`
is one `ScanFilter` for each turn of its loop, followed by
`AnnounceFiltered` where something was found.  `todo` is the set of filters
the current `process_filters` has not finished: the next command is taken
when it is empty.  The order in which a hash map yields the filters is left
open.  `process_output` holds the read lock, but the panics and errors in it
are steps of their own: `OutputWrite`, `OutputWriteError`, `OutputFinish`.

The drop follows the order of the fields.  `DropLoop` sends Close and
`JoinLoop` waits for the event loop; that drops the serial pool (`DropSerial`,
`JoinSerial`), then the parallel one (`DropParallel`, `JoinParallel`), and
reports a panic (`LoopExit`).  Then the inputs (`DropInput`, `JoinInput`),
those still held before those in `inputs_trash`.

`accepted` is a history variable: the frames numbered so far.  `announced`,
`fannounced`, `done`, `errors` and `file` record what the callbacks and the
writers were given.

### What is abstracted

* A frame is its index and where it came from (reader and serial number);
  what decoders write into it leaves no trace here.  `Matches`, what a filter
  says of a frame, is a constant.
* Compiling a filter, loading plug-ins and creating a worker happen before a
  command is sent; their failure is `CreateFails`.
* The two callbacks of one update (`on_frames_updated`, the asynchronous
  counter next to it) are one step.  The callback with 0 that
  the event loop makes at its start is part of `Init`.
* `set_input` never sends an empty `Ok`, so that branch of `process_input`
  cannot run; it has no action.
* Indices are natural numbers; their wrap as `u32` at the 2^32nd frame is not
  followed.
* A panic out of a plug-in written in Rust unwinds its thread (the SDK and
  the kernel are built with unwinding).  A second panic while the event loop
  unwinds aborts the process, as does a panic of `InputContext::drop` for
  the user interface that called it: `Alive` is false then.
* Channels are external: first in, first out, unbounded; a sender's messages
  arrive while the receiver lives.  A thread that ends drops what it holds and
  its receiver with all that is queued: the serial thread its map (`SerialRecv`),
  the event loop its channel (`LoopExit`), and what is sent to it later nobody
  takes.  (The channel of a pool is empty when its last thread ends; after a panic
  it keeps in the model what nobody will receive.)
* A panic on the event loop's own thread is one of a filter, or of a writer in
  `write` or `end`, which may have written a part before (`PluginPanic`).

* In `FileFormats` a pcap file is a sequence of bytes, a genet file one of pieces
  (a length, a bincode value, a payload), of which a reader can use a whole one
  only.  A 64-bit number is its eight bytes, so that a cast keeps them.
* In `DisplayFilter` a source text is the sequence of its lexemes.  Floats are
  exact and not negative.
* In `TcpStream` the width of a sequence number is 16 bits, not 32.
* In `Capture` packets are assumed to hold no newline byte, which would only flush
  the line buffer earlier.
* In `TokenRegistry` a thread stands between any two of the two locks, the update
  of a table and the copy of the string, which happens after the lock is gone.

## The runs

Constants of the store's runs: `Concurrency` threads, `MaxIo` readers and writers, `FilterIds`,
`Filters` and `Matches`, `FilterChunk` and `OutputChunk` (16 384 and 65 536
in the code, 1 here so that every scan takes several turns).  Bounds: `MaxBatch`
layers a read, `MaxRead` layers a reader, `MaxFilterOps` calls of set_filter,
`MaxPanics` panics.  `Roles` says which of the ids may be readers, writers or
failures.

| run | bounds | question |
|---|---|---|
| `store_pipeline` | 2 threads, 2 readers of 2 and 1 layers, batches of 1 and 2, close and drop at any time | Is any frame doubled, out of order or lost (but for those the shutdown drops); does the store implement `FrameLog`; does the drop leave a thread behind? |
| `store_views` | 1 thread, a reader of 2 layers and a writer, 2 calls of set_filter with 2 filters or none | Does what the user interface is told, and what the writer is given, agree with the store? |
| `store_panics` | 2 threads, a reader, a writer, a call of set_filter, 2 panics of any plug-in | Does one panic take the process down; is it reported at the end? |
| `store_liveness` | 2 threads, a reader, a writer, 1 panic, fairness | Do layers arrive, readers stop, writers get answers, the drop return? |
| `store_panic_shown` | as `store_liveness` | Is a panic reported while the store runs?  It is not. |
| `decode_tree` | tables of five decoders drawn from `RulesOf`: what each accepts, adds and waits for; one is of the second pass and may add layers | Is the tree rebuilt by JavaScript the one the decoders made; was every decoder offered every layer it may get; does the loop end? |
| `protocols` | sixteen frames that go through every decoder and option, with wrong data offsets and lengths of options in TCP and options in IPv4, each cut at every length | Does a cut change anything but the missing bytes; are values made of the bits they highlight; are payloads apart from headers; do filters compare numbers, and does the filter made from an attribute find its frame? |
| `range_export` | every one or two entries with numbers up to 3 | Does the export of a range write that range?  It does not. |
| `files` | three packets of 3, 1 and 2 bytes, a disk of 3, 20, 49 or 1000, a buffer of 6, blocks of 2, files of both byte orders and units | Is a capture delivered in order and in the end, and does it stop; what is read back after a full disk or a crash; is an array across buckets a sequence whose frames never move? |
| `node_session` | 2 frames, 3 calls, filters that pass all, some or no frames, one that does not compile | Is a wake-up ever lost; does the status agree with the store in the end? |
| `tokens` | the main thread, a worker, a plug-in being loaded, 2 names, 2 calls each | One token for a string; its name again; no deadlock? |
| `tcp_stream` | 3 bytes, in segments of 1 to 3 | Is a stream reassembled?  It is not. |

Why this is enough: reordering needs two threads and two batches; three
frames in three batches let one overtake while another is held back, and a
batch of two exercises the distance between a batch's first index and the
next.  A filter that is set, replaced and removed takes two commands after
which the third state is the first again; filters under different ids share
nothing but the order in which they are brought up to date, which
`ScanFilter` leaves open, so one id shows what each id does.  A second panic
matters only while the first unwinds.

For the others: three packets need two buckets of two, so that pushes cross into
a new bucket and the vector of buckets grows while JavaScript holds a pointer
into the first.  A buffer of six fills inside the file's header, between a
record's header and its data, and between records; the rooms stop the disk in
the magic number, in the header and in a record.  A cut after every byte reaches
every bound check of every decoder.  Three calls of setFilter replace a filter,
remove it and set one again, with late events of each before the next; two
frames let a filter pass none, some or all of a block.  Two names asked for by
two threads race for the same number and for the next one; the plug-in adds
tables of its own.  `CountLimit` is the real 256 of the byte that counts children.

Deadlock is checked in the store's runs, in `decode_tree` and in `protocols`,
`range_export` and `tcp_stream`: a state in which everyone waits is an error
unless the store was closed or the process is gone.  The other three really
stop: an export and a reading end, JavaScript makes no more calls than the
bound, threads need no more tokens.  There, liveness properties say what must
not be waited for.

Fairness in the store is weak fairness of every thread (the event loop, the serial thread,
each parallel thread, each reader, and the thread in the drop): the system
schedules each of them, and each blocks only where its action is disabled.  A
read returns in the end, if only with nothing.  No fairness is assumed of the
user interface: it need not create, close or drop anything.  `store_liveness`
says so with its disjuncts (`main # "running"`, `panics > 0`), and
`EveryLayerStored` holds without the reader ever being closed.

`Capture`: weak fairness of the child's loop (its `recv_timeout` returns every
second, with or without a packet) and of the reader's thread.  The network, the
user who stops the capture and a crash need not come.  `NodeSession`: the event
loop works off its commands and filters, libuv turns its loop, the listener
returns.  No frame needs to come and no call.  `TokenRegistry`: a thread that
has begun a call goes on with it.  `MCDispatcher`: the thread goes on.

Each property has a mutant: an operator next to the definition it replaces,
marked `Mutant of`, which is a plausible slip in that code (a batch taken from
the map at once, a poison message for the whole pool, a filter that keeps its
offset) and which TLC finds to violate the property in the same run.

### What the runs found

`CHANGELOG.md:57` says "Show thread panic to the gui notification instead of
stdout."  `PanicShown` states it: a panic is reported while the store runs.
The `catch_unwind` of `store.rs:215` is around the event loop only.  A decoder
that panics ends its own thread; the event loop learns of it when it joins
the pool at the end of the session.  Until then the batch is gone, the serial
thread holds back every batch after it, and the user interface, which is told
nothing, waits.  `store_panics` shows what does hold: a store that was closed
has reported a panic exactly once (`PanicReported`), and one panic of a decoder,
a filter or a writer does not take the process down (`OnePanicSurvived`).

The field for a range says "e.g. 0-20, 51, 60-" (`output-dialog.ts:148`).
`RangeSelects` states it.  parseRange writes conditions on `$.index`, which the
grammar of filters does not read as a name; `session_create_writer` throws the
syntax error and makes the writer without a filter, so that every frame is
exported (`range_export`).

`package/tcp/tokens.json:79` calls the payloads of a stream "Reassembled
Payloads".  `Reassembled` states it for a connection without losses.  The key of
a stream is read with the IP layer's attributes from the bytes of the TCP
layer: it holds flags, window and checksum, so that the SYN and the data go into
different streams (on IPv6 it reaches beyond the segment and fails); the trace
of `tcp_stream` shows that.  From reading the code only: with the key repaired,
line 142 adds the distance of the sequence numbers to the length received so far,
which counts each byte twice.

### What the code does that a reader may not expect

Modelled as it is, and no text of the repository says otherwise:

* Filters: the table of precedences is the other way round (`||` binds closest,
  the order comparisons least).  The unparser writes no parentheses; a filter made
  from an attribute is a single comparison, so that neither matters to
  `OwnFrameMatches`.  Bytes and a literal beyond 64 bits are ordered
  as sequences; a negative value and a literal beyond 63 bits are compared as if
  the literal were negative.  `CompareExact` names both exceptions.  `_.src` is unknown to filters.
* Attributes: twelve of them (`Misplaced`) have a range that is not the bits
  their cast reads.  The tests of `attr.rs` expect a cast to be given the bytes of
  the range; `abi_get` gives it those of the layer.  The payload of IPv4 begins
  at 20 whatever the header's length, that of IPv6 at 40.  A TCP option of
  length 0 never ends its loop.  TCP takes any data offset and any length of an
  option: with an offset below 5 words the payload begins inside the fixed header,
  an option may reach into the payload, a timestamp option has its two values where
  they would be in one of ten bytes, an mss or scale reads the first bytes of
  however many it has.  `PayloadApart` claims the order of header and payload where
  `HeaderFits`, `ValuesAreTheirBits` leaves out a `WrongLength`; the frames have all of
  these, and without its condition neither property holds.
* Dispatcher: the serial pass never sees layers that have children.  The count
  of children is a byte; a layer with 256 would lose them.  treefy reads depth
  first what the dispatcher lists breadth first: `TreeRebuilt` holds where the
  branches cannot be confused (`BranchesApart`), and says so.  The second pass
  looks up whether a layer it has just added has children, and finds the counts it
  has appended for others: it may pass over the new layer, and treefy, which reads
  the counts of the second pass as if they began with the root, leave it out.  A
  child added to x of [root, x], counted <<1, 0>>, gives <<1, 0, 1>> and a tree without
  it.  All is well where the first pass left only the root or the second adds no
  layers (`SecondPassApart`); tcp-stream, the only serial decoder, adds none.
* Shutdown: batches that wait in the serial thread's map for one that is still in
  the parallel pool are dropped with it, and what the serial thread and the pools
  handed over after Close is dropped with the event loop's channel.
* Files: the reader of pcap turns microseconds into nanoseconds and divides those
  by a million for `link.timestamp`; the writer of pcap writes microseconds of a
  live capture under the magic number of nanoseconds.  The network of a file is
  that of its first frame.  The genet writer drops the headers, and with them
  `link.type`: a pcap file exported later has network 0.  An export of no frames
  is a magic number alone, which cannot be read.  A pcap file always ends with an
  error; the genet reader goes on returning nothing for ever, and so does that of
  a capture whose child has ended.  The flush in the drop has nobody to tell, so
  that an output may be done although the disk took all but its last buffer
  (`DoneMeansWritten` bounds it).
* JavaScript: the promise of a reader waits for an event of the type of a
  writer, and the other way round; neither settles.  With no filter set, a late
  event of the former one brings its count back (`StatusSettles` says what
  holds).  A filter that does not compile removes the one before it.  A reload
  does not wait for the dump it reads.  The listener runs while the queue's mutex
  is held: one that raised an event would wait for itself, and none of the
  program's does (`MayRaise`).
* Buckets of frames are never freed, so that pointers in JavaScript stay good
  even after the session is gone.

## The proofs

All theorems hold for any number of threads, readers, writers and filters, any
chunk sizes and any bounds.  The assumptions are the named `ASSUME`s of the
modules: for the store those of `Pipeline`, `Inputs` and `Store` (positive
concurrency and chunk sizes, natural bounds, and that `NoFilter` and `NoId` are
no filter and no id).  The other components have one each: `BlockSizeAssumption`,
`SessionAssumption`, `RegistryAssumption`, `CaptureAssumption` (the packets are
a sequence) and `ExportAssumption` (a buffer, blocks and rooms of natural
sizes); exports have `ForeignAssumption` too (files of other programs are in the pcap
format, which `IsPcapFile` states by positions); the dispatcher has `DecodersAssumption` (the
decoders are a sequence).  Every property proved is also checked by a TLC run,
but for `Progress`, whose consequence `DecodeTerminates` is.

### The store

* `TypeCorrect` (`StoreOrderProofs`): `Spec => []TypeOK`.  One lemma for each
  action, one step for each part of `TypeOK` (channels, pools, readers, frames,
  views, control).
* `OrderCorrect` and `HandoverCorrect` (`StoreOrderProofs`):
  `Spec => []StoredInOrder` and `Spec => []SerialHandover`.  `StoredInOrder`
  is not inductive: it says nothing of the batch about to be stored.
  `OrderInv` adds two parts.  `BatchesConsecutive`: wherever a batch is (a
  channel, a thread, the map), it is a run of consecutive frames as they were
  numbered.  `SerialHandover`: the batches the serial thread has sent and the
  event loop has not stored form a chain from the end of the store to `next`.
  Its clauses are about the first and last index of each batch only, so that
  appending to and taking from the channel can be treated once
  (`HandoverAppendStore`, `HandoverTailStore` and the lemmas beside them) and
  cited in the steps.  A serial thread that panicked breaks the last link of the
  chain, and nothing is sent after it (`HandoverPanic`).  The chain ends with the
  event loop, which drops its channel.
* `LogImplemented` (`StoreOrderProofs`): `Spec => LogSpec`, the refinement to
  `FrameLog` with `stored` for its log.  `ProcessInput` is Accept,
  `ProcessStore` is Publish, everything else stutters.  Hence a frame the user
  interface has seen is never changed, moved or withdrawn, panics and shutdown
  included.
* `NothingIsLost` (`StoreFlowProofs`): `Spec => []NothingLost`.  A frame is in
  the store, a channel, a thread or the serial thread's map; that it is in one
  of them says too little to survive a step (it might be in two, and the step
  might take it from both), so that `LostInv` counts: over these six, `Total`
  of an index is at most one, and one while it is `Kept`.  A step moves
  a batch, so that one count falls as another rises, for every index at once
  (`CountAppend`, `CountTail` and the lemmas beside them); a panic only takes
  away.  `OrderInv` gives that a batch that is numbered is new.  Nothing is dropped
  until the shutdown.  There two steps drop frames: the serial thread ends with its map,
  and the event loop with its channel.  After the first, a frame is `Kept` only if its turn
  had come.  It cannot have been in the map, because it is in the store or in the
  channel: the chain of `SerialHandover` has no gap (`HandedNow`, with the least
  position of the chain that reaches the index, `LeastPosition`).  After the second
  nothing is kept but what is stored.
* `ReaderOrderCorrect` and `CompletionCorrect` (`StoreFlowProofs`):
  `Spec => []ReaderOrder` and `Spec => []CompletionLast`.  Both are about one
  reader's way through the channel.  `FlowInv` has two parts, one for the time until the event
  loop ends (`RunInv`) and one for what is left then (`EndInv`): who has its answer has
  it for good, and nobody gets one.  `RunInv` says of each reader that what it
  returned and the event loop has not taken is, seen by itself in the channel, a
  chain of serial numbers from the last one numbered to `nread`: the same shape
  as `SerialHandover`, and the lemmas about that are cited again (`Passed`).
  Further that at most one command answers for an id, behind all of its reads,
  and none once `done` has its entry; and that a reader whose answer is on its
  way has stopped.
* `AnnouncedIsBacked`, `FilteredIsExact` and `OutputIsComplete`
  (`StoreViewProofs`): `Spec => []AnnouncedBacked`, `Spec => []FilteredExact` and
  `Spec => OutputComplete`, an action property.  What passes a filter is
  `Found(frames, filter)`, a function that is recursive in the number of frames
  looked at.  The library's induction takes a predicate and cannot be cited, so
  `LeastOf` and `UpTo` state it for a set of numbers, from the library's theorem
  about well-founded relations.  With it: `Found` exists and has the equations it
  is defined by (`FoundSteps`), depends on the frames looked at alone
  (`FoundPrefix`), and what is selected of two parts is selected of the whole
  (`SelectedConcat`), so that a scan may stop after any chunk and go on later.
  `FilterInv` says of each filter that its vector is `Found` of the
  frames up to its offset, and what differs while a filter is being replaced
  (`Unlinking`) or scanned; `OutputInv` that a writer was given what was found in the
  frames up to its place, and that an id is written to once.
* `ThreadsAreJoined`, `PanicIsReported` and `OnePanicIsSurvived`
  (`StoreShutdownProofs`).  `ShutdownInv` counts: a panic is remembered where it
  happened, by a dead thread or by an event loop that unwinds, and two such places
  are two panics (`PanicsCounted`); the drops run in one order, and each join
  leaves an ended thread behind or begins to unwind (`JoinedInTurn`).  A panic
  while the event loop unwinds, which takes the process down, is then the
  second.

### The other components

* `ReadsCorrect`, `HandlesCorrect` (`FilesProofs`): `ArraySpec =>
  []ArrayReads` and `=> []HandlesStay`, for every block size.  `ArrayInv` says
  that bucket k is the k-th block, that every index below the length has its
  bucket, what each cell holds, and where each handle points.  The step that
  matters is `PushCells`: two indices never share a cell (`CellsApart`), and the
  bucket of the next index is there or is the next (`RoomAtEnd`).
* `LayersInOrder`, `CaptureInOrderCorrect` (`FilesProofs`), of `CaptureSpec`, a
  capture by itself, for any packets.  What is between the two processes is one
  stream, the pipe and then the child's buffer.  `CaptureInv` says that its
  places can be numbered (`Numbered`): each is before the line of a packet or
  between the line and the data of one, an item leads from one to the next
  (`Carries`), and the stream leads from where the reader is to the last packet
  printed.  That is why a line is never taken for data, although the data come
  only with the next line's flush.  A child that crashes loses its buffer at the
  end of the stream, so that what is left leads somewhere nearer
  (`ChildEndsInv`).  `LayersInOrder` says that layer i is made of the header and
  data of packet i; `CaptureInOrder` speaks of the numbers in the layer's
  attributes.  `LinkField` goes from one to the other: the search for an attribute
  finds the one it was stored under (`Find` takes the first), and the four bytes
  of a number make the number again (`NumberOfWord`).
* `DoneMeansWrittenCorrect` (`FilesProofs`): `ExportSpec => []DoneMeansWritten`,
  for any frames, either format, any room and any buffer.  `ExportInv` relates
  what was written, what the disk took and what the buffer can hold at each step
  of the output (`Sizes`, `Held`); when an output reports its end, the file
  has all that was written or the disk is full, and at most a buffer is missing.
* `AllOfferedCorrect` (`DispatcherProofs`): `DispatchSpec => []AllOffered`, for any
  decoders in any order and any root, under two hypotheses about the
  decoders the profile loads.  `Answers`: a call ends with a status and a
  sequence of layers, and one that skips has not touched the layer.
  `SkipsStay`: a decoder that skips a layer skips it still after a step that
  changes other layers only.  The decoders of the packages are so: they skip
  before they touch anything, and decide by the parent (NTP finds the
  attribute in the stack, but reads it from the parent).  `DispatchInv` says
  that a decoder of the pass' type that is not used up would skip every layer behind
  the loop, and, while nobody has been done in this round, the layer the loop is
  at, for the runners already asked (`NothingLeft`); so a round without a decoder
  done closes the layer (`NextLayerInv`).  A call that is done opens it again,
  which is why the loop repeats.  The layers that the serial pass leaves alone
  (`Passed`) are those the property leaves out.
* `DecodeProgresses` (`DispatcherProofs`): every step of the loops makes a measure
  smaller, `DispatchSpec => [][Progress]_vars`, under `Answers` and
  `SkipsAddNothing` (the decoders of the packages add no layers when they
  skip).  The parts, the most significant first: the pass, the decoders not
  used up, the layers ahead of the loop, whether another round comes, the decoders
  left in this one.  All are finite, and a decoder that adds layers is used up, so
  that decoding cannot go on for ever, even with decoders that would decode what
  they made.  It is the safety half of `DecodeTerminates`: that a step is taken
  needs fairness and ENABLED, and `decode_tree` shows it.
* `GenetCorrect` (`FilesProofs`): `GenetSpec => []GenetAllOrNothing`, where
  `GenetSpec` is an export of layers whose attributes have values of the types
  that the format knows (`Valued`), or a file of another program.  A genet
  file stores numbers in place of names and values, so that the argument is about
  the writer's tables.  A table only grows at its end (`Extends`); what was
  interned once is found again at its number, whatever was interned later
  (`PositionNames`, `NamesMore`, `ValueStays`).  `GenetInv` says that each entry
  `Stands` for its frame in the tables as they are now, that the file is empty
  until the worker ends and then begins the pieces made of these tables, and
  that a reader that opened it `Describes` the worker: it has the header's tables, and what it
  has not read is all of the entries, so that the read either makes every layer
  (`LayerComesBack`) or ends.
* `PcapCorrect` (`FilesProofs`): `PcapSpec => []PcapReads`, where `PcapSpec` is
  an export of layers of one link type (`AllLinked`: the header goes out with the
  first of them) whose numbers have 32 bits (`Fits`), or a file of another
  program, of either byte order and unit of time.  What bytes lie where is
  stated by positions (`Lies`, `RecordLies`, `PcapLayout`), without
  the parsing that is to be proved: a header of 24 bytes, and the record of layer i
  from `RecordEnd` of the one before.  The writer keeps the layout
  as it appends a record (`RecordAdded`), `ForeignAssumption` gives it for
  the files of others (`ForeignLayout`), and a cut leaves whatever lies within
  what remains (`CutLies`).  The reader's part of `PcapInv` is `ReaderStands`: it has delivered
  k records and is at the end of record k, or at the end of the file with no
  further record whole (`Stuck`).  `OneRead` takes it one record on or leaves it
  `Stuck`; `BlockRead` does so for a whole block, by induction over its size.
  When the reader gives up, what it has delivered is `WholeRecords`, neither a
  record less nor one made of a part (`WholeAre`).
* `TypeCorrect`, `WakeupsCorrect` and `StatusCorrect` (`NodeSessionProofs`), for
  any filters, whatever they pass, and any number of frames and calls.
  `NoLostWakeup` is inductive with the types.  `StatusSettles` says something of
  quiet states only; `StatusInv` says of every state that the newest event of
  each kind on its way (to be raised, queued, with the listener) tells the truth
  about the store, or that none is on its way and the status does, or, for
  filters, that their removal is still among the commands.  `KnownNew`,
  `KnownPush`, `KnownRaise`, `KnownPop` and `KnownReturn` say that this survives
  each stage of an event's way; the steps cite them.
* `OneTokenCorrect` (`TokenProofs`): `Spec => []OneToken` for any names, plug-ins
  and threads.  `TokenInv` says that whoever runs a plug-in's code calls the
  program's table (`TokensLead`, from the order of `load_library`'s steps), that
  a thread inside the table holds its lock and has the number after the last,
  and that the numbers of the table are different and at most their count.
* `NamesComeBackCorrect` (`TokenProofs`): `Spec => []NamesComeBack`.  `NameInv`
  adds the other table to `TokenInv`: the string of a token is at its number, and
  there are as many strings as tokens but for one, which belongs to the thread
  that holds both locks, has appended it and not yet entered its token.  Nobody has
  that token, and nobody looks a string up while the lock of the strings is held;
  the string is copied without the lock, but its place in the table stays.  Names
  are only looked up in the program's table: `load_library` sets that pointer
  before any code of the plug-in runs (`MayRun`).

### Model-checked only

* Liveness, and what rests on ENABLED: out of the prover's reach (of
  `DecodeTerminates`, `DecodeProgresses` proves that the steps run out).
* `TreeRebuilt` (`FrameTree`), `CutAgrees`,
  `ValuesAreTheirBits`, `PayloadApart`, `OwnFrameMatches` and `CompareExact`
  (`MCProtocols`): these modules compute with recursive operators, for which the
  prover has no backend; and the properties are about what the recursion
  computes.

## Not modelled

* The package manager of the user interface (`src/lib/package-manager.ts`), the
  settings and the workspace (`src/lib/config.ts`, `workspace.ts`) and the tasks
  of `gpm`: state machines of their own, apart from capture and decoding, which
  nothing modelled here depends on.
* Promises and stream readers of `session.js`: the promises never settle (above).
* Opening devices and permissions in libpcap; finding libraries, reading the
  configuration.
* Rendering, windows and menus, the frame list's scrolling, the N-API wrappers,
  the SDK's macros, the build scripts: pure I/O or data without a state that
  could go wrong over several steps.  The memory layout of the ABI's structures.

## Plan

What would come next:

1. Proofs: `PayloadApart` for any bytes, which needs the loop over the TCP options
   as a function.
2. `PackageManager`: update, its queue of one, its tasks and dirty marks;
   `ConfigStore`: the tree with its listeners and the watched file.
