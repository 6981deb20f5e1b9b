------------------------------- MODULE Capture -------------------------------
(* A live capture: libpcap's thread, the loop of the child process pcap-cli,  *)
(* the pipe of its standard output, and the reader worker at the other end    *)
(* with the thread of set_input that calls it.                                *)
EXTENDS FileFormats

CONSTANTS Packets,      \* bound: what the network sends, in this order
          Link,         \* the link type given to the worker
          MaxBlanks     \* bound: blank lines in the pipe at a time

ASSUME CaptureAssumption == Packets \in Seq([data : Seq(Byte), actlen : Nat,
                                             sec : Nat, usec : Nat])
                            /\ Link \in Nat /\ MaxBlanks \in Nat \ {0}

VARIABLES sent,     \* packets libpcap's handler has been called with
          queue,    \* the channel from the handler to the loop
          buffer,   \* what the LineWriter of the child's stdout keeps back
          pipe,     \* what the worker can read
          child,    \* "running", "exited", "killed"
          holder,   \* the input's Arc: unset_input lets go of it
          thread,   \* "check", "line", "data", "dropped"
          header,   \* the header the worker has read
          got,      \* the layers of the reads that succeeded
          failed    \* the reads that failed

captureVars == <<sent, queue, buffer, pipe, child, holder, thread, header, got,
                 failed>>

CaptureInit ==
    /\ sent = 0 /\ queue = <<>> /\ buffer = <<>> /\ pipe = <<>>
    /\ child = "running" /\ holder = TRUE /\ thread = "check" /\ header = <<>>
    /\ got = <<>> /\ failed = 0

---------------------------------------------------------------------------
(* The child.  A line ends with a flush of the LineWriter, the bytes of a     *)
(* packet do not.  (A newline among them would: they are assumed to have      *)
(* none, which only delays them.)                                             *)

Header(p) == [datalen |-> Len(p.data), actlen |-> p.actlen, sec |-> p.sec,
              usec |-> p.usec]

\* Mutant of Handler: the newest packet goes first.
HandlerLifo ==
    /\ child = "running" /\ sent < Len(Packets)
    /\ sent' = sent + 1
    /\ queue' = <<Packets[sent + 1]>> \o queue
    /\ UNCHANGED <<buffer, pipe, child, holder, thread, header, got, failed>>

\* handler: one packet into the channel.
Handler ==
    /\ child = "running" /\ sent < Len(Packets)
    /\ sent' = sent + 1
    /\ queue' = Append(queue, Packets[sent + 1])
    /\ UNCHANGED <<buffer, pipe, child, holder, thread, header, got, failed>>

\* The loop, Ok((header, data)): the header's line, then the data.
PrintPacket ==
    /\ child = "running" /\ queue # <<>>
    /\ queue' = Tail(queue)
    /\ pipe' = pipe \o buffer \o <<[line |-> <<Header(Head(queue))>>]>>
    /\ buffer' = <<[data |-> Head(queue).data]>>
    /\ UNCHANGED <<sent, child, holder, thread, header, got, failed>>

Blank == [line |-> <<>>]
Blanks == Len(SelectSeq(pipe, LAMBDA item : item = Blank))

\* Mutant of PrintBlank: nothing is printed, and nothing is flushed.
PrintNothing ==
    /\ child = "running" /\ queue = <<>> /\ Blanks < MaxBlanks
    /\ UNCHANGED captureVars

\* The loop, a timeout: an empty line.
PrintBlank ==
    /\ child = "running" /\ queue = <<>> /\ Blanks < MaxBlanks
    /\ pipe' = pipe \o buffer \o <<Blank>>
    /\ buffer' = <<>>
    /\ UNCHANGED <<sent, queue, child, holder, thread, header, got, failed>>

\* The device is gone: pcap_loop returns, the channel is disconnected, and the
\* loop returns once it is empty; the exit flushes.
ChildExit ==
    /\ child = "running" /\ sent = Len(Packets) /\ queue = <<>>
    /\ pipe' = pipe \o buffer /\ buffer' = <<>>
    /\ child' = "exited"
    /\ UNCHANGED <<sent, queue, holder, thread, header, got, failed>>

\* The child crashes or is killed from outside.
ChildCrash ==
    /\ child = "running"
    /\ child' = "killed" /\ buffer' = <<>>
    /\ UNCHANGED <<sent, queue, pipe, holder, thread, header, got, failed>>

---------------------------------------------------------------------------
(* The worker, and the loop of the thread that reads from it.                 *)

UnsetInput ==
    /\ holder /\ holder' = FALSE
    /\ UNCHANGED <<sent, queue, buffer, pipe, child, thread, header, got, failed>>

\* Mutant of DropWorker: the child is left alone.
DropWorkerOnly ==
    /\ thread' = "dropped"
    /\ UNCHANGED <<child, buffer>>

\* The end of the thread drops the worker, and with it the child.
DropWorker ==
    /\ thread' = "dropped"
    /\ child' = IF child = "running" THEN "killed" ELSE child
    /\ buffer' = IF child = "running" THEN <<>> ELSE buffer

ReadOrEnd ==
    /\ thread = "check"
    /\ IF holder THEN thread' = "line" /\ UNCHANGED <<child, buffer>>
                 ELSE DropWorker
    /\ UNCHANGED <<sent, queue, pipe, holder, header, got, failed>>

AtEnd == pipe = <<>> /\ child # "running"

\* read_line: an empty line and the end of the pipe are both an empty Ok.
ReadBlank ==
    /\ thread = "line"
    /\ \/ AtEnd /\ UNCHANGED pipe
       \/ pipe # <<>> /\ Head(pipe) = Blank /\ pipe' = Tail(pipe)
    /\ thread' = "check"
    /\ UNCHANGED <<sent, queue, buffer, child, holder, header, got, failed>>

ReadHeader ==
    /\ thread = "line" /\ pipe # <<>> /\ Head(pipe) # Blank
    /\ header' = Head(pipe).line[1]
    /\ pipe' = Tail(pipe)
    /\ thread' = "data"
    /\ UNCHANGED <<sent, queue, buffer, child, holder, got, failed>>

\* The layer the worker makes of a header and its data.
LayerOf(head, data) ==
    LinkLayer(LinkClass(Link, UInt64(Word(Link))), data, head.actlen, head.sec,
              head.usec)

\* read_exact: the layer of the packet.
ReadData ==
    /\ thread = "data" /\ pipe # <<>>
    /\ got' = Append(got, LayerOf(header, Head(pipe).data))
    /\ pipe' = Tail(pipe)
    /\ thread' = "check"
    /\ UNCHANGED <<sent, queue, buffer, child, holder, header, failed>>

\* read_exact at the end of the pipe: the thread reports the error and ends.
ReadCut ==
    /\ thread = "data" /\ AtEnd
    /\ failed' = failed + 1
    /\ DropWorker
    /\ UNCHANGED <<sent, queue, pipe, holder, header, got>>

ReaderNext == ReadOrEnd \/ ReadBlank \/ ReadHeader \/ ReadData \/ ReadCut
CaptureNext == Handler \/ PrintPacket \/ PrintBlank \/ ChildExit \/ ChildCrash
               \/ UnsetInput \/ ReaderNext

\* The loops of the child and of the reader thread go on; the network, the
\* user and a crash need not come.
CaptureFairness == WF_captureVars(PrintPacket) /\ WF_captureVars(PrintBlank)
                   /\ WF_captureVars(ReaderNext)

\* A capture by itself.
CaptureSpec == CaptureInit /\ [][CaptureNext]_captureVars /\ CaptureFairness

---------------------------------------------------------------------------
(* Properties *)

\* The layers of a capture are the packets libpcap handed over, in that order
\* and with nothing left out between them, whatever the child buffers and
\* whenever it ends.
CaptureInOrder ==
    \A i \in DOMAIN got :
        /\ i <= sent
        /\ got[i].data = Packets[i].data
        /\ FieldOf(got[i], "link.length") = Packets[i].actlen
        /\ FieldOf(got[i], "link.timestamp.sec") = Packets[i].sec
        /\ FieldOf(got[i], "link.timestamp.usec") = Packets[i].usec

\* The data of a packet stays in the child's buffer until the next line; even
\* if no packet follows, the packet reaches the session, unless the capture is
\* stopped or the child crashes.
CaptureDelivers ==
    \A i \in DOMAIN Packets :
        sent >= i ~> (Len(got) >= i \/ ~holder \/ child = "killed")

\* Stopping a capture ends the reader thread although it waits in read_line
\* for a line of the child, and the child with it.
CaptureStops == ~holder ~> (thread = "dropped" /\ child # "running")
=============================================================================
