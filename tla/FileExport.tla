----------------------------- MODULE FileExport ------------------------------
(* One export and one reading of its file: process_output drives a writer     *)
(* whose BufWriter the disk may refuse and a crash may cut, and a reader      *)
(* takes what is on the disk.                                                 *)
EXTENDS FileFormats

CONSTANTS BufferSize,   \* capacity of the BufWriter, in bytes or pieces
          BlockSize,    \* BLOCK_SIZE of pcap-file/reader
          Rooms,        \* bound: how much the disk can hold
          Foreign       \* pcap files of other programs, with their packets

ASSUME ExportAssumption == /\ BufferSize \in Nat /\ BlockSize \in Nat \ {0}
                           /\ Rooms \subseteq Nat

\* Where the record of each packet or layer ends in a pcap file.
RecordEnd(records) ==
    LET end[n \in 0..Len(records)] ==
            IF n = 0 THEN 24 ELSE end[n - 1] + 16 + Len(records[n].data)
    IN  end

\* The packets of such a file as layers, their time in nanoseconds.
Unit(magic) == IF magic \in {"le_nsec", "be_nsec"} THEN 1 ELSE 1000
Second(magic) == 1000000000 \div Unit(magic)
ForeignLayers(file) ==
    [i \in DOMAIN file.packets |->
        LinkLayer(LinkClass(file.network, Int64(Word(file.network))), file.packets[i].data,
                  file.packets[i].actlen, file.packets[i].sec,
                  Unit(file.magic) * file.packets[i].usec)]

\* The pcap format, by positions: a header of 24 bytes, then for each packet
\* four numbers and its data.
IsPcapFile(file) ==
    LET U32(n) == IF file.magic \in {"le_usec", "le_nsec"} THEN LE32(n) ELSE BE32(n)
        end == RecordEnd(ForeignLayers(file))
    IN  /\ file.magic \in DOMAIN Magic /\ file.network \in Nat
        /\ file.packets \in Seq([data : Seq(Byte), actlen : Nat, sec : Nat,
                                 usec : 0..Second(file.magic) - 1])
        /\ file.bytes \in Seq(Byte) /\ Len(file.bytes) = end[Len(file.packets)]
        /\ SubSeq(file.bytes, 1, 4) = Magic[file.magic]
        /\ SubSeq(file.bytes, 21, 24) = U32(file.network)
        /\ \A i \in DOMAIN file.packets :
               LET packet == file.packets[i]
                   Numeral(k) == SubSeq(file.bytes, end[i - 1] + 4 * k - 3, end[i - 1] + 4 * k)
               IN  /\ Numeral(1) = U32(packet.sec) /\ Numeral(2) = U32(packet.usec)
                   /\ Numeral(3) = U32(Len(packet.data)) /\ Numeral(4) = U32(packet.actlen)
                   /\ SubSeq(file.bytes, end[i - 1] + 17, end[i]) = packet.data

ASSUME ForeignAssumption == \A file \in Foreign : IsPcapFile(file)

VARIABLES format,    \* "pcap" or "genet"
          room,      \* what this disk holds
          frames,    \* the bottom layers of the frames exported
          nframes,   \* how many of them the writer has been given
          output,    \* "none", "write", "end", "drop", "report", "ended", "dead"
          worker,    \* the worker's tables; for pcap, if it wrote the header
          written,   \* what the worker has written to its BufWriter
          disk,      \* how much of that is in the file
          outcome,   \* of the output: "none", "ok", "error"
          input,     \* "none", "reading", "failed", "ended"
          reader,    \* the reader's worker
          delivered  \* the layers it has returned

writerVars == <<format, room, frames, nframes, output, worker, written, disk,
                outcome>>
readerVars == <<input, reader, delivered>>
exportVars == <<writerVars, readerVars>>

ExportInit ==
    /\ format = "none" /\ room \in Rooms /\ frames = <<>> /\ nframes = 0
    /\ output = "none" /\ worker = <<>> /\ written = <<>> /\ disk = 0
    /\ outcome = "none"
    /\ input = "none" /\ reader = <<>> /\ delivered = <<>>

\* The file, as a reader or the next run of the program finds it.
File == SubSeq(written, 1, disk)

\* The BufWriter takes it: at most BufferSize of it is not in the file yet.
Accept(all) ==
    /\ written' = all
    /\ disk' \in {d \in disk..Len(all) : Len(all) - d <= BufferSize /\ d <= room}

\* The disk is full when the buffer spills.
Refuse(all) ==
    /\ Len(all) - disk > BufferSize /\ Len(all) > room
    /\ written' = all /\ disk' = room
    /\ outcome' = "error" /\ output' = "drop"

Write(all, next) == \/ Accept(all) /\ output' = next /\ UNCHANGED outcome
                    \/ Refuse(all)

\* new_worker: the file is created empty; the magic number stays in the buffer.
NewWriter(layers) ==
    /\ output = "none"
    /\ format' \in {"pcap", "genet"}
    /\ frames' = layers
    /\ worker' = IF format' = "pcap" THEN [header |-> FALSE] ELSE NewGenetWorker
    /\ written' = IF format' = "pcap" THEN Magic.le_nsec ELSE <<>>
    /\ output' = "write"
    /\ UNCHANGED <<room, nframes, disk, outcome, readerVars>>

\* WorkerOutput::write, one frame of the block: pcap writes it, genet keeps it.
WriteFrame ==
    /\ output = "write" /\ nframes < Len(frames)
    /\ nframes' = nframes + 1
    /\ LET layer == frames[nframes + 1]
       IN  IF format = "pcap"
           THEN /\ worker' = [header |-> TRUE]
                /\ Write(written \o PcapWrite(worker.header, layer), "write")
           ELSE /\ worker' = GenetWrite(worker, layer)
                /\ UNCHANGED <<written, disk, outcome, output>>
    /\ UNCHANGED <<format, room, frames, readerVars>>

\* Mutant of EndOutput: the outcome is reported before the output is dropped.
EndOutputReporting ==
    /\ output = "write" /\ nframes = Len(frames)
    /\ Write(written \o IF format = "pcap" THEN <<>> ELSE GenetPieces(worker), "report")
    /\ UNCHANGED <<format, room, frames, nframes, worker, readerVars>>

\* Worker::end: for genet the whole file, for pcap nothing.
EndOutput ==
    /\ output = "write" /\ nframes = Len(frames)
    /\ Write(written \o IF format = "pcap" THEN <<>> ELSE GenetPieces(worker), "drop")
    /\ UNCHANGED <<format, room, frames, nframes, worker, readerVars>>

\* The output is dropped: the BufWriter flushes, and nobody hears of an error.
DropOutput ==
    /\ output = "drop"
    /\ disk' = IF Len(written) < room THEN Len(written) ELSE room
    /\ output' = IF outcome = "error" THEN "ended" ELSE "report"
    /\ UNCHANGED <<format, room, frames, nframes, worker, written, outcome, readerVars>>

\* callback.on_output_done(id, None)
ReportDone ==
    /\ output = "report"
    /\ outcome' = "ok" /\ output' = "ended"
    /\ UNCHANGED <<format, room, frames, nframes, worker, written, disk, readerVars>>

\* The program is killed: what the buffer had is lost.
KillWriter ==
    /\ output \in {"write", "drop"}
    /\ output' = "dead"
    /\ UNCHANGED <<format, room, frames, nframes, worker, written, disk, outcome,
                   readerVars>>

\* A pcap file of another program, cut anywhere.
ForeignFile ==
    /\ output = "none"
    /\ \E file \in Foreign : /\ written' = file.bytes /\ frames' = ForeignLayers(file)
                             /\ disk' \in 0..Len(file.bytes)
    /\ format' = "pcap" /\ output' = "ended"
    /\ UNCHANGED <<room, nframes, worker, outcome, readerVars>>

---------------------------------------------------------------------------

\* A genet file may be opened while it is being written (a reload opens the
\* dump of the tab it replaces); a pcap file is opened once it is there.
Readable == IF format = "pcap" THEN output \in {"ended", "dead"}
                               ELSE output # "none"

OpenFile ==
    /\ input = "none" /\ Readable
    /\ LET res == IF format = "pcap" THEN PcapOpen(File) ELSE GenetOpen(File)
       IN  IF res.ok THEN input' = "reading" /\ reader' = res.val
                     ELSE input' = "failed" /\ UNCHANGED reader
    /\ UNCHANGED <<writerVars, delivered>>

\* WorkerInput::read, from the loop of the reader thread.
ReadFile ==
    /\ input = "reading"
    /\ \E read \in {IF format = "pcap" THEN PcapRead(File, reader, BlockSize)
                                      ELSE GenetRead(File, reader)} :
           /\ reader' = read.reader
           /\ IF read.res.ok THEN /\ delivered' = delivered \o read.res.val
                                  /\ UNCHANGED input
                             ELSE input' = "ended" /\ UNCHANGED delivered
    /\ UNCHANGED writerVars

ExportNext(layers) ==
    \/ NewWriter(layers) \/ WriteFrame \/ EndOutput \/ DropOutput \/ ReportDone
    \/ KillWriter \/ OpenFile \/ ReadFile

---------------------------------------------------------------------------
(* Properties *)

Packet(layer) ==
    <<layer.class.id, layer.data,
      [id \in {"link.type", "link.length", "link.timestamp.sec",
               "link.timestamp.usec"} |-> FieldOf(layer, id)]>>

\* The frames whose record is in the file to its last byte.
WholeRecords == {n \in 1..Len(frames) : RecordEnd(frames)[n] <= disk}

\* Wherever a full disk, a crash or another program has cut a pcap file, the
\* reader delivers every frame the file has to the last byte, with its link
\* type, lengths and timestamp, and nothing made of the rest.
PcapReads ==
    format = "pcap" /\ input = "ended" =>
        /\ Len(delivered) = Cardinality(WholeRecords)
        /\ \A i \in DOMAIN delivered : Packet(delivered[i]) = Packet(frames[i])

\* A genet file is read as a whole or not at all, even while it is being
\* written: ids, payloads, and attributes with their types and values.
GenetAllOrNothing ==
    format = "genet" /\ input # "none" =>
        \/ delivered = <<>> /\ (input = "reading" => reader.entries = Len(frames))
        \/ /\ Len(delivered) = Len(frames)
           /\ \A i \in DOMAIN frames :
                /\ delivered[i].class.id = frames[i].class.id
                /\ delivered[i].data = frames[i].data
                /\ delivered[i].attrs = frames[i].attrs

\* An output that is done without an error has left nothing in memory: what is
\* missing in the file is what the disk refused when the output was dropped,
\* and never more than one buffer.
DoneMeansWritten ==
    outcome = "ok" => /\ disk = Len(written) \/ disk = room
                      /\ Len(written) - disk <= BufferSize
=============================================================================
