----------------------------- MODULE FilesProofs ------------------------------
(* A capture, the array of frames it fills, and an export, each by itself:    *)
(* for any packets and layers, any disk, buffer and size of the blocks.       *)
EXTENDS Capture, FileExport, ArrayVec, SequenceTheorems, FiniteSetTheorems,
        WellFoundedInduction, TLAPS

---------------------------------------------------------------------------
(* Sequences of whatever elements they have.                                  *)

Elems(s) == {s[i] : i \in DOMAIN s}
IsSeq(s) == s \in Seq(Elems(s))

LEMMA SeqIsSeq ==
    ASSUME NEW S, NEW s \in Seq(S)
    PROVE  IsSeq(s)
<1>1. Len(s) \in Nat /\ s \in [1..Len(s) -> S] /\ DOMAIN s = 1..Len(s)
    BY LenProperties
<1>2. s \in [1..Len(s) -> Elems(s)]
    BY <1>1 DEF Elems
<1> QED BY <1>1, <1>2, SeqDef DEF IsSeq

LEMMA LenOfSeq ==
    ASSUME NEW s, IsSeq(s)
    PROVE  Len(s) \in Nat /\ DOMAIN s = 1..Len(s)
    BY LenProperties DEF IsSeq

LEMMA ConcatIsSeq ==
    ASSUME NEW s, NEW t, IsSeq(s), IsSeq(t)
    PROVE  IsSeq(s \o t) /\ Len(s \o t) = Len(s) + Len(t)
<1> DEFINE S == Elems(s) \union Elems(t)
<1>1. s \in Seq(S) /\ t \in Seq(S)
    <2>1. Elems(s) \subseteq S /\ Elems(t) \subseteq S
        OBVIOUS
    <2>2. s \in Seq(Elems(s)) /\ t \in Seq(Elems(t))
        BY DEF IsSeq
    <2> HIDE DEF S
    <2> QED BY <2>1, <2>2, SeqMonotonic
<1> HIDE DEF S
<1>2. s \o t \in Seq(S) /\ Len(s \o t) = Len(s) + Len(t)
    BY <1>1, ConcatProperties
<1> QED BY <1>2, SeqIsSeq

LEMMA ConcatElems ==
    ASSUME NEW s, NEW t, IsSeq(s), IsSeq(t)
    PROVE  /\ \A i \in 1..Len(s) : (s \o t)[i] = s[i]
           /\ s # <<>> => Head(s \o t) = Head(s) /\ Tail(s \o t) = Tail(s) \o t
<1> DEFINE S == Elems(s) \union Elems(t)
<1>1. s \in Seq(S) /\ t \in Seq(S)
    <2>1. Elems(s) \subseteq S /\ Elems(t) \subseteq S
        OBVIOUS
    <2>2. s \in Seq(Elems(s)) /\ t \in Seq(Elems(t))
        BY DEF IsSeq
    <2> HIDE DEF S
    <2> QED BY <2>1, <2>2, SeqMonotonic
<1> HIDE DEF S
<1> QED BY <1>1

LEMMA AppendIsSeq ==
    ASSUME NEW s, NEW e, IsSeq(s)
    PROVE  IsSeq(Append(s, e))
<1> DEFINE S == Elems(s) \union {e}
<1>1. s \in Seq(S) /\ e \in S
    <2>1. Elems(s) \subseteq S /\ e \in S
        OBVIOUS
    <2>2. s \in Seq(Elems(s))
        BY DEF IsSeq
    <2> HIDE DEF S
    <2> QED BY <2>1, <2>2, SeqMonotonic
<1> HIDE DEF S
<1>2. Append(s, e) \in Seq(S)
    BY <1>1, AppendProperties
<1> QED BY <1>2, SeqIsSeq

LEMMA AppendElems ==
    ASSUME NEW s, NEW e, IsSeq(s)
    PROVE  /\ Append(s, e) = s \o <<e>> /\ Len(Append(s, e)) = Len(s) + 1
           /\ \A i \in 1..Len(s) : Append(s, e)[i] = s[i]
           /\ Append(s, e)[Len(s) + 1] = e
<1> DEFINE S == Elems(s) \union {e}
<1>1. s \in Seq(S) /\ e \in S
    <2>1. Elems(s) \subseteq S /\ e \in S
        OBVIOUS
    <2>2. s \in Seq(Elems(s))
        BY DEF IsSeq
    <2> HIDE DEF S
    <2> QED BY <2>1, <2>2, SeqMonotonic
<1> HIDE DEF S
<1> QED BY <1>1, AppendProperties, AppendIsConcat

\* A function on 1..n is a sequence.
LEMMA FunctionIsSeq ==
    ASSUME NEW n \in Nat, NEW s, DOMAIN s = 1..n, s = [i \in DOMAIN s |-> s[i]]
    PROVE  IsSeq(s)
<1>1. s \in [1..n -> Elems(s)]
    BY DEF Elems
<1> QED BY <1>1, SeqDef DEF IsSeq

---------------------------------------------------------------------------
(* What the writers hand to their BufWriter is a sequence, of bytes or of     *)
(* pieces, if the payloads are.                                               *)

LEMMA ReverseIsSeq ==
    ASSUME NEW s, IsSeq(s)
    PROVE  IsSeq(Reverse(s)) /\ Len(Reverse(s)) = Len(s)
<1>1. Len(s) \in Nat
    BY LenOfSeq
<1>2. /\ DOMAIN Reverse(s) = 1..Len(s)
      /\ Reverse(s) = [i \in DOMAIN Reverse(s) |-> Reverse(s)[i]]
    BY DEF Reverse
<1>3. IsSeq(Reverse(s))
    BY <1>1, <1>2, FunctionIsSeq
<1>4. 1..Len(Reverse(s)) = 1..Len(s) /\ Len(Reverse(s)) \in Nat
    BY <1>2, <1>3, LenOfSeq
<1> QED BY <1>1, <1>3, <1>4

LEMMA SubSeqIsSeq ==
    ASSUME NEW s, IsSeq(s), NEW m \in 1..Len(s), NEW n \in m..Len(s)
    PROVE  IsSeq(SubSeq(s, m, n)) /\ Len(SubSeq(s, m, n)) = n - m + 1
<1>1. Len(s) \in Nat /\ DOMAIN s = 1..Len(s)
    BY LenOfSeq
<1>2. m \in Int /\ n \in Int /\ m <= n /\ \A i \in m..n : s[i] \in Elems(s)
    BY <1>1 DEF Elems
<1>3. SubSeq(s, m, n) \in Seq(Elems(s)) /\ Len(SubSeq(s, m, n)) = n - m + 1
    BY <1>2, SubSeqProperties
<1> QED BY <1>3, SeqIsSeq

LEMMA BE32IsSeq ==
    ASSUME NEW n
    PROVE  IsSeq(BE32(n)) /\ Len(BE32(n)) = 4
<1> DEFINE a == n \div 16777216
           b == (n \div 65536) % 256
           c == (n \div 256) % 256
           d == n % 256
           low == <<a, b, c, d>>
<1>1. IsSeq(low) /\ Len(low) = 4
    <2> HIDE DEF a, b, c, d
    <2>1. low \in Seq({a, b, c, d}) /\ Len(low) = 4
        OBVIOUS
    <2> HIDE DEF low
    <2> QED BY <2>1, SeqIsSeq
<1>2. Word(n) = Fill(8 - Len(low), 0) \o low
    BY DEF Word, WordOf
<1> HIDE DEF low
<1>3. IsSeq(Fill(4, 0)) /\ Len(Fill(4, 0)) = 4
    <2>1. Fill(4, 0) \in Seq({0}) /\ Len(Fill(4, 0)) = 4
        BY DEF Fill
    <2> QED BY <2>1, SeqIsSeq
<1>4. 8 - Len(low) = 4
    BY <1>1
<1>5. IsSeq(Word(n)) /\ Len(Word(n)) = 8
    <2>1. Word(n) = Fill(4, 0) \o low
        BY <1>2, <1>4
    <2> DEFINE fill == Fill(4, 0)
    <2> HIDE DEF fill
    <2>2. IsSeq(fill) /\ Len(fill) = 4
        BY <1>3 DEF fill
    <2>3. IsSeq(fill \o low) /\ Len(fill \o low) = 4 + 4
        BY <1>1, <2>2, ConcatIsSeq
    <2> QED BY <2>1, <2>3 DEF fill
<1>6. IsSeq(BE32(n)) /\ Len(BE32(n)) = 4
    <2>1. 5 \in 1..Len(Word(n)) /\ 8 \in 5..Len(Word(n)) /\ 8 - 5 + 1 = 4
        BY <1>5
    <2> QED BY <1>5, <2>1, SubSeqIsSeq DEF BE32
<1> QED BY <1>6

LEMMA LE32IsSeq ==
    ASSUME NEW n
    PROVE  IsSeq(LE32(n)) /\ Len(LE32(n)) = 4
    BY BE32IsSeq, ReverseIsSeq DEF LE32

LEMMA LE16IsSeq ==
    ASSUME NEW n
    PROVE  IsSeq(LE16(n)) /\ Len(LE16(n)) = 2
<1>1. Len(LE32(n)) = 4
    BY LE32IsSeq
<1>2. 1 \in 1..Len(LE32(n)) /\ 2 \in 1..Len(LE32(n)) /\ 2 - 1 + 1 = 2
    BY <1>1
<1> QED BY <1>2, LE32IsSeq, SubSeqIsSeq DEF LE16

LEMMA PcapWriteIsSeq ==
    ASSUME NEW first, NEW layer, IsSeq(layer.data)
    PROVE  IsSeq(PcapWrite(first, layer))
<1>1. IsSeq(<<>>)
    BY EmptySeq, SeqIsSeq
<1>2. ASSUME NEW network PROVE IsSeq(PcapHeader(0, network))
    <2>1. IsSeq(LE16(2) \o LE16(4))
        BY LE16IsSeq, ConcatIsSeq
    <2>2. IsSeq((LE16(2) \o LE16(4)) \o LE32(0))
        BY <2>1, LE32IsSeq, ConcatIsSeq
    <2>3. IsSeq(((LE16(2) \o LE16(4)) \o LE32(0)) \o LE32(0))
        BY <2>2, LE32IsSeq, ConcatIsSeq
    <2>4. IsSeq((((LE16(2) \o LE16(4)) \o LE32(0)) \o LE32(0)) \o LE32(0))
        BY <2>3, LE32IsSeq, ConcatIsSeq
    <2> QED BY <2>4, LE32IsSeq, ConcatIsSeq DEF PcapHeader
<1> DEFINE start == IF first THEN <<>> ELSE PcapHeader(0, FieldOf(layer, "link.type"))
           sec == LE32(FieldOf(layer, "link.timestamp.sec"))
           usec == LE32(FieldOf(layer, "link.timestamp.usec"))
           len == LE32(Len(layer.data))
           actlen == LE32(FieldOf(layer, "link.length"))
<1>3. IsSeq(start) /\ IsSeq(sec) /\ IsSeq(usec) /\ IsSeq(len) /\ IsSeq(actlen)
    BY <1>1, <1>2, LE32IsSeq
<1>4. PcapWrite(first, layer) = ((((start \o sec) \o usec) \o len) \o actlen) \o layer.data
    BY DEF PcapWrite
<1> HIDE DEF start, sec, usec, len, actlen
<1>5. IsSeq((start \o sec) \o usec)
    BY <1>3, ConcatIsSeq
<1>6. IsSeq((((start \o sec) \o usec) \o len) \o actlen)
    BY <1>3, <1>5, ConcatIsSeq
<1> QED BY <1>4, <1>6, ConcatIsSeq

LEMMA GenetPiecesIsSeq ==
    ASSUME NEW kept, IsSeq(kept.entries)
    PROVE  IsSeq(GenetPieces(kept))
<1> DEFINE entries == kept.entries
           pieces == [i \in 1..3 * Len(entries) |->
                         <<"length", entries[(i + 2) \div 3].frame,
                           entries[(i + 2) \div 3].data>>[1 + ((i + 2) % 3)]]
<1>1. IsSeq(pieces)
    <2>1. 3 * Len(entries) \in Nat
        BY LenOfSeq
    <2>2. DOMAIN pieces = 1..3 * Len(entries) /\ pieces = [i \in DOMAIN pieces |-> pieces[i]]
        OBVIOUS
    <2> HIDE DEF pieces, entries
    <2> QED BY <2>1, <2>2, FunctionIsSeq
<1>2. PICK tables : GenetPieces(kept) = <<"length", tables>> \o pieces
    BY DEF GenetPieces
<1>3. IsSeq(<<"length", tables>>)
    <2>1. <<"length", tables>> \in Seq({"length", tables})
        OBVIOUS
    <2> QED BY <2>1, SeqIsSeq
<1> HIDE DEF pieces
<1> QED BY <1>1, <1>2, <1>3, ConcatIsSeq

---------------------------------------------------------------------------
(* An export.                                                                 *)

\* What is exported: layers whose payloads are sequences.
Exportable(layers) == IsSeq(layers) /\ \A i \in DOMAIN layers : IsSeq(layers[i].data)

\* An export and a reading by themselves, of any frames.
ExportStep == ForeignFile \/ \E layers : Exportable(layers) /\ ExportNext(layers)
ExportSpec == ExportInit /\ [][ExportStep]_exportVars

\* All but a buffer is in the file, or all the disk can hold.
Held == /\ disk = Len(written) \/ disk = room
        /\ Len(written) - disk <= BufferSize

\* The file is a part of what was written, and within the disk.
Sizes == /\ IsSeq(written) /\ disk \in Nat /\ room \in Nat
         /\ disk <= Len(written) /\ disk <= room

\* The inductive strengthening of DoneMeansWritten.
ExportInv ==
    /\ output \in {"none", "write", "drop", "report", "ended", "dead"}
    /\ outcome \in {"none", "ok", "error"}
    /\ output \in {"none", "write", "report"} => outcome = "none"
    /\ outcome = "ok" => output = "ended"
    /\ output \in {"none", "write", "drop", "report"} => Sizes
    /\ nframes \in Nat /\ (output = "none" => disk = 0)
    /\ output = "write" => /\ Exportable(frames)
                           /\ format # "pcap" => IsSeq(worker.entries)
    /\ output = "drop" => outcome = "error" \/ Len(written) - disk <= BufferSize
    /\ output = "report" \/ outcome = "ok" => Held

LEMMA ExportInitInv == ExportInit => ExportInv
<1>1. IsSeq(<<>>)
    BY EmptySeq, SeqIsSeq
<1> QED BY <1>1, ExportAssumption DEF ExportInit, ExportInv, Sizes

\* A write that is accepted leaves at most a buffer in memory; one that is
\* refused ends the output.
LEMMA WriteSizes ==
    ASSUME Sizes, NEW all, IsSeq(all), NEW next, Write(all, next), UNCHANGED room
    PROVE  /\ Sizes'
           /\ \/ /\ output' = next /\ UNCHANGED outcome
                 /\ Len(written') - disk' <= BufferSize
              \/ output' = "drop" /\ outcome' = "error"
<1>1. Len(all) \in Nat
    BY LenOfSeq
<1>2. CASE Accept(all) /\ output' = next /\ UNCHANGED outcome
    BY <1>1, <1>2 DEF Accept, Sizes
<1>3. CASE Refuse(all)
    BY <1>1, <1>3 DEF Refuse, Sizes
<1> QED BY <1>2, <1>3 DEF Write

LEMMA NewWriterInv ==
    ASSUME ExportInv, NEW layers, Exportable(layers), NewWriter(layers)
    PROVE  ExportInv'
<1>1. /\ output = "none" /\ output' = "write" /\ outcome' = "none" /\ frames' = layers
      /\ room \in Nat /\ disk = 0 /\ UNCHANGED <<room, disk, nframes>>
    BY DEF NewWriter, ExportInv, Sizes
<1>2. IsSeq(written')
    <2>1. <<77, 60, 178, 161>> \in Seq({77, 60, 178, 161})
        OBVIOUS
    <2>2. IsSeq(<<77, 60, 178, 161>>) /\ IsSeq(<<>>)
        BY <2>1, EmptySeq, SeqIsSeq
    <2>3. written' = <<77, 60, 178, 161>> \/ written' = <<>>
        BY DEF NewWriter, Magic
    <2> QED BY <2>2, <2>3
<1>3. Sizes'
    <2>1. Len(written') \in Nat
        BY <1>2, LenOfSeq
    <2> QED BY <1>1, <1>2, <2>1 DEF Sizes
<1>4. format' # "pcap" => IsSeq(worker'.entries)
    <2>1. IsSeq(<<>>)
        BY EmptySeq, SeqIsSeq
    <2>2. format' # "pcap" => worker'.entries = <<>>
        BY DEF NewWriter, NewGenetWorker
    <2> QED BY <2>1, <2>2
<1> QED BY <1>1, <1>3, <1>4 DEF ExportInv, Exportable

LEMMA WriteFrameInv ==
    ASSUME ExportInv, WriteFrame
    PROVE  ExportInv'
<1> DEFINE layer == frames[nframes + 1]
<1>1. /\ output = "write" /\ outcome = "none" /\ Sizes /\ Exportable(frames)
      /\ nframes < Len(frames) /\ nframes \in Nat /\ nframes' = nframes + 1
      /\ UNCHANGED <<format, room, frames>>
    BY DEF WriteFrame, ExportInv
<1>2. IsSeq(layer.data)
    <2>1. nframes + 1 \in DOMAIN frames
        BY <1>1, LenOfSeq DEF Exportable
    <2> QED BY <1>1, <2>1 DEF Exportable
<1>3. CASE format = "pcap"
    <2> DEFINE all == written \o PcapWrite(worker.header, layer)
    <2>1. IsSeq(all)
        BY <1>1, <1>2, PcapWriteIsSeq, ConcatIsSeq DEF Sizes
    <2>2. Write(all, "write")
        BY <1>3 DEF WriteFrame
    <2> HIDE DEF all, layer
    <2>3. /\ Sizes'
          /\ \/ /\ output' = "write" /\ UNCHANGED outcome
                /\ Len(written') - disk' <= BufferSize
             \/ output' = "drop" /\ outcome' = "error"
        BY <1>1, <2>1, <2>2, WriteSizes
    <2> QED BY <1>1, <1>3, <2>3 DEF ExportInv, Exportable
<1>4. CASE format # "pcap"
    <2>1. worker' = GenetWrite(worker, layer) /\ UNCHANGED <<written, disk, outcome, output>>
        BY <1>4 DEF WriteFrame
    <2>2. PICK entry : GenetWrite(worker, layer).entries = Append(worker.entries, entry)
        BY DEF GenetWrite
    <2>3. IsSeq(worker.entries)
        BY <1>1, <1>4 DEF ExportInv
    <2>4. IsSeq(worker'.entries)
        BY <2>1, <2>2, <2>3, AppendIsSeq
    <2>5. Sizes'
        BY <1>1, <2>1 DEF Sizes
    <2> QED BY <1>1, <1>4, <2>1, <2>4, <2>5 DEF ExportInv, Exportable
<1> QED BY <1>3, <1>4

LEMMA EndOutputInv ==
    ASSUME ExportInv, EndOutput
    PROVE  ExportInv'
<1> DEFINE all == written \o IF format = "pcap" THEN <<>> ELSE GenetPieces(worker)
<1>1. /\ output = "write" /\ outcome = "none" /\ Sizes
      /\ Write(all, "drop") /\ UNCHANGED <<room, nframes>>
    BY DEF EndOutput, ExportInv
<1>2. IsSeq(all)
    <2>1. IsSeq(<<>>)
        BY EmptySeq, SeqIsSeq
    <2>2. format # "pcap" => IsSeq(GenetPieces(worker))
        BY <1>1, GenetPiecesIsSeq DEF ExportInv
    <2> DEFINE rest == IF format = "pcap" THEN <<>> ELSE GenetPieces(worker)
    <2>3. IsSeq(rest)
        BY <2>1, <2>2
    <2> HIDE DEF rest
    <2>4. IsSeq(written \o rest)
        BY <1>1, <2>3, ConcatIsSeq DEF Sizes
    <2> QED BY <2>4 DEF rest
<1> HIDE DEF all
<1>3. /\ Sizes'
      /\ \/ /\ output' = "drop" /\ UNCHANGED outcome
            /\ Len(written') - disk' <= BufferSize
         \/ output' = "drop" /\ outcome' = "error"
    BY <1>1, <1>2, WriteSizes
<1> QED BY <1>1, <1>3 DEF ExportInv

\* The flush: what it leaves in memory is at most what was there.
LEMMA DropOutputInv ==
    ASSUME ExportInv, DropOutput
    PROVE  ExportInv'
<1>1. /\ output = "drop" /\ Sizes /\ outcome # "ok" /\ nframes \in Nat
      /\ outcome = "error" \/ Len(written) - disk <= BufferSize
      /\ disk' = IF Len(written) < room THEN Len(written) ELSE room
      /\ output' = IF outcome = "error" THEN "ended" ELSE "report"
      /\ UNCHANGED <<room, written, outcome, nframes>>
    BY DEF DropOutput, ExportInv
<1>2. Len(written) \in Nat /\ disk \in Nat /\ room \in Nat
    BY <1>1, LenOfSeq DEF Sizes
<1>3. Sizes'
    BY <1>1, <1>2 DEF Sizes
<1>4. outcome # "error" => Held'
    BY <1>1, <1>2, ExportAssumption DEF Held, Sizes
<1>5. output' \in {"none", "write", "report"} => outcome' = "none"
    BY <1>1 DEF ExportInv
<1> QED BY <1>1, <1>3, <1>4, <1>5 DEF ExportInv

LEMMA EndedInv ==
    ASSUME ExportInv, ReportDone \/ KillWriter \/ ForeignFile
    PROVE  ExportInv'
<1>1. CASE ReportDone
    BY <1>1 DEF ReportDone, ExportInv, Held
<1>2. CASE KillWriter
    BY <1>2 DEF KillWriter, ExportInv
<1>3. CASE ForeignFile
    <2>1. /\ output = "none" /\ output' = "ended" /\ outcome = "none"
          /\ UNCHANGED <<outcome, nframes>>
        BY <1>3 DEF ForeignFile, ExportInv
    <2> QED BY <2>1 DEF ExportInv
<1> QED BY <1>1, <1>2, <1>3

\* Reading the file, or nothing, leaves the writer alone.
LEMMA ReadingInv ==
    ASSUME ExportInv, UNCHANGED writerVars
    PROVE  ExportInv'
    BY DEF ExportInv, Sizes, Held, Exportable, writerVars

LEMMA ExportInductive == ExportSpec => []ExportInv
<1>1. ASSUME ExportInv, [ExportStep]_exportVars PROVE ExportInv'
    <2>1. CASE ForeignFile
        BY <1>1, <2>1, EndedInv
    <2>2. ASSUME NEW layers, Exportable(layers), ExportNext(layers) PROVE ExportInv'
        <3>1. CASE NewWriter(layers)
            BY <1>1, <2>2, <3>1, NewWriterInv
        <3>2. CASE WriteFrame \/ EndOutput \/ DropOutput
            BY <1>1, <3>2, WriteFrameInv, EndOutputInv, DropOutputInv
        <3>3. CASE ReportDone \/ KillWriter
            BY <1>1, <3>3, EndedInv
        <3>4. CASE OpenFile \/ ReadFile
            BY <1>1, <3>4, ReadingInv DEF OpenFile, ReadFile
        <3> QED BY <2>2, <3>1, <3>2, <3>3, <3>4 DEF ExportNext
    <2>3. CASE UNCHANGED exportVars
        BY <1>1, <2>3, ReadingInv DEF exportVars
    <2> QED BY <1>1, <2>1, <2>2, <2>3 DEF ExportStep
<1> QED BY <1>1, ExportInitInv, PTL DEF ExportSpec

\* process_output reports that it is done after the output was dropped, whose
\* flush nobody hears of: whatever the format and the frames, what is missing in
\* the file then is what the disk refused, and at most one buffer.
THEOREM DoneMeansWrittenCorrect == ExportSpec => []DoneMeansWritten
<1>1. ExportInv => DoneMeansWritten
    BY DEF ExportInv, Held, DoneMeansWritten
<1> QED BY <1>1, ExportInductive, PTL

---------------------------------------------------------------------------
(* A capture.                                                                 *)

\* The bytes of a number make the number.
LEMMA NumberOfWord ==
    ASSUME NEW n \in Nat
    PROVE  Number(TryInto(UInt64(Word(n)), 4).val) = n
<1>1. TryInto(UInt64(Word(n)), 4).val = SubSeq(Word(n), 5, 8)
    <2> DEFINE var == UInt64(Word(n))
    <2>1. var[1] = "uint" /\ var[2] = Word(n)
        BY DEF UInt64
    <2> HIDE DEF var
    <2>2. TryInto(var, 4) = Ok(SubSeq(var[2], 9 - 4, 8))
        BY <2>1, Zenon DEF TryInto
    <2>3. 9 - 4 = 5
        OBVIOUS
    <2> QED BY <2>1, <2>2, <2>3 DEF Ok, var
<1> DEFINE b1 == n \div 16777216
           b2 == (n \div 65536) % 256
           b3 == (n \div 256) % 256
           b4 == n % 256
<1>2. /\ b1 \in Nat /\ b2 \in Nat /\ b3 \in Nat /\ b4 \in Nat
      /\ Word(n) = WordOf(<<b1, b2, b3, b4>>, 0)
      /\ 256 * (256 * (256 * b1 + b2) + b3) + b4 = n
    <2> DEFINE q1 == n \div 256
               q2 == n \div 65536
    <2>1. q1 \in Nat /\ n = 256 * q1 + b4 /\ b4 \in Nat
        OBVIOUS
    <2>2. q2 \in Nat /\ q1 = 256 * q2 + b3 /\ b3 \in Nat
        OBVIOUS
    <2>3. b1 \in Nat /\ q2 = 256 * b1 + b2 /\ b2 \in Nat
        OBVIOUS
    <2>4. Word(n) = WordOf(<<b1, b2, b3, b4>>, 0)
        BY DEF Word
    <2> HIDE DEF b1, b2, b3, b4, q1, q2
    <2>5. 256 * (256 * (256 * b1 + b2) + b3) + b4 = n
        <3>1. 256 * b1 + b2 = q2 /\ 256 * q2 + b3 = q1 /\ 256 * q1 + b4 = n
            BY <2>1, <2>2, <2>3
        <3> QED BY <3>1
    <2>6. b1 \in Nat /\ b2 \in Nat /\ b3 \in Nat /\ b4 \in Nat
        BY <2>1, <2>2, <2>3
    <2> QED BY <2>4, <2>5, <2>6
<1> HIDE DEF b1, b2, b3, b4
<1> DEFINE b == <<b1, b2, b3, b4>>
<1>3. SubSeq(Word(n), 5, 8) = b
    <2>1. b \in Seq(Nat) /\ Len(b) = 4
        BY <1>2
    <2> HIDE DEF b
    <2> DEFINE zeros == Fill(8 - Len(b), 0)
    <2>2. zeros \in Seq(Nat) /\ Len(zeros) = 4
        BY <2>1 DEF Fill
    <2> HIDE DEF zeros
    <2>3. Word(n) = zeros \o b
        BY <1>2 DEF WordOf, zeros, b
    <2>4. /\ Word(n) \in Seq(Nat) /\ Len(Word(n)) = 8
          /\ \A i \in 1..8 : Word(n)[i] = IF i <= 4 THEN zeros[i] ELSE b[i - 4]
        <3>1. /\ zeros \o b \in Seq(Nat) /\ Len(zeros \o b) = Len(zeros) + Len(b)
              /\ \A i \in 1..Len(zeros) + Len(b) :
                     (zeros \o b)[i] = IF i <= Len(zeros) THEN zeros[i] ELSE b[i - Len(zeros)]
            BY <2>1, <2>2, ConcatProperties
        <3> QED BY <2>1, <2>2, <2>3, <3>1
    <2>5. /\ Len(SubSeq(Word(n), 5, 8)) = 4 /\ SubSeq(Word(n), 5, 8) \in Seq(Nat)
          /\ \A i \in 1..4 : SubSeq(Word(n), 5, 8)[i] = b[i]
        <3>1. \A i \in 1..4 : SubSeq(Word(n), 5, 8)[i] = Word(n)[4 + i] /\ Word(n)[4 + i] = b[i]
            BY <2>1, <2>4
        <3>2. \A i \in 5..8 : Word(n)[i] \in Nat
            <4>1. TAKE i \in 5..8
            <4>2. i \in 1..Len(Word(n)) /\ Word(n) \in Seq(Nat)
                BY <2>4
            <4> QED BY <4>2, ElementOfSeq
        <3>3. Len(SubSeq(Word(n), 5, 8)) = 8 - 5 + 1 /\ SubSeq(Word(n), 5, 8) \in Seq(Nat)
            BY <3>2, SubSeqProperties
        <3> QED BY <3>1, <3>3
    <2> QED BY <2>1, <2>4, <2>5, SeqEqual
<1>4. Number(b) = 256 * (256 * (256 * b1 + b2) + b3) + b4
    <2>1. /\ b[1] = b1 /\ b[2] = b2 /\ b[3] = b3 /\ b[4] = b4 /\ Len(b) = 4
          /\ \A k \in 1..4 : b[k] \in Nat
        BY <1>2
    <2> HIDE DEF b
    <2> DEFINE F(f) == f = [k \in 0..Len(b) |-> IF k = 0 THEN 0 ELSE 256 * f[k - 1] + b[k]]
               upTo == CHOOSE f : F(f)
               g == [k \in 0..4 |->
                        IF k = 0 THEN 0 ELSE IF k = 1 THEN b[1]
                        ELSE IF k = 2 THEN 256 * b[1] + b[2]
                        ELSE IF k = 3 THEN 256 * (256 * b[1] + b[2]) + b[3]
                        ELSE 256 * (256 * (256 * b[1] + b[2]) + b[3]) + b[4]]
    <2>2. F(g)
        <3>1. \A k \in 0..4 : g[k] = IF k = 0 THEN 0 ELSE 256 * g[k - 1] + b[k]
            BY <2>1
        <3> HIDE DEF g
        <3>2. g = [k \in 0..4 |-> g[k]]
            BY DEF g
        <3> QED BY <2>1, <3>1, <3>2
    <2>3. Number(b) = upTo[4]
        BY <2>1 DEF Number
    <2>4. F(upTo)
        <3> HIDE DEF F, g
        <3> QED BY <2>2
    <2>5. upTo[0] = 0 /\ upTo[1] = 256 * upTo[0] + b[1] /\ upTo[2] = 256 * upTo[1] + b[2]
          /\ upTo[3] = 256 * upTo[2] + b[3] /\ upTo[4] = 256 * upTo[3] + b[4]
        <3> HIDE DEF upTo
        <3> QED BY <2>1, <2>4
    <2> QED BY <2>1, <2>3, <2>5
<1> QED BY <1>1, <1>2, <1>3, <1>4

\* The last four bytes of a number, signed or not, are those a file has of it.
LEMMA LowBytes ==
    ASSUME NEW n, NEW var, var = UInt64(Word(n)) \/ var = Int64(Word(n))
    PROVE  TryInto(var, 4).val = BE32(n)
<1>1. var[1] \in {"uint", "int"} /\ var[2] = Word(n)
    BY DEF UInt64, Int64
<1>2. TryInto(var, 4) = Ok(SubSeq(var[2], 9 - 4, 8))
    <2>1. var[1] # "nil" /\ var[1] # "bool" /\ var[1] \in {"int", "uint"}
        BY <1>1
    <2> QED BY <2>1, Zenon DEF TryInto
<1>3. 9 - 4 = 5
    OBVIOUS
<1>4. TryInto(var, 4).val = SubSeq(Word(n), 5, 8)
    BY <1>1, <1>2, <1>3 DEF Ok
<1> QED BY <1>4 DEF BE32

LEMMA NumberOfBytes ==
    ASSUME NEW n \in Nat
    PROVE  Number(BE32(n)) = n
<1>1. TryInto(UInt64(Word(n)), 4).val = BE32(n)
    BY LowBytes
<1> QED BY <1>1, NumberOfWord

\* The attributes of a link layer have the numbers it was made with.
LEMMA LinkField ==
    ASSUME NEW network, NEW val, NEW data,
           NEW actlen \in Nat, NEW sec \in Nat, NEW usec \in Nat
    PROVE  LET layer == LinkLayer(LinkClass(network, val), data, actlen, sec, usec)
           IN  /\ FieldOf(layer, "link.length") = actlen
               /\ FieldOf(layer, "link.timestamp.sec") = sec
               /\ FieldOf(layer, "link.timestamp.usec") = usec
               /\ network \in Nat /\ val \in {UInt64(Word(network)), Int64(Word(network))} =>
                      FieldOf(layer, "link.type") = network
<1> DEFINE class == LinkClass(network, val)
           own == Typed("link.type", "", val)
<1>0. class.aliases = <<>> /\ class.headers = <<own>>
    BY DEF LinkClass, LayerClass
<1> HIDE DEF class, own
<1> DEFINE layer == LinkLayer(class, data, actlen, sec, usec)
           time == Typed("link.timestamp", "@datetime:unix", <<"float", <<sec, usec>>>>)
           all == <<NumberAttr("link.length", actlen), time,
                    NumberAttr("link.timestamp.sec", sec),
                    NumberAttr("link.timestamp.usec", usec), own>>
<1>1. layer.class = class /\ layer.attrs \o class.headers = all
    <2>1. \A attrs : /\ [NewLayer(class, data) EXCEPT !.attrs = attrs].attrs = attrs
                     /\ [NewLayer(class, data) EXCEPT !.attrs = attrs].class = class
        <3>1. ASSUME NEW new, NEW attrs, "attrs" \in DOMAIN new, "class" \in DOMAIN new
              PROVE  /\ [new EXCEPT !.attrs = attrs].attrs = attrs
                     /\ [new EXCEPT !.attrs = attrs].class = new.class
            BY <3>1, Zenon
        <3>2. /\ "attrs" \in DOMAIN NewLayer(class, data) /\ "class" \in DOMAIN NewLayer(class, data)
              /\ NewLayer(class, data).class = class
            BY DEF NewLayer
        <3> QED BY <3>1, <3>2, Zenon
    <2>2. layer.class = class /\ layer.attrs = <<all[1], all[2], all[3], all[4]>>
        BY <2>1, Zenon DEF LinkLayer
    <2>3. \A w, x, y, z, u : <<w, x, y, z>> \o <<u>> = <<w, x, y, z, u>>
        <3>1. TAKE w, x, y, z, u
        <3> DEFINE S == {w, x, y, z, u}
                   s == <<w, x, y, z>>
                   t == <<u>>
                   r == <<w, x, y, z, u>>
        <3>2. s \in Seq(S) /\ t \in Seq(S) /\ r \in Seq(S) /\ Len(s) = 4 /\ Len(t) = 1 /\ Len(r) = 5
            OBVIOUS
        <3>3. \A i \in 1..5 : r[i] = IF i <= 4 THEN s[i] ELSE t[i - 4]
            OBVIOUS
        <3> HIDE DEF S, s, t, r
        <3>4. s \o t \in Seq(S) /\ Len(s \o t) = 5
              /\ \A i \in 1..5 : (s \o t)[i] = IF i <= 4 THEN s[i] ELSE t[i - 4]
            <4>1. /\ s \o t \in Seq(S) /\ Len(s \o t) = Len(s) + Len(t)
                  /\ \A i \in 1..Len(s) + Len(t) :
                         (s \o t)[i] = IF i <= Len(s) THEN s[i] ELSE t[i - Len(s)]
                BY <3>2, ConcatProperties
            <4> QED BY <3>2, <4>1
        <3>5. s \o t = r
            <4>1. Len(s \o t) = Len(r) /\ \A i \in 1..Len(s \o t) : (s \o t)[i] = r[i]
                BY <3>2, <3>3, <3>4
            <4> QED BY <3>2, <3>4, <4>1, SeqEqual
        <3> QED BY <3>5 DEF s, t, r
    <2> QED BY <1>0, <2>2, <2>3
<1>3. ASSUME NEW id, NEW k \in 1..5, all[k].class.id = id,
             \A j \in 1..5 : all[j].class.id = id => k <= j
      PROVE  LayerAttr(layer, id) = <<all[k]>>
    <2> DEFINE found == {i \in DOMAIN all : all[i].class.id = id}
    <2>1. DOMAIN all = 1..5
        OBVIOUS
    <2> HIDE DEF all, layer
    <2>2. k \in found /\ \A j \in found : k <= j
        BY <1>3, <2>1
    <2>3. (CHOOSE i \in found : \A j \in found : i <= j) = k
        <3>1. found \subseteq Nat
            BY <2>1
        <3>2. \A i \in found : (\A j \in found : i <= j) => i = k
            BY <2>2, <3>1
        <3> HIDE DEF found
        <3> QED BY <2>2, <3>2
    <2>4. LayerAttr(layer, id) = <<all[k]>>
        <3> DEFINE alias == Find(layer.class.aliases, LAMBDA a : a[1] = id)
                   target == IF Found(alias) THEN alias[1][2] ELSE id
        <3>1. alias = <<>>
            BY <1>0, <1>1 DEF Find
        <3>2. target = id
            BY <3>1 DEF Found
        <3>3. LayerAttr(layer, id) = Find(layer.attrs \o layer.class.headers,
                                         LAMBDA a : a.class.id = target)
            BY DEF LayerAttr
        <3> HIDE DEF target
        <3> QED BY <1>1, <2>2, <2>3, <3>2, <3>3 DEF Find
    <2> QED BY <2>4
<1>4. ASSUME NEW id, NEW n \in Nat, LayerAttr(layer, id) = <<NumberAttr(id, n)>>
      PROVE  FieldOf(layer, id) = n
    <2>1. AttrTryGet(NumberAttr(id, n), layer).val = UInt64(Word(n))
        BY DEF AttrTryGet, FromFfi, AbiGet, IsValue, NumberAttr, Typed, ValueAttr, AttrClass,
               NoCast, UInt64, Ok
    <2> QED BY <1>4, <2>1, NumberOfWord DEF FieldOf, Found
<1>5. /\ all[1].class.id = "link.length" /\ all[2].class.id = "link.timestamp"
      /\ all[3].class.id = "link.timestamp.sec" /\ all[4].class.id = "link.timestamp.usec"
    BY DEF NumberAttr, Typed, ValueAttr, AttrClass
<1>6. LayerAttr(layer, "link.length") = <<all[1]>>
    <2>1. 1 \in 1..5 /\ \A j \in 1..5 : 1 <= j
        OBVIOUS
    <2> QED BY <1>3, <1>5, <2>1
<1>7. LayerAttr(layer, "link.timestamp.sec") = <<all[3]>>
    <2> HIDE DEF all
    <2>1. 3 \in 1..5 /\ \A j \in 1..5 : all[j].class.id = "link.timestamp.sec" => 3 <= j
        BY <1>5
    <2> QED BY <1>3, <1>5, <2>1
<1>8. LayerAttr(layer, "link.timestamp.usec") = <<all[4]>>
    <2> HIDE DEF all
    <2>1. 4 \in 1..5 /\ \A j \in 1..5 : all[j].class.id = "link.timestamp.usec" => 4 <= j
        BY <1>5
    <2> QED BY <1>3, <1>5, <2>1
<1>9. LayerAttr(layer, "link.type") = <<own>>
    <2>1. own.class.id = "link.type"
        BY DEF own, Typed, ValueAttr, AttrClass
    <2>2. all[5] = own
        OBVIOUS
    <2> HIDE DEF all
    <2>3. 5 \in 1..5 /\ \A j \in 1..5 : all[j].class.id = "link.type" => 5 <= j
        BY <1>5
    <2> QED BY <1>3, <2>1, <2>2, <2>3
<1>10. ASSUME network \in Nat, val \in {UInt64(Word(network)), Int64(Word(network))}
       PROVE  FieldOf(layer, "link.type") = network
    <2>1. AttrTryGet(own, layer).val = val
        <3>1. val[1] # "bigint"
            BY <1>10 DEF UInt64, Int64
        <3> QED BY <3>1 DEF AttrTryGet, FromFfi, AbiGet, IsValue, own, Typed, ValueAttr, AttrClass,
                            NoCast, Ok
    <2>2. Number(TryInto(val, 4).val) = network
        BY <1>10, LowBytes, NumberOfBytes
    <2> QED BY <1>9, <2>1, <2>2 DEF FieldOf, Found
<1> QED BY <1>4, <1>6, <1>7, <1>8, <1>10 DEF class

\* Where a stream of lines and data is: before the header of a packet, or
\* between its header and its data; with the number of the packets before.
Positions == Nat \X {"line", "data"}

\* What leads from one position to another.
Carries(item, from, to) ==
    \/ item = Blank /\ from[2] = "line" /\ to = from
    \/ /\ item = [line |-> <<Header(Packets[from[1] + 1])>>]
       /\ from[2] = "line" /\ to = <<from[1], "data">>
    \/ /\ item = [data |-> Packets[from[1] + 1].data]
       /\ from[2] = "data" /\ to = <<from[1] + 1, "line">>

\* Only the first n packets are on their way.
Within(position, n) ==
    /\ position \in Positions /\ position[1] <= n
    /\ position[2] = "data" => position[1] < n

\* f says for every place in the stream which position it is.
Numbered(s, n, f) ==
    /\ DOMAIN f = 1..(Len(s) + 1)
    /\ \A i \in 1..(Len(s) + 1) : Within(f[i], n)
    /\ \A i \in 1..Len(s) : Carries(s[i], f[i], f[i + 1])

\* The stream has, between two positions, the packets in their order.
Transit(s, n, from, to) ==
    \E f : Numbered(s, n, f) /\ f[1] = from /\ f[Len(s) + 1] = to

LEMMA TransitAppend ==
    ASSUME NEW s, IsSeq(s), NEW n, NEW from, NEW to, NEW item, NEW next,
           Transit(s, n, from, to), Carries(item, to, next), Within(next, n)
    PROVE  Transit(Append(s, item), n, from, next)
<1>1. PICK f : Numbered(s, n, f) /\ f[1] = from /\ f[Len(s) + 1] = to
    BY DEF Transit
<1>2. Len(s) \in Nat
    BY LenOfSeq
<1>3. /\ Len(Append(s, item)) = Len(s) + 1 /\ Append(s, item)[Len(s) + 1] = item
      /\ \A i \in 1..Len(s) : Append(s, item)[i] = s[i]
    BY AppendElems
<1> DEFINE g == [i \in 1..(Len(s) + 2) |-> IF i = Len(s) + 2 THEN next ELSE f[i]]
           t == Append(s, item)
<1>4. /\ \A i \in 1..(Len(s) + 1) : g[i] = f[i]
      /\ g[Len(s) + 2] = next /\ DOMAIN g = 1..(Len(s) + 2)
    BY <1>2
<1> HIDE DEF g, t
<1>5. Len(t) = Len(s) + 1 /\ Len(t) + 1 = Len(s) + 2
    BY <1>2, <1>3 DEF t
<1>6. \A i \in 1..(Len(t) + 1) : Within(g[i], n)
    <2>1. TAKE i \in 1..(Len(t) + 1)
    <2>2. CASE i = Len(s) + 2
        BY <1>4, <2>2
    <2>3. CASE i # Len(s) + 2
        <3>1. i \in 1..(Len(s) + 1)
            BY <1>2, <1>5, <2>3
        <3> QED BY <1>1, <1>4, <3>1 DEF Numbered
    <2> QED BY <2>2, <2>3
<1>7. \A i \in 1..Len(t) : Carries(t[i], g[i], g[i + 1])
    <2>1. TAKE i \in 1..Len(t)
    <2>2. CASE i = Len(s) + 1
        <3>1. t[i] = item /\ g[i] = to /\ g[i + 1] = next
            BY <1>1, <1>2, <1>3, <1>4, <2>2 DEF t
        <3> QED BY <3>1
    <2>3. CASE i # Len(s) + 1
        <3>1. i \in 1..Len(s) /\ i \in 1..(Len(s) + 1) /\ i + 1 \in 1..(Len(s) + 1)
            BY <1>2, <1>5, <2>3
        <3>2. t[i] = s[i] /\ g[i] = f[i] /\ g[i + 1] = f[i + 1]
            BY <1>3, <1>4, <3>1 DEF t
        <3> QED BY <1>1, <3>1, <3>2 DEF Numbered
    <2> QED BY <2>2, <2>3
<1>8. Numbered(t, n, g)
    BY <1>4, <1>5, <1>6, <1>7 DEF Numbered
<1>9. g[1] = from /\ g[Len(t) + 1] = next
    <2>1. 1 \in 1..(Len(s) + 1)
        BY <1>2
    <2> QED BY <1>1, <1>4, <1>5, <2>1
<1> QED BY <1>8, <1>9 DEF Transit, t

LEMMA TransitMore ==
    ASSUME NEW s, NEW n \in Nat, NEW m \in Nat, n <= m, NEW from, NEW to,
           Transit(s, n, from, to)
    PROVE  Transit(s, m, from, to)
<1>1. PICK f : Numbered(s, n, f) /\ f[1] = from /\ f[Len(s) + 1] = to
    BY DEF Transit
<1>2. ASSUME NEW p, Within(p, n) PROVE Within(p, m)
    BY <1>2 DEF Within, Positions
<1>3. Numbered(s, m, f)
    BY <1>1, <1>2 DEF Numbered
<1> QED BY <1>1, <1>3 DEF Transit

LEMMA TransitPart ==
    ASSUME NEW s, NEW t, IsSeq(s), IsSeq(t), NEW n, NEW from, NEW to,
           Transit(s \o t, n, from, to)
    PROVE  \E next : Transit(s, n, from, next)
<1>1. PICK f : Numbered(s \o t, n, f) /\ f[1] = from
    BY DEF Transit
<1>2. Len(s) \in Nat /\ Len(t) \in Nat /\ Len(s \o t) = Len(s) + Len(t)
    BY LenOfSeq, ConcatIsSeq
<1>3. \A i \in 1..Len(s) : (s \o t)[i] = s[i]
    BY ConcatElems
<1> DEFINE g == [i \in 1..(Len(s) + 1) |-> f[i]]
<1>4. DOMAIN g = 1..(Len(s) + 1) /\ \A i \in 1..(Len(s) + 1) : g[i] = f[i]
    OBVIOUS
<1> HIDE DEF g
<1>5. Numbered(s, n, g)
    <2>1. \A i \in 1..(Len(s) + 1) : i \in 1..(Len(s \o t) + 1)
        BY <1>2
    <2>2. \A i \in 1..(Len(s) + 1) : Within(g[i], n)
        BY <1>1, <1>4, <2>1 DEF Numbered
    <2>3. \A i \in 1..Len(s) : Carries(s[i], g[i], g[i + 1])
        <3>1. TAKE i \in 1..Len(s)
        <3>2. /\ i \in 1..(Len(s) + 1) /\ i + 1 \in 1..(Len(s) + 1)
              /\ i \in 1..Len(s \o t)
            BY <1>2
        <3>3. Carries((s \o t)[i], f[i], f[i + 1])
            BY <1>1, <3>2 DEF Numbered
        <3> QED BY <1>3, <1>4, <3>2, <3>3
    <2> QED BY <1>4, <2>2, <2>3 DEF Numbered
<1>6. g[1] = from
    BY <1>1, <1>2, <1>4
<1> QED BY <1>5, <1>6 DEF Transit

LEMMA TransitTail ==
    ASSUME NEW s, IsSeq(s), s # <<>>, NEW n, NEW from, NEW to, Transit(s, n, from, to)
    PROVE  \E next : Within(next, n) /\ Carries(Head(s), from, next)
                     /\ Transit(Tail(s), n, next, to)
<1>1. PICK f : Numbered(s, n, f) /\ f[1] = from /\ f[Len(s) + 1] = to
    BY DEF Transit
<1>2. /\ Len(s) \in Nat \ {0} /\ Head(s) = s[1]
      /\ Len(Tail(s)) = Len(s) - 1 /\ \A i \in 1..Len(Tail(s)) : Tail(s)[i] = s[i + 1]
    <2>1. s \in Seq(Elems(s))
        BY DEF IsSeq
    <2> QED BY <2>1, EmptySeq, HeadTailProperties
<1> DEFINE g == [i \in 1..Len(s) |-> f[i + 1]]
           t == Tail(s)
<1>3. DOMAIN g = 1..Len(s) /\ \A i \in 1..Len(s) : g[i] = f[i + 1]
    OBVIOUS
<1> HIDE DEF g, t
<1>4. Len(t) + 1 = Len(s)
    BY <1>2 DEF t
<1>5. \A i \in 1..(Len(t) + 1) : Within(g[i], n)
    <2>1. TAKE i \in 1..(Len(t) + 1)
    <2>2. i \in 1..Len(s) /\ i + 1 \in 1..(Len(s) + 1)
        BY <1>2, <1>4
    <2> QED BY <1>1, <1>3, <2>2 DEF Numbered
<1>6. \A i \in 1..Len(t) : Carries(t[i], g[i], g[i + 1])
    <2>1. TAKE i \in 1..Len(t)
    <2>2. i \in 1..Len(s) /\ i + 1 \in 1..Len(s)
        BY <1>2 DEF t
    <2>3. Carries(s[i + 1], f[i + 1], f[i + 1 + 1])
        BY <1>1, <2>2 DEF Numbered
    <2>4. t[i] = s[i + 1]
        BY <1>2 DEF t
    <2> QED BY <1>3, <2>2, <2>3, <2>4
<1>7. Numbered(t, n, g)
    BY <1>3, <1>4, <1>5, <1>6 DEF Numbered
<1>8. g[1] = f[2] /\ g[Len(t) + 1] = to
    BY <1>1, <1>2, <1>3, <1>4
<1>9. Carries(Head(s), from, f[2]) /\ Within(f[2], n)
    <2>1. 1 \in 1..Len(s) /\ 1 + 1 = 2 /\ 2 \in 1..(Len(s) + 1)
        BY <1>2
    <2>2. Carries(s[1], f[1], f[1 + 1]) /\ Within(f[2], n)
        BY <1>1, <2>1 DEF Numbered
    <2> QED BY <1>1, <1>2, <2>1, <2>2
<1> QED BY <1>7, <1>8, <1>9 DEF Transit, t

Stream == pipe \o buffer
Printed == sent - Len(queue)

\* The channel has the packets that were not printed yet.
Channel ==
    /\ sent \in 0..Len(Packets) /\ IsSeq(queue) /\ Len(queue) <= sent
    /\ \A i \in 1..Len(queue) : queue[i] = Packets[Printed + i]

\* The pipe and the child's buffer have the others, from where the worker is in
\* its reading up to the last, which is whole while the child runs.
InTransit ==
    \E from, to :
        /\ Transit(Stream, Printed, from, to)
        /\ from[1] = Len(got)
        /\ thread # "dropped" => from[2] = IF thread = "data" THEN "data" ELSE "line"
        /\ child = "running" => to = <<Printed, "line">>

\* The worker's layers are those of the first packets.
Worker ==
    /\ IsSeq(got) /\ Len(got) <= Printed
    /\ \A i \in 1..Len(got) : got[i] = LayerOf(Header(Packets[i]), Packets[i].data)
    /\ thread = "data" => header = Header(Packets[Len(got) + 1])

\* The inductive strengthening of CaptureInOrder.
CaptureInv ==
    /\ IsSeq(pipe) /\ IsSeq(buffer)
    /\ thread \in {"check", "line", "data", "dropped"}
    /\ child \in {"running", "exited", "killed"} /\ (child # "running" => buffer = <<>>)
    /\ Channel /\ InTransit /\ Worker

LEMMA Sound ==
    ASSUME CaptureInv
    PROVE  /\ sent \in Nat /\ Len(queue) \in Nat /\ Printed \in Nat /\ Len(got) \in Nat
           /\ IsSeq(Stream) /\ Len(Packets) \in Nat
<1>1. Len(Packets) \in Nat
    BY CaptureAssumption, LenProperties
<1>2. Len(queue) \in Nat /\ Len(got) \in Nat
    BY LenOfSeq DEF CaptureInv, Channel, Worker
<1>3. sent \in Nat /\ Len(queue) <= sent
    BY <1>1 DEF CaptureInv, Channel
<1> QED BY <1>1, <1>2, <1>3, ConcatIsSeq DEF CaptureInv, Stream, Printed

LEMMA CaptureInitInv == CaptureInit => CaptureInv
<1> SUFFICES ASSUME CaptureInit PROVE CaptureInv
    OBVIOUS
<1>1. IsSeq(<<>>) /\ Len(<<>>) = 0
    BY EmptySeq, SeqIsSeq
<1>2. Len(Packets) \in Nat
    BY CaptureAssumption, LenProperties
<1>3. Channel
    BY <1>1, <1>2 DEF CaptureInit, Channel
<1>4. Worker
    BY <1>1 DEF CaptureInit, Worker, Printed
<1>5. InTransit
    <2>1. Stream = <<>> /\ Printed = 0
        <3>1. <<>> \o <<>> = <<>>
            BY EmptySeq, ConcatEmptySeq
        <3>2. Stream = <<>>
            BY <3>1 DEF CaptureInit, Stream
        <3>3. Len(queue) = 0 /\ sent = 0
            BY <1>1 DEF CaptureInit
        <3> QED BY <3>2, <3>3 DEF Printed
    <2> DEFINE f == [i \in 1..1 |-> <<0, "line">>]
    <2>2. Within(<<0, "line">>, 0)
        BY DEF Within, Positions
    <2>3. DOMAIN f = 1..1 /\ f[1] = <<0, "line">>
        OBVIOUS
    <2> HIDE DEF f
    <2>4. Numbered(<<>>, 0, f)
        BY <1>1, <2>2, <2>3 DEF Numbered
    <2>5. Transit(<<>>, 0, <<0, "line">>, <<0, "line">>)
        BY <1>1, <2>3, <2>4 DEF Transit
    <2>6. Transit(Stream, Printed, <<0, "line">>, <<0, "line">>)
        BY <2>1, <2>5
    <2> QED BY <1>1, <2>1, <2>6 DEF CaptureInit, InTransit
<1> QED BY <1>1, <1>3, <1>4, <1>5 DEF CaptureInit, CaptureInv

\* The child is killed: what its buffer had is lost, what the pipe has is not.
LEMMA KilledTransit ==
    ASSUME CaptureInv, child' # "running", buffer' = <<>>, UNCHANGED <<pipe, sent, queue, got>>,
           thread' \in {thread, "dropped"}
    PROVE  InTransit'
<1>1. PICK from, to :
        /\ Transit(Stream, Printed, from, to)
        /\ from[1] = Len(got)
        /\ thread # "dropped" => from[2] = IF thread = "data" THEN "data" ELSE "line"
    BY DEF CaptureInv, InTransit
<1>2. PICK next : Transit(pipe, Printed, from, next)
    <2>1. Transit(pipe \o buffer, Printed, from, to)
        BY <1>1 DEF Stream
    <2> DEFINE n == Printed
    <2> HIDE DEF n
    <2>2. \E next : Transit(pipe, n, from, next)
        BY <2>1, TransitPart DEF CaptureInv, n
    <2> QED BY <2>2 DEF n
<1>3. Stream' = pipe /\ Printed' = Printed
    <2>1. pipe \o <<>> = pipe
        BY ConcatEmptySeq DEF CaptureInv, IsSeq
    <2> QED BY <2>1 DEF Stream, Printed
<1>4. Transit(Stream', Printed', from, next)
    BY <1>2, <1>3
<1> QED BY <1>1, <1>4 DEF InTransit

LEMMA HandlerInv ==
    ASSUME CaptureInv, Handler
    PROVE  CaptureInv'
<1>1. /\ sent' = sent + 1 /\ sent < Len(Packets)
      /\ queue' = Append(queue, Packets[sent + 1])
      /\ UNCHANGED <<buffer, pipe, child, holder, thread, header, got>>
    BY DEF Handler
<1>2. /\ sent \in Nat /\ Len(queue) \in Nat /\ Len(Packets) \in Nat
      /\ Len(queue) <= sent /\ IsSeq(queue)
    BY Sound DEF CaptureInv, Channel
<1>3. /\ IsSeq(queue') /\ Len(queue') = Len(queue) + 1
      /\ \A i \in 1..Len(queue) : queue'[i] = queue[i]
      /\ queue'[Len(queue) + 1] = Packets[sent + 1]
    BY <1>1, <1>2, AppendIsSeq, AppendElems
<1>4. Printed' = Printed
    BY <1>1, <1>2, <1>3 DEF Printed
<1>5. Channel'
    <2>1. \A i \in 1..Len(queue') : queue'[i] = Packets[Printed + i]
        <3>1. TAKE i \in 1..Len(queue')
        <3>2. CASE i = Len(queue) + 1
            BY <1>2, <1>3, <3>2 DEF Printed
        <3>3. CASE i # Len(queue) + 1
            <4>1. i \in 1..Len(queue)
                BY <1>2, <1>3, <3>3
            <4> QED BY <1>3, <4>1 DEF CaptureInv, Channel
        <3> QED BY <3>2, <3>3
    <2> QED BY <1>1, <1>2, <1>3, <1>4, <2>1 DEF Channel
<1>6. InTransit' /\ Worker'
    <2>1. Stream' = Stream /\ UNCHANGED <<got, thread, child, header>>
        BY <1>1 DEF Stream
    <2> QED BY <1>4, <2>1 DEF CaptureInv, InTransit, Worker
<1> QED BY <1>1, <1>5, <1>6 DEF CaptureInv

\* The next packet of the channel goes behind the last in the stream.
LEMMA PrintPacketInv ==
    ASSUME CaptureInv, PrintPacket
    PROVE  CaptureInv'
<1> DEFINE p == Packets[Printed + 1]
           line == [line |-> <<Header(p)>>]
           data == [data |-> p.data]
<1>1. /\ sent \in Nat /\ Len(queue) \in Nat \ {0} /\ Printed \in Nat
      /\ Head(queue) = p /\ IsSeq(Tail(queue)) /\ Len(Tail(queue)) = Len(queue) - 1
      /\ \A i \in 1..Len(Tail(queue)) : Tail(queue)[i] = queue[i + 1]
    <2>1. queue # <<>> /\ queue \in Seq(Elems(queue))
        BY DEF PrintPacket, CaptureInv, Channel, IsSeq
    <2>2. Len(queue) \in Nat \ {0} /\ Head(queue) = queue[1]
        BY <2>1, EmptySeq
    <2>3. Head(queue) = p
        BY <2>2 DEF CaptureInv, Channel
    <2>4. IsSeq(Tail(queue))
        BY <2>1, HeadTailProperties, SeqIsSeq
    <2> QED BY <2>1, <2>2, <2>3, <2>4, Sound, HeadTailProperties
<1>2. /\ queue' = Tail(queue) /\ child = "running"
      /\ pipe' = (pipe \o buffer) \o <<line>> /\ buffer' = <<data>>
      /\ UNCHANGED <<sent, child, holder, thread, header, got>>
    BY <1>1 DEF PrintPacket
<1>3. Printed' = Printed + 1
    BY <1>1, <1>2 DEF Printed
<1>4. Channel'
    <2>1. \A i \in 1..Len(queue') : queue'[i] = Packets[Printed' + i]
        <3>1. TAKE i \in 1..Len(queue')
        <3>2. i + 1 \in 1..Len(queue) /\ queue'[i] = queue[i + 1]
            BY <1>1, <1>2
        <3>3. queue[i + 1] = Packets[Printed + (i + 1)]
            BY <3>2 DEF CaptureInv, Channel
        <3>4. Printed + (i + 1) = Printed' + i
            BY <1>1, <1>3, <3>2
        <3> QED BY <3>2, <3>3, <3>4
    <2> QED BY <1>1, <1>2, <2>1 DEF CaptureInv, Channel
<1>5. PICK from, to :
        /\ Transit(Stream, Printed, from, to)
        /\ from[1] = Len(got)
        /\ thread # "dropped" => from[2] = IF thread = "data" THEN "data" ELSE "line"
        /\ to = <<Printed, "line">>
    BY <1>2 DEF CaptureInv, InTransit
<1> HIDE DEF p
<1>6. /\ Carries(line, <<Printed, "line">>, <<Printed, "data">>)
      /\ Carries(data, <<Printed, "data">>, <<Printed + 1, "line">>)
    BY DEF Carries, p
<1>7. /\ Within(<<Printed, "data">>, Printed + 1)
      /\ Within(<<Printed + 1, "line">>, Printed + 1)
    BY <1>1 DEF Within, Positions
<1> HIDE DEF line, data
<1>8. /\ IsSeq(Stream) /\ IsSeq(pipe') /\ pipe' = Append(Stream, line)
      /\ Stream' = Append(pipe', data) /\ IsSeq(buffer')
    <2>1. IsSeq(Stream)
        BY Sound
    <2>2. pipe' = Append(Stream, line)
        BY <1>2, <2>1, AppendElems DEF Stream
    <2>3. IsSeq(pipe')
        BY <2>1, <2>2, AppendIsSeq
    <2>4. IsSeq(buffer')
        <3>1. <<data>> \in Seq({data})
            OBVIOUS
        <3> QED BY <1>2, <3>1, SeqIsSeq
    <2>5. Stream' = Append(pipe', data)
        BY <1>2, <2>3, AppendElems DEF Stream
    <2> QED BY <2>1, <2>2, <2>3, <2>4, <2>5
<1>9. Transit(Stream', Printed', from, <<Printed + 1, "line">>)
    <2> DEFINE n == Printed
               m == Printed + 1
               a == <<Printed, "line">>
               b == <<Printed, "data">>
               c == <<Printed + 1, "line">>
    <2>1. /\ n \in Nat /\ m \in Nat /\ n <= m /\ Transit(Stream, n, from, a)
          /\ Carries(line, a, b) /\ Carries(data, b, c) /\ Within(b, m) /\ Within(c, m)
        BY <1>1, <1>5, <1>6, <1>7
    <2>2. m = Printed' /\ c = <<Printed + 1, "line">>
        BY <1>3
    <2> HIDE DEF n, m, a, b, c
    <2>3. Transit(Stream, m, from, a)
        BY <2>1, TransitMore
    <2>4. Transit(pipe', m, from, b)
        BY <1>8, <2>1, <2>3, TransitAppend
    <2>5. Transit(Stream', m, from, c)
        BY <1>8, <2>1, <2>4, TransitAppend
    <2> QED BY <2>2, <2>5
<1>10. InTransit'
    BY <1>2, <1>3, <1>5, <1>9 DEF InTransit
<1>11. Worker'
    <2>1. Len(got) \in Nat /\ Len(got) <= Printed /\ UNCHANGED <<got, thread, header>>
        BY <1>2, Sound DEF CaptureInv, Worker
    <2>2. Len(got') <= Printed'
        BY <1>1, <1>3, <2>1
    <2> QED BY <2>1, <2>2 DEF CaptureInv, Worker
<1> QED BY <1>2, <1>4, <1>8, <1>10, <1>11 DEF CaptureInv

LEMMA PrintBlankInv ==
    ASSUME CaptureInv, PrintBlank
    PROVE  CaptureInv'
<1>1. /\ child = "running" /\ pipe' = Stream \o <<Blank>> /\ buffer' = <<>>
      /\ UNCHANGED <<sent, queue, child, holder, thread, header, got>>
    BY DEF PrintBlank, Stream
<1>2. PICK from, to :
        /\ Transit(Stream, Printed, from, to)
        /\ from[1] = Len(got)
        /\ thread # "dropped" => from[2] = IF thread = "data" THEN "data" ELSE "line"
        /\ to = <<Printed, "line">>
    BY <1>1 DEF CaptureInv, InTransit
<1>3. /\ IsSeq(Stream) /\ pipe' = Append(Stream, Blank) /\ IsSeq(pipe')
      /\ IsSeq(buffer') /\ Stream' = pipe'
    <2>1. IsSeq(Stream)
        BY Sound
    <2>2. pipe' = Append(Stream, Blank)
        BY <1>1, <2>1, AppendElems
    <2>3. IsSeq(pipe')
        BY <2>1, <2>2, AppendIsSeq
    <2>4. pipe' \o <<>> = pipe'
        BY <2>3, ConcatEmptySeq DEF IsSeq
    <2>5. IsSeq(buffer')
        BY <1>1, EmptySeq, SeqIsSeq
    <2> QED BY <1>1, <2>1, <2>2, <2>3, <2>4, <2>5 DEF Stream
<1>4. Printed' = Printed /\ Printed \in Nat
    BY <1>1, Sound DEF Printed
<1>5. Carries(Blank, to, to) /\ Within(to, Printed)
    BY <1>2, <1>4 DEF Carries, Within, Positions
<1>6. Transit(Stream', Printed', from, to)
    <2> DEFINE n == Printed
               item == Blank
    <2>1. Transit(Stream, n, from, to) /\ Carries(item, to, to) /\ Within(to, n)
        BY <1>2, <1>5
    <2>2. Stream' = Append(Stream, item) /\ Printed' = n
        BY <1>3, <1>4
    <2> HIDE DEF n, item
    <2>3. Transit(Append(Stream, item), n, from, to)
        BY <1>3, <2>1, TransitAppend
    <2> QED BY <2>2, <2>3
<1>7. InTransit'
    BY <1>1, <1>2, <1>4, <1>6 DEF InTransit
<1>8. Channel' /\ Worker'
    BY <1>1, <1>4 DEF CaptureInv, Channel, Worker
<1> QED BY <1>1, <1>3, <1>7, <1>8 DEF CaptureInv

LEMMA ChildEndsInv ==
    ASSUME CaptureInv, ChildExit \/ ChildCrash
    PROVE  CaptureInv'
<1>1. /\ buffer' = <<>> /\ child' \in {"exited", "killed"}
      /\ UNCHANGED <<sent, queue, holder, thread, header, got>>
    BY DEF ChildExit, ChildCrash
<1>2. IsSeq(<<>>)
    BY EmptySeq, SeqIsSeq
<1>3. Printed' = Printed
    BY <1>1 DEF Printed
<1>4. Channel' /\ Worker'
    BY <1>1, <1>3 DEF CaptureInv, Channel, Worker
<1>5. CASE ChildExit
    <2>1. pipe' = Stream
        BY <1>5 DEF ChildExit, Stream
    <2>2. IsSeq(pipe') /\ Stream' = Stream
        <3>1. IsSeq(Stream)
            BY Sound
        <3>2. Stream \o <<>> = Stream
            BY <3>1, ConcatEmptySeq DEF IsSeq
        <3>3. Stream' = Stream \o <<>>
            BY <1>1, <2>1 DEF Stream
        <3> QED BY <2>1, <3>1, <3>2, <3>3
    <2>3. InTransit'
        BY <1>1, <1>3, <2>2 DEF CaptureInv, InTransit
    <2> QED BY <1>1, <1>2, <1>4, <2>2, <2>3 DEF CaptureInv
<1>6. CASE ChildCrash
    <2>1. UNCHANGED pipe
        BY <1>6 DEF ChildCrash
    <2>2. InTransit'
        BY <1>1, <2>1, KilledTransit
    <2> QED BY <1>1, <1>2, <1>4, <2>1, <2>2 DEF CaptureInv
<1> QED BY <1>5, <1>6

\* The thread ends, and with it a child that runs.
LEMMA DropInv ==
    ASSUME CaptureInv, DropWorker, UNCHANGED <<sent, queue, pipe, holder, header, got>>
    PROVE  CaptureInv'
<1>1. /\ thread' = "dropped" /\ child' \in {"exited", "killed"} /\ buffer' = <<>>
    BY DEF DropWorker, CaptureInv
<1>2. IsSeq(<<>>)
    BY EmptySeq, SeqIsSeq
<1>3. Printed' = Printed
    BY DEF Printed
<1>4. Channel' /\ Worker'
    BY <1>1, <1>3 DEF CaptureInv, Channel, Worker
<1>5. InTransit'
    BY <1>1, KilledTransit
<1> QED BY <1>1, <1>2, <1>4, <1>5 DEF CaptureInv

---------------------------------------------------------------------------
(* The worker.                                                                *)

\* It takes the first item of the pipe, which leads to the next position.
LEMMA Taken ==
    ASSUME CaptureInv, pipe # <<>>, pipe' = Tail(pipe), UNCHANGED <<buffer, sent, queue>>
    PROVE  /\ IsSeq(pipe')
           /\ \E from, next, to :
                /\ Carries(Head(pipe), from, next) /\ Within(next, Printed)
                /\ Transit(Stream', Printed', next, to)
                /\ from[1] = Len(got)
                /\ thread # "dropped" => from[2] = IF thread = "data" THEN "data" ELSE "line"
                /\ child = "running" => to = <<Printed, "line">>
<1>1. PICK from, to :
        /\ Transit(Stream, Printed, from, to)
        /\ from[1] = Len(got)
        /\ thread # "dropped" => from[2] = IF thread = "data" THEN "data" ELSE "line"
        /\ child = "running" => to = <<Printed, "line">>
    BY DEF CaptureInv, InTransit
<1>2. /\ IsSeq(Stream) /\ Stream # <<>> /\ Head(Stream) = Head(pipe)
      /\ Tail(Stream) = Stream'
    <2>1. IsSeq(pipe) /\ IsSeq(buffer) /\ IsSeq(Stream)
        BY Sound DEF CaptureInv
    <2>2. Head(Stream) = Head(pipe) /\ Tail(Stream) = Tail(pipe) \o buffer
        BY <2>1, ConcatElems DEF Stream
    <2>3. Stream # <<>>
        <3>1. Len(pipe) \in Nat \ {0} /\ Len(buffer) \in Nat
            BY <2>1, EmptySeq, LenOfSeq DEF IsSeq
        <3>2. Len(Stream) = Len(pipe) + Len(buffer)
            BY <2>1, ConcatIsSeq DEF Stream
        <3>3. Len(Stream) # 0
            BY <3>1, <3>2
        <3> QED BY <3>3, EmptySeq
    <2> QED BY <2>1, <2>2, <2>3 DEF Stream
<1>3. PICK next : /\ Within(next, Printed) /\ Carries(Head(pipe), from, next)
                  /\ Transit(Stream', Printed, next, to)
    <2> DEFINE n == Printed
    <2>1. Transit(Stream, n, from, to)
        BY <1>1
    <2> HIDE DEF n
    <2>2. \E next : /\ Within(next, n) /\ Carries(Head(Stream), from, next)
                    /\ Transit(Tail(Stream), n, next, to)
        BY <1>2, <2>1, TransitTail
    <2> QED BY <1>2, <2>2 DEF n
<1>4. Printed' = Printed
    BY DEF Printed
<1>5. IsSeq(pipe')
    BY EmptySeq, HeadTailProperties, SeqIsSeq DEF CaptureInv, IsSeq
<1> QED BY <1>1, <1>3, <1>4, <1>5

LEMMA StillInv ==
    ASSUME CaptureInv, UNCHANGED <<sent, queue, buffer, pipe, child, header, got>>,
           \/ thread' = thread
           \/ thread \in {"check", "line"} /\ thread' \in {"check", "line"}
    PROVE  CaptureInv'
<1>1. Stream' = Stream /\ Printed' = Printed
    BY DEF Stream, Printed
<1>2. Channel' /\ Worker'
    BY <1>1 DEF CaptureInv, Channel, Worker
<1>3. InTransit'
    BY <1>1 DEF CaptureInv, InTransit
<1> QED BY <1>2, <1>3 DEF CaptureInv

LEMMA ReadBlankInv ==
    ASSUME CaptureInv, ReadBlank
    PROVE  CaptureInv'
<1>1. /\ thread = "line" /\ thread' = "check"
      /\ UNCHANGED <<sent, queue, buffer, child, header, got>>
    BY DEF ReadBlank
<1>2. CASE UNCHANGED pipe
    BY <1>1, <1>2, StillInv
<1>3. CASE pipe # <<>> /\ Head(pipe) = Blank /\ pipe' = Tail(pipe)
    <2>1. PICK from, next, to :
            /\ Carries(Blank, from, next) /\ Transit(Stream', Printed', next, to)
            /\ from[1] = Len(got) /\ from[2] = "line"
            /\ child = "running" => to = <<Printed, "line">>
        BY <1>1, <1>3, Taken
    <2>2. next = from
        BY <2>1 DEF Carries, Blank
    <2>3. Printed' = Printed
        BY <1>1 DEF Printed
    <2>4. InTransit'
        BY <1>1, <2>1, <2>2, <2>3 DEF InTransit
    <2>5. IsSeq(pipe')
        BY <1>1, <1>3, Taken
    <2>6. Channel' /\ Worker'
        BY <1>1, <2>3 DEF CaptureInv, Channel, Worker
    <2> QED BY <1>1, <2>4, <2>5, <2>6 DEF CaptureInv
<1> QED BY <1>2, <1>3 DEF ReadBlank

\* A line that is not empty is the header of the next packet.
LEMMA ReadHeaderInv ==
    ASSUME CaptureInv, ReadHeader
    PROVE  CaptureInv'
<1>1. /\ thread = "line" /\ pipe # <<>> /\ Head(pipe) # Blank
      /\ header' = Head(pipe).line[1] /\ pipe' = Tail(pipe) /\ thread' = "data"
      /\ UNCHANGED <<sent, queue, buffer, child, got>>
    BY DEF ReadHeader
<1>2. PICK from, next, to :
        /\ Carries(Head(pipe), from, next) /\ Transit(Stream', Printed', next, to)
        /\ from[1] = Len(got) /\ from[2] = "line"
        /\ child = "running" => to = <<Printed, "line">>
    BY <1>1, Taken
<1>3. /\ Head(pipe) = [line |-> <<Header(Packets[Len(got) + 1])>>]
      /\ next = <<Len(got), "data">>
    BY <1>1, <1>2 DEF Carries
<1>4. header' = Header(Packets[Len(got) + 1])
    BY <1>1, <1>3
<1>5. Printed' = Printed
    BY <1>1 DEF Printed
<1>6. InTransit'
    BY <1>1, <1>2, <1>3, <1>5 DEF InTransit
<1>7. IsSeq(pipe')
    BY <1>1, Taken
<1>8. Channel' /\ Worker'
    BY <1>1, <1>4, <1>5 DEF CaptureInv, Channel, Worker
<1> QED BY <1>1, <1>6, <1>7, <1>8 DEF CaptureInv

\* What follows a header is its data: the layer is that of the next packet.
LEMMA ReadDataInv ==
    ASSUME CaptureInv, ReadData
    PROVE  CaptureInv'
<1>1. /\ thread = "data" /\ pipe # <<>>
      /\ got' = Append(got, LayerOf(header, Head(pipe).data))
      /\ pipe' = Tail(pipe) /\ thread' = "check"
      /\ UNCHANGED <<sent, queue, buffer, child, header>>
    BY DEF ReadData
<1>2. PICK from, next, to :
        /\ Carries(Head(pipe), from, next) /\ Within(next, Printed)
        /\ Transit(Stream', Printed', next, to)
        /\ from[1] = Len(got) /\ from[2] = "data"
        /\ child = "running" => to = <<Printed, "line">>
    BY <1>1, Taken
<1>3. /\ Head(pipe) = [data |-> Packets[Len(got) + 1].data]
      /\ next = <<Len(got) + 1, "line">>
    BY <1>2 DEF Carries
<1>4. header = Header(Packets[Len(got) + 1])
    BY <1>1 DEF CaptureInv, Worker
<1> DEFINE layer == LayerOf(Header(Packets[Len(got) + 1]), Packets[Len(got) + 1].data)
<1>5. got' = Append(got, layer)
    BY <1>1, <1>3, <1>4
<1> HIDE DEF layer
<1>6. /\ IsSeq(got') /\ Len(got') = Len(got) + 1
      /\ \A i \in 1..Len(got) : got'[i] = got[i]
      /\ got'[Len(got) + 1] = layer
    BY <1>5, AppendIsSeq, AppendElems DEF CaptureInv, Worker
<1>7. Printed' = Printed
    BY <1>1 DEF Printed
<1>8. InTransit'
    <2>1. next[1] = Len(got') /\ next[2] = "line"
        BY <1>3, <1>6
    <2> QED BY <1>1, <1>2, <1>7, <2>1 DEF InTransit
<1>9. Worker'
    <2>1. Len(got') <= Printed'
        BY <1>2, <1>3, <1>6, <1>7 DEF Within
    <2>2. \A i \in 1..Len(got') :
            got'[i] = LayerOf(Header(Packets[i]), Packets[i].data)
        <3>1. TAKE i \in 1..Len(got')
        <3>2. CASE i = Len(got) + 1
            BY <1>6, <3>2 DEF layer
        <3>3. CASE i # Len(got) + 1
            <4>1. i \in 1..Len(got)
                BY <1>6, <3>3, Sound
            <4> QED BY <1>6, <4>1 DEF CaptureInv, Worker
        <3> QED BY <3>2, <3>3
    <2> QED BY <1>1, <1>6, <2>1, <2>2 DEF Worker
<1>10. IsSeq(pipe')
    BY <1>1, Taken
<1>11. Channel'
    BY <1>1, <1>7 DEF CaptureInv, Channel
<1> QED BY <1>1, <1>8, <1>9, <1>10, <1>11 DEF CaptureInv

LEMMA CaptureInductive == CaptureSpec => []CaptureInv
<1>1. ASSUME CaptureInv, [CaptureNext]_captureVars PROVE CaptureInv'
    <2>1. CASE Handler \/ PrintPacket \/ PrintBlank
        BY <1>1, <2>1, HandlerInv, PrintPacketInv, PrintBlankInv
    <2>2. CASE ChildExit \/ ChildCrash
        BY <1>1, <2>2, ChildEndsInv
    <2>3. CASE UnsetInput \/ UNCHANGED captureVars
        <3>1. /\ CaptureInv /\ thread' = thread
              /\ UNCHANGED <<sent, queue, buffer, pipe, child, header, got>>
            BY <1>1, <2>3 DEF UnsetInput, captureVars
        <3> QED BY <3>1, StillInv
    <2>4. CASE ReadOrEnd
        <3>1. CASE holder
            BY <1>1, <2>4, <3>1, StillInv DEF ReadOrEnd
        <3>2. CASE ~holder
            BY <1>1, <2>4, <3>2, DropInv DEF ReadOrEnd
        <3> QED BY <3>1, <3>2
    <2>5. CASE ReadBlank \/ ReadHeader \/ ReadData
        BY <1>1, <2>5, ReadBlankInv, ReadHeaderInv, ReadDataInv
    <2>6. CASE ReadCut
        BY <1>1, <2>6, DropInv DEF ReadCut
    <2> QED BY <1>1, <2>1, <2>2, <2>3, <2>4, <2>5, <2>6 DEF CaptureNext, ReaderNext
<1> QED BY <1>1, CaptureInitInv, PTL DEF CaptureSpec

\* The layers of a capture are made of the packets libpcap handed over.
InOrder ==
    /\ Len(got) <= sent
    /\ \A i \in 1..Len(got) : got[i] = LayerOf(Header(Packets[i]), Packets[i].data)

\* The worker of package/pcap, at the other end of a pipe to a child that keeps
\* the data of a packet back until its next line, and may exit or crash at any
\* time: layer i is made of the header and the data of packet i, for every
\* packet, so that none is left out, doubled or given another one's header.
THEOREM LayersInOrder == CaptureSpec => []InOrder
<1>1. CaptureInv => InOrder
    <2> SUFFICES ASSUME CaptureInv PROVE InOrder
        OBVIOUS
    <2>1. /\ sent \in Nat /\ Len(queue) \in Nat /\ Len(got) \in Nat
          /\ Len(got) <= sent - Len(queue)
        BY Sound DEF CaptureInv, Worker, Printed
    <2> QED BY <2>1 DEF CaptureInv, Worker, InOrder
<1> QED BY <1>1, CaptureInductive, PTL

\* The same of the values a reader of the layers sees: the data, the lengths and
\* the timestamps are those of the packets, in order and without a gap.
THEOREM CaptureInOrderCorrect == CaptureSpec => []CaptureInOrder
<1>1. CaptureInv => CaptureInOrder
    <2> SUFFICES ASSUME CaptureInv, NEW i \in DOMAIN got
                 PROVE  /\ i <= sent
                        /\ got[i].data = Packets[i].data
                        /\ FieldOf(got[i], "link.length") = Packets[i].actlen
                        /\ FieldOf(got[i], "link.timestamp.sec") = Packets[i].sec
                        /\ FieldOf(got[i], "link.timestamp.usec") = Packets[i].usec
        BY DEF CaptureInOrder
    <2>1. /\ sent \in Nat /\ Len(queue) \in Nat /\ Len(got) \in Nat /\ Len(Packets) \in Nat
          /\ DOMAIN Packets = 1..Len(Packets) /\ sent <= Len(Packets)
          /\ Len(got) <= sent - Len(queue) /\ DOMAIN got = 1..Len(got)
        BY Sound, CaptureAssumption, LenProperties, LenOfSeq
        DEF CaptureInv, Worker, Printed, Channel
    <2>2. i \in 1..Len(got) /\ i <= sent /\ i \in DOMAIN Packets /\ i \in 1..Len(Packets)
        BY <2>1
    <2> DEFINE class == LinkClass(Link, UInt64(Word(Link)))
               p == Packets[i]
    <2>3. got[i] = LinkLayer(class, p.data, p.actlen, p.sec, p.usec)
        BY <2>2 DEF CaptureInv, Worker, LayerOf, Header
    <2>4. got[i].data = Packets[i].data
        BY <2>3 DEF LinkLayer, NewLayer
    <2>6. p.actlen \in Nat /\ p.sec \in Nat /\ p.usec \in Nat
        <3>1. p \in [data : Seq(Byte), actlen : Nat, sec : Nat, usec : Nat]
            BY <2>2, CaptureAssumption, ElementOfSeq
        <3> HIDE DEF p
        <3> QED BY <3>1
    <2> HIDE DEF class, p
    <2>7. /\ FieldOf(got[i], "link.length") = p.actlen
          /\ FieldOf(got[i], "link.timestamp.sec") = p.sec
          /\ FieldOf(got[i], "link.timestamp.usec") = p.usec
        BY <2>3, <2>6, LinkField DEF class
    <2> QED BY <2>2, <2>4, <2>7 DEF p
<1> QED BY <1>1, CaptureInductive, PTL

---------------------------------------------------------------------------
(* The array of frames.                                                       *)

\* Bucket k is block k, and there is a bucket for every index.
Buckets ==
    /\ length \in Nat
    /\ buckets \in Seq(Nat) /\ heap \in Seq([Cells -> Int])
    /\ Len(heap) = Len(buckets)
    /\ \A k \in 1..Len(buckets) : buckets[k] = k
    /\ \A i \in 0..(length - 1) : BucketOf(i) < Len(buckets)

\* Cell i of the buckets holds frame i.
Contents ==
    \A i \in 0..(length - 1) : heap[BucketOf(i) + 1][OffsetOf(i)] = i

\* Handles point to where their frames are.
Pointers ==
    \A h \in handles :
        /\ h.frame \in 0..(length - 1)
        /\ h.address = BucketOf(h.frame) + 1 /\ h.offset = OffsetOf(h.frame)

ArrayInv == Buckets /\ Contents /\ Pointers

\* Division by the size of a block.
LEMMA Division ==
    ASSUME NEW i \in Nat
    PROVE  /\ BucketOf(i) \in Nat /\ OffsetOf(i) \in Cells
           /\ i = BLOCK_SIZE * BucketOf(i) + OffsetOf(i)
    BY BlockSizeAssumption, SMT DEF BucketOf, OffsetOf, Cells

\* The next index is in the same bucket or in the next.
LEMMA NextBucket ==
    ASSUME NEW i \in Nat
    PROVE  BucketOf(i + 1) \in {BucketOf(i), BucketOf(i) + 1}
    BY BlockSizeAssumption, SMT DEF BucketOf

\* Two indices never share a cell.
LEMMA CellsApart ==
    ASSUME NEW i \in Nat, NEW j \in Nat, i # j
    PROVE  BucketOf(i) # BucketOf(j) \/ OffsetOf(i) # OffsetOf(j)
    BY Division

\* The cell of a frame is there.
LEMMA HasBucket ==
    ASSUME Buckets, NEW i \in 0..(length - 1)
    PROVE  /\ i \in Nat /\ BucketOf(i) \in Nat /\ Len(buckets) \in Nat
           /\ BucketOf(i) < Len(buckets) /\ BucketOf(i) + 1 \in 1..Len(buckets)
<1>1. i \in Nat /\ Len(buckets) \in Nat /\ BucketOf(i) < Len(buckets)
    BY DEF Buckets
<1>2. BucketOf(i) \in Nat
    BY <1>1, Division
<1> QED BY <1>1, <1>2

\* The bucket of the next frame is there, or it is the next one.
LEMMA RoomAtEnd ==
    ASSUME Buckets
    PROVE  BucketOf(length) <= Len(buckets)
<1>1. CASE length = 0
    <2>1. BucketOf(0) = 0
        BY BlockSizeAssumption, SMT DEF BucketOf
    <2> QED BY <1>1, <2>1 DEF Buckets
<1>2. CASE length # 0
    <2>1. length - 1 \in Nat /\ length - 1 \in 0..(length - 1) /\ length = (length - 1) + 1
        BY <1>2 DEF Buckets
    <2>2. BucketOf(length - 1) < Len(buckets)
        BY <2>1 DEF Buckets
    <2>3. BucketOf(length) \in {BucketOf(length - 1), BucketOf(length - 1) + 1}
        BY <2>1, NextBucket
    <2>4. BucketOf(length - 1) \in Nat /\ Len(buckets) \in Nat
        BY <2>1, HasBucket
    <2> QED BY <2>2, <2>3, <2>4
<1> QED BY <1>1, <1>2

\* What get reads is the cell of the index.
LEMMA GetsCell ==
    ASSUME ArrayInv, NEW i \in 0..(length - 1)
    PROVE  Get(i) = <<heap[BucketOf(i) + 1][OffsetOf(i)]>>
<1>1. BucketOf(i) \in Nat /\ BucketOf(i) + 1 \in 1..Len(buckets)
    BY HasBucket DEF ArrayInv
<1>2. AddressOf(i) = BucketOf(i) + 1
    BY <1>1 DEF ArrayInv, Buckets, AddressOf
<1>3. i < length
    BY DEF ArrayInv, Buckets
<1> QED BY <1>2, <1>3 DEF Get

---------------------------------------------------------------------------

LEMMA ArrayInitInv == ArrayInit => ArrayInv
    BY DEF ArrayInit, ArrayInv, Buckets, Contents, Pointers

\* A push writes one cell, that of the new index, and moves nothing.
LEMMA PushCells ==
    ASSUME ArrayInv, Push(length)
    PROVE  /\ Buckets' /\ length' = length + 1
           /\ heap'[BucketOf(length) + 1][OffsetOf(length)] = length
           /\ \A i \in 0..(length - 1) :
                heap'[BucketOf(i) + 1][OffsetOf(i)] = heap[BucketOf(i) + 1][OffsetOf(i)]
<1> USE DEF ArrayInv
<1>1. length \in Nat /\ length' = length + 1
    BY DEF Push, Buckets
<1> DEFINE b == BucketOf(length)
           o == OffsetOf(length)
           grow == Len(buckets) <= b
           blocks == IF grow THEN Append(heap, NewBlock) ELSE heap
<1>2. b \in Nat /\ o \in Cells /\ b <= Len(buckets)
    BY <1>1, Division, RoomAtEnd
<1>3. NewBlock \in [Cells -> Int]
    BY DEF NewBlock, Garbage
<1>4. /\ buckets' \in Seq(Nat)
      /\ Len(buckets') = IF grow THEN Len(buckets) + 1 ELSE Len(buckets)
      /\ \A k \in 1..Len(buckets') : buckets'[k] = k
    BY <1>1, <1>2 DEF Push, Buckets
<1>5. b + 1 \in 1..Len(buckets') /\ buckets'[b + 1] = b + 1
    <2>1. Len(buckets) \in Nat /\ b + 1 \in 1..Len(buckets')
        BY <1>2, <1>4 DEF Buckets
    <2> QED BY <2>1, <1>4
<1>6. /\ blocks \in Seq([Cells -> Int]) /\ Len(blocks) = Len(buckets')
      /\ \A k \in 1..Len(heap) : blocks[k] = heap[k]
    BY <1>3, <1>4 DEF Buckets
<1>7. heap' = [blocks EXCEPT ![b + 1][o] = length]
    BY <1>5 DEF Push
<1> HIDE DEF blocks, grow, b, o
<1>8. /\ heap' \in Seq([Cells -> Int]) /\ Len(heap') = Len(buckets')
      /\ heap'[b + 1][o] = length
      /\ \A k \in 1..Len(buckets'), c \in Cells :
            k # b + 1 \/ c # o => heap'[k][c] = blocks[k][c]
    <2>1. heap' = [k \in 1..Len(buckets') |->
                     IF k = b + 1 THEN [blocks[k] EXCEPT ![o] = length] ELSE blocks[k]]
        <3>1. blocks \in [1..Len(buckets') -> [Cells -> Int]]
            BY <1>6
        <3>2. DOMAIN blocks = 1..Len(buckets')
            BY <3>1
        <3>3. heap' = [k \in DOMAIN blocks |->
                         IF k = b + 1 THEN [blocks[b + 1] EXCEPT ![o] = length] ELSE blocks[k]]
            BY <1>7, Zenon
        <3> QED BY <3>2, <3>3, Zenon
    <2>2. \A k \in 1..Len(buckets') : blocks[k] \in [Cells -> Int]
        BY <1>6
    <2>3. Len(buckets') \in Nat
        BY <1>4
    <2>4. \A k \in 1..Len(buckets') : heap'[k] \in [Cells -> Int]
        BY <2>1, <2>2, <1>1, <1>2
    <2>5. heap' \in Seq([Cells -> Int]) /\ Len(heap') = Len(buckets')
        BY <2>1, <2>3, <2>4
    <2>6. heap'[b + 1][o] = length
        BY <2>1, <2>2, <1>2, <1>5
    <2>7. \A k \in 1..Len(buckets'), c \in Cells :
            k # b + 1 \/ c # o => heap'[k][c] = blocks[k][c]
        BY <2>1, <2>2, <1>2
    <2> QED BY <2>5, <2>6, <2>7
<1>9. \A i \in 0..(length - 1) :
        heap'[BucketOf(i) + 1][OffsetOf(i)] = heap[BucketOf(i) + 1][OffsetOf(i)]
    <2> SUFFICES ASSUME NEW i \in 0..(length - 1)
                 PROVE  heap'[BucketOf(i) + 1][OffsetOf(i)]
                            = heap[BucketOf(i) + 1][OffsetOf(i)]
        OBVIOUS
    <2>1. i \in Nat /\ i # length
        BY <1>1
    <2>2. BucketOf(i) \in Nat /\ OffsetOf(i) \in Cells /\ BucketOf(i) < Len(buckets)
        BY <2>1, Division DEF Buckets
    <2>3. BucketOf(i) + 1 # b + 1 \/ OffsetOf(i) # o
        BY <1>1, <1>2, <2>1, <2>2, CellsApart DEF b, o
    <2>4. BucketOf(i) + 1 \in 1..Len(heap) /\ BucketOf(i) + 1 \in 1..Len(buckets')
        <3>1. /\ BucketOf(i) + 1 \in 1..Len(buckets) /\ Len(buckets) \in Nat
              /\ Len(heap) = Len(buckets)
            BY HasBucket DEF Buckets
        <3>2. Len(buckets') = Len(buckets) + 1 \/ Len(buckets') = Len(buckets)
            BY <1>4
        <3> QED BY <3>1, <3>2, <2>2
    <2> QED BY <1>6, <1>8, <2>2, <2>3, <2>4
<1>10. \A i \in 0..(length' - 1) : BucketOf(i) < Len(buckets')
    <2> SUFFICES ASSUME NEW i \in 0..(length' - 1)
                 PROVE  BucketOf(i) < Len(buckets')
        OBVIOUS
    <2>1. CASE i = length
        BY <2>1, <1>2, <1>5, <1>4 DEF b
    <2>2. CASE i # length
        <3>1. i \in 0..(length - 1)
            BY <2>2, <1>1
        <3>2. BucketOf(i) < Len(buckets) /\ BucketOf(i) \in Nat
            BY <3>1, Division DEF Buckets
        <3> QED BY <3>2, <1>4 DEF Buckets, grow
    <2> QED BY <2>1, <2>2
<1>11. Buckets'
    BY <1>1, <1>4, <1>8, <1>10 DEF Buckets, BucketOf
<1> QED BY <1>1, <1>8, <1>9, <1>11 DEF b, o

LEMMA PushInv == ASSUME ArrayInv, Push(length) PROVE ArrayInv'
<1>1. length \in Nat /\ length' = length + 1 /\ handles' = handles
    BY PushCells DEF Push, ArrayInv, Buckets
<1>2. Contents'
    <2> SUFFICES ASSUME NEW i \in 0..(length' - 1)
                 PROVE  heap'[BucketOf(i) + 1][OffsetOf(i)] = i
        BY DEF Contents, BucketOf, OffsetOf
    <2>1. CASE i = length
        BY <2>1, PushCells
    <2>2. CASE i # length
        <3>1. i \in 0..(length - 1)
            BY <2>2, <1>1
        <3> QED BY <3>1, PushCells DEF ArrayInv, Contents
    <2> QED BY <2>1, <2>2
<1>3. Pointers'
    BY <1>1 DEF ArrayInv, Pointers, BucketOf, OffsetOf
<1> QED BY <1>2, <1>3, PushCells DEF ArrayInv

LEMMA FramesInv ==
    ASSUME ArrayInv, NEW start, NEW end, Frames(start, end)
    PROVE  ArrayInv'
<1>1. UNCHANGED <<heap, buckets, length>>
    BY DEF Frames
<1>2. Buckets' /\ Contents'
    BY <1>1 DEF ArrayInv, Buckets, Contents, BucketOf, OffsetOf
<1>3. Pointers'
    <2> SUFFICES ASSUME NEW h \in handles'
                 PROVE  /\ h.frame \in 0..(length - 1)
                        /\ h.address = BucketOf(h.frame) + 1
                        /\ h.offset = OffsetOf(h.frame)
        BY <1>1 DEF Pointers, BucketOf, OffsetOf
    <2>1. CASE h \in handles
        BY <2>1 DEF ArrayInv, Pointers
    <2>2. CASE h \notin handles
        <3>1. PICK i \in 0..(length - 1) :
                h = [address |-> AddressOf(i), offset |-> OffsetOf(i), frame |-> i]
            BY <2>2 DEF Frames
        <3>2. BucketOf(i) \in Nat /\ BucketOf(i) + 1 \in 1..Len(buckets)
            BY HasBucket DEF ArrayInv
        <3>3. AddressOf(i) = BucketOf(i) + 1
            BY <3>2 DEF ArrayInv, Buckets, AddressOf
        <3> QED BY <3>1, <3>3
    <2> QED BY <2>1, <2>2
<1> QED BY <1>2, <1>3 DEF ArrayInv

LEMMA ArrayInductive == ArraySpec => []ArrayInv
<1>1. ASSUME ArrayInv, [ArrayNext]_arrayVars PROVE ArrayInv'
    <2>1. CASE Push(length)
        BY <1>1, <2>1, PushInv
    <2>2. CASE \E start, end \in 0..length : Frames(start, end)
        BY <1>1, <2>2, FramesInv
    <2>3. CASE UNCHANGED arrayVars
        BY <1>1, <2>3 DEF ArrayInv, Buckets, Contents, Pointers, BucketOf, OffsetOf,
                          arrayVars
    <2> QED BY <1>1, <2>1, <2>2, <2>3 DEF ArrayNext
<1> QED BY <1>1, ArrayInitInv, PTL DEF ArraySpec

---------------------------------------------------------------------------

\* get and iter of array_vec.rs read the sequence of what push was given,
\* whatever BLOCK_SIZE is, and never a cell that push has not written.
THEOREM ReadsCorrect == ArraySpec => []ArrayReads
<1>1. ArrayInv => ArrayReads
    BY GetsCell DEF ArrayInv, Contents, ArrayReads
<1> QED BY <1>1, ArrayInductive, PTL

\* The pointers Store::frames has handed out stay good while the event loop
\* pushes frames.
THEOREM HandlesCorrect == ArraySpec => []HandlesStay
<1>1. ArrayInv => HandlesStay
    BY DEF ArrayInv, Contents, Pointers, HandlesStay
<1> QED BY <1>1, ArrayInductive, PTL

\* The second part of a concatenation.
LEMMA ConcatRest ==
    ASSUME NEW s, NEW t, IsSeq(s), IsSeq(t)
    PROVE  \A j \in 1..Len(t) : (s \o t)[Len(s) + j] = t[j]
<1> DEFINE S == Elems(s) \union Elems(t)
<1>1. s \in Seq(S) /\ t \in Seq(S)
    <2>1. Elems(s) \subseteq S /\ Elems(t) \subseteq S
        OBVIOUS
    <2>2. s \in Seq(Elems(s)) /\ t \in Seq(Elems(t))
        BY DEF IsSeq
    <2> HIDE DEF S
    <2> QED BY <2>1, <2>2, SeqMonotonic
<1> HIDE DEF S
<1> QED BY <1>1

\* A set of natural numbers that is not empty has a least element.
LEMMA LeastOf ==
    ASSUME NEW T \in SUBSET Nat, T # {}
    PROVE  \E n \in T : \A m \in T : n <= m
<1> DEFINE less == {pair \in Nat \X Nat : pair[1] < pair[2]}
<1>1. IsWellFoundedOn(less, Nat)
    BY NatLessThanWellFounded DEF OpToRel
<1>2. T \subseteq Nat
    OBVIOUS
<1>3. \A m, n \in T : m < n => <<m, n>> \in less
    OBVIOUS
<1> HIDE DEF less
<1>4. PICK n \in T : \A m \in T : ~(<<m, n>> \in less)
    BY <1>1, WFMin
<1>5. \A m \in T : ~(m < n)
    BY <1>3, <1>4
<1> QED BY <1>2, <1>5

\* What holds of 0 and is passed on up to a bound holds of all up to it.
LEMMA UpTo ==
    ASSUME NEW N \in Nat, NEW T, 0 \in T, \A n \in 0..N - 1 : n \in T => n + 1 \in T
    PROVE  \A n \in 0..N : n \in T
<1> DEFINE rest == {n \in 0..N : n \notin T}
<1> SUFFICES ASSUME rest # {} PROVE FALSE
    OBVIOUS
<1>1. rest \in SUBSET Nat
    OBVIOUS
<1>2. PICK n \in rest : \A m \in rest : n <= m
    <2> HIDE DEF rest
    <2> QED BY <1>1, LeastOf
<1>3. n \in 0..N /\ n # 0 /\ n - 1 \notin rest
    BY <1>2
<1>4. n - 1 \in 0..N - 1 /\ n - 1 \in T /\ (n - 1) + 1 = n
    BY <1>3
<1> QED BY <1>2, <1>4

---------------------------------------------------------------------------
(* The tables of a genet file.                                                *)

\* A table that another one begins with.
Extends(all, table) ==
    /\ IsSeq(all) /\ Len(table) <= Len(all)
    /\ \A i \in 1..Len(table) : all[i] = table[i]

LEMMA ExtendsItself ==
    ASSUME NEW table, IsSeq(table)
    PROVE  Extends(table, table)
    BY LenOfSeq DEF Extends

LEMMA ExtendsMore ==
    ASSUME NEW table, IsSeq(table), NEW more, Extends(more, table), NEW all, Extends(all, more)
    PROVE  Extends(all, table)
<1>1. Len(table) \in Nat /\ Len(more) \in Nat /\ Len(all) \in Nat
    BY LenOfSeq DEF Extends
<1> QED BY <1>1 DEF Extends

LEMMA PushedExtends ==
    ASSUME NEW table, IsSeq(table), NEW elem
    PROVE  /\ Extends(Pushed(table, elem), table)
           /\ \E i \in DOMAIN Pushed(table, elem) : Pushed(table, elem)[i] = elem
<1>1. CASE \E i \in DOMAIN table : table[i] = elem
    BY <1>1, ExtendsItself DEF Pushed
<1>2. CASE ~ \E i \in DOMAIN table : table[i] = elem
    <2> DEFINE all == Append(table, elem)
    <2>1. IsSeq(all) /\ Len(all) = Len(table) + 1 /\ Len(table) \in Nat
          /\ (\A i \in 1..Len(table) : all[i] = table[i]) /\ all[Len(table) + 1] = elem
        BY AppendIsSeq, AppendElems, LenOfSeq
    <2>2. Pushed(table, elem) = all
        BY <1>2 DEF Pushed
    <2> HIDE DEF all
    <2>3. DOMAIN all = 1..Len(all)
        BY <2>1, LenOfSeq
    <2>4. Extends(all, table)
        BY <2>1 DEF Extends
    <2>5. Len(table) + 1 \in DOMAIN all
        BY <2>1, <2>3
    <2> QED BY <2>1, <2>2, <2>4, <2>5
<1> QED BY <1>1, <1>2

\* The recursion of Interned.
IsInterning(f, table, elems, N) ==
    f = [n \in 0..N |-> IF n = 0 THEN table ELSE Pushed(f[n - 1], elems[n])]

LEMMA InterningExists ==
    ASSUME NEW table, NEW elems, NEW N \in Nat
    PROVE  \E f : IsInterning(f, table, elems, N)
<1> DEFINE T == {m \in 0..N : \E f : IsInterning(f, table, elems, m)}
<1>1. 0 \in T
    <2>1. IsInterning([n \in 0..0 |-> table], table, elems, 0)
        BY DEF IsInterning
    <2> QED BY <2>1
<1>2. ASSUME NEW m \in 0..N - 1, m \in T PROVE m + 1 \in T
    <2>1. PICK f : IsInterning(f, table, elems, m)
        BY <1>2
    <2> DEFINE g == [n \in 0..m + 1 |-> IF n <= m THEN f[n] ELSE Pushed(f[m], elems[n])]
    <2>2. \A n \in 0..m + 1 : g[n] = IF n = 0 THEN table ELSE Pushed(g[n - 1], elems[n])
        <3>1. TAKE n \in 0..m + 1
        <3>2. CASE n = 0
            BY <2>1, <3>2 DEF IsInterning
        <3>3. CASE n \in 1..m
            <4>1. g[n] = f[n] /\ g[n - 1] = f[n - 1]
                BY <3>3
            <4>2. f[n] = Pushed(f[n - 1], elems[n])
                BY <2>1, <3>3 DEF IsInterning
            <4> QED BY <3>3, <4>1, <4>2
        <3>4. CASE n = m + 1
            BY <3>4
        <3> QED BY <3>2, <3>3, <3>4
    <2>3. IsInterning(g, table, elems, m + 1)
        BY <2>2 DEF IsInterning
    <2>4. m + 1 \in 0..N
        OBVIOUS
    <2> HIDE DEF g
    <2> QED BY <2>3, <2>4
<1> HIDE DEF T
<1>3. N \in T
    BY <1>1, <1>2, UpTo
<1> QED BY <1>3 DEF T

\* Interning keeps the table and adds what it lacks.
LEMMA InternedExtends ==
    ASSUME NEW table, IsSeq(table), NEW elems, Len(elems) \in Nat
    PROVE  /\ Extends(Interned(table, elems), table)
           /\ \A k \in 1..Len(elems) : \E i \in DOMAIN Interned(table, elems) :
                  Interned(table, elems)[i] = elems[k]
<1> DEFINE N == Len(elems)
           upTo == CHOOSE f : IsInterning(f, table, elems, N)
<1>1. Interned(table, elems) = upTo[N]
    BY DEF Interned, IsInterning
<1>2. IsInterning(upTo, table, elems, N)
    BY InterningExists
<1> HIDE DEF upTo
<1>3. /\ upTo[0] = table
      /\ \A n \in 1..N : upTo[n] = Pushed(upTo[n - 1], elems[n])
    BY <1>2 DEF IsInterning
<1> DEFINE Has(n) == /\ Extends(upTo[n], table)
                     /\ \A k \in 1..n : \E i \in DOMAIN upTo[n] : upTo[n][i] = elems[k]
           T == {n \in 0..N : Has(n)}
<1>4. Has(0)
    BY <1>3, ExtendsItself
<1>5. ASSUME NEW n \in 0..N - 1, Has(n) PROVE Has(n + 1)
    <2> DEFINE before == upTo[n]
               after == upTo[n + 1]
    <2>1. n + 1 \in 1..N /\ (n + 1) - 1 = n
        OBVIOUS
    <2>2. after = Pushed(before, elems[n + 1])
        BY <1>3, <2>1
    <2>3. Extends(before, table) /\ \A k \in 1..n : \E i \in DOMAIN before : before[i] = elems[k]
        BY <1>5
    <2> HIDE DEF before, after
    <2>4. IsSeq(before)
        BY <2>3 DEF Extends
    <2>5. /\ Extends(after, before)
          /\ \E i \in DOMAIN after : after[i] = elems[n + 1]
        BY <2>2, <2>4, PushedExtends
    <2>6. Extends(after, table)
        BY <2>3, <2>5, ExtendsMore
    <2>7. DOMAIN before \subseteq DOMAIN after /\ \A i \in DOMAIN before : after[i] = before[i]
        BY <2>4, <2>5, LenOfSeq DEF Extends
    <2>8. \A k \in 1..n + 1 : \E i \in DOMAIN after : after[i] = elems[k]
        <3>1. TAKE k \in 1..n + 1
        <3>2. CASE k = n + 1
            BY <2>5, <3>2
        <3>3. CASE k \in 1..n
            BY <2>3, <2>7, <3>3
        <3> QED BY <3>2, <3>3
    <2> QED BY <2>6, <2>8 DEF after
<1> HIDE DEF Has
<1>6. 0 \in T /\ \A n \in 0..N - 1 : n \in T => n + 1 \in T
    BY <1>4, <1>5
<1>7. N \in T
    <2>1. N \in Nat
        OBVIOUS
    <2> HIDE DEF T, N
    <2>2. \A n \in 0..N : n \in T
        BY <1>6, <2>1, UpTo
    <2> QED BY <2>1, <2>2
<1> QED BY <1>1, <1>7 DEF T, Has

\* Token i of a table, as a reader finds it.
Names(table, i, elem) == i \in Nat /\ i + 1 \in DOMAIN table /\ table[i + 1] = elem

LEMMA PositionNames ==
    ASSUME NEW table, IsSeq(table), NEW elem, \E i \in DOMAIN table : table[i] = elem
    PROVE  Names(table, Position(table, elem), elem)
<1> DEFINE at == {i \in DOMAIN table : table[i] = elem}
           least == CHOOSE i \in at : \A j \in at : i <= j
<1>1. DOMAIN table \subseteq Nat \ {0}
    BY LenOfSeq
<1>2. at \in SUBSET Nat /\ at # {}
    BY <1>1
<1>3. Position(table, elem) = least - 1
    BY DEF Position
<1>4. least \in at
    <2> HIDE DEF at
    <2>1. \E i \in at : \A j \in at : i <= j
        BY <1>2, LeastOf
    <2> QED BY <2>1
<1> HIDE DEF least
<1>5. least \in Nat \ {0} /\ least \in DOMAIN table /\ table[least] = elem
    BY <1>1, <1>4
<1>6. least - 1 \in Nat /\ (least - 1) + 1 = least
    BY <1>5
<1> QED BY <1>3, <1>5, <1>6 DEF Names

LEMMA NamesMore ==
    ASSUME NEW table, IsSeq(table), NEW all, Extends(all, table), NEW i, NEW elem,
           Names(table, i, elem)
    PROVE  Names(all, i, elem)
    BY LenOfSeq DEF Extends, Names

LEMMA SeqsEqual ==
    ASSUME NEW s, IsSeq(s), NEW t, IsSeq(t), Len(s) = Len(t),
           \A i \in 1..Len(s) : s[i] = t[i]
    PROVE  s = t
<1> DEFINE S == Elems(s) \union Elems(t)
<1>1. s \in Seq(S) /\ t \in Seq(S)
    <2>1. Elems(s) \subseteq S /\ Elems(t) \subseteq S
        OBVIOUS
    <2>2. s \in Seq(Elems(s)) /\ t \in Seq(Elems(t))
        BY DEF IsSeq
    <2> HIDE DEF S
    <2> QED BY <2>1, <2>2, SeqMonotonic
<1> HIDE DEF S
<1> QED BY <1>1, SeqEqual

\* The recursion of Values.
NextValue(before, attr) == IF IsValue(attr) THEN Append(before, attr) ELSE before
IsSelection(f, attrs, N) ==
    f = [n \in 0..N |-> IF n = 0 THEN <<>> ELSE NextValue(f[n - 1], attrs[n])]

LEMMA SelectionExists ==
    ASSUME NEW attrs, NEW N \in Nat
    PROVE  \E f : IsSelection(f, attrs, N)
<1> DEFINE T == {m \in 0..N : \E f : IsSelection(f, attrs, m)}
<1>1. 0 \in T
    <2>1. IsSelection([n \in 0..0 |-> <<>>], attrs, 0)
        BY DEF IsSelection
    <2> QED BY <2>1
<1>2. ASSUME NEW m \in 0..N - 1, m \in T PROVE m + 1 \in T
    <2>1. PICK f : IsSelection(f, attrs, m)
        BY <1>2
    <2> DEFINE g == [n \in 0..m + 1 |-> IF n <= m THEN f[n] ELSE NextValue(f[m], attrs[n])]
    <2>2. \A n \in 0..m + 1 : g[n] = IF n = 0 THEN <<>> ELSE NextValue(g[n - 1], attrs[n])
        <3>1. TAKE n \in 0..m + 1
        <3>2. CASE n = 0
            BY <2>1, <3>2 DEF IsSelection
        <3>3. CASE n \in 1..m
            <4>1. g[n] = f[n] /\ g[n - 1] = f[n - 1]
                BY <3>3
            <4>2. f[n] = NextValue(f[n - 1], attrs[n])
                BY <2>1, <3>3 DEF IsSelection
            <4> QED BY <3>3, <4>1, <4>2
        <3>4. CASE n = m + 1
            BY <3>4
        <3> QED BY <3>2, <3>3, <3>4
    <2>3. IsSelection(g, attrs, m + 1)
        BY <2>2 DEF IsSelection
    <2>4. m + 1 \in 0..N
        OBVIOUS
    <2> HIDE DEF g
    <2> QED BY <2>3, <2>4
<1> HIDE DEF T
<1>3. N \in T
    BY <1>1, <1>2, UpTo
<1> QED BY <1>3 DEF T

\* Attributes that all have a value are all selected.
LEMMA ValuesAll ==
    ASSUME NEW attrs, IsSeq(attrs), \A k \in DOMAIN attrs : IsValue(attrs[k])
    PROVE  Values(attrs) = attrs
<1> DEFINE N == Len(attrs)
           upTo == CHOOSE f : IsSelection(f, attrs, N)
<1>0. N \in Nat /\ DOMAIN attrs = 1..N
    BY LenOfSeq
<1>1. Values(attrs) = upTo[N]
    BY DEF Values, IsSelection, NextValue
<1>2. IsSelection(upTo, attrs, N)
    BY <1>0, SelectionExists
<1> HIDE DEF upTo, N
<1>3. /\ upTo[0] = <<>>
      /\ \A n \in 1..N : upTo[n] = NextValue(upTo[n - 1], attrs[n])
    BY <1>0, <1>2 DEF IsSelection
<1> DEFINE Has(n) == IsSeq(upTo[n]) /\ Len(upTo[n]) = n /\ \A i \in 1..n : upTo[n][i] = attrs[i]
           T == {n \in 0..N : Has(n)}
<1>4. Has(0)
    <2>1. IsSeq(<<>>)
        BY EmptySeq, SeqIsSeq
    <2>2. upTo[0] = <<>> /\ Len(<<>>) = 0 /\ \A i \in 1..0 : FALSE
        BY <1>3
    <2> QED BY <2>1, <2>2
<1>5. ASSUME NEW n \in 0..N - 1, Has(n) PROVE Has(n + 1)
    <2>1. n + 1 \in 1..N /\ (n + 1) - 1 = n
        BY <1>0
    <2>2. upTo[n + 1] = Append(upTo[n], attrs[n + 1])
        BY <1>0, <1>3, <2>1 DEF NextValue
    <2>3. IsSeq(upTo[n]) /\ Len(upTo[n]) = n
        BY <1>5
    <2>4. /\ IsSeq(upTo[n + 1]) /\ Len(upTo[n + 1]) = n + 1
          /\ (\A i \in 1..n : upTo[n + 1][i] = upTo[n][i]) /\ upTo[n + 1][n + 1] = attrs[n + 1]
        BY <2>2, <2>3, AppendIsSeq, AppendElems
    <2>5. \A i \in 1..n + 1 : i = n + 1 \/ i \in 1..n
        OBVIOUS
    <2> QED BY <1>5, <2>4, <2>5
<1> HIDE DEF Has
<1>6. 0 \in T /\ \A n \in 0..N - 1 : n \in T => n + 1 \in T
    BY <1>0, <1>4, <1>5
<1> HIDE DEF T
<1>7. N \in T
    <2>1. \A n \in 0..N : n \in T
        BY <1>0, <1>6, UpTo
    <2> QED BY <1>0, <2>1
<1>8. IsSeq(upTo[N]) /\ Len(upTo[N]) = N /\ \A i \in 1..N : upTo[N][i] = attrs[i]
    BY <1>7 DEF T, Has
<1> QED BY <1>1, <1>8, SeqsEqual DEF N

\* A layer as the readers make them: every attribute has a value, of a type
\* that a file has.
Valued(layer) ==
    /\ IsSeq(layer.attrs)
    /\ \A k \in DOMAIN layer.attrs : \E id, typ, val :
           /\ val[1] \in {"bool", "int", "uint", "float", "string", "buffer"}
           /\ layer.attrs[k] = Typed(id, typ, val)

\* An entry stands for a layer, with the tables as they are.
Stands(tokens, attrs, entry, layer) ==
    /\ entry.data = layer.data
    /\ Names(tokens, entry.frame.id, layer.class.id)
    /\ DOMAIN entry.frame.attrs = DOMAIN layer.attrs
    /\ \A k \in DOMAIN layer.attrs :
           LET key == KeyOf(layer.attrs[k])
           IN  /\ Names(attrs, entry.frame.attrs[k].index, key)
               /\ layer.attrs[k] = Typed(key[1], key[2], entry.frame.attrs[k].value)

LEMMA StandsMore ==
    ASSUME NEW tokens, IsSeq(tokens), NEW attrs, IsSeq(attrs), NEW entry, NEW layer,
           Stands(tokens, attrs, entry, layer),
           NEW moreTokens, Extends(moreTokens, tokens), NEW moreAttrs, Extends(moreAttrs, attrs)
    PROVE  Stands(moreTokens, moreAttrs, entry, layer)
    BY NamesMore DEF Stands

\* An attribute with a value comes back from what the writer keeps of it.
LEMMA ValueStays ==
    ASSUME NEW id, NEW typ, NEW val, NEW layer,
           val[1] \in {"bool", "int", "uint", "float", "string", "buffer"}
    PROVE  LET attr == Typed(id, typ, val)
           IN  /\ IsValue(attr) /\ KeyOf(attr) = <<id, typ>>
               /\ ToValue(AttrTryGet(attr, layer).val) = val
<1> DEFINE attr == Typed(id, typ, val)
<1>1. /\ attr.class = AttrClass(id, typ, NoCast) /\ attr.value = <<val>>
      /\ attr.class.cast = NoCast /\ attr.class.id = id /\ attr.class.typ = typ
    BY DEF Typed, ValueAttr, AttrClass
<1> HIDE DEF attr
<1>2. AbiGet(attr, layer.data) = Ok(val)
    BY <1>1 DEF AbiGet, IsValue
<1>3. AttrTryGet(attr, layer) = Ok(val)
    BY <1>2 DEF AttrTryGet, FromFfi, Ok
<1>4. ToValue(val) = val
    BY DEF ToValue
<1>5. Ok(val).val = val
    BY DEF Ok
<1> QED BY <1>1, <1>3, <1>4, <1>5 DEF IsValue, KeyOf, attr

\* What one write makes of the worker.
LEMMA GenetWriteStands ==
    ASSUME NEW kept, IsSeq(kept.tokens), IsSeq(kept.attrs), IsSeq(kept.entries),
           NEW layer, Valued(layer)
    PROVE  LET all == GenetWrite(kept, layer)
           IN  /\ Extends(all.tokens, kept.tokens) /\ Extends(all.attrs, kept.attrs)
               /\ Extends(all.entries, kept.entries)
               /\ Len(all.entries) = Len(kept.entries) + 1
               /\ Stands(all.tokens, all.attrs, all.entries[Len(kept.entries) + 1], layer)
<1> DEFINE attrs == layer.attrs
           id == layer.class.id
           keys == [k \in DOMAIN attrs |-> KeyOf(attrs[k])]
           table == Interned(kept.attrs, keys)
           tokens == Interned(kept.tokens, <<id>>)
           held == [k \in DOMAIN attrs |->
                       [index |-> Position(table, KeyOf(attrs[k])),
                        value |-> ToValue(AttrTryGet(attrs[k], layer).val)]]
           entry == [frame |-> [id |-> Position(tokens, id), len |-> Len(layer.data),
                                attrs |-> held],
                     data |-> layer.data]
<1>1. IsSeq(attrs) /\ Len(attrs) \in Nat /\ DOMAIN attrs = 1..Len(attrs)
    BY LenOfSeq DEF Valued
<1>2. ASSUME NEW k \in DOMAIN attrs
      PROVE  /\ IsValue(attrs[k])
             /\ attrs[k] = Typed(KeyOf(attrs[k])[1], KeyOf(attrs[k])[2],
                                 ToValue(AttrTryGet(attrs[k], layer).val))
    <2>1. PICK i, t, v : /\ v[1] \in {"bool", "int", "uint", "float", "string", "buffer"}
                         /\ attrs[k] = Typed(i, t, v)
        BY <1>2 DEF Valued
    <2> QED BY <2>1, ValueStays
<1>3. Values(attrs) = attrs
    BY <1>1, <1>2, ValuesAll
<1>4. GenetWrite(kept, layer) = [tokens |-> tokens, attrs |-> table,
                                 entries |-> Append(kept.entries, entry)]
    BY <1>3 DEF GenetWrite
<1>5. Extends(tokens, kept.tokens) /\ Names(tokens, Position(tokens, id), id)
    <2>1. Len(<<id>>) = 1 /\ <<id>>[1] = id
        OBVIOUS
    <2> DEFINE one == <<id>>
    <2>2. Len(one) \in Nat /\ 1 \in 1..Len(one) /\ one[1] = id
        BY <2>1
    <2>3. tokens = Interned(kept.tokens, one)
        OBVIOUS
    <2> HIDE DEF one, tokens
    <2>4. Extends(tokens, kept.tokens) /\ \E i \in DOMAIN tokens : tokens[i] = id
        BY <2>2, <2>3, InternedExtends
    <2>5. IsSeq(tokens)
        BY <2>4 DEF Extends
    <2> QED BY <2>4, <2>5, PositionNames
<1>6. /\ Extends(table, kept.attrs)
      /\ \A k \in DOMAIN attrs : Names(table, Position(table, KeyOf(attrs[k])), KeyOf(attrs[k]))
    <2>1. DOMAIN keys = 1..Len(attrs) /\ \A k \in DOMAIN attrs : keys[k] = KeyOf(attrs[k])
        BY <1>1
    <2>2. IsSeq(keys)
        <3>1. keys = [k \in DOMAIN keys |-> keys[k]]
            OBVIOUS
        <3> HIDE DEF keys
        <3> QED BY <1>1, <2>1, <3>1, FunctionIsSeq
    <2> HIDE DEF keys
    <2>3. Len(keys) \in Nat /\ 1..Len(keys) = DOMAIN attrs
        BY <1>1, <2>1, <2>2, LenOfSeq
    <2>4. /\ Extends(table, kept.attrs)
          /\ \A k \in 1..Len(keys) : \E i \in DOMAIN table : table[i] = keys[k]
        BY <2>3, InternedExtends
    <2> HIDE DEF table
    <2>5. IsSeq(table)
        BY <2>4 DEF Extends
    <2>6. \A k \in DOMAIN attrs : \E i \in DOMAIN table : table[i] = KeyOf(attrs[k])
        BY <2>1, <2>3, <2>4
    <2> QED BY <2>4, <2>5, <2>6, PositionNames
<1> HIDE DEF tokens, table
<1>7. /\ entry.data = layer.data /\ entry.frame.id = Position(tokens, id)
      /\ entry.frame.attrs = held /\ DOMAIN held = DOMAIN attrs
      /\ \A k \in DOMAIN attrs : /\ held[k].index = Position(table, KeyOf(attrs[k]))
                                 /\ held[k].value = ToValue(AttrTryGet(attrs[k], layer).val)
    OBVIOUS
<1> HIDE DEF held, entry
<1>8. Stands(tokens, table, entry, layer)
    BY <1>2, <1>5, <1>6, <1>7 DEF Stands
<1> DEFINE all == Append(kept.entries, entry)
<1>9. /\ Extends(all, kept.entries) /\ Len(all) = Len(kept.entries) + 1
      /\ all[Len(kept.entries) + 1] = entry
    <2>1. /\ IsSeq(all) /\ Len(all) = Len(kept.entries) + 1 /\ Len(kept.entries) \in Nat
          /\ (\A i \in 1..Len(kept.entries) : all[i] = kept.entries[i])
          /\ all[Len(kept.entries) + 1] = entry
        BY AppendIsSeq, AppendElems, LenOfSeq
    <2> HIDE DEF all
    <2> QED BY <2>1 DEF Extends
<1> HIDE DEF all
<1> QED BY <1>4, <1>5, <1>6, <1>8, <1>9 DEF all

\* The header of a file names what the tables of its worker have.
Describes(heading, kept) ==
    /\ heading.entries = Len(kept.entries)
    /\ Extends(heading.tokens, kept.tokens)
    /\ DOMAIN heading.attrs = DOMAIN kept.attrs
    /\ \A k \in DOMAIN kept.attrs :
           /\ Names(heading.tokens, heading.attrs[k].id, kept.attrs[k][1])
           /\ Names(heading.tokens, heading.attrs[k].typ, kept.attrs[k][2])

\* The pieces of a file: its header, and three for each entry.
LEMMA PiecesOf ==
    ASSUME NEW kept, IsSeq(kept.tokens), IsSeq(kept.attrs), IsSeq(kept.entries)
    PROVE  /\ Len(GenetPieces(kept)) = 2 + 3 * Len(kept.entries)
           /\ Describes(GenetPieces(kept)[2], kept)
           /\ \A i \in 1..Len(kept.entries) :
                  /\ GenetPieces(kept)[3 * i + 1] = kept.entries[i].frame
                  /\ GenetPieces(kept)[3 * i + 2] = kept.entries[i].data
<1> DEFINE attrs == kept.attrs
           entries == kept.entries
           names == [j \in 1..2 * Len(attrs) |-> attrs[(j + 1) \div 2][1 + ((j + 1) % 2)]]
           tokens == Interned(kept.tokens, names)
           classes == [k \in DOMAIN attrs |-> [id |-> Position(tokens, attrs[k][1]),
                                               typ |-> Position(tokens, attrs[k][2])]]
           heading == [tokens |-> tokens, attrs |-> classes, entries |-> Len(entries)]
           pieces == [i \in 1..3 * Len(entries) |->
                         <<"length", entries[(i + 2) \div 3].frame,
                           entries[(i + 2) \div 3].data>>[1 + ((i + 2) % 3)]]
           front == <<"length", heading>>
<1>1. GenetPieces(kept) = front \o pieces
    BY DEF GenetPieces
<1>2. /\ Len(attrs) \in Nat /\ DOMAIN attrs = 1..Len(attrs)
      /\ Len(entries) \in Nat /\ DOMAIN entries = 1..Len(entries)
    BY LenOfSeq
<1>3. /\ Extends(tokens, kept.tokens)
      /\ \A k \in DOMAIN attrs : /\ \E i \in DOMAIN tokens : tokens[i] = attrs[k][1]
                                 /\ \E i \in DOMAIN tokens : tokens[i] = attrs[k][2]
    <2>1. \A k \in 1..Len(attrs) : /\ 2 * k - 1 \in 1..2 * Len(attrs) /\ 2 * k \in 1..2 * Len(attrs)
                                   /\ names[2 * k - 1] = attrs[k][1] /\ names[2 * k] = attrs[k][2]
        <3>1. TAKE k \in 1..Len(attrs)
        <3>2. 2 * k - 1 \in 1..2 * Len(attrs) /\ 2 * k \in 1..2 * Len(attrs)
            BY <1>2
        <3>3. /\ ((2 * k - 1) + 1) \div 2 = k /\ ((2 * k - 1) + 1) % 2 = 0
              /\ (2 * k + 1) \div 2 = k /\ (2 * k + 1) % 2 = 1
            BY <1>2
        <3>4. 1 + 0 = 1 /\ 1 + 1 = 2
            OBVIOUS
        <3> QED BY <3>2, <3>3, <3>4
    <2>2. /\ 2 * Len(attrs) \in Nat /\ DOMAIN names = 1..2 * Len(attrs)
          /\ names = [j \in DOMAIN names |-> names[j]]
        BY <1>2
    <2> HIDE DEF names
    <2>3. IsSeq(names)
        BY <2>2, FunctionIsSeq
    <2>4. Len(names) \in Nat /\ 1..Len(names) = 1..2 * Len(attrs)
        BY <2>2, <2>3, LenOfSeq
    <2>5. /\ Extends(tokens, kept.tokens)
          /\ \A k \in 1..Len(names) : \E i \in DOMAIN tokens : tokens[i] = names[k]
        BY <2>4, InternedExtends
    <2> HIDE DEF tokens
    <2>6. \A j \in 1..2 * Len(attrs) : \E i \in DOMAIN tokens : tokens[i] = names[j]
        BY <2>4, <2>5
    <2>7. ASSUME NEW k \in 1..Len(attrs)
          PROVE  /\ \E i \in DOMAIN tokens : tokens[i] = attrs[k][1]
                 /\ \E i \in DOMAIN tokens : tokens[i] = attrs[k][2]
        <3>1. /\ 2 * k - 1 \in 1..2 * Len(attrs) /\ 2 * k \in 1..2 * Len(attrs)
              /\ names[2 * k - 1] = attrs[k][1] /\ names[2 * k] = attrs[k][2]
            BY <2>1
        <3>2. /\ \E i \in DOMAIN tokens : tokens[i] = names[2 * k - 1]
              /\ \E i \in DOMAIN tokens : tokens[i] = names[2 * k]
            BY <2>6, <3>1
        <3> QED BY <3>1, <3>2
    <2> QED BY <1>2, <2>5, <2>7
<1> HIDE DEF tokens
<1>4. IsSeq(tokens)
    BY <1>3 DEF Extends
<1>5. Describes(heading, kept)
    <2>1. heading.tokens = tokens /\ heading.attrs = classes /\ heading.entries = Len(kept.entries)
        OBVIOUS
    <2>2. /\ DOMAIN classes = DOMAIN attrs
          /\ \A k \in DOMAIN attrs : /\ classes[k].id = Position(tokens, attrs[k][1])
                                     /\ classes[k].typ = Position(tokens, attrs[k][2])
        OBVIOUS
    <2> HIDE DEF heading, classes
    <2>3. \A k \in DOMAIN attrs : /\ Names(tokens, classes[k].id, attrs[k][1])
                                  /\ Names(tokens, classes[k].typ, attrs[k][2])
        BY <1>3, <1>4, <2>2, PositionNames
    <2> QED BY <1>3, <1>4, <2>1, <2>2, <2>3 DEF Describes
<1> HIDE DEF heading
<1>6. /\ IsSeq(front) /\ Len(front) = 2 /\ front[2] = heading
    <2>1. front \in Seq({"length", heading}) /\ Len(front) = 2 /\ front[2] = heading
        OBVIOUS
    <2> HIDE DEF front
    <2> QED BY <2>1, SeqIsSeq
<1>7. \A i \in 1..Len(entries) :
          /\ 3 * i - 1 \in 1..3 * Len(entries) /\ 3 * i \in 1..3 * Len(entries)
          /\ pieces[3 * i - 1] = entries[i].frame /\ pieces[3 * i] = entries[i].data
    <2>1. TAKE i \in 1..Len(entries)
    <2>2. /\ 3 * i - 1 \in 1..3 * Len(entries) /\ 3 * i \in 1..3 * Len(entries)
          /\ ((3 * i - 1) + 2) \div 3 = i /\ ((3 * i - 1) + 2) % 3 = 1
          /\ (3 * i + 2) \div 3 = i /\ (3 * i + 2) % 3 = 2
        BY <1>2
    <2>3. 1 + 1 = 2 /\ 1 + 2 = 3
        OBVIOUS
    <2> QED BY <2>2, <2>3
<1>8. IsSeq(pieces) /\ Len(pieces) = 3 * Len(entries)
    <2>1. /\ 3 * Len(entries) \in Nat /\ DOMAIN pieces = 1..3 * Len(entries)
          /\ pieces = [i \in DOMAIN pieces |-> pieces[i]]
        BY <1>2
    <2> HIDE DEF pieces
    <2>2. IsSeq(pieces)
        BY <2>1, FunctionIsSeq
    <2>3. Len(pieces) \in Nat /\ 1..Len(pieces) = 1..3 * Len(entries)
        BY <2>1, <2>2, LenOfSeq
    <2> QED BY <2>1, <2>2, <2>3
<1> HIDE DEF front, pieces
<1>9. /\ Len(front \o pieces) = 2 + 3 * Len(entries)
      /\ (front \o pieces)[2] = heading
      /\ \A j \in 1..3 * Len(entries) : (front \o pieces)[2 + j] = pieces[j]
    <2>1. Len(front \o pieces) = Len(front) + Len(pieces)
        BY <1>6, <1>8, ConcatIsSeq
    <2>2. \A i \in 1..Len(front) : (front \o pieces)[i] = front[i]
        BY <1>6, <1>8, ConcatElems
    <2>3. \A j \in 1..Len(pieces) : (front \o pieces)[Len(front) + j] = pieces[j]
        <3>1. IsSeq(front) /\ IsSeq(pieces)
            BY <1>6, <1>8
        <3> QED BY <3>1, ConcatRest, Zenon
    <2>4. 2 \in 1..Len(front)
        BY <1>6
    <2> QED BY <1>6, <1>8, <2>1, <2>2, <2>3, <2>4
<1>10. ASSUME NEW i \in 1..Len(entries)
       PROVE  /\ (front \o pieces)[3 * i + 1] = entries[i].frame
              /\ (front \o pieces)[3 * i + 2] = entries[i].data
    <2>1. 3 * i + 1 = 2 + (3 * i - 1) /\ 3 * i + 2 = 2 + 3 * i
        BY <1>2
    <2>2. /\ (front \o pieces)[2 + (3 * i - 1)] = entries[i].frame
          /\ (front \o pieces)[2 + 3 * i] = entries[i].data
        BY <1>7, <1>9
    <2> QED BY <2>1, <2>2
<1> QED BY <1>1, <1>5, <1>9, <1>10

\* An entry comes back as the layer it stands for.
LEMMA LayerComesBack ==
    ASSUME NEW kept, IsSeq(kept.tokens), IsSeq(kept.attrs),
           NEW entry, NEW layer, IsSeq(layer.attrs),
           Stands(kept.tokens, kept.attrs, entry, layer),
           NEW read, Describes(read, kept)
    PROVE  /\ GenetLayer(read, entry.frame, entry.data).class.id = layer.class.id
           /\ GenetLayer(read, entry.frame, entry.data).data = layer.data
           /\ GenetLayer(read, entry.frame, entry.data).attrs = layer.attrs
<1> DEFINE attrs == [k \in DOMAIN entry.frame.attrs |->
               Typed(read.tokens[read.attrs[entry.frame.attrs[k].index + 1].id + 1],
                     read.tokens[read.attrs[entry.frame.attrs[k].index + 1].typ + 1],
                     entry.frame.attrs[k].value)]
           class == LayerClass(read.tokens[entry.frame.id + 1], <<>>, <<>>)
           plain == NewLayer(class, entry.data)
<1>1. GenetLayer(read, entry.frame, entry.data) = [plain EXCEPT !.attrs = attrs]
    BY DEF GenetLayer
<1>2. attrs = layer.attrs
    <2>1. DOMAIN entry.frame.attrs = DOMAIN layer.attrs
        BY DEF Stands
    <2>2. ASSUME NEW k \in DOMAIN layer.attrs PROVE attrs[k] = layer.attrs[k]
        <3> DEFINE key == KeyOf(layer.attrs[k])
                   index == entry.frame.attrs[k].index
        <3>1. /\ Names(kept.attrs, index, key)
              /\ layer.attrs[k] = Typed(key[1], key[2], entry.frame.attrs[k].value)
            BY DEF Stands
        <3> HIDE DEF key, index
        <3>2. index + 1 \in DOMAIN kept.attrs /\ kept.attrs[index + 1] = key
            BY <3>1 DEF Names
        <3>3. /\ Names(read.tokens, read.attrs[index + 1].id, key[1])
              /\ Names(read.tokens, read.attrs[index + 1].typ, key[2])
            BY <3>2 DEF Describes
        <3>4. /\ read.tokens[read.attrs[index + 1].id + 1] = key[1]
              /\ read.tokens[read.attrs[index + 1].typ + 1] = key[2]
            BY <3>3 DEF Names
        <3>5. attrs[k] = Typed(read.tokens[read.attrs[index + 1].id + 1],
                               read.tokens[read.attrs[index + 1].typ + 1],
                               entry.frame.attrs[k].value)
            BY <2>1 DEF index
        <3> QED BY <3>1, <3>4, <3>5
    <2>3. DOMAIN attrs = DOMAIN layer.attrs
        BY <2>1
    <2>4. attrs = [k \in DOMAIN attrs |-> attrs[k]]
        OBVIOUS
    <2>5. layer.attrs = [k \in DOMAIN layer.attrs |-> layer.attrs[k]]
        BY SeqDef DEF IsSeq
    <2> HIDE DEF attrs
    <2> QED BY <2>2, <2>3, <2>4, <2>5
<1>3. class.id = layer.class.id
    BY NamesMore DEF Stands, Describes, Names, LayerClass
<1>4. ASSUME NEW new, NEW list, "attrs" \in DOMAIN new, "class" \in DOMAIN new, "data" \in DOMAIN new
      PROVE  /\ [new EXCEPT !.attrs = list].attrs = list
             /\ [new EXCEPT !.attrs = list].class = new.class
             /\ [new EXCEPT !.attrs = list].data = new.data
    BY <1>4, Zenon
<1>5. /\ "attrs" \in DOMAIN plain /\ "class" \in DOMAIN plain /\ "data" \in DOMAIN plain
      /\ plain.class = class /\ plain.data = entry.data
    BY DEF NewLayer
<1>6. entry.data = layer.data
    BY DEF Stands
<1> HIDE DEF plain, class, attrs
<1>7. /\ [plain EXCEPT !.attrs = attrs].attrs = attrs /\ [plain EXCEPT !.attrs = attrs].class = class
      /\ [plain EXCEPT !.attrs = attrs].data = entry.data
    BY <1>4, <1>5, Zenon
<1> QED BY <1>1, <1>2, <1>3, <1>6, <1>7

\* The beginning of what was written, as far as it is in the file.
LEMMA FileIsPrefix ==
    ASSUME IsSeq(written), disk \in Nat, disk <= Len(written)
    PROVE  IsSeq(File) /\ Len(File) = disk /\ \A i \in 1..disk : File[i] = written[i]
<1>1. Len(written) \in Nat /\ DOMAIN written = 1..Len(written)
    BY LenOfSeq
<1>2. 1 \in Int /\ disk \in Int /\ \A i \in 1..disk : written[i] \in Elems(written)
    BY <1>1 DEF Elems
<1>3. /\ SubSeq(written, 1, disk) \in Seq(Elems(written))
      /\ Len(SubSeq(written, 1, disk)) = IF 1 <= disk THEN disk - 1 + 1 ELSE 0
      /\ \A i \in 1..disk - 1 + 1 : SubSeq(written, 1, disk)[i] = written[1 + i - 1]
    BY <1>2, SubSeqProperties
<1>4. IsSeq(File)
    BY <1>3, SeqIsSeq DEF File
<1>5. Len(File) = disk
    BY <1>3 DEF File
<1>6. \A i \in 1..disk : i \in 1..disk - 1 + 1 /\ 1 + i - 1 = i
    OBVIOUS
<1>7. \A i \in 1..disk : File[i] = written[i]
    BY <1>3, <1>6 DEF File
<1> QED BY <1>4, <1>5, <1>7

---------------------------------------------------------------------------
(* An export of a genet file, and its reading.                                *)

\* An export by itself of layers that a file can hold.
GenetStep == \/ ForeignFile
             \/ \E layers : /\ Exportable(layers) /\ \A i \in DOMAIN layers : Valued(layers[i])
                            /\ ExportNext(layers)
GenetSpec == ExportInit /\ [][GenetStep]_exportVars

\* The tables name everything the entries refer to, and what is written is
\* nothing, or the whole file.
GenetWriter ==
    /\ IsSeq(frames) /\ \A i \in DOMAIN frames : Valued(frames[i])
    /\ IsSeq(worker.tokens) /\ IsSeq(worker.attrs) /\ IsSeq(worker.entries)
    /\ nframes = Len(worker.entries) /\ nframes <= Len(frames)
    /\ \A i \in 1..nframes :
           Stands(worker.tokens, worker.attrs, worker.entries[i], frames[i])
    /\ written = <<>> \/ (nframes = Len(frames) /\ written = GenetPieces(worker))
    /\ output = "write" => written = <<>>
    /\ disk \in Nat /\ disk <= Len(written)

Complete ==
    /\ Len(delivered) = Len(frames)
    /\ \A i \in DOMAIN frames : /\ delivered[i].class.id = frames[i].class.id
                                /\ delivered[i].data = frames[i].data
                                /\ delivered[i].attrs = frames[i].attrs

\* A reader knows the tables and has read nothing, or it has read everything.
GenetReader ==
    /\ input \in {"none", "reading", "failed", "ended"}
    /\ input # "reading" => delivered = <<>>
    /\ input = "reading" => written # <<>>
    /\ input = "reading" =>
           \/ delivered = <<>> /\ Describes(reader, worker) /\ reader.pos = 2
           \/ /\ Complete /\ IsSeq(delivered)
              /\ reader.entries = 0 /\ reader.pos \in Nat /\ reader.pos <= disk

\* The inductive strengthening of GenetAllOrNothing.
GenetInv ==
    /\ format \in {"none", "pcap", "genet"}
    /\ output = "none" => format = "none" /\ nframes = 0 /\ input = "none"
    /\ format = "none" => output = "none"
    /\ input = "none" => delivered = <<>>
    /\ format = "genet" => GenetWriter /\ GenetReader

LEMMA GenetInitInv == ExportInit => GenetInv
    BY DEF ExportInit, GenetInv

\* The writer in a state of its own: nothing changes for the reader when the
\* worker and what is written do not, and the file does not get shorter.
LEMMA ReaderStays ==
    ASSUME format = "genet", GenetReader, UNCHANGED <<worker, frames, readerVars>>,
           written' = written \/ written = <<>>, disk \in Nat, disk' \in Nat, disk <= disk',
           disk' <= Len(written'), Len(written) \in Nat
    PROVE  GenetReader'
    BY DEF GenetReader, Complete, readerVars

LEMMA GenetNewWriter ==
    ASSUME ExportInv, GenetInv, NEW layers, Exportable(layers),
           \A i \in DOMAIN layers : Valued(layers[i]), NewWriter(layers)
    PROVE  GenetInv'
<1>1. /\ output = "none" /\ output' = "write" /\ nframes = 0 /\ input = "none"
      /\ delivered = <<>> /\ disk = 0 /\ frames' = layers
      /\ format' \in {"pcap", "genet"}
      /\ UNCHANGED <<nframes, disk, readerVars>>
    BY DEF NewWriter, GenetInv, ExportInv
<1>2. format' = "genet" => worker' = NewGenetWorker /\ written' = <<>>
    BY DEF NewWriter
<1>3. IsSeq(<<>>) /\ Len(<<>>) = 0
    BY EmptySeq, SeqIsSeq
<1>4. IsSeq(layers) /\ Len(layers) \in Nat
    BY LenOfSeq DEF Exportable
<1>5. input' = input /\ delivered' = delivered
    BY <1>1 DEF readerVars
<1>6. ASSUME format' = "genet" PROVE GenetWriter'
    <2>1. worker'.tokens = <<>> /\ worker'.attrs = <<>> /\ worker'.entries = <<>>
        BY <1>2, <1>6 DEF NewGenetWorker
    <2>2. \A i \in 1..0 : FALSE
        OBVIOUS
    <2> QED BY <1>1, <1>2, <1>3, <1>4, <1>6, <2>1, <2>2 DEF GenetWriter
<1>7. GenetReader'
    BY <1>1, <1>5 DEF GenetReader
<1> QED BY <1>1, <1>5, <1>6, <1>7 DEF GenetInv

LEMMA GenetWriteFrame ==
    ASSUME ExportInv, GenetInv, WriteFrame
    PROVE  GenetInv'
<1>1. /\ output = "write" /\ nframes < Len(frames) /\ nframes' = nframes + 1
      /\ UNCHANGED <<format, frames, readerVars>>
    BY DEF WriteFrame
<1>2. input' = input /\ delivered' = delivered /\ reader' = reader
    BY <1>1 DEF readerVars
<1>3. output' # "none" /\ format # "none"
    <2>1. format = "pcap" => output' \in {"write", "drop"}
        BY DEF WriteFrame, Write, Refuse
    <2>2. format # "pcap" => output' = output
        BY DEF WriteFrame
    <2> QED BY <1>1, <2>1, <2>2 DEF GenetInv
<1>4. ASSUME format = "genet" PROVE GenetWriter' /\ GenetReader'
    <2> DEFINE layer == frames[nframes + 1]
    <2>1. GenetWriter /\ GenetReader /\ UNCHANGED <<written, disk, output>>
          /\ worker' = GenetWrite(worker, layer)
        BY <1>4 DEF WriteFrame, GenetInv
    <2>2. /\ written = <<>> /\ nframes = Len(worker.entries) /\ nframes \in Nat
          /\ IsSeq(worker.tokens) /\ IsSeq(worker.attrs) /\ IsSeq(worker.entries)
        BY <1>1, <2>1, LenOfSeq DEF GenetWriter
    <2>3. Valued(layer) /\ Len(frames) \in Nat
        <3>1. nframes + 1 \in DOMAIN frames
            BY <1>1, <2>1, <2>2, LenOfSeq DEF GenetWriter
        <3> QED BY <2>1, <3>1, LenOfSeq DEF GenetWriter
    <2> HIDE DEF layer
    <2>4. /\ Extends(worker'.tokens, worker.tokens) /\ Extends(worker'.attrs, worker.attrs)
          /\ Extends(worker'.entries, worker.entries)
          /\ Len(worker'.entries) = Len(worker.entries) + 1
          /\ Stands(worker'.tokens, worker'.attrs, worker'.entries[Len(worker.entries) + 1], layer)
        BY <2>1, <2>2, <2>3, GenetWriteStands
    <2>5. ASSUME NEW i \in 1..nframes + 1
          PROVE  Stands(worker'.tokens, worker'.attrs, worker'.entries[i], frames[i])
        <3>1. CASE i = nframes + 1
            BY <2>2, <2>4, <3>1 DEF layer
        <3>2. CASE i \in 1..nframes
            <4>1. Stands(worker.tokens, worker.attrs, worker.entries[i], frames[i])
                BY <2>1, <3>2 DEF GenetWriter
            <4>2. worker'.entries[i] = worker.entries[i]
                BY <2>2, <2>4, <3>2 DEF Extends
            <4> QED BY <2>2, <2>4, <4>1, <4>2, StandsMore
        <3> QED BY <2>2, <3>1, <3>2
    <2>6. GenetWriter'
        <3>1. IsSeq(worker'.tokens) /\ IsSeq(worker'.attrs) /\ IsSeq(worker'.entries)
            BY <2>4 DEF Extends
        <3>2. nframes' = Len(worker'.entries) /\ nframes' <= Len(frames)
            BY <1>1, <2>2, <2>3, <2>4
        <3> QED BY <1>1, <2>1, <2>2, <2>5, <3>1, <3>2 DEF GenetWriter
    <2>7. GenetReader'
        <3>1. input # "reading"
            BY <2>1, <2>2 DEF GenetReader
        <3> QED BY <1>2, <2>1, <3>1 DEF GenetReader
    <2> QED BY <2>6, <2>7
<1> QED BY <1>1, <1>2, <1>3, <1>4 DEF GenetInv

LEMMA GenetEndOutput ==
    ASSUME ExportInv, GenetInv, EndOutput
    PROVE  GenetInv'
<1> DEFINE all == written \o IF format = "pcap" THEN <<>> ELSE GenetPieces(worker)
<1>1. /\ output = "write" /\ nframes = Len(frames) /\ Write(all, "drop")
      /\ UNCHANGED <<format, room, frames, nframes, worker, readerVars>>
    BY DEF EndOutput
<1>2. input' = input /\ delivered' = delivered /\ reader' = reader
    BY <1>1 DEF readerVars
<1>3. output' = "drop" /\ format # "none" /\ Sizes
    BY <1>1 DEF Write, Refuse, GenetInv, ExportInv
<1>4. ASSUME format = "genet" PROVE GenetWriter' /\ GenetReader'
    <2>1. GenetWriter /\ GenetReader /\ written = <<>>
        BY <1>1, <1>4 DEF GenetInv, GenetWriter
    <2>2. IsSeq(worker.entries)
        BY <2>1 DEF GenetWriter
    <2>3. all = GenetPieces(worker) /\ IsSeq(all)
        <3>1. IsSeq(GenetPieces(worker))
            BY <2>2, GenetPiecesIsSeq
        <3>2. <<>> \o GenetPieces(worker) = GenetPieces(worker)
            BY <3>1, ConcatEmptySeq DEF IsSeq
        <3>3. all = <<>> \o GenetPieces(worker)
            BY <1>4, <2>1
        <3> QED BY <3>1, <3>2, <3>3
    <2> HIDE DEF all
    <2>4. written' = all
        BY <1>1 DEF Write, Accept, Refuse
    <2>5. disk' \in Nat /\ disk' <= Len(all)
        BY <1>1, <1>3, <2>3, <2>4, WriteSizes DEF Sizes
    <2>6. GenetWriter'
        BY <1>1, <1>3, <2>1, <2>3, <2>4, <2>5 DEF GenetWriter
    <2>7. GenetReader'
        <3>1. input # "reading"
            BY <2>1 DEF GenetReader
        <3> QED BY <1>2, <2>1, <3>1 DEF GenetReader
    <2> QED BY <2>6, <2>7
<1> QED BY <1>1, <1>2, <1>3, <1>4 DEF GenetInv

LEMMA GenetDropOutput ==
    ASSUME ExportInv, GenetInv, DropOutput \/ ReportDone \/ KillWriter
    PROVE  GenetInv'
<1>1. /\ output \in {"write", "drop", "report"} /\ output' \in {"report", "ended", "dead"}
      /\ UNCHANGED <<format, frames, nframes, worker, written, readerVars>>
    BY DEF DropOutput, ReportDone, KillWriter
<1>2. Sizes /\ Len(written) \in Nat
    BY <1>1, LenOfSeq DEF ExportInv, Sizes
<1>3. disk' \in Nat /\ disk <= disk' /\ disk' <= Len(written)
    <2>1. disk' = disk \/ disk' = IF Len(written) < room THEN Len(written) ELSE room
        BY DEF DropOutput, ReportDone, KillWriter
    <2> QED BY <1>2, <2>1 DEF Sizes
<1>4. input' = input /\ delivered' = delivered /\ reader' = reader
    BY <1>1 DEF readerVars
<1>5. ASSUME format = "genet" PROVE GenetWriter' /\ GenetReader'
    <2>1. GenetWriter /\ GenetReader
        BY <1>5 DEF GenetInv
    <2>2. GenetWriter'
        BY <1>1, <1>3, <2>1 DEF GenetWriter
    <2>3. GenetReader'
        BY <1>1, <1>2, <1>3, <1>4, <1>5, <2>1, ReaderStays DEF Sizes
    <2> QED BY <2>2, <2>3
<1> QED BY <1>1, <1>4, <1>5 DEF GenetInv

LEMMA GenetOpenFile ==
    ASSUME GenetInv, OpenFile
    PROVE  GenetInv'
<1>1. input = "none" /\ output # "none" /\ delivered = <<>> /\ UNCHANGED <<writerVars, delivered>>
    BY DEF OpenFile, Readable, GenetInv
<1>2. /\ UNCHANGED <<format, frames, nframes, worker, written, disk, output>>
      /\ input' \in {"reading", "failed"}
    BY <1>1 DEF OpenFile, writerVars
<1>3. ASSUME format = "genet" PROVE GenetWriter' /\ GenetReader'
    <2>1. GenetWriter
        BY <1>3 DEF GenetInv
    <2>2. GenetWriter'
        BY <1>2, <2>1 DEF GenetWriter
    <2> SUFFICES GenetReader'
        BY <2>2
    <2>3. CASE input' = "failed"
        BY <1>1, <2>3 DEF GenetReader
    <2>4. CASE input' = "reading"
        <3>1. GenetOpen(File).ok /\ reader' = GenetOpen(File).val
            BY <1>3, <2>4 DEF OpenFile
        <3>2. /\ ~(Len(File) < 2)
              /\ reader' = [tokens |-> File[2].tokens, attrs |-> File[2].attrs,
                            entries |-> File[2].entries, pos |-> 2]
            BY <3>1 DEF GenetOpen, Ok, Err
        <3>3. IsSeq(<<>>) /\ Len(<<>>) = 0
            BY EmptySeq, SeqIsSeq
        <3>4. IsSeq(written)
            BY <2>1, <3>3, GenetPiecesIsSeq DEF GenetWriter
        <3>5. /\ disk \in Nat /\ disk <= Len(written) /\ Len(written) \in Nat
              /\ Len(File) = disk /\ \A i \in 1..disk : File[i] = written[i]
            BY <2>1, <3>4, FileIsPrefix, LenOfSeq DEF GenetWriter
        <3>6. 2 <= disk /\ written # <<>> /\ File[2] = written[2]
            BY <3>2, <3>3, <3>5
        <3>7. Describes(File[2], worker)
            BY <2>1, <3>6, PiecesOf DEF GenetWriter
        <3>8. /\ reader'.tokens = File[2].tokens /\ reader'.attrs = File[2].attrs
              /\ reader'.entries = File[2].entries /\ reader'.pos = 2
            BY <3>2
        <3>9. Describes(reader', worker)
            BY <3>7, <3>8 DEF Describes
        <3> QED BY <1>1, <1>2, <2>4, <3>6, <3>8, <3>9 DEF GenetReader
    <2> QED BY <1>2, <2>3, <2>4
<1> QED BY <1>1, <1>2, <1>3 DEF GenetInv

\* The read of a file: of all its entries, or of none.
LEMMA GenetReadFile ==
    ASSUME GenetInv, ReadFile
    PROVE  GenetInv'
<1>1. input = "reading" /\ UNCHANGED writerVars
    BY DEF ReadFile
<1>2. UNCHANGED <<format, frames, nframes, worker, written, disk, output>>
    BY <1>1 DEF writerVars
<1>3. input' \in {"reading", "ended"} /\ output # "none" /\ format # "none"
    BY <1>1 DEF ReadFile, GenetInv
<1>4. ASSUME format = "genet" PROVE GenetWriter' /\ GenetReader'
    <2> DEFINE n == reader.entries
               at(i) == reader.pos + 3 * (i - 1)
               layers == [i \in 1..n |-> GenetLayer(reader, File[at(i) + 2], File[at(i) + 3])]
    <2>1. GenetWriter /\ GenetReader /\ written # <<>>
        BY <1>1, <1>4 DEF GenetInv, GenetReader
    <2>2. GenetWriter'
        BY <1>2, <2>1 DEF GenetWriter
    <2> SUFFICES GenetReader'
        BY <2>2
    <2>3. /\ nframes = Len(frames) /\ written = GenetPieces(worker) /\ IsSeq(written)
          /\ disk \in Nat /\ disk <= Len(written) /\ nframes = Len(worker.entries)
          /\ nframes \in Nat /\ DOMAIN frames = 1..nframes
        BY <2>1, GenetPiecesIsSeq, LenOfSeq DEF GenetWriter
    <2>4. Len(File) = disk /\ \A i \in 1..disk : File[i] = written[i]
        BY <2>3, FileIsPrefix
    <2>5. \/ /\ at(n + 1) > disk /\ input' = "ended" /\ UNCHANGED delivered
          \/ /\ at(n + 1) <= disk /\ input' = "reading" /\ delivered' = delivered \o layers
             /\ reader' = [reader EXCEPT !.entries = 0, !.pos = disk]
        <3> DEFINE read == GenetRead(File, reader)
        <3>1. /\ reader' = read.reader
              /\ IF read.res.ok THEN delivered' = delivered \o read.res.val /\ UNCHANGED input
                                ELSE input' = "ended" /\ UNCHANGED delivered
            BY <1>4 DEF ReadFile
        <3>2. CASE at(n + 1) > disk
            <4>1. read.res = Err("failed to fill whole buffer")
                BY <2>4, <3>2 DEF GenetRead
            <4> HIDE DEF read, at, layers
            <4>2. ~read.res.ok
                <5>1. \A err : ~Err(err).ok
                    BY DEF Err
                <5> QED BY <4>1, <5>1
            <4> QED BY <3>1, <3>2, <4>2
        <3>3. CASE ~(at(n + 1) > disk)
            <4>1. read = [res |-> Ok(layers), reader |-> [reader EXCEPT !.entries = 0, !.pos = disk]]
                BY <2>4, <3>3 DEF GenetRead
            <4> HIDE DEF read, layers
            <4>2. read.res.ok /\ read.res.val = layers
                  /\ read.reader = [reader EXCEPT !.entries = 0, !.pos = disk]
                BY <4>1 DEF Ok
            <4>3. at(n + 1) <= disk
                <5>1. n \in Nat /\ reader.pos \in Nat
                    BY <1>1, <2>1, <2>3 DEF GenetReader, Describes
                <5> HIDE DEF n
                <5> QED BY <2>3, <3>3, <5>1
            <4> QED BY <1>1, <3>1, <4>2, <4>3
        <3> QED BY <3>2, <3>3
    <2>6. CASE at(n + 1) > disk /\ input' = "ended" /\ UNCHANGED delivered
        <3>1. CASE delivered = <<>>
            BY <2>6, <3>1 DEF GenetReader
        <3>2. CASE delivered # <<>>
            <4>1. reader.entries = 0 /\ reader.pos \in Nat /\ reader.pos <= disk
                BY <1>1, <2>1, <3>2 DEF GenetReader
            <4>2. at(n + 1) = reader.pos
                BY <4>1
            <4> QED BY <2>3, <2>6, <4>1, <4>2
        <3> QED BY <3>1, <3>2
    <2>7. CASE /\ at(n + 1) <= disk /\ input' = "reading" /\ delivered' = delivered \o layers
               /\ reader' = [reader EXCEPT !.entries = 0, !.pos = disk]
        <3>1. /\ reader'.entries = 0 /\ reader'.pos = disk
            BY <2>7
        <3>2. n \in Nat
            BY <1>1, <2>1, <2>3 DEF GenetReader, Describes
        <3>3. IsSeq(layers) /\ Len(layers) = n
            <4>1. DOMAIN layers = 1..n /\ layers = [i \in DOMAIN layers |-> layers[i]]
                OBVIOUS
            <4> HIDE DEF layers, n
            <4>2. IsSeq(layers)
                BY <3>2, <4>1, FunctionIsSeq
            <4>3. Len(layers) \in Nat /\ 1..Len(layers) = 1..n
                BY <4>1, <4>2, LenOfSeq
            <4> QED BY <3>2, <4>2, <4>3
        <3>4. CASE delivered = <<>> /\ Describes(reader, worker) /\ reader.pos = 2
            <4>1. n = nframes /\ at(n + 1) = 2 + 3 * nframes
                BY <2>3, <3>4 DEF Describes
            <4>2. delivered' = layers
                <5> HIDE DEF layers
                <5>1. <<>> \o layers = layers
                    BY <3>3, ConcatEmptySeq DEF IsSeq
                <5> QED BY <2>7, <3>4, <5>1
            <4>3. ASSUME NEW i \in 1..nframes
                  PROVE  /\ layers[i].class.id = frames[i].class.id
                         /\ layers[i].data = frames[i].data /\ layers[i].attrs = frames[i].attrs
                <5>1. at(i) + 2 = 3 * i + 1 /\ at(i) + 3 = 3 * i + 2
                    BY <2>3, <3>4
                <5>2. 3 * i + 1 \in 1..disk /\ 3 * i + 2 \in 1..disk
                    BY <2>3, <2>7, <4>1
                <5>3. /\ File[at(i) + 2] = worker.entries[i].frame
                      /\ File[at(i) + 3] = worker.entries[i].data
                    <6>1. /\ written[3 * i + 1] = worker.entries[i].frame
                          /\ written[3 * i + 2] = worker.entries[i].data
                        BY <2>1, <2>3, PiecesOf DEF GenetWriter
                    <6> QED BY <2>4, <5>1, <5>2, <6>1
                <5>4. layers[i] = GenetLayer(reader, worker.entries[i].frame, worker.entries[i].data)
                    BY <4>1, <5>3
                <5>5. /\ IsSeq(worker.tokens) /\ IsSeq(worker.attrs) /\ IsSeq(frames[i].attrs)
                      /\ Stands(worker.tokens, worker.attrs, worker.entries[i], frames[i])
                    BY <2>1, <2>3 DEF GenetWriter, Valued
                <5> HIDE DEF layers
                <5> DEFINE entry == worker.entries[i]
                           layer == frames[i]
                           back == GenetLayer(reader, entry.frame, entry.data)
                <5>6. back.class.id = layer.class.id /\ back.data = layer.data
                      /\ back.attrs = layer.attrs
                    <6>1. /\ IsSeq(worker.tokens) /\ IsSeq(worker.attrs) /\ IsSeq(layer.attrs)
                          /\ Stands(worker.tokens, worker.attrs, entry, layer)
                          /\ Describes(reader, worker)
                        BY <3>4, <5>5
                    <6> HIDE DEF entry, layer
                    <6> QED BY <6>1, LayerComesBack
                <5> QED BY <5>4, <5>6
            <4> HIDE DEF layers
            <4>4. Complete'
                BY <1>2, <2>3, <3>3, <4>1, <4>2, <4>3 DEF Complete
            <4> QED BY <2>1, <2>3, <2>7, <1>2, <3>1, <3>3, <4>2, <4>4 DEF GenetReader
        <3>5. CASE Complete /\ IsSeq(delivered) /\ reader.entries = 0
            <4>1. layers = <<>>
                <5> HIDE DEF layers
                <5> QED BY <3>3, <3>5, EmptySeq
            <4>2. delivered' = delivered
                <5>1. delivered \o <<>> = delivered
                    BY <3>5, ConcatEmptySeq DEF IsSeq
                <5> HIDE DEF layers
                <5> QED BY <2>7, <4>1, <5>1
            <4> QED BY <1>2, <2>1, <2>3, <2>7, <3>1, <3>5, <4>2 DEF GenetReader, Complete
        <3> QED BY <1>1, <2>1, <3>4, <3>5 DEF GenetReader
    <2> QED BY <2>5, <2>6, <2>7
<1>5. input' # "none" /\ output' # "none" /\ format' # "none" /\ format' \in {"pcap", "genet"}
    BY <1>2, <1>3 DEF GenetInv
<1> QED BY <1>2, <1>4, <1>5 DEF GenetInv

LEMMA GenetInductive == GenetSpec => [](ExportInv /\ GenetInv)
<1>1. ASSUME ExportInv, GenetInv, [GenetStep]_exportVars PROVE GenetInv'
    <2>1. CASE ForeignFile
        <3>1. /\ output = "none" /\ format' = "pcap" /\ output' = "ended"
              /\ UNCHANGED <<nframes, readerVars>>
            BY <2>1 DEF ForeignFile
        <3> QED BY <1>1, <3>1 DEF GenetInv, readerVars
    <2>2. ASSUME NEW layers, Exportable(layers), \A i \in DOMAIN layers : Valued(layers[i]),
                 ExportNext(layers)
          PROVE  GenetInv'
        <3>1. CASE NewWriter(layers)
            BY <1>1, <2>2, <3>1, GenetNewWriter
        <3>2. CASE WriteFrame \/ EndOutput
            BY <1>1, <3>2, GenetWriteFrame, GenetEndOutput
        <3>3. CASE DropOutput \/ ReportDone \/ KillWriter
            BY <1>1, <3>3, GenetDropOutput
        <3>4. CASE OpenFile \/ ReadFile
            BY <1>1, <3>4, GenetOpenFile, GenetReadFile
        <3> QED BY <2>2, <3>1, <3>2, <3>3, <3>4 DEF ExportNext
    <2>3. CASE UNCHANGED exportVars
        BY <1>1, <2>3 DEF exportVars, writerVars, readerVars, GenetInv, GenetWriter, GenetReader,
                          Complete
    <2> QED BY <1>1, <2>1, <2>2, <2>3 DEF GenetStep
<1>2. GenetStep => ExportStep
    BY DEF GenetStep, ExportStep
<1>3. GenetSpec => ExportSpec
    BY <1>2, PTL DEF GenetSpec, ExportSpec
<1> QED BY <1>1, <1>3, GenetInitInv, ExportInductive, PTL DEF GenetSpec, ExportSpec

\* A dump to a genet file, however far a full disk or a crash let it get, and
\* whenever it is opened, is read as a whole or not at all, for all frames whose
\* attributes have values of the types that the format knows.
THEOREM GenetCorrect == GenetSpec => []GenetAllOrNothing
<1>1. GenetInv => GenetAllOrNothing
    <2>1. ASSUME GenetInv, format = "genet", input # "none" PROVE GenetAllOrNothing
        <3>1. GenetWriter /\ GenetReader
            BY <2>1 DEF GenetInv
        <3>2. CASE input # "reading" /\ delivered = <<>>
            BY <3>2 DEF GenetAllOrNothing
        <3>3. CASE input = "reading" /\ delivered = <<>> /\ Describes(reader, worker)
            <4>1. reader.entries = Len(frames)
                BY <3>1, <3>3 DEF GenetWriter, GenetReader, Describes
            <4> QED BY <3>3, <4>1 DEF GenetAllOrNothing
        <3>4. CASE Complete
            BY <3>4 DEF GenetAllOrNothing, Complete
        <3> QED BY <3>1, <3>2, <3>3, <3>4 DEF GenetReader
    <2> QED BY <2>1 DEF GenetAllOrNothing
<1> QED BY <1>1, GenetInductive, PTL

---------------------------------------------------------------------------
(* The bytes of a pcap file.                                                  *)

\* A sequence is found at a position of another one, counted from 0.
Lies(all, at, part) ==
    /\ at \in Nat /\ at + Len(part) <= Len(all)
    /\ \A i \in 1..Len(part) : all[at + i] = part[i]

LEMMA LiesMore ==
    ASSUME NEW s, IsSeq(s), NEW t, IsSeq(t), NEW at, NEW part, IsSeq(part), Lies(s, at, part)
    PROVE  Lies(s \o t, at, part)
<1>1. Len(s) \in Nat /\ Len(t) \in Nat /\ Len(part) \in Nat
    BY LenOfSeq
<1>2. Len(s \o t) = Len(s) + Len(t) /\ \A i \in 1..Len(s) : (s \o t)[i] = s[i]
    BY ConcatIsSeq, ConcatElems
<1>3. \A i \in 1..Len(part) : at + i \in 1..Len(s)
    BY <1>1 DEF Lies
<1> QED BY <1>1, <1>2, <1>3 DEF Lies

LEMMA LiesLast ==
    ASSUME NEW s, IsSeq(s), NEW t, IsSeq(t)
    PROVE  Lies(s \o t, Len(s), t)
<1>1. Len(s) \in Nat /\ Len(t) \in Nat
    BY LenOfSeq
<1>2. Len(s \o t) = Len(s) + Len(t) /\ \A i \in 1..Len(t) : (s \o t)[Len(s) + i] = t[i]
    BY ConcatIsSeq, ConcatRest
<1> QED BY <1>1, <1>2 DEF Lies

LEMMA ElementsOfPart ==
    ASSUME NEW s, IsSeq(s), NEW m \in Nat, NEW n \in Nat, m <= n, n <= Len(s)
    PROVE  /\ IsSeq(SubSeq(s, m + 1, n)) /\ Len(SubSeq(s, m + 1, n)) = n - m
           /\ \A i \in 1..n - m : SubSeq(s, m + 1, n)[i] = s[m + i]
<1>1. Len(s) \in Nat /\ DOMAIN s = 1..Len(s)
    BY LenOfSeq
<1>2. m + 1 \in Int /\ n \in Int /\ \A i \in m + 1..n : s[i] \in Elems(s)
    BY <1>1 DEF Elems
<1>3. /\ SubSeq(s, m + 1, n) \in Seq(Elems(s))
      /\ Len(SubSeq(s, m + 1, n)) = IF m + 1 <= n THEN n - (m + 1) + 1 ELSE 0
      /\ \A i \in 1..n - (m + 1) + 1 : SubSeq(s, m + 1, n)[i] = s[m + 1 + i - 1]
    BY <1>2, SubSeqProperties
<1>4. IsSeq(SubSeq(s, m + 1, n))
    BY <1>3, SeqIsSeq
<1>5. \A i \in 1..n - m : i \in 1..n - (m + 1) + 1 /\ m + 1 + i - 1 = m + i
    OBVIOUS
<1> QED BY <1>3, <1>4, <1>5

\* What lies at a position is the part of the sequence from there.
LEMMA LiesPart ==
    ASSUME NEW all, IsSeq(all), NEW at, NEW part, IsSeq(part), Lies(all, at, part)
    PROVE  SubSeq(all, at + 1, at + Len(part)) = part
<1>1. Len(all) \in Nat /\ Len(part) \in Nat /\ at \in Nat /\ at + Len(part) <= Len(all)
    BY LenOfSeq DEF Lies
<1> DEFINE n == at + Len(part)
           found == SubSeq(all, at + 1, n)
<1>2. n \in Nat /\ at <= n /\ n <= Len(all) /\ n - at = Len(part)
    BY <1>1
<1> HIDE DEF n
<1>3. IsSeq(found) /\ Len(found) = n - at /\ \A i \in 1..n - at : found[i] = all[at + i]
    BY <1>1, <1>2, ElementsOfPart
<1> HIDE DEF found
<1>4. found = part
    BY <1>2, <1>3, SeqsEqual DEF Lies
<1> QED BY <1>4 DEF found, n

LEMMA PartLies ==
    ASSUME NEW all, IsSeq(all), NEW at \in Nat, NEW part, IsSeq(part),
           at + Len(part) <= Len(all), SubSeq(all, at + 1, at + Len(part)) = part
    PROVE  Lies(all, at, part)
<1>1. Len(all) \in Nat /\ Len(part) \in Nat
    BY LenOfSeq
<1> DEFINE n == at + Len(part)
<1>2. n \in Nat /\ at <= n /\ n <= Len(all) /\ n - at = Len(part)
    BY <1>1
<1>3. SubSeq(all, at + 1, n) = part
    OBVIOUS
<1> HIDE DEF n
<1>4. \A i \in 1..n - at : SubSeq(all, at + 1, n)[i] = all[at + i]
    BY <1>2, ElementsOfPart
<1> QED BY <1>2, <1>3, <1>4 DEF Lies, n

LEMMA ReverseTwice ==
    ASSUME NEW s, IsSeq(s)
    PROVE  Reverse(Reverse(s)) = s
<1> DEFINE r == Reverse(s)
           n == Len(s)
<1>1. n \in Nat
    BY LenOfSeq
<1>2. IsSeq(r) /\ Len(r) = n
    BY ReverseIsSeq
<1>3. \A i \in 1..n : r[i] = s[(n - i) + 1]
    BY DEF Reverse
<1>4. IsSeq(Reverse(r)) /\ Len(Reverse(r)) = n
    BY <1>2, ReverseIsSeq
<1>5. \A i \in 1..n : Reverse(r)[i] = r[(n - i) + 1]
    BY <1>2 DEF Reverse
<1> HIDE DEF r, n
<1>6. ASSUME NEW i \in 1..n PROVE Reverse(r)[i] = s[i]
    <2>1. (n - i) + 1 \in 1..n /\ (n - ((n - i) + 1)) + 1 = i
        BY <1>1
    <2>2. r[(n - i) + 1] = s[(n - ((n - i) + 1)) + 1]
        BY <1>3, <2>1
    <2> QED BY <1>5, <2>1, <2>2
<1>7. Reverse(r) = s
    BY <1>4, <1>6, SeqsEqual DEF n
<1> QED BY <1>7 DEF r

\* A number of a file.
FieldBytes(magic, n) == IF magic \in {"le_usec", "le_nsec"} THEN LE32(n) ELSE BE32(n)

LEMMA FieldBytesIsSeq ==
    ASSUME NEW magic, NEW n
    PROVE  IsSeq(FieldBytes(magic, n)) /\ Len(FieldBytes(magic, n)) = 4
    BY BE32IsSeq, LE32IsSeq DEF FieldBytes

\* A number is read as it was written.
LEMMA NumberRead ==
    ASSUME NEW all, IsSeq(all), NEW magic, NEW n \in Nat, NEW at,
           Lies(all, at, FieldBytes(magic, n))
    PROVE  Unsigned(magic \in {"le_usec", "le_nsec"}, SubSeq(all, at + 1, at + 4)) = n
<1>1. SubSeq(all, at + 1, at + 4) = FieldBytes(magic, n)
    BY FieldBytesIsSeq, LiesPart
<1>2. CASE magic \in {"le_usec", "le_nsec"}
    <2>1. Reverse(LE32(n)) = BE32(n)
        BY BE32IsSeq, ReverseTwice DEF LE32
    <2> QED BY <1>1, <1>2, <2>1, NumberOfBytes DEF Unsigned, FieldBytes
<1>3. CASE magic \notin {"le_usec", "le_nsec"}
    BY <1>1, <1>3, NumberOfBytes DEF Unsigned, FieldBytes
<1> QED BY <1>2, <1>3

---------------------------------------------------------------------------
(* Where the records end.                                                     *)

IsEnds(f, records, N) ==
    f = [n \in 0..N |-> IF n = 0 THEN 24 ELSE f[n - 1] + 16 + Len(records[n].data)]

LEMMA EndsExist ==
    ASSUME NEW records, NEW N \in Nat
    PROVE  \E f : IsEnds(f, records, N)
<1> DEFINE T == {m \in 0..N : \E f : IsEnds(f, records, m)}
<1>1. 0 \in T
    <2>1. IsEnds([n \in 0..0 |-> 24], records, 0)
        BY DEF IsEnds
    <2> QED BY <2>1
<1>2. ASSUME NEW m \in 0..N - 1, m \in T PROVE m + 1 \in T
    <2>1. PICK f : IsEnds(f, records, m)
        BY <1>2
    <2> DEFINE g == [n \in 0..m + 1 |->
                        IF n <= m THEN f[n] ELSE f[m] + 16 + Len(records[n].data)]
    <2>2. \A n \in 0..m + 1 :
              g[n] = IF n = 0 THEN 24 ELSE g[n - 1] + 16 + Len(records[n].data)
        <3>1. TAKE n \in 0..m + 1
        <3>2. CASE n = 0
            BY <2>1, <3>2 DEF IsEnds
        <3>3. CASE n \in 1..m
            <4>1. g[n] = f[n] /\ g[n - 1] = f[n - 1]
                BY <3>3
            <4>2. f[n] = f[n - 1] + 16 + Len(records[n].data)
                BY <2>1, <3>3 DEF IsEnds
            <4> QED BY <3>3, <4>1, <4>2
        <3>4. CASE n = m + 1
            BY <3>4
        <3> QED BY <3>2, <3>3, <3>4
    <2>3. IsEnds(g, records, m + 1)
        BY <2>2 DEF IsEnds
    <2>4. m + 1 \in 0..N
        OBVIOUS
    <2> HIDE DEF g
    <2> QED BY <2>3, <2>4
<1> HIDE DEF T
<1>3. N \in T
    BY <1>1, <1>2, UpTo
<1> QED BY <1>3 DEF T

LEMMA EndsSteps ==
    ASSUME NEW records, IsSeq(records)
    PROVE  /\ RecordEnd(records)[0] = 24
           /\ \A n \in 1..Len(records) :
                  RecordEnd(records)[n] = RecordEnd(records)[n - 1] + 16 + Len(records[n].data)
<1> DEFINE N == Len(records)
           end == CHOOSE f : IsEnds(f, records, N)
<1>1. N \in Nat
    BY LenOfSeq
<1>2. RecordEnd(records) = end
    BY DEF RecordEnd, IsEnds
<1>3. IsEnds(end, records, N)
    BY <1>1, EndsExist
<1> HIDE DEF end, N
<1>4. /\ end[0] = 24
      /\ \A n \in 1..N : end[n] = end[n - 1] + 16 + Len(records[n].data)
    BY <1>1, <1>3 DEF IsEnds
<1> QED BY <1>2, <1>4 DEF N

\* Every record takes some room.
LEMMA EndsGrow ==
    ASSUME NEW records, IsSeq(records), \A i \in DOMAIN records : IsSeq(records[i].data)
    PROVE  \A n \in 0..Len(records) :
               /\ RecordEnd(records)[n] \in Nat /\ RecordEnd(records)[n] >= 24
               /\ \A m \in 0..n - 1 : RecordEnd(records)[m] + 16 <= RecordEnd(records)[n]
<1> DEFINE N == Len(records)
           end == RecordEnd(records)
           Grows(n) == /\ end[n] \in Nat /\ end[n] >= 24
                       /\ \A m \in 0..n - 1 : end[m] \in Nat /\ end[m] + 16 <= end[n]
           T == {n \in 0..N : Grows(n)}
<1>1. N \in Nat /\ DOMAIN records = 1..N
    BY LenOfSeq
<1>2. /\ end[0] = 24
      /\ \A n \in 1..N : end[n] = end[n - 1] + 16 + Len(records[n].data)
    BY EndsSteps
<1> HIDE DEF end, N
<1>3. Grows(0)
    BY <1>2
<1>4. ASSUME NEW n \in 0..N - 1, Grows(n) PROVE Grows(n + 1)
    <2>1. n + 1 \in 1..N /\ (n + 1) - 1 = n
        BY <1>1
    <2>2. end[n + 1] = end[n] + 16 + Len(records[n + 1].data) /\ Len(records[n + 1].data) \in Nat
        BY <1>1, <1>2, <2>1, LenOfSeq
    <2>3. end[n + 1] \in Nat /\ end[n + 1] >= 24 /\ end[n] + 16 <= end[n + 1]
        <3>1. end[n] \in Nat /\ end[n] >= 24
            BY <1>4
        <3> DEFINE size == Len(records[n + 1].data)
        <3>2. end[n + 1] = end[n] + 16 + size /\ size \in Nat
            BY <2>2
        <3> HIDE DEF size
        <3> QED BY <3>1, <3>2
    <2>4. ASSUME NEW m \in 0..n PROVE end[m] \in Nat /\ end[m] + 16 <= end[n + 1]
        <3>1. CASE m = n
            BY <1>4, <2>3, <3>1
        <3>2. CASE m \in 0..n - 1
            BY <1>4, <2>3, <3>2
        <3> QED BY <1>1, <3>1, <3>2
    <2> QED BY <2>1, <2>3, <2>4
<1> HIDE DEF Grows
<1>5. 0 \in T /\ \A n \in 0..N - 1 : n \in T => n + 1 \in T
    BY <1>1, <1>3, <1>4
<1> HIDE DEF T
<1>6. \A n \in 0..N : n \in T
    BY <1>1, <1>5, UpTo
<1> QED BY <1>6 DEF T, Grows, N, end

---------------------------------------------------------------------------
(* What a pcap file has.                                                      *)

\* A layer of a link type, with numbers.
Linked(layer, network) ==
    /\ IsSeq(layer.data) /\ layer.class.id = LinkClass(network, Nil).id
    /\ FieldOf(layer, "link.type") = network
    /\ \A id \in {"link.length", "link.timestamp.sec", "link.timestamp.usec"} :
           FieldOf(layer, id) \in Nat

AllLinked(layers, network) == \A i \in DOMAIN layers : Linked(layers[i], network)

\* The record of a layer, from a position on.
RecordLies(bytes, magic, at, layer) ==
    /\ Lies(bytes, at, FieldBytes(magic, FieldOf(layer, "link.timestamp.sec")))
    /\ \E time \in Nat : /\ Lies(bytes, at + 4, FieldBytes(magic, time))
                         /\ FieldOf(layer, "link.timestamp.usec") = Unit(magic) * time
    /\ Lies(bytes, at + 8, FieldBytes(magic, Len(layer.data)))
    /\ Lies(bytes, at + 12, FieldBytes(magic, FieldOf(layer, "link.length")))
    /\ Lies(bytes, at + 16, layer.data)

\* The header and the records of the first n layers, and nothing else.
PcapLayout(bytes, magic, network, layers, n) ==
    /\ IsSeq(bytes) /\ magic \in DOMAIN Magic /\ network \in Nat
    /\ n \in 0..Len(layers) /\ Len(bytes) = RecordEnd(layers)[n]
    /\ Lies(bytes, 0, Magic[magic]) /\ Lies(bytes, 20, FieldBytes(magic, network))
    /\ \A i \in 1..n : RecordLies(bytes, magic, RecordEnd(layers)[i - 1], layers[i])

\* Four numbers and the data, written after something.
LEMMA RecordWritten ==
    ASSUME NEW front, IsSeq(front), NEW a, NEW b, NEW c, NEW d, NEW data,
           IsSeq(a), IsSeq(b), IsSeq(c), IsSeq(d), IsSeq(data),
           Len(a) = 4, Len(b) = 4, Len(c) = 4, Len(d) = 4
    PROVE  LET all == ((((front \o a) \o b) \o c) \o d) \o data
           IN  /\ IsSeq(all) /\ Len(all) = Len(front) + 16 + Len(data)
               /\ Lies(all, Len(front), a) /\ Lies(all, Len(front) + 4, b)
               /\ Lies(all, Len(front) + 8, c) /\ Lies(all, Len(front) + 12, d)
               /\ Lies(all, Len(front) + 16, data)
               /\ \A at, part : IsSeq(part) /\ Lies(front, at, part) => Lies(all, at, part)
<1> DEFINE f1 == front \o a
           f2 == f1 \o b
           f3 == f2 \o c
           f4 == f3 \o d
           f5 == f4 \o data
<1>0. Len(front) \in Nat /\ Len(data) \in Nat
    BY LenOfSeq
<1>1. IsSeq(f1) /\ Len(f1) = Len(front) + 4 /\ Lies(f1, Len(front), a)
    BY ConcatIsSeq, LiesLast
<1> HIDE DEF f1
<1>2. IsSeq(f2) /\ Len(f2) = Len(front) + 8 /\ Lies(f2, Len(front), a) /\ Lies(f2, Len(front) + 4, b)
    <2>1. IsSeq(f2) /\ Len(f2) = Len(f1) + 4 /\ Lies(f2, Len(front), a) /\ Lies(f2, Len(f1), b)
        BY <1>1, ConcatIsSeq, LiesLast, LiesMore
    <2> HIDE DEF f2
    <2> QED BY <1>0, <1>1, <2>1
<1> HIDE DEF f2
<1>3. IsSeq(f3) /\ Len(f3) = Len(front) + 12 /\ Lies(f3, Len(front), a)
      /\ Lies(f3, Len(front) + 4, b) /\ Lies(f3, Len(front) + 8, c)
    <2>1. IsSeq(f3) /\ Len(f3) = Len(f2) + 4 /\ Lies(f3, Len(front), a)
          /\ Lies(f3, Len(front) + 4, b) /\ Lies(f3, Len(f2), c)
        BY <1>2, ConcatIsSeq, LiesLast, LiesMore
    <2> HIDE DEF f3
    <2> QED BY <1>0, <1>2, <2>1
<1> HIDE DEF f3
<1>4. IsSeq(f4) /\ Len(f4) = Len(front) + 16 /\ Lies(f4, Len(front), a)
      /\ Lies(f4, Len(front) + 4, b) /\ Lies(f4, Len(front) + 8, c) /\ Lies(f4, Len(front) + 12, d)
    <2>1. IsSeq(f4) /\ Len(f4) = Len(f3) + 4 /\ Lies(f4, Len(front), a)
          /\ Lies(f4, Len(front) + 4, b) /\ Lies(f4, Len(front) + 8, c) /\ Lies(f4, Len(f3), d)
        BY <1>3, ConcatIsSeq, LiesLast, LiesMore
    <2> HIDE DEF f4
    <2> QED BY <1>0, <1>3, <2>1
<1> HIDE DEF f4
<1>5. IsSeq(f5) /\ Len(f5) = Len(front) + 16 + Len(data) /\ Lies(f5, Len(front), a)
      /\ Lies(f5, Len(front) + 4, b) /\ Lies(f5, Len(front) + 8, c) /\ Lies(f5, Len(front) + 12, d)
      /\ Lies(f5, Len(front) + 16, data)
    <2>1. IsSeq(f5) /\ Len(f5) = Len(f4) + Len(data) /\ Lies(f5, Len(front), a)
          /\ Lies(f5, Len(front) + 4, b) /\ Lies(f5, Len(front) + 8, c)
          /\ Lies(f5, Len(front) + 12, d) /\ Lies(f5, Len(f4), data)
        BY <1>4, ConcatIsSeq, LiesLast, LiesMore
    <2> HIDE DEF f5
    <2> QED BY <1>0, <1>4, <2>1
<1>6. \A at, part : IsSeq(part) /\ Lies(front, at, part) => Lies(f5, at, part)
    <2>1. TAKE at, part
    <2>2. HAVE IsSeq(part) /\ Lies(front, at, part)
    <2>3. Lies(f1, at, part)
        BY <2>2, LiesMore DEF f1
    <2>4. Lies(f2, at, part)
        BY <1>1, <2>2, <2>3, LiesMore DEF f2
    <2>5. Lies(f3, at, part)
        BY <1>2, <2>2, <2>4, LiesMore DEF f3
    <2>6. Lies(f4, at, part)
        BY <1>3, <2>2, <2>5, LiesMore DEF f4
    <2> QED BY <1>4, <2>2, <2>6, LiesMore
<1> QED BY <1>5, <1>6 DEF f4, f3, f2, f1

LEMMA ConcatAssoc ==
    ASSUME NEW s, NEW t, NEW u, IsSeq(s), IsSeq(t), IsSeq(u)
    PROVE  s \o (t \o u) = (s \o t) \o u
<1> DEFINE S == Elems(s) \union Elems(t) \union Elems(u)
<1>1. s \in Seq(S) /\ t \in Seq(S) /\ u \in Seq(S)
    <2>1. Elems(s) \subseteq S /\ Elems(t) \subseteq S /\ Elems(u) \subseteq S
        OBVIOUS
    <2>2. s \in Seq(Elems(s)) /\ t \in Seq(Elems(t)) /\ u \in Seq(Elems(u))
        BY DEF IsSeq
    <2> HIDE DEF S
    <2> QED BY <2>1, <2>2, SeqMonotonic
<1> HIDE DEF S
<1> QED BY <1>1, ConcatAssociative

LEMMA MagicIsSeq ==
    ASSUME NEW magic \in DOMAIN Magic
    PROVE  IsSeq(Magic[magic]) /\ Len(Magic[magic]) = 4
<1>1. \A a, b, c, d : IsSeq(<<a, b, c, d>>) /\ Len(<<a, b, c, d>>) = 4
    <2>1. TAKE a, b, c, d
    <2> DEFINE s == <<a, b, c, d>>
    <2>2. s \in Seq({a, b, c, d}) /\ Len(s) = 4
        OBVIOUS
    <2> HIDE DEF s
    <2>3. IsSeq(s) /\ Len(s) = 4
        BY <2>2, SeqIsSeq
    <2> QED BY <2>3 DEF s
<1>2. \E a, b, c, d : Magic[magic] = <<a, b, c, d>>
    BY DEF Magic
<1> QED BY <1>1, <1>2

\* Magic numbers differ.
LEMMA MagicDiffer ==
    ASSUME NEW magic \in DOMAIN Magic, NEW other \in DOMAIN Magic, Magic[magic] = Magic[other]
    PROVE  magic = other
<1>1. DOMAIN Magic = {"le_usec", "be_usec", "le_nsec", "be_nsec"}
    BY DEF Magic
<1>2. /\ Magic["le_usec"][1] = 212 /\ Magic["be_usec"][1] = 161
      /\ Magic["le_nsec"][1] = 77 /\ Magic["be_nsec"][1] = 161
      /\ Magic["be_usec"][3] = 195 /\ Magic["be_nsec"][3] = 60
    BY DEF Magic
<1> QED BY <1>1, <1>2

\* The header has the link type in its last four bytes.
LEMMA HeaderLies ==
    ASSUME NEW network
    PROVE  /\ IsSeq(PcapHeader(0, network)) /\ Len(PcapHeader(0, network)) = 20
           /\ Lies(PcapHeader(0, network), 16, LE32(network))
<1> DEFINE major == LE16(2)
           minor == LE16(4)
           zero == LE32(0)
           type == LE32(network)
           h1 == major \o minor
           h2 == h1 \o zero
           h3 == h2 \o zero
           h4 == h3 \o zero
           h5 == h4 \o type
<1>0. /\ IsSeq(major) /\ Len(major) = 2 /\ IsSeq(minor) /\ Len(minor) = 2
      /\ IsSeq(zero) /\ Len(zero) = 4 /\ IsSeq(type) /\ Len(type) = 4
    BY LE16IsSeq, LE32IsSeq
<1>6. PcapHeader(0, network) = h5
    BY DEF PcapHeader
<1> HIDE DEF major, minor, zero, type
<1>1. IsSeq(h1) /\ Len(h1) = 4
    <2>1. IsSeq(h1) /\ Len(h1) = Len(major) + Len(minor)
        BY <1>0, ConcatIsSeq
    <2> HIDE DEF h1
    <2> QED BY <1>0, <2>1
<1> HIDE DEF h1
<1>2. IsSeq(h2) /\ Len(h2) = 8
    <2>1. IsSeq(h2) /\ Len(h2) = Len(h1) + Len(zero)
        BY <1>0, <1>1, ConcatIsSeq
    <2> HIDE DEF h2
    <2> QED BY <1>0, <1>1, <2>1
<1> HIDE DEF h2
<1>3. IsSeq(h3) /\ Len(h3) = 12
    <2>1. IsSeq(h3) /\ Len(h3) = Len(h2) + Len(zero)
        BY <1>0, <1>2, ConcatIsSeq
    <2> HIDE DEF h3
    <2> QED BY <1>0, <1>2, <2>1
<1> HIDE DEF h3
<1>4. IsSeq(h4) /\ Len(h4) = 16
    <2>1. IsSeq(h4) /\ Len(h4) = Len(h3) + Len(zero)
        BY <1>0, <1>3, ConcatIsSeq
    <2> HIDE DEF h4
    <2> QED BY <1>0, <1>3, <2>1
<1> HIDE DEF h4
<1>5. IsSeq(h5) /\ Len(h5) = 20 /\ Lies(h5, 16, type)
    <2>1. IsSeq(h5) /\ Len(h5) = Len(h4) + Len(type) /\ Lies(h5, Len(h4), type)
        BY <1>0, <1>4, ConcatIsSeq, LiesLast
    <2> HIDE DEF h5
    <2> QED BY <1>0, <1>4, <2>1
<1> QED BY <1>5, <1>6 DEF type

\* The magic number and the header, without a record.
LEMMA EmptyLayout ==
    ASSUME NEW layers, IsSeq(layers), NEW network \in Nat
    PROVE  PcapLayout(Magic["le_nsec"] \o PcapHeader(0, network), "le_nsec", network, layers, 0)
<1> DEFINE magic == Magic["le_nsec"]
           heading == PcapHeader(0, network)
           all == magic \o heading
<1>0. "le_nsec" \in DOMAIN Magic
    BY DEF Magic
<1>1. IsSeq(magic) /\ Len(magic) = 4
    BY <1>0, MagicIsSeq
<1>2. /\ IsSeq(heading) /\ Len(heading) = 20 /\ Lies(heading, 16, LE32(network))
      /\ Len(LE32(network)) = 4
    BY HeaderLies, LE32IsSeq
<1> HIDE DEF magic, heading
<1>3. IsSeq(all) /\ Len(all) = 24 /\ \A j \in 1..20 : all[4 + j] = heading[j]
    <2>1. IsSeq(all) /\ Len(all) = Len(magic) + Len(heading)
        BY <1>1, <1>2, ConcatIsSeq
    <2>2. \A j \in 1..Len(heading) : all[Len(magic) + j] = heading[j]
        <3>1. IsSeq(magic) /\ IsSeq(heading)
            BY <1>1, <1>2
        <3> QED BY <3>1, ConcatRest
    <2> HIDE DEF all
    <2> QED BY <1>1, <1>2, <2>1, <2>2
<1>4. Lies(all, 0, magic)
    <2>1. \A i \in 1..Len(magic) : all[i] = magic[i]
        BY <1>1, <1>2, ConcatElems
    <2> HIDE DEF all
    <2>2. \A i \in 1..Len(magic) : 0 + i = i
        BY <1>1
    <2> QED BY <1>1, <1>3, <2>1, <2>2 DEF Lies
<1>5. Lies(all, 20, LE32(network))
    <2> HIDE DEF all
    <2>1. \A i \in 1..4 : 16 + i \in 1..20 /\ 4 + (16 + i) = 20 + i
        OBVIOUS
    <2>2. \A i \in 1..4 : heading[16 + i] = LE32(network)[i]
        BY <1>2 DEF Lies
    <2>3. \A i \in 1..4 : all[20 + i] = LE32(network)[i]
        BY <1>3, <2>1, <2>2
    <2> QED BY <1>2, <1>3, <2>3 DEF Lies
<1>6. FieldBytes("le_nsec", network) = LE32(network)
    BY DEF FieldBytes
<1>7. RecordEnd(layers)[0] = 24 /\ 0 \in 0..Len(layers)
    BY EndsSteps, LenOfSeq
<1> HIDE DEF all
<1>8. PcapLayout(all, "le_nsec", network, layers, 0)
    <2>1. \A i \in 1..0 : FALSE
        OBVIOUS
    <2> QED BY <1>0, <1>3, <1>4, <1>5, <1>6, <1>7, <2>1 DEF PcapLayout, magic
<1> QED BY <1>8 DEF all, magic, heading

LEMMA Regrouped ==
    ASSUME NEW s, NEW a, NEW b, IsSeq(s), IsSeq(a), IsSeq(b)
    PROVE  IsSeq(a \o b) /\ s \o (a \o b) = (s \o a) \o b
    BY ConcatIsSeq, ConcatAssoc

LEMMA Grouped ==
    ASSUME NEW s, NEW a, NEW b, NEW c, NEW d, NEW e,
           IsSeq(s), IsSeq(a), IsSeq(b), IsSeq(c), IsSeq(d), IsSeq(e)
    PROVE  /\ IsSeq((((a \o b) \o c) \o d) \o e)
           /\ s \o ((((a \o b) \o c) \o d) \o e) = ((((s \o a) \o b) \o c) \o d) \o e
<1> DEFINE ab == a \o b
           abc == ab \o c
           abcd == abc \o d
<1>1. IsSeq(ab) /\ s \o ab = (s \o a) \o b
    BY Regrouped
<1> HIDE DEF ab
<1>2. IsSeq(abc) /\ s \o abc = (s \o ab) \o c
    <2>1. IsSeq(ab) /\ IsSeq(c)
        BY <1>1
    <2> QED BY <2>1, Regrouped
<1> HIDE DEF abc
<1>3. IsSeq(abcd) /\ s \o abcd = (s \o abc) \o d
    <2>1. IsSeq(abc) /\ IsSeq(d)
        BY <1>2
    <2> QED BY <2>1, Regrouped
<1> HIDE DEF abcd
<1>4. IsSeq(abcd \o e) /\ s \o (abcd \o e) = (s \o abcd) \o e
    <2>1. IsSeq(abcd) /\ IsSeq(e)
        BY <1>3
    <2> QED BY <2>1, Regrouped
<1> QED BY <1>1, <1>2, <1>3, <1>4 DEF abcd, abc, ab

\* What a write appends, after what was written before.
LEMMA PcapWriteGrouped ==
    ASSUME NEW bytes, IsSeq(bytes), NEW first, NEW layer, IsSeq(layer.data)
    PROVE  LET front == bytes \o (IF first THEN <<>> ELSE PcapHeader(0, FieldOf(layer, "link.type")))
               sec == LE32(FieldOf(layer, "link.timestamp.sec"))
               usec == LE32(FieldOf(layer, "link.timestamp.usec"))
               len == LE32(Len(layer.data))
               actlen == LE32(FieldOf(layer, "link.length"))
           IN  /\ IsSeq(front)
               /\ bytes \o PcapWrite(first, layer) =
                      ((((front \o sec) \o usec) \o len) \o actlen) \o layer.data
<1> DEFINE start == IF first THEN <<>> ELSE PcapHeader(0, FieldOf(layer, "link.type"))
           front == bytes \o start
           sec == LE32(FieldOf(layer, "link.timestamp.sec"))
           usec == LE32(FieldOf(layer, "link.timestamp.usec"))
           len == LE32(Len(layer.data))
           actlen == LE32(FieldOf(layer, "link.length"))
           data == layer.data
<1>1. IsSeq(start)
    BY HeaderLies, EmptySeq, SeqIsSeq
<1>2. IsSeq(sec) /\ IsSeq(usec) /\ IsSeq(len) /\ IsSeq(actlen) /\ IsSeq(data)
    BY LE32IsSeq
<1>3. PcapWrite(first, layer) = ((((start \o sec) \o usec) \o len) \o actlen) \o data
    BY DEF PcapWrite
<1> HIDE DEF start, sec, usec, len, actlen, data
<1>4. IsSeq(start \o sec) /\ bytes \o (start \o sec) = front \o sec
    <2>1. IsSeq(start) /\ IsSeq(sec)
        BY <1>1, <1>2
    <2> QED BY <2>1, ConcatIsSeq, ConcatAssoc
<1>8. bytes \o (((((start \o sec) \o usec) \o len) \o actlen) \o data) =
          ((((front \o sec) \o usec) \o len) \o actlen) \o data
    <2> DEFINE begin == start \o sec
    <2>1. IsSeq(begin) /\ bytes \o begin = front \o sec
        BY <1>4
    <2> HIDE DEF begin, front
    <2>2. bytes \o ((((begin \o usec) \o len) \o actlen) \o data) =
              ((((bytes \o begin) \o usec) \o len) \o actlen) \o data
        <3>1. IsSeq(begin) /\ IsSeq(usec) /\ IsSeq(len) /\ IsSeq(actlen) /\ IsSeq(data)
            BY <1>2, <2>1
        <3> QED BY <3>1, Grouped
    <2> QED BY <2>1, <2>2 DEF begin
<1>9. IsSeq(front)
    BY <1>1, ConcatIsSeq
<1> QED BY <1>3, <1>8, <1>9 DEF start, sec, usec, len, actlen, data

LEMMA RecordAppended ==
    ASSUME NEW layers, IsSeq(layers), NEW network \in Nat, AllLinked(layers, network),
           NEW n \in 0..Len(layers) - 1, NEW front, IsSeq(front),
           PcapLayout(front, "le_nsec", network, layers, n)
    PROVE  LET layer == layers[n + 1]
               sec == LE32(FieldOf(layer, "link.timestamp.sec"))
               usec == LE32(FieldOf(layer, "link.timestamp.usec"))
               len == LE32(Len(layer.data))
               actlen == LE32(FieldOf(layer, "link.length"))
           IN  PcapLayout(((((front \o sec) \o usec) \o len) \o actlen) \o layer.data,
                          "le_nsec", network, layers, n + 1)
<1> DEFINE layer == layers[n + 1]
           sec == LE32(FieldOf(layer, "link.timestamp.sec"))
           usec == LE32(FieldOf(layer, "link.timestamp.usec"))
           len == LE32(Len(layer.data))
           actlen == LE32(FieldOf(layer, "link.length"))
           data == layer.data
           all == ((((front \o sec) \o usec) \o len) \o actlen) \o data
           at == RecordEnd(layers)[n]
<1>1. /\ Len(layers) \in Nat /\ n \in Nat /\ n + 1 \in 1..Len(layers) /\ (n + 1) - 1 = n
      /\ DOMAIN layers = 1..Len(layers)
    BY LenOfSeq
<1>2. Linked(layer, network) /\ IsSeq(data)
    BY <1>1 DEF AllLinked, Linked
<1>3. /\ IsSeq(sec) /\ IsSeq(usec) /\ IsSeq(len) /\ IsSeq(actlen)
      /\ Len(sec) = 4 /\ Len(usec) = 4 /\ Len(len) = 4 /\ Len(actlen) = 4
    BY LE32IsSeq
<1>5. at = Len(front) /\ RecordEnd(layers)[n + 1] = at + 16 + Len(data)
    BY <1>1, EndsSteps DEF PcapLayout
<1>6. /\ "le_nsec" \in {"le_usec", "le_nsec"} /\ Unit("le_nsec") = 1
      /\ \A m : FieldBytes("le_nsec", m) = LE32(m)
    BY DEF FieldBytes, Unit
<1>7. /\ FieldOf(layer, "link.timestamp.usec") \in Nat
      /\ FieldOf(layer, "link.timestamp.usec") = 1 * FieldOf(layer, "link.timestamp.usec")
    <2>1. FieldOf(layer, "link.timestamp.usec") \in Nat
        BY <1>2 DEF Linked
    <2>2. \A number \in Nat : number = 1 * number
        OBVIOUS
    <2> QED BY <2>1, <2>2
<1>8. /\ IsSeq(all) /\ Len(all) = Len(front) + 16 + Len(data)
      /\ Lies(all, Len(front), sec) /\ Lies(all, Len(front) + 4, usec)
      /\ Lies(all, Len(front) + 8, len) /\ Lies(all, Len(front) + 12, actlen)
      /\ Lies(all, Len(front) + 16, data)
      /\ \A pos, part : IsSeq(part) /\ Lies(front, pos, part) => Lies(all, pos, part)
    <2>1. IsSeq(data)
        BY <1>2
    <2> HIDE DEF sec, usec, len, actlen, data
    <2> QED BY <1>3, <2>1, RecordWritten
<1>9. RecordLies(all, "le_nsec", at, layer)
    <2> HIDE DEF all, at
    <2> QED BY <1>5, <1>6, <1>7, <1>8 DEF RecordLies
<1> HIDE DEF all, at, sec, usec, len, actlen
<1>11. ASSUME NEW i \in 1..n + 1
       PROVE  RecordLies(all, "le_nsec", RecordEnd(layers)[i - 1], layers[i])
    <2>1. CASE i = n + 1
        BY <1>1, <1>9, <2>1 DEF at
    <2>2. CASE i \in 1..n
        <3>1. RecordLies(front, "le_nsec", RecordEnd(layers)[i - 1], layers[i])
            BY <2>2 DEF PcapLayout
        <3>2. IsSeq(layers[i].data)
            BY <1>1, <2>2 DEF AllLinked, Linked
        <3> QED BY <1>8, <3>1, <3>2, FieldBytesIsSeq DEF RecordLies
    <2> QED BY <1>1, <2>1, <2>2
<1>12. Lies(all, 0, Magic["le_nsec"]) /\ Lies(all, 20, FieldBytes("le_nsec", network))
    <2>1. IsSeq(Magic["le_nsec"])
        <3>1. "le_nsec" \in DOMAIN Magic
            BY DEF Magic
        <3> QED BY <3>1, MagicIsSeq
    <2> QED BY <1>8, <2>1, FieldBytesIsSeq DEF PcapLayout
<1>13. PcapLayout(all, "le_nsec", network, layers, n + 1)
    BY <1>1, <1>5, <1>8, <1>11, <1>12 DEF PcapLayout
<1> QED BY <1>13 DEF all, sec, usec, len, actlen, data

\* A write adds the record of its layer.
LEMMA RecordAdded ==
    ASSUME NEW layers, IsSeq(layers), NEW network \in Nat, AllLinked(layers, network),
           NEW n \in 0..Len(layers) - 1, NEW bytes, NEW first, IsSeq(bytes),
           PcapLayout(bytes \o (IF first THEN <<>>
                                         ELSE PcapHeader(0, FieldOf(layers[n + 1], "link.type"))),
                      "le_nsec", network, layers, n)
    PROVE  PcapLayout(bytes \o PcapWrite(first, layers[n + 1]), "le_nsec", network, layers, n + 1)
<1> DEFINE layer == layers[n + 1]
           front == bytes \o (IF first THEN <<>> ELSE PcapHeader(0, FieldOf(layer, "link.type")))
<1>1. IsSeq(layer.data)
    <2>1. DOMAIN layers = 1..Len(layers) /\ n + 1 \in 1..Len(layers)
        BY LenOfSeq
    <2> QED BY <2>1 DEF AllLinked, Linked
<1>2. /\ IsSeq(front)
      /\ bytes \o PcapWrite(first, layer) =
             ((((front \o LE32(FieldOf(layer, "link.timestamp.sec")))
                       \o LE32(FieldOf(layer, "link.timestamp.usec")))
                       \o LE32(Len(layer.data))) \o LE32(FieldOf(layer, "link.length")))
                       \o layer.data
    <2> HIDE DEF layer
    <2> QED BY <1>1, PcapWriteGrouped
<1>3. PcapLayout(front, "le_nsec", network, layers, n)
    OBVIOUS
<1> HIDE DEF front
<1> QED BY <1>2, <1>3, RecordAppended

\* The layer a reader makes of a record.
LEMMA LinkLayerIs ==
    ASSUME NEW class, NEW data, NEW actlen, NEW sec, NEW usec
    PROVE  LET layer == LinkLayer(class, data, actlen, sec, usec)
           IN  layer.class = class /\ layer.data = data
<1>1. ASSUME NEW new, NEW attrs, "data" \in DOMAIN new, "class" \in DOMAIN new
      PROVE  /\ [new EXCEPT !.attrs = attrs].data = new.data
             /\ [new EXCEPT !.attrs = attrs].class = new.class
    BY <1>1, Zenon
<1>2. /\ "data" \in DOMAIN NewLayer(class, data) /\ "class" \in DOMAIN NewLayer(class, data)
      /\ NewLayer(class, data).class = class /\ NewLayer(class, data).data = data
    BY DEF NewLayer
<1> QED BY <1>1, <1>2, Zenon DEF LinkLayer

\* The layers of the readers are what the writer can write.
LEMMA LinkLayerLinked ==
    ASSUME NEW network \in Nat, NEW val \in {UInt64(Word(network)), Int64(Word(network))},
           NEW data, IsSeq(data), NEW actlen \in Nat, NEW sec \in Nat, NEW usec \in Nat
    PROVE  Linked(LinkLayer(LinkClass(network, val), data, actlen, sec, usec), network)
<1> DEFINE class == LinkClass(network, val)
           layer == LinkLayer(class, data, actlen, sec, usec)
<1>1. class.id = LinkClass(network, Nil).id
    BY DEF LinkClass, LayerClass
<1>2. layer.class = class /\ layer.data = data
    BY LinkLayerIs
<1>3. /\ FieldOf(layer, "link.length") = actlen /\ FieldOf(layer, "link.timestamp.sec") = sec
      /\ FieldOf(layer, "link.timestamp.usec") = usec /\ FieldOf(layer, "link.type") = network
    BY LinkField
<1> HIDE DEF class, layer
<1> QED BY <1>1, <1>2, <1>3 DEF Linked, layer, class

\* Layers that a reader of the file cannot tell from each other.
LEMMA SamePacket ==
    ASSUME NEW one, NEW two, one.class.id = two.class.id, one.data = two.data,
           FieldOf(one, "link.type") = FieldOf(two, "link.type"),
           FieldOf(one, "link.length") = FieldOf(two, "link.length"),
           FieldOf(one, "link.timestamp.sec") = FieldOf(two, "link.timestamp.sec"),
           FieldOf(one, "link.timestamp.usec") = FieldOf(two, "link.timestamp.usec")
    PROVE  Packet(one) = Packet(two)
<1> DEFINE ids == {"link.type", "link.length", "link.timestamp.sec", "link.timestamp.usec"}
<1>1. \A id \in ids : FieldOf(one, id) = FieldOf(two, id)
    OBVIOUS
<1>2. [id \in ids |-> FieldOf(one, id)] = [id \in ids |-> FieldOf(two, id)]
    BY <1>1
<1> QED BY <1>2 DEF Packet

---------------------------------------------------------------------------
(* Reading a file, wherever it was cut.                                       *)

\* The reader of a file, at a position.
ReaderAt(magic, network, at) ==
    [little |-> magic \in {"le_usec", "le_nsec"}, nsec |-> magic \in {"le_nsec", "be_nsec"},
     pos |-> at, class |-> LinkClass(network, Int64(Word(network)))]

LEMMA ReaderMoves ==
    ASSUME NEW magic, NEW network, NEW at, NEW to
    PROVE  [ReaderAt(magic, network, at) EXCEPT !.pos = to] = ReaderAt(magic, network, to)
    BY DEF ReaderAt

\* What is left of a file.
CutOf(file, bytes) ==
    /\ IsSeq(file) /\ IsSeq(bytes) /\ Len(file) <= Len(bytes)
    /\ \A i \in 1..Len(file) : file[i] = bytes[i]

LEMMA CutLies ==
    ASSUME NEW file, NEW bytes, CutOf(file, bytes), NEW at, NEW part, IsSeq(part),
           Lies(bytes, at, part), at + Len(part) <= Len(file)
    PROVE  Lies(file, at, part)
<1>1. Len(file) \in Nat /\ Len(part) \in Nat /\ at \in Nat
    BY LenOfSeq DEF CutOf, Lies
<1>2. \A i \in 1..Len(part) : at + i \in 1..Len(file)
    BY <1>1
<1> QED BY <1>1, <1>2 DEF CutOf, Lies

\* A number of a record that the file has to its last byte.
LEMMA NumberLeft ==
    ASSUME NEW file, NEW bytes, CutOf(file, bytes), NEW magic, NEW n \in Nat, NEW at,
           Lies(bytes, at, FieldBytes(magic, n)), at + 4 <= Len(file)
    PROVE  Unsigned(magic \in {"le_usec", "le_nsec"}, SubSeq(file, at + 1, at + 4)) = n
<1>1. IsSeq(FieldBytes(magic, n)) /\ Len(FieldBytes(magic, n)) = 4
    BY FieldBytesIsSeq
<1>2. Lies(file, at, FieldBytes(magic, n))
    BY <1>1, CutLies
<1>3. IsSeq(file)
    BY DEF CutOf
<1> QED BY <1>2, <1>3, NumberRead

\* The numbers and the data of a record that is in the file to its last byte.
LEMMA NumbersOf ==
    ASSUME NEW file, NEW bytes, CutOf(file, bytes), NEW magic, NEW network, NEW at \in Nat,
           NEW layer, Linked(layer, network), RecordLies(bytes, magic, at, layer),
           at + 16 <= Len(file)
    PROVE  LET U32(i) == Unsigned(magic \in {"le_usec", "le_nsec"},
                                  SubSeq(file, at + 4 * i + 1, at + 4 * i + 4))
           IN  /\ U32(0) = FieldOf(layer, "link.timestamp.sec") /\ U32(1) \in Nat
               /\ Unit(magic) * U32(1) = FieldOf(layer, "link.timestamp.usec")
               /\ U32(2) = Len(layer.data) /\ U32(3) = FieldOf(layer, "link.length")
<1> DEFINE little == magic \in {"le_usec", "le_nsec"}
           N(pos) == Unsigned(little, SubSeq(file, pos + 1, pos + 4))
<1>1. /\ FieldOf(layer, "link.timestamp.sec") \in Nat /\ FieldOf(layer, "link.length") \in Nat
      /\ Len(layer.data) \in Nat
    BY LenOfSeq DEF Linked
<1>2. Len(file) \in Nat
    BY LenOfSeq DEF CutOf
<1>3. N(at) = FieldOf(layer, "link.timestamp.sec")
    <2>1. Lies(bytes, at, FieldBytes(magic, FieldOf(layer, "link.timestamp.sec")))
        BY DEF RecordLies
    <2>2. at + 4 <= Len(file)
        BY <1>2
    <2> QED BY <1>1, <2>1, <2>2, NumberLeft
<1>4. N(at + 4) \in Nat /\ Unit(magic) * N(at + 4) = FieldOf(layer, "link.timestamp.usec")
    <2>1. PICK time \in Nat : /\ Lies(bytes, at + 4, FieldBytes(magic, time))
                              /\ FieldOf(layer, "link.timestamp.usec") = Unit(magic) * time
        BY DEF RecordLies
    <2>2. (at + 4) + 4 <= Len(file)
        BY <1>2
    <2>3. N(at + 4) = time
        BY <2>1, <2>2, NumberLeft
    <2> QED BY <2>1, <2>3
<1>5. N(at + 8) = Len(layer.data)
    <2>1. Lies(bytes, at + 8, FieldBytes(magic, Len(layer.data)))
        BY DEF RecordLies
    <2>2. (at + 8) + 4 <= Len(file)
        BY <1>2
    <2> QED BY <1>1, <2>1, <2>2, NumberLeft
<1>6. N(at + 12) = FieldOf(layer, "link.length")
    <2>1. Lies(bytes, at + 12, FieldBytes(magic, FieldOf(layer, "link.length")))
        BY DEF RecordLies
    <2>2. (at + 12) + 4 <= Len(file)
        BY <1>2
    <2> QED BY <1>1, <2>1, <2>2, NumberLeft
<1>7. at + 4 * 0 = at /\ at + 4 * 1 = at + 4 /\ at + 4 * 2 = at + 8 /\ at + 4 * 3 = at + 12
    OBVIOUS
<1>8. \A i : N(at + 4 * i) = Unsigned(little, SubSeq(file, at + 4 * i + 1, at + 4 * i + 4))
    OBVIOUS
<1> HIDE DEF N
<1>9. /\ N(at + 4 * 0) = N(at) /\ N(at + 4 * 1) = N(at + 4)
      /\ N(at + 4 * 2) = N(at + 8) /\ N(at + 4 * 3) = N(at + 12)
    BY <1>7, Zenon
<1> QED BY <1>3, <1>4, <1>5, <1>6, <1>8, <1>9, Zenon

\* read_one, with the order of bytes and the position named.
ReadAt(file, rd, little, at) ==
    LET U32(i) == Unsigned(little, SubSeq(file, at + 4 * i + 1, at + 4 * i + 4))
        usec == IF rd.nsec THEN U32(1) ELSE 1000 * U32(1)
        data == TryGet(file, at + 16, at + 16 + U32(2))
    IN  IF at + 16 > Len(file) \/ ~data.ok
        THEN [ok |-> FALSE, reader |-> [rd EXCEPT !.pos = Len(file)]]
        ELSE [ok |-> TRUE, reader |-> [rd EXCEPT !.pos = at + 16 + Len(data.val)],
              layer |-> LinkLayer(rd.class, data.val, U32(3), U32(0), usec)]

LEMMA ReadOneIs ==
    ASSUME NEW file, NEW rd, NEW little, NEW at, rd.little = little, rd.pos = at
    PROVE  ReadOne(file, rd) = ReadAt(file, rd, little, at)
<1>1. ReadOne(file, rd) = ReadAt(file, rd, rd.little, rd.pos)
    BY DEF ReadOne, ReadAt
<1> QED BY <1>1

\* A read has given the layer, and the reader is at the record's end.
ReadsAs(one, magic, network, to, layer) ==
    one.ok /\ one.reader = ReaderAt(magic, network, to) /\ Packet(one.layer) = Packet(layer)

\* A whole record is read as the layer it was written for.
LEMMA ReadWhole ==
    ASSUME NEW file, NEW bytes, CutOf(file, bytes), NEW magic, NEW network \in Nat,
           NEW at \in Nat, NEW layer, Linked(layer, network),
           RecordLies(bytes, magic, at, layer),
           NEW to \in Nat, to = at + 16 + Len(layer.data), to <= Len(file)
    PROVE  ReadsAs(ReadOne(file, ReaderAt(magic, network, at)), magic, network, to, layer)
<1> DEFINE rd == ReaderAt(magic, network, at)
           little == magic \in {"le_usec", "le_nsec"}
           U32(i) == Unsigned(little, SubSeq(file, at + 4 * i + 1, at + 4 * i + 4))
           size == Len(layer.data)
           data == TryGet(file, at + 16, at + 16 + U32(2))
           usec == IF rd.nsec THEN U32(1) ELSE 1000 * U32(1)
           made == LinkLayer(rd.class, data.val, U32(3), U32(0), usec)
           one == ReadOne(file, rd)
<1>1. /\ Len(file) \in Nat /\ size \in Nat /\ IsSeq(layer.data) /\ IsSeq(file)
      /\ at + 16 + size <= Len(file)
    BY LenOfSeq DEF CutOf, Linked
<1>2. at + 16 <= Len(file)
    <2> HIDE DEF size
    <2> QED BY <1>1
<1>3. /\ U32(0) = FieldOf(layer, "link.timestamp.sec") /\ U32(1) \in Nat
      /\ Unit(magic) * U32(1) = FieldOf(layer, "link.timestamp.usec")
      /\ U32(2) = size /\ U32(3) = FieldOf(layer, "link.length")
    BY <1>2, NumbersOf
<1>4. /\ rd.little = little /\ rd.pos = at /\ Unit(magic) = IF rd.nsec THEN 1 ELSE 1000
      /\ rd.class = LinkClass(network, Int64(Word(network)))
    BY DEF ReaderAt, Unit
<1> HIDE DEF little, rd
<1>5. one = IF at + 16 > Len(file) \/ ~data.ok
            THEN [ok |-> FALSE, reader |-> [rd EXCEPT !.pos = Len(file)]]
            ELSE [ok |-> TRUE, reader |-> [rd EXCEPT !.pos = at + 16 + Len(data.val)],
                  layer |-> made]
    <2>1. one = ReadAt(file, rd, little, at)
        BY <1>4, ReadOneIs
    <2> HIDE DEF one
    <2> QED BY <2>1 DEF ReadAt
<1> HIDE DEF U32, size, one
<1>6. data = Ok(SubSeq(file, (at + 16) + 1, (at + 16) + size))
    <2>1. at + 16 <= at + 16 + size /\ at + 16 + size <= Len(file)
        BY <1>1
    <2>2. U32(2) = size
        BY <1>3
    <2> QED BY <2>1, <2>2, Zenon DEF TryGet
<1> HIDE DEF data
<1>7. Lies(file, at + 16, layer.data)
    <2>1. Lies(bytes, at + 16, layer.data) /\ (at + 16) + Len(layer.data) <= Len(file)
        BY DEF RecordLies
    <2> QED BY <1>1, <2>1, CutLies
<1>8. data.ok /\ data.val = layer.data
    <2>1. SubSeq(file, (at + 16) + 1, (at + 16) + Len(layer.data)) = layer.data
        BY <1>1, <1>7, LiesPart
    <2>2. data = Ok(layer.data)
        BY <1>6, <2>1 DEF size
    <2> QED BY <2>2 DEF Ok
<1>9. usec = FieldOf(layer, "link.timestamp.usec") /\ usec \in Nat
    <2>1. Unit(magic) * U32(1) = usec
        BY <1>3, <1>4
    <2>2. FieldOf(layer, "link.timestamp.usec") \in Nat
        BY DEF Linked
    <2> QED BY <1>3, <2>1, <2>2
<1>10. U32(3) \in Nat /\ U32(0) \in Nat
    BY <1>3 DEF Linked
<1> HIDE DEF usec
<1>11. ~(at + 16 > Len(file) \/ ~data.ok)
    BY <1>1, <1>2, <1>8
<1>12. one = [ok |-> TRUE, reader |-> [rd EXCEPT !.pos = at + 16 + Len(data.val)],
              layer |-> made]
    BY <1>5, <1>11, Zenon
<1>13. one.ok /\ one.reader = ReaderAt(magic, network, at + 16 + size) /\ one.layer = made
    BY <1>8, <1>12, ReaderMoves DEF rd, size
<1>14. /\ made.data = layer.data /\ made.class.id = layer.class.id
       /\ FieldOf(made, "link.type") = FieldOf(layer, "link.type")
       /\ FieldOf(made, "link.length") = FieldOf(layer, "link.length")
       /\ FieldOf(made, "link.timestamp.sec") = FieldOf(layer, "link.timestamp.sec")
       /\ FieldOf(made, "link.timestamp.usec") = FieldOf(layer, "link.timestamp.usec")
    <2> DEFINE val == Int64(Word(network))
               mine == LinkLayer(LinkClass(network, val), layer.data, U32(3), U32(0), usec)
    <2>1. made = mine
        BY <1>4, <1>8
    <2>2. mine.class = LinkClass(network, val) /\ mine.data = layer.data
        BY LinkLayerIs
    <2>3. val \in {UInt64(Word(network)), Int64(Word(network))}
        OBVIOUS
    <2> HIDE DEF val
    <2>4. /\ FieldOf(mine, "link.length") = U32(3) /\ FieldOf(mine, "link.timestamp.sec") = U32(0)
          /\ FieldOf(mine, "link.timestamp.usec") = usec /\ FieldOf(mine, "link.type") = network
        BY <1>9, <1>10, <2>3, LinkField
    <2>5. LinkClass(network, val).id = LinkClass(network, Nil).id
        BY DEF LinkClass, LayerClass
    <2> HIDE DEF mine, made
    <2> QED BY <1>3, <1>9, <2>1, <2>2, <2>4, <2>5 DEF Linked
<1> HIDE DEF made
<1>15. Packet(made) = Packet(layer)
    BY <1>14, SamePacket
<1> QED BY <1>13, <1>15 DEF ReadsAs, one, rd, size

\* At the end of the file there is nothing to read.
LEMMA ReadEnd ==
    ASSUME NEW file, IsSeq(file), NEW magic, NEW network
    PROVE  LET one == ReadOne(file, ReaderAt(magic, network, Len(file)))
           IN  ~one.ok /\ one.reader = ReaderAt(magic, network, Len(file))
<1>1. Len(file) + 16 > Len(file)
    BY LenOfSeq
<1>2. ReaderAt(magic, network, Len(file)).pos = Len(file)
    BY DEF ReaderAt
<1>3. ReadOne(file, ReaderAt(magic, network, Len(file))) =
          [ok |-> FALSE, reader |-> [ReaderAt(magic, network, Len(file)) EXCEPT !.pos = Len(file)]]
    BY <1>1, <1>2, Zenon DEF ReadOne
<1> QED BY <1>3, ReaderMoves

\* A record of which something is missing is not read, and what there is of it
\* is used up.
LEMMA ReadPart ==
    ASSUME NEW file, NEW bytes, CutOf(file, bytes), NEW magic, NEW network \in Nat,
           NEW at \in Nat, NEW layer, Linked(layer, network),
           RecordLies(bytes, magic, at, layer), at + 16 + Len(layer.data) > Len(file)
    PROVE  LET one == ReadOne(file, ReaderAt(magic, network, at))
           IN  ~one.ok /\ one.reader = ReaderAt(magic, network, Len(file))
<1> DEFINE rd == ReaderAt(magic, network, at)
           little == magic \in {"le_usec", "le_nsec"}
           U32(i) == Unsigned(little, SubSeq(file, at + 4 * i + 1, at + 4 * i + 4))
           size == Len(layer.data)
           data == TryGet(file, at + 16, at + 16 + U32(2))
           usec == IF rd.nsec THEN U32(1) ELSE 1000 * U32(1)
           made == LinkLayer(rd.class, data.val, U32(3), U32(0), usec)
           one == ReadOne(file, rd)
<1>1. Len(file) \in Nat /\ size \in Nat
    BY LenOfSeq DEF CutOf, Linked
<1>2. rd.little = little /\ rd.pos = at
    BY DEF ReaderAt
<1>6. at + 16 <= Len(file) => U32(2) = size
    BY NumbersOf
<1> HIDE DEF little, rd
<1>3. one = IF at + 16 > Len(file) \/ ~data.ok
            THEN [ok |-> FALSE, reader |-> [rd EXCEPT !.pos = Len(file)]]
            ELSE [ok |-> TRUE, reader |-> [rd EXCEPT !.pos = at + 16 + Len(data.val)],
                  layer |-> made]
    <2>1. one = ReadAt(file, rd, little, at)
        BY <1>2, ReadOneIs
    <2> HIDE DEF one
    <2> QED BY <2>1 DEF ReadAt
<1>4. at + 16 > Len(file) \/ ~data.ok
    <2>1. CASE at + 16 <= Len(file)
        <3>1. U32(2) = size
            BY <1>6, <2>1
        <3> HIDE DEF U32, size
        <3>2. ~(at + 16 + U32(2) <= Len(file))
            <4>1. at + 16 + size > Len(file)
                BY DEF size
            <4> QED BY <1>1, <3>1, <4>1
        <3>3. data = Err("out of bounds")
            BY <3>2 DEF TryGet
        <3>4. \A err : ~Err(err).ok
            BY DEF Err
        <3> QED BY <3>3, <3>4
    <2> QED BY <1>1, <2>1
<1> HIDE DEF data, made, one, rd
<1>5. one = [ok |-> FALSE, reader |-> [rd EXCEPT !.pos = Len(file)]]
    BY <1>3, <1>4, Zenon
<1> QED BY <1>5, ReaderMoves DEF one, rd

\* A file without a whole header cannot be opened.
LEMMA OpenShort ==
    ASSUME NEW file, IsSeq(file), Len(file) < 24
    PROVE  ~PcapOpen(file).ok
<1> DEFINE magic == TryGet(file, 0, 4)
           order == {m \in DOMAIN Magic : magic.ok /\ magic.val = Magic[m]}
<1>1. \A err : ~Err(err).ok
    BY DEF Err
<1>2. CASE ~magic.ok
    <2>1. PcapOpen(file) = magic
        BY <1>2, Zenon DEF PcapOpen
    <2> QED BY <1>2, <2>1
<1>3. CASE magic.ok /\ order = {}
    <2>1. PcapOpen(file) = Err("wrong magic number")
        BY <1>3, Zenon DEF PcapOpen
    <2> QED BY <1>1, <2>1
<1>4. CASE magic.ok /\ order # {}
    <2>1. PcapOpen(file) = Err("failed to fill whole buffer")
        BY <1>4, Zenon DEF PcapOpen
    <2> QED BY <1>1, <2>1
<1> QED BY <1>2, <1>3, <1>4

\* A file that can be opened is read by the order of bytes, the unit of time
\* and the link type it was written with.
LEMMA OpenWhole ==
    ASSUME NEW file, NEW bytes, CutOf(file, bytes), NEW magic, NEW network, NEW layers, NEW n,
           PcapLayout(bytes, magic, network, layers, n), PcapOpen(file).ok
    PROVE  /\ PcapOpen(file).val = ReaderAt(magic, network, 24)
           /\ Len(file) >= 24
<1> DEFINE found == TryGet(file, 0, 4)
           order == {m \in DOMAIN Magic : found.ok /\ found.val = Magic[m]}
           little == order \subseteq {"le_usec", "le_nsec"}
           nsec == order \subseteq {"le_nsec", "be_nsec"}
           type == Unsigned(little, SubSeq(file, 21, 24))
           rd == [little |-> little, nsec |-> nsec, pos |-> 24,
                  class |-> LinkClass(type, Int64(Word(type)))]
<1>1. IsSeq(file) /\ Len(file) \in Nat /\ magic \in DOMAIN Magic /\ network \in Nat
    BY LenOfSeq DEF CutOf, PcapLayout
<1>2. Len(file) >= 24
    BY <1>1, OpenShort
<1>3. found = Ok(Magic[magic])
    <2>1. IsSeq(Magic[magic]) /\ Len(Magic[magic]) = 4
        BY <1>1, MagicIsSeq
    <2>2. Lies(bytes, 0, Magic[magic]) /\ 0 + Len(Magic[magic]) <= Len(file)
        BY <1>1, <1>2, <2>1 DEF PcapLayout
    <2>3. Lies(file, 0, Magic[magic])
        BY <2>1, <2>2, CutLies
    <2>4. SubSeq(file, 0 + 1, 0 + 4) = Magic[magic]
        BY <1>1, <2>1, <2>3, LiesPart
    <2>5. 0 <= 4 /\ 4 <= Len(file) /\ 0 + 4 = 4
        BY <1>1, <1>2
    <2> QED BY <2>4, <2>5 DEF TryGet
<1>4. found.ok /\ found.val = Magic[magic]
    BY <1>3 DEF Ok
<1> HIDE DEF found
<1>5. order = {magic}
    <2>1. magic \in order
        BY <1>1, <1>4
    <2>2. ASSUME NEW m \in order PROVE m = magic
        BY <1>1, <1>4, <2>2, MagicDiffer
    <2> QED BY <2>1, <2>2
<1>6. /\ little = (magic \in {"le_usec", "le_nsec"})
      /\ nsec = (magic \in {"le_nsec", "be_nsec"})
    BY <1>5
<1>7. type = network
    <2>1. Lies(bytes, 20, FieldBytes(magic, network)) /\ 20 + 4 <= Len(file)
        BY <1>1, <1>2 DEF PcapLayout
    <2>2. Unsigned(magic \in {"le_usec", "le_nsec"}, SubSeq(file, 20 + 1, 20 + 4)) = network
        BY <1>1, <2>1, NumberLeft
    <2>3. 20 + 1 = 21 /\ 20 + 4 = 24
        OBVIOUS
    <2> QED BY <1>6, <2>2, <2>3
<1>8. PcapOpen(file) = Ok(rd)
    <2>1. found.ok /\ order # {} /\ ~(Len(file) < 24)
        BY <1>1, <1>2, <1>4, <1>5
    <2>2. PcapOpen(file) = IF ~found.ok THEN found
                           ELSE IF order = {} THEN Err("wrong magic number")
                           ELSE IF Len(file) < 24 THEN Err("failed to fill whole buffer")
                           ELSE Ok(rd)
        BY DEF PcapOpen, found
    <2> HIDE DEF rd, order
    <2> QED BY <2>1, <2>2
<1>9. rd = ReaderAt(magic, network, 24)
    <2> HIDE DEF little, nsec, type
    <2> QED BY <1>6, <1>7 DEF ReaderAt
<1> QED BY <1>2, <1>8, <1>9 DEF Ok

---------------------------------------------------------------------------
(* A block of a pcap file.                                                    *)

\* The recursion of PcapRead.
NextRead(file, before) ==
    LET one == ReadOne(file, before.reader)
    IN  [reader |-> one.reader,
         layers |-> IF one.ok THEN Append(before.layers, one.layer) ELSE before.layers]
IsReading(f, file, rd, N) ==
    f = [n \in 0..N |-> IF n = 0 THEN [reader |-> rd, layers |-> <<>>]
                                 ELSE NextRead(file, f[n - 1])]

LEMMA ReadingExists ==
    ASSUME NEW file, NEW rd, NEW N \in Nat
    PROVE  \E f : IsReading(f, file, rd, N)
<1> DEFINE T == {m \in 0..N : \E f : IsReading(f, file, rd, m)}
           first == [reader |-> rd, layers |-> <<>>]
<1> HIDE DEF first
<1>1. 0 \in T
    <2>1. IsReading([n \in 0..0 |-> first], file, rd, 0)
        BY DEF IsReading, first
    <2> QED BY <2>1
<1>2. ASSUME NEW m \in 0..N - 1, m \in T PROVE m + 1 \in T
    <2>1. PICK f : IsReading(f, file, rd, m)
        BY <1>2
    <2> DEFINE g == [n \in 0..m + 1 |-> IF n <= m THEN f[n] ELSE NextRead(file, f[m])]
    <2>0. \A n \in 0..m : f[n] = IF n = 0 THEN first ELSE NextRead(file, f[n - 1])
        BY <2>1 DEF IsReading, first
    <2>2. \A n \in 0..m + 1 : g[n] = IF n = 0 THEN first ELSE NextRead(file, g[n - 1])
        <3>1. TAKE n \in 0..m + 1
        <3>2. CASE n = 0
            BY <2>0, <3>2
        <3>3. CASE n \in 1..m
            <4>1. g[n] = f[n] /\ g[n - 1] = f[n - 1]
                BY <3>3
            <4>2. f[n] = NextRead(file, f[n - 1])
                BY <2>0, <3>3
            <4> QED BY <3>3, <4>1, <4>2
        <3>4. CASE n = m + 1
            BY <3>4
        <3> QED BY <3>2, <3>3, <3>4
    <2>3. IsReading(g, file, rd, m + 1)
        BY <2>2 DEF IsReading, first
    <2>4. m + 1 \in 0..N
        OBVIOUS
    <2> HIDE DEF g
    <2> QED BY <2>3, <2>4
<1> HIDE DEF T
<1>3. N \in T
    BY <1>1, <1>2, UpTo
<1> QED BY <1>3 DEF T

LEMMA PcapReadSteps ==
    ASSUME NEW file, NEW rd, NEW N \in Nat
    PROVE  \E f : /\ f[0] = [reader |-> rd, layers |-> <<>>]
                  /\ \A n \in 1..N : f[n] = NextRead(file, f[n - 1])
                  /\ PcapRead(file, rd, N) =
                         [res |-> IF f[N].layers = <<>> THEN Err("eof") ELSE Ok(f[N].layers),
                          reader |-> f[N].reader]
<1> DEFINE f == CHOOSE g : IsReading(g, file, rd, N)
<1>1. IsReading(f, file, rd, N)
    BY ReadingExists
<1>2. PcapRead(file, rd, N) =
          [res |-> IF f[N].layers = <<>> THEN Err("eof") ELSE Ok(f[N].layers),
           reader |-> f[N].reader]
    BY DEF PcapRead, IsReading, NextRead
<1> HIDE DEF f
<1>3. f[0] = [reader |-> rd, layers |-> <<>>] /\ \A n \in 1..N : f[n] = NextRead(file, f[n - 1])
    BY <1>1 DEF IsReading
<1> QED BY <1>2, <1>3

---------------------------------------------------------------------------
(* What is read of a file that was cut.                                       *)

\* After k records no more are whole.
Stuck(layers, n, left, k) == k = n \/ RecordEnd(layers)[k + 1] > left

\* The reader has read k records, and what is left of the next one or not.
ReaderStands(rd, magic, network, layers, n, left, k) ==
    /\ k \in 0..n /\ RecordEnd(layers)[k] <= left
    /\ \/ rd = ReaderAt(magic, network, RecordEnd(layers)[k])
       \/ rd = ReaderAt(magic, network, left) /\ Stuck(layers, n, left, k)

LEMMA OneRead ==
    ASSUME NEW file, NEW bytes, CutOf(file, bytes), NEW magic, NEW network, NEW layers,
           IsSeq(layers), AllLinked(layers, network), NEW n,
           PcapLayout(bytes, magic, network, layers, n),
           NEW rd, NEW k, ReaderStands(rd, magic, network, layers, n, Len(file), k)
    PROVE  LET one == ReadOne(file, rd)
           IN  \/ /\ one.ok /\ k < n /\ Packet(one.layer) = Packet(layers[k + 1])
                  /\ ReaderStands(one.reader, magic, network, layers, n, Len(file), k + 1)
               \/ /\ ~one.ok /\ Stuck(layers, n, Len(file), k)
                  /\ ReaderStands(one.reader, magic, network, layers, n, Len(file), k)
<1> DEFINE end == RecordEnd(layers)
           left == Len(file)
           one == ReadOne(file, rd)
<1>1. /\ left \in Nat /\ IsSeq(file) /\ left <= Len(bytes) /\ network \in Nat
      /\ Len(layers) \in Nat /\ DOMAIN layers = 1..Len(layers)
      /\ n \in 0..Len(layers) /\ Len(bytes) = end[n]
    BY LenOfSeq DEF CutOf, PcapLayout
<1>2. k \in 0..n /\ k \in Nat /\ n \in Nat /\ end[k] <= left
    BY <1>1 DEF ReaderStands
<1>3. /\ \A m \in 0..Len(layers) : end[m] \in Nat
      /\ \A m \in 1..Len(layers) : end[m] = end[m - 1] + 16 + Len(layers[m].data)
    <2>1. \A i \in DOMAIN layers : IsSeq(layers[i].data)
        BY DEF AllLinked, Linked
    <2> QED BY <2>1, EndsGrow, EndsSteps
<1> HIDE DEF end
<1>4. ASSUME rd = ReaderAt(magic, network, left), Stuck(layers, n, left, k)
      PROVE  ~one.ok /\ ReaderStands(one.reader, magic, network, layers, n, left, k)
    <2>1. ~one.ok /\ one.reader = ReaderAt(magic, network, left)
        BY <1>1, <1>4, ReadEnd
    <2> HIDE DEF one, left
    <2> QED BY <1>2, <1>4, <2>1 DEF ReaderStands, end
<1>5. CASE rd = ReaderAt(magic, network, end[k]) /\ k < n
    <2> DEFINE layer == layers[k + 1]
    <2>1. k + 1 \in 1..Len(layers) /\ k + 1 \in 1..n /\ (k + 1) - 1 = k
        BY <1>1, <1>2, <1>5
    <2>2. Linked(layer, network) /\ RecordLies(bytes, magic, end[k], layer) /\ end[k] \in Nat
        BY <1>1, <1>2, <1>3, <2>1 DEF AllLinked, PcapLayout, end
    <2>3. end[k + 1] = end[k] + 16 + Len(layer.data)
        BY <1>3, <2>1
    <2> HIDE DEF layer
    <2>4. CASE end[k + 1] <= left
        <3>2. /\ one.ok /\ one.reader = ReaderAt(magic, network, end[k + 1])
              /\ Packet(one.layer) = Packet(layer)
            <4> DEFINE at == end[k]
                       to == end[k + 1]
                       whole == ReadOne(file, ReaderAt(magic, network, at))
            <4>1. at \in Nat /\ network \in Nat /\ Linked(layer, network)
                BY <1>1, <2>2
            <4>2. RecordLies(bytes, magic, at, layer)
                BY <2>2
            <4>3. to \in Nat /\ to = at + 16 + Len(layer.data) /\ to <= Len(file)
                BY <1>3, <2>1, <2>3, <2>4
            <4>4. one = whole
                BY <1>5
            <4> HIDE DEF at, to, left, one
            <4>5. ReadsAs(whole, magic, network, to, layer)
                BY <4>1, <4>2, <4>3, ReadWhole
            <4> HIDE DEF whole
            <4> QED BY <4>4, <4>5 DEF ReadsAs, to
        <3> HIDE DEF one, left
        <3>3. k + 1 \in 0..n
            BY <1>2, <1>5
        <3>4. ReaderStands(one.reader, magic, network, layers, n, left, k + 1)
            BY <2>4, <3>2, <3>3 DEF ReaderStands, end
        <3> QED BY <1>5, <3>2, <3>4 DEF layer, one, left
    <2>5. CASE end[k + 1] > left
        <3>1. end[k] + 16 + Len(layer.data) > Len(file)
            BY <2>3, <2>5
        <3>2. ~one.ok /\ one.reader = ReaderAt(magic, network, left)
            <4> DEFINE at == end[k]
                       part == ReadOne(file, ReaderAt(magic, network, at))
            <4>1. at \in Nat /\ network \in Nat /\ Linked(layer, network)
                BY <1>1, <2>2
            <4>2. RecordLies(bytes, magic, at, layer)
                BY <2>2
            <4>3. at + 16 + Len(layer.data) > Len(file)
                BY <3>1
            <4>4. one = part
                BY <1>5
            <4> HIDE DEF at, left, one
            <4>5. ~part.ok /\ part.reader = ReaderAt(magic, network, Len(file))
                BY <4>1, <4>2, <4>3, ReadPart
            <4> HIDE DEF part
            <4> QED BY <4>4, <4>5 DEF left
        <3> HIDE DEF one, left
        <3>3. Stuck(layers, n, left, k)
            BY <2>5 DEF Stuck, end
        <3>4. ReaderStands(one.reader, magic, network, layers, n, left, k)
            BY <1>2, <3>2, <3>3 DEF ReaderStands, end
        <3> QED BY <3>2, <3>3, <3>4 DEF one, left
    <2>6. end[k + 1] \in Nat
        BY <1>3, <2>1
    <2> QED BY <1>1, <2>4, <2>5, <2>6
<1>6. CASE rd = ReaderAt(magic, network, end[k]) /\ k = n
    <2>1. end[k] = left
        <3>1. end[n] \in Nat
            BY <1>1, <1>3
        <3> QED BY <1>1, <1>2, <1>6, <3>1
    <2>2. Stuck(layers, n, left, k)
        BY <1>6 DEF Stuck
    <2> QED BY <1>4, <1>6, <2>1, <2>2
<1>7. CASE rd = ReaderAt(magic, network, left) /\ Stuck(layers, n, left, k)
    BY <1>4, <1>7
<1> QED BY <1>2, <1>5, <1>6, <1>7 DEF ReaderStands, end

\* The layers that a block returns are those of the records from k on, as many
\* as are whole, and an error if there are none.
BlockReads(read, magic, network, layers, n, left, k) ==
    \E found : /\ IsSeq(found)
               /\ \A j \in 1..Len(found) : Packet(found[j]) = Packet(layers[k + j])
               /\ ReaderStands(read.reader, magic, network, layers, n, left, k + Len(found))
               /\ read.res = IF found = <<>> THEN Err("eof") ELSE Ok(found)
               /\ found = <<>> => Stuck(layers, n, left, k)

LEMMA BlockRead ==
    ASSUME NEW file, NEW bytes, CutOf(file, bytes), NEW magic, NEW network, NEW layers,
           IsSeq(layers), AllLinked(layers, network), NEW n,
           PcapLayout(bytes, magic, network, layers, n),
           NEW rd, NEW k, ReaderStands(rd, magic, network, layers, n, Len(file), k),
           NEW N \in Nat \ {0}
    PROVE  BlockReads(PcapRead(file, rd, N), magic, network, layers, n, Len(file), k)
<1>1. PICK f : /\ f[0] = [reader |-> rd, layers |-> <<>>]
               /\ \A m \in 1..N : f[m] = NextRead(file, f[m - 1])
               /\ PcapRead(file, rd, N) =
                      [res |-> IF f[N].layers = <<>> THEN Err("eof") ELSE Ok(f[N].layers),
                       reader |-> f[N].reader]
    BY PcapReadSteps
<1> DEFINE left == Len(file)
           Has(m) == /\ IsSeq(f[m].layers)
                     /\ \A j \in 1..Len(f[m].layers) :
                            Packet(f[m].layers[j]) = Packet(layers[k + j])
                     /\ ReaderStands(f[m].reader, magic, network, layers, n, left,
                                     k + Len(f[m].layers))
                     /\ m # 0 /\ f[m].layers = <<>> => Stuck(layers, n, left, k)
           T == {m \in 0..N : Has(m)}
<1>0. N \in Nat /\ k \in Nat
    <2>1. n \in Nat
        BY LenOfSeq DEF PcapLayout
    <2> QED BY <2>1 DEF ReaderStands
<1>2. IsSeq(<<>>) /\ Len(<<>>) = 0
    BY EmptySeq, SeqIsSeq
<1>3. Has(0)
    <2>1. f[0].layers = <<>> /\ f[0].reader = rd
        BY <1>1
    <2>2. k + 0 = k /\ \A j \in 1..0 : FALSE
        BY <1>0
    <2> QED BY <1>2, <2>1, <2>2
<1>4. ASSUME NEW m \in 0..N - 1, Has(m) PROVE Has(m + 1)
    <2> DEFINE before == f[m].layers
               r == f[m].reader
               one == ReadOne(file, r)
               after == f[m + 1].layers
               q == f[m + 1].reader
    <2>1. f[m + 1] = NextRead(file, f[m])
        <3>1. m + 1 \in 1..N /\ (m + 1) - 1 = m
            BY <1>0
        <3> QED BY <1>1, <3>1
    <2>2. q = one.reader /\ after = IF one.ok THEN Append(before, one.layer) ELSE before
        BY <2>1 DEF NextRead
    <2>3. /\ IsSeq(before) /\ Len(before) \in Nat
          /\ \A j \in 1..Len(before) : Packet(before[j]) = Packet(layers[k + j])
          /\ ReaderStands(r, magic, network, layers, n, left, k + Len(before))
        BY <1>4, LenOfSeq
    <2> HIDE DEF before, r, after, q
    <2>4. \/ /\ one.ok /\ Packet(one.layer) = Packet(layers[(k + Len(before)) + 1])
             /\ ReaderStands(one.reader, magic, network, layers, n, left, (k + Len(before)) + 1)
          \/ /\ ~one.ok /\ Stuck(layers, n, left, k + Len(before))
             /\ ReaderStands(one.reader, magic, network, layers, n, left, k + Len(before))
        BY <2>3, OneRead
    <2> HIDE DEF one, left
    <2>5. CASE one.ok
        <3> DEFINE x == one.layer
        <3>1. after = Append(before, x) /\ q = one.reader
            BY <2>2, <2>5
        <3>2. /\ Packet(x) = Packet(layers[(k + Len(before)) + 1])
              /\ ReaderStands(q, magic, network, layers, n, left, (k + Len(before)) + 1)
            BY <2>4, <2>5, <3>1
        <3> HIDE DEF x
        <3>3. /\ IsSeq(after) /\ Len(after) = Len(before) + 1
              /\ \A j \in 1..Len(before) : after[j] = before[j]
              /\ after[Len(before) + 1] = x
            BY <2>3, <3>1, AppendIsSeq, AppendElems
        <3>4. k + Len(after) = (k + Len(before)) + 1 /\ after # <<>>
            BY <1>0, <1>2, <2>3, <3>3
        <3>5. ASSUME NEW j \in 1..Len(after) PROVE Packet(after[j]) = Packet(layers[k + j])
            <4>1. CASE j \in 1..Len(before)
                BY <2>3, <3>3, <4>1
            <4>2. CASE j = Len(before) + 1
                <5>1. k + j = (k + Len(before)) + 1
                    BY <1>0, <2>3, <4>2
                <5> QED BY <3>2, <3>3, <4>2, <5>1
            <4> QED BY <2>3, <3>3, <4>1, <4>2
        <3> QED BY <3>2, <3>3, <3>4, <3>5 DEF after, q
    <2>6. CASE ~one.ok
        <3>1. after = before /\ q = one.reader
            BY <2>2, <2>6
        <3>2. /\ ReaderStands(q, magic, network, layers, n, left, k + Len(before))
              /\ Stuck(layers, n, left, k + Len(before))
            BY <2>4, <2>6, <3>1
        <3>3. after = <<>> => Stuck(layers, n, left, k)
            <4>1. k + 0 = k
                BY <1>0
            <4> QED BY <1>2, <3>1, <3>2, <4>1
        <3> QED BY <2>3, <3>1, <3>2, <3>3 DEF after, q
    <2> QED BY <2>5, <2>6
<1> HIDE DEF Has
<1>5. 0 \in T /\ \A m \in 0..N - 1 : m \in T => m + 1 \in T
    BY <1>0, <1>3, <1>4
<1> HIDE DEF T
<1>6. N \in T
    <2>1. \A m \in 0..N : m \in T
        BY <1>0, <1>5, UpTo
    <2> QED BY <1>0, <2>1
<1>7. Has(N)
    BY <1>6 DEF T
<1> DEFINE found == f[N].layers
<1>8. /\ PcapRead(file, rd, N).reader = f[N].reader
      /\ PcapRead(file, rd, N).res = IF found = <<>> THEN Err("eof") ELSE Ok(found)
    BY <1>1
<1>9. N # 0
    OBVIOUS
<1>10. /\ IsSeq(found) /\ \A j \in 1..Len(found) : Packet(found[j]) = Packet(layers[k + j])
       /\ ReaderStands(f[N].reader, magic, network, layers, n, Len(file), k + Len(found))
       /\ found = <<>> => Stuck(layers, n, Len(file), k)
    BY <1>7, <1>9 DEF Has
<1> HIDE DEF found
<1> QED BY <1>8, <1>10 DEF BlockReads

---------------------------------------------------------------------------
(* The files of other programs.                                               *)

\* What the assumption says of one packet.
ForeignPacket(file, packet, at, to) ==
    /\ SubSeq(file.bytes, at + 4 * 1 - 3, at + 4 * 1) = FieldBytes(file.magic, packet.sec)
    /\ SubSeq(file.bytes, at + 4 * 2 - 3, at + 4 * 2) = FieldBytes(file.magic, packet.usec)
    /\ SubSeq(file.bytes, at + 4 * 3 - 3, at + 4 * 3) = FieldBytes(file.magic, Len(packet.data))
    /\ SubSeq(file.bytes, at + 4 * 4 - 3, at + 4 * 4) = FieldBytes(file.magic, packet.actlen)
    /\ SubSeq(file.bytes, at + 17, to) = packet.data

LEMMA ForeignParts ==
    ASSUME NEW file \in Foreign
    PROVE  /\ file.magic \in DOMAIN Magic /\ file.network \in Nat
           /\ IsSeq(file.packets) /\ IsSeq(file.bytes)
           /\ \A i \in DOMAIN file.packets :
                  LET packet == file.packets[i]
                  IN  /\ IsSeq(packet.data) /\ packet.actlen \in Nat /\ packet.sec \in Nat
                      /\ packet.usec \in Nat
                      /\ ForeignPacket(file, packet, RecordEnd(ForeignLayers(file))[i - 1],
                                       RecordEnd(ForeignLayers(file))[i])
           /\ Len(file.bytes) = RecordEnd(ForeignLayers(file))[Len(file.packets)]
           /\ SubSeq(file.bytes, 1, 4) = Magic[file.magic]
           /\ SubSeq(file.bytes, 21, 24) = FieldBytes(file.magic, file.network)
<1> DEFINE end == RecordEnd(ForeignLayers(file))
           last == Second(file.magic) - 1
           Packet1 == [data : Seq(Byte), actlen : Nat, sec : Nat, usec : 0..last]
           U32(n) == FieldBytes(file.magic, n)
<1>1. IsPcapFile(file)
    BY ForeignAssumption
<1>2. /\ file.magic \in DOMAIN Magic /\ file.network \in Nat
      /\ file.packets \in Seq(Packet1)
      /\ file.bytes \in Seq(Byte) /\ Len(file.bytes) = end[Len(file.packets)]
      /\ SubSeq(file.bytes, 1, 4) = Magic[file.magic]
      /\ SubSeq(file.bytes, 21, 24) = U32(file.network)
    BY <1>1 DEF IsPcapFile, FieldBytes
<1>3. \A i \in DOMAIN file.packets : ForeignPacket(file, file.packets[i], end[i - 1], end[i])
    BY <1>1 DEF IsPcapFile, FieldBytes, ForeignPacket
<1>4. \A p \in Packet1 : /\ IsSeq(p.data) /\ p.actlen \in Nat /\ p.sec \in Nat /\ p.usec \in Nat
    <2>1. TAKE p \in Packet1
    <2>2. p.data \in Seq(Byte) /\ p.actlen \in Nat /\ p.sec \in Nat /\ p.usec \in 0..last
        OBVIOUS
    <2> HIDE DEF last
    <2>3. p.usec \in Nat
        BY <2>2
    <2> QED BY <2>2, <2>3, SeqIsSeq
<1> HIDE DEF Packet1
<1>5. \A i \in DOMAIN file.packets : file.packets[i] \in Packet1
    BY <1>2, LenProperties
<1>6. IsSeq(file.packets) /\ IsSeq(file.bytes)
    BY <1>2, SeqIsSeq
<1> QED BY <1>2, <1>3, <1>4, <1>5, <1>6

\* Such a file is one the reader can read, and its packets are layers the
\* writer could have written.
LEMMA ForeignLayout ==
    ASSUME NEW file \in Foreign
    PROVE  /\ IsSeq(ForeignLayers(file)) /\ AllLinked(ForeignLayers(file), file.network)
           /\ PcapLayout(file.bytes, file.magic, file.network, ForeignLayers(file),
                         Len(ForeignLayers(file)))
<1> DEFINE layers == ForeignLayers(file)
           bytes == file.bytes
           magic == file.magic
           network == file.network
           packets == file.packets
           end == RecordEnd(layers)
           n == Len(packets)
           val == Int64(Word(network))
<1>1. /\ magic \in DOMAIN Magic /\ network \in Nat
      /\ IsSeq(packets) /\ IsSeq(bytes) /\ Len(bytes) = end[n]
      /\ SubSeq(bytes, 1, 4) = Magic[magic]
      /\ SubSeq(bytes, 21, 24) = FieldBytes(magic, network)
    BY ForeignParts
<1>2. \A i \in DOMAIN packets :
          /\ IsSeq(packets[i].data) /\ packets[i].actlen \in Nat /\ packets[i].sec \in Nat
          /\ packets[i].usec \in Nat
          /\ ForeignPacket(file, packets[i], end[i - 1], end[i])
    BY ForeignParts
<1>3. n \in Nat /\ DOMAIN packets = 1..n
    BY <1>1, LenOfSeq
<1>4. layers = [i \in 1..n |-> LinkLayer(LinkClass(network, val), packets[i].data,
                                         packets[i].actlen, packets[i].sec,
                                         Unit(magic) * packets[i].usec)]
    BY <1>3 DEF ForeignLayers
<1>5. IsSeq(layers) /\ Len(layers) = n
    <2>1. layers = [i \in 1..n |-> layers[i]]
        BY <1>4
    <2> HIDE DEF layers
    <2> QED BY <1>3, <2>1, FunctionIsSeq
<1>6. ASSUME NEW i \in 1..n
      PROVE  /\ Linked(layers[i], network) /\ layers[i].data = packets[i].data
             /\ FieldOf(layers[i], "link.timestamp.sec") = packets[i].sec
             /\ FieldOf(layers[i], "link.timestamp.usec") = Unit(magic) * packets[i].usec
             /\ FieldOf(layers[i], "link.length") = packets[i].actlen
    <2> DEFINE p == packets[i]
               usec == Unit(magic) * p.usec
               layer == LinkLayer(LinkClass(network, val), p.data, p.actlen, p.sec, usec)
    <2>1. IsSeq(p.data) /\ p.actlen \in Nat /\ p.sec \in Nat /\ p.usec \in Nat
        BY <1>2, <1>3
    <2>2. usec \in Nat
        BY <2>1 DEF Unit
    <2>3. layers[i] = layer
        BY <1>4
    <2>4. val \in {UInt64(Word(network)), Int64(Word(network))}
        OBVIOUS
    <2> HIDE DEF usec, val, p
    <2>5. Linked(layer, network)
        BY <1>1, <2>1, <2>2, <2>4, LinkLayerLinked
    <2>6. layer.data = p.data
        BY LinkLayerIs
    <2>7. /\ FieldOf(layer, "link.length") = p.actlen
          /\ FieldOf(layer, "link.timestamp.sec") = p.sec
          /\ FieldOf(layer, "link.timestamp.usec") = usec
        BY <2>1, <2>2, LinkField
    <2> HIDE DEF layer, layers
    <2> QED BY <2>3, <2>5, <2>6, <2>7 DEF p, usec
<1> HIDE DEF layers, end, n
<1>7. AllLinked(layers, network)
    <2>1. DOMAIN layers = 1..n
        BY <1>5, LenOfSeq
    <2> QED BY <1>6, <2>1 DEF AllLinked
<1>8. /\ \A m \in 0..n : end[m] \in Nat /\ end[m] >= 24 /\ \A l \in 0..m - 1 : end[l] <= end[m]
      /\ \A m \in 1..n : end[m] = end[m - 1] + 16 + Len(layers[m].data)
    <2>1. \A i \in DOMAIN layers : IsSeq(layers[i].data)
        BY <1>7 DEF AllLinked, Linked
    <2>2. \A m \in 0..n : /\ end[m] \in Nat /\ end[m] >= 24
                          /\ \A l \in 0..m - 1 : end[l] + 16 <= end[m]
        BY <1>5, <2>1, EndsGrow DEF end
    <2>3. \A m \in 1..n : end[m] = end[m - 1] + 16 + Len(layers[m].data)
        BY <1>5, EndsSteps DEF end
    <2>4. \A m \in 0..n : \A l \in 0..m - 1 : end[l] <= end[m]
        <3>1. TAKE m \in 0..n
        <3>2. TAKE l \in 0..m - 1
        <3>3. l \in 0..n /\ end[l] \in Nat /\ end[m] \in Nat /\ end[l] + 16 <= end[m]
            BY <1>3, <2>2
        <3> QED BY <3>3
    <2> QED BY <2>2, <2>3, <2>4
<1>9. Len(bytes) \in Nat /\ Len(bytes) >= 24 /\ \A m \in 0..n : end[m] <= Len(bytes)
    <2>1. n \in 0..n /\ \A m \in 0..n : m = n \/ m \in 0..n - 1
        BY <1>3
    <2> QED BY <1>1, <1>8, <2>1
<1>10. Lies(bytes, 0, Magic[magic])
    <2>1. IsSeq(Magic[magic]) /\ Len(Magic[magic]) = 4
        BY <1>1, MagicIsSeq
    <2>2. 0 + Len(Magic[magic]) <= Len(bytes) /\ SubSeq(bytes, 0 + 1, 0 + Len(Magic[magic])) = Magic[magic]
        <3>1. 0 + 1 = 1 /\ 0 + 4 = 4
            OBVIOUS
        <3> QED BY <1>1, <1>9, <2>1, <3>1
    <2> QED BY <1>1, <2>1, <2>2, PartLies
<1>11. Lies(bytes, 20, FieldBytes(magic, network))
    <2> DEFINE part == FieldBytes(magic, network)
    <2>1. IsSeq(part) /\ Len(part) = 4 /\ SubSeq(bytes, 21, 24) = part
        BY <1>1, FieldBytesIsSeq
    <2> HIDE DEF part
    <2>2. 20 + Len(part) <= Len(bytes) /\ 20 + Len(part) = 24 /\ 20 + 1 = 21
        BY <1>9, <2>1
    <2>3. SubSeq(bytes, 20 + 1, 20 + Len(part)) = part
        BY <2>1, <2>2
    <2>4. Lies(bytes, 20, part)
        BY <1>1, <2>1, <2>2, <2>3, PartLies
    <2> QED BY <2>4 DEF part
<1>12. ASSUME NEW i \in 1..n PROVE RecordLies(bytes, magic, end[i - 1], layers[i])
    <2> DEFINE at == end[i - 1]
               p == packets[i]
    <2>1. /\ at \in Nat /\ Len(p.data) \in Nat /\ IsSeq(p.data)
          /\ end[i] = at + 16 + Len(p.data) /\ end[i] <= Len(bytes)
        <3>1. i - 1 \in 0..n /\ i \in 0..n
            BY <1>3
        <3>2. IsSeq(p.data) /\ layers[i].data = p.data
            BY <1>2, <1>3, <1>6
        <3> QED BY <1>8, <1>9, <3>1, <3>2, LenOfSeq
    <2>2. ForeignPacket(file, p, at, end[i])
        BY <1>2, <1>3
    <2>3. p.usec \in Nat
        BY <1>2, <1>3
    <2>4. /\ Linked(layers[i], network) /\ layers[i].data = p.data
          /\ FieldOf(layers[i], "link.timestamp.sec") = p.sec
          /\ FieldOf(layers[i], "link.timestamp.usec") = Unit(magic) * p.usec
          /\ FieldOf(layers[i], "link.length") = p.actlen
        BY <1>6
    <2> HIDE DEF at, p
    <2>5. ASSUME NEW pos \in Nat, NEW number, pos + 4 <= Len(bytes),
                 SubSeq(bytes, pos + 1, pos + 4) = FieldBytes(magic, number)
          PROVE  Lies(bytes, pos, FieldBytes(magic, number))
        <3> DEFINE part == FieldBytes(magic, number)
        <3>1. IsSeq(part) /\ Len(part) = 4
            BY FieldBytesIsSeq
        <3>2. SubSeq(bytes, pos + 1, pos + 4) = part
            BY <2>5
        <3> HIDE DEF part
        <3>3. pos + Len(part) <= Len(bytes) /\ SubSeq(bytes, pos + 1, pos + Len(part)) = part
            BY <2>5, <3>1, <3>2
        <3>4. Lies(bytes, pos, part)
            BY <1>1, <3>1, <3>3, PartLies
        <3> QED BY <3>4 DEF part
    <2>6. /\ at + 4 <= Len(bytes) /\ (at + 4) + 4 <= Len(bytes) /\ (at + 8) + 4 <= Len(bytes)
          /\ (at + 12) + 4 <= Len(bytes) /\ at + 4 \in Nat /\ at + 8 \in Nat /\ at + 12 \in Nat
          /\ at + 16 \in Nat /\ (at + 16) + Len(p.data) <= Len(bytes)
        <3> DEFINE size == Len(p.data)
        <3>1. size \in Nat /\ end[i] = at + 16 + size /\ end[i] <= Len(bytes) /\ at \in Nat
            BY <2>1
        <3> HIDE DEF size
        <3> DEFINE all == Len(bytes)
        <3>2. all \in Nat /\ end[i] <= all
            BY <1>9, <3>1
        <3> HIDE DEF all
        <3>3. /\ at + 4 <= all /\ (at + 4) + 4 <= all /\ (at + 8) + 4 <= all /\ (at + 12) + 4 <= all
              /\ at + 4 \in Nat /\ at + 8 \in Nat /\ at + 12 \in Nat
              /\ at + 16 \in Nat /\ (at + 16) + size <= all
            <4> DEFINE to == end[i]
            <4>1. to = at + 16 + size /\ to <= all
                BY <3>1, <3>2
            <4> HIDE DEF to
            <4> QED BY <3>1, <3>2, <4>1
        <3> QED BY <3>3 DEF size, all
    <2>7. /\ SubSeq(bytes, at + 1, at + 4) = FieldBytes(magic, p.sec)
          /\ SubSeq(bytes, (at + 4) + 1, (at + 4) + 4) = FieldBytes(magic, p.usec)
          /\ SubSeq(bytes, (at + 8) + 1, (at + 8) + 4) = FieldBytes(magic, Len(p.data))
          /\ SubSeq(bytes, (at + 12) + 1, (at + 12) + 4) = FieldBytes(magic, p.actlen)
          /\ SubSeq(bytes, (at + 16) + 1, (at + 16) + Len(p.data)) = p.data
        <3>1. /\ at + 4 * 1 - 3 = at + 1 /\ at + 4 * 1 = at + 4
              /\ at + 4 * 2 - 3 = (at + 4) + 1 /\ at + 4 * 2 = (at + 4) + 4
              /\ at + 4 * 3 - 3 = (at + 8) + 1 /\ at + 4 * 3 = (at + 8) + 4
              /\ at + 4 * 4 - 3 = (at + 12) + 1 /\ at + 4 * 4 = (at + 12) + 4
              /\ at + 17 = (at + 16) + 1 /\ end[i] = (at + 16) + Len(p.data)
            BY <2>1
        <3> QED BY <2>2, <3>1, Zenon DEF ForeignPacket
    <2>8. /\ Lies(bytes, at, FieldBytes(magic, p.sec))
          /\ Lies(bytes, at + 4, FieldBytes(magic, p.usec))
          /\ Lies(bytes, at + 8, FieldBytes(magic, Len(p.data)))
          /\ Lies(bytes, at + 12, FieldBytes(magic, p.actlen))
        BY <2>1, <2>5, <2>6, <2>7
    <2>9. Lies(bytes, at + 16, p.data)
        BY <1>1, <2>1, <2>6, <2>7, PartLies
    <2>10. RecordLies(bytes, magic, at, layers[i])
        BY <2>3, <2>4, <2>8, <2>9 DEF RecordLies
    <2> QED BY <2>10 DEF at
<1>13. PcapLayout(bytes, magic, network, layers, n)
    <2>1. n \in 0..Len(layers)
        BY <1>3, <1>5
    <2> QED BY <1>1, <1>10, <1>11, <1>12, <2>1 DEF PcapLayout, end
<1> QED BY <1>5, <1>7, <1>13 DEF layers

---------------------------------------------------------------------------
(* An export of a pcap file, and its reading.                                 *)

\* The numbers that the format has room for.
Unsigned32 == {n \in Nat : n < 65536 * 65536}
Fits(layer) ==
    /\ Len(layer.data) \in Unsigned32
    /\ \A id \in {"link.length", "link.timestamp.sec", "link.timestamp.usec"} :
           FieldOf(layer, id) \in Unsigned32

\* An export by itself of layers that a pcap file can hold: of one link type,
\* since the header goes out with the first of them.
PcapStep == \/ ForeignFile
            \/ \E layers : \E network \in Unsigned32 :
                   /\ Exportable(layers) /\ AllLinked(layers, network)
                   /\ \A i \in DOMAIN layers : Fits(layers[i])
                   /\ ExportNext(layers)
PcapSpec == ExportInit /\ [][PcapStep]_exportVars

\* What is written is a magic number alone, or a header and records.
PcapLies(network) ==
    /\ AllLinked(frames, network)
    /\ \/ /\ Len(written) < 24
          /\ output = "write" => /\ nframes = 0 /\ worker.header = FALSE
                                 /\ written = Magic["le_nsec"]
       \/ \E magic, n : /\ PcapLayout(written, magic, network, frames, n)
                        /\ output = "write" => /\ magic = "le_nsec" /\ n = nframes
                                               /\ worker.header = TRUE
PcapWriter ==
    /\ IsSeq(frames) /\ IsSeq(written) /\ disk \in Nat /\ disk <= Len(written)
    /\ \E network \in Nat : PcapLies(network)

\* The reader has delivered the records before the one it is at.
PcapPlace(network, magic, n) ==
    /\ AllLinked(frames, network) /\ PcapLayout(written, magic, network, frames, n)
    /\ ReaderStands(reader, magic, network, frames, n, disk, Len(delivered))
    /\ input = "ended" => Stuck(frames, n, disk, Len(delivered))
PcapReader ==
    /\ input \in {"none", "reading", "failed", "ended"}
    /\ input # "none" => output \in {"ended", "dead"}
    /\ input \in {"reading", "ended"} =>
           /\ IsSeq(delivered)
           /\ \A i \in 1..Len(delivered) : Packet(delivered[i]) = Packet(frames[i])
           /\ \E network \in Nat : \E magic, n : PcapPlace(network, magic, n)

\* The inductive strengthening of PcapReads.
PcapInv ==
    /\ format \in {"none", "pcap", "genet"}
    /\ output = "none" => format = "none" /\ nframes = 0 /\ input = "none"
    /\ format = "none" => output = "none"
    /\ input = "none" => delivered = <<>>
    /\ format = "pcap" => PcapWriter /\ PcapReader

LEMMA PcapInitInv == ExportInit => PcapInv
    BY DEF ExportInit, PcapInv

\* While nobody reads, the reader's part is true.
LEMMA PcapIdle ==
    ASSUME PcapInv, format = "pcap", output \notin {"ended", "dead"}, UNCHANGED readerVars
    PROVE  input = "none" /\ PcapReader'
<1>1. input = "none"
    BY DEF PcapInv, PcapReader
<1>2. input' = input /\ delivered' = delivered /\ reader' = reader
    BY DEF readerVars
<1> QED BY <1>1, <1>2 DEF PcapReader

LEMMA PcapNewWriter ==
    ASSUME ExportInv, PcapInv, NEW layers, NEW network \in Nat, Exportable(layers),
           AllLinked(layers, network), NewWriter(layers)
    PROVE  PcapInv'
<1>1. /\ output = "none" /\ output' = "write" /\ nframes = 0 /\ input = "none"
      /\ delivered = <<>> /\ disk = 0 /\ frames' = layers /\ format' \in {"pcap", "genet"}
      /\ UNCHANGED <<nframes, disk, readerVars>>
    BY DEF NewWriter, PcapInv, ExportInv
<1>2. input' = input /\ delivered' = delivered
    BY <1>1 DEF readerVars
<1>3. ASSUME format' = "pcap" PROVE PcapWriter' /\ PcapReader'
    <2>1. worker'.header = FALSE /\ written' = Magic["le_nsec"]
        <3>1. Magic.le_nsec = Magic["le_nsec"]
            OBVIOUS
        <3> QED BY <1>3, <3>1 DEF NewWriter
    <2>2. IsSeq(Magic["le_nsec"]) /\ Len(Magic["le_nsec"]) = 4
        <3>1. "le_nsec" \in DOMAIN Magic
            BY DEF Magic
        <3> QED BY <3>1, MagicIsSeq
    <2>3. IsSeq(layers)
        BY DEF Exportable
    <2>4. PcapLies(network)'
        <3>1. AllLinked(frames', network)
            BY <1>1
        <3>2. Len(written') < 24
            BY <2>1, <2>2
        <3>3. nframes' = 0
            BY <1>1
        <3> QED BY <2>1, <3>1, <3>2, <3>3 DEF PcapLies
    <2>5. PcapWriter'
        <3>1. disk' = 0 /\ IsSeq(written') /\ Len(written') = 4
            BY <1>1, <2>1, <2>2
        <3> QED BY <1>1, <2>3, <2>4, <3>1 DEF PcapWriter
    <2>6. PcapReader'
        BY <1>1, <1>2 DEF PcapReader
    <2> QED BY <2>5, <2>6
<1> QED BY <1>1, <1>2, <1>3 DEF PcapInv

LEMMA PcapWriteFrame ==
    ASSUME ExportInv, PcapInv, WriteFrame
    PROVE  PcapInv'
<1>1. /\ output = "write" /\ nframes < Len(frames) /\ nframes' = nframes + 1
      /\ UNCHANGED <<format, room, frames, readerVars>> /\ nframes \in Nat
    BY DEF WriteFrame, ExportInv
<1>2. input' = input /\ delivered' = delivered /\ reader' = reader
    BY <1>1 DEF readerVars
<1>3. output' # "none"
    BY <1>1 DEF WriteFrame, Write, Refuse
<1>4. ASSUME format = "pcap" PROVE PcapWriter' /\ PcapReader'
    <2> DEFINE layer == frames[nframes + 1]
               all == written \o PcapWrite(worker.header, layer)
    <2>1. PcapWriter /\ Sizes
        BY <1>1, <1>4 DEF PcapInv, ExportInv
    <2>2. PICK network \in Nat : PcapLies(network)
        BY <2>1 DEF PcapWriter
    <2>3. IsSeq(frames) /\ IsSeq(written) /\ AllLinked(frames, network)
        BY <2>1, <2>2 DEF PcapWriter, PcapLies
    <2>4. /\ Len(frames) \in Nat /\ DOMAIN frames = 1..Len(frames)
          /\ nframes \in 0..Len(frames) - 1 /\ nframes + 1 \in 1..Len(frames)
        BY <1>1, <2>3, LenOfSeq
    <2>5. Linked(layer, network)
        BY <2>3, <2>4 DEF AllLinked
    <2>6. worker'.header = TRUE /\ Write(all, "write")
        BY <1>4 DEF WriteFrame
    <2>7. PcapLayout(all, "le_nsec", network, frames, nframes + 1)
        <3>1. CASE nframes = 0 /\ worker.header = FALSE /\ written = Magic["le_nsec"]
            <4>1. FieldOf(layer, "link.type") = network
                BY <2>5 DEF Linked
            <4>2. PcapLayout(written \o PcapHeader(0, FieldOf(layer, "link.type")), "le_nsec",
                             network, frames, nframes)
                BY <2>3, <3>1, <4>1, EmptyLayout
            <4>3. (IF FALSE THEN <<>> ELSE PcapHeader(0, FieldOf(layer, "link.type"))) =
                      PcapHeader(0, FieldOf(layer, "link.type"))
                OBVIOUS
            <4>4. PcapLayout(written \o PcapWrite(FALSE, layer), "le_nsec", network, frames,
                             nframes + 1)
                BY <2>3, <2>4, <4>2, <4>3, RecordAdded
            <4> QED BY <3>1, <4>4
        <3>2. CASE PcapLayout(written, "le_nsec", network, frames, nframes) /\ worker.header = TRUE
            <4>1. written \o <<>> = written
                BY <2>3, ConcatEmptySeq DEF IsSeq
            <4>2. (IF TRUE THEN <<>> ELSE PcapHeader(0, FieldOf(layer, "link.type"))) = <<>>
                OBVIOUS
            <4>3. PcapLayout(written \o PcapWrite(TRUE, layer), "le_nsec", network, frames,
                             nframes + 1)
                BY <2>3, <2>4, <3>2, <4>1, <4>2, RecordAdded
            <4> QED BY <3>2, <4>3
        <3> QED BY <1>1, <2>2, <3>1, <3>2 DEF PcapLies
    <2>8. IsSeq(all) /\ Len(written) <= Len(all)
        <3>1. IsSeq(PcapWrite(worker.header, layer))
            BY <2>5, PcapWriteIsSeq DEF Linked
        <3> QED BY <2>3, <3>1, ConcatIsSeq, LenOfSeq
    <2> HIDE DEF all, layer
    <2>9. written' = all
        BY <2>6 DEF Write, Accept, Refuse
    <2>10. disk' \in Nat /\ disk' <= Len(all)
        <3>1. Sizes'
            BY <1>1, <2>1, <2>6, <2>8, WriteSizes
        <3> QED BY <2>9, <3>1 DEF Sizes
    <2>11. PcapLies(network)'
        <3>1. AllLinked(frames', network) /\ PcapLayout(written', "le_nsec", network, frames', nframes')
            BY <1>1, <2>3, <2>7, <2>9
        <3> QED BY <2>6, <3>1 DEF PcapLies
    <2>12. PcapWriter'
        BY <1>1, <2>2, <2>3, <2>8, <2>9, <2>10, <2>11 DEF PcapWriter
    <2> QED BY <1>1, <1>4, <2>12, PcapIdle
<1> QED BY <1>1, <1>2, <1>3, <1>4 DEF PcapInv

\* The end of the export writes nothing more to a pcap file.
LEMMA PcapEndOutput ==
    ASSUME ExportInv, PcapInv, EndOutput
    PROVE  PcapInv'
<1> DEFINE all == written \o IF format = "pcap" THEN <<>> ELSE GenetPieces(worker)
<1>1. /\ output = "write" /\ Write(all, "drop")
      /\ UNCHANGED <<format, room, frames, nframes, worker, readerVars>>
    BY DEF EndOutput
<1>2. input' = input /\ delivered' = delivered /\ reader' = reader
    BY <1>1 DEF readerVars
<1>3. output' = "drop" /\ format # "none" /\ Sizes
    BY <1>1 DEF Write, Refuse, PcapInv, ExportInv
<1>4. ASSUME format = "pcap" PROVE PcapWriter' /\ PcapReader'
    <2>1. PcapWriter
        BY <1>4 DEF PcapInv
    <2>2. all = written /\ IsSeq(all)
        <3>1. written \o <<>> = written
            BY <2>1, ConcatEmptySeq DEF PcapWriter, IsSeq
        <3> QED BY <1>4, <2>1, <3>1 DEF PcapWriter
    <2> HIDE DEF all
    <2>3. written' = written
        BY <1>1, <2>2 DEF Write, Accept, Refuse
    <2>4. disk' \in Nat /\ disk' <= Len(written)
        <3>1. Sizes'
            BY <1>1, <1>3, <2>2, WriteSizes
        <3> QED BY <2>3, <3>1 DEF Sizes
    <2>5. ASSUME NEW network \in Nat, PcapLies(network) PROVE PcapLies(network)'
        BY <1>1, <1>3, <2>3, <2>5 DEF PcapLies
    <2>6. PcapWriter'
        BY <1>1, <2>1, <2>3, <2>4, <2>5 DEF PcapWriter
    <2> QED BY <1>1, <1>4, <2>6, PcapIdle
<1> QED BY <1>1, <1>2, <1>3, <1>4 DEF PcapInv

\* Nor does the flush, and a program that is killed writes nothing.
LEMMA PcapDropOutput ==
    ASSUME ExportInv, PcapInv, DropOutput \/ ReportDone \/ KillWriter
    PROVE  PcapInv'
<1>1. /\ output \in {"write", "drop", "report"} /\ output' \in {"report", "ended", "dead"}
      /\ UNCHANGED <<format, room, frames, nframes, worker, written, readerVars>>
    BY DEF DropOutput, ReportDone, KillWriter
<1>2. Sizes /\ Len(written) \in Nat
    BY <1>1, LenOfSeq DEF ExportInv, Sizes
<1>3. disk' \in Nat /\ disk' <= Len(written)
    <2>1. disk' = disk \/ disk' = IF Len(written) < room THEN Len(written) ELSE room
        BY DEF DropOutput, ReportDone, KillWriter
    <2> QED BY <1>2, <2>1 DEF Sizes
<1>4. input' = input /\ delivered' = delivered /\ reader' = reader
    BY <1>1 DEF readerVars
<1>5. ASSUME format = "pcap" PROVE PcapWriter' /\ PcapReader'
    <2>1. PcapWriter
        BY <1>5 DEF PcapInv
    <2>2. ASSUME NEW network \in Nat, PcapLies(network) PROVE PcapLies(network)'
        BY <1>1, <2>2 DEF PcapLies
    <2>3. PcapWriter'
        BY <1>1, <1>3, <2>1, <2>2 DEF PcapWriter
    <2> QED BY <1>1, <1>5, <2>3, PcapIdle
<1> QED BY <1>1, <1>4, <1>5 DEF PcapInv

\* A file of another program lies as one of ours does, in its own byte order.
LEMMA PcapForeign ==
    ASSUME ExportInv, PcapInv, ForeignFile
    PROVE  PcapInv'
<1>1. /\ output = "none" /\ output' = "ended" /\ format' = "pcap" /\ input = "none"
      /\ delivered = <<>> /\ UNCHANGED readerVars
    BY DEF ForeignFile, PcapInv
<1>2. input' = "none" /\ delivered' = <<>>
    BY <1>1 DEF readerVars
<1>3. PICK file \in Foreign : /\ written' = file.bytes /\ frames' = ForeignLayers(file)
                              /\ disk' \in 0..Len(file.bytes)
    BY DEF ForeignFile
<1>4. /\ IsSeq(frames') /\ AllLinked(frames', file.network)
      /\ PcapLayout(written', file.magic, file.network, frames', Len(frames'))
    BY <1>3, ForeignLayout
<1>5. IsSeq(written') /\ file.network \in Nat
    BY <1>4 DEF PcapLayout
<1>6. disk' \in Nat /\ disk' <= Len(written')
    <2>1. Len(written') \in Nat
        BY <1>5, LenOfSeq
    <2> QED BY <1>3, <2>1
<1>7. PcapLies(file.network)'
    BY <1>1, <1>4 DEF PcapLies
<1>8. PcapWriter'
    BY <1>4, <1>5, <1>6, <1>7 DEF PcapWriter
<1>9. PcapReader'
    BY <1>2 DEF PcapReader
<1> QED BY <1>1, <1>2, <1>8, <1>9 DEF PcapInv

\* The file is a cut of what was written.
LEMMA FileIsCut ==
    ASSUME PcapWriter
    PROVE  CutOf(File, written) /\ Len(File) = disk
<1>1. IsSeq(written) /\ disk \in Nat /\ disk <= Len(written)
    BY DEF PcapWriter
<1>2. IsSeq(File) /\ Len(File) = disk /\ \A i \in 1..disk : File[i] = written[i]
    BY <1>1, FileIsPrefix
<1> QED BY <1>1, <1>2 DEF CutOf

\* A file that opens has its header; the reader stands behind it.
LEMMA PcapOpenFile ==
    ASSUME PcapInv, OpenFile
    PROVE  PcapInv'
<1>1. input = "none" /\ delivered = <<>> /\ UNCHANGED <<writerVars, delivered>>
    BY DEF OpenFile, PcapInv
<1>2. /\ UNCHANGED <<format, frames, nframes, worker, written, disk, output>>
      /\ input' \in {"reading", "failed"} /\ delivered' = <<>>
    BY <1>1 DEF OpenFile, writerVars
<1>3. ASSUME format = "pcap" PROVE PcapWriter' /\ PcapReader'
    <2>1. PcapWriter /\ output \in {"ended", "dead"}
        BY <1>3 DEF PcapInv, OpenFile, Readable
    <2>2. PcapWriter'
        <3>1. ASSUME NEW network \in Nat, PcapLies(network) PROVE PcapLies(network)'
            BY <1>2, <3>1 DEF PcapLies
        <3> QED BY <1>2, <2>1, <3>1 DEF PcapWriter
    <2>3. CASE input' = "failed"
        BY <1>2, <2>1, <2>2, <2>3 DEF PcapReader
    <2>4. CASE input' = "reading"
        <3> DEFINE res == PcapOpen(File)
        <3>1. res.ok /\ reader' = res.val
            BY <1>3, <2>4 DEF OpenFile
        <3>2. CutOf(File, written) /\ Len(File) = disk
            BY <2>1, FileIsCut
        <3> HIDE DEF res
        <3>3. Len(File) >= 24
            <4>1. IsSeq(File) /\ Len(File) \in Nat
                BY <3>2, LenOfSeq DEF CutOf
            <4> QED BY <3>1, <4>1, OpenShort DEF res
        <3>4. PICK network \in Nat : PcapLies(network)
            BY <2>1 DEF PcapWriter
        <3>5. /\ disk \in Nat /\ disk >= 24 /\ disk <= Len(written) /\ Len(written) \in Nat
              /\ IsSeq(frames)
            BY <2>1, <3>2, <3>3, LenOfSeq DEF PcapWriter
        <3>6. PICK magic, n : PcapLayout(written, magic, network, frames, n)
            BY <3>4, <3>5 DEF PcapLies
        <3>7. reader' = ReaderAt(magic, network, 24)
            BY <3>1, <3>2, <3>6, OpenWhole DEF res
        <3>8. n \in 0..Len(frames) /\ Len(frames) \in Nat /\ RecordEnd(frames)[0] = 24
            BY <3>5, <3>6, EndsSteps, LenOfSeq DEF PcapLayout
        <3>9. ReaderStands(reader', magic, network, frames, n, disk, 0)
            BY <3>5, <3>7, <3>8 DEF ReaderStands
        <3>10. Len(delivered') = 0 /\ IsSeq(delivered')
            BY <1>2, EmptySeq, SeqIsSeq
        <3>11. PcapPlace(network, magic, n)'
            <4>1. AllLinked(frames, network)
                BY <3>4 DEF PcapLies
            <4> QED BY <1>2, <2>4, <3>6, <3>9, <3>10, <4>1 DEF PcapPlace
        <3>12. \A i \in 1..Len(delivered') : Packet(delivered'[i]) = Packet(frames'[i])
            BY <3>10
        <3> QED BY <1>2, <2>1, <2>2, <2>4, <3>10, <3>11, <3>12 DEF PcapReader
    <2> QED BY <1>2, <2>2, <2>3, <2>4
<1> QED BY <1>1, <1>2, <1>3 DEF PcapInv, OpenFile, Readable

\* A block of the reader is the records that follow, as many as are whole.
LEMMA PcapReadFile ==
    ASSUME PcapInv, ReadFile
    PROVE  PcapInv'
<1>1. /\ input = "reading" /\ UNCHANGED writerVars /\ input' \in {"reading", "ended"}
    BY DEF ReadFile
<1>2. UNCHANGED <<format, frames, nframes, worker, written, disk, output>>
    BY <1>1 DEF writerVars
<1>3. output # "none"
    BY <1>1 DEF PcapInv
<1>4. ASSUME format = "pcap" PROVE PcapWriter' /\ PcapReader'
    <2>1. PcapWriter /\ PcapReader
        BY <1>4 DEF PcapInv
    <2>2. PcapWriter'
        <3>1. ASSUME NEW network \in Nat, PcapLies(network) PROVE PcapLies(network)'
            BY <1>2, <3>1 DEF PcapLies
        <3> QED BY <1>2, <2>1, <3>1 DEF PcapWriter
    <2>3. /\ IsSeq(delivered) /\ output \in {"ended", "dead"}
          /\ \A i \in 1..Len(delivered) : Packet(delivered[i]) = Packet(frames[i])
        BY <1>1, <2>1 DEF PcapReader
    <2>4. PICK network \in Nat : \E magic, n : PcapPlace(network, magic, n)
        BY <1>1, <2>1 DEF PcapReader
    <2>5. PICK magic, n : PcapPlace(network, magic, n)
        BY <2>4
    <2> DEFINE k == Len(delivered)
               read == PcapRead(File, reader, BlockSize)
    <2>6. /\ AllLinked(frames, network) /\ PcapLayout(written, magic, network, frames, n)
          /\ ReaderStands(reader, magic, network, frames, n, Len(File), k)
          /\ CutOf(File, written) /\ Len(File) = disk /\ IsSeq(frames)
        BY <2>1, <2>5, FileIsCut DEF PcapPlace, PcapWriter
    <2>7. /\ reader' = read.reader
          /\ IF read.res.ok THEN delivered' = delivered \o read.res.val /\ UNCHANGED input
                            ELSE input' = "ended" /\ UNCHANGED delivered
        BY <1>4 DEF ReadFile
    <2>8. PICK found : /\ IsSeq(found)
                       /\ \A j \in 1..Len(found) : Packet(found[j]) = Packet(frames[k + j])
                       /\ ReaderStands(read.reader, magic, network, frames, n, disk,
                                       k + Len(found))
                       /\ read.res = IF found = <<>> THEN Err("eof") ELSE Ok(found)
                       /\ found = <<>> => Stuck(frames, n, disk, k)
        <3>1. BlockSize \in Nat \ {0}
            BY ExportAssumption
        <3> HIDE DEF k
        <3>2. BlockReads(read, magic, network, frames, n, Len(File), k)
            BY <2>6, <3>1, BlockRead
        <3> HIDE DEF read
        <3> QED BY <2>6, <3>2 DEF BlockReads
    <2> HIDE DEF read
    <2>9. CASE found = <<>>
        <3>1. read.res.ok = FALSE
            BY <2>8, <2>9 DEF Err
        <3>2. input' = "ended" /\ delivered' = delivered
            BY <2>7, <3>1
        <3>3. k + Len(found) = k
            BY <2>3, <2>9, LenOfSeq
        <3>4. PcapPlace(network, magic, n)'
            BY <1>2, <2>6, <2>7, <2>8, <2>9, <3>2, <3>3 DEF PcapPlace
        <3>5. PcapReader'
            BY <1>2, <2>3, <3>2, <3>4 DEF PcapReader
        <3> QED BY <2>2, <3>5
    <2>10. CASE found # <<>>
        <3>1. read.res.ok = TRUE /\ read.res.val = found
            BY <2>8, <2>10 DEF Ok
        <3>2. delivered' = delivered \o found /\ input' = "reading"
            BY <1>1, <2>7, <3>1
        <3>3. IsSeq(delivered') /\ Len(delivered') = k + Len(found) /\ k \in Nat /\ Len(found) \in Nat
            BY <2>3, <2>8, <3>2, ConcatIsSeq, LenOfSeq
        <3>4. \A i \in 1..Len(delivered') : Packet(delivered'[i]) = Packet(frames[i])
            <4>1. TAKE i \in 1..Len(delivered')
            <4>2. CASE i \in 1..k
                <5>1. delivered'[i] = delivered[i]
                    BY <2>3, <2>8, <3>2, <4>2, ConcatElems
                <5> QED BY <2>3, <4>2, <5>1
            <4>3. CASE i \in k + 1..k + Len(found)
                <5> DEFINE j == i - k
                <5>1. j \in 1..Len(found) /\ i = k + j
                    BY <3>3, <4>3
                <5> HIDE DEF j
                <5>2. delivered'[i] = found[j]
                    BY <2>3, <2>8, <3>2, <5>1, ConcatRest
                <5> QED BY <2>8, <5>1, <5>2
            <4> QED BY <3>3, <4>1, <4>2, <4>3
        <3>5. PcapPlace(network, magic, n)'
            BY <1>2, <2>6, <2>7, <2>8, <3>2, <3>3 DEF PcapPlace
        <3>6. PcapReader'
            BY <1>2, <2>3, <3>2, <3>3, <3>4, <3>5 DEF PcapReader
        <3> QED BY <2>2, <3>6
    <2> QED BY <2>9, <2>10
<1> QED BY <1>1, <1>2, <1>3, <1>4 DEF PcapInv

LEMMA PcapInductive == PcapSpec => [](ExportInv /\ PcapInv)
<1>1. ASSUME ExportInv, PcapInv, [PcapStep]_exportVars PROVE PcapInv'
    <2>1. CASE ForeignFile
        BY <1>1, <2>1, PcapForeign
    <2>2. ASSUME NEW layers, NEW network \in Unsigned32, Exportable(layers),
                 AllLinked(layers, network), ExportNext(layers)
          PROVE  PcapInv'
        <3>1. CASE NewWriter(layers)
            BY <1>1, <2>2, <3>1, PcapNewWriter DEF Unsigned32
        <3>2. CASE WriteFrame \/ EndOutput
            BY <1>1, <3>2, PcapWriteFrame, PcapEndOutput
        <3>3. CASE DropOutput \/ ReportDone \/ KillWriter
            BY <1>1, <3>3, PcapDropOutput
        <3>4. CASE OpenFile \/ ReadFile
            BY <1>1, <3>4, PcapOpenFile, PcapReadFile
        <3> QED BY <2>2, <3>1, <3>2, <3>3, <3>4 DEF ExportNext
    <2>3. CASE UNCHANGED exportVars
        BY <1>1, <2>3 DEF exportVars, writerVars, readerVars, PcapInv, PcapWriter, PcapReader,
                          PcapLies, PcapPlace
    <2> QED BY <1>1, <2>1, <2>2, <2>3 DEF PcapStep
<1>2. PcapStep => ExportStep
    BY DEF PcapStep, ExportStep
<1>3. PcapSpec => ExportSpec
    BY <1>2, PTL DEF PcapSpec, ExportSpec
<1> QED BY <1>1, <1>3, PcapInitInv, ExportInductive, PTL DEF PcapSpec, ExportSpec

\* When no more records are whole, those before are the whole ones.
LEMMA WholeAre ==
    ASSUME IsSeq(frames), NEW network, AllLinked(frames, network), NEW magic, NEW n, NEW k,
           PcapLayout(written, magic, network, frames, n), disk \in Nat, disk <= Len(written),
           ReaderStands(reader, magic, network, frames, n, disk, k), Stuck(frames, n, disk, k)
    PROVE  WholeRecords = 1..k /\ k \in 0..Len(frames)
<1> DEFINE end == RecordEnd(frames)
<1>1. /\ Len(frames) \in Nat /\ n \in 0..Len(frames) /\ Len(written) = end[n]
      /\ k \in 0..n /\ end[k] <= disk /\ (k = n \/ end[k + 1] > disk)
    BY LenOfSeq DEF PcapLayout, ReaderStands, Stuck
<1>2. \A m \in 0..Len(frames) :
          /\ end[m] \in Nat
          /\ \A l \in 0..m - 1 : end[l] + 16 <= end[m]
    <2>1. \A i \in DOMAIN frames : IsSeq(frames[i].data)
        BY DEF AllLinked, Linked
    <2> QED BY <2>1, EndsGrow
<1>3. WholeRecords = {m \in 1..Len(frames) : end[m] <= disk}
    BY DEF WholeRecords
<1> HIDE DEF end
<1>4. ASSUME NEW m \in 1..k PROVE m \in 1..Len(frames) /\ end[m] <= disk
    <2>1. m = k \/ m \in 0..k - 1
        BY <1>1
    <2> QED BY <1>1, <1>2, <2>1
<1>5. ASSUME NEW m \in 1..Len(frames), end[m] <= disk PROVE m \in 1..k
    <2>1. SUFFICES ASSUME m > k PROVE FALSE
        BY <1>1
    <2>2. CASE k = n
        <3>1. n \in 0..m - 1
            BY <1>1, <2>1, <2>2
        <3>2. end[n] + 16 <= end[m] /\ end[n] \in Nat /\ end[m] \in Nat
            BY <1>1, <1>2, <3>1
        <3> QED BY <1>1, <1>5, <3>2
    <2>3. CASE end[k + 1] > disk
        <3>1. m = k + 1 \/ k + 1 \in 0..m - 1
            BY <1>1, <2>1
        <3>2. k + 1 \in 0..Len(frames)
            BY <1>1, <2>1
        <3>3. end[m] \in Nat /\ end[k + 1] \in Nat /\ (m = k + 1 \/ end[k + 1] + 16 <= end[m])
            BY <1>2, <3>1, <3>2
        <3> QED BY <1>5, <2>3, <3>3
    <2> QED BY <1>1, <2>2, <2>3
<1> QED BY <1>1, <1>3, <1>4, <1>5

\* Wherever a full disk, a crash or another program has cut a pcap file, its
\* reader delivers every frame that the file has to the last byte, and nothing
\* made of the rest: for any frames of one link type whose numbers have 32 bits,
\* any size of the buffer, of the disk and of a block of the reader, and any
\* files of other programs.
THEOREM PcapCorrect == PcapSpec => []PcapReads
<1>1. PcapInv => PcapReads
    <2>1. SUFFICES ASSUME PcapInv, format = "pcap", input = "ended"
                   PROVE  /\ Len(delivered) = Cardinality(WholeRecords)
                          /\ \A i \in DOMAIN delivered : Packet(delivered[i]) = Packet(frames[i])
        BY DEF PcapReads
    <2>2. PcapWriter /\ PcapReader
        BY <2>1 DEF PcapInv
    <2>3. /\ IsSeq(delivered)
          /\ \A i \in 1..Len(delivered) : Packet(delivered[i]) = Packet(frames[i])
        BY <2>1, <2>2 DEF PcapReader
    <2>4. PICK network \in Nat : \E magic, n : PcapPlace(network, magic, n)
        BY <2>1, <2>2 DEF PcapReader
    <2>5. PICK magic, n : PcapPlace(network, magic, n)
        BY <2>4
    <2> DEFINE k == Len(delivered)
    <2>6. k \in Nat /\ DOMAIN delivered = 1..k
        BY <2>3, LenOfSeq
    <2> HIDE DEF k
    <2>7. WholeRecords = 1..k
        BY <2>1, <2>2, <2>5, WholeAre DEF PcapPlace, PcapWriter, k
    <2>8. Cardinality(WholeRecords) = k
        <3>1. Cardinality(1..k) = IF 1 > k THEN 0 ELSE k - 1 + 1
            BY <2>6, FS_Interval
        <3> QED BY <2>6, <2>7, <3>1
    <2> QED BY <2>3, <2>6, <2>8 DEF k
<1> QED BY <1>1, PcapInductive, PTL
=============================================================================
