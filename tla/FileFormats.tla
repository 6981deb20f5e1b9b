----------------------------- MODULE FileFormats -----------------------------
(* What the packages pcap-file, genet-file and pcap make of a link layer, and *)
(* a link layer of a file.  A pcap file is a sequence of bytes; a genet file  *)
(* is a sequence of pieces, each a length, a bincode value or a payload, of   *)
(* which a reader can use only a whole one.                                   *)
EXTENDS Abi

Typed(id, typ, val) == ValueAttr(AttrClass(id, typ, NoCast), val)
NumberAttr(id, n) == Typed(id, "", UInt64(Word(n)))

\* layer_class!("[link-N]", header: attr!(&TYPE_CLASS, value: N))
LinkClass(network, val) ==
    LayerClass("[link-" \o ToString(network) \o "]", <<>>, <<Typed("link.type", "", val)>>)

\* The layer both pcap readers make of a record.
LinkLayer(class, data, length, sec, usec) ==
    [NewLayer(class, data) EXCEPT !.attrs =
        <<NumberAttr("link.length", length),
          Typed("link.timestamp", "@datetime:unix", <<"float", <<sec, usec>>>>),
          NumberAttr("link.timestamp.sec", sec),
          NumberAttr("link.timestamp.usec", usec)>>]

---------------------------------------------------------------------------
(* pcap-file/writer *)

Magic == [le_usec |-> <<212, 195, 178, 161>>, be_usec |-> <<161, 178, 195, 212>>,
          le_nsec |-> <<77, 60, 178, 161>>, be_nsec |-> <<161, 178, 60, 77>>]

\* An integer of 4 or 2 bytes as the file has it.
BE32(n) == SubSeq(Word(n), 5, 8)
LE32(n) == Reverse(BE32(n))
LE16(n) == SubSeq(LE32(n), 1, 2)

\* layer.attr(id), try_get and try_into; 0 if the layer has no such attribute.
FieldOf(layer, id) ==
    LET attr == LayerAttr(layer, id)
    IN  IF Found(attr) THEN Number(TryInto(AttrTryGet(attr[1], layer).val, 4).val)
                       ELSE 0

PcapHeader(snaplen, network) ==
    LE16(2) \o LE16(4) \o LE32(0) \o LE32(0) \o LE32(snaplen) \o LE32(network)

\* Worker::write: the header goes out with the first frame.
PcapWrite(header, layer) ==
    (IF header THEN <<>> ELSE PcapHeader(0, FieldOf(layer, "link.type")))
    \o LE32(FieldOf(layer, "link.timestamp.sec"))
    \o LE32(FieldOf(layer, "link.timestamp.usec"))
    \o LE32(Len(layer.data)) \o LE32(FieldOf(layer, "link.length")) \o layer.data

---------------------------------------------------------------------------
(* pcap-file/reader.  A reader is a record: what it knows and where it is.    *)

Unsigned(little, bytes) == Number(IF little THEN Reverse(bytes) ELSE bytes)

PcapOpen(file) ==
    LET magic == TryGet(file, 0, 4)
        order == {m \in DOMAIN Magic : magic.ok /\ magic.val = Magic[m]}
        little == order \subseteq {"le_usec", "le_nsec"}
        network == Unsigned(little, SubSeq(file, 21, 24))
    IN  IF ~magic.ok THEN magic
        ELSE IF order = {} THEN Err("wrong magic number")
        ELSE IF Len(file) < 24 THEN Err("failed to fill whole buffer")
        ELSE Ok([little |-> little,
                 nsec |-> order \subseteq {"le_nsec", "be_nsec"}, pos |-> 24,
                 class |-> LinkClass(network, Int64(Word(network)))])

\* read_one: an error has used up what there was to read.
ReadOne(file, reader) ==
    LET at == reader.pos
        U32(i) == Unsigned(reader.little, SubSeq(file, at + 4 * i + 1, at + 4 * i + 4))
        usec == IF reader.nsec THEN U32(1) ELSE 1000 * U32(1)
        data == TryGet(file, at + 16, at + 16 + U32(2))
    IN  IF at + 16 > Len(file) \/ ~data.ok
        THEN [ok |-> FALSE, reader |-> [reader EXCEPT !.pos = Len(file)]]
        ELSE [ok |-> TRUE,
              reader |-> [reader EXCEPT !.pos = at + 16 + Len(data.val)],
              layer |-> LinkLayer(reader.class, data.val, U32(3), U32(0), usec)]

\* Mutant of PcapRead: the first error ends the read, whatever was read before.
PcapReadStrict(file, reader, block) ==
    LET upTo[n \in 0..block] ==
            IF n = 0 THEN [ok |-> TRUE, reader |-> reader, layers |-> <<>>]
            ELSE LET before == upTo[n - 1]
                     one == ReadOne(file, before.reader)
                 IN  [ok |-> before.ok /\ one.ok, reader |-> one.reader,
                      layers |-> IF one.ok THEN Append(before.layers, one.layer)
                                           ELSE before.layers]
        all == upTo[block]
    IN  [res |-> IF all.ok THEN Ok(all.layers) ELSE Err("eof"), reader |-> all.reader]

\* Worker::read: a block of read_one calls, which an error does not stop.
PcapRead(file, reader, block) ==
    LET upTo[n \in 0..block] ==
            IF n = 0 THEN [reader |-> reader, layers |-> <<>>]
            ELSE LET before == upTo[n - 1]
                     one == ReadOne(file, before.reader)
                 IN  [reader |-> one.reader,
                      layers |-> IF one.ok THEN Append(before.layers, one.layer)
                                           ELSE before.layers]
        all == upTo[block]
    IN  [res |-> IF all.layers = <<>> THEN Err("eof") ELSE Ok(all.layers),
         reader |-> all.reader]

---------------------------------------------------------------------------
(* genet-file/format and genet-file/writer *)

\* From<Variant>: the types a file has no value for become nil.
ToValue(var) ==
    IF var[1] \in {"bool", "int", "uint", "float", "string", "buffer"} THEN var
                                                                       ELSE Nil

\* get_index: push what is not there.
Pushed(table, elem) ==
    IF \E i \in DOMAIN table : table[i] = elem THEN table ELSE Append(table, elem)
Interned(table, elems) ==
    LET upTo[n \in 0..Len(elems)] ==
            IF n = 0 THEN table ELSE Pushed(upTo[n - 1], elems[n])
    IN  upTo[Len(elems)]

\* position(..); indices count from 0, and a push does not change them.
Position(table, elem) ==
    LET at == {i \in DOMAIN table : table[i] = elem}
    IN  (CHOOSE i \in at : \A j \in at : i <= j) - 1

NewGenetWorker == [tokens |-> <<>>, attrs |-> <<>>, entries |-> <<>>]

\* filter(is_value)
Values(attrs) ==
    LET upTo[n \in 0..Len(attrs)] ==
            IF n = 0 THEN <<>>
            ELSE LET before == upTo[n - 1]
                 IN  IF IsValue(attrs[n]) THEN Append(before, attrs[n]) ELSE before
    IN  upTo[Len(attrs)]
KeyOf(attr) == <<attr.class.id, attr.class.typ>>

\* Worker::write: attributes with a value, by their index in the table.
GenetWrite(worker, layer) ==
    LET values == Values(layer.attrs)
        table == Interned(worker.attrs, [k \in DOMAIN values |-> KeyOf(values[k])])
        tokens == Interned(worker.tokens, <<layer.class.id>>)
    IN  [tokens |-> tokens, attrs |-> table,
         entries |-> Append(worker.entries,
             [frame |-> [id |-> Position(tokens, layer.class.id), len |-> Len(layer.data),
                         attrs |-> [k \in DOMAIN values |->
                             [index |-> Position(table, KeyOf(values[k])),
                              value |-> ToValue(AttrTryGet(values[k], layer).val)]]],
              data |-> layer.data])]

\* Worker::end: the header, then every frame with its payload.
GenetPieces(worker) ==
    LET tokens == Interned(worker.tokens, [j \in 1..2 * Len(worker.attrs) |->
                      worker.attrs[(j + 1) \div 2][1 + ((j + 1) % 2)]])
    IN  <<"length", [tokens |-> tokens,
                     attrs |-> [k \in DOMAIN worker.attrs |->
                         [id |-> Position(tokens, worker.attrs[k][1]),
                          typ |-> Position(tokens, worker.attrs[k][2])]],
                     entries |-> Len(worker.entries)]>> \o
        [i \in 1..3 * Len(worker.entries) |->
            LET entry == worker.entries[(i + 2) \div 3]
            IN  <<"length", entry.frame, entry.data>>[1 + ((i + 2) % 3)]]

---------------------------------------------------------------------------
(* genet-file/reader *)

GenetOpen(file) ==
    IF Len(file) < 2 THEN Err("failed to fill whole buffer")
    ELSE Ok([tokens |-> file[2].tokens, attrs |-> file[2].attrs,
             entries |-> file[2].entries, pos |-> 2])

\* A frame of the file as a layer.
GenetLayer(reader, frame, data) ==
    LET Class(attr) == reader.attrs[attr.index + 1]
        Token(i) == reader.tokens[i + 1]
    IN  [NewLayer(LayerClass(Token(frame.id), <<>>, <<>>), data) EXCEPT !.attrs =
            [k \in DOMAIN frame.attrs |->
                Typed(Token(Class(frame.attrs[k]).id),
                      Token(Class(frame.attrs[k]).typ), frame.attrs[k].value)]]

\* Mutant of GenetRead: what is there of the entries.
GenetReadPartial(file, reader) ==
    LET at(i) == reader.pos + 3 * (i - 1)
        whole == {i \in 1..reader.entries : at(i + 1) <= Len(file)}
    IN  [res |-> Ok([i \in whole |-> GenetLayer(reader, file[at(i) + 2], file[at(i) + 3])]),
         reader |-> [reader EXCEPT !.entries = 0, !.pos = Len(file)]]

\* Worker::read: all the entries at once; an error loses them.  Afterwards
\* there are no entries left, and every read is an empty Ok.
GenetRead(file, reader) ==
    LET at(i) == reader.pos + 3 * (i - 1)
    IN  IF at(reader.entries + 1) > Len(file)
        THEN [res |-> Err("failed to fill whole buffer"),
              reader |-> [reader EXCEPT !.pos = Len(file)]]
        ELSE [res |-> Ok([i \in 1..reader.entries |->
                             GenetLayer(reader, file[at(i) + 2], file[at(i) + 3])]),
              reader |-> [reader EXCEPT !.entries = 0, !.pos = Len(file)]]
=============================================================================
