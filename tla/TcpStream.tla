------------------------------ MODULE TcpStream ------------------------------
(* The reassembly of TCP streams: tcp_stream's serial worker behind the TCP   *)
(* decoder, given one direction of a connection, every segment once and in    *)
(* the order it was sent.                                                     *)
EXTENDS Protocols

CONSTANTS Sent,       \* the bytes the application sends
          First,      \* the initial sequence number, at most MaxU32
          MaxU32,     \* std::u32::MAX, scaled down to what TLC can count to
          Checksums   \* bound: checksums of the segments

VARIABLES network,    \* the class of the IP layer below
          nsent,      \* bytes of Sent in the segments so far; -1 before the SYN
          streams,    \* the worker's map, from a key to a stream
          payloads    \* the payloads added to the TCP layers, in order

vars == <<network, nsent, streams, payloads>>

NewStream(id) == [id |-> id, seq |-> -1, len |-> 0, offset |-> 0, slices |-> <<>>]

\* Stream::put; a slice at the same start is replaced.
Put(stream, start, data) ==
    IF data = <<>> THEN stream
    ELSE [stream EXCEPT !.slices = (start :> data) @@ @]

\* Stream::fetch: the slices from offset on, as long as the first one is there.
Fetch(stream) ==
    LET Advance(acc) ==
            LET slices == acc.stream.slices
                first == Min(DOMAIN slices)
                data == slices[first]
            IN  IF first # acc.stream.offset THEN acc
                ELSE [stream |-> [acc.stream EXCEPT !.offset = @ + Len(data),
                                    !.slices = Restrict(slices, DOMAIN slices \ {first})],
                      out |-> Append(acc.out, data)]
    IN  FoldLeft(LAMBDA acc, i : IF DOMAIN acc.stream.slices = {} THEN acc ELSE Advance(acc),
                 [stream |-> stream, out |-> <<>>],
                 [i \in 1..Cardinality(DOMAIN stream.slices) |-> i])

\* The segment's place in the stream.
Received(stream, syn, seq, window, data) ==
    LET At(offset) == Put([stream EXCEPT !.seq = seq, !.len = @ + Len(data)],
                          stream.len + offset, data)
    IN  IF syn THEN IF stream.seq < 0 THEN At(0) ELSE stream
        ELSE IF stream.seq < 0 THEN stream
        ELSE IF data = <<>>
        THEN IF (stream.seq + 1) % MaxU32 = seq THEN [stream EXCEPT !.seq = seq]
                                                ELSE stream
        ELSE IF seq >= stream.seq THEN At(seq - stream.seq)
        ELSE IF stream.seq - seq > window THEN At(MaxU32 - stream.seq + seq)
        ELSE stream

\* The attributes a segment is placed by: the key of its stream, then the
\* sequence number, the window and the flags.  The addresses are attributes of
\* the IP layer, read from the bytes of the TCP layer.
Fields(stack, parent) ==
    [i \in 1..2 |-> AttrTryGet(StackAttr(stack, <<"_.src", "_.dst">>[i])[1], parent)]
    \o [i \in 1..5 |-> Read(LayerAttr(parent, <<"tcp.src", "tcp.dst", "tcp.seq",
                                              "tcp.window", "tcp.flags">>[i])[1], parent)]

StreamOf(map, key) ==
    IF key \in DOMAIN map THEN map[key] ELSE NewStream(Cardinality(DOMAIN map))

Stored(map, key, fetched) ==
    [map |-> (key :> fetched.stream) @@ map, out |-> fetched.out]

\* The stream of that key takes the segment.
Segmented(map, key, seq, window, flags, data) ==
    Stored(map, key, Fetch(Received(StreamOf(map, key), Bits(flags % 256, 1, 1) = 1,
                                    seq, window, data)))

Key(fields) == [i \in 1..4 |-> fields[i].val]
Placed(map, fields, data) ==
    IF \E i \in 1..4 : ~fields[i].ok THEN [map |-> map, out |-> <<>>]
    ELSE IF \E i \in 5..7 : ~fields[i].ok
    THEN Stored(map, Key(fields),
                [stream |-> StreamOf(map, Key(fields)), out |-> <<>>])
    ELSE Segmented(map, Key(fields), fields[5].val, fields[6].val, fields[7].val, data)

\* TcpStreamWorker::decode of a TCP layer.
Decode(map, stack, parent) ==
    Placed(map, Fields(stack, parent), PayloadOf(parent, "@data:tcp")[1].data)

---------------------------------------------------------------------------

\* A segment's bytes: ports, sequence and acknowledgement number, data offset,
\* flags, window, checksum, urgent pointer.
Segment(seq, flags, checksum, data) ==
    <<4, 210, 0, 80, 0, 0, seq \div 256, seq % 256, 0, 0, 0, 1, 80, flags, 0, 9,
      0, checksum, 0, 0>> \o data

Take(decoded) == streams' = decoded.map /\ payloads' = payloads \o decoded.out

\* The TCP decoder makes a layer of a segment; the stream decoder gets it.
Layered(ip) == \E tcp \in ToSet(Tcp(ip).children) :
                   Take(Decode(streams, <<ip, tcp>>, tcp))
Receive(seq, flags, data) ==
    \E checksum \in Checksums :
        Layered(AddPayload(NewLayer(network, <<>>),
                           Payload(Segment(seq, flags, checksum, data), "@data:tcp", "")))

Init == /\ network \in {IPv4Class, IPv6Class}
        /\ nsent = -1 /\ streams = <<>> /\ payloads = <<>>

Seqno(n) == (First + n) % (MaxU32 + 1)

Syn == /\ nsent = -1 /\ nsent' = 0
       /\ Receive(Seqno(0), 2, <<>>)
       /\ UNCHANGED network

Data == /\ nsent >= 0
        /\ \E n \in (nsent + 1)..Len(Sent) :
            /\ Receive(Seqno(1 + nsent), 16, SubSeq(Sent, nsent + 1, n))
            /\ nsent' = n
        /\ UNCHANGED network

\* A segment without data, as the last one of the handshake.
Ack == /\ nsent >= 0
       /\ Receive(Seqno(1 + nsent), 16, <<>>)
       /\ UNCHANGED <<network, nsent>>

AllSent == nsent = Len(Sent) /\ UNCHANGED vars

Next == Syn \/ Data \/ Ack \/ AllSent
Spec == Init /\ [][Next]_vars

\* The payloads of type @stream:tcp are the "Reassembled Payloads" of
\* package/tcp/tokens.json:79: of a connection captured from its SYN on without
\* a loss, they are the bytes that were sent.
Reassembled == nsent >= 0 => FlattenSeq(payloads) = SubSeq(Sent, 1, nsent)
=============================================================================
