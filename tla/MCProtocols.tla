----------------------------- MODULE MCProtocols -----------------------------
(* Whole frames, and what is left of them when the capture cut them short,    *)
(* through the dispatcher and the decoders of the packages, then through the  *)
(* display filter.                                                            *)
EXTENDS Dispatcher, Protocols, DisplayFilter

MCDecoders == <<"tcp", "eth", "ipv4", "ntp", "arp", "udp", "ipv6", "probe">>
MCExecType(d) == "parallel"
MCNotIdentifiers == {"[link-1]", "[link-0]"}

\* A decoder of this module, for the casts no package uses: signed and
\* little-endian integers, as in the tests of attr.rs.
ProbeClass ==
    LayerClass("probe", <<>>,
               <<H("probe.i8", IntCast(1, FALSE, TRUE), 0, 1),
                 H("probe.i16", IntCast(2, FALSE, TRUE), 1, 3),
                 H("probe.u16le", IntCast(2, TRUE, FALSE), 1, 3),
                 H("probe.i32le", IntCast(4, TRUE, TRUE), 3, 7),
                 H("probe.u64", UInt64BE, 3, 11),
                 H("probe.i64le", IntCast(8, TRUE, TRUE), 3, 11)>>)

Probe(parent) ==
    IF parent.class.id # "[link-0]" THEN Skipped(parent)
    ELSE Done(parent, NewLayer(ProbeClass, parent.data))

MCDecode(decoder, stack, parent) ==
    CASE decoder = "eth" -> Eth(parent)
      [] decoder = "arp" -> Arp(parent)
      [] decoder = "ipv4" -> IPv4(parent)
      [] decoder = "ipv6" -> IPv6(parent)
      [] decoder = "tcp" -> Tcp(parent)
      [] decoder = "udp" -> Udp(parent)
      [] decoder = "ntp" -> Ntp(stack, parent)
      [] decoder = "probe" -> Probe(parent)

---------------------------------------------------------------------------
(* Frames *)

EthBytes(typ) == <<2, 0, 0, 1, 2, 255, 0, 66, 0, 0, 0, 128>> \o typ
IPv4Bytes(proto) ==
    <<69, 184, 1, 200, 18, 52, 74, 171, 64, proto, 250, 206, 192, 168, 0, 1,
      10, 0, 255, 254>>
IPv6Bytes(next) ==
    <<106, 187, 204, 221, 1, 44, next, 255, 254, 128>> \o Fill(13, 0) \o
    <<1, 32, 1, 13, 184>> \o Fill(11, 0) \o <<2>>
TcpBytes(words, flags) ==
    <<1, 187, 255, 254, 128, 0, 0, 7, 255, 255, 255, 255, 16 * words + 1, flags,
      114, 16, 171, 205, 0, 9>>
UdpBytes(src, dst) == src \o dst \o <<0, 56, 190, 239>>
NtpBytes(first, stratum) ==
    <<first, stratum, 6, 236, 0, 1, 128, 0, 0, 0, 64, 0, 202, 1, 2, 3,
      222, 1, 2, 3, 128, 0, 0, 0, 0, 0, 0, 5, 0, 0, 0, 0>> \o
    <<222, 1, 2, 4, 64, 0, 0, 0, 255, 255, 255, 255, 0, 1, 0, 0>>
ArpBytes(proto, plen) ==
    <<0, 1>> \o proto \o <<6, plen, 0, 2>> \o
    [i \in 1..(12 + 2 * plen) |-> 7 * i]

IP4 == <<8, 0>>
IP6 == <<134, 221>>
\* mss, nop, nop, ts, sackPermitted, scale, end of list.
SynOptions == <<2, 4, 5, 180, 1, 1, 8, 10, 1, 2, 3, 4, 250, 0, 0, 6, 4, 2,
                3, 3, 7, 0, 0, 0>>
\* nop, nop, sack, an unknown option.
AckOptions == <<1, 1, 5, 10, 9, 9, 9, 1, 9, 9, 9, 9, 254, 4, 1, 1>>
\* nop, nop, a sack longer than what is left of the header.
LongOption == <<1, 1, 5, 10>>
\* An mss of four bytes, a scale of two, a ts of none.
WrongOptions == <<2, 6, 5, 180, 0, 0, 3, 4, 7, 9, 8, 2>>
\* An IPv4 header of 24 bytes: a router alert.
IPv4Options == [IPv4Bytes(17) EXCEPT ![1] = 70] \o <<148, 4, 0, 0>>

Frames ==
    <<EthBytes(IP4) \o IPv4Bytes(6) \o TcpBytes(11, 194) \o SynOptions \o <<1, 2, 3>>,
      EthBytes(IP4) \o IPv4Bytes(6) \o TcpBytes(9, 61) \o AckOptions,
      EthBytes(IP6) \o IPv6Bytes(6) \o TcpBytes(5, 16) \o <<72, 73>>,
      EthBytes(IP6) \o IPv6Bytes(17) \o UdpBytes(<<0, 123>>, <<200, 1>>)
          \o NtpBytes(36, 1),
      EthBytes(IP4) \o IPv4Bytes(17) \o UdpBytes(<<1, 123>>, <<0, 123>>)
          \o NtpBytes(227, 2),
      EthBytes(IP4) \o IPv4Bytes(17) \o UdpBytes(<<1, 123>>, <<0, 124>>) \o <<0, 0>>,
      EthBytes(IP4) \o IPv4Bytes(1) \o <<8, 0>>,
      EthBytes(<<8, 6>>) \o ArpBytes(IP4, 4),
      EthBytes(<<8, 6>>) \o ArpBytes(IP6, 16),
      EthBytes(<<5, 220>>) \o <<170, 170>>,
      EthBytes(<<136, 204>>) \o <<1>>,
      EthBytes(IP4) \o IPv4Bytes(6) \o TcpBytes(4, 16) \o <<72, 73>>,
      EthBytes(IP4) \o IPv4Bytes(6) \o TcpBytes(6, 16) \o LongOption
          \o [i \in 1..9 |-> i],
      EthBytes(IP6) \o IPv6Bytes(6) \o TcpBytes(8, 2) \o WrongOptions
          \o [i \in 1..9 |-> 64 * (i % 4)],
      EthBytes(IP4) \o IPv4Options \o UdpBytes(<<0, 123>>, <<200, 1>>) \o <<7>>,
      <<200, 128, 1, 255, 0, 0, 128, 0, 0, 0, 255>>>>

RootId(f) == IF f = Len(Frames) THEN "[link-0]" ELSE "[link-1]"

\* The layer a reader makes, with one of its attributes.
Root(f, data) ==
    AddAttr(NewLayer(LayerClass(RootId(f), <<>>, <<>>), data),
            ValueAttr(AttrClass("link.length", "", NoCast),
                      UInt64(Word(Len(Frames[f])))))

Init == \E f \in DOMAIN Frames : \E n \in 0..Len(Frames[f]) :
            InitWith(Root(f, SubSeq(Frames[f], 1, n)))

Spec == Init /\ [][Next]_vars

---------------------------------------------------------------------------
(* Properties of a frame once it is decoded *)

Attrs(layer) == layer.class.headers \o layer.attrs

\* What the decoders make of a whole frame, one after the other.
RECURSIVE Chain(_, _), ChainOf(_, _, _)
Chain(stack, left) ==
    ChainOf(stack, left, [d \in left |-> MCDecode(d, stack, Last(stack)).children])
ChainOf(stack, left, made) ==
    IF \A d \in left : made[d] = <<>> THEN stack
    ELSE LET d == CHOOSE d \in left : made[d] # <<>>
         IN  Chain(stack \o made[d], left \ {d})
WholeFrames == [f \in DOMAIN Frames |-> Chain(<<Root(f, Frames[f])>>, Range(MCDecoders))]

ReadAlike(got, whole) == ~got.ok \/ got = whole
Cut(whole, all) ==
    /\ Len(layers) <= Len(whole)
    /\ all => Len(layers) = Len(whole)
    /\ \A i \in DOMAIN layers :
        /\ layers[i].class = whole[i].class
        /\ layers[i].attrs = whole[i].attrs
        /\ \A a \in Range(Attrs(layers[i])) :
            ReadAlike(AttrTryGet(a, layers[i]), AttrTryGet(a, whole[i]))

\* A frame the capture cut short shows what is left of the whole frame and
\* nothing else: its layers are the first layers of the whole frame, with the
\* same attributes, and each attribute has the whole frame's value or cannot
\* be read.
CutAgrees ==
    phase = "done" => \A f \in DOMAIN Frames :
        (/\ layers[1].class.id = RootId(f)
         /\ IsPrefix(layers[1].data, Frames[f])
         /\ layers[1].attrs = Root(f, <<>>).attrs) =>
            Cut(WholeFrames[f], layers[1].data = Frames[f])

\* Bits of a slice, and of a value.
BitAt(data, k) == Bits(data[k \div 8 + 1], 7 - (k % 8), 1)
BitsOf(data, from, to) == [i \in 1..(to - from) |-> BitAt(data, from + i - 1)]
AllBits(bytes) == BitsOf(bytes, 0, 8 * Len(bytes))

\* Attributes whose range and value are known to disagree in the packages: a
\* mask beyond the range, a range beyond the mask, bytes left out.
Misplaced ==
    {"ipv4.flags", "ipv4.flags.reserved", "ipv4.flags.dontFragment",
     "ipv4.flags.moreFragments", "ipv4.fragmentOffset", "ipv6.flowLabel",
     "ipv6.payloadLength", "tcp.dataOffset", "tcp.flags", "ntp.leapIndicator",
     "ntp.version", "ntp.mode"}

\* An option of another length than its value's.
WrongLength(a) ==
    \/ a.class.id = "tcp.options.mss" /\ a.to - a.from # 16
    \/ a.class.id = "tcp.options.scale" /\ a.to - a.from # 8

\* The value shown for an attribute is made of the bits its range highlights,
\* in the order its cast reads them, at offsets that come from options and
\* lengths in the packet (but for Misplaced attributes and options of a
\* WrongLength).
ValuesAreTheirBits ==
    phase = "done" => \A layer \in Range(layers) : \A a \in Range(Attrs(layer)) :
        LET cast == a.class.cast
            got == AttrTryGet(a, layer)
            at == IF cast.read = "int" /\ cast.little
                  THEN AllBits(Reverse(SubSeq(layer.data, ByteRange(a)[1] + 1,
                                              ByteRange(a)[2])))
                  ELSE BitsOf(layer.data, a.from, a.to)
            v == got.val
        IN  (/\ cast.read \in {"int", "slice"}
             /\ a.class.id \notin Misplaced /\ ~WrongLength(a)
             /\ got.ok) =>
                CASE v[1] = "bool" -> at = <<IF v[2] THEN 1 ELSE 0>>
                  [] v[1] = "uint" -> AllBits(v[2]) = Fill(64 - Len(at), 0) \o at
                  [] v[1] = "int" -> AllBits(v[2]) = Fill(64 - Len(at), at[1]) \o at
                  [] v[1] = "slice" -> AllBits(v[2]) = at
                  [] v[1] = "float" ->
                        \E n \in {16, 32} :
                            AllBits(v[2][1] \o v[2][2]) =
                                Fill(64 - n, 0) \o at \o Fill(32 - n, 0)

\* Whether a packet keeps within the header it announces: the TCP decoder
\* refuses neither a data offset below the 20 bytes its options begin at nor
\* an option that ends behind the header, and takes every timestamp option for
\* one of ten bytes.
HeaderFits(layer) ==
    LET words == AttrTryGet(TcpClass.headers[5], layer).val
    IN  layer.class.id = "tcp" => \A a \in Range(layer.attrs) :
            /\ a.class.id = "tcp.options" => a.to <= 32 * Last(words[2])
            /\ a.class.id = "tcp.options.ts" => a.to - a.from = 80

\* A layer's payload is an end of the layer's bytes, and a layer is made of a
\* payload of its parent (Ethernet of all the bytes of the link layer), however
\* wrong the lengths in the packet are.  A payload begins after every attribute
\* of the layer, options included, if HeaderFits.  (The options of IPv4 are no
\* attributes: the decoder leaves them in the payload.)
PayloadApart ==
    phase = "done" => \A i \in DOMAIN layers :
        /\ \A p \in Range(layers[i].payloads) :
            /\ IsSuffix(p.data, layers[i].data)
            /\ HeaderFits(layers[i]) => \A a \in Range(Attrs(layers[i])) :
                a.to <= 8 * (Len(layers[i].data) - Len(p.data))
        /\ i > 1 =>
            LET parent == layers[parents[i - 1]]
            IN  layers[i].data \in IF parents[i - 1] = 1 THEN {parent.data}
                                   ELSE {p.data : p \in Range(parent.payloads)}

Accepts(filter) == filter.ok /\ Test(filter.val, layers)
FindsItself(a, got) ==
    got.ok /\ FilterValue(layers, a.class.id) = got.val =>
        Accepts(Compile(AttrExpression(a, got.val)))

\* The filter the detail view offers for an attribute finds the frame it was
\* taken from: written, parsed again and evaluated it is true, through
\* addresses, signs, fractions, booleans and hexadecimal bytes, wherever the
\* name in the filter means that attribute.
OwnFrameMatches ==
    phase = "done" => \A layer \in Range(layers) : \A a \in Range(Attrs(layer)) :
        FindsItself(a, AttrTryGet(a, layer))

\* The magnitude of one more.
Successor(bytes) ==
    LET b == <<0>> \o bytes
        last == SelectLastInSeq(b, LAMBDA x : x # 255)
    IN  [i \in DOMAIN b |-> IF i < last THEN b[i] ELSE IF i = last THEN b[i] + 1 ELSE 0]

\* Magnitudes to compare with: below, at and above the value, the last of 63
\* and of 64 bits, and the first beyond.
Magnitudes(v) ==
    {<<>>, <<1>>, v[2], Successor(v[2]), <<127>> \o Fill(7, 255), Fill(8, 255),
     <<1>> \o Fill(8, 0)}

\* The order of two numbers without a sign, from their magnitudes.
Magnitude(a, b) ==
    LET x == Strip(a)
        y == Strip(b)
    IN  IF Len(x) # Len(y) THEN Numbers(Len(x), Len(y)) ELSE Lexicographic(x, y)

Comparison(id, op, m) ==
    <<Primary(<<"member", id>>), op, Primary(<<"integer", m>>)>>
Holding(id, m) ==
    {op \in {"==", "!=", "<", ">", "<=", ">="} :
        Test(Compile(Comparison(id, op, m)).val, layers)}

Beyond63(s) == Len(s) = 8 /\ s[1] > 127
EqualityClaimed(v, s) == ~(v[1] = "int" /\ Beyond63(s))
OrderClaimed(v, s) == \/ v[1] = "slice" /\ Len(s) <= 8
                      \/ v[1] = "uint"
                      \/ v[1] = "int" /\ ~Beyond63(s)
Exact(v, s, order, holding) ==
    /\ EqualityClaimed(v, s) => /\ "==" \in holding <=> order = "equal"
                                /\ "!=" \in holding <=> order # "equal"
    /\ OrderClaimed(v, s) => /\ "<" \in holding <=> order = "less"
                             /\ ">" \in holding <=> order = "greater"
                             /\ "<=" \in holding <=> order # "greater"
                             /\ ">=" \in holding <=> order # "less"

OrderOf(v, m) ==
    IF v[1] = "int" /\ v[2][1] > 127 THEN "less" ELSE Magnitude(v[2], m)
ComparesExactly(id, got) ==
    got.ok /\ got.val[1] \in {"uint", "int", "slice"}
    /\ FilterValue(layers, id) = got.val =>
        \A m \in Magnitudes(got.val) :
            Exact(got.val, Strip(m), OrderOf(got.val, m), Holding(id, m))

\* A comparison in a filter says what it says of numbers, although it casts
\* between types, turns bytes into big integers and parses every literal as
\* one: == and != always; the order of integers and of bytes with a literal
\* of 64 bits, of integers with any literal.  (Bytes and a longer literal are
\* ordered as sequences, and a negative value with a literal beyond 63 bits
\* as if the literal were negative: neither is claimed.)
CompareExact ==
    phase = "done" => \A layer \in Range(layers) : \A a \in Range(Attrs(layer)) :
        ComparesExactly(a.class.id, AttrTryGet(a, layer))
=============================================================================
