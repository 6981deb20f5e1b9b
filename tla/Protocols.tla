------------------------------ MODULE Protocols ------------------------------
(* The decoders of the packages: Ethernet, ARP, IPv4, IPv6, TCP, UDP, NTP.    *)
(* A decoder is a function of the stack and the parent, as its worker keeps   *)
(* no state: it skips, fails, or adds one layer to the parent.                *)
EXTENDS Abi

\* Results of decode() as the dispatcher takes them.
Skipped(parent) == [status |-> "skip", parent |-> parent, children |-> <<>>]
Failed(parent) == [status |-> "error", parent |-> parent, children |-> <<>>]
Done(parent, layer) ==
    [status |-> "done", parent |-> parent, children |-> <<layer>>]

\* try_get(&layer)?.try_into()?, to a number.
NumberOf(res) == IF res.ok THEN Ok(Number(res.val)) ELSE res
IntoNumber(res) == IF res.ok THEN NumberOf(TryInto(res.val, 8)) ELSE res
Read(attr, layer) == IntoNumber(AttrTryGet(attr, layer))

\* try_get(from..)
From(data, from) == TryGet(data, from, Len(data))

\* Attributes without and with a type, and attributes that are there or not.
H(id, cast, from, to) == Attr(AttrClass(id, "", cast), from, to)
T(id, typ, cast, from, to) == Attr(AttrClass(id, typ, cast), from, to)
HB(id, cast, byte, from, to) == BitAttr(AttrClass(id, "", cast), byte, from, to)
Mark(id, typ, from, to) == T(id, typ, Const(Bool(TRUE)), from, to)

SrcDst(src, dst) == <<<<"_.src", src>>, <<"_.dst", dst>>>>

\* The layer of the parent's payload of that id, if there is one.
PayloadLayer(class, parent, id) ==
    LET found == PayloadOf(parent, id)
    IN  IF Found(found) THEN <<NewLayer(class, found[1].data)>> ELSE <<>>

\* Rows of a match on a number: <<number, payload, attribute>>.
Row(table, n) == Find(table, LAMBDA row : row[1] = n)

\* The layer with the attribute and the payload of its next protocol, if known.
WithNext(parent, layer, row, from, to, at) ==
    LET rest == From(layer.data, at)
    IN  IF ~Found(row) THEN Done(parent, layer)
        ELSE IF ~rest.ok THEN Failed(parent)
        ELSE Done(parent, AddPayload(
                 AddAttr(layer, Mark(row[1][3], "@novalue", from, to)),
                 Payload(rest.val, row[1][2], "")))

---------------------------------------------------------------------------
(* Ethernet *)

EthClass ==
    LayerClass("eth", SrcDst("eth.src", "eth.dst"),
               <<T("eth.src", "@eth:mac", Raw, 0, 6),
                 T("eth.dst", "@eth:mac", Raw, 6, 12)>>)
EthLen == H("eth.len", UInt16BE, 12, 14)
EthType == T("eth.type", "@enum", UInt16BE, 12, 14)

EthTypes ==
    <<<<2048, "@data:ipv4", "eth.type.ipv4">>,
      <<2054, "@data:arp", "eth.type.arp">>,
      <<2114, "@data:wol", "eth.type.wol">>,
      <<34525, "@data:ipv6", "eth.type.ipv6">>,
      <<34958, "@data:eap", "eth.type.eap">>>>

Eth(parent) ==
    LET layer == NewLayer(EthClass, parent.data)
        len == Read(EthLen, layer)
    IN  IF parent.class.id # "[link-1]" THEN Skipped(parent)
        ELSE IF ~len.ok THEN Failed(parent)
        ELSE WithNext(parent,
                      AddAttr(layer, IF len.val <= 1500 THEN EthLen ELSE EthType),
                      Row(EthTypes, len.val), 12, 14, 14)

---------------------------------------------------------------------------
(* ARP *)

ArpClass ==
    LayerClass("arp", SrcDst("arp.sha", "arp.tha"),
               <<T("arp.hwtype", "@enum", UInt16BE, 0, 2),
                 T("arp.protocol", "@enum", UInt16BE, 2, 4),
                 H("arp.hlen", UInt8, 4, 5),
                 H("arp.plen", UInt8, 5, 6),
                 T("arp.op", "@enum", UInt16BE, 6, 8)>>)

ArpHw == <<<<1, "@eth:mac", "arp.hwtype.eth">>>>
ArpProto == <<<<2048, "@ipv4:addr", "arp.protocol.ipv4">>,
              <<34525, "@ipv6:addr", "arp.protocol.ipv6">>>>
ArpOp == <<<<1, "", "arp.op.request">>, <<2, "", "arp.op.reply">>>>

AddMark(layer, row, from, to) ==
    IF Found(row) THEN AddAttr(layer, Mark(row[1][3], "@novalue", from, to))
                  ELSE layer

\* The four addresses, one after the other, of the lengths the header gives.
ArpAddresses(layer, hw, proto, hlen, plen) ==
    IF ~Found(hw) \/ ~Found(proto) THEN layer
    ELSE LET at2 == 8 + hlen
             at3 == at2 + plen
             at4 == at3 + hlen
         IN  FoldLeft(AddAttr, layer,
                 <<T("arp.sha", hw[1][2], Raw, 8, at2),
                   T("arp.spa", proto[1][2], Raw, at2, at3),
                   T("arp.tha", hw[1][2], Raw, at3, at4),
                   T("arp.tpa", proto[1][2], Raw, at4, at4 + plen)>>)

Arp(parent) ==
    LET found == PayloadLayer(ArpClass, parent, "@data:arp")
        F == [i \in 1..5 |-> Read(ArpClass.headers[i], found[1])]
        hw == Row(ArpHw, F[1].val)
        proto == Row(ArpProto, F[2].val)
        op == Row(ArpOp, F[5].val)
        marked == AddMark(AddMark(AddMark(found[1], hw, 0, 2), proto, 2, 4), op, 6, 8)
    IN  IF ~Found(found) THEN Skipped(parent)
        ELSE IF \E i \in 1..5 : ~F[i].ok THEN Failed(parent)
        ELSE Done(parent, ArpAddresses(marked, hw, proto, F[3].val, F[4].val))

---------------------------------------------------------------------------
(* IPv4 and IPv6: the payload is taken from behind 20 and 40 bytes, and       *)
(* extension headers are not followed.                                        *)

IPv4Class ==
    LayerClass("ipv4", SrcDst("ipv4.src", "ipv4.dst"),
               <<HB("ipv4.version", Field(UInt8, 4, 4), 0, 0, 4),
                 HB("ipv4.headerLength", Field(UInt8, 0, 4), 0, 4, 8),
                 H("ipv4.tos", UInt8, 1, 2),
                 H("ipv4.totalLength", UInt16BE, 2, 4),
                 H("ipv4.id", UInt16BE, 4, 6),
                 BitAttr(AttrClass("ipv4.flags", "@flags", Field(UInt8, 5, 3)),
                         6, 0, 1),
                 HB("ipv4.flags.reserved", Flag(UInt8, 7), 6, 1, 2),
                 HB("ipv4.flags.dontFragment", Flag(UInt8, 6), 6, 2, 3),
                 HB("ipv4.flags.moreFragments", Flag(UInt8, 5), 6, 3, 4),
                 HB("ipv4.fragmentOffset", Field(UInt16BE, 0, 13), 6, 4, 16),
                 H("ipv4.ttl", UInt8, 8, 9),
                 T("ipv4.protocol", "@enum", UInt8, 9, 10),
                 H("ipv4.checksum", UInt16BE, 10, 12),
                 T("ipv4.src", "@ipv4:addr", Raw, 12, 16),
                 T("ipv4.dst", "@ipv4:addr", Raw, 16, 20)>>)

IPv4Protos ==
    <<<<1, "@data:icmp", "ipv4.protocol.icmp">>,
      <<2, "@data:igmp", "ipv4.protocol.igmp">>,
      <<6, "@data:tcp", "ipv4.protocol.tcp">>,
      <<17, "@data:udp", "ipv4.protocol.udp">>>>

IPv4(parent) ==
    LET found == PayloadLayer(IPv4Class, parent, "@data:ipv4")
        proto == Read(IPv4Class.headers[12], found[1])
    IN  IF ~Found(found) THEN Skipped(parent)
        ELSE IF ~proto.ok THEN Failed(parent)
        ELSE WithNext(parent, found[1], Row(IPv4Protos, proto.val), 9, 10, 20)

IPv6Class ==
    LayerClass("ipv6", SrcDst("ipv6.src", "ipv6.dst"),
               <<HB("ipv6.version", Field(UInt8, 4, 4), 0, 0, 4),
                 HB("ipv6.trafficClass", Field(UInt16BE, 4, 8), 0, 4, 12),
                 HB("ipv6.flowLabel", FlowLabel, 1, 4, 24),
                 H("ipv6.payloadLength", UInt8, 4, 6),
                 H("ipv6.nextHeader", UInt8, 6, 7),
                 H("ipv6.hopLimit", UInt8, 7, 8),
                 T("ipv6.src", "@ipv6:addr", Raw, 8, 24),
                 T("ipv6.dst", "@ipv6:addr", Raw, 24, 40)>>)
IPv6Protocol == T("ipv6.protocol", "@enum", UInt8, 6, 7)

IPv6Protos ==
    <<<<2, "@data:igmp", "ipv6.protocol.igmp">>,
      <<6, "@data:tcp", "ipv6.protocol.tcp">>,
      <<17, "@data:udp", "ipv6.protocol.udp">>,
      <<58, "@data:icmp", "ipv6.protocol.icmp">>>>

IPv6(parent) ==
    LET found == PayloadLayer(IPv6Class, parent, "@data:ipv6")
        proto == Read(IPv6Protocol, found[1])
    IN  IF ~Found(found) THEN Skipped(parent)
        ELSE IF ~proto.ok THEN Failed(parent)
        ELSE WithNext(parent, AddAttr(found[1], IPv6Protocol),
                      Row(IPv6Protos, proto.val), 6, 7, 40)

---------------------------------------------------------------------------
(* TCP *)

FlagBits(id, byte, from) ==
    HB("tcp.flags." \o id, Flag(UInt8, 7 - (from % 8)), byte, from, from + 1)

TcpClass ==
    LayerClass("tcp", <<>>,
               <<T("tcp.src", "@tcp:port", UInt16BE, 0, 2),
                 T("tcp.dst", "@tcp:port", UInt16BE, 2, 4),
                 H("tcp.seq", UInt32BE, 4, 8),
                 H("tcp.ack", UInt32BE, 8, 12),
                 H("tcp.dataOffset", Field(UInt8, 4, 4), 12, 13),
                 BitAttr(AttrClass("tcp.flags", "@flags", Field(UInt16BE, 0, 12)),
                         12, 7, 16),
                 FlagBits("ns", 12, 7), FlagBits("cwr", 13, 0),
                 FlagBits("ece", 13, 1), FlagBits("urg", 13, 2),
                 FlagBits("ack", 13, 3), FlagBits("psh", 13, 4),
                 FlagBits("rst", 13, 5), FlagBits("syn", 13, 6),
                 FlagBits("fin", 13, 7),
                 H("tcp.window", UInt16BE, 14, 16),
                 H("tcp.checksum", UInt16BE, 16, 18),
                 H("tcp.urgent", UInt16BE, 18, 20)>>)

\* Mutant of TcpOption: the echoed timestamp starts one byte early.
TcpOptionShifted(typ, at, len) ==
    CASE typ = 2 -> <<H("tcp.options.mss", UInt16BE, at + 2, at + len)>>
      [] typ = 8 -> <<H("tcp.options.ts.echo", UInt32BE, at + 5, at + 10)>>
      [] OTHER -> <<>>

\* The attributes of one option longer than a byte.
TcpOption(typ, at, len) ==
    CASE typ = 2 -> <<H("tcp.options.mss", UInt16BE, at + 2, at + len)>>
      [] typ = 3 -> <<H("tcp.options.scale", UInt8, at + 2, at + len)>>
      [] typ = 4 -> <<Mark("tcp.options.selectiveAckPermitted", "@novalue",
                           at, at + len)>>
      [] typ = 5 -> <<H("tcp.options.selectiveAck", Raw, at + 2, at + len)>>
      [] typ = 8 -> <<Mark("tcp.options.ts", "@nested", at, at + len),
                      H("tcp.options.ts.my", UInt32BE, at + 2, at + 6),
                      H("tcp.options.ts.echo", UInt32BE, at + 6, at + 10)>>
      [] OTHER -> <<>>

\* The loop over the options.  It has no value for an option of length 0,
\* as the loop does not end.
RECURSIVE TcpOptions(_, _, _)
TcpOptions(layer, at, end) ==
    LET typ == TryGetByte(layer.data, at)
        len == TryGetByte(layer.data, at + 1)
        nop == Mark("tcp.options.nop", "@novalue", at, at + 1)
    IN  IF at >= end
        THEN Ok(AddAttr(layer, Mark("tcp.options", "@nested", 20, at)))
        ELSE IF ~typ.ok THEN typ
        ELSE IF typ.val <= 1
        THEN TcpOptions(AddAttrIf(layer, typ.val = 1, nop), at + 1, end)
        ELSE IF ~len.ok THEN len
        ELSE TcpOptions(FoldLeft(AddAttr, layer,
                                 TcpOption(typ.val, at, len.val)),
                        at + len.val, end)

\* Mutant of Tcp: the payload starts behind 20 bytes, options or not.
TcpFixed(parent) ==
    LET found == PayloadLayer(TcpClass, parent, "@data:tcp")
        words == Read(TcpClass.headers[5], found[1])
        full == TcpOptions(found[1], 20, 4 * words.val)
        rest == From(found[1].data, 20)
    IN  IF ~Found(found) THEN Skipped(parent)
        ELSE IF ~words.ok \/ ~full.ok \/ ~rest.ok THEN Failed(parent)
        ELSE Done(parent, AddPayload(full.val, Payload(rest.val, "@data:tcp", "")))

Tcp(parent) ==
    LET found == PayloadLayer(TcpClass, parent, "@data:tcp")
        words == Read(TcpClass.headers[5], found[1])
        full == TcpOptions(found[1], 20, 4 * words.val)
        rest == From(found[1].data, 4 * words.val)
    IN  IF ~Found(found) THEN Skipped(parent)
        ELSE IF ~words.ok \/ ~full.ok \/ ~rest.ok THEN Failed(parent)
        ELSE Done(parent, AddPayload(full.val, Payload(rest.val, "@data:tcp", "")))

---------------------------------------------------------------------------
(* UDP *)

UdpClass ==
    LayerClass("udp", SrcDst("udp.src", "udp.dst"),
               <<T("udp.src", "@udp:port", UInt16BE, 0, 2),
                 T("udp.dst", "@udp:port", UInt16BE, 2, 4),
                 H("udp.length", UInt16BE, 4, 6),
                 H("udp.checksum", UInt16BE, 6, 8)>>)

Udp(parent) ==
    LET found == PayloadLayer(UdpClass, parent, "@data:udp")
        rest == From(found[1].data, 8)
    IN  IF ~Found(found) THEN Skipped(parent)
        ELSE IF ~rest.ok THEN Failed(parent)
        ELSE Done(parent, AddPayload(found[1], Payload(rest.val, "", "")))

---------------------------------------------------------------------------
(* NTP *)

\* A fixed point number and its two halves.
Halves(id, typ, cast, half, at, width) ==
    <<T(id, typ, FixedPoint(cast), at, at + width),
      H(id \o ".seconds", half, at, at + width \div 2),
      H(id \o ".fraction", half, at + width \div 2, at + width)>>
Short(id, at) == Halves(id, "", UInt32BE, UInt16BE, at, 4)
Long(id, at) == Halves(id, "@ntp:time", UInt64BE, UInt32BE, at, 8)

NtpClass ==
    LayerClass("ntp", <<>>,
               <<T("ntp.leapIndicator", "@enum", Field(UInt8, 6, 2), 0, 1),
                 H("ntp.version", Field(UInt8, 3, 3), 0, 1),
                 T("ntp.mode", "@enum", Field(UInt8, 0, 3), 0, 1),
                 H("ntp.stratum", UInt8, 1, 2),
                 H("ntp.pollInterval", UInt8, 2, 3),
                 H("ntp.precision", UInt8, 3, 4)>>
               \o Short("ntp.rootDelay", 4) \o Short("ntp.rootDispersion", 8)
               \o Long("ntp.referenceTs", 16) \o Long("ntp.originateTs", 24)
               \o Long("ntp.receiveTs", 32) \o Long("ntp.transmitTs", 40))

NtpLeap == <<"noWarning", "sec61", "sec59", "unknown">>
NtpMode == <<"reserved", "symmetricActive", "symmetricPassive", "client",
             "server", "broadcast", "controlMessage", "reservedForPrivate">>

Ntp(stack, parent) ==
    LET port(id) == Read(StackAttr(stack, id)[1], parent)
        layer == NewLayer(NtpClass, parent.payloads[1].data)
        F(i) == Read(NtpClass.headers[i], layer)
        leap == "ntp.leapIndicator." \o NtpLeap[F(1).val + 1]
        mode == "ntp.mode." \o NtpMode[F(3).val + 1]
        typ == IF F(4).val >= 2 THEN "@ipv4:addr" ELSE ""
    IN  IF parent.class.id # "udp" \/ parent.payloads = <<>>
        THEN Skipped(parent)
        ELSE IF ~port("udp.src").ok \/ ~port("udp.dst").ok THEN Failed(parent)
        ELSE IF 123 \notin {port("udp.src").val, port("udp.dst").val}
        THEN Skipped(parent)
        ELSE IF \E i \in {1, 3, 4} : ~F(i).ok THEN Failed(parent)
        ELSE Done(parent, FoldLeft(AddAttr, layer,
                 <<Mark(leap, "@novalue", 0, 1), Mark(mode, "@novalue", 0, 1),
                   T("ntp.identifier", typ, Raw, 12, 16)>>))
=============================================================================
