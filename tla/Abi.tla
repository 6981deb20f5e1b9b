--------------------------------- MODULE Abi ---------------------------------
(* The values plug-ins and the kernel exchange (genet-abi, genet-sdk):        *)
(* slices, variants, attributes with their casts, layers.  Pure definitions.  *)
(* A byte is a number below 256, a slice a sequence of bytes, a token its     *)
(* string, an integer of 64 bits its eight bytes, most significant first, so  *)
(* that a cast between u64 and i64 leaves it as it is.                        *)
EXTENDS Integers, SequencesExt

Byte == 0..255

\* Rust's Result.
Ok(val) == [ok |-> TRUE, val |-> val]
Err(err) == [ok |-> FALSE, err |-> err]

---------------------------------------------------------------------------
(* slice.rs *)

\* Mutant of TryGet: a range beyond the end gives what there is.
TryGetShort(data, from, to) ==
    Ok(SubSeq(data, from + 1, IF to < Len(data) THEN to ELSE Len(data)))

TryGet(data, from, to) ==
    IF from <= to /\ to <= Len(data) THEN Ok(SubSeq(data, from + 1, to))
                                     ELSE Err("out of bounds")

TryGetByte(data, i) ==
    IF i < Len(data) THEN Ok(data[i + 1]) ELSE Err("out of bounds")

---------------------------------------------------------------------------
(* Integers.  Values are variants <<type, value>>. *)

Fill(n, b) == [i \in 1..n |-> b]

\* The eight bytes of a number or of fewer bytes.
WordOf(bytes, sign) == Fill(8 - Len(bytes), sign) \o bytes
Word(n) == WordOf(<<n \div 16777216, (n \div 65536) % 256,
                    (n \div 256) % 256, n % 256>>, 0)

\* The number in bytes, most significant first (below 2^31).
Number(bytes) ==
    LET upTo[n \in 0..Len(bytes)] == IF n = 0 THEN 0 ELSE 256 * upTo[n - 1] + bytes[n]
    IN  upTo[Len(bytes)]

Nil == <<"nil", 0>>
Bool(b) == <<"bool", b>>
UInt64(word) == <<"uint", word>>
Int64(word) == <<"int", word>>
Slice(bytes) == <<"slice", bytes>>

\* variant.rs, Value: conversions of a variant to an unsigned integer of n
\* bytes, as its last n bytes.  Signed integers keep their bits.
TryInto(var, n) ==
    CASE var[1] = "nil" -> Ok(Fill(n, 0))
      [] var[1] = "bool" -> Ok(Fill(n - 1, 0) \o <<IF var[2] THEN 1 ELSE 0>>)
      [] var[1] \in {"int", "uint"} -> Ok(SubSeq(var[2], 9 - n, 8))
      [] var[1] = "float" -> Ok(SubSeq(var[2][1], 9 - n, 8))
      [] OTHER -> Err("wrong type")

\* variant.rs, Into<Variant>: integers are widened, keeping their sign.
IntoVariant(bytes, signed) ==
    IF signed THEN Int64(WordOf(bytes, IF bytes[1] > 127 THEN 255 ELSE 0))
              ELSE UInt64(WordOf(bytes, 0))

---------------------------------------------------------------------------
(* Casts.  A cast is a record: how many bytes it reads, in which order, and   *)
(* what the closure given to map() makes of them.                             *)

IntCast(width, little, signed) ==
    [read |-> "int", width |-> width, little |-> little, signed |-> signed,
     map |-> "none"]

UInt8 == IntCast(1, FALSE, FALSE)
UInt16BE == IntCast(2, FALSE, FALSE)
UInt32BE == IntCast(4, FALSE, FALSE)
UInt64BE == IntCast(8, FALSE, FALSE)
Raw == [read |-> "slice", map |-> "none"]
Const(v) == [read |-> "const", value |-> v]
NoCast == [read |-> "none"]

\* map(|v| (v >> shr) & mask) with a mask of so many low bits, and
\* map(|v| v & (1 << bit) != 0).
Field(cast, shr, bits) == [cast EXCEPT !.map = <<"field", shr, bits>>]
Flag(cast, bit) == [cast EXCEPT !.map = <<"flag", bit>>]
\* map(|v| (v >> h) as f64 + (v & low) as f64 / 2^h): fixed point, halves of
\* equal size.
FixedPoint(cast) == [cast EXCEPT !.map = "fixed"]
FlowLabel == [Raw EXCEPT !.map = "flow"]

Bits(n, shr, bits) == (n \div 2^shr) % 2^bits

\* What map() makes of the bytes read, big endian, as a variant.
Mapped(cast, bytes) ==
    CASE cast.map = "none" ->
            IF cast.read = "slice" THEN Slice(bytes)
                                   ELSE IntoVariant(bytes, cast.signed)
      [] cast.map = "fixed" ->
            LET h == Len(bytes) \div 2
            IN  <<"float", <<WordOf(SubSeq(bytes, 1, h), 0),
                             SubSeq(bytes, h + 1, 2 * h) \o Fill(4 - h, 0)>>>>
      [] cast.map = "flow" ->
            UInt64(Word(65536 * Bits(bytes[3], 0, 4) + 256 * bytes[2] + bytes[3]))
      [] cast.map[1] = "field" ->
            UInt64(Word(Bits(Number(bytes), cast.map[2], cast.map[3])))
      [] cast.map[1] = "flag" -> Bool(Bits(Number(bytes), cast.map[2], 1) = 1)

\* A cursor over the attribute's bytes: too few of them are an error.
CursorRead(cast, bytes) ==
    IF Len(bytes) < cast.width THEN Err("failed to fill whole buffer")
    ELSE Ok(Mapped(cast, IF cast.little THEN Reverse(SubSeq(bytes, 1, cast.width))
                                        ELSE SubSeq(bytes, 1, cast.width)))

\* Cast::cast: the bytes of the attribute's range, read and mapped.
CastBytes(cast, got) ==
    IF ~got.ok THEN got
    ELSE IF cast.read = "slice" THEN Ok(Mapped(cast, got.val))
    ELSE CursorRead(cast, got.val)
Cast(cast, range, data) ==
    IF cast.read = "const" THEN Ok(cast.value)
    ELSE CastBytes(cast, TryGet(data, range[1], range[2]))

---------------------------------------------------------------------------
(* attr.rs.  Ranges of attributes are in bits. *)

AttrClass(id, typ, cast) == [id |-> id, typ |-> typ, cast |-> cast]

Attr(class, from, to) ==
    [class |-> class, from |-> 8 * from, to |-> 8 * to, value |-> <<>>]
BitAttr(class, byte, from, to) ==
    [class |-> class, from |-> from + 8 * byte, to |-> to + 8 * byte,
     value |-> <<>>]
ValueAttr(class, val) ==
    [class |-> class, from |-> 0, to |-> 0, value |-> <<val>>]

IsValue(attr) == attr.class.cast = NoCast
ByteRange(attr) == <<attr.from \div 8, (attr.to + 7) \div 8>>

\* abi_get: a cast comes before a value.
AbiGet(attr, data) ==
    IF ~IsValue(attr) THEN Cast(attr.class.cast, ByteRange(attr), data)
    ELSE IF attr.value # <<>> THEN Ok(attr.value[1])
    ELSE Err("no value")

\* AttrClass::try_get: types without a ValueType come back as nil.
FromFfi(got) == IF got.ok /\ got.val[1] = "bigint" THEN Ok(Nil) ELSE got
AttrTryGet(attr, layer) == FromFfi(AbiGet(attr, layer.data))

---------------------------------------------------------------------------
(* layer.rs *)

LayerClass(id, aliases, headers) ==
    [id |-> id, aliases |-> aliases, headers |-> headers]

NewLayer(class, data) ==
    [class |-> class, data |-> data, attrs |-> <<>>, payloads |-> <<>>]

AddAttr(layer, attr) == [layer EXCEPT !.attrs = Append(@, attr)]
AddAttrIf(layer, cond, attr) == IF cond THEN AddAttr(layer, attr) ELSE layer

Payload(data, id, typ) == [data |-> data, id |-> id, typ |-> typ]
AddPayload(layer, payload) == [layer EXCEPT !.payloads = Append(@, payload)]

\* Iterator::find on a sequence: the first element of that kind, or none.
Find(seq, P(_)) ==
    LET found == {i \in DOMAIN seq : P(seq[i])}
    IN  IF found = {} THEN <<>>
        ELSE <<seq[CHOOSE i \in found : \A j \in found : i <= j]>>
Found(res) == res # <<>>

PayloadOf(layer, id) == Find(layer.payloads, LAMBDA p : p.id = id)

\* Layer::attr: an alias is replaced by its target, and attributes that were
\* added come before the headers of the class.
LayerAttr(layer, id) ==
    LET alias == Find(layer.class.aliases, LAMBDA a : a[1] = id)
        target == IF Found(alias) THEN alias[1][2] ELSE id
    IN  Find(layer.attrs \o layer.class.headers, LAMBDA a : a.class.id = target)

\* LayerStack::attr and Frame::attr: from the last layer down.
StackAttr(layers, id) ==
    LET found == Find(Reverse(layers), LAMBDA l : Found(LayerAttr(l, id)))
    IN  IF Found(found) THEN LayerAttr(found[1], id) ELSE <<>>
=============================================================================
