---------------------------- MODULE DisplayFilter ----------------------------
(* genet-filter: display filters.  A source text is the sequence of its       *)
(* lexemes; the characters of names, numbers and addresses are abstracted.    *)
(*   expression: <<primary, op, primary, ..., primary>>                       *)
(*   primary:    [unary |-> <<"!", "-", "+", ...>>, operand |-> operand]      *)
(*   operand:    <<"paren", expression>>, <<"member", id>>, <<"nil", 0>>,     *)
(*               <<"integer", bytes>> (the magnitude), <<"float", value>>,    *)
(*               <<"boolean", b>>, <<"string", s>>, <<"macro", bytes>>        *)
(* Floats are not negative here, and exact; no float or BigInt is negated.    *)
EXTENDS Abi

CONSTANT NotIdentifiers    \* names the grammar does not read as a member:
                           \* they begin with neither a letter nor "_"

---------------------------------------------------------------------------
(* variant.rs *)

\* BigInt: two's complement, big endian, of the least length.
Strip(bytes) ==
    LET at == SelectInSeq(bytes, LAMBDA b : b # 0)
    IN  IF at = 0 THEN <<>> ELSE SubSeq(bytes, at, Len(bytes))
\* Mutant of SignedBytes: no zero before a first bit that is set.
SignedBytesBare(magnitude) ==
    IF Strip(magnitude) = <<>> THEN <<0>> ELSE Strip(magnitude)

SignedBytes(magnitude) ==
    LET s == Strip(magnitude)
    IN  IF s = <<>> THEN <<0>> ELSE IF s[1] > 127 THEN <<0>> \o s ELSE s
BigInt(bytes) == <<"bigint", bytes>>

\* Mutant of Shrink: only integers of fewer than eight bytes are shrunk.
ShrinkShort(bytes) ==
    LET s == Strip(bytes)
    IN  IF Len(s) < 8 THEN UInt64(WordOf(s, 0)) ELSE BigInt(bytes)

\* shrink(): to_u64, then to_i64; BigInts here come from magnitudes.
Shrink(bytes) ==
    LET s == Strip(bytes)
    IN  IF Len(s) <= 8 THEN UInt64(WordOf(s, 0)) ELSE BigInt(bytes)

IsTruthy(v) == v[1] # "nil" /\ v # Bool(FALSE)

Numbers(m, n) == IF m < n THEN "less" ELSE IF m > n THEN "greater" ELSE "equal"

\* Orders of byte sequences: lexicographic, as Rust orders them ...
Lexicographic(a, b) ==
    LET n == IF Len(a) < Len(b) THEN Len(a) ELSE Len(b)
        at == SelectInSeq([i \in 1..n |-> a[i] # b[i]], LAMBDA d : d)
    IN  IF at = 0 THEN Numbers(Len(a), Len(b)) ELSE Numbers(a[at], b[at])

\* ... and as two's complement numbers of any lengths.
Extend(bytes, n) ==
    LET all == Fill(n - Len(bytes), IF bytes[1] > 127 THEN 255 ELSE 0) \o bytes
    IN  [all EXCEPT ![1] = (@ + 128) % 256]
Numeric(a, b) ==
    LET n == IF Len(a) < Len(b) THEN Len(b) ELSE Len(a)
    IN  Lexicographic(Extend(a, n), Extend(b, n))

\* The two's complement bytes of an integer of any type.
Whole(v) == IF v[1] = "uint" THEN <<0>> \o v[2] ELSE v[2]
FloatBytes(v) == IF v[1] = "float" THEN v[2][1] \o v[2][2]
                                   ELSE v[2] \o Fill(4, 0)

\* ord(): bytes are numbers without a sign; a comparison of two types casts
\* the right side to the type of the left, where an i64 and a u64 keep their
\* bits and a float loses its fraction; two BigInts are ordered as bytes.
Ord(l, r) ==
    LET Promote(v) == IF v[1] \in {"slice", "buffer"}
                      THEN BigInt(SignedBytes(v[2])) ELSE v
        a == Promote(l)
        b == Promote(r)
        Trunc(v) == IF v[1] = "float" THEN <<0>> \o v[2][1] ELSE Whole(v)
        types == <<a[1], b[1]>>
        ints == {"int", "uint"}
    IN  CASE types = <<"bigint", "bigint">> -> Lexicographic(a[2], b[2])
          [] a[1] = "bigint" /\ b[1] \in ints \union {"float"} ->
                Numeric(a[2], Trunc(b))
          [] b[1] = "bigint" /\ a[1] \in ints \union {"float"} ->
                Numeric(Trunc(a), b[2])
          [] a[1] = "uint" /\ b[1] \in ints -> Lexicographic(a[2], b[2])
          [] a[1] = "int" /\ b[1] \in ints -> Numeric(a[2], b[2])
          [] a[1] \in ints /\ b[1] = "float" -> Numeric(Whole(a), Trunc(b))
          [] a[1] = "float" /\ b[1] \in {"uint", "float"} ->
                Lexicographic(FloatBytes(a), FloatBytes(b))
          [] a[1] = "float" /\ b[1] = "int" ->
                Numeric(<<0>> \o FloatBytes(a), FloatBytes(b))
          [] types = <<"string", "string">> ->
                IF a[2] = b[2] THEN "equal" ELSE "unordered"
          [] OTHER -> "none"

OpEq(l, r) == l = r \/ Ord(l, r) = "equal"

---------------------------------------------------------------------------
(* ast.rs.  An expression is <<operator, operands ...>>. *)

\* The value of a name: the layers from the last; a layer's own id is true,
\* an attribute that cannot be read leaves the name to the layers before.
FilterValue(layers, id) ==
    LET attr(l) == Find(l.class.headers \o l.attrs, LAMBDA a : a.class.id = id)
        value(l) == IF l.class.id = id THEN Ok(Bool(TRUE))
                    ELSE IF Found(attr(l)) THEN AttrTryGet(attr(l)[1], l)
                    ELSE Err("not in this layer")
        found == Find(Reverse(layers), LAMBDA l : value(l).ok)
    IN  IF Found(found) THEN value(found[1]).val ELSE Nil

\* -v: an unsigned integer becomes signed, negated in 64 bits.
Negated(word) ==
    LET last == SelectLastInSeq(word, LAMBDA b : b # 0)
    IN  [i \in 1..8 |-> IF i > last THEN 0
                        ELSE IF i = last THEN 256 - word[i] ELSE 255 - word[i]]

RECURSIVE Eval(_, _)
Eval(e, layers) ==
    LET V(i) == Eval(e[i + 1], layers)
    IN  CASE e[1] = "literal" -> e[2]
          [] e[1] = "token" -> FilterValue(layers, e[2])
          [] e[1] = "==" -> Bool(OpEq(V(1), V(2)))
          [] e[1] = "!=" -> Bool(~OpEq(V(1), V(2)))
          [] e[1] = "<" -> Bool(Ord(V(1), V(2)) = "less")
          [] e[1] = ">" -> Bool(Ord(V(1), V(2)) = "greater")
          [] e[1] = "<=" -> Bool(Ord(V(1), V(2)) \in {"less", "equal"})
          [] e[1] = ">=" -> Bool(Ord(V(1), V(2)) \in {"greater", "equal"})
          [] e[1] = "&&" -> Bool(IsTruthy(V(1)) /\ IsTruthy(V(2)))
          [] e[1] = "||" -> Bool(IsTruthy(V(1)) \/ IsTruthy(V(2)))
          [] e[1] = "!" -> Bool(~IsTruthy(V(1)))
          [] e[1] = "+" -> IF V(1)[1] \in {"int", "uint", "float", "bigint"}
                           THEN V(1) ELSE Int64(Word(0))
          [] e[1] = "-" -> CASE V(1)[1] \in {"int", "uint"} ->
                                    Int64(Negated(V(1)[2]))
                             [] V(1)[1] \notin {"float", "bigint"} ->
                                    Int64(Word(0))

---------------------------------------------------------------------------
(* parser.rs *)

\* The levels of PrecClimber, the first the lowest: comparisons bind less
\* than equalities, these less than &&, and || binds most.
Prec(op) == CASE op \in {"<", "<=", ">", ">="} -> 1
              [] op \in {"==", "!="} -> 2
              [] op = "&&" -> 3
              [] op = "||" -> 4

\* consume_expr() and consume_primary(): all operators group to the left, so
\* the last one of the lowest level is at the root.
RECURSIVE Parse(_), Lexable(_)
Parse(text) ==
    LET ops == {i \in 1..Len(text) : i % 2 = 0}
        lowest == {i \in ops : \A j \in ops : Prec(text[i]) <= Prec(text[j])}
        root == CHOOSE i \in lowest : \A j \in lowest : j <= i
        x == text[1].operand
        operand == CASE x[1] = "paren" -> Parse(x[2])
                     [] x[1] = "member" -> <<"token", x[2]>>
                     [] x[1] = "integer" ->
                            <<"literal", Shrink(SignedBytes(x[2]))>>
                     [] x[1] = "macro" -> <<"literal", <<"buffer", x[2]>>>>
                     [] x[1] = "nil" -> <<"literal", Nil>>
                     [] x[1] = "boolean" -> <<"literal", Bool(x[2])>>
                     [] x[1] \in {"float", "string"} -> <<"literal", x>>
    IN  IF ops # {}
        THEN <<text[root], Parse(SubSeq(text, 1, root - 1)),
               Parse(SubSeq(text, root + 1, Len(text)))>>
        ELSE FoldRight(LAMBDA op, e : <<op, e>>, text[1].unary, operand)

Lexable(text) ==
    \A i \in 1..Len(text) : i % 2 = 1 =>
        LET x == text[i].operand
        IN  /\ x[1] = "paren" => Lexable(x[2])
            /\ x[1] = "member" => x[2] \notin NotIdentifiers

\* Filter::compile and Filter::test.
Compile(text) == IF Lexable(text) THEN Ok(Parse(text)) ELSE Err("syntax")
Test(expr, layers) == IsTruthy(Eval(expr, layers))

---------------------------------------------------------------------------
(* unparser.rs, and the filter binding/attr.rs shows for an attribute *)

Primary(operand) == [unary |-> <<>>, operand |-> operand]

\* Variant::to_string, as a lexeme: bytes are a hexadecimal integer, a float
\* without a fraction is an integer.
Text(v) ==
    CASE v[1] = "nil" -> Primary(<<"nil", 0>>)
      [] v[1] = "bool" -> Primary(<<"boolean", v[2]>>)
      [] v[1] = "uint" -> Primary(<<"integer", v[2]>>)
      [] v[1] = "int" ->
            IF v[2][1] > 127
            THEN [unary |-> <<"-">>, operand |-> <<"integer", Negated(v[2])>>]
            ELSE Primary(<<"integer", v[2]>>)
      [] v[1] = "float" ->
            IF v[2][2] = Fill(4, 0) THEN Primary(<<"integer", v[2][1]>>)
                                    ELSE Primary(v)
      [] v[1] = "string" -> Primary(v)
      [] v[1] \in {"slice", "buffer", "bigint"} -> Primary(<<"integer", v[2]>>)

\* unparse_attr: an address of its type's length is written as a macro.
AttrText(typ, v) ==
    IF v[1] = "slice" /\ <<typ, Len(v[2])>> \in
          {<<"@ipv4:addr", 4>>, <<"@ipv6:addr", 16>>, <<"@eth:mac", 6>>}
    THEN Primary(<<"macro", v[2]>>) ELSE Text(v)

\* unparse(id == value): a comparison with a boolean is the name itself.
AttrExpression(attr, v) ==
    LET id == Primary(<<"member", attr.class.id>>)
    IN  CASE v = Bool(TRUE) -> <<id>>
          [] v = Bool(FALSE) -> <<[id EXCEPT !.unary = <<"!">>]>>
          [] OTHER -> <<id, "==", AttrText(attr.class.typ, v)>>
=============================================================================
