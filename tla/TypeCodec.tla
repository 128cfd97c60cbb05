----------------------------- MODULE TypeCodec -----------------------------
(***************************************************************************)
(* PardosaType and PardosaSchema: what the hand-written implementations in *)
(* schema.rs and floats.rs, and the implementations the derive macros      *)
(* generate, do with a declared type.  A declaration is a record: a kind   *)
(* of Descriptor, "EventF32" or "EventF64", or a struct or enum with       *)
(* fields [name, ty].  The value of a struct is the sequence of its        *)
(* fields; of an enum, the index of its variant and the fields; of an      *)
(* Option, <<>> or <<v>>; of a float, its bits.                            *)
(***************************************************************************)
EXTENDS Descriptor

DeclStruct(name, style, fields) ==
    [k |-> "Struct", name |-> name, style |-> style, fields |-> fields]
DeclVariant(d, name, style, fields) ==
    [discriminant |-> d, name |-> name, style |-> style, fields |-> fields]
DeclEnum(name, variants) == [k |-> "Enum", name |-> name, variants |-> variants]
DeclField(name, ty) == [name |-> name, ty |-> ty]

Underscore == 9

MaxOf(S) == CHOOSE m \in S : \A n \in S : n <= m
-----------------------------------------------------------------------------
(* Bits of a float, least significant byte first.  The last byte carries the
   sign, a two-bit exponent and two bits of the mantissa; the bytes before it
   are mantissa (IEEE 754 with a narrow exponent). *)
Sign(f) == f[Len(f)] \div 16
Exponent(f) == (f[Len(f)] \div 4) % 4
MantissaIsZero(f) == f[Len(f)] % 4 = 0 /\ \A i \in 1 .. Len(f) - 1 : f[i] = 0
IsZero(f) == Exponent(f) = 0 /\ MantissaIsZero(f)
IsNaN(f) == Exponent(f) = 3 /\ ~MantissaIsZero(f)
IsInfinite(f) == Exponent(f) = 3 /\ MantissaIsZero(f)
IsSubnormal(f) == Exponent(f) = 0 /\ ~MantissaIsZero(f)

(* OrderedF32::try_from and OrderedF64::try_from. *)
OrderedFrom(f) ==
    IF IsNaN(f) \/ IsInfinite(f) \/ IsSubnormal(f) THEN Err("NotReal")
    ELSE Ok(IF IsZero(f) THEN Zeros(Len(f)) ELSE f, Len(f))

(* OrderedF32::cmp and eq: total_cmp, which orders by the bits, so the two
   zeros would differ; hash takes the bits. *)
Magnitude(f) == [i \in 1 .. Len(f) |-> IF i = 1 THEN f[Len(f)] % 16 ELSE f[Len(f) + 1 - i]]
Before(a, b) ==
    \E i \in 1 .. Len(a) : a[i] < b[i] /\ \A j \in 1 .. i - 1 : a[j] = b[j]
TotalLess(f, g) ==
    IF Sign(f) # Sign(g) THEN Sign(f) = 1
    ELSE IF Sign(f) = 0 THEN Before(Magnitude(f), Magnitude(g))
    ELSE Before(Magnitude(g), Magnitude(f))
OrderedEq(f, g) == ~TotalLess(f, g) /\ ~TotalLess(g, f)

DecodeOrdered(buf, w) == IF Len(buf) < w THEN Truncated ELSE OrderedFrom(At(buf, 0, w))

FloatWidth(k) == IF k \in {"OrderedF32", "EventF32"} THEN 4 ELSE 8

(* EventF32::from_f32 and EventF64::from_f64: the classification. *)
EventFloatFrom(f) ==
    IF IsNaN(f) THEN Ok(<<0>>, Len(f))
    ELSE IF IsInfinite(f) THEN Ok(IF Sign(f) = 1 THEN <<1>> ELSE <<3>>, Len(f))
    ELSE Then(OrderedFrom(f), LAMBDA v, n : Ok(<<2>> \o v, n))

(* A classified float is its tag, with the bits behind the tag of Finite. *)
DecodeEventFloat(buf, w) ==
    IF buf = <<>> THEN Truncated
    ELSE IF buf[1] \in {0, 1, 3} THEN Ok(<<buf[1]>>, 1)
    ELSE IF buf[1] = 2
    THEN Then(DecodeOrdered(From(buf, 1), w), LAMBDA v, n : Ok(<<2>> \o v, 1 + n))
    ELSE Err("UnknownVariantDiscriminant")
-----------------------------------------------------------------------------
(* discriminant_width of a derived enum. *)
Width(t) ==
    IF \A i \in 1 .. Len(t.variants) : t.variants[i].discriminant <= WidthMax(1)
    THEN 1 ELSE 2

(* Fields::Unnamed with one field: the field itself is the payload. *)
IsSingle(v) == v.style = "Unnamed" /\ Len(v.fields) = 1

(* Mutant of FieldsDepth: the payload struct of a variant is not counted. *)
FlatDepth(v, inner) == inner + 1

(* How much deeper than a variant's field the enum is. *)
FieldsDepth(v, inner) == inner + (IF IsSingle(v) THEN 1 ELSE 2)

(* PardosaType::TYPE_DEPTH.  A variant counts through its fields only. *)
RECURSIVE TypeDepth(_)
TypeDepth(t) ==
    CASE t.k \in Scalars \cup BoundedKinds -> 0
      [] t.k \in {"EventF32", "EventF64"} -> 1
      [] t.k \in {"Option", "EventVec"} -> TypeDepth(t.inner) + 1
      [] t.k = "Struct" ->
           MaxOf({0} \cup {TypeDepth(t.fields[i].ty) + 1 : i \in 1 .. Len(t.fields)})
      [] t.k = "Enum" ->
           MaxOf({0} \cup UNION {LET v == t.variants[i] IN
                   {FieldsDepth(v, TypeDepth(v.fields[j].ty)) : j \in 1 .. Len(v.fields)} :
                 i \in 1 .. Len(t.variants)})

(* An enum somewhere in t has a variant `V {}` or `V()`. *)
RECURSIVE HasEmptyVariant(_)
HasEmptyVariant(t) ==
    CASE t.k \in {"Option", "EventVec"} -> HasEmptyVariant(t.inner)
      [] t.k = "Struct" -> \E i \in 1 .. Len(t.fields) : HasEmptyVariant(t.fields[i].ty)
      [] t.k = "Enum" ->
           \E i \in 1 .. Len(t.variants) :
               LET v == t.variants[i] IN
               \/ v.style # "Unit" /\ v.fields = <<>>
               \/ \E j \in 1 .. Len(v.fields) : HasEmptyVariant(v.fields[j].ty)
      [] OTHER -> FALSE

(* Somewhere in t is a bounded type whose bound is 0. *)
RECURSIVE HasZeroBound(_)
HasZeroBound(t) ==
    CASE t.k \in BoundedKinds -> t.max = 0
      [] t.k = "EventVec" -> t.max = 0 \/ HasZeroBound(t.inner)
      [] t.k = "Option" -> HasZeroBound(t.inner)
      [] t.k = "Struct" -> \E i \in 1 .. Len(t.fields) : HasZeroBound(t.fields[i].ty)
      [] t.k = "Enum" ->
           \E i \in 1 .. Len(t.variants) :
               \E j \in 1 .. Len(t.variants[i].fields) : HasZeroBound(t.variants[i].fields[j].ty)
      [] OTHER -> FALSE
-----------------------------------------------------------------------------
(* PardosaType::descriptor_node.  Unnamed fields are called _0, _1, ...; the
   payload struct of a variant is called <enum>_<variant>. *)
FloatDescriptor(k) ==
    LET variant(d, payload) == Variant(d, <<d + 1>>, payload)
    IN EnumOf(<<FloatWidth(k)>>, 1,
              <<variant(0, <<>>), variant(1, <<>>),
                variant(2, <<Leaf(IF k = "EventF32" THEN "OrderedF32" ELSE "OrderedF64")>>),
                variant(3, <<>>)>>)

RECURSIVE DescriptorOf(_)

FieldDescriptors(style, fields) ==
    [i \in 1 .. Len(fields) |->
        Field(IF style = "Named" THEN fields[i].name ELSE <<Underscore, i - 1>>,
              DescriptorOf(fields[i].ty))]

VariantPayload(name, v) ==
    IF v.style = "Unit" THEN <<>>
    ELSE IF IsSingle(v) THEN <<DescriptorOf(v.fields[1].ty)>>
    ELSE <<StructOf(name \o <<Underscore>> \o v.name, FieldDescriptors(v.style, v.fields))>>

EnumDescriptor(t) ==
    EnumOf(t.name, Width(t),
           [i \in 1 .. Len(t.variants) |->
               Variant(t.variants[i].discriminant, t.variants[i].name,
                       VariantPayload(t.name, t.variants[i]))])

DescriptorOf(t) ==
    CASE t.k \in Scalars \cup BoundedKinds -> t
      [] t.k \in {"EventF32", "EventF64"} -> FloatDescriptor(t.k)
      [] t.k = "Option" -> OptionOf(DescriptorOf(t.inner))
      [] t.k = "EventVec" -> VecOf(DescriptorOf(t.inner), t.max)
      [] t.k = "Struct" -> StructOf(t.name, FieldDescriptors(t.style, t.fields))
      [] t.k = "Enum" -> EnumDescriptor(t)
-----------------------------------------------------------------------------
(* PardosaType::encode_type.  EventVec::new has bounded the items before. *)
IntWidth == [U8 |-> 1, U16 |-> 2, U32 |-> 4, I8 |-> 1, I16 |-> 2, I32 |-> 4]
Words == [U64 |-> 8, I64 |-> 8, Uuid |-> 16]

RECURSIVE EncodeType(_, _), EncodeItems(_, _)

EncodeItems(t, vs) ==
    IF vs = <<>> THEN <<>> ELSE EncodeType(t, Head(vs)) \o EncodeItems(t, Tail(vs))

RECURSIVE EncodeFieldValues(_, _)
EncodeFieldValues(fields, vs) ==
    IF fields = <<>> THEN <<>>
    ELSE EncodeType(Head(fields).ty, Head(vs)) \o EncodeFieldValues(Tail(fields), Tail(vs))

(* Mutant of EncodeVariant: the discriminant is one byte whatever its width. *)
EncodeVariantNarrow(t, val) ==
    LET v == t.variants[val.variant]
    IN LE(v.discriminant, 1) \o EncodeFieldValues(v.fields, val.fields)

EncodeVariant(t, val) ==
    LET v == t.variants[val.variant]
    IN LE(v.discriminant, Width(t)) \o EncodeFieldValues(v.fields, val.fields)

EncodeType(t, val) ==
    CASE t.k \in DOMAIN IntWidth -> LE(val, IntWidth[t.k])
      [] t.k \in DOMAIN Words \cup {"Timestamp"} -> val
      [] t.k = "Bool" -> IF val THEN <<1>> ELSE <<0>>
      [] t.k \in {"OrderedF32", "OrderedF64", "EventF32", "EventF64"} -> val
      [] t.k \in BoundedKinds -> EncodePrefixed(val)
      [] t.k = "Option" -> IF val = <<>> THEN <<0>> ELSE <<1>> \o EncodeType(t.inner, val[1])
      [] t.k = "EventVec" -> LE(Len(val), 4) \o EncodeItems(t.inner, val)
      [] t.k = "Struct" -> EncodeFieldValues(t.fields, val)
      [] t.k = "Enum" -> EncodeVariant(t, val)
-----------------------------------------------------------------------------
(* PardosaType::decode_type. *)
RECURSIVE DecodeType(_, _)

DecodeInt(k, buf) ==
    IF Len(buf) < IntWidth[k] THEN Truncated
    ELSE LET b == At(buf, 0, IntWidth[k])
         IN Ok(IF k \in {"I8", "I16", "I32"} THEN FromSignedLE(b) ELSE FromLE(b), Len(b))

DecodeWord(k, buf) ==
    IF Len(buf) < Words[k] THEN Truncated ELSE Ok(At(buf, 0, Words[k]), Words[k])

(* Mutant of DecodeBool: every byte but zero is true. *)
NonZeroIsTrue(buf) == IF buf = <<>> THEN Truncated ELSE Ok(buf[1] # 0, 1)

DecodeBool(buf) ==
    IF buf = <<>> THEN Truncated
    ELSE IF buf[1] \notin {0, 1} THEN Err("InvalidBoolean")
    ELSE Ok(buf[1] = 1, 1)

DecodeOption(t, buf) ==
    IF buf = <<>> THEN Truncated
    ELSE IF buf[1] = 0 THEN Ok(<<>>, 1)
    ELSE IF buf[1] # 1 THEN Err("InvalidOptionTag")
    ELSE Then(DecodeType(t.inner, From(buf, 1)), LAMBDA v, n :
         Then(CheckedAdvance(1, n, Len(buf)), LAMBDA c, total : Ok(<<v>>, total)))

(* The items of an EventVec from a cursor on. *)
RECURSIVE DecodeItems(_, _, _, _)
DecodeItems(t, buf, cursor, count) ==
    IF count = 0 THEN Ok(<<>>, cursor)
    ELSE Then(DecodeType(t, From(buf, cursor)), LAMBDA v, n :
         Then(CheckedAdvance(cursor, n, Len(buf)), LAMBDA c, next :
         Then(DecodeItems(t, buf, next, count - 1), LAMBDA rest, last :
              Ok(<<v>> \o rest, last))))

DecodeVec(t, buf) ==
    IF Len(buf) < 4 THEN Truncated
    ELSE IF U32(buf, 0) > t.max THEN Err("ItemCountExceeded")
    ELSE DecodeItems(t.inner, buf, 4, U32(buf, 0))

(* The fields of a derived struct or variant, from a cursor on. *)
RECURSIVE DecodeFieldValues(_, _, _)
DecodeFieldValues(fields, buf, cursor) ==
    IF fields = <<>> THEN Ok(<<>>, cursor)
    ELSE Then(DecodeType(Head(fields).ty, From(buf, cursor)), LAMBDA v, n :
         Then(CheckedAdvance(cursor, n, Len(buf)), LAMBDA c, next :
         Then(DecodeFieldValues(Tail(fields), buf, next), LAMBDA rest, last :
              Ok(<<v>> \o rest, last))))

DecodeVariant(t, buf) ==
    IF Len(buf) < Width(t) THEN Truncated
    ELSE LET disc == FromLE(At(buf, 0, Width(t)))
             matching == {i \in 1 .. Len(t.variants) : t.variants[i].discriminant = disc}
         IN IF matching = {} THEN Err("UnknownVariantDiscriminant")
            ELSE LET i == CHOOSE i \in matching : TRUE IN
                 Then(DecodeFieldValues(t.variants[i].fields, buf, Width(t)), LAMBDA vs, last :
                      Ok([variant |-> i, fields |-> vs], last))

DecodeType(t, buf) ==
    CASE t.k \in DOMAIN IntWidth -> DecodeInt(t.k, buf)
      [] t.k \in DOMAIN Words \ {"Uuid"} -> DecodeWord(t.k, buf)
      [] t.k = "Uuid" -> DecodeUuid(buf)
      [] t.k = "Timestamp" -> DecodeTimestamp(buf)
      [] t.k = "Bool" -> DecodeBool(buf)
      [] t.k \in {"OrderedF32", "OrderedF64"} -> DecodeOrdered(buf, FloatWidth(t.k))
      [] t.k \in {"EventF32", "EventF64"} -> DecodeEventFloat(buf, FloatWidth(t.k))
      [] t.k = "EventString" -> DecodeText(buf, t.max)
      [] t.k = "NonEmptyEventString" -> DecodeNonEmpty(buf, t.max)
      [] t.k = "EventBytes" -> DecodeBounded(buf, t.max)
      [] t.k = "Option" -> DecodeOption(t, buf)
      [] t.k = "EventVec" -> DecodeVec(t, buf)
      [] t.k = "Struct" -> DecodeFieldValues(t.fields, buf, 0)
      [] t.k = "Enum" -> DecodeVariant(t, buf)

(* The checks of a value's constructor: EventString::new and the like. *)
Constructs(t, v) ==
    CASE t.k = "EventString" -> TextAdmits(v, t.max)
      [] t.k = "NonEmptyEventString" -> NonEmptyAdmits(v, t.max)
      [] t.k = "EventBytes" -> BytesAdmit(v, t.max)
      [] t.k = "EventVec" -> Len(v) <= t.max
      [] t.k = "Timestamp" -> TimestampAdmits(v)
      [] t.k \in {"OrderedF32", "OrderedF64"} -> OrderedFrom(v) = Ok(v, Len(v))
      [] OTHER -> TRUE
-----------------------------------------------------------------------------
(* The compile-time assertions on the fields of a root's variants. *)
DepthAsserted(t) ==
    \A i \in 1 .. Len(t.variants) : \A j \in 1 .. Len(t.variants[i].fields) :
        TypeDepth(t.variants[i].fields[j].ty)
            <= MaxDepth - (IF IsSingle(t.variants[i]) THEN 1 ELSE 2)

(* Mutant of RootAdmits: the depth assertions are not generated. *)
RootAdmitsAnyDepth(root) ==
    LET vs == root.ty.variants IN
    /\ root.version # 0
    /\ \A i \in 1 .. Len(vs) :
         /\ vs[i].discriminant <= WidthMax(2)
         /\ \A j \in 1 .. i - 1 : vs[j].discriminant # vs[i].discriminant
    /\ \E i \in 1 .. Len(vs) : vs[i].name = root.tombstone

(* A root declaration is an enum with a version and a tombstone among its
   variants; what expand_pardosa_schema refuses before it generates code. *)
RootAdmits(root) ==
    LET vs == root.ty.variants IN
    /\ root.version # 0
    /\ \A i \in 1 .. Len(vs) :
         /\ vs[i].discriminant <= WidthMax(2)
         /\ \A j \in 1 .. i - 1 : vs[j].discriminant # vs[i].discriminant
    /\ \E i \in 1 .. Len(vs) : vs[i].name = root.tombstone
    /\ DepthAsserted(root.ty)

(* schema_descriptor and encode_payload of a root, whose arms are generated
   apart from those of a nested enum. *)
RootDescriptor(t) == EnumDescriptor(t)
EncodeRoot(t, val) == EncodeVariant(t, val)

(* decode_payload of a root: the variant must be all of the buffer. *)
DecodeRoot(t, buf) ==
    Then(DecodeVariant(t, buf), LAMBDA v, n :
         IF n # Len(buf) THEN Truncated ELSE Ok(v, n))

(* admit_event on the event path, for the descriptor an artefact has or <<>>:
   presence, then the envelope identity, then the schema identity. *)
AdmitEvent(descriptor, expected, actual, envelope) ==
    CASE descriptor = <<>> -> "MissingSchemaDescriptor"
      [] descriptor # <<>> /\ ~envelope -> "EnvelopeMismatch"
      [] descriptor # <<>> /\ envelope /\ expected # actual -> "SchemaMismatch"
      [] OTHER -> "ok"

(* PardosaSchema::schema_identity admits the descriptor or panics. *)
SchemaIdentity(root) == Admitted([version |-> root.version, root |-> RootDescriptor(root.ty)])
============================================================================
