----------------------------- MODULE Descriptor ----------------------------
(***************************************************************************)
(* The descriptor nodes of schema.rs and their admission.  Four walks of   *)
(* the same tree count its depth and must agree about it: validation, the  *)
(* length calculation, the encoder and the decoder.  A descriptor that is  *)
(* admitted once is stored as an ownership record and must be admitted     *)
(* again whenever the artefact is opened.                                  *)
(*                                                                         *)
(* MaxDepth is MAX_DESCRIPTOR_DEPTH (16), MaxRecord is                     *)
(* MAX_DESCRIPTOR_RECORD_BYTES (65536).  Names are byte strings.           *)
(***************************************************************************)
EXTENDS Wire

CONSTANTS MaxDepth, MaxRecord

ASSUME LimitsAssumption == MaxDepth \in Nat /\ MaxRecord \in Nat

(* DescriptorNode: nodes without parameters, with a bound, and with children. *)
Scalars == {"U8", "U16", "U32", "U64", "I8", "I16", "I32", "I64", "Bool",
            "Timestamp", "Uuid", "OrderedF32", "OrderedF64"}
BoundedKinds == {"EventString", "NonEmptyEventString", "EventBytes"}

Leaf(k) == [k |-> k]
Bounded(k, max) == [k |-> k, max |-> max]
VecOf(n, max) == [k |-> "EventVec", inner |-> n, max |-> max]
OptionOf(n) == [k |-> "Option", inner |-> n]
StructOf(name, fields) == [k |-> "Struct", name |-> name, fields |-> fields]
EnumOf(name, width, variants) ==
    [k |-> "Enum", name |-> name, width |-> width, variants |-> variants]
Field(name, node) == [name |-> name, node |-> node]

(* A variant's payload is an Option: <<>> or <<node>>. *)
Variant(d, name, payload) == [discriminant |-> d, name |-> name, payload |-> payload]

(* DescriptorNode::constructor_tag. *)
ConstructorTag ==
    [U8 |-> 1, U16 |-> 2, U32 |-> 3, U64 |-> 4, I8 |-> 5, I16 |-> 6, I32 |-> 7,
     I64 |-> 8, Bool |-> 9, EventString |-> 10, NonEmptyEventString |-> 11,
     EventBytes |-> 12, EventVec |-> 13, Option |-> 14, Struct |-> 15, Enum |-> 16,
     Timestamp |-> 17, Uuid |-> 18, OrderedF32 |-> 19, OrderedF64 |-> 20]
TagKind(t) == CHOOSE k \in DOMAIN ConstructorTag : ConstructorTag[k] = t

(* The largest discriminant of the given width: 255 or 65535. *)
WidthMax(width) == IF width = 1 THEN Base - 1 ELSE Base * Base - 1
-----------------------------------------------------------------------------
(* encoded_len_recursive, with Ok carrying the length.  A wrong width counts
   as two bytes here; validation has refused it before. *)
RECURSIVE LenNode(_, _), LenFields(_, _), LenVariants(_, _, _)

LenFields(fs, depth) ==
    IF fs = <<>> THEN Ok(<<>>, 0)
    ELSE Then(LenNode(Head(fs).node, depth), LAMBDA v, n :
         Then(LenFields(Tail(fs), depth), LAMBDA w, rest :
              Ok(<<>>, 4 + Len(Head(fs).name) + n + rest)))

LenVariants(vs, width, depth) ==
    IF vs = <<>> THEN Ok(<<>>, 0)
    ELSE IF Head(vs).discriminant > WidthMax(width) THEN Err("Custom")
    ELSE Then(IF Head(vs).payload = <<>> THEN Ok(<<>>, 1)
              ELSE LenNode(Head(vs).payload[1], depth), LAMBDA v, n :
         Then(LenVariants(Tail(vs), width, depth), LAMBDA w, rest :
              Ok(<<>>, (IF width = 1 THEN 1 ELSE 2) + 4 + Len(Head(vs).name) + n + rest)))

LenNode(node, depth) ==
    IF depth > MaxDepth THEN Err("DepthExceeded")
    ELSE CASE node.k \in Scalars -> Ok(<<>>, 1)
           [] node.k \in BoundedKinds -> Ok(<<>>, 5)
           [] node.k = "EventVec" ->
                Then(LenNode(node.inner, depth + 1), LAMBDA v, n : Ok(<<>>, 1 + n + 4))
           [] node.k = "Option" ->
                Then(LenNode(node.inner, depth + 1), LAMBDA v, n : Ok(<<>>, 1 + n))
           [] node.k = "Struct" ->
                Then(LenFields(node.fields, depth + 1), LAMBDA v, n :
                     Ok(<<>>, 1 + 4 + Len(node.name) + 4 + n))
           [] node.k = "Enum" ->
                Then(LenVariants(node.variants, node.width, depth + 1), LAMBDA v, n :
                     Ok(<<>>, 1 + 4 + Len(node.name) + 1 + 4 + n))
-----------------------------------------------------------------------------
(* encode_recursive, with Ok carrying the bytes. *)
RECURSIVE EncodeNode(_, _), EncodeFields(_, _), EncodeVariants(_, _, _)

EncodeFields(fs, depth) ==
    IF fs = <<>> THEN Bytes(<<>>)
    ELSE Then(EncodeNode(Head(fs).node, depth), LAMBDA b, n :
         Then(EncodeFields(Tail(fs), depth), LAMBDA rest, m :
              Bytes(EncodePrefixed(Head(fs).name) \o b \o rest)))

EncodeVariants(vs, width, depth) ==
    IF vs = <<>> THEN Bytes(<<>>)
    ELSE IF Head(vs).discriminant > WidthMax(width) THEN Err("Custom")
    ELSE Then(IF Head(vs).payload = <<>> THEN Bytes(<<0>>)
              ELSE EncodeNode(Head(vs).payload[1], depth), LAMBDA b, n :
         Then(EncodeVariants(Tail(vs), width, depth), LAMBDA rest, m :
              Bytes(LE(Head(vs).discriminant, IF width = 1 THEN 1 ELSE 2)
                    \o EncodePrefixed(Head(vs).name) \o b \o rest)))

EncodeNode(node, depth) ==
    LET tag == <<ConstructorTag[node.k]>> IN
    IF depth > MaxDepth THEN Err("DepthExceeded")
    ELSE CASE node.k \in Scalars -> Bytes(tag)
           [] node.k \in BoundedKinds -> Bytes(tag \o LE(node.max, 4))
           [] node.k = "EventVec" ->
                Then(EncodeNode(node.inner, depth + 1), LAMBDA b, n :
                     Bytes(tag \o b \o LE(node.max, 4)))
           [] node.k = "Option" ->
                Then(EncodeNode(node.inner, depth + 1), LAMBDA b, n : Bytes(tag \o b))
           [] node.k = "Struct" ->
                Then(EncodeFields(node.fields, depth + 1), LAMBDA b, n :
                     Bytes(tag \o EncodePrefixed(node.name) \o LE(Len(node.fields), 4) \o b))
           [] node.k = "Enum" ->
                Then(EncodeVariants(node.variants, node.width, depth + 1), LAMBDA b, n :
                     Bytes(tag \o EncodePrefixed(node.name) \o <<node.width>>
                           \o LE(Len(node.variants), 4) \o b))
-----------------------------------------------------------------------------
(* decode_recursive.  Each part takes the buffer of its node and a cursor in
   it, and returns the cursor behind what it read. *)
RECURSIVE DecodeNode(_, _), DecodeFields(_, _, _, _), DecodeVariants(_, _, _, _, _)

DecodeName(buf, cursor) ==
    IF Len(buf) < cursor + 4 THEN Truncated
    ELSE LET n == U32(buf, cursor) IN
         IF Len(buf) < cursor + 4 + n THEN Truncated
         ELSE IF ~IsUtf8(At(buf, cursor + 4, n)) THEN Err("InvalidUtf8")
         ELSE Ok(At(buf, cursor + 4, n), cursor + 4 + n)

(* A count, refused when the rest of the buffer cannot hold that many items. *)
DecodeCount(buf, cursor, min_bytes) ==
    IF Len(buf) < cursor + 4 THEN Truncated
    ELSE IF (Len(buf) - cursor - 4) \div min_bytes < U32(buf, cursor) THEN Truncated
    ELSE Ok(U32(buf, cursor), cursor + 4)

DecodeFields(buf, cursor, count, depth) ==
    IF count = 0 THEN Ok(<<>>, cursor)
    ELSE Then(DecodeName(buf, cursor), LAMBDA name, c :
         Then(DecodeNode(From(buf, c), depth), LAMBDA node, n :
         Then(DecodeFields(buf, c + n, count - 1, depth), LAMBDA rest, last :
              Ok(<<Field(name, node)>> \o rest, last))))

DecodePayload(buf, cursor, depth) ==
    IF Len(buf) < cursor + 1 THEN Truncated
    ELSE IF buf[cursor + 1] = 0 THEN Ok(<<>>, cursor + 1)
    ELSE Then(DecodeNode(From(buf, cursor), depth), LAMBDA node, n :
              Ok(<<node>>, cursor + n))

DecodeVariants(buf, cursor, count, width, depth) ==
    IF count = 0 THEN Ok(<<>>, cursor)
    ELSE IF Len(buf) < cursor + width THEN Truncated
    ELSE Then(DecodeName(buf, cursor + width), LAMBDA name, c :
         Then(DecodePayload(buf, c, depth), LAMBDA payload, p :
         Then(DecodeVariants(buf, p, count - 1, width, depth), LAMBDA rest, last :
              Ok(<<Variant(FromLE(At(buf, cursor, width)), name, payload)>> \o rest, last))))

DecodeStruct(buf, depth) ==
    Then(DecodeName(buf, 1), LAMBDA name, c :
    Then(DecodeCount(buf, c, 5), LAMBDA count, first :
    Then(DecodeFields(buf, first, count, depth), LAMBDA fields, last :
         Ok(StructOf(name, fields), last))))

DecodeEnum(buf, depth) ==
    Then(DecodeName(buf, 1), LAMBDA name, c :
         IF Len(buf) < c + 1 THEN Truncated
         ELSE IF buf[c + 1] \notin {1, 2} THEN Err("InvalidDiscriminantWidth")
         ELSE LET width == buf[c + 1] IN
              Then(DecodeCount(buf, c + 1, width + 5), LAMBDA count, first :
              Then(DecodeVariants(buf, first, count, width, depth), LAMBDA vs, last :
                   Ok(EnumOf(name, width, vs), last))))

DecodeNode(buf, depth) ==
    IF depth > MaxDepth THEN Err("CycleDetected")
    ELSE IF buf = <<>> THEN Truncated
    ELSE IF buf[1] \notin 1 .. 20 THEN Err("UnknownConstructorTag")
    ELSE LET k == TagKind(buf[1]) IN
         CASE k \in Scalars -> Ok(Leaf(k), 1)
           [] k \in BoundedKinds ->
                IF Len(buf) < 5 THEN Truncated ELSE Ok(Bounded(k, U32(buf, 1)), 5)
           [] k = "EventVec" ->
                Then(DecodeNode(From(buf, 1), depth + 1), LAMBDA inner, n :
                     IF Len(buf) < 1 + n + 4 THEN Truncated
                     ELSE Ok(VecOf(inner, U32(buf, 1 + n)), 1 + n + 4))
           [] k = "Option" ->
                Then(DecodeNode(From(buf, 1), depth + 1), LAMBDA inner, n :
                     Ok(OptionOf(inner), 1 + n))
           [] k = "Struct" -> DecodeStruct(buf, depth + 1)
           [] k = "Enum" -> DecodeEnum(buf, depth + 1)
-----------------------------------------------------------------------------
(* validate_structural_completeness_recursive. *)
RECURSIVE Valid(_, _)

ValidVariants(node, depth) ==
    /\ node.variants # <<>>
    /\ node.width \in {1, 2}
    /\ \A i \in 1 .. Len(node.variants) :
         LET v == node.variants[i] IN
         /\ v.name # <<>>
         /\ v.discriminant <= WidthMax(node.width)
         /\ \A j \in 1 .. i - 1 : node.variants[j].discriminant # v.discriminant
         /\ v.payload # <<>> => Valid(v.payload[1], depth)

Valid(node, depth) ==
    /\ depth <= MaxDepth
    /\ node.k \in BoundedKinds => node.max # 0
    /\ node.k = "EventVec" => node.max # 0 /\ Valid(node.inner, depth + 1)
    /\ node.k = "Option" => Valid(node.inner, depth + 1)
    /\ node.k = "Struct" =>
         \A i \in 1 .. Len(node.fields) :
             node.fields[i].name # <<>> /\ Valid(node.fields[i].node, depth + 1)
    /\ node.k = "Enum" => ValidVariants(node, depth + 1)
-----------------------------------------------------------------------------
(* Mutant of RecordLen: the record's tag is not counted. *)
UntaggedLen(d) == Then(LenNode(d.root, 0), LAMBDA v, n : Ok(<<>>, 4 + n))

(* SchemaDescriptor: a version and a root.  encoded_record_len. *)
RecordLen(d) == Then(LenNode(d.root, 0), LAMBDA v, n : Ok(<<>>, 1 + 4 + n))

(* SchemaDescriptor::validate_structural_completeness. *)
Complete(d) == d.version # 0 /\ Valid(d.root, 0)

(* AdmittedDescriptor::try_from_descriptor: the encoded ownership record. *)
Admitted(d) ==
    IF ~Complete(d) THEN Err("Incomplete")
    ELSE Then(RecordLen(d), LAMBDA v, record_len :
         IF record_len > MaxRecord THEN Err("TooLong")
         ELSE Then(EncodeNode(d.root, 0), LAMBDA desc_bytes, n :
              Bytes(EncodeRecord([kind |-> "SchemaDescriptor",
                                  schema_version |-> d.version,
                                  descriptor |-> desc_bytes]))))

(* The identity is a digest of the record without its tag; equal digests mean
   equal bytes. *)
Identity(record) == From(record, 1)

(* SchemaDescriptor::decode. *)
DecodeDescriptor(buf) ==
    IF Len(buf) < 4 THEN Truncated
    ELSE Then(DecodeNode(From(buf, 4), 0), LAMBDA root, n :
              Ok([version |-> U32(buf, 0), root |-> root], 4 + n))
============================================================================
