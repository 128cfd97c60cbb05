------------------------------- MODULE Codec -------------------------------
(***************************************************************************)
(* WireCodec with the codecs of schemas: values of declared types, payload *)
(* roots, stored descriptors, and the records of .meta.                    *)
(***************************************************************************)
EXTENDS WireCodec, TypeCodec, Container

EncodeSchema(m) ==
    CASE m.codec = "type" -> Bytes(EncodeType(m.ty, m.val))
      [] m.codec = "root" -> Bytes(EncodeRoot(m.ty, m.val))
      [] m.codec = "descriptor" -> Admitted(m.val)

DecodeSchema(m, buf) ==
    CASE m.codec = "type" -> DecodeType(m.ty, buf)
      [] m.codec = "root" -> DecodeRoot(m.ty, buf)
      [] m.codec = "descriptor" ->
           Then(DecodeRecord(buf), LAMBDA r, n :
                IF r.kind # "SchemaDescriptor" THEN Err("OtherRecord")
                ELSE Then(ReadDescriptor(r), LAMBDA d, k : Ok(d, n)))

IsSchema == msg.codec \in {"type", "root", "descriptor"}
-----------------------------------------------------------------------------
(* What an encoder wrote decodes to the same value and to exactly its bytes,
   whatever follows; a payload root and a stored descriptor, which end with
   their buffer, refuse what follows; bytes that were cut short are never taken
   for a value, and .meta is read only if the cut fell between two records.  The
   encoders of schema.rs, file.rs and the derive macros against their decoders. *)
RoundTrip ==
    /\ Decoded /\ IsSchema =>
         /\ damage = "none" => got = Ok(msg.val, Len(wire))
         /\ damage = "followed" =>
              IF msg.codec = "type" THEN got = Ok(msg.val, sound) ELSE ~got.ok
         /\ damage = "cut" => ~got.ok
    /\ phase = "read" =>
         /\ damage = "none" => records = ReadFrames(msg.val)
         /\ damage = "cut" /\ records.ok =>
              \E k \in 0 .. Len(msg.val) :
                  /\ FrameEnd(k) = Len(wire)
                  /\ records = ReadFrames(SubSeq(msg.val, 1, k))

NumericallyEqual(f, g) == f = g \/ (IsZero(f) /\ IsZero(g))

(* Whatever bytes a decoder accepts, the value it returns is one its encoder
   writes as the very bytes that were read, but for a negative zero, which is
   read as zero; then the rewritten value still decodes to itself.  A bounded
   value is one its constructor admits, and floats read as equal numbers are
   equal keys. *)
Canonical ==
    Decoded /\ IsSchema /\ got.ok =>
        LET again == EncodeMessage([msg EXCEPT !.val = got.val])
            read == At(wire, 0, got.len)
        IN /\ got.len <= Len(wire)
           /\ msg.codec = "type" => Constructs(msg.ty, got.val)
           /\ msg.codec = "type" /\ msg.ty.k \in {"OrderedF32", "OrderedF64"} =>
                (OrderedEq(got.val, msg.val) <=> NumericallyEqual(got.val, msg.val))
           /\ again.ok =>
                \/ again.val = read
                \/ /\ DecodeMessage(msg, again.val) = Ok(got.val, Len(again.val))
                   /\ Len(again.val) = Len(read)
                   /\ \E i \in 1 .. Len(read) :
                        read[i] = 16 /\ again.val = [read EXCEPT ![i] = 0]

(* The altered byte is one of the length of a frame. *)
LengthAltered == \E k \in 0 .. Len(msg.val) - 1 : sound - FrameEnd(k) \in 0 .. 3

(* One altered byte of the header, a payload or a checksum fails the scan of
   .pgno and of .meta, so that a writer's open cuts nothing away; only the
   length of a frame, which ContainerFrame::decode checks against nothing but
   the rest of the buffer, can be altered and the scan still answer. *)
AlterationsRefused ==
    Decoded /\ IsFile /\ damage = "altered" /\ got.ok => LengthAltered

(* docs/spec/pardosa-1.0.md:123 of a framing length that exceeds the remaining
   container bytes: a typed error refuses the entry.  A container from which no
   byte is missing is never taken for one with a torn tail, whose rest
   reconcile_tail_state cuts off. *)
OverlongLengthRefused ==
    Decoded /\ IsFile /\ damage = "altered" /\ got.ok => ~got.torn

(* A descriptor read back from a stored record, damaged or not, is admitted
   with the length the length calculation gives, and an admitted one keeps its
   identity through the record: the depth and width limits of validation, length,
   encoder and decoder agree.  Events are admitted under that descriptor only. *)
AdmissionStable ==
    Decoded /\ msg.codec = "descriptor" /\ got.ok =>
        LET a == Admitted(got.val) IN
        /\ damage = "none" => a.ok /\ Identity(a.val) = Identity(wire)
        /\ a.ok => a.val = At(wire, 0, got.len) /\ RecordLen(got.val).len = Len(a.val)
        /\ ~a.ok => ~Complete(got.val)
        /\ a.ok => (AdmitEvent(<<got.val>>, Identity(EncodeMessage(msg).val), Identity(a.val), TRUE) = "ok"
                       <=> got.val = msg.val)

(* The depth the derive macros compute at compile time against the depth the
   walks of the descriptor count at run time.  At whatever depth a type is used,
   what TYPE_DEPTH refuses the walk refuses, and what TYPE_DEPTH leaves a level
   for the walk takes; a root's assertions refuse none whose descriptor is not
   too deep.  The level in doubt is the struct node of a variant `V {}` or `V()`,
   which TYPE_DEPTH leaves out: without such variants the two agree. *)
DepthsAgree ==
    Decoded /\ msg.codec \in {"type", "root"} =>
        LET Walked(used) == LenNode(DescriptorOf(msg.ty), used).ok
            Counted(used) == TypeDepth(msg.ty) + used <= MaxDepth
            RootWalked == LenNode(RootDescriptor(msg.ty), 0).ok
        IN /\ \A used \in 0 .. MaxDepth : Walked(used) => Counted(used)
           /\ \A used \in 0 .. MaxDepth : Counted(used + 1) => Walked(used)
           /\ msg.codec = "root" /\ RootWalked => DepthAsserted(msg.ty)
           /\ ~HasEmptyVariant(msg.ty) =>
                /\ \A used \in 0 .. MaxDepth : Counted(used) => Walked(used)
                /\ msg.codec = "root" /\ DepthAsserted(msg.ty) => RootWalked

(* schema_identity, which panics on a descriptor that is not admitted: a root the
   derive macro accepts is refused for a variant `V {}` or `V()` too deep, a bound
   of 0 or a record past its limit, which the macro does not look at, and for
   nothing else the walks check: widths, discriminants, names, depth. *)
AcceptedRootsAdmitted ==
    Decoded /\ msg.codec = "root" =>
        LET root == [version |-> 1, ty |-> msg.ty, tombstone |-> msg.ty.variants[1].name]
            identity == SchemaIdentity(root)
        IN RootAdmits(root) /\ ~identity.ok =>
             \/ HasEmptyVariant(msg.ty)
             \/ HasZeroBound(msg.ty)
             \/ identity.err = "TooLong"
============================================================================
