-------------------------------- MODULE Wire -------------------------------
(***************************************************************************)
(* The codecs of encoding.rs: bounded text and bytes, timestamps and       *)
(* identifiers, event envelopes, partitioning rules and the ownership      *)
(* records of .meta and of the metadata stream.  The decoders read at the  *)
(* offsets and check the lengths the code spells out.                      *)
(***************************************************************************)
EXTENDS Bytes

(* Length-prefixed text: the length, then the bytes. *)
EncodePrefixed(s) == LE(Len(s), 4) \o s

(* EventBytes::decode, and the common part of the two text decoders: the
   bound is checked before the buffer is measured against the length. *)
DecodeBounded(buf, max) ==
    IF Len(buf) < 4 THEN Truncated
    ELSE LET n == U32(buf, 0) IN
         IF n > max THEN Err("LengthExceeded")
         ELSE IF Len(buf) < 4 + n THEN Truncated
         ELSE Ok(At(buf, 4, n), 4 + n)

(* EventString::decode. *)
DecodeText(buf, max) ==
    Then(DecodeBounded(buf, max),
         LAMBDA s, n : IF IsUtf8(s) THEN Ok(s, n) ELSE Err("InvalidUtf8"))

(* NonEmptyEventString::decode: a zero length is refused before the bound. *)
DecodeNonEmpty(buf, max) ==
    IF Len(buf) >= 4 /\ U32(buf, 0) = 0 THEN Err("EmptyNonEmptyString")
    ELSE DecodeText(buf, max)

(* What EventString::new, NonEmptyEventString::new and EventBytes::new admit. *)
TextAdmits(s, max) == IsUtf8(s) /\ Len(s) <= max
NonEmptyAdmits(s, max) == TextAdmits(s, max) /\ s # <<>>
BytesAdmit(s, max) == Len(s) <= max

(* Timestamp: eight bytes that are not all zero. *)
TimestampAdmits(t) == t # Zeros(8)
DecodeTimestamp(buf) ==
    IF Len(buf) < 8 THEN Truncated
    ELSE IF ~TimestampAdmits(At(buf, 0, 8)) THEN Err("InvalidTimestampSentinel")
    ELSE Ok(At(buf, 0, 8), 8)

(* Uuid::decode. *)
DecodeUuid(buf) == IF Len(buf) < 16 THEN Truncated ELSE Ok(At(buf, 0, 16), 16)
-----------------------------------------------------------------------------
(* EnvelopeHeader and EventEnvelope. *)
EnvelopeHeader ==
    [event_id : Octets(16), fiber_id : Octets(16), detached : BOOLEAN,
     precursor : Octets(16), precursor_hash : Octets(32)]
EventEnvelope == [header : EnvelopeHeader, payload : Seq(Byte)]

(* EnvelopeHeader::encode: 16 + 16 + 1 + 16 + 32 bytes. *)
EncodeHeader(h) ==
    h.event_id \o h.fiber_id \o (IF h.detached THEN <<1>> ELSE <<0>>)
    \o h.precursor \o h.precursor_hash

(* Mutant of DecodeHeader: any byte but zero is a detached flag. *)
LenientHeader(buf) ==
    IF Len(buf) < 81 THEN Err("TruncatedHeader")
    ELSE Ok([event_id |-> At(buf, 0, 16), fiber_id |-> At(buf, 16, 16),
             detached |-> buf[33] # 0,
             precursor |-> At(buf, 33, 16), precursor_hash |-> At(buf, 49, 32)], 81)

(* EnvelopeHeader::decode. *)
DecodeHeader(buf) ==
    IF Len(buf) < 81 THEN Err("TruncatedHeader")
    ELSE IF buf[33] \notin {0, 1} THEN Err("InvalidBooleanDiscriminant")
    ELSE Ok([event_id |-> At(buf, 0, 16), fiber_id |-> At(buf, 16, 16),
             detached |-> buf[33] = 1,
             precursor |-> At(buf, 33, 16), precursor_hash |-> At(buf, 49, 32)], 81)

(* envelope_wire_len: the whole frame fits the limit. *)
WireLenAdmits(n, limit) == n + 85 <= limit

(* EventEnvelope::encode_bounded; the program's limit is u32::MAX. *)
EncodeEnvelope(e, limit) ==
    IF ~WireLenAdmits(Len(e.payload), limit) THEN Err("TooLong")
    ELSE LET wire_len == Len(e.payload) + 85
             bytes == EncodeHeader(e.header) \o LE(wire_len - 85, 4) \o e.payload
         IN Ok(bytes, Len(bytes))

(* EventEnvelopeRef::decode. *)
DecodeEnvelope(buf) ==
    Then(DecodeHeader(buf), LAMBDA header, h :
        IF Len(buf) < h + 4 THEN Err("TruncatedHeader")
        ELSE LET total == h + 4 + U32(buf, h) IN
             IF Len(buf) < total THEN Truncated
             ELSE Ok([header |-> header, payload |-> At(buf, h + 4, total - h - 4)], total))

(* Mutant of CommitmentInput: the detached flag is left out. *)
CommitmentWithoutFlag(e) ==
    LET h == e.header
    IN h.event_id \o h.fiber_id \o h.precursor \o h.precursor_hash \o e.payload

(* compute_envelope_commitment hashes these bytes: no length is hashed. *)
CommitmentInput(e) ==
    LET h == e.header
    IN h.event_id \o h.fiber_id \o (IF h.detached THEN <<1>> ELSE <<0>>)
       \o h.precursor \o h.precursor_hash \o e.payload
-----------------------------------------------------------------------------
(* PartitioningRule. *)
StaticModulo == [kind : {"StaticModulo"}, total_draglines : 0 .. U32Max]
ConsistentHash ==
    [kind : {"ConsistentHash"}, hash_seed : Octets(8), virtual_node_count : 0 .. U32Max]
PartitioningRule == StaticModulo \cup ConsistentHash

(* Mutant of EncodeRule: the length of the parameters leaves one out. *)
EncodeRuleShort(r) ==
    IF r.kind = "StaticModulo" THEN <<1>> \o LE(4, 4) \o LE(r.total_draglines, 4)
    ELSE <<2>> \o LE(8, 4) \o r.hash_seed \o LE(r.virtual_node_count, 4)

(* PartitioningRule::encode. *)
EncodeRule(r) ==
    IF r.kind = "StaticModulo" THEN <<1>> \o LE(4, 4) \o LE(r.total_draglines, 4)
    ELSE <<2>> \o LE(12, 4) \o r.hash_seed \o LE(r.virtual_node_count, 4)

(* PartitioningRule::decode: parameters beyond the known ones are skipped. *)
DecodeRule(buf) ==
    IF Len(buf) < 5 THEN Truncated
    ELSE LET n == U32(buf, 1)
             param == At(buf, 5, n)
         IN IF Len(buf) < 5 + n THEN Truncated
            ELSE IF buf[1] \notin {1, 2} THEN Err("UnknownPartitioningRuleTag")
            ELSE IF n < (IF buf[1] = 1 THEN 4 ELSE 12) THEN Truncated
            ELSE Ok(IF buf[1] = 1
                    THEN [kind |-> "StaticModulo", total_draglines |-> U32(param, 0)]
                    ELSE [kind |-> "ConsistentHash", hash_seed |-> At(param, 0, 8),
                          virtual_node_count |-> U32(param, 8)],
                    5 + n)
-----------------------------------------------------------------------------
(* OwnershipRecord::wire_tag. *)
WireTag == [OwnershipClaim |-> 1, CleanRelease |-> 2, MigrationStart |-> 3,
            MigrationEnd |-> 4, InboundPointer |-> 5, OutboundPointer |-> 6,
            RescuePolicyChoice |-> 7, IdentityStructure |-> 8, SchemaDescriptor |-> 9]

(* MigrationStatus::to_u8 and from_u8. *)
MigrationStatus == [Complete |-> 1, Interrupted |-> 2]
StatusFrom(b) == CHOOSE s \in DOMAIN MigrationStatus : MigrationStatus[s] = b

(* OwnershipRecord: the nine kinds, with the lengths a u32 can describe. *)
OwnershipClaim ==
    [kind : {"OwnershipClaim"}, epoch : Octets(8), machine_id : Octets(16),
     boot_id : Octets(16), process_id : Octets(8), process_start_time : Octets(8),
     claim_time : Octets(8), operator_label : {s \in Text : IsUtf8(s)}]
CleanRelease == [kind : {"CleanRelease"}, epoch : Octets(8), release_time : Octets(8)]
MigrationStart ==
    [kind : {"MigrationStart"}, source : 0 .. U32Max, target : 0 .. U32Max,
     time : Octets(8), rescue_policy_tag : Byte]
MigrationEnd ==
    [kind : {"MigrationEnd"}, source : 0 .. U32Max, target : 0 .. U32Max,
     time : Octets(8), status : {"Complete", "Interrupted"}]
Pointer(kinds) == [kind : kinds, locator_id : Octets(16), epoch : Octets(8)]
RescuePolicyChoice == [kind : {"RescuePolicyChoice"}, policy_tag : Byte, parameters : Text]
IdentityStructure ==
    [kind : {"IdentityStructure"}, dataset_id : Octets(16),
     structure_version : 0 .. U32Max, dragline_id : 0 .. U32Max,
     partitioning_rule : PartitioningRule]
SchemaDescriptor ==
    [kind : {"SchemaDescriptor"}, schema_version : 0 .. U32Max, descriptor : Seq(Byte)]
OwnershipRecord ==
    OwnershipClaim \cup CleanRelease \cup MigrationStart \cup MigrationEnd
    \cup Pointer({"InboundPointer", "OutboundPointer"}) \cup RescuePolicyChoice
    \cup IdentityStructure \cup SchemaDescriptor

(* OwnershipRecord::encode. *)
RecordBody(r) ==
    CASE r.kind = "OwnershipClaim" ->
           r.epoch \o r.machine_id \o r.boot_id \o r.process_id
           \o r.process_start_time \o r.claim_time \o EncodePrefixed(r.operator_label)
      [] r.kind = "CleanRelease" -> r.epoch \o r.release_time
      [] r.kind = "MigrationStart" ->
           LE(r.source, 4) \o LE(r.target, 4) \o r.time \o <<r.rescue_policy_tag>>
      [] r.kind = "MigrationEnd" ->
           LE(r.source, 4) \o LE(r.target, 4) \o r.time \o <<MigrationStatus[r.status]>>
      [] r.kind \in {"InboundPointer", "OutboundPointer"} -> r.locator_id \o r.epoch
      [] r.kind = "RescuePolicyChoice" -> <<r.policy_tag>> \o EncodePrefixed(r.parameters)
      [] r.kind = "IdentityStructure" ->
           r.dataset_id \o LE(r.structure_version, 4) \o LE(r.dragline_id, 4)
           \o EncodeRule(r.partitioning_rule)
      [] r.kind = "SchemaDescriptor" -> LE(r.schema_version, 4) \o r.descriptor

EncodeRecord(r) == <<WireTag[r.kind]>> \o RecordBody(r)

(* OwnershipRecord::decode, one definition for each tag. *)
DecodeClaim(buf) ==
    IF Len(buf) < 69 THEN Truncated
    ELSE LET total == 69 + U32(buf, 65)
             label == At(buf, 69, total - 69)
         IN IF Len(buf) < total THEN Truncated
            ELSE IF ~IsUtf8(label) THEN Err("InvalidUtf8")
            ELSE Ok([kind |-> "OwnershipClaim", epoch |-> At(buf, 1, 8),
                     machine_id |-> At(buf, 9, 16), boot_id |-> At(buf, 25, 16),
                     process_id |-> At(buf, 41, 8), process_start_time |-> At(buf, 49, 8),
                     claim_time |-> At(buf, 57, 8), operator_label |-> label], total)

DecodeRelease(buf) ==
    IF Len(buf) < 17 THEN Truncated
    ELSE Ok([kind |-> "CleanRelease", epoch |-> At(buf, 1, 8),
             release_time |-> At(buf, 9, 8)], 17)

DecodeMigrationStart(buf) ==
    IF Len(buf) < 18 THEN Truncated
    ELSE Ok([kind |-> "MigrationStart", source |-> U32(buf, 1), target |-> U32(buf, 5),
             time |-> At(buf, 9, 8), rescue_policy_tag |-> buf[18]], 18)

DecodeMigrationEnd(buf) ==
    IF Len(buf) < 18 THEN Truncated
    ELSE IF buf[18] \notin {1, 2} THEN Err("InvalidMigrationStatus")
    ELSE Ok([kind |-> "MigrationEnd", source |-> U32(buf, 1), target |-> U32(buf, 5),
             time |-> At(buf, 9, 8), status |-> StatusFrom(buf[18])], 18)

DecodePointer(buf, kind) ==
    IF Len(buf) < 25 THEN Truncated
    ELSE Ok([kind |-> kind, locator_id |-> At(buf, 1, 16), epoch |-> At(buf, 17, 8)], 25)

DecodeRescueChoice(buf) ==
    IF Len(buf) < 6 THEN Truncated
    ELSE LET total == 6 + U32(buf, 2) IN
         IF Len(buf) < total THEN Truncated
         ELSE Ok([kind |-> "RescuePolicyChoice", policy_tag |-> buf[2],
                  parameters |-> At(buf, 6, total - 6)], total)

DecodeIdentity(buf) ==
    IF Len(buf) < 25 THEN Truncated
    ELSE Then(DecodeRule(From(buf, 25)), LAMBDA rule, n :
             Ok([kind |-> "IdentityStructure", dataset_id |-> At(buf, 1, 16),
                 structure_version |-> U32(buf, 17), dragline_id |-> U32(buf, 21),
                 partitioning_rule |-> rule], 25 + n))

(* The descriptor is whatever is left: this record has no length of its own. *)
DecodeDescriptorRecord(buf) ==
    IF Len(buf) < 5 THEN Truncated
    ELSE Ok([kind |-> "SchemaDescriptor", schema_version |-> U32(buf, 1),
             descriptor |-> From(buf, 5)], Len(buf))

DecodeRecord(buf) ==
    IF buf = <<>> THEN Truncated
    ELSE CASE buf[1] = 1 -> DecodeClaim(buf)
           [] buf[1] = 2 -> DecodeRelease(buf)
           [] buf[1] = 3 -> DecodeMigrationStart(buf)
           [] buf[1] = 4 -> DecodeMigrationEnd(buf)
           [] buf[1] = 5 -> DecodePointer(buf, "InboundPointer")
           [] buf[1] = 6 -> DecodePointer(buf, "OutboundPointer")
           [] buf[1] = 7 -> DecodeRescueChoice(buf)
           [] buf[1] = 8 -> DecodeIdentity(buf)
           [] buf[1] = 9 -> DecodeDescriptorRecord(buf)
           [] OTHER -> Err("UnknownRecordTag")
============================================================================
