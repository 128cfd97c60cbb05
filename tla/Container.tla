----------------------------- MODULE Container -----------------------------
(***************************************************************************)
(* read_meta_records of file.rs: what the whole frames of a .meta file say.*)
(* The scan that finds the frames is WireCodec's.                          *)
(***************************************************************************)
EXTENDS Descriptor, Frame

(* read_meta_records.  The latest record of each kind is kept, a schema
   descriptor must not conflict with an earlier one; releases and identity
   structures are decoded and dropped. *)
NoRecords == [k \in DOMAIN WireTag \ {"CleanRelease", "IdentityStructure"} |-> <<>>]

ReadDescriptor(record) ==
    Then(DecodeNode(record.descriptor, 0), LAMBDA root, n :
         IF n # Len(record.descriptor) THEN Err("OwnershipRecordUnreadable")
         ELSE Ok([version |-> record.schema_version, root |-> root], n))

ReadRecord(records, frame) ==
    Then(DecodeRecord(frame), LAMBDA record, n :
         IF n # Len(frame) THEN Err("OwnershipRecordUnreadable")
         ELSE IF record.kind = "SchemaDescriptor"
         THEN Then(ReadDescriptor(record), LAMBDA desc, m :
                   IF records[record.kind] \in {<<>>, <<desc>>}
                   THEN Ok([records EXCEPT ![record.kind] = <<desc>>], n)
                   ELSE Err("OwnershipRecordUnreadable"))
         ELSE IF record.kind \in DOMAIN records
         THEN Ok([records EXCEPT ![record.kind] = <<record>>], n)
         ELSE Ok(records, n))

ReadFrames(frames) ==
    FoldLeft(LAMBDA records, frame : Then(records, LAMBDA r, n : ReadRecord(r, frame)),
             Ok(NoRecords, 0), frames)
============================================================================
