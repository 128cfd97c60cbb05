------------------------------- MODULE Frame -------------------------------
(***************************************************************************)
(* The container of file.rs byte by byte: a header, then frames of a       *)
(* length, a payload and a checksum.  .pgno and .meta are both read by one *)
(* scan; what it finds at the end decides whether a frame is refused or    *)
(* cut away.  FileStore takes the outcome of this scan for granted.        *)
(***************************************************************************)
EXTENDS Wire, SequencesExt

(* CONTAINER_MAGIC and CONTAINER_FORMAT_VERSION; the magic bytes are reduced
   to the model's bytes. *)
ContainerMagic == <<16, 1, 18, 4, 15, 19, 1, 1>>
FormatVersion == 1

ContainerHeader == ContainerMagic \o LE(FormatVersion, 4)

(* ContainerHeader::decode. *)
DecodeContainerHeader(buf) ==
    IF Len(buf) < 8 THEN Err("TruncatedHeader")
    ELSE IF At(buf, 0, 8) # ContainerMagic THEN Err("InvalidMagic")
    ELSE IF Len(buf) < 12 THEN Err("TruncatedHeader")
    ELSE IF U32(buf, 8) # FormatVersion THEN Err("UnsupportedFormatVersion")
    ELSE Ok(FormatVersion, 12)

(* crc32c: like the real one, 0 for no bytes, and any change of one byte
   changes it. *)
Crc(p) ==
    LET sum == FoldLeft(LAMBDA acc, b : (acc * 31 + b) % (U32Max + 1), 1, p)
    IN LE((sum + U32Max) % (U32Max + 1), 4)

(* ContainerFrame::try_encode_payload. *)
EncodeFrame(p) == LE(Len(p), 4) \o p \o Crc(p)

(* Mutants of DecodeFrame: the checksum may be cut off, or is not compared. *)
FrameWithoutTrailer(buf) ==
    IF Len(buf) < 4 \/ Len(buf) < 4 + U32(buf, 0) THEN Truncated
    ELSE LET n == U32(buf, 0)
             end == IF Len(buf) < 8 + n THEN Len(buf) ELSE 8 + n
         IN IF SubSeq(buf, 5 + n, end) # Crc(At(buf, 4, n)) THEN Err("ChecksumMismatch")
            ELSE Ok(At(buf, 4, n), 8 + n)
UncheckedFrame(buf) ==
    IF Len(buf) < 4 \/ Len(buf) < 8 + U32(buf, 0) THEN Truncated
    ELSE Ok(At(buf, 4, U32(buf, 0)), 8 + U32(buf, 0))

(* ContainerFrame::decode. *)
DecodeFrame(buf) ==
    IF Len(buf) < 4 THEN Truncated
    ELSE LET payload_len == U32(buf, 0)
             payload == At(buf, 4, payload_len)
             total_frame_len == 4 + payload_len + 4
         IN IF Len(buf) < total_frame_len THEN Truncated
            ELSE IF At(buf, 4 + payload_len, 4) # Crc(payload) THEN Err("ChecksumMismatch")
            ELSE Ok(payload, total_frame_len)

(* What read_container_frames returns when nothing failed it. *)
Found(frames, torn, valid_len) ==
    [ok |-> TRUE, frames |-> frames, torn |-> torn, valid_len |-> valid_len]

(* reconcile_tail_state: .pgno after a writer has opened it. *)
Reconciled(buf, scan) == IF scan.torn THEN At(buf, 0, scan.valid_len) ELSE buf

(* compute_claim_wire_len_bounded: the length create checks a claim with
   before it writes anything. *)
ClaimWireLen(label_len) == 69 + label_len
============================================================================
