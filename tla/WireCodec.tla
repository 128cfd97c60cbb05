----------------------------- MODULE WireCodec -----------------------------
(***************************************************************************)
(* Every codec of the program between an encoder and a decoder.  A value   *)
(* is encoded, the bytes are cut, altered in one place, followed by other  *)
(* bytes or left alone, and what is there is decoded.  A container and a   *)
(* .meta file are created, grow frame by frame, are damaged in the same    *)
(* way and scanned; a writer that opens a torn container cuts it and       *)
(* appends to it.                                                          *)
(*                                                                         *)
(* The codecs of schemas, whose definitions are recursive, are parameters  *)
(* here: Codec supplies them.                                              *)
(***************************************************************************)
EXTENDS Frame

CONSTANTS Messages,     \* a sequence of [codec, val], for types and payload roots also ty
          Extra,        \* byte strings that follow a message
          Payloads,     \* what is appended to a container
          Records,      \* what is appended to .meta
          MaxFrames,    \* bound on the frames of a file
          WireLimit,    \* MAX of envelope_wire_len
          EncodeOther(_), DecodeOther(_, _),    \* the codecs of schemas
          ReadRecords(_)                        \* what the frames of .meta say

FileCodecs == {"container", "meta"}
NewFile(codec) == [codec |-> codec, val |-> <<>>]

(* The values the codecs of this module are given: those their types hold.
   The program's limit is u32::MAX. *)
ASSUME MessagesAssumption ==
    /\ \A i \in DOMAIN Messages :
         /\ Messages[i].codec = "envelope" =>
              Messages[i] \in [codec : {"envelope"}, val : EventEnvelope]
         /\ Messages[i].codec = "record" =>
              Messages[i] \in [codec : {"record"}, val : OwnershipRecord]
         /\ Messages[i].codec \in FileCodecs => Messages[i] = NewFile(Messages[i].codec)
    /\ Extra \subseteq Seq(Byte) /\ Payloads \subseteq Seq(Byte)
    /\ Records \subseteq OwnershipRecord
    /\ MaxFrames \in Nat /\ WireLimit \in 0 .. U32Max

VARIABLES phase,    \* "idle", "sent", "scanning", "decoded", "read" or, by the encoder, "refused"
          msg,      \* what was written; of a file, the payloads of its frames
          wire,     \* the bytes that are there
          damage,   \* what happened to them
          sound,    \* as many of them, from the first on, are as they were written
          ends,     \* where each frame of a file ends
          scan,     \* cursor and frames of read_container_frames
          got,      \* what the decoder returned
          records   \* what read_meta_records returned

written == <<msg, ends>>
vars == <<phase, msg, wire, damage, sound, ends, scan, got, records>>

None == [codec |-> "none"]
NoScan == [cursor |-> 0, frames |-> <<>>]
IsFile == msg.codec \in FileCodecs

EncodeMessage(m) ==
    CASE m.codec = "envelope" -> EncodeEnvelope(m.val, WireLimit)
      [] m.codec = "record" -> Bytes(EncodeRecord(m.val))
      [] m.codec \in FileCodecs -> Bytes(ContainerHeader)
      [] OTHER -> EncodeOther(m)

DecodeMessage(m, buf) ==
    CASE m.codec = "envelope" -> DecodeEnvelope(buf)
      [] m.codec = "record" -> DecodeRecord(buf)
      [] OTHER -> DecodeOther(m, buf)
-----------------------------------------------------------------------------
Init ==
    /\ phase = "idle" /\ msg = None /\ wire = <<>> /\ damage = "none"
    /\ sound = 0 /\ ends = <<>> /\ scan = NoScan /\ got = None /\ records = None

(* A value is encoded, or refused by its encoder; a file is created. *)
Encode ==
    /\ phase = "idle"
    /\ \E i \in DOMAIN Messages :
         LET bytes == EncodeMessage(Messages[i]) IN
         /\ msg' = Messages[i]
         /\ IF bytes.ok
            THEN phase' = "sent" /\ wire' = bytes.val /\ got' = None
            ELSE phase' = "refused" /\ wire' = <<>> /\ got' = bytes
    /\ sound' = Len(wire')
    /\ UNCHANGED <<damage, ends, scan, records>>

InTransit == phase = "sent" /\ damage = "none" /\ wire # <<>>

(* A block of events and the operator's records are appended frame by frame;
   a payload whose length is no u32 is refused (LengthExceeded). *)
AppendFrame(p) ==
    /\ InTransit /\ Len(msg.val) < MaxFrames
    /\ Len(p) <= U32Max
    /\ wire' = wire \o EncodeFrame(p)
    /\ msg' = [msg EXCEPT !.val = Append(@, p)]
    /\ ends' = Append(ends, Len(wire'))
    /\ sound' = Len(wire')
    /\ UNCHANGED <<phase, damage, scan, got, records>>

AppendPayload == msg.codec = "container" /\ \E p \in Payloads : AppendFrame(p)
AppendRecord == msg.codec = "meta" /\ \E r \in Records : AppendFrame(EncodeRecord(r))

(* The operator appends a record to .meta without reading it, behind whatever
   a crash has left there. *)
AppendBehind ==
    /\ phase = "sent" /\ msg.codec = "meta" /\ damage = "cut"
    /\ \E r \in Records : /\ Len(EncodeRecord(r)) <= U32Max
                          /\ wire' = wire \o EncodeFrame(EncodeRecord(r))
    /\ damage' = "behind"
    /\ UNCHANGED <<phase, written, sound, scan, got, records>>

(* A crash while the bytes are written, or a short read. *)
Cut ==
    /\ InTransit
    /\ \E n \in 0 .. Len(wire) - 1 : wire' = At(wire, 0, n) /\ sound' = n
    /\ damage' = "cut"
    /\ UNCHANGED <<phase, written, scan, got, records>>

(* One byte is not what was written. *)
Alter ==
    /\ InTransit
    /\ \E i \in 1 .. Len(wire), b \in Byte :
         b # wire[i] /\ wire' = [wire EXCEPT ![i] = b] /\ sound' = i - 1
    /\ damage' = "altered"
    /\ UNCHANGED <<phase, written, scan, got, records>>

(* The buffer goes on behind the message. *)
Follow ==
    /\ InTransit /\ ~IsFile
    /\ \E more \in Extra : wire' = wire \o more
    /\ damage' = "followed"
    /\ UNCHANGED <<phase, written, sound, scan, got, records>>

Decode ==
    /\ phase = "sent" /\ ~IsFile
    /\ got' = DecodeMessage(msg, wire)
    /\ phase' = "decoded"
    /\ UNCHANGED <<written, wire, damage, sound, scan, records>>
-----------------------------------------------------------------------------
Return(result) == phase' = "decoded" /\ got' = result /\ UNCHANGED scan

(* read_container_frames up to its loop. *)
ReadHeader ==
    /\ phase = "sent" /\ IsFile
    /\ LET header == IF Len(wire) < 12 THEN Err("TooShort") ELSE DecodeContainerHeader(wire)
       IN IF header.ok
          THEN /\ scan' = [cursor |-> header.len, frames |-> <<>>]
               /\ phase' = "scanning" /\ UNCHANGED got
          ELSE Return(header)
    /\ UNCHANGED <<written, wire, damage, sound, records>>

(* One iteration of the loop.  A frame that is not all there ends the scan as
   a torn tail; any other error fails it. *)
ReadFrame ==
    /\ phase = "scanning" /\ scan.cursor < Len(wire)
    /\ LET frame == DecodeFrame(From(wire, scan.cursor)) IN
       IF frame.ok
       THEN /\ scan' = [cursor |-> scan.cursor + frame.len,
                        frames |-> Append(scan.frames, frame.val)]
            /\ UNCHANGED <<phase, got>>
       ELSE Return(IF frame = Truncated THEN Found(scan.frames, TRUE, scan.cursor) ELSE frame)
    /\ UNCHANGED <<written, wire, damage, sound, records>>

(* The loop ends at the end of the buffer. *)
EndScan ==
    /\ phase = "scanning" /\ scan.cursor >= Len(wire)
    /\ Return(Found(scan.frames, FALSE, scan.cursor))
    /\ UNCHANGED <<written, wire, damage, sound, records>>

(* read_meta_records goes through the frames of an untorn file. *)
ReadMeta ==
    /\ phase = "decoded" /\ msg.codec = "meta"
    /\ records' = IF ~got.ok THEN Err("OwnershipRecordUnreadable")
                  ELSE IF got.torn THEN Err("OwnershipRecordUnreadable")
                  ELSE ReadRecords(got.frames)
    /\ phase' = "read"
    /\ UNCHANGED <<written, wire, damage, sound, scan, got>>

(* open_writer after the scan: the torn tail is cut, and what is left is the
   file a writer appends to.  A container damaged otherwise is read once. *)
Reconcile ==
    /\ phase = "decoded" /\ msg.codec = "container" /\ damage \in {"none", "cut"}
    /\ got.ok
    /\ wire' = Reconciled(wire, got)
    /\ sound' = Len(wire')
    /\ msg' = [msg EXCEPT !.val = got.frames]
    /\ ends' = SubSeq(ends, 1, Len(got.frames))
    /\ phase' = "sent" /\ damage' = "none" /\ scan' = NoScan /\ got' = None
    /\ UNCHANGED records

Next ==
    \/ Encode \/ AppendPayload \/ AppendRecord \/ AppendBehind
    \/ Cut \/ Alter \/ Follow \/ Decode
    \/ ReadHeader \/ ReadFrame \/ EndScan \/ ReadMeta \/ Reconcile

Spec == Init /\ [][Next]_vars
-----------------------------------------------------------------------------
Decoded == phase \in {"decoded", "read"}

(* The descriptor of a schema record ends with its buffer. *)
SelfDelimiting(m) == m.codec = "record" => m.val.kind # "SchemaDescriptor"

(* What an encoder of an envelope or of an ownership record wrote decodes to
   the same value and to exactly its bytes, whatever follows, and is never
   taken for a message when it was cut short; a claim is as long as create
   computed before it wrote anything.  encode and decode of EventEnvelope and
   of OwnershipRecord, compute_claim_wire_len. *)
WireRoundTrip ==
    Decoded /\ msg.codec \in {"envelope", "record"} =>
        /\ damage = "none" => got = Ok(msg.val, Len(wire))
        /\ damage = "followed" /\ SelfDelimiting(msg) => got = Ok(msg.val, sound)
        /\ damage = "cut" /\ got.ok => ~SelfDelimiting(msg) /\ Len(wire) >= 5
        /\ damage = "none" /\ msg.codec = "record" =>
             (msg.val.kind = "OwnershipClaim" =>
                Len(wire) = ClaimWireLen(Len(msg.val.operator_label)))

(* Whatever bytes the decoder of an envelope or a record accepts, the value it
   returns is one its encoder writes as the very bytes that were read.  One
   leniency is excepted: parameters behind the known ones of a partitioning
   rule are skipped; then the rewritten record still decodes to itself, in no
   more bytes. *)
WireCanonical ==
    Decoded /\ msg.codec \in {"envelope", "record"} /\ got.ok =>
        LET again == EncodeMessage([msg EXCEPT !.val = got.val])
        IN /\ got.len <= Len(wire)
           /\ again.ok =>
                \/ again.val = At(wire, 0, got.len)
                \/ /\ msg.codec = "record" /\ got.val.kind = "IdentityStructure"
                   /\ Len(again.val) <= got.len
                   /\ DecodeRecord(again.val) = Ok(got.val, Len(again.val))

(* An envelope that was damaged and still decodes has other commitment bytes
   than the one that was written, so its successor's precursor hash exposes it. *)
CommitmentExposes ==
    Decoded /\ msg.codec = "envelope" /\ got.ok =>
        (CommitmentInput(got.val) = CommitmentInput(msg.val) <=> got.val = msg.val)

(* Where the first k frames of a file end. *)
FrameEnd(k) == IF k = 0 THEN 12 ELSE ends[k]

(* A container or .meta that is whole or was cut anywhere reads as exactly the
   frames written whole, up to where the last of them ends, and is torn unless
   the cut fell between two frames; only a cut header is refused.  Damage of any
   other kind never costs or changes a frame that lies before it, unless the
   scan fails altogether.  read_container_frames, and reconcile_tail_state,
   which cuts the file there. *)
ScanFindsWhole ==
    Decoded /\ IsFile =>
        \E k \in 0 .. Len(msg.val) :
            /\ k > 0 => FrameEnd(k) <= sound
            /\ k < Len(msg.val) => sound < FrameEnd(k + 1)
            /\ IF damage \notin {"none", "cut"}
               THEN got.ok => /\ k <= Len(got.frames)
                              /\ SubSeq(got.frames, 1, k) = SubSeq(msg.val, 1, k)
               ELSE IF Len(wire) < 12 THEN ~got.ok
               ELSE got = Found(SubSeq(msg.val, 1, k), FrameEnd(k) < Len(wire), FrameEnd(k))
============================================================================
