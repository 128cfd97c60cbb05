------------------------------- MODULE Bytes -------------------------------
(***************************************************************************)
(* Byte buffers, little-endian integers and the Result of a decoder, as    *)
(* encoding.rs and schema.rs use them.  A byte is a number below Base (256 *)
(* in the program, 32 in the instances: every tag and every width of the   *)
(* formats fits).  Field widths are the program's own, so the offsets the  *)
(* decoders spell out are the ones of the code.                            *)
(*                                                                         *)
(* A 64-bit integer is never computed with by these codecs and is kept as  *)
(* its eight bytes (a Word), as are the 16- and 32-byte identifiers.       *)
(***************************************************************************)
EXTENDS Integers, Sequences

CONSTANT Base

(* The highest constructor tag is 0x14. *)
ASSUME BaseAssumption == Base \in Nat /\ Base > 20

Byte == 0 .. Base - 1

(* What the digits of a number stand for, and u32::MAX. *)
Weight == <<1, Base, Base * Base, Base * Base * Base>>
U32Max == Base * Base * Base * Base - 1

(* n.to_le_bytes() for an integer of w <= 4 bytes; a negative number is its
   two's complement, since % and \div round down. *)
LE(n, w) == [i \in 1 .. w |-> (n \div Weight[i]) % Base]

(* uN::from_le_bytes for up to four bytes. *)
FromLE(b) ==
    LET digit(i) == IF i > Len(b) THEN 0 ELSE b[i] * Weight[i]
    IN digit(1) + digit(2) + digit(3) + digit(4)

(* iN::from_le_bytes for up to four bytes. *)
FromSignedLE(b) ==
    LET n == FromLE(b)
        m == Weight[Len(b)] * Base
    IN IF 2 * n >= m THEN n - m ELSE n

(* w bytes, and as many as a u32 can count. *)
Octets(w) == [1 .. w -> Byte]
Text == {s \in Seq(Byte) : Len(s) <= U32Max}

Zeros(w) == [i \in 1 .. w |-> 0]

(* &buf[off .. off + n] and &buf[off ..], with the offsets of the code. *)
At(buf, off, n) == SubSeq(buf, off + 1, off + n)
From(buf, off) == SubSeq(buf, off + 1, Len(buf))
U32(buf, off) == FromLE(At(buf, off, 4))

(* std::str::from_utf8 succeeds.  Of the multi-byte forms only the two-byte
   one is kept: Base - 2 leads, Base - 3 continues, Base - 1 never occurs
   (0xFF); every other byte is a character by itself. *)
IsUtf8(s) ==
    \A i \in 1 .. Len(s) :
        /\ s[i] # Base - 1
        /\ s[i] = Base - 2 => i < Len(s) /\ s[i + 1] = Base - 3
        /\ s[i] = Base - 3 => i > 1 /\ s[i - 1] = Base - 2

(* Ok((val, len)) and Err(err) of a decoder. *)
Ok(v, n) == [ok |-> TRUE, val |-> v, len |-> n]
Err(e) == [ok |-> FALSE, err |-> e]
Bytes(b) == Ok(b, Len(b))
Truncated == Err("TruncatedPayload")

(* Decoding `r?` and going on from it. *)
Then(r, Rest(_, _)) == IF r.ok THEN Rest(r.val, r.len) ELSE r

(* checked_advance: a cursor never passes the end of the buffer. *)
CheckedAdvance(cursor, consumed, total) ==
    IF cursor + consumed > total THEN Truncated
    ELSE Ok(cursor + consumed, cursor + consumed)
============================================================================
