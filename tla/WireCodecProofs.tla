-------------------------- MODULE WireCodecProofs --------------------------
(***************************************************************************)
(* Proofs about WireCodec.  A decoder reads fields at offsets, an encoder  *)
(* concatenates them; the two meet in Occurs, which says that a byte       *)
(* string lies in a buffer at an offset.                                   *)
(***************************************************************************)
EXTENDS WireCodec, SequenceTheorems, WellFoundedInduction, TLAPS

-----------------------------------------------------------------------------
(* Division with remainder. *)
LEMMA DivMod ==
    ASSUME NEW b \in Nat, b > 0, NEW n \in Int
    PROVE  /\ n = b * (n \div b) + (n % b)
           /\ n % b \in 0 .. b - 1
           /\ n \div b \in Int
OBVIOUS

(* Quotient and remainder are determined. *)
LEMMA DivModUnique ==
    ASSUME NEW b \in Nat, b > 0, NEW q \in Int, NEW r \in 0 .. b - 1
    PROVE  (b * q + r) \div b = q /\ (b * q + r) % b = r
OBVIOUS

(* Dividing twice. *)
LEMMA DivDiv ==
    ASSUME NEW a \in Nat, a > 0, NEW b \in Nat, b > 0, NEW n \in Int
    PROVE  n \div (a * b) = (n \div a) \div b
<1> DEFINE q == n \div a
           r == n % a
           p == q \div b
           s == q % b
<1>1. n = a * q + r /\ r \in 0 .. a - 1 /\ q \in Int
  BY DivMod
<1>2. q = b * p + s /\ s \in 0 .. b - 1 /\ p \in Int
  BY <1>1, DivMod
<1> HIDE DEF q, r, p, s
<1>3. a * b \in Nat /\ a * b > 0
  OBVIOUS
<1>4. n = (a * b) * p + (a * s + r)
  BY <1>1, <1>2
<1>5. a * s + r \in 0 .. a * b - 1
  <2>1. s <= b - 1 /\ s \in Int /\ s >= 0 /\ r >= 0 /\ r <= a - 1 /\ r \in Int
    BY <1>1, <1>2
  <2>2. a * s <= a * (b - 1) /\ a * s >= 0
    BY <2>1
  <2>3. a * (b - 1) = a * b - a
    OBVIOUS
  <2> QED BY <2>1, <2>2, <2>3, <1>3
<1>6. n \div (a * b) = p
  <2> DEFINE c == a * b
             t == a * s + r
  <2> HIDE DEF c, t
  <2>1. (c * p + t) \div c = p
    BY <1>3, <1>5, <1>2, DivModUnique DEF c, t
  <2> QED BY <2>1, <1>4 DEF c, t
<1> QED BY <1>6 DEF p, q
-----------------------------------------------------------------------------
(* Little-endian integers. *)
LEMMA SeqFcn ==
    ASSUME NEW S, NEW n \in Nat, NEW f \in [1 .. n -> S]
    PROVE  f \in Seq(S) /\ Len(f) = n /\ DOMAIN f = 1 .. n
OBVIOUS

(* to_le_bytes gives bytes, as many as the width. *)
LEMMA LEType ==
    ASSUME NEW n \in Int
    PROVE  /\ LE(n, 4) \in Octets(4)
           /\ LE(n, 4) \in Seq(Byte)
           /\ Len(LE(n, 4)) = 4
           /\ \A i \in 1 .. 4 : LE(n, 4)[i] = (n \div Weight[i]) % Base
<1>1. \A i \in 1 .. 4 : Weight[i] \in Nat /\ Weight[i] > 0
  BY BaseAssumption DEF Weight
<1>2. \A i \in 1 .. 4 : (n \div Weight[i]) % Base \in Byte
  BY <1>1, BaseAssumption, DivMod DEF Byte
<1>3. LE(n, 4) \in [1 .. 4 -> Byte]
  BY <1>2 DEF LE
<1> QED BY <1>3, SeqFcn DEF LE, Octets

(* What from_le_bytes sums up. *)
LEMMA FromLEValue ==
    ASSUME NEW b \in Octets(4)
    PROVE  /\ FromLE(b) = b[1] + Base * (b[2] + Base * (b[3] + Base * b[4]))
           /\ FromLE(b) \in 0 .. U32Max
<1>1. Len(b) = 4 /\ b[1] \in Byte /\ b[2] \in Byte /\ b[3] \in Byte /\ b[4] \in Byte
  BY SeqFcn DEF Octets
<1> DEFINE x1 == b[1]  x2 == b[2]  x3 == b[3]  x4 == b[4]
<1>2. FromLE(b) = x1 * 1 + x2 * Base + x3 * (Base * Base) + x4 * (Base * Base * Base)
  BY <1>1 DEF FromLE, Weight
<1>3. x1 \in 0 .. Base - 1 /\ x2 \in 0 .. Base - 1 /\ x3 \in 0 .. Base - 1 /\ x4 \in 0 .. Base - 1
  BY <1>1 DEF Byte
<1> HIDE DEF x1, x2, x3, x4
<1> DEFINE y3 == x3 + Base * x4
           y2 == x2 + Base * y3
           y1 == x1 + Base * y2
<1>4. FromLE(b) = y1
  <2>1. Base * y3 = x3 * Base + x4 * (Base * Base)
    BY <1>3, BaseAssumption
  <2>2. Base * (x3 * Base + x4 * (Base * Base)) = x3 * (Base * Base) + x4 * (Base * Base * Base)
    BY <1>3, BaseAssumption
  <2> QED BY <1>2, <1>3, <2>1, <2>2, BaseAssumption
<1>5. ASSUME NEW c \in Nat, NEW x \in 0 .. Base - 1, NEW y \in 0 .. c - 1
      PROVE  x + Base * y \in 0 .. c * Base - 1
  <2>1. Base * y <= Base * (c - 1) /\ Base * y >= 0 /\ Base * y \in Int
    BY <1>5, BaseAssumption
  <2>2. Base * (c - 1) = c * Base - Base /\ c * Base \in Int
    BY <1>5, BaseAssumption
  <2> QED BY <2>1, <2>2, BaseAssumption
<1>6. y3 \in 0 .. Base * Base - 1
  BY <1>3, <1>5, BaseAssumption
<1> HIDE DEF y3
<1>7. y2 \in 0 .. Base * Base * Base - 1
  <2>1. Base * Base \in Nat
    BY BaseAssumption
  <2> QED BY <1>3, <1>5, <1>6, <2>1
<1> HIDE DEF y2
<1>8. y1 \in 0 .. U32Max
  <2>1. Base * Base * Base \in Nat
    BY BaseAssumption
  <2> QED BY <1>3, <1>5, <1>7, <2>1 DEF U32Max
<1> QED BY <1>4, <1>8 DEF y1, y2, y3, x1, x2, x3, x4

(* to_le_bytes is from_le_bytes turned round, from_le_bytes reads it back. *)
LEMMA LERoundTrip ==
    ASSUME NEW n \in 0 .. U32Max
    PROVE  FromLE(LE(n, 4)) = n
<1> DEFINE b == LE(n, 4)
           q1 == n \div Base
           q2 == q1 \div Base
           q3 == q2 \div Base
<1>0. b \in Octets(4)
  BY LEType DEF U32Max
<1>1. Len(b) = 4 /\ \A i \in 1 .. 4 : b[i] = (n \div Weight[i]) % Base
  BY LEType DEF U32Max
<1>2. n \in Int /\ q1 \in Int /\ q2 \in Int /\ q3 \in Int
  BY BaseAssumption, DivMod DEF U32Max
<1>3. n \div 1 = n
  BY <1>2
<1>4. n \div (Base * Base) = q2
  BY <1>2, DivDiv, BaseAssumption
<1>5. n \div (Base * Base * Base) = q3
  <2>1. Base * Base \in Nat /\ Base * Base > 0
    BY BaseAssumption
  <2> QED BY <1>2, <1>4, <2>1, DivDiv, BaseAssumption
<1>6. b[1] = n % Base /\ b[2] = q1 % Base /\ b[3] = q2 % Base /\ b[4] = q3 % Base
  BY <1>1, <1>3, <1>4, <1>5 DEF Weight
<1>7. /\ n = Base * q1 + b[1] /\ q1 = Base * q2 + b[2] /\ q2 = Base * q3 + b[3]
      /\ q3 = Base * (q3 \div Base) + b[4]
  BY <1>2, <1>6, DivMod, BaseAssumption
<1>8. q3 \div Base \in Int /\ b[1] \in Int /\ b[2] \in Int /\ b[3] \in Int /\ b[4] \in Int
  BY <1>2, <1>6, DivMod, BaseAssumption
<1>9. q3 \div Base = 0
  <2>1. n \div (Base * Base * Base * Base) = q3 \div Base
    <3>1. Base * Base * Base \in Nat /\ Base * Base * Base > 0
      BY BaseAssumption
    <3> QED BY <1>2, <1>5, <3>1, DivDiv, BaseAssumption
  <2>2. ASSUME NEW c \in Nat, n \in 0 .. c - 1 PROVE n \div c = 0
    <3>1. (c * 0 + n) \div c = 0
      BY <2>2, DivModUnique
    <3> QED BY <3>1, <2>2
  <2>3. /\ Base * Base * Base * Base \in Nat
        /\ n \in 0 .. (Base * Base * Base * Base) - 1
    BY BaseAssumption DEF U32Max
  <2> QED BY <2>1, <2>2, <2>3
<1> HIDE DEF b, q1, q2, q3
<1>10. q3 = b[4]
  BY <1>7, <1>8, <1>9, BaseAssumption
<1>11. n = b[1] + Base * (b[2] + Base * (b[3] + Base * b[4]))
  <2>1. b[3] + Base * b[4] = q2
    <3>1. q2 = Base * b[4] + b[3] /\ Base * b[4] \in Int
      BY <1>7, <1>8, <1>10, BaseAssumption
    <3> QED BY <3>1, <1>8
  <2>2. b[2] + Base * q2 = q1
    BY <1>7, <1>8, <1>2, BaseAssumption
  <2>3. b[1] + Base * q1 = n
    BY <1>7, <1>8, <1>2, BaseAssumption
  <2> QED BY <2>1, <2>2, <2>3
<1> QED BY <1>0, <1>11, FromLEValue DEF b

(* The bytes of a number are its digits. *)
LEMMA LEInverse ==
    ASSUME NEW b \in Octets(4)
    PROVE  LE(FromLE(b), 4) = b
<1> DEFINE n == FromLE(b)
           x1 == b[1]  x2 == b[2]  x3 == b[3]  x4 == b[4]
           y3 == x3 + Base * x4
           y2 == x2 + Base * y3
<1>1. n \in 0 .. U32Max /\ n = x1 + Base * y2
  BY FromLEValue
<1>2. x1 \in 0 .. Base - 1 /\ x2 \in 0 .. Base - 1 /\ x3 \in 0 .. Base - 1 /\ x4 \in 0 .. Base - 1
  BY DEF Octets, Byte
<1> HIDE DEF x1, x2, x3, x4
<1>3. y3 \in Int /\ y2 \in Int /\ n \in Int /\ Base \in Nat /\ Base > 0
  BY <1>2, <1>1, BaseAssumption DEF U32Max
<1> HIDE DEF n
<1>4. n \div Base = y2 /\ n % Base = x1
  <2> HIDE DEF y2
  <2>1. (Base * y2 + x1) \div Base = y2 /\ (Base * y2 + x1) % Base = x1
    BY <1>2, <1>3, DivModUnique
  <2>2. n = Base * y2 + x1
    BY <1>1, <1>2, <1>3
  <2> QED BY <2>1, <2>2
<1>5. y2 \div Base = y3 /\ y2 % Base = x2
  <2> HIDE DEF y3
  <2>1. (Base * y3 + x2) \div Base = y3 /\ (Base * y3 + x2) % Base = x2
    BY <1>2, <1>3, DivModUnique
  <2>2. y2 = Base * y3 + x2
    BY <1>2, <1>3
  <2> QED BY <2>1, <2>2
<1>6. y3 \div Base = x4 /\ y3 % Base = x3
  <2>1. (Base * x4 + x3) \div Base = x4 /\ (Base * x4 + x3) % Base = x3
    BY <1>2, <1>3, DivModUnique
  <2>2. y3 = Base * x4 + x3
    BY <1>2, <1>3
  <2> QED BY <2>1, <2>2
<1>7. x4 % Base = x4
  BY <1>2, <1>3
<1> HIDE DEF y2, y3
<1>8. n \div 1 = n /\ n \div (Base * Base) = y3
  <2>1. n \div 1 = n
    BY <1>3
  <2>2. n \div (Base * Base) = (n \div Base) \div Base
    BY <1>3, DivDiv
  <2> QED BY <2>1, <2>2, <1>4, <1>5
<1>9. n \div (Base * Base * Base) = x4
  <2>1. Base * Base \in Nat /\ Base * Base > 0
    BY <1>3
  <2> QED BY <1>3, <1>6, <1>8, <2>1, DivDiv
<1>10. \A i \in 1 .. 4 : LE(n, 4)[i] = b[i]
  <2>1. \A i \in 1 .. 4 : LE(n, 4)[i] = (n \div Weight[i]) % Base
    BY LEType, <1>3
  <2> QED BY <2>1, <1>4, <1>5, <1>6, <1>7, <1>8, <1>9 DEF Weight, x1, x2, x3, x4
<1>11. LE(n, 4) \in [1 .. 4 -> Byte] /\ b \in [1 .. 4 -> Byte]
  BY LEType, <1>3 DEF Octets
<1> QED BY <1>10, <1>11 DEF n
-----------------------------------------------------------------------------
(* f lies in buf behind the first off bytes. *)
Occurs(f, buf, off) ==
    /\ off + Len(f) <= Len(buf)
    /\ \A i \in 1 .. Len(f) : buf[off + i] = f[i]

(* Slicing where a string lies gives the string. *)
LEMMA OccursAt ==
    ASSUME NEW S, NEW buf \in Seq(S), NEW f \in Seq(S), NEW off \in Nat,
           Occurs(f, buf, off)
    PROVE  At(buf, off, Len(f)) = f
<1>1. Len(f) \in Nat /\ Len(buf) \in Nat /\ off + Len(f) <= Len(buf)
  BY DEF Occurs
<1>2. /\ At(buf, off, Len(f)) \in Seq(S) /\ Len(At(buf, off, Len(f))) = Len(f)
      /\ \A i \in 1 .. Len(f) : At(buf, off, Len(f))[i] = buf[off + i]
  BY <1>1 DEF At
<1>3. \A i \in 1 .. Len(f) : At(buf, off, Len(f))[i] = f[i]
  BY <1>2 DEF Occurs
<1> QED BY <1>2, <1>3, SeqEqual

(* A slice lies where it was taken. *)
LEMMA AtOccurs ==
    ASSUME NEW S, NEW buf \in Seq(S), NEW off \in Nat, NEW n \in Nat,
           off + n <= Len(buf)
    PROVE  /\ At(buf, off, n) \in Seq(S) /\ Len(At(buf, off, n)) = n
           /\ At(buf, off, n) \in [1 .. n -> S]
           /\ \A i \in 1 .. n : At(buf, off, n)[i] = buf[off + i]
           /\ Occurs(At(buf, off, n), buf, off)
<1>1. /\ At(buf, off, n) \in Seq(S) /\ Len(At(buf, off, n)) = n
      /\ \A i \in 1 .. n : At(buf, off, n)[i] = buf[off + i]
  BY DEF At
<1>2. At(buf, off, n) \in [1 .. n -> S]
  BY <1>1
<1> QED BY <1>1, <1>2 DEF Occurs

(* A concatenation lies where its two parts lie one behind the other. *)
LEMMA OccursConcat ==
    ASSUME NEW S, NEW buf \in Seq(S), NEW f \in Seq(S), NEW g \in Seq(S), NEW off \in Nat
    PROVE  /\ f \o g \in Seq(S) /\ Len(f \o g) = Len(f) + Len(g)
           /\ Occurs(f \o g, buf, off) <=> Occurs(f, buf, off) /\ Occurs(g, buf, off + Len(f))
<1>1. /\ f \o g \in Seq(S) /\ Len(f \o g) = Len(f) + Len(g)
      /\ \A i \in 1 .. Len(f) : (f \o g)[i] = f[i]
      /\ \A i \in 1 .. Len(g) : (f \o g)[Len(f) + i] = g[i]
  OBVIOUS
<1>2. Len(f) \in Nat /\ Len(g) \in Nat /\ Len(buf) \in Nat
  OBVIOUS
<1> DEFINE h == f \o g
<1> HIDE DEF h
<1>3. ASSUME Occurs(h, buf, off)
      PROVE  Occurs(f, buf, off) /\ Occurs(g, buf, off + Len(f))
  <2>1. \A i \in 1 .. Len(f) + Len(g) : buf[off + i] = h[i]
    BY <1>1, <1>3 DEF Occurs, h
  <2>2. \A i \in 1 .. Len(f) : buf[off + i] = f[i]
    BY <2>1, <1>1, <1>2 DEF h
  <2>3. ASSUME NEW i \in 1 .. Len(g) PROVE buf[(off + Len(f)) + i] = g[i]
    <3>1. Len(f) + i \in 1 .. Len(f) + Len(g) /\ (off + Len(f)) + i = off + (Len(f) + i)
      BY <1>2
    <3> QED BY <3>1, <2>1, <1>1 DEF h
  <2> QED BY <1>1, <1>2, <1>3, <2>2, <2>3 DEF Occurs, h
<1>4. ASSUME Occurs(f, buf, off) /\ Occurs(g, buf, off + Len(f))
      PROVE  Occurs(h, buf, off)
  <2>1. ASSUME NEW i \in 1 .. Len(f) + Len(g) PROVE buf[off + i] = h[i]
    <3>1. CASE i <= Len(f)
      BY <3>1, <1>1, <1>2, <1>4 DEF Occurs, h
    <3>2. CASE i > Len(f)
      <4> DEFINE j == i - Len(f)
      <4>1. j \in 1 .. Len(g) /\ off + i = (off + Len(f)) + j /\ i = Len(f) + j
        BY <3>2, <1>2
      <4>2. buf[(off + Len(f)) + j] = g[j]
        BY <4>1, <1>4 DEF Occurs
      <4> QED BY <4>1, <4>2, <1>1 DEF h
    <3> QED BY <3>1, <3>2, <1>2
  <2> QED BY <2>1, <1>1, <1>2, <1>4 DEF Occurs, h
<1> QED BY <1>1, <1>3, <1>4 DEF h

(* A string lies at the beginning of itself, whatever follows. *)
LEMMA OccursFirst ==
    ASSUME NEW S, NEW f \in Seq(S), NEW g \in Seq(S)
    PROVE  Occurs(f, f, 0) /\ Occurs(f, f \o g, 0)
BY DEF Occurs

(* One byte. *)
LEMMA OccursByte ==
    ASSUME NEW buf, Len(buf) \in Nat, NEW x, NEW off \in Nat
    PROVE  Occurs(<<x>>, buf, off) <=> off + 1 <= Len(buf) /\ buf[off + 1] = x
BY DEF Occurs
-----------------------------------------------------------------------------
(* Fields of a fixed width, and numbers, as a decoder reads them. *)
LEMMA OctetsSeq ==
    ASSUME NEW n \in Nat, NEW x \in Octets(n)
    PROVE  x \in Seq(Byte) /\ Len(x) = n
BY SeqFcn DEF Octets

(* A byte string has as many bytes as it is long. *)
LEMMA SeqOctets ==
    ASSUME NEW x \in Seq(Byte)
    PROVE  Len(x) \in Nat /\ x \in Octets(Len(x))
BY DEF Octets

(* What lies in a buffer ends within it. *)
LEMMA OccursLen ==
    ASSUME NEW buf, NEW off \in Nat, NEW n \in Nat, NEW f \in Octets(n), Occurs(f, buf, off)
    PROVE  off + n <= Len(buf)
BY OctetsSeq DEF Occurs

(* Fields that follow each other lie one behind the other. *)
LEMMA Two ==
    ASSUME NEW buf \in Seq(Byte), NEW off \in Nat, NEW m \in Nat, NEW n \in Nat,
           NEW f \in Octets(m), NEW g \in Octets(n)
    PROVE  /\ f \o g \in Octets(m + n)
           /\ Occurs(f \o g, buf, off) <=> Occurs(f, buf, off) /\ Occurs(g, buf, off + m)
<1>1. f \in Seq(Byte) /\ g \in Seq(Byte) /\ Len(f) = m /\ Len(g) = n
  BY OctetsSeq
<1>2. f \o g \in Seq(Byte) /\ Len(f \o g) = m + n
  BY <1>1
<1> QED BY <1>1, <1>2, OccursConcat, SeqOctets

(* The length of two strings, one behind the other. *)
LEMMA JoinType ==
    ASSUME NEW m \in Nat, NEW n \in Nat, NEW f \in Octets(m), NEW g \in Octets(n)
    PROVE  f \o g \in Octets(m + n)
<1>1. <<>> \in Seq(Byte) /\ 0 \in Nat
  OBVIOUS
<1> QED BY <1>1, Two

(* Reading a field where it lies returns it. *)
LEMMA FieldRead ==
    ASSUME NEW buf \in Seq(Byte), NEW off \in Nat, NEW n \in Nat, NEW x \in Octets(n),
           Occurs(x, buf, off)
    PROVE  At(buf, off, n) = x
BY OctetsSeq, OccursAt

(* A field that was read lies where it was read. *)
LEMMA FieldWritten ==
    ASSUME NEW buf \in Seq(Byte), NEW off \in Nat, NEW n \in Nat, off + n <= Len(buf)
    PROVE  At(buf, off, n) \in Octets(n) /\ Occurs(At(buf, off, n), buf, off)
BY AtOccurs DEF Octets

(* A u32 that lies in a buffer is read as it was written. *)
LEMMA U32Read ==
    ASSUME NEW buf \in Seq(Byte), NEW off \in Nat, NEW v \in 0 .. U32Max,
           Occurs(LE(v, 4), buf, off)
    PROVE  U32(buf, off) = v
<1>1. v \in Int
  BY DEF U32Max
<1>2. At(buf, off, 4) = LE(v, 4)
  BY <1>1, LEType, FieldRead
<1> QED BY <1>2, LERoundTrip DEF U32

(* The u32 read at an offset is the one whose bytes lie there. *)
LEMMA U32Written ==
    ASSUME NEW buf \in Seq(Byte), NEW off \in Nat, off + 4 <= Len(buf)
    PROVE  U32(buf, off) \in 0 .. U32Max /\ Occurs(LE(U32(buf, off), 4), buf, off)
<1>1. At(buf, off, 4) \in Octets(4) /\ Occurs(At(buf, off, 4), buf, off)
  BY FieldWritten
<1> QED BY <1>1, LEInverse, FromLEValue DEF U32

(* The largest u32 of the model is a natural number. *)
LEMMA U32MaxNat == U32Max \in Nat
BY BaseAssumption DEF U32Max
-----------------------------------------------------------------------------
(* Event envelopes.  The header is 81 bytes. *)
Flag(d) == IF d THEN <<1>> ELSE <<0>>

(* The byte of the detached flag. *)
LEMMA FlagType ==
    ASSUME NEW d \in BOOLEAN
    PROVE  Flag(d) \in Octets(1)
<1>1. \A x \in Byte : <<x>> \in Octets(1)
  BY DEF Octets
<1> QED BY <1>1, BaseAssumption DEF Flag, Byte

(* The header lies where its fields do. *)
LEMMA HeaderFields ==
    ASSUME NEW h \in EnvelopeHeader, NEW buf \in Seq(Byte)
    PROVE  /\ EncodeHeader(h) \in Octets(81)
           /\ Occurs(EncodeHeader(h), buf, 0) <=>
                /\ Occurs(h.event_id, buf, 0) /\ Occurs(h.fiber_id, buf, 16)
                /\ Occurs(Flag(h.detached), buf, 32)
                /\ Occurs(h.precursor, buf, 33) /\ Occurs(h.precursor_hash, buf, 49)
<1>1. h.event_id \in Octets(16)
  BY DEF EnvelopeHeader
<1>2. h.fiber_id \in Octets(16)
  BY DEF EnvelopeHeader
<1>3. Flag(h.detached) \in Octets(1)
  BY FlagType DEF EnvelopeHeader
<1>4. h.precursor \in Octets(16)
  BY DEF EnvelopeHeader
<1>5. h.precursor_hash \in Octets(32)
  BY DEF EnvelopeHeader
<1> DEFINE f2 == h.event_id \o h.fiber_id
           f3 == f2 \o Flag(h.detached)
           f4 == f3 \o h.precursor
           f5 == f4 \o h.precursor_hash
<1>6. EncodeHeader(h) = f5
  BY DEF EncodeHeader, f2, f3, f4, f5, Flag
<1>7. /\ f2 \in Octets(32)
      /\ Occurs(f2, buf, 0) <=> Occurs(h.event_id, buf, 0) /\ Occurs(h.fiber_id, buf, 16)
  BY <1>1, <1>2, Two, SMTT(20)
<1> HIDE DEF f2
<1>8. /\ f3 \in Octets(33)
      /\ Occurs(f3, buf, 0) <=> Occurs(f2, buf, 0) /\ Occurs(Flag(h.detached), buf, 32)
  BY <1>3, <1>7, Two
<1> HIDE DEF f3
<1>9. /\ f4 \in Octets(49)
      /\ Occurs(f4, buf, 0) <=> Occurs(f3, buf, 0) /\ Occurs(h.precursor, buf, 33)
  <2> DEFINE k == 33
             m == 16
             g == h.precursor
  <2>1. f3 \in Octets(k) /\ g \in Octets(m) /\ k \in Nat /\ m \in Nat /\ 0 + k = k /\ 0 \in Nat
    BY <1>4, <1>8
  <2>2. k + m = 49
    OBVIOUS
  <2> HIDE DEF k, m, g
  <2>3. f3 \o g \in Octets(k + m) /\ (Occurs(f3 \o g, buf, 0) <=> Occurs(f3, buf, 0) /\ Occurs(g, buf, k))
    BY <2>1, Two
  <2> QED BY <2>2, <2>3 DEF k, g
<1> HIDE DEF f4
<1>10. /\ f5 \in Octets(81)
       /\ Occurs(f5, buf, 0) <=> Occurs(f4, buf, 0) /\ Occurs(h.precursor_hash, buf, 49)
  BY <1>5, <1>9, Two
<1> HIDE DEF f5
<1> QED BY <1>6, <1>7, <1>8, <1>9, <1>10

(* EnvelopeHeader::encode writes 81 bytes. *)
LEMMA HeaderType ==
    ASSUME NEW h \in EnvelopeHeader
    PROVE  EncodeHeader(h) \in Octets(81)
<1>1. <<>> \in Seq(Byte)
  OBVIOUS
<1> QED BY <1>1, HeaderFields

(* EnvelopeHeader::decode returns the header that was encoded. *)
LEMMA HeaderRoundTrip ==
    ASSUME NEW h \in EnvelopeHeader, NEW buf \in Seq(Byte), Occurs(EncodeHeader(h), buf, 0)
    PROVE  DecodeHeader(buf) = Ok(h, 81)
<1>1. /\ Occurs(h.event_id, buf, 0) /\ Occurs(h.fiber_id, buf, 16)
      /\ Occurs(Flag(h.detached), buf, 32)
      /\ Occurs(h.precursor, buf, 33) /\ Occurs(h.precursor_hash, buf, 49)
  BY HeaderFields
<1>2. Len(buf) >= 81
  BY HeaderFields, OccursLen
<1>3. /\ At(buf, 0, 16) = h.event_id /\ At(buf, 16, 16) = h.fiber_id
      /\ At(buf, 33, 16) = h.precursor /\ At(buf, 49, 32) = h.precursor_hash
  BY <1>1, FieldRead DEF EnvelopeHeader
<1>4. h.detached \in BOOLEAN
  BY DEF EnvelopeHeader
<1>5. buf[33] = IF h.detached THEN 1 ELSE 0
  BY <1>1, <1>4 DEF Occurs, Flag
<1>6. buf[33] \in {0, 1} /\ (buf[33] = 1) = h.detached
  BY <1>4, <1>5
<1>7. h = [event_id |-> h.event_id, fiber_id |-> h.fiber_id, detached |-> h.detached,
           precursor |-> h.precursor, precursor_hash |-> h.precursor_hash]
  BY DEF EnvelopeHeader
<1> QED BY <1>2, <1>3, <1>6, <1>7 DEF DecodeHeader

(* A header that decodes is encoded as the bytes it was read from. *)
LEMMA HeaderCanonical ==
    ASSUME NEW buf \in Seq(Byte), DecodeHeader(buf).ok
    PROVE  /\ DecodeHeader(buf).len = 81 /\ Len(buf) >= 81
           /\ DecodeHeader(buf).val \in EnvelopeHeader
           /\ Occurs(EncodeHeader(DecodeHeader(buf).val), buf, 0)
<1> DEFINE h == [event_id |-> At(buf, 0, 16), fiber_id |-> At(buf, 16, 16),
                 detached |-> buf[33] = 1,
                 precursor |-> At(buf, 33, 16), precursor_hash |-> At(buf, 49, 32)]
<1>1. Len(buf) >= 81 /\ buf[33] \in {0, 1} /\ DecodeHeader(buf) = Ok(h, 81)
  BY DEF DecodeHeader, Err
<1>2. /\ At(buf, 0, 16) \in Octets(16) /\ Occurs(At(buf, 0, 16), buf, 0)
      /\ At(buf, 16, 16) \in Octets(16) /\ Occurs(At(buf, 16, 16), buf, 16)
      /\ At(buf, 33, 16) \in Octets(16) /\ Occurs(At(buf, 33, 16), buf, 33)
      /\ At(buf, 49, 32) \in Octets(32) /\ Occurs(At(buf, 49, 32), buf, 49)
  BY <1>1, FieldWritten
<1>3. h \in EnvelopeHeader
  BY <1>2 DEF EnvelopeHeader
<1>4. Occurs(Flag(h.detached), buf, 32)
  <2>1. Occurs(<<buf[33]>>, buf, 32)
    BY <1>1, OccursByte
  <2>2. Flag(h.detached) = <<buf[33]>>
    BY <1>1 DEF Flag
  <2> QED BY <2>1, <2>2
<1>5. Occurs(EncodeHeader(h), buf, 0)
  <2> HIDE DEF h
  <2>1. /\ Occurs(h.event_id, buf, 0) /\ Occurs(h.fiber_id, buf, 16)
        /\ Occurs(h.precursor, buf, 33) /\ Occurs(h.precursor_hash, buf, 49)
    BY <1>2 DEF h
  <2> QED BY <1>3, <1>4, <2>1, HeaderFields
<1> QED BY <1>1, <1>3, <1>5 DEF Ok

(* A prefix still holds the fields that end within it. *)
LEMMA OccursInPrefix ==
    ASSUME NEW whole \in Seq(Byte), NEW c \in 0 .. Len(whole), NEW n \in Nat, NEW f \in Octets(n),
           NEW off \in Nat, off + n <= c, Occurs(f, whole, off)
    PROVE  Occurs(f, At(whole, 0, c), off)
<1>1. f \in Seq(Byte) /\ Len(f) = n
  BY OctetsSeq
<1>2. /\ Len(At(whole, 0, c)) = c
      /\ \A i \in 1 .. c : At(whole, 0, c)[i] = whole[i]
  BY AtOccurs
<1>3. \A i \in 1 .. Len(f) : whole[off + i] = f[i] /\ off + i \in 1 .. c
  BY <1>1 DEF Occurs
<1> QED BY <1>1, <1>2, <1>3 DEF Occurs

(* What EncodeEnvelope writes. *)
EnvelopeBytes(e) == EncodeHeader(e.header) \o LE(Len(e.payload), 4) \o e.payload

(* encode_bounded writes EnvelopeBytes or refuses the length. *)
LEMMA EnvelopeEncoded ==
    ASSUME NEW e \in EventEnvelope
    PROVE  /\ Len(e.payload) \in Nat
           /\ EncodeEnvelope(e, WireLimit).ok => Len(e.payload) + 85 <= WireLimit
           /\ Len(e.payload) + 85 <= WireLimit =>
                /\ EncodeEnvelope(e, WireLimit).ok
                /\ EncodeEnvelope(e, WireLimit).val = EnvelopeBytes(e)
                /\ Len(e.payload) \in 0 .. U32Max
<1>1. Len(e.payload) \in Nat
  BY DEF EventEnvelope
<1>2. (Len(e.payload) + 85) - 85 = Len(e.payload)
  BY <1>1
<1>3. WireLimit \in 0 .. U32Max /\ U32Max \in Nat
  BY MessagesAssumption, U32MaxNat
<1>4. ASSUME Len(e.payload) + 85 <= WireLimit
      PROVE  EncodeEnvelope(e, WireLimit) = Ok(EnvelopeBytes(e), Len(EnvelopeBytes(e)))
  BY <1>2, <1>4 DEF EncodeEnvelope, WireLenAdmits, EnvelopeBytes
<1>5. ASSUME ~(Len(e.payload) + 85 <= WireLimit)
      PROVE  EncodeEnvelope(e, WireLimit) = Err("TooLong")
  BY <1>5 DEF EncodeEnvelope, WireLenAdmits
<1> QED BY <1>1, <1>3, <1>4, <1>5 DEF Ok, Err

(* An envelope lies where its header, its length and its payload do. *)
LEMMA EnvelopeFields ==
    ASSUME NEW e \in EventEnvelope, NEW buf \in Seq(Byte)
    PROVE  /\ EnvelopeBytes(e) \in Octets(85 + Len(e.payload))
           /\ LE(Len(e.payload), 4) \in Octets(4)
           /\ Occurs(EnvelopeBytes(e), buf, 0) <=>
                /\ Occurs(EncodeHeader(e.header), buf, 0)
                /\ Occurs(LE(Len(e.payload), 4), buf, 81)
                /\ Occurs(e.payload, buf, 85)
<1>1. EncodeHeader(e.header) \in Octets(81)
  BY HeaderFields DEF EventEnvelope
<1>2. Len(e.payload) \in Nat /\ e.payload \in Octets(Len(e.payload))
  BY SeqOctets DEF EventEnvelope
<1>3. LE(Len(e.payload), 4) \in Octets(4)
  BY <1>2, LEType
<1> DEFINE n == Len(e.payload)
           f == EncodeHeader(e.header) \o LE(n, 4)
<1>4. /\ f \in Octets(85)
      /\ Occurs(f, buf, 0) <=> Occurs(EncodeHeader(e.header), buf, 0) /\ Occurs(LE(n, 4), buf, 81)
  BY <1>1, <1>3, Two
<1>5. EnvelopeBytes(e) = f \o e.payload
  BY DEF EnvelopeBytes
<1> HIDE DEF n, f
<1>6. /\ f \o e.payload \in Octets(85 + n)
      /\ Occurs(f \o e.payload, buf, 0) <=> Occurs(f, buf, 0) /\ Occurs(e.payload, buf, 85)
  <2>1. n \in Nat /\ e.payload \in Octets(n)
    BY <1>2 DEF n
  <2> QED BY <2>1, <1>4, Two
<1> QED BY <1>3, <1>4, <1>5, <1>6 DEF n

(* EventEnvelopeRef::decode, once the header is read. *)
LEMMA EnvelopeDecoder ==
    ASSUME NEW buf \in Seq(Byte)
    PROVE  /\ DecodeEnvelope(buf).ok =>
                DecodeHeader(buf).ok /\ Len(buf) >= 85 /\ Len(buf) >= 85 + U32(buf, 81)
           /\ DecodeHeader(buf).ok /\ Len(buf) >= 85 /\ Len(buf) >= 85 + U32(buf, 81) =>
                DecodeEnvelope(buf) =
                    Ok([header |-> DecodeHeader(buf).val, payload |-> At(buf, 85, U32(buf, 81))],
                       85 + U32(buf, 81))
<1>1. CASE ~DecodeHeader(buf).ok
  BY <1>1 DEF DecodeEnvelope, Then
<1>2. CASE DecodeHeader(buf).ok
  <2>1. DecodeHeader(buf).len = 81 /\ Len(buf) \in Nat /\ Len(buf) >= 81
    BY <1>2, HeaderCanonical
  <2>2. DecodeEnvelope(buf) =
          IF Len(buf) < 85 THEN Err("TruncatedHeader")
          ELSE LET total == 85 + U32(buf, 81) IN
               IF Len(buf) < total THEN Truncated
               ELSE Ok([header |-> DecodeHeader(buf).val, payload |-> At(buf, 85, total - 81 - 4)], total)
    BY <1>2, <2>1 DEF DecodeEnvelope, Then
  <2>3. CASE Len(buf) < 85
    BY <2>1, <2>2, <2>3 DEF Err
  <2>4. CASE Len(buf) >= 85
    <3>1. U32(buf, 81) \in Nat
      BY <2>4, U32Written, U32MaxNat
    <3>2. (85 + U32(buf, 81)) - 81 - 4 = U32(buf, 81)
      BY <3>1
    <3> QED BY <2>1, <2>2, <2>4, <3>1, <3>2, <1>2 DEF Err, Truncated
  <2> QED BY <2>1, <2>3, <2>4
<1> QED BY <1>1, <1>2

(* What encode_bounded writes decodes to the envelope, whatever follows. *)
LEMMA EnvelopeRoundTrip ==
    ASSUME NEW e \in EventEnvelope, Len(e.payload) \in 0 .. U32Max, NEW buf \in Seq(Byte),
           Occurs(EnvelopeBytes(e), buf, 0)
    PROVE  DecodeEnvelope(buf) = Ok(e, 85 + Len(e.payload))
<1> DEFINE n == Len(e.payload)
<1>1. /\ Occurs(EncodeHeader(e.header), buf, 0) /\ Occurs(LE(n, 4), buf, 81)
      /\ Occurs(e.payload, buf, 85) /\ EnvelopeBytes(e) \in Octets(85 + n)
  BY EnvelopeFields
<1>2. n \in Nat /\ e.payload \in Octets(n) /\ e.header \in EnvelopeHeader
  BY SeqOctets DEF EventEnvelope
<1>3. DecodeHeader(buf) = Ok(e.header, 81)
  BY <1>1, <1>2, HeaderRoundTrip
<1>4. U32(buf, 81) = n
  BY <1>1, U32Read
<1> HIDE DEF n
<1>5. 85 + n <= Len(buf)
  <2>1. 85 + n \in Nat
    BY <1>2
  <2>2. 0 + (85 + n) <= Len(buf)
    BY <2>1, <1>1, OccursLen
  <2> QED BY <2>2, <1>2
<1>6. At(buf, 85, n) = e.payload
  BY <1>1, <1>2, FieldRead
<1>7. e = [header |-> e.header, payload |-> e.payload]
  BY DEF EventEnvelope
<1> QED BY <1>2, <1>3, <1>4, <1>5, <1>6, <1>7, EnvelopeDecoder DEF Ok, n

(* Every proper prefix of it is refused. *)
LEMMA EnvelopeCut ==
    ASSUME NEW e \in EventEnvelope, Len(e.payload) \in 0 .. U32Max,
           NEW c \in 0 .. Len(EnvelopeBytes(e)) - 1
    PROVE  ~DecodeEnvelope(At(EnvelopeBytes(e), 0, c)).ok
<1> DEFINE n == Len(e.payload)
           w == EnvelopeBytes(e)
           buf == At(w, 0, c)
<1>1. n \in Nat /\ w \in Octets(85 + n) /\ 85 + n \in Nat
  BY EnvelopeFields, SeqOctets DEF EventEnvelope
<1>2. w \in Seq(Byte) /\ Len(w) = 85 + n
  BY <1>1, OctetsSeq
<1>3. Occurs(w, w, 0)
  BY <1>2, OccursFirst
<1>4. Occurs(LE(n, 4), w, 81) /\ LE(n, 4) \in Octets(4)
  BY <1>2, <1>3, EnvelopeFields
<1>5. c \in Nat /\ c < 85 + n /\ buf \in Seq(Byte) /\ Len(buf) = c
  BY <1>2, AtOccurs
<1>6. SUFFICES ASSUME DecodeEnvelope(buf).ok PROVE FALSE
  OBVIOUS
<1> HIDE DEF buf, w, n
<1>7. c >= 85 /\ c >= 85 + U32(buf, 81)
  BY <1>5, <1>6, EnvelopeDecoder
<1>8. Occurs(LE(n, 4), buf, 81)
  BY <1>2, <1>4, <1>5, <1>7, OccursInPrefix DEF buf
<1>9. U32(buf, 81) = n
  BY <1>5, <1>8, U32Read DEF n
<1> QED BY <1>1, <1>5, <1>7, <1>9

(* What decode accepts is what encode_bounded writes for the envelope it returns. *)
LEMMA EnvelopeCanonical ==
    ASSUME NEW buf \in Seq(Byte), DecodeEnvelope(buf).ok
    PROVE  LET e == DecodeEnvelope(buf).val IN
           /\ e \in EventEnvelope
           /\ DecodeEnvelope(buf).len = 85 + Len(e.payload)
           /\ DecodeEnvelope(buf).len <= Len(buf)
           /\ Occurs(EnvelopeBytes(e), buf, 0)
<1> DEFINE n == U32(buf, 81)
           e == [header |-> DecodeHeader(buf).val, payload |-> At(buf, 85, n)]
<1>1. DecodeHeader(buf).ok /\ Len(buf) >= 85 /\ Len(buf) >= 85 + n /\ DecodeEnvelope(buf) = Ok(e, 85 + n)
  BY EnvelopeDecoder
<1>2. n \in Nat /\ Occurs(LE(n, 4), buf, 81)
  BY <1>1, U32Written, U32MaxNat
<1>3. e.header \in EnvelopeHeader /\ Occurs(EncodeHeader(e.header), buf, 0)
  BY <1>1, HeaderCanonical
<1> HIDE DEF n
<1>4. e.payload \in Seq(Byte) /\ Len(e.payload) = n /\ Occurs(e.payload, buf, 85)
  BY <1>1, <1>2, AtOccurs
<1>5. e \in EventEnvelope
  BY <1>3, <1>4 DEF EventEnvelope
<1> HIDE DEF e
<1>6. Occurs(EnvelopeBytes(e), buf, 0)
  BY <1>2, <1>3, <1>4, <1>5, EnvelopeFields
<1> QED BY <1>1, <1>4, <1>5, <1>6 DEF Ok

(* The bytes that are hashed determine the envelope. *)
LEMMA CommitmentInjective ==
    ASSUME NEW e \in EventEnvelope, NEW d \in EventEnvelope, CommitmentInput(e) = CommitmentInput(d)
    PROVE  e = d
<1> DEFINE c == CommitmentInput(e)
<1>1. ASSUME NEW x \in EventEnvelope, CommitmentInput(x) = c
      PROVE  /\ c \in Seq(Byte) /\ Len(c) = 81 + Len(x.payload) /\ Len(x.payload) \in Nat
             /\ DecodeHeader(c) = Ok(x.header, 81)
             /\ At(c, 81, Len(x.payload)) = x.payload
  <2>1. CommitmentInput(x) = EncodeHeader(x.header) \o x.payload
    BY DEF CommitmentInput, EncodeHeader
  <2>2. x.header \in EnvelopeHeader /\ x.payload \in Octets(Len(x.payload)) /\ Len(x.payload) \in Nat
    BY SeqOctets DEF EventEnvelope
  <2> DEFINE m == Len(x.payload)
  <2>3. EncodeHeader(x.header) \in Octets(81)
    BY <2>2, HeaderType
  <2> HIDE DEF c, m
  <2>4. m \in Nat /\ x.payload \in Octets(m)
    BY <2>2 DEF m
  <2>5. EncodeHeader(x.header) \o x.payload \in Octets(81 + m) /\ 81 + m \in Nat
    BY <2>3, <2>4, JoinType
  <2>6. c \in Seq(Byte) /\ Len(c) = 81 + m
    BY <1>1, <2>1, <2>5, OctetsSeq
  <2>7. Occurs(EncodeHeader(x.header), c, 0) /\ Occurs(x.payload, c, 81)
    <3>1. Occurs(c, c, 0)
      BY <2>6, OccursFirst
    <3>2. Occurs(EncodeHeader(x.header) \o x.payload, c, 0)
      BY <1>1, <2>1, <3>1
    <3>3. Occurs(EncodeHeader(x.header) \o x.payload, c, 0) <=>
            Occurs(EncodeHeader(x.header), c, 0) /\ Occurs(x.payload, c, 81)
      <4> DEFINE a == EncodeHeader(x.header)
                 b == x.payload
                 k == 81
      <4>1. a \in Octets(k) /\ k \in Nat /\ b \in Octets(m) /\ m \in Nat /\ 0 + k = k /\ 0 \in Nat
        BY <2>3, <2>4
      <4> HIDE DEF a, b, k
      <4>2. Occurs(a \o b, c, 0) <=> Occurs(a, c, 0) /\ Occurs(b, c, k)
        BY <2>6, <4>1, Two
      <4> QED BY <4>2 DEF a, b, k
    <3> QED BY <3>2, <3>3
  <2> QED BY <2>2, <2>4, <2>6, <2>7, HeaderRoundTrip, FieldRead DEF m
<1>2. e.header = d.header
  <2>1. Ok(e.header, 81) = Ok(d.header, 81)
    BY <1>1
  <2> QED BY <2>1 DEF Ok
<1>3. e.payload = d.payload
  <2>1. Len(e.payload) = Len(d.payload)
    BY <1>1
  <2> QED BY <1>1, <2>1
<1> QED BY <1>2, <1>3 DEF EventEnvelope
-----------------------------------------------------------------------------
(* Ownership records of a fixed length. *)
LEMMA ByteType ==
    ASSUME NEW x \in Byte
    PROVE  <<x>> \in Octets(1)
BY DEF Octets

(* A wire tag is a byte. *)
LEMMA TagType ==
    ASSUME NEW x \in 0 .. 20
    PROVE  <<x>> \in Octets(1)
<1>1. x \in Byte
  BY BaseAssumption DEF Byte
<1> QED BY <1>1, ByteType

(* MigrationStatus::to_u8 and from_u8. *)
LEMMA StatusValues ==
    /\ MigrationStatus["Complete"] = 1 /\ MigrationStatus["Interrupted"] = 2
    /\ StatusFrom(1) = "Complete" /\ StatusFrom(2) = "Interrupted"
<1>1. DOMAIN MigrationStatus = {"Complete", "Interrupted"}
  BY DEF MigrationStatus
<1>2. MigrationStatus["Complete"] = 1 /\ MigrationStatus["Interrupted"] = 2
  BY DEF MigrationStatus
<1> QED BY <1>1, <1>2 DEF StatusFrom

(* The byte of a migration status. *)
LEMMA StatusType ==
    ASSUME NEW s \in {"Complete", "Interrupted"}
    PROVE  <<MigrationStatus[s]>> \in Octets(1)
BY StatusValues, TagType

(* The byte of a status is read as the status. *)
LEMMA StatusRead ==
    ASSUME NEW buf \in Seq(Byte), NEW off \in Nat, NEW s \in {"Complete", "Interrupted"},
           Occurs(<<MigrationStatus[s]>>, buf, off)
    PROVE  buf[off + 1] \in {1, 2} /\ StatusFrom(buf[off + 1]) = s
<1>1. buf[off + 1] = MigrationStatus[s]
  BY OccursByte
<1> QED BY <1>1, StatusValues

(* The status read from a byte is written as this byte. *)
LEMMA StatusWritten ==
    ASSUME NEW buf \in Seq(Byte), NEW off \in Nat, off + 1 <= Len(buf), buf[off + 1] \in {1, 2}
    PROVE  /\ StatusFrom(buf[off + 1]) \in {"Complete", "Interrupted"}
           /\ Occurs(<<MigrationStatus[StatusFrom(buf[off + 1])]>>, buf, off)
<1>1. MigrationStatus[StatusFrom(buf[off + 1])] = buf[off + 1]
  BY StatusValues
<1>2. Occurs(<<buf[off + 1]>>, buf, off)
  BY OccursByte
<1> QED BY <1>1, <1>2, StatusValues

(* The tag chooses the decoder. *)
LEMMA RecordDecoder ==
    ASSUME NEW buf \in Seq(Byte), buf # <<>> \/ Len(buf) > 0
    PROVE  /\ buf[1] = 1 => DecodeRecord(buf) = DecodeClaim(buf)
           /\ buf[1] = 2 => DecodeRecord(buf) = DecodeRelease(buf)
           /\ buf[1] = 3 => DecodeRecord(buf) = DecodeMigrationStart(buf)
           /\ buf[1] = 4 => DecodeRecord(buf) = DecodeMigrationEnd(buf)
           /\ buf[1] = 5 => DecodeRecord(buf) = DecodePointer(buf, "InboundPointer")
           /\ buf[1] = 6 => DecodeRecord(buf) = DecodePointer(buf, "OutboundPointer")
           /\ buf[1] = 7 => DecodeRecord(buf) = DecodeRescueChoice(buf)
           /\ buf[1] = 8 => DecodeRecord(buf) = DecodeIdentity(buf)
           /\ buf[1] = 9 => DecodeRecord(buf) = DecodeDescriptorRecord(buf)
           /\ buf[1] \notin 1 .. 9 => DecodeRecord(buf) = Err("UnknownRecordTag")
BY DEF DecodeRecord

(* CleanRelease: the record lies where its fields do. *)
LEMMA ReleaseFields ==
    ASSUME NEW r \in CleanRelease, NEW buf \in Seq(Byte)
    PROVE  /\ EncodeRecord(r) \in Octets(17)
           /\ Occurs(EncodeRecord(r), buf, 0) <=>
                /\ Occurs(<<2>>, buf, 0)
                /\ Occurs(r.epoch, buf, 1) /\ Occurs(r.release_time, buf, 9)
<1>1. r.epoch \in Octets(8)
  BY DEF CleanRelease
<1>2. r.release_time \in Octets(8)
  BY DEF CleanRelease
<1> DEFINE t == <<2>>
<1>3. t \in Octets(1)
  BY TagType
<1> DEFINE b2 == r.epoch \o r.release_time
           w == t \o b2
<1>4. EncodeRecord(r) = w
  <2>1. r.kind = "CleanRelease"
    BY DEF CleanRelease
  <2>2. RecordBody(r) = r.epoch \o r.release_time
    BY <2>1 DEF RecordBody
  <2>3. WireTag[r.kind] = 2
    BY <2>1 DEF WireTag
  <2> QED BY <2>2, <2>3 DEF EncodeRecord
<1>5. /\ b2 \in Octets(16)
      /\ Occurs(b2, buf, 1) <=> Occurs(r.epoch, buf, 1) /\ Occurs(r.release_time, buf, 9)
  BY <1>1, <1>2, Two, SMTT(20)
<1> HIDE DEF b2
<1> HIDE DEF t
<1>6. /\ w \in Octets(17)
      /\ Occurs(w, buf, 0) <=> Occurs(t, buf, 0) /\ Occurs(b2, buf, 1)
  BY <1>3, <1>5, Two
<1> HIDE DEF w
<1> QED BY <1>4, <1>5, <1>6 DEF t

(* CleanRelease: decode returns the record that was encoded. *)
LEMMA ReleaseRoundTrip ==
    ASSUME NEW r \in CleanRelease, NEW buf \in Seq(Byte),
           Occurs(EncodeRecord(r), buf, 0)
    PROVE  DecodeRecord(buf) = Ok(r, 17)
<1>1. /\ Occurs(<<2>>, buf, 0)
      /\ Occurs(r.epoch, buf, 1) /\ Occurs(r.release_time, buf, 9)
  BY ReleaseFields
<1>2. Len(buf) \in Nat /\ Len(buf) >= 17 /\ buf[1] = 2
  <2>1. EncodeRecord(r) \in Octets(17)
    BY ReleaseFields
  <2>2. Len(buf) \in Nat /\ 0 + 17 <= Len(buf)
    BY <2>1, OccursLen
  <2> QED BY <1>1, <2>2, OccursByte
<1>3. At(buf, 1, 8) = r.epoch
  BY <1>1, FieldRead DEF CleanRelease
<1>4. At(buf, 9, 8) = r.release_time
  BY <1>1, FieldRead DEF CleanRelease
<1>5. r = [kind |-> "CleanRelease", epoch |-> r.epoch, release_time |-> r.release_time]
  BY DEF CleanRelease
<1>6. DecodeRecord(buf) = DecodeRelease(buf)
  BY <1>2, RecordDecoder
<1> QED BY <1>2, <1>3, <1>4, <1>5, <1>6 DEF DecodeRelease

(* CleanRelease: a record that decodes is encoded as the bytes read. *)
LEMMA ReleaseCanonical ==
    ASSUME NEW buf \in Seq(Byte), buf # <<>>, buf[1] = 2, DecodeRelease(buf).ok
    PROVE  /\ DecodeRelease(buf).val \in CleanRelease /\ DecodeRelease(buf).len = 17
           /\ DecodeRelease(buf).val.kind = "CleanRelease" /\ Len(buf) >= 17
           /\ Occurs(EncodeRecord(DecodeRelease(buf).val), buf, 0)
<1> DEFINE r == [kind |-> "CleanRelease", epoch |-> At(buf, 1, 8), release_time |-> At(buf, 9, 8)]
<1>1. /\ Len(buf) \in Nat /\ Len(buf) >= 17 /\ DecodeRelease(buf) = Ok(r, 17)
  BY DEF DecodeRelease, Truncated, Err
<1>2. Occurs(<<2>>, buf, 0)
  BY <1>1, OccursByte
<1>3. r.epoch \in Octets(8) /\ Occurs(r.epoch, buf, 1)
  BY <1>1, FieldWritten
<1>4. r.release_time \in Octets(8) /\ Occurs(r.release_time, buf, 9)
  BY <1>1, FieldWritten
<1>5. r \in CleanRelease /\ r.kind = "CleanRelease"
  BY <1>3, <1>4 DEF CleanRelease
<1> HIDE DEF r
<1>6. Occurs(EncodeRecord(r), buf, 0)
  BY <1>2, <1>3, <1>4, <1>5, ReleaseFields
<1> QED BY <1>1, <1>5, <1>6 DEF Ok

(* MigrationStart: the record lies where its fields do. *)
LEMMA StartFields ==
    ASSUME NEW r \in MigrationStart, NEW buf \in Seq(Byte)
    PROVE  /\ EncodeRecord(r) \in Octets(18)
           /\ Occurs(EncodeRecord(r), buf, 0) <=>
                /\ Occurs(<<3>>, buf, 0)
                /\ Occurs(LE(r.source, 4), buf, 1) /\ Occurs(LE(r.target, 4), buf, 5)
                /\ Occurs(r.time, buf, 9) /\ Occurs(<<r.rescue_policy_tag>>, buf, 17)
<1>1. LE(r.source, 4) \in Octets(4)
  BY LEType, U32MaxNat DEF MigrationStart
<1>2. LE(r.target, 4) \in Octets(4)
  BY LEType, U32MaxNat DEF MigrationStart
<1>3. r.time \in Octets(8)
  BY DEF MigrationStart
<1>4. <<r.rescue_policy_tag>> \in Octets(1)
  BY ByteType DEF MigrationStart
<1> DEFINE t == <<3>>
<1>5. t \in Octets(1)
  BY TagType
<1> DEFINE b2 == LE(r.source, 4) \o LE(r.target, 4)
           b3 == b2 \o r.time
           b4 == b3 \o <<r.rescue_policy_tag>>
           w == t \o b4
<1>6. EncodeRecord(r) = w
  <2>1. r.kind = "MigrationStart"
    BY DEF MigrationStart
  <2>2. RecordBody(r) = LE(r.source, 4) \o LE(r.target, 4) \o r.time \o <<r.rescue_policy_tag>>
    BY <2>1 DEF RecordBody
  <2>3. WireTag[r.kind] = 3
    BY <2>1 DEF WireTag
  <2> QED BY <2>2, <2>3 DEF EncodeRecord
<1>7. /\ b2 \in Octets(8)
      /\ Occurs(b2, buf, 1) <=> Occurs(LE(r.source, 4), buf, 1) /\ Occurs(LE(r.target, 4), buf, 5)
  BY <1>1, <1>2, Two, SMTT(20)
<1> HIDE DEF b2
<1>8. /\ b3 \in Octets(16)
      /\ Occurs(b3, buf, 1) <=> Occurs(b2, buf, 1) /\ Occurs(r.time, buf, 9)
  BY <1>7, <1>3, Two
<1> HIDE DEF b3
<1>9. /\ b4 \in Octets(17)
      /\ Occurs(b4, buf, 1) <=> Occurs(b3, buf, 1) /\ Occurs(<<r.rescue_policy_tag>>, buf, 17)
  BY <1>8, <1>4, Two
<1> HIDE DEF b4
<1> HIDE DEF t
<1>10. /\ w \in Octets(18)
       /\ Occurs(w, buf, 0) <=> Occurs(t, buf, 0) /\ Occurs(b4, buf, 1)
  BY <1>5, <1>9, Two
<1> HIDE DEF w
<1> QED BY <1>6, <1>7, <1>8, <1>9, <1>10 DEF t

(* MigrationStart: decode returns the record that was encoded. *)
LEMMA StartRoundTrip ==
    ASSUME NEW r \in MigrationStart, NEW buf \in Seq(Byte),
           Occurs(EncodeRecord(r), buf, 0)
    PROVE  DecodeRecord(buf) = Ok(r, 18)
<1>1. /\ Occurs(<<3>>, buf, 0)
      /\ Occurs(LE(r.source, 4), buf, 1) /\ Occurs(LE(r.target, 4), buf, 5)
      /\ Occurs(r.time, buf, 9) /\ Occurs(<<r.rescue_policy_tag>>, buf, 17)
  BY StartFields
<1>2. Len(buf) \in Nat /\ Len(buf) >= 18 /\ buf[1] = 3
  <2>1. EncodeRecord(r) \in Octets(18)
    BY StartFields
  <2>2. Len(buf) \in Nat /\ 0 + 18 <= Len(buf)
    BY <2>1, OccursLen
  <2> QED BY <1>1, <2>2, OccursByte
<1>3. U32(buf, 1) = r.source
  BY <1>1, U32Read DEF MigrationStart
<1>4. U32(buf, 5) = r.target
  BY <1>1, U32Read DEF MigrationStart
<1>5. At(buf, 9, 8) = r.time
  BY <1>1, FieldRead DEF MigrationStart
<1>6. buf[18] = r.rescue_policy_tag
  BY <1>1, OccursByte
<1>7. r = [kind |-> "MigrationStart", source |-> r.source, target |-> r.target, time |-> r.time, rescue_policy_tag |-> r.rescue_policy_tag]
  BY DEF MigrationStart
<1>8. DecodeRecord(buf) = DecodeMigrationStart(buf)
  BY <1>2, RecordDecoder
<1> QED BY <1>2, <1>3, <1>4, <1>5, <1>6, <1>7, <1>8 DEF DecodeMigrationStart

(* MigrationStart: a record that decodes is encoded as the bytes read. *)
LEMMA StartCanonical ==
    ASSUME NEW buf \in Seq(Byte), buf # <<>>, buf[1] = 3, DecodeMigrationStart(buf).ok
    PROVE  /\ DecodeMigrationStart(buf).val \in MigrationStart /\ DecodeMigrationStart(buf).len = 18
           /\ DecodeMigrationStart(buf).val.kind = "MigrationStart" /\ Len(buf) >= 18
           /\ Occurs(EncodeRecord(DecodeMigrationStart(buf).val), buf, 0)
<1> DEFINE r == [kind |-> "MigrationStart", source |-> U32(buf, 1), target |-> U32(buf, 5), time |-> At(buf, 9, 8), rescue_policy_tag |-> buf[18]]
<1>1. /\ Len(buf) \in Nat /\ Len(buf) >= 18 /\ DecodeMigrationStart(buf) = Ok(r, 18)
  BY DEF DecodeMigrationStart, Truncated, Err
<1>2. Occurs(<<3>>, buf, 0)
  BY <1>1, OccursByte
<1>3. r.source \in 0 .. U32Max /\ Occurs(LE(r.source, 4), buf, 1)
  BY <1>1, U32Written
<1>4. r.target \in 0 .. U32Max /\ Occurs(LE(r.target, 4), buf, 5)
  BY <1>1, U32Written
<1>5. r.time \in Octets(8) /\ Occurs(r.time, buf, 9)
  BY <1>1, FieldWritten
<1>6. r.rescue_policy_tag \in Byte /\ Occurs(<<r.rescue_policy_tag>>, buf, 17)
  BY <1>1, OccursByte
<1>7. r \in MigrationStart /\ r.kind = "MigrationStart"
  BY <1>3, <1>4, <1>5, <1>6 DEF MigrationStart
<1> HIDE DEF r
<1>8. Occurs(EncodeRecord(r), buf, 0)
  BY <1>2, <1>3, <1>4, <1>5, <1>6, <1>7, StartFields
<1> QED BY <1>1, <1>7, <1>8 DEF Ok

(* MigrationEnd: the record lies where its fields do. *)
LEMMA EndFields ==
    ASSUME NEW r \in MigrationEnd, NEW buf \in Seq(Byte)
    PROVE  /\ EncodeRecord(r) \in Octets(18)
           /\ Occurs(EncodeRecord(r), buf, 0) <=>
                /\ Occurs(<<4>>, buf, 0)
                /\ Occurs(LE(r.source, 4), buf, 1) /\ Occurs(LE(r.target, 4), buf, 5)
                /\ Occurs(r.time, buf, 9) /\ Occurs(<<MigrationStatus[r.status]>>, buf, 17)
<1>1. LE(r.source, 4) \in Octets(4)
  BY LEType, U32MaxNat DEF MigrationEnd
<1>2. LE(r.target, 4) \in Octets(4)
  BY LEType, U32MaxNat DEF MigrationEnd
<1>3. r.time \in Octets(8)
  BY DEF MigrationEnd
<1>4. <<MigrationStatus[r.status]>> \in Octets(1)
  BY StatusType DEF MigrationEnd
<1> DEFINE t == <<4>>
<1>5. t \in Octets(1)
  BY TagType
<1> DEFINE b2 == LE(r.source, 4) \o LE(r.target, 4)
           b3 == b2 \o r.time
           b4 == b3 \o <<MigrationStatus[r.status]>>
           w == t \o b4
<1>6. EncodeRecord(r) = w
  <2>1. r.kind = "MigrationEnd"
    BY DEF MigrationEnd
  <2>2. RecordBody(r) = LE(r.source, 4) \o LE(r.target, 4) \o r.time \o <<MigrationStatus[r.status]>>
    BY <2>1 DEF RecordBody
  <2>3. WireTag[r.kind] = 4
    BY <2>1 DEF WireTag
  <2> QED BY <2>2, <2>3 DEF EncodeRecord
<1>7. /\ b2 \in Octets(8)
      /\ Occurs(b2, buf, 1) <=> Occurs(LE(r.source, 4), buf, 1) /\ Occurs(LE(r.target, 4), buf, 5)
  BY <1>1, <1>2, Two, SMTT(20)
<1> HIDE DEF b2
<1>8. /\ b3 \in Octets(16)
      /\ Occurs(b3, buf, 1) <=> Occurs(b2, buf, 1) /\ Occurs(r.time, buf, 9)
  BY <1>7, <1>3, Two
<1> HIDE DEF b3
<1>9. /\ b4 \in Octets(17)
      /\ Occurs(b4, buf, 1) <=> Occurs(b3, buf, 1) /\ Occurs(<<MigrationStatus[r.status]>>, buf, 17)
  BY <1>8, <1>4, Two
<1> HIDE DEF b4
<1> HIDE DEF t
<1>10. b4 \in Octets(17)
  BY <1>9
<1>11. /\ w \in Octets(18)
       /\ Occurs(w, buf, 0) <=> Occurs(t, buf, 0) /\ Occurs(b4, buf, 1)
  BY <1>5, <1>10, Two
<1> HIDE DEF w
<1> QED BY <1>6, <1>7, <1>8, <1>9, <1>11 DEF t

(* MigrationEnd: decode returns the record that was encoded. *)
LEMMA EndRoundTrip ==
    ASSUME NEW r \in MigrationEnd, NEW buf \in Seq(Byte),
           Occurs(EncodeRecord(r), buf, 0)
    PROVE  DecodeRecord(buf) = Ok(r, 18)
<1>1. /\ Occurs(<<4>>, buf, 0)
      /\ Occurs(LE(r.source, 4), buf, 1) /\ Occurs(LE(r.target, 4), buf, 5)
      /\ Occurs(r.time, buf, 9) /\ Occurs(<<MigrationStatus[r.status]>>, buf, 17)
  BY EndFields
<1>2. Len(buf) \in Nat /\ Len(buf) >= 18 /\ buf[1] = 4
  <2>1. EncodeRecord(r) \in Octets(18)
    BY EndFields
  <2>2. Len(buf) \in Nat /\ 0 + 18 <= Len(buf)
    BY <2>1, OccursLen
  <2> QED BY <1>1, <2>2, OccursByte
<1>3. U32(buf, 1) = r.source
  BY <1>1, U32Read DEF MigrationEnd
<1>4. U32(buf, 5) = r.target
  BY <1>1, U32Read DEF MigrationEnd
<1>5. At(buf, 9, 8) = r.time
  BY <1>1, FieldRead DEF MigrationEnd
<1>6. buf[18] \in {1, 2} /\ StatusFrom(buf[18]) = r.status
  BY <1>1, StatusRead DEF MigrationEnd
<1>7. r = [kind |-> "MigrationEnd", source |-> r.source, target |-> r.target, time |-> r.time, status |-> r.status]
  BY DEF MigrationEnd
<1>8. DecodeRecord(buf) = DecodeMigrationEnd(buf)
  BY <1>2, RecordDecoder
<1> QED BY <1>2, <1>3, <1>4, <1>5, <1>6, <1>7, <1>8 DEF DecodeMigrationEnd

(* MigrationEnd: a record that decodes is encoded as the bytes read. *)
LEMMA EndCanonical ==
    ASSUME NEW buf \in Seq(Byte), buf # <<>>, buf[1] = 4, DecodeMigrationEnd(buf).ok
    PROVE  /\ DecodeMigrationEnd(buf).val \in MigrationEnd /\ DecodeMigrationEnd(buf).len = 18
           /\ DecodeMigrationEnd(buf).val.kind = "MigrationEnd" /\ Len(buf) >= 18
           /\ Occurs(EncodeRecord(DecodeMigrationEnd(buf).val), buf, 0)
<1> DEFINE r == [kind |-> "MigrationEnd", source |-> U32(buf, 1), target |-> U32(buf, 5), time |-> At(buf, 9, 8), status |-> StatusFrom(buf[18])]
<1>1. /\ Len(buf) \in Nat /\ Len(buf) >= 18 /\ DecodeMigrationEnd(buf) = Ok(r, 18) /\ buf[18] \in {1, 2}
  BY DEF DecodeMigrationEnd, Truncated, Err
<1>2. Occurs(<<4>>, buf, 0)
  BY <1>1, OccursByte
<1>3. r.source \in 0 .. U32Max /\ Occurs(LE(r.source, 4), buf, 1)
  BY <1>1, U32Written
<1>4. r.target \in 0 .. U32Max /\ Occurs(LE(r.target, 4), buf, 5)
  BY <1>1, U32Written
<1>5. r.time \in Octets(8) /\ Occurs(r.time, buf, 9)
  BY <1>1, FieldWritten
<1>6. r.status \in {"Complete", "Interrupted"} /\ Occurs(<<MigrationStatus[r.status]>>, buf, 17)
  <2> DEFINE o == 17
             z == StatusFrom(buf[o + 1])
  <2>1. r.status = z /\ o \in Nat /\ o + 1 <= Len(buf) /\ buf[o + 1] \in {1, 2}
    BY <1>1
  <2> HIDE DEF o, r
  <2>2. z \in {"Complete", "Interrupted"} /\ Occurs(<<MigrationStatus[z]>>, buf, o)
    BY <2>1, StatusWritten
  <2> HIDE DEF z
  <2> QED BY <2>1, <2>2 DEF o
<1>7. r \in MigrationEnd /\ r.kind = "MigrationEnd"
  BY <1>3, <1>4, <1>5, <1>6 DEF MigrationEnd
<1> HIDE DEF r
<1>8. Occurs(EncodeRecord(r), buf, 0)
  BY <1>2, <1>3, <1>4, <1>5, <1>6, <1>7, EndFields
<1> QED BY <1>1, <1>7, <1>8 DEF Ok

(* InboundPointer: the record lies where its fields do. *)
LEMMA InboundFields ==
    ASSUME NEW r \in Pointer({"InboundPointer", "OutboundPointer"}), r.kind = "InboundPointer", NEW buf \in Seq(Byte)
    PROVE  /\ EncodeRecord(r) \in Octets(25)
           /\ Occurs(EncodeRecord(r), buf, 0) <=>
                /\ Occurs(<<5>>, buf, 0)
                /\ Occurs(r.locator_id, buf, 1) /\ Occurs(r.epoch, buf, 17)
<1>1. r.locator_id \in Octets(16)
  BY DEF Pointer
<1>2. r.epoch \in Octets(8)
  BY DEF Pointer
<1> DEFINE t == <<5>>
<1>3. t \in Octets(1)
  BY TagType
<1> DEFINE b2 == r.locator_id \o r.epoch
           w == t \o b2
<1>4. EncodeRecord(r) = w
  <2>1. r.kind = "InboundPointer"
    BY DEF Pointer
  <2>2. RecordBody(r) = r.locator_id \o r.epoch
    BY <2>1 DEF RecordBody
  <2>3. WireTag[r.kind] = 5
    BY <2>1 DEF WireTag
  <2> QED BY <2>2, <2>3 DEF EncodeRecord
<1>5. /\ b2 \in Octets(24)
      /\ Occurs(b2, buf, 1) <=> Occurs(r.locator_id, buf, 1) /\ Occurs(r.epoch, buf, 17)
  BY <1>1, <1>2, Two, SMTT(20)
<1> HIDE DEF b2
<1> HIDE DEF t
<1>6. /\ w \in Octets(25)
      /\ Occurs(w, buf, 0) <=> Occurs(t, buf, 0) /\ Occurs(b2, buf, 1)
  BY <1>3, <1>5, Two
<1> HIDE DEF w
<1> QED BY <1>4, <1>5, <1>6 DEF t

(* InboundPointer: decode returns the record that was encoded. *)
LEMMA InboundRoundTrip ==
    ASSUME NEW r \in Pointer({"InboundPointer", "OutboundPointer"}), r.kind = "InboundPointer", NEW buf \in Seq(Byte),
           Occurs(EncodeRecord(r), buf, 0)
    PROVE  DecodeRecord(buf) = Ok(r, 25)
<1>1. /\ Occurs(<<5>>, buf, 0)
      /\ Occurs(r.locator_id, buf, 1) /\ Occurs(r.epoch, buf, 17)
  BY InboundFields
<1>2. Len(buf) \in Nat /\ Len(buf) >= 25 /\ buf[1] = 5
  <2>1. EncodeRecord(r) \in Octets(25)
    BY InboundFields
  <2>2. Len(buf) \in Nat /\ 0 + 25 <= Len(buf)
    BY <2>1, OccursLen
  <2> QED BY <1>1, <2>2, OccursByte
<1>3. At(buf, 1, 16) = r.locator_id
  BY <1>1, FieldRead DEF Pointer
<1>4. At(buf, 17, 8) = r.epoch
  BY <1>1, FieldRead DEF Pointer
<1>5. r = [kind |-> "InboundPointer", locator_id |-> r.locator_id, epoch |-> r.epoch]
  BY DEF Pointer
<1>6. DecodeRecord(buf) = DecodePointer(buf, "InboundPointer")
  BY <1>2, RecordDecoder
<1> QED BY <1>2, <1>3, <1>4, <1>5, <1>6 DEF DecodePointer

(* InboundPointer: a record that decodes is encoded as the bytes read. *)
LEMMA InboundCanonical ==
    ASSUME NEW buf \in Seq(Byte), buf # <<>>, buf[1] = 5, DecodePointer(buf, "InboundPointer").ok
    PROVE  /\ DecodePointer(buf, "InboundPointer").val \in Pointer({"InboundPointer", "OutboundPointer"}) /\ DecodePointer(buf, "InboundPointer").len = 25
           /\ DecodePointer(buf, "InboundPointer").val.kind = "InboundPointer" /\ Len(buf) >= 25
           /\ Occurs(EncodeRecord(DecodePointer(buf, "InboundPointer").val), buf, 0)
<1> DEFINE r == [kind |-> "InboundPointer", locator_id |-> At(buf, 1, 16), epoch |-> At(buf, 17, 8)]
<1>1. /\ Len(buf) \in Nat /\ Len(buf) >= 25 /\ DecodePointer(buf, "InboundPointer") = Ok(r, 25)
  BY DEF DecodePointer, Truncated, Err
<1>2. Occurs(<<5>>, buf, 0)
  BY <1>1, OccursByte
<1>3. r.locator_id \in Octets(16) /\ Occurs(r.locator_id, buf, 1)
  BY <1>1, FieldWritten
<1>4. r.epoch \in Octets(8) /\ Occurs(r.epoch, buf, 17)
  BY <1>1, FieldWritten
<1>5. r \in Pointer({"InboundPointer", "OutboundPointer"}) /\ r.kind = "InboundPointer"
  BY <1>3, <1>4 DEF Pointer
<1> HIDE DEF r
<1>6. Occurs(EncodeRecord(r), buf, 0)
  BY <1>2, <1>3, <1>4, <1>5, InboundFields
<1> QED BY <1>1, <1>5, <1>6 DEF Ok

(* OutboundPointer: the record lies where its fields do. *)
LEMMA OutboundFields ==
    ASSUME NEW r \in Pointer({"InboundPointer", "OutboundPointer"}), r.kind = "OutboundPointer", NEW buf \in Seq(Byte)
    PROVE  /\ EncodeRecord(r) \in Octets(25)
           /\ Occurs(EncodeRecord(r), buf, 0) <=>
                /\ Occurs(<<6>>, buf, 0)
                /\ Occurs(r.locator_id, buf, 1) /\ Occurs(r.epoch, buf, 17)
<1>1. r.locator_id \in Octets(16)
  BY DEF Pointer
<1>2. r.epoch \in Octets(8)
  BY DEF Pointer
<1> DEFINE t == <<6>>
<1>3. t \in Octets(1)
  BY TagType
<1> DEFINE b2 == r.locator_id \o r.epoch
           w == t \o b2
<1>4. EncodeRecord(r) = w
  <2>1. r.kind = "OutboundPointer"
    BY DEF Pointer
  <2>2. RecordBody(r) = r.locator_id \o r.epoch
    BY <2>1 DEF RecordBody
  <2>3. WireTag[r.kind] = 6
    BY <2>1 DEF WireTag
  <2> QED BY <2>2, <2>3 DEF EncodeRecord
<1>5. /\ b2 \in Octets(24)
      /\ Occurs(b2, buf, 1) <=> Occurs(r.locator_id, buf, 1) /\ Occurs(r.epoch, buf, 17)
  BY <1>1, <1>2, Two, SMTT(20)
<1> HIDE DEF b2
<1> HIDE DEF t
<1>6. /\ w \in Octets(25)
      /\ Occurs(w, buf, 0) <=> Occurs(t, buf, 0) /\ Occurs(b2, buf, 1)
  BY <1>3, <1>5, Two
<1> HIDE DEF w
<1> QED BY <1>4, <1>5, <1>6 DEF t

(* OutboundPointer: decode returns the record that was encoded. *)
LEMMA OutboundRoundTrip ==
    ASSUME NEW r \in Pointer({"InboundPointer", "OutboundPointer"}), r.kind = "OutboundPointer", NEW buf \in Seq(Byte),
           Occurs(EncodeRecord(r), buf, 0)
    PROVE  DecodeRecord(buf) = Ok(r, 25)
<1>1. /\ Occurs(<<6>>, buf, 0)
      /\ Occurs(r.locator_id, buf, 1) /\ Occurs(r.epoch, buf, 17)
  BY OutboundFields
<1>2. Len(buf) \in Nat /\ Len(buf) >= 25 /\ buf[1] = 6
  <2>1. EncodeRecord(r) \in Octets(25)
    BY OutboundFields
  <2>2. Len(buf) \in Nat /\ 0 + 25 <= Len(buf)
    BY <2>1, OccursLen
  <2> QED BY <1>1, <2>2, OccursByte
<1>3. At(buf, 1, 16) = r.locator_id
  BY <1>1, FieldRead DEF Pointer
<1>4. At(buf, 17, 8) = r.epoch
  BY <1>1, FieldRead DEF Pointer
<1>5. r = [kind |-> "OutboundPointer", locator_id |-> r.locator_id, epoch |-> r.epoch]
  BY DEF Pointer
<1>6. DecodeRecord(buf) = DecodePointer(buf, "OutboundPointer")
  BY <1>2, RecordDecoder
<1> QED BY <1>2, <1>3, <1>4, <1>5, <1>6 DEF DecodePointer

(* OutboundPointer: a record that decodes is encoded as the bytes read. *)
LEMMA OutboundCanonical ==
    ASSUME NEW buf \in Seq(Byte), buf # <<>>, buf[1] = 6, DecodePointer(buf, "OutboundPointer").ok
    PROVE  /\ DecodePointer(buf, "OutboundPointer").val \in Pointer({"InboundPointer", "OutboundPointer"}) /\ DecodePointer(buf, "OutboundPointer").len = 25
           /\ DecodePointer(buf, "OutboundPointer").val.kind = "OutboundPointer" /\ Len(buf) >= 25
           /\ Occurs(EncodeRecord(DecodePointer(buf, "OutboundPointer").val), buf, 0)
<1> DEFINE r == [kind |-> "OutboundPointer", locator_id |-> At(buf, 1, 16), epoch |-> At(buf, 17, 8)]
<1>1. /\ Len(buf) \in Nat /\ Len(buf) >= 25 /\ DecodePointer(buf, "OutboundPointer") = Ok(r, 25)
  BY DEF DecodePointer, Truncated, Err
<1>2. Occurs(<<6>>, buf, 0)
  BY <1>1, OccursByte
<1>3. r.locator_id \in Octets(16) /\ Occurs(r.locator_id, buf, 1)
  BY <1>1, FieldWritten
<1>4. r.epoch \in Octets(8) /\ Occurs(r.epoch, buf, 17)
  BY <1>1, FieldWritten
<1>5. r \in Pointer({"InboundPointer", "OutboundPointer"}) /\ r.kind = "OutboundPointer"
  BY <1>3, <1>4 DEF Pointer
<1> HIDE DEF r
<1>6. Occurs(EncodeRecord(r), buf, 0)
  BY <1>2, <1>3, <1>4, <1>5, OutboundFields
<1> QED BY <1>1, <1>5, <1>6 DEF Ok
-----------------------------------------------------------------------------
(* Ownership records with a field of their own length. *)
LEMMA PrefixedFields ==
    ASSUME NEW s \in Text, NEW buf \in Seq(Byte), NEW off \in Nat
    PROVE  /\ Len(s) \in 0 .. U32Max /\ s \in Octets(Len(s))
           /\ EncodePrefixed(s) \in Octets(4 + Len(s))
           /\ Occurs(EncodePrefixed(s), buf, off) <=>
                Occurs(LE(Len(s), 4), buf, off) /\ Occurs(s, buf, off + 4)
<1> DEFINE n == Len(s)
<1>1. n \in Nat /\ n <= U32Max /\ s \in Octets(n)
  BY SeqOctets DEF Text
<1>2. LE(n, 4) \in Octets(4)
  BY <1>1, LEType
<1>3. EncodePrefixed(s) = LE(n, 4) \o s
  BY DEF EncodePrefixed
<1> HIDE DEF n
<1>4. /\ LE(n, 4) \o s \in Octets(4 + n)
      /\ Occurs(LE(n, 4) \o s, buf, off) <=> Occurs(LE(n, 4), buf, off) /\ Occurs(s, buf, off + 4)
  BY <1>1, <1>2, Two, SMTT(20)
<1>5. n \in 0 .. U32Max
  BY <1>1, U32MaxNat
<1> QED BY <1>1, <1>3, <1>4, <1>5 DEF n

(* A string behind its length is read as it was written. *)
LEMMA PrefixedRead ==
    ASSUME NEW s \in Text, NEW buf \in Seq(Byte), NEW off \in Nat,
           Occurs(EncodePrefixed(s), buf, off)
    PROVE  /\ U32(buf, off) = Len(s) /\ Len(s) \in Nat
           /\ At(buf, off + 4, Len(s)) = s
           /\ off + 4 + Len(s) <= Len(buf)
<1>1. /\ Occurs(LE(Len(s), 4), buf, off) /\ Occurs(s, buf, off + 4)
      /\ Len(s) \in 0 .. U32Max /\ s \in Octets(Len(s)) /\ Len(s) \in Nat
  BY PrefixedFields, U32MaxNat
<1>2. U32(buf, off) = Len(s)
  BY <1>1, U32Read
<1>3. At(buf, off + 4, Len(s)) = s
  BY <1>1, FieldRead
<1>4. (off + 4) + Len(s) <= Len(buf)
  BY <1>1, OccursLen
<1> QED BY <1>1, <1>2, <1>3, <1>4

(* The length and the string that were read lie where they were read. *)
LEMMA PrefixedWritten ==
    ASSUME NEW buf \in Seq(Byte), NEW off \in Nat, off + 4 <= Len(buf),
           off + 4 + U32(buf, off) <= Len(buf)
    PROVE  LET s == At(buf, off + 4, U32(buf, off)) IN
           /\ s \in Text /\ Len(s) = U32(buf, off) /\ U32(buf, off) \in Nat
           /\ Occurs(EncodePrefixed(s), buf, off)
<1> DEFINE n == U32(buf, off)
           s == At(buf, off + 4, n)
<1>1. n \in 0 .. U32Max /\ n \in Nat /\ Occurs(LE(n, 4), buf, off)
  BY U32Written, U32MaxNat
<1> HIDE DEF n
<1>2. (off + 4) + n <= Len(buf) /\ off + 4 \in Nat
  BY DEF n
<1>3. s \in Seq(Byte) /\ Len(s) = n /\ Occurs(s, buf, off + 4)
  BY <1>1, <1>2, AtOccurs
<1>4. s \in Text
  BY <1>1, <1>3 DEF Text
<1> HIDE DEF s
<1>5. Occurs(EncodePrefixed(s), buf, off)
  BY <1>1, <1>3, <1>4, PrefixedFields
<1> QED BY <1>1, <1>3, <1>4, <1>5 DEF s, n

(* OwnershipClaim: the record lies where its fields do. *)
LEMMA ClaimFields ==
    ASSUME NEW r \in OwnershipClaim, NEW buf \in Seq(Byte)
    PROVE  /\ EncodeRecord(r) \in Octets(69 + Len(r.operator_label))
           /\ Occurs(EncodeRecord(r), buf, 0) <=>
                /\ Occurs(<<1>>, buf, 0)
                /\ Occurs(r.epoch, buf, 1) /\ Occurs(r.machine_id, buf, 9)
                /\ Occurs(r.boot_id, buf, 25) /\ Occurs(r.process_id, buf, 41)
                /\ Occurs(r.process_start_time, buf, 49) /\ Occurs(r.claim_time, buf, 57)
                /\ Occurs(EncodePrefixed(r.operator_label), buf, 65)
<1>1. r.epoch \in Octets(8)
  BY DEF OwnershipClaim
<1>2. r.machine_id \in Octets(16)
  BY DEF OwnershipClaim
<1>3. r.boot_id \in Octets(16)
  BY DEF OwnershipClaim
<1>4. r.process_id \in Octets(8)
  BY DEF OwnershipClaim
<1>5. r.process_start_time \in Octets(8)
  BY DEF OwnershipClaim
<1>6. r.claim_time \in Octets(8)
  BY DEF OwnershipClaim
<1> DEFINE p == EncodePrefixed(r.operator_label)
           n == Len(r.operator_label)
           k == 4 + n
<1>7. n \in Nat /\ k \in Nat /\ p \in Octets(k)
  <2>1. r.operator_label \in Text
    BY DEF OwnershipClaim
  <2>2. n \in 0 .. U32Max /\ p \in Octets(k)
    BY <2>1, PrefixedFields
  <2> QED BY <2>2, U32MaxNat
<1> DEFINE t == <<1>>
<1>8. t \in Octets(1)
  BY TagType
<1> DEFINE b2 == r.epoch \o r.machine_id
           b3 == b2 \o r.boot_id
           b4 == b3 \o r.process_id
           b5 == b4 \o r.process_start_time
           b6 == b5 \o r.claim_time
           b7 == b6 \o p
           w == t \o b7
<1>9. EncodeRecord(r) = w
  <2>1. r.kind = "OwnershipClaim"
    BY DEF OwnershipClaim
  <2>2. RecordBody(r) = r.epoch \o r.machine_id \o r.boot_id \o r.process_id
                        \o r.process_start_time \o r.claim_time \o p
    BY <2>1 DEF RecordBody
  <2>3. WireTag[r.kind] = 1
    BY <2>1 DEF WireTag
  <2> QED BY <2>2, <2>3 DEF EncodeRecord
<1> HIDE DEF t, p, n, k
<1>10. /\ b2 \in Octets(24)
       /\ Occurs(b2, buf, 1) <=> Occurs(r.epoch, buf, 1) /\ Occurs(r.machine_id, buf, 9)
  BY <1>1, <1>2, Two, SMTT(20)
<1> HIDE DEF b2
<1>11. /\ b3 \in Octets(40)
       /\ Occurs(b3, buf, 1) <=> Occurs(b2, buf, 1) /\ Occurs(r.boot_id, buf, 25)
  <2>1. b2 \in Octets(24)
    BY <1>10
  <2> QED BY <2>1, <1>3, Two
<1> HIDE DEF b3
<1>12. /\ b4 \in Octets(48)
       /\ Occurs(b4, buf, 1) <=> Occurs(b3, buf, 1) /\ Occurs(r.process_id, buf, 41)
  <2>1. b3 \in Octets(40)
    BY <1>11
  <2> QED BY <2>1, <1>4, Two
<1> HIDE DEF b4
<1>13. /\ b5 \in Octets(56)
       /\ Occurs(b5, buf, 1) <=> Occurs(b4, buf, 1) /\ Occurs(r.process_start_time, buf, 49)
  <2>1. b4 \in Octets(48)
    BY <1>12
  <2> QED BY <2>1, <1>5, Two
<1> HIDE DEF b5
<1>14. /\ b6 \in Octets(64)
       /\ Occurs(b6, buf, 1) <=> Occurs(b5, buf, 1) /\ Occurs(r.claim_time, buf, 57)
  <2>1. b5 \in Octets(56)
    BY <1>13
  <2> QED BY <2>1, <1>6, Two
<1> HIDE DEF b6
<1>15. /\ b7 \in Octets(64 + k) /\ 64 + k \in Nat
       /\ Occurs(b7, buf, 1) <=> Occurs(b6, buf, 1) /\ Occurs(p, buf, 65)
  <2>1. b6 \in Octets(64)
    BY <1>14
  <2>2. k \in Nat /\ p \in Octets(k)
    BY <1>7
  <2> QED BY <2>1, <2>2, Two
<1> HIDE DEF b7
<1>16. /\ w \in Octets(1 + (64 + k))
       /\ Occurs(w, buf, 0) <=> Occurs(t, buf, 0) /\ Occurs(b7, buf, 1)
  <2>1. b7 \in Octets(64 + k) /\ 64 + k \in Nat
    BY <1>15
  <2> QED BY <1>8, <2>1, Two
<1> HIDE DEF w
<1>17. 1 + (64 + k) = 69 + n
  BY <1>7 DEF k
<1> QED BY <1>9, <1>10, <1>11, <1>12, <1>13, <1>14, <1>15, <1>16, <1>17 DEF t, p, n

(* OwnershipClaim: decode returns the record that was encoded. *)
LEMMA ClaimRoundTrip ==
    ASSUME NEW r \in OwnershipClaim, NEW buf \in Seq(Byte),
           Occurs(EncodeRecord(r), buf, 0)
    PROVE  DecodeRecord(buf) = Ok(r, 69 + Len(r.operator_label))
<1> DEFINE n == Len(r.operator_label)
<1>1. /\ Occurs(<<1>>, buf, 0)
      /\ Occurs(r.epoch, buf, 1) /\ Occurs(r.machine_id, buf, 9)
      /\ Occurs(r.boot_id, buf, 25) /\ Occurs(r.process_id, buf, 41)
      /\ Occurs(r.process_start_time, buf, 49) /\ Occurs(r.claim_time, buf, 57)
      /\ Occurs(EncodePrefixed(r.operator_label), buf, 65)
  BY ClaimFields
<1>2. r.operator_label \in Text /\ IsUtf8(r.operator_label)
  BY DEF OwnershipClaim
<1>3. U32(buf, 65) = n /\ n \in Nat /\ At(buf, 69, n) = r.operator_label /\ 69 + n <= Len(buf)
  BY <1>1, <1>2, PrefixedRead
<1>4. At(buf, 1, 8) = r.epoch /\ At(buf, 9, 16) = r.machine_id /\ At(buf, 25, 16) = r.boot_id
  BY <1>1, FieldRead DEF OwnershipClaim
<1>5. /\ At(buf, 41, 8) = r.process_id /\ At(buf, 49, 8) = r.process_start_time
      /\ At(buf, 57, 8) = r.claim_time
  BY <1>1, FieldRead DEF OwnershipClaim
<1>6. r = [kind |-> "OwnershipClaim", epoch |-> r.epoch, machine_id |-> r.machine_id,
           boot_id |-> r.boot_id, process_id |-> r.process_id,
           process_start_time |-> r.process_start_time, claim_time |-> r.claim_time,
           operator_label |-> r.operator_label]
  BY DEF OwnershipClaim
<1> HIDE DEF n
<1>7. Len(buf) \in Nat /\ Len(buf) >= 69 /\ buf[1] = 1 /\ (69 + n) - 69 = n
  BY <1>1, <1>3, OccursByte
<1>8. DecodeRecord(buf) = DecodeClaim(buf)
  BY <1>7, RecordDecoder
<1>9. DecodeClaim(buf) = Ok(r, 69 + n)
  BY <1>2, <1>3, <1>4, <1>5, <1>6, <1>7 DEF DecodeClaim
<1> QED BY <1>8, <1>9 DEF n

(* OwnershipClaim: a record that decodes is encoded as the bytes read. *)
LEMMA ClaimCanonical ==
    ASSUME NEW buf \in Seq(Byte), buf # <<>>, buf[1] = 1, DecodeClaim(buf).ok
    PROVE  LET r == DecodeClaim(buf).val IN
           /\ r \in OwnershipClaim /\ DecodeClaim(buf).len = 69 + Len(r.operator_label)
           /\ r.kind = "OwnershipClaim" /\ DecodeClaim(buf).len <= Len(buf)
           /\ Occurs(EncodeRecord(r), buf, 0)
<1> DEFINE n == U32(buf, 65)
           label == At(buf, 69, n)
           r == [kind |-> "OwnershipClaim", epoch |-> At(buf, 1, 8),
                 machine_id |-> At(buf, 9, 16), boot_id |-> At(buf, 25, 16),
                 process_id |-> At(buf, 41, 8), process_start_time |-> At(buf, 49, 8),
                 claim_time |-> At(buf, 57, 8), operator_label |-> label]
<1>1. Len(buf) \in Nat /\ Len(buf) >= 69
  BY DEF DecodeClaim, Truncated, Err
<1>2. n \in Nat /\ (69 + n) - 69 = n
  BY <1>1, U32Written, U32MaxNat
<1>3. Len(buf) >= 69 + n /\ IsUtf8(label) /\ DecodeClaim(buf) = Ok(r, 69 + n)
  <2> HIDE DEF n
  <2> QED BY <1>1, <1>2 DEF DecodeClaim, Truncated, Err, n
<1>4. label \in Text /\ Len(label) = n /\ Occurs(EncodePrefixed(label), buf, 65)
  BY <1>1, <1>2, <1>3, PrefixedWritten
<1>5. Occurs(<<1>>, buf, 0)
  BY <1>1, OccursByte
<1>6. /\ At(buf, 1, 8) \in Octets(8) /\ Occurs(At(buf, 1, 8), buf, 1)
      /\ At(buf, 9, 16) \in Octets(16) /\ Occurs(At(buf, 9, 16), buf, 9)
      /\ At(buf, 25, 16) \in Octets(16) /\ Occurs(At(buf, 25, 16), buf, 25)
  BY <1>1, FieldWritten
<1>7. /\ At(buf, 41, 8) \in Octets(8) /\ Occurs(At(buf, 41, 8), buf, 41)
      /\ At(buf, 49, 8) \in Octets(8) /\ Occurs(At(buf, 49, 8), buf, 49)
      /\ At(buf, 57, 8) \in Octets(8) /\ Occurs(At(buf, 57, 8), buf, 57)
  BY <1>1, FieldWritten
<1> HIDE DEF label, n
<1>8. r \in OwnershipClaim /\ r.kind = "OwnershipClaim" /\ r.operator_label = label
  BY <1>3, <1>4, <1>6, <1>7 DEF OwnershipClaim
<1>9. /\ Occurs(r.epoch, buf, 1) /\ Occurs(r.machine_id, buf, 9)
      /\ Occurs(r.boot_id, buf, 25) /\ Occurs(r.process_id, buf, 41)
      /\ Occurs(r.process_start_time, buf, 49) /\ Occurs(r.claim_time, buf, 57)
      /\ Occurs(EncodePrefixed(r.operator_label), buf, 65)
  BY <1>4, <1>6, <1>7
<1> HIDE DEF r
<1>10. Occurs(EncodeRecord(r), buf, 0)
  BY <1>5, <1>8, <1>9, ClaimFields
<1> QED BY <1>1, <1>2, <1>3, <1>4, <1>8, <1>10 DEF Ok

(* RescuePolicyChoice: the record lies where its fields do. *)
LEMMA RescueFields ==
    ASSUME NEW r \in RescuePolicyChoice, NEW buf \in Seq(Byte)
    PROVE  /\ EncodeRecord(r) \in Octets(6 + Len(r.parameters))
           /\ Occurs(EncodeRecord(r), buf, 0) <=>
                /\ Occurs(<<7>>, buf, 0) /\ Occurs(<<r.policy_tag>>, buf, 1)
                /\ Occurs(EncodePrefixed(r.parameters), buf, 2)
<1> DEFINE p == EncodePrefixed(r.parameters)
           n == Len(r.parameters)
           k == 4 + n
           t == <<7>>
           g == <<r.policy_tag>>
           b == g \o p
           w == t \o b
<1>1. n \in Nat /\ k \in Nat /\ p \in Octets(k)
  <2>1. r.parameters \in Text
    BY DEF RescuePolicyChoice
  <2>2. n \in 0 .. U32Max /\ p \in Octets(k)
    BY <2>1, PrefixedFields
  <2> QED BY <2>2, U32MaxNat
<1>2. t \in Octets(1)
  BY TagType
<1>3. g \in Octets(1)
  BY ByteType DEF RescuePolicyChoice
<1>4. EncodeRecord(r) = w
  <2>1. r.kind = "RescuePolicyChoice"
    BY DEF RescuePolicyChoice
  <2>2. RecordBody(r) = g \o p
    BY <2>1 DEF RecordBody
  <2>3. WireTag[r.kind] = 7
    BY <2>1 DEF WireTag
  <2> QED BY <2>2, <2>3 DEF EncodeRecord
<1> HIDE DEF t, g, p, n, k
<1>5. /\ b \in Octets(1 + k) /\ 1 + k \in Nat
      /\ Occurs(b, buf, 1) <=> Occurs(g, buf, 1) /\ Occurs(p, buf, 2)
  BY <1>1, <1>3, Two
<1> HIDE DEF b
<1>6. /\ w \in Octets(1 + (1 + k))
      /\ Occurs(w, buf, 0) <=> Occurs(t, buf, 0) /\ Occurs(b, buf, 1)
  <2>1. b \in Octets(1 + k) /\ 1 + k \in Nat
    BY <1>5
  <2> QED BY <1>2, <2>1, Two
<1> HIDE DEF w
<1>7. 1 + (1 + k) = 6 + n
  BY <1>1 DEF k
<1> QED BY <1>4, <1>5, <1>6, <1>7 DEF t, g, p, n

(* RescuePolicyChoice: decode returns the record that was encoded. *)
LEMMA RescueRoundTrip ==
    ASSUME NEW r \in RescuePolicyChoice, NEW buf \in Seq(Byte),
           Occurs(EncodeRecord(r), buf, 0)
    PROVE  DecodeRecord(buf) = Ok(r, 6 + Len(r.parameters))
<1> DEFINE n == Len(r.parameters)
<1>1. /\ Occurs(<<7>>, buf, 0) /\ Occurs(<<r.policy_tag>>, buf, 1)
      /\ Occurs(EncodePrefixed(r.parameters), buf, 2)
  BY RescueFields
<1>2. r.parameters \in Text
  BY DEF RescuePolicyChoice
<1>3. U32(buf, 2) = n /\ n \in Nat /\ At(buf, 6, n) = r.parameters /\ 6 + n <= Len(buf)
  BY <1>1, <1>2, PrefixedRead
<1>4. r = [kind |-> "RescuePolicyChoice", policy_tag |-> r.policy_tag, parameters |-> r.parameters]
  BY DEF RescuePolicyChoice
<1> HIDE DEF n
<1>5. /\ Len(buf) \in Nat /\ Len(buf) >= 6 /\ (6 + n) - 6 = n
      /\ buf[1] = 7 /\ buf[2] = r.policy_tag
  BY <1>1, <1>3, OccursByte
<1>6. DecodeRecord(buf) = DecodeRescueChoice(buf)
  BY <1>5, RecordDecoder
<1>7. DecodeRescueChoice(buf) = Ok(r, 6 + n)
  BY <1>3, <1>4, <1>5 DEF DecodeRescueChoice
<1> QED BY <1>6, <1>7 DEF n

(* RescuePolicyChoice: a record that decodes is encoded as the bytes read. *)
LEMMA RescueCanonical ==
    ASSUME NEW buf \in Seq(Byte), buf # <<>>, buf[1] = 7, DecodeRescueChoice(buf).ok
    PROVE  LET r == DecodeRescueChoice(buf).val IN
           /\ r \in RescuePolicyChoice /\ DecodeRescueChoice(buf).len = 6 + Len(r.parameters)
           /\ r.kind = "RescuePolicyChoice" /\ DecodeRescueChoice(buf).len <= Len(buf)
           /\ Occurs(EncodeRecord(r), buf, 0)
<1> DEFINE n == U32(buf, 2)
           params == At(buf, 6, n)
           r == [kind |-> "RescuePolicyChoice", policy_tag |-> buf[2], parameters |-> params]
<1>1. Len(buf) \in Nat /\ Len(buf) >= 6
  BY DEF DecodeRescueChoice, Truncated, Err
<1>2. n \in Nat /\ (6 + n) - 6 = n
  BY <1>1, U32Written, U32MaxNat
<1>3. Len(buf) >= 6 + n /\ DecodeRescueChoice(buf) = Ok(r, 6 + n)
  <2> HIDE DEF n
  <2> QED BY <1>1, <1>2 DEF DecodeRescueChoice, Truncated, Err, n
<1>4. params \in Text /\ Len(params) = n /\ Occurs(EncodePrefixed(params), buf, 2)
  BY <1>1, <1>2, <1>3, PrefixedWritten
<1>5. Occurs(<<7>>, buf, 0) /\ Occurs(<<buf[2]>>, buf, 1) /\ buf[2] \in Byte
  BY <1>1, OccursByte
<1> HIDE DEF params, n
<1>6. r \in RescuePolicyChoice /\ r.kind = "RescuePolicyChoice" /\ r.parameters = params
  BY <1>4, <1>5 DEF RescuePolicyChoice
<1>7. Occurs(<<r.policy_tag>>, buf, 1) /\ Occurs(EncodePrefixed(r.parameters), buf, 2)
  BY <1>4, <1>5
<1> HIDE DEF r
<1>8. Occurs(EncodeRecord(r), buf, 0)
  BY <1>5, <1>6, <1>7, RescueFields
<1> QED BY <1>1, <1>2, <1>3, <1>4, <1>6, <1>8 DEF Ok

(* The rest of a buffer. *)
LEMMA RestOf ==
    ASSUME NEW S, NEW buf \in Seq(S), NEW off \in Nat, off <= Len(buf)
    PROVE  /\ From(buf, off) = At(buf, off, Len(buf) - off) /\ Len(buf) - off \in Nat
           /\ From(buf, off) \in Seq(S) /\ Len(From(buf, off)) = Len(buf) - off
           /\ \A i \in 1 .. Len(buf) - off : From(buf, off)[i] = buf[off + i]
<1> DEFINE n == Len(buf) - off
<1>1. n \in Nat /\ off + n = Len(buf)
  OBVIOUS
<1>2. From(buf, off) = At(buf, off, n)
  BY <1>1 DEF From, At
<1>3. /\ At(buf, off, n) \in Seq(S) /\ Len(At(buf, off, n)) = n
      /\ \A i \in 1 .. n : At(buf, off, n)[i] = buf[off + i]
  <2> HIDE DEF n
  <2> QED BY <1>1, AtOccurs
<1> QED BY <1>1, <1>2, <1>3

(* SchemaDescriptor: the record lies where its fields do. *)
LEMMA DescriptorFields ==
    ASSUME NEW r \in SchemaDescriptor, NEW buf \in Seq(Byte)
    PROVE  /\ EncodeRecord(r) \in Octets(5 + Len(r.descriptor))
           /\ Occurs(EncodeRecord(r), buf, 0) <=>
                /\ Occurs(<<9>>, buf, 0) /\ Occurs(LE(r.schema_version, 4), buf, 1)
                /\ Occurs(r.descriptor, buf, 5)
<1> DEFINE v == LE(r.schema_version, 4)
           n == Len(r.descriptor)
           t == <<9>>
           b == v \o r.descriptor
           w == t \o b
<1>1. v \in Octets(4)
  BY LEType, U32MaxNat DEF SchemaDescriptor
<1>2. n \in Nat /\ r.descriptor \in Octets(n)
  BY SeqOctets DEF SchemaDescriptor
<1>3. t \in Octets(1)
  BY TagType
<1>4. EncodeRecord(r) = w
  <2>1. r.kind = "SchemaDescriptor"
    BY DEF SchemaDescriptor
  <2>2. RecordBody(r) = v \o r.descriptor
    BY <2>1 DEF RecordBody
  <2>3. WireTag[r.kind] = 9
    BY <2>1 DEF WireTag
  <2> QED BY <2>2, <2>3 DEF EncodeRecord
<1> HIDE DEF t, v, n
<1>5. /\ b \in Octets(4 + n) /\ 4 + n \in Nat
      /\ Occurs(b, buf, 1) <=> Occurs(v, buf, 1) /\ Occurs(r.descriptor, buf, 5)
  BY <1>1, <1>2, Two, SMTT(20)
<1> HIDE DEF b
<1>6. /\ w \in Octets(1 + (4 + n))
      /\ Occurs(w, buf, 0) <=> Occurs(t, buf, 0) /\ Occurs(b, buf, 1)
  <2>1. b \in Octets(4 + n) /\ 4 + n \in Nat
    BY <1>5
  <2> QED BY <1>3, <2>1, Two
<1> HIDE DEF w
<1>7. 1 + (4 + n) = 5 + n
  BY <1>2
<1> QED BY <1>4, <1>5, <1>6, <1>7 DEF t, v, n

(* The descriptor ends with its buffer. *)
LEMMA DescriptorRoundTrip ==
    ASSUME NEW r \in SchemaDescriptor, NEW buf \in Seq(Byte),
           Occurs(EncodeRecord(r), buf, 0), Len(buf) = Len(EncodeRecord(r))
    PROVE  DecodeRecord(buf) = Ok(r, 5 + Len(r.descriptor))
<1> DEFINE n == Len(r.descriptor)
<1>1. /\ Occurs(<<9>>, buf, 0) /\ Occurs(LE(r.schema_version, 4), buf, 1)
      /\ Occurs(r.descriptor, buf, 5) /\ EncodeRecord(r) \in Octets(5 + n)
  BY DescriptorFields
<1>2. n \in Nat /\ r.descriptor \in Octets(n) /\ r.schema_version \in 0 .. U32Max
  BY SeqOctets DEF SchemaDescriptor
<1>3. r = [kind |-> "SchemaDescriptor", schema_version |-> r.schema_version,
           descriptor |-> r.descriptor]
  BY DEF SchemaDescriptor
<1> HIDE DEF n
<1>4. Len(buf) = 5 + n
  <2>1. 5 + n \in Nat
    BY <1>2
  <2> QED BY <1>1, <2>1, OctetsSeq
<1>5. Len(buf) >= 5 /\ Len(buf) - 5 = n /\ buf[1] = 9
  BY <1>1, <1>2, <1>4, OccursByte
<1>6. U32(buf, 1) = r.schema_version
  BY <1>1, <1>2, U32Read
<1>7. From(buf, 5) = r.descriptor
  <2>1. From(buf, 5) = At(buf, 5, n)
    BY <1>5, RestOf
  <2> QED BY <1>1, <1>2, <2>1, FieldRead
<1>8. DecodeRecord(buf) = DecodeDescriptorRecord(buf)
  BY <1>5, RecordDecoder
<1>9. DecodeDescriptorRecord(buf) = Ok(r, 5 + n)
  BY <1>3, <1>4, <1>5, <1>6, <1>7 DEF DecodeDescriptorRecord
<1> QED BY <1>8, <1>9 DEF n

(* SchemaDescriptor: a record that decodes is encoded as the bytes read. *)
LEMMA DescriptorCanonical ==
    ASSUME NEW buf \in Seq(Byte), buf # <<>>, buf[1] = 9, DecodeDescriptorRecord(buf).ok
    PROVE  LET r == DecodeDescriptorRecord(buf).val IN
           /\ r \in SchemaDescriptor /\ DecodeDescriptorRecord(buf).len = 5 + Len(r.descriptor)
           /\ r.kind = "SchemaDescriptor" /\ DecodeDescriptorRecord(buf).len <= Len(buf)
           /\ Occurs(EncodeRecord(r), buf, 0) /\ Len(buf) >= 5
<1> DEFINE d == From(buf, 5)
           v == U32(buf, 1)
           r == [kind |-> "SchemaDescriptor", schema_version |-> v, descriptor |-> d]
<1>1. /\ Len(buf) \in Nat /\ Len(buf) >= 5
      /\ DecodeDescriptorRecord(buf) = Ok(r, Len(buf))
  BY DEF DecodeDescriptorRecord, Truncated, Err
<1>2. v \in 0 .. U32Max /\ Occurs(LE(v, 4), buf, 1)
  BY <1>1, U32Written
<1>3. d \in Seq(Byte) /\ Len(d) = Len(buf) - 5 /\ Occurs(d, buf, 5)
  <2>1. /\ d = At(buf, 5, Len(buf) - 5) /\ Len(buf) - 5 \in Nat /\ 5 + (Len(buf) - 5) <= Len(buf)
    BY <1>1, RestOf
  <2> QED BY <2>1, AtOccurs
<1>4. Occurs(<<9>>, buf, 0)
  BY <1>1, OccursByte
<1> HIDE DEF d, v
<1>5. r \in SchemaDescriptor /\ r.kind = "SchemaDescriptor" /\ r.descriptor = d
  BY <1>2, <1>3 DEF SchemaDescriptor
<1>6. Occurs(LE(r.schema_version, 4), buf, 1) /\ Occurs(r.descriptor, buf, 5)
  BY <1>2, <1>3
<1> HIDE DEF r
<1>7. Occurs(EncodeRecord(r), buf, 0)
  BY <1>4, <1>5, <1>6, DescriptorFields
<1> QED BY <1>1, <1>3, <1>5, <1>7 DEF Ok

(* A string lies in the rest of a buffer, or in a slice, where it does in the
   buffer. *)
LEMMA OccursInRest ==
    ASSUME NEW S, NEW buf \in Seq(S), NEW off \in Nat, off <= Len(buf),
           NEW f \in Seq(S), NEW k \in Nat
    PROVE  Occurs(f, From(buf, off), k) <=> Occurs(f, buf, off + k)
<1> DEFINE rest == From(buf, off)
<1>1. /\ Len(rest) = Len(buf) - off /\ Len(f) \in Nat /\ Len(buf) \in Nat
      /\ \A i \in 1 .. Len(buf) - off : rest[i] = buf[off + i]
  BY RestOf
<1> HIDE DEF rest
<1>2. k + Len(f) <= Len(rest) <=> (off + k) + Len(f) <= Len(buf)
  BY <1>1
<1>3. ASSUME k + Len(f) <= Len(rest), NEW i \in 1 .. Len(f)
      PROVE  rest[k + i] = buf[(off + k) + i]
  <2>1. k + i \in 1 .. Len(buf) - off /\ off + (k + i) = (off + k) + i
    BY <1>1, <1>3
  <2> QED BY <1>1, <2>1
<1> QED BY <1>2, <1>3 DEF Occurs, rest

(* What lies in a part of a buffer lies in the buffer. *)
LEMMA OccursInSlice ==
    ASSUME NEW S, NEW buf \in Seq(S), NEW off \in Nat, NEW n \in Nat, off + n <= Len(buf),
           NEW f \in Seq(S), NEW k \in Nat, k + Len(f) <= n
    PROVE  Occurs(f, At(buf, off, n), k) <=> Occurs(f, buf, off + k)
<1> DEFINE slice == At(buf, off, n)
<1>1. /\ Len(slice) = n /\ Len(f) \in Nat /\ Len(buf) \in Nat
      /\ \A i \in 1 .. n : slice[i] = buf[off + i]
  BY AtOccurs
<1> HIDE DEF slice
<1>2. k + Len(f) <= Len(slice) /\ (off + k) + Len(f) <= Len(buf)
  BY <1>1
<1>3. ASSUME NEW i \in 1 .. Len(f)
      PROVE  slice[k + i] = buf[(off + k) + i]
  <2>1. k + i \in 1 .. n /\ off + (k + i) = (off + k) + i
    BY <1>1, <1>3
  <2> QED BY <1>1, <2>1
<1> QED BY <1>2, <1>3 DEF Occurs, slice

(* A field that lies within a part of a buffer lies in the part. *)
LEMMA FieldInSlice ==
    ASSUME NEW buf \in Seq(Byte), NEW off \in Nat, NEW n \in Nat, off + n <= Len(buf),
           NEW k \in Nat, NEW m \in Nat, k + m <= n, NEW f \in Octets(m),
           Occurs(f, buf, off + k)
    PROVE  Occurs(f, At(buf, off, n), k)
BY OctetsSeq, OccursInSlice

(* Partitioning rules. *)
LEMMA ModuloFields ==
    ASSUME NEW q \in StaticModulo, NEW buf \in Seq(Byte), NEW off \in Nat
    PROVE  /\ EncodeRule(q) \in Octets(9)
           /\ Occurs(EncodeRule(q), buf, off) <=>
                /\ Occurs(<<1>>, buf, off) /\ Occurs(LE(4, 4), buf, off + 1)
                /\ Occurs(LE(q.total_draglines, 4), buf, off + 5)
<1> DEFINE t == <<1>>
           l == LE(4, 4)
           v == LE(q.total_draglines, 4)
           b == t \o l
           w == b \o v
<1>1. t \in Octets(1)
  BY TagType
<1>2. l \in Octets(4)
  BY LEType
<1>3. v \in Octets(4)
  BY LEType, U32MaxNat DEF StaticModulo
<1>4. EncodeRule(q) = w
  BY DEF EncodeRule, StaticModulo
<1> HIDE DEF t, l, v
<1>5. /\ b \in Octets(5)
      /\ Occurs(b, buf, off) <=> Occurs(t, buf, off) /\ Occurs(l, buf, off + 1)
  BY <1>1, <1>2, Two, SMTT(20)
<1> HIDE DEF b
<1>6. /\ w \in Octets(9)
      /\ Occurs(w, buf, off) <=> Occurs(b, buf, off) /\ Occurs(v, buf, off + 5)
  <2>1. b \in Octets(5)
    BY <1>5
  <2> QED BY <1>3, <2>1, Two
<1> HIDE DEF w
<1> QED BY <1>4, <1>5, <1>6 DEF t, l, v

(* A consistent-hash rule lies where its fields do. *)
LEMMA HashFields ==
    ASSUME NEW q \in ConsistentHash, NEW buf \in Seq(Byte), NEW off \in Nat
    PROVE  /\ EncodeRule(q) \in Octets(17)
           /\ Occurs(EncodeRule(q), buf, off) <=>
                /\ Occurs(<<2>>, buf, off) /\ Occurs(LE(12, 4), buf, off + 1)
                /\ Occurs(q.hash_seed, buf, off + 5)
                /\ Occurs(LE(q.virtual_node_count, 4), buf, off + 13)
<1> DEFINE t == <<2>>
           l == LE(12, 4)
           s == q.hash_seed
           v == LE(q.virtual_node_count, 4)
           b == t \o l
           c == b \o s
           w == c \o v
<1>1. t \in Octets(1)
  BY TagType
<1>2. l \in Octets(4)
  BY LEType
<1>3. v \in Octets(4)
  BY LEType, U32MaxNat DEF ConsistentHash
<1>4. s \in Octets(8)
  BY DEF ConsistentHash
<1>5. EncodeRule(q) = w
  BY DEF EncodeRule, ConsistentHash
<1> HIDE DEF t, l, v, s
<1>6. /\ b \in Octets(5)
      /\ Occurs(b, buf, off) <=> Occurs(t, buf, off) /\ Occurs(l, buf, off + 1)
  BY <1>1, <1>2, Two, SMTT(20)
<1> HIDE DEF b
<1>7. /\ c \in Octets(13)
      /\ Occurs(c, buf, off) <=> Occurs(b, buf, off) /\ Occurs(s, buf, off + 5)
  <2>1. b \in Octets(5)
    BY <1>6
  <2> QED BY <1>4, <2>1, Two
<1> HIDE DEF c
<1>8. /\ w \in Octets(17)
      /\ Occurs(w, buf, off) <=> Occurs(c, buf, off) /\ Occurs(v, buf, off + 13)
  <2>1. c \in Octets(13)
    BY <1>7
  <2> QED BY <1>3, <2>1, Two
<1> HIDE DEF w
<1> QED BY <1>5, <1>6, <1>7, <1>8 DEF t, l, v, s

(* How long the parameters of a rule are. *)
ParamLen(q) == IF q.kind = "StaticModulo" THEN 4 ELSE 12

(* PartitioningRule::encode writes bytes. *)
LEMMA RuleType ==
    ASSUME NEW q \in PartitioningRule
    PROVE  /\ ParamLen(q) \in {4, 12} /\ ParamLen(q) \in 0 .. U32Max
           /\ EncodeRule(q) \in Octets(5 + ParamLen(q))
           /\ EncodeRule(q) \in Seq(Byte) /\ Len(EncodeRule(q)) = 5 + ParamLen(q)
<1>1. ParamLen(q) \in {4, 12}
  BY DEF ParamLen
<1>2. ParamLen(q) \in 0 .. U32Max
  <2>1. Base * Base > 20 /\ Base * Base \in Nat
    BY BaseAssumption
  <2>2. (Base * Base) * (Base * Base) > 20 /\ (Base * Base) * (Base * Base) \in Nat
    BY <2>1
  <2>3. Base * Base * Base * Base = (Base * Base) * (Base * Base)
    BY BaseAssumption
  <2> QED BY <1>1, <2>2, <2>3 DEF U32Max
<1>3. <<>> \in Seq(Byte) /\ 0 \in Nat
  OBVIOUS
<1>4. CASE q \in StaticModulo
  <2>1. 5 + ParamLen(q) = 9
    BY <1>4 DEF StaticModulo, ParamLen
  <2>2. EncodeRule(q) \in Octets(9)
    BY <1>3, <1>4, ModuloFields
  <2>3. EncodeRule(q) \in Seq(Byte) /\ Len(EncodeRule(q)) = 9
    BY <2>2, OctetsSeq
  <2> QED BY <1>1, <1>2, <2>1, <2>2, <2>3
<1>5. CASE q \in ConsistentHash
  <2>1. 5 + ParamLen(q) = 17
    BY <1>5 DEF ConsistentHash, ParamLen
  <2>2. EncodeRule(q) \in Octets(17)
    BY <1>3, <1>5, HashFields
  <2>3. EncodeRule(q) \in Seq(Byte) /\ Len(EncodeRule(q)) = 17
    BY <2>2, OctetsSeq
  <2> QED BY <1>1, <1>2, <2>1, <2>2, <2>3
<1> QED BY <1>4, <1>5 DEF PartitioningRule

(* PartitioningRule::decode returns the rule that was encoded. *)
LEMMA RuleRoundTrip ==
    ASSUME NEW q \in PartitioningRule, NEW buf \in Seq(Byte), Occurs(EncodeRule(q), buf, 0)
    PROVE  DecodeRule(buf) = Ok(q, Len(EncodeRule(q))) /\ U32(buf, 1) = ParamLen(q)
<1> DEFINE n == ParamLen(q)
<1>1. /\ n \in {4, 12} /\ n \in 0 .. U32Max
      /\ EncodeRule(q) \in Octets(5 + n) /\ Len(EncodeRule(q)) = 5 + n
  BY RuleType
<1>2. Len(buf) \in Nat /\ Len(buf) >= 5 + n
  <2> HIDE DEF n
  <2>1. 5 + n \in Nat
    BY <1>1
  <2>2. Len(buf) \in Nat /\ 0 + (5 + n) <= Len(buf)
    BY <1>1, <2>1, OccursLen
  <2> QED BY <2>1, <2>2
<1>3. CASE q \in StaticModulo
  <2> DEFINE v == q.total_draglines
             p == At(buf, 5, 4)
  <2>1. q = [kind |-> "StaticModulo", total_draglines |-> v] /\ v \in 0 .. U32Max
    BY <1>3 DEF StaticModulo
  <2>2. n = 4
    BY <1>3 DEF StaticModulo, ParamLen
  <2>3. Occurs(<<1>>, buf, 0) /\ Occurs(LE(4, 4), buf, 1) /\ Occurs(LE(v, 4), buf, 5)
    BY <1>3, ModuloFields
  <2> HIDE DEF v, n
  <2>4. 4 \in 0 .. U32Max /\ Len(buf) >= 9
    BY <1>1, <1>2, <2>2
  <2>5. buf[1] = 1 /\ U32(buf, 1) = 4
    BY <1>2, <2>3, <2>4, U32Read, OccursByte
  <2>6. p \in Seq(Byte)
    BY <2>4, AtOccurs
  <2>7. LE(v, 4) \in Octets(4)
    BY <2>1, LEType, U32MaxNat
  <2>8. Occurs(LE(v, 4), p, 0)
    <3>1. Occurs(LE(v, 4), buf, 5 + 0)
      BY <2>3
    <3> QED BY <2>4, <2>7, <3>1, FieldInSlice
  <2> HIDE DEF p
  <2>9. U32(p, 0) = v
    BY <2>1, <2>6, <2>8, U32Read
  <2>10. DecodeRule(buf) = Ok(q, 9)
    BY <2>1, <2>4, <2>5, <2>9, <1>2 DEF DecodeRule, p
  <2> QED BY <1>1, <2>2, <2>5, <2>10 DEF n
<1>4. CASE q \in ConsistentHash
  <2> DEFINE v == q.virtual_node_count
             s == q.hash_seed
             p == At(buf, 5, 12)
  <2>1. /\ q = [kind |-> "ConsistentHash", hash_seed |-> s, virtual_node_count |-> v]
        /\ v \in 0 .. U32Max /\ s \in Octets(8)
    BY <1>4 DEF ConsistentHash
  <2>2. n = 12
    BY <1>4 DEF ConsistentHash, ParamLen
  <2>3. /\ Occurs(<<2>>, buf, 0) /\ Occurs(LE(12, 4), buf, 1) /\ Occurs(s, buf, 5)
        /\ Occurs(LE(v, 4), buf, 13)
    BY <1>4, HashFields
  <2> HIDE DEF v, s, n
  <2>4. 12 \in 0 .. U32Max /\ Len(buf) >= 17
    BY <1>1, <1>2, <2>2
  <2>5. buf[1] = 2 /\ U32(buf, 1) = 12
    BY <1>2, <2>3, <2>4, U32Read, OccursByte
  <2>6. p \in Seq(Byte)
    BY <2>4, AtOccurs
  <2>7. LE(v, 4) \in Octets(4)
    BY <2>1, LEType, U32MaxNat
  <2>8. Occurs(LE(v, 4), p, 8)
    <3>1. Occurs(LE(v, 4), buf, 5 + 8)
      BY <2>3
    <3> QED BY <2>4, <2>7, <3>1, FieldInSlice
  <2>9. Occurs(s, p, 0)
    <3>1. Occurs(s, buf, 5 + 0)
      BY <2>3
    <3> QED BY <2>1, <2>4, <3>1, FieldInSlice
  <2> HIDE DEF p
  <2>10. U32(p, 8) = v
    BY <2>1, <2>6, <2>8, U32Read
  <2>11. At(p, 0, 8) = s
    BY <2>1, <2>6, <2>9, FieldRead
  <2>12. DecodeRule(buf) = Ok(q, 17)
    BY <2>1, <2>4, <2>5, <2>10, <2>11, <1>2 DEF DecodeRule, p
  <2> QED BY <1>1, <2>2, <2>5, <2>12 DEF n
<1> QED BY <1>3, <1>4 DEF PartitioningRule

(* Parameters behind the known ones are skipped, so the rule may be longer. *)
LEMMA RuleCanonical ==
    ASSUME NEW buf \in Seq(Byte), DecodeRule(buf).ok
    PROVE  LET d == DecodeRule(buf) IN
           /\ d.val \in PartitioningRule /\ d.len \in Nat /\ d.len <= Len(buf)
           /\ Len(buf) >= 5 /\ d.len = 5 + U32(buf, 1)
           /\ Len(EncodeRule(d.val)) <= d.len
<1> DEFINE n == U32(buf, 1)
           param == At(buf, 5, n)
           q == IF buf[1] = 1
                THEN [kind |-> "StaticModulo", total_draglines |-> U32(param, 0)]
                ELSE [kind |-> "ConsistentHash", hash_seed |-> At(param, 0, 8),
                      virtual_node_count |-> U32(param, 8)]
<1>1. Len(buf) \in Nat /\ Len(buf) >= 5
  BY DEF DecodeRule, Truncated, Err
<1>2. n \in Nat
  BY <1>1, U32Written, U32MaxNat
<1>3. /\ Len(buf) >= 5 + n /\ buf[1] \in {1, 2} /\ n >= (IF buf[1] = 1 THEN 4 ELSE 12)
      /\ DecodeRule(buf) = Ok(q, 5 + n)
  <2> HIDE DEF n
  <2> QED BY <1>1, <1>2 DEF DecodeRule, Truncated, Err, n
<1> HIDE DEF n
<1>4. param \in Seq(Byte) /\ Len(param) = n
  BY <1>1, <1>2, <1>3, AtOccurs
<1> HIDE DEF param
<1>5. q \in PartitioningRule /\ 5 + ParamLen(q) <= 5 + n
  <2>1. CASE buf[1] = 1
    <3>1. n >= 4
      BY <1>3, <2>1
    <3>2. U32(param, 0) \in 0 .. U32Max
      BY <1>2, <1>4, <3>1, U32Written
    <3> QED BY <1>2, <2>1, <3>1, <3>2 DEF PartitioningRule, StaticModulo, ParamLen
  <2>2. CASE buf[1] = 2
    <3>1. n >= 12
      BY <1>3, <2>2
    <3>2. U32(param, 8) \in 0 .. U32Max /\ At(param, 0, 8) \in Octets(8)
      BY <1>2, <1>4, <3>1, U32Written, FieldWritten
    <3> QED BY <1>2, <2>2, <3>1, <3>2 DEF PartitioningRule, ConsistentHash, ParamLen
  <2> QED BY <1>3, <2>1, <2>2
<1> HIDE DEF q
<1>6. Len(EncodeRule(q)) <= 5 + n
  BY <1>5, RuleType
<1> QED BY <1>1, <1>2, <1>3, <1>5, <1>6 DEF Ok, n

(* A number read in the rest of a buffer is the one in the buffer. *)
LEMMA RestU32 ==
    ASSUME NEW buf \in Seq(Byte), NEW off \in Nat, NEW k \in Nat, off + k + 4 <= Len(buf)
    PROVE  U32(From(buf, off), k) = U32(buf, off + k)
<1> DEFINE v == U32(buf, off + k)
<1>1. off + k \in Nat /\ (off + k) + 4 <= Len(buf) /\ off <= Len(buf)
  OBVIOUS
<1>2. v \in 0 .. U32Max /\ v \in Nat /\ Occurs(LE(v, 4), buf, off + k)
  BY <1>1, U32Written, U32MaxNat
<1> HIDE DEF v
<1>3. LE(v, 4) \in Seq(Byte)
  BY <1>2, LEType
<1>4. Occurs(LE(v, 4), From(buf, off), k) /\ From(buf, off) \in Seq(Byte)
  BY <1>1, <1>2, <1>3, OccursInRest, RestOf
<1> QED BY <1>2, <1>4, U32Read DEF v

(* IdentityStructure: the record lies where its fields do. *)
LEMMA IdentityFields ==
    ASSUME NEW r \in IdentityStructure, NEW buf \in Seq(Byte)
    PROVE  /\ EncodeRecord(r) \in Octets(30 + ParamLen(r.partitioning_rule))
           /\ Occurs(EncodeRecord(r), buf, 0) <=>
                /\ Occurs(<<8>>, buf, 0) /\ Occurs(r.dataset_id, buf, 1)
                /\ Occurs(LE(r.structure_version, 4), buf, 17)
                /\ Occurs(LE(r.dragline_id, 4), buf, 21)
                /\ Occurs(EncodeRule(r.partitioning_rule), buf, 25)
<1> DEFINE t == <<8>>
           d == r.dataset_id
           x == LE(r.structure_version, 4)
           y == LE(r.dragline_id, 4)
           q == EncodeRule(r.partitioning_rule)
           n == ParamLen(r.partitioning_rule)
           k == 5 + n
           b2 == d \o x
           b3 == b2 \o y
           b4 == b3 \o q
           w == t \o b4
<1>1. t \in Octets(1)
  BY TagType
<1>2. d \in Octets(16)
  BY DEF IdentityStructure
<1>3. x \in Octets(4)
  BY LEType, U32MaxNat DEF IdentityStructure
<1>4. y \in Octets(4)
  BY LEType, U32MaxNat DEF IdentityStructure
<1>5. n \in Nat /\ k \in Nat /\ q \in Octets(k)
  <2>1. r.partitioning_rule \in PartitioningRule
    BY DEF IdentityStructure
  <2>2. n \in {4, 12} /\ q \in Octets(k)
    BY <2>1, RuleType
  <2> HIDE DEF n
  <2> QED BY <2>2
<1>6. EncodeRecord(r) = w
  <2>1. r.kind = "IdentityStructure"
    BY DEF IdentityStructure
  <2>2. RecordBody(r) = d \o x \o y \o q
    BY <2>1 DEF RecordBody
  <2>3. WireTag[r.kind] = 8
    BY <2>1 DEF WireTag
  <2> QED BY <2>2, <2>3 DEF EncodeRecord
<1> HIDE DEF t, d, x, y, q, n, k
<1>7. /\ b2 \in Octets(20)
      /\ Occurs(b2, buf, 1) <=> Occurs(d, buf, 1) /\ Occurs(x, buf, 17)
  BY <1>2, <1>3, Two
<1> HIDE DEF b2
<1>8. /\ b3 \in Octets(24)
      /\ Occurs(b3, buf, 1) <=> Occurs(b2, buf, 1) /\ Occurs(y, buf, 21)
  <2>1. b2 \in Octets(20)
    BY <1>7
  <2> QED BY <1>4, <2>1, Two
<1> HIDE DEF b3
<1>9. /\ b4 \in Octets(24 + k) /\ 24 + k \in Nat
      /\ Occurs(b4, buf, 1) <=> Occurs(b3, buf, 1) /\ Occurs(q, buf, 25)
  <2>1. b3 \in Octets(24)
    BY <1>8
  <2> QED BY <1>5, <2>1, Two
<1> HIDE DEF b4
<1>10. /\ w \in Octets(1 + (24 + k))
       /\ Occurs(w, buf, 0) <=> Occurs(t, buf, 0) /\ Occurs(b4, buf, 1)
  <2>1. b4 \in Octets(24 + k) /\ 24 + k \in Nat
    BY <1>9
  <2> QED BY <1>1, <2>1, Two
<1> HIDE DEF w
<1>11. 1 + (24 + k) = 30 + n
  BY <1>5 DEF k
<1> QED BY <1>6, <1>7, <1>8, <1>9, <1>10, <1>11 DEF t, d, x, y, q, n

(* IdentityStructure: decode returns the record that was encoded. *)
LEMMA IdentityRoundTrip ==
    ASSUME NEW r \in IdentityStructure, NEW buf \in Seq(Byte), Occurs(EncodeRecord(r), buf, 0)
    PROVE  /\ DecodeRecord(buf) = Ok(r, 30 + ParamLen(r.partitioning_rule))
           /\ U32(buf, 26) = ParamLen(r.partitioning_rule)
<1> DEFINE q == r.partitioning_rule
           n == ParamLen(q)
           rest == From(buf, 25)
<1>1. /\ Occurs(<<8>>, buf, 0) /\ Occurs(r.dataset_id, buf, 1)
      /\ Occurs(LE(r.structure_version, 4), buf, 17)
      /\ Occurs(LE(r.dragline_id, 4), buf, 21)
      /\ Occurs(EncodeRule(q), buf, 25)
      /\ EncodeRecord(r) \in Octets(30 + n)
  BY IdentityFields
<1>2. q \in PartitioningRule
  BY DEF IdentityStructure
<1>3. n \in Nat /\ EncodeRule(q) \in Seq(Byte) /\ Len(EncodeRule(q)) = 5 + n
  BY <1>2, RuleType
<1>4. r = [kind |-> "IdentityStructure", dataset_id |-> r.dataset_id,
           structure_version |-> r.structure_version, dragline_id |-> r.dragline_id,
           partitioning_rule |-> q]
  BY DEF IdentityStructure
<1>5. At(buf, 1, 16) = r.dataset_id
  BY <1>1, FieldRead DEF IdentityStructure
<1>6. U32(buf, 17) = r.structure_version /\ U32(buf, 21) = r.dragline_id
  BY <1>1, U32Read DEF IdentityStructure
<1> HIDE DEF q, n
<1>7. Len(buf) \in Nat /\ Len(buf) >= 30 + n /\ buf[1] = 8
  <2>1. 30 + n \in Nat /\ EncodeRecord(r) \in Octets(30 + n)
    BY <1>1, <1>3
  <2>2. Len(buf) \in Nat /\ 0 + (30 + n) <= Len(buf)
    BY <2>1, OccursLen
  <2> QED BY <1>1, <1>3, <2>2, OccursByte
<1>8. rest \in Seq(Byte) /\ Occurs(EncodeRule(q), rest, 0)
  <2>1. Occurs(EncodeRule(q), buf, 25 + 0) /\ 25 <= Len(buf)
    BY <1>1, <1>3, <1>7
  <2> QED BY <1>3, <2>1, OccursInRest, RestOf
<1>9. DecodeRule(rest) = Ok(q, 5 + n) /\ U32(rest, 1) = n
  BY <1>2, <1>3, <1>8, RuleRoundTrip DEF n
<1>10. U32(buf, 26) = n
  <2>1. 25 + 1 + 4 <= Len(buf)
    BY <1>3, <1>7
  <2> QED BY <1>9, <2>1, RestU32
<1> HIDE DEF rest
<1>11. DecodeRecord(buf) = DecodeIdentity(buf)
  BY <1>3, <1>7, RecordDecoder
<1>12. DecodeIdentity(buf) = Ok(r, 25 + (5 + n))
  <2>1. DecodeRule(rest).ok /\ DecodeRule(rest).val = q /\ DecodeRule(rest).len = 5 + n
    BY <1>9 DEF Ok
  <2>2. ~(Len(buf) < 25)
    BY <1>3, <1>7
  <2>3. DecodeIdentity(buf) =
          Ok([kind |-> "IdentityStructure", dataset_id |-> At(buf, 1, 16),
              structure_version |-> U32(buf, 17), dragline_id |-> U32(buf, 21),
              partitioning_rule |-> q], 25 + (5 + n))
    BY <2>1, <2>2 DEF DecodeIdentity, Then, rest
  <2> QED BY <1>4, <1>5, <1>6, <2>3
<1>13. 25 + (5 + n) = 30 + n
  BY <1>3
<1> QED BY <1>10, <1>11, <1>12, <1>13 DEF n, q

(* IdentityStructure: a record that decodes is encoded in no more bytes than were read. *)
LEMMA IdentityCanonical ==
    ASSUME NEW buf \in Seq(Byte), buf # <<>>, buf[1] = 8, DecodeIdentity(buf).ok
    PROVE  LET d == DecodeIdentity(buf) IN
           /\ d.val \in IdentityStructure /\ d.val.kind = "IdentityStructure"
           /\ d.len <= Len(buf) /\ d.len \in Nat
           /\ Len(buf) >= 30 /\ U32(buf, 26) \in Nat /\ Len(buf) >= 30 + U32(buf, 26)
           /\ Len(EncodeRecord(d.val)) <= d.len
<1> DEFINE rest == From(buf, 25)
           rule == DecodeRule(rest)
           r == [kind |-> "IdentityStructure", dataset_id |-> At(buf, 1, 16),
                 structure_version |-> U32(buf, 17), dragline_id |-> U32(buf, 21),
                 partitioning_rule |-> rule.val]
<1>1. Len(buf) \in Nat /\ Len(buf) >= 25
  <2>1. ASSUME Len(buf) < 25 PROVE DecodeIdentity(buf) = Truncated
    BY <2>1 DEF DecodeIdentity
  <2>2. ~Truncated.ok
    BY DEF Truncated, Err
  <2> QED BY <2>1, <2>2
<1>2. rule.ok /\ DecodeIdentity(buf) = Ok(r, 25 + rule.len)
  BY <1>1 DEF DecodeIdentity, Then
<1>3. rest \in Seq(Byte) /\ Len(rest) = Len(buf) - 25
  BY <1>1, RestOf
<1> HIDE DEF rest
<1>4. /\ rule.val \in PartitioningRule /\ rule.len \in Nat /\ rule.len <= Len(rest)
      /\ Len(rest) >= 5 /\ rule.len = 5 + U32(rest, 1)
      /\ Len(EncodeRule(rule.val)) <= rule.len
  BY <1>2, <1>3, RuleCanonical
<1>5. U32(rest, 1) = U32(buf, 26) /\ U32(buf, 26) \in Nat
  <2>1. 25 + 1 + 4 <= Len(buf)
    BY <1>1, <1>3, <1>4
  <2>2. U32(buf, 26) \in Nat
    BY <2>1, U32Written, U32MaxNat
  <2> QED BY <2>1, <2>2, RestU32 DEF rest
<1>6. At(buf, 1, 16) \in Octets(16) /\ U32(buf, 17) \in 0 .. U32Max /\ U32(buf, 21) \in 0 .. U32Max
  BY <1>1, FieldWritten, U32Written
<1> HIDE DEF rule
<1>7. r \in IdentityStructure /\ r.kind = "IdentityStructure" /\ r.partitioning_rule = rule.val
  BY <1>4, <1>6 DEF IdentityStructure
<1> HIDE DEF r
<1>8. Len(EncodeRecord(r)) <= 25 + rule.len
  <2> DEFINE n == ParamLen(rule.val)
  <2>1. n \in {4, 12} /\ 5 + n <= rule.len
    BY <1>4, RuleType
  <2>2. EncodeRecord(r) \in Octets(30 + n)
    <3>1. <<>> \in Seq(Byte)
      OBVIOUS
    <3> QED BY <1>7, <3>1, IdentityFields
  <2> HIDE DEF n
  <2>3. 30 + n \in Nat
    BY <2>1
  <2>4. Len(EncodeRecord(r)) = 30 + n
    BY <2>2, <2>3, OctetsSeq
  <2> QED BY <1>4, <2>1, <2>4
<1> QED BY <1>1, <1>2, <1>3, <1>4, <1>5, <1>7, <1>8 DEF Ok
-----------------------------------------------------------------------------
(* Ownership records of every kind.  Their bytes begin with the tag of the kind. *)
LEMMA RecordType ==
    ASSUME NEW r \in OwnershipRecord
    PROVE  /\ EncodeRecord(r) \in Seq(Byte) /\ Len(EncodeRecord(r)) \in Nat
           /\ Len(EncodeRecord(r)) >= 1
           /\ EncodeRecord(r)[1] = WireTag[r.kind]
<1> DEFINE e == EncodeRecord(r)
<1>1. <<>> \in Seq(Byte)
  OBVIOUS
<1>2. \E n \in Nat : e \in Octets(n) /\ n >= 1
  <2>1. CASE r \in OwnershipClaim
    <3>1. Len(r.operator_label) \in Nat
      BY <2>1 DEF OwnershipClaim, Text
    <3>2. e \in Octets(69 + Len(r.operator_label))
      BY <1>1, <2>1, ClaimFields
    <3> HIDE DEF e
    <3>3. 69 + Len(r.operator_label) \in Nat /\ 69 + Len(r.operator_label) >= 1
      BY <3>1
    <3> QED BY <3>2, <3>3
  <2>2. CASE r \in CleanRelease
    <3>1. e \in Octets(17)
      BY <1>1, <2>2, ReleaseFields
    <3> QED BY <3>1
  <2>3. CASE r \in MigrationStart
    <3>1. e \in Octets(18)
      BY <1>1, <2>3, StartFields
    <3> QED BY <3>1
  <2>4. CASE r \in MigrationEnd
    <3>1. e \in Octets(18)
      BY <1>1, <2>4, EndFields
    <3> QED BY <3>1
  <2>5. CASE r \in RescuePolicyChoice
    <3>1. Len(r.parameters) \in Nat
      BY <2>5 DEF RescuePolicyChoice, Text
    <3>2. e \in Octets(6 + Len(r.parameters))
      BY <1>1, <2>5, RescueFields
    <3> HIDE DEF e
    <3>3. 6 + Len(r.parameters) \in Nat /\ 6 + Len(r.parameters) >= 1
      BY <3>1
    <3> QED BY <3>2, <3>3
  <2>6. CASE r \in IdentityStructure
    <3> DEFINE m == ParamLen(r.partitioning_rule)
    <3>1. m \in Nat
      BY DEF ParamLen
    <3>2. e \in Octets(30 + m)
      BY <1>1, <2>6, IdentityFields
    <3> HIDE DEF e, m
    <3>3. 30 + m \in Nat /\ 30 + m >= 1
      BY <3>1
    <3> QED BY <3>2, <3>3
  <2>7. CASE r \in SchemaDescriptor
    <3>1. Len(r.descriptor) \in Nat
      BY <2>7 DEF SchemaDescriptor, Text
    <3>2. e \in Octets(5 + Len(r.descriptor))
      BY <1>1, <2>7, DescriptorFields
    <3> HIDE DEF e
    <3>3. 5 + Len(r.descriptor) \in Nat /\ 5 + Len(r.descriptor) >= 1
      BY <3>1
    <3> QED BY <3>2, <3>3
  <2>8. CASE r \in Pointer({"InboundPointer", "OutboundPointer"})
    <3>1. r.kind \in {"InboundPointer", "OutboundPointer"}
      BY <2>8 DEF Pointer
    <3>2. e \in Octets(25)
      BY <1>1, <2>8, <3>1, InboundFields, OutboundFields
    <3> QED BY <3>2
  <2> QED BY <2>1, <2>2, <2>3, <2>4, <2>5, <2>6, <2>7, <2>8 DEF OwnershipRecord
<1>3. PICK n \in Nat : e \in Octets(n) /\ n >= 1
  BY <1>2
<1>4. e \in Seq(Byte) /\ Len(e) = n
  BY <1>3, OctetsSeq
<1>5. e[1] = WireTag[r.kind]
  BY DEF EncodeRecord
<1> HIDE DEF e
<1>6. Len(e) \in Nat /\ Len(e) >= 1
  BY <1>3, <1>4
<1> QED BY <1>4, <1>5, <1>6 DEF e

(* What encode writes decodes to the record and to exactly its bytes, whatever
   follows; a schema record must end the buffer. *)
LEMMA RecordRoundTrip ==
    ASSUME NEW r \in OwnershipRecord, NEW buf \in Seq(Byte), Occurs(EncodeRecord(r), buf, 0),
           r.kind = "SchemaDescriptor" => Len(buf) = Len(EncodeRecord(r))
    PROVE  DecodeRecord(buf) = Ok(r, Len(EncodeRecord(r)))
<1> DEFINE e == EncodeRecord(r)
<1>1. SUFFICES \E n \in Nat : e \in Octets(n) /\ DecodeRecord(buf) = Ok(r, n)
  <2>1. PICK n \in Nat : e \in Octets(n) /\ DecodeRecord(buf) = Ok(r, n)
    BY <1>1
  <2>2. Len(e) = n
    BY <2>1, OctetsSeq
  <2> QED BY <2>1, <2>2
<1>2. CASE r \in OwnershipClaim
  <2> DEFINE m == Len(r.operator_label)
  <2>1. m \in Nat
    BY <1>2 DEF OwnershipClaim, Text
  <2>3. e \in Octets(69 + m) /\ DecodeRecord(buf) = Ok(r, 69 + m)
    BY <1>2, ClaimFields, ClaimRoundTrip
  <2> HIDE DEF e, m
  <2>4. 69 + m \in Nat
    BY <2>1
  <2> QED BY <2>3, <2>4
<1>3. CASE r \in CleanRelease
  <2>1. e \in Octets(17) /\ DecodeRecord(buf) = Ok(r, 17)
    BY <1>3, ReleaseFields, ReleaseRoundTrip
  <2> QED BY <2>1
<1>4. CASE r \in MigrationStart
  <2>1. e \in Octets(18) /\ DecodeRecord(buf) = Ok(r, 18)
    BY <1>4, StartFields, StartRoundTrip
  <2> QED BY <2>1
<1>5. CASE r \in MigrationEnd
  <2>1. e \in Octets(18) /\ DecodeRecord(buf) = Ok(r, 18)
    BY <1>5, EndFields, EndRoundTrip
  <2> QED BY <2>1
<1>6. CASE r \in RescuePolicyChoice
  <2> DEFINE m == Len(r.parameters)
  <2>1. m \in Nat
    BY <1>6 DEF RescuePolicyChoice, Text
  <2>3. e \in Octets(6 + m) /\ DecodeRecord(buf) = Ok(r, 6 + m)
    BY <1>6, RescueFields, RescueRoundTrip
  <2> HIDE DEF e, m
  <2>4. 6 + m \in Nat
    BY <2>1
  <2> QED BY <2>3, <2>4
<1>7. CASE r \in IdentityStructure
  <2> DEFINE m == ParamLen(r.partitioning_rule)
  <2>1. m \in Nat
    BY DEF ParamLen
  <2>3. e \in Octets(30 + m) /\ DecodeRecord(buf) = Ok(r, 30 + m)
    BY <1>7, IdentityFields, IdentityRoundTrip
  <2> HIDE DEF e, m
  <2>4. 30 + m \in Nat
    BY <2>1
  <2> QED BY <2>3, <2>4
<1>8. CASE r \in SchemaDescriptor
  <2> DEFINE m == Len(r.descriptor)
  <2>1. m \in Nat
    BY <1>8 DEF SchemaDescriptor, Text
  <2>2. r.kind = "SchemaDescriptor"
    BY <1>8 DEF SchemaDescriptor
  <2>3. e \in Octets(5 + m) /\ DecodeRecord(buf) = Ok(r, 5 + m)
    BY <1>8, <2>2, DescriptorFields, DescriptorRoundTrip
  <2> HIDE DEF e, m
  <2>4. 5 + m \in Nat
    BY <2>1
  <2> QED BY <2>3, <2>4
<1>9. CASE r \in Pointer({"InboundPointer", "OutboundPointer"})
  <2>1. r.kind \in {"InboundPointer", "OutboundPointer"}
    BY <1>9 DEF Pointer
  <2>2. e \in Octets(25) /\ DecodeRecord(buf) = Ok(r, 25)
    BY <1>9, <2>1, InboundFields, OutboundFields, InboundRoundTrip, OutboundRoundTrip
  <2> QED BY <2>2
<1> QED BY <1>2, <1>3, <1>4, <1>5, <1>6, <1>7, <1>8, <1>9 DEF OwnershipRecord

(* Whatever decode accepts is what encode writes for the record it returns; only
   of an identity structure more bytes than those may have been read. *)
LEMMA RecordCanonical ==
    ASSUME NEW buf \in Seq(Byte), DecodeRecord(buf).ok
    PROVE  LET d == DecodeRecord(buf) IN
           /\ d.val \in OwnershipRecord /\ d.len \in Nat /\ d.len <= Len(buf)
           /\ buf # <<>> /\ buf[1] = WireTag[d.val.kind]
           /\ \/ /\ d.val.kind # "IdentityStructure"
                 /\ Occurs(EncodeRecord(d.val), buf, 0) /\ d.len = Len(EncodeRecord(d.val))
              \/ /\ d.val.kind = "IdentityStructure"
                 /\ Len(EncodeRecord(d.val)) <= d.len
                 /\ Len(buf) >= 30 /\ Len(buf) >= 30 + U32(buf, 26)
           /\ d.val.kind = "SchemaDescriptor" => Len(buf) >= 5
<1> DEFINE d == DecodeRecord(buf)
           Goal == /\ d.val \in OwnershipRecord /\ d.len \in Nat /\ d.len <= Len(buf)
                   /\ buf # <<>> /\ buf[1] = WireTag[d.val.kind]
                   /\ \/ /\ d.val.kind # "IdentityStructure"
                         /\ Occurs(EncodeRecord(d.val), buf, 0)
                         /\ d.len = Len(EncodeRecord(d.val))
                      \/ /\ d.val.kind = "IdentityStructure"
                         /\ Len(EncodeRecord(d.val)) <= d.len
                         /\ Len(buf) >= 30 /\ Len(buf) >= 30 + U32(buf, 26)
                   /\ d.val.kind = "SchemaDescriptor" => Len(buf) >= 5
<1> SUFFICES Goal
  OBVIOUS
<1>0. d.ok
  OBVIOUS
<1>1. buf # <<>>
  BY DEF DecodeRecord, Truncated, Err
<1>2. buf[1] \in 1 .. 9
  <2>1. ~Err("UnknownRecordTag").ok
    BY DEF Err
  <2> QED BY <1>1, <2>1, RecordDecoder
<1>3. Len(buf) \in Nat /\ <<>> \in Seq(Byte)
  OBVIOUS
<1> HIDE DEF d
<1>4. ASSUME d.val \in OwnershipRecord, NEW n \in Nat, EncodeRecord(d.val) \in Octets(n),
             d.len = n, Occurs(EncodeRecord(d.val), buf, 0), buf[1] = WireTag[d.val.kind],
             d.val.kind # "IdentityStructure", d.val.kind = "SchemaDescriptor" => Len(buf) >= 5
      PROVE  Goal
  <2>1. Len(EncodeRecord(d.val)) = n
    BY <1>4, OctetsSeq
  <2>2. 0 + n <= Len(buf)
    BY <1>4, OccursLen
  <2> QED BY <1>1, <1>4, <2>1, <2>2
<1> HIDE DEF Goal
<1>5. CASE buf[1] = 1
  <2>1. d = DecodeClaim(buf)
    BY <1>1, <1>5, RecordDecoder DEF d
  <2>2. /\ d.val \in OwnershipClaim /\ d.val.kind = "OwnershipClaim"
        /\ Occurs(EncodeRecord(d.val), buf, 0) /\ d.len = 69 + Len(d.val.operator_label)
    BY <1>0, <1>1, <1>5, <2>1, ClaimCanonical
  <2>3. EncodeRecord(d.val) \in Octets(69 + Len(d.val.operator_label))
    BY <1>3, <2>2, ClaimFields
  <2>4. Len(d.val.operator_label) \in Nat
    BY <2>2 DEF OwnershipClaim, Text
  <2> DEFINE m == Len(d.val.operator_label)
  <2> HIDE DEF m
  <2>5. 69 + m \in Nat /\ EncodeRecord(d.val) \in Octets(69 + m) /\ d.len = 69 + m
    BY <2>2, <2>3, <2>4 DEF m
  <2>6. d.val \in OwnershipRecord
    BY <2>2 DEF OwnershipRecord
  <2>7. WireTag["OwnershipClaim"] = 1
    BY DEF WireTag
  <2>8. /\ buf[1] = WireTag[d.val.kind] /\ d.val.kind # "IdentityStructure"
        /\ d.val.kind = "SchemaDescriptor" => Len(buf) >= 5
    BY <1>5, <2>2, <2>7
  <2> QED BY <1>4, <2>2, <2>5, <2>6, <2>8
<1>6. CASE buf[1] = 2
  <2>1. d = DecodeRelease(buf)
    BY <1>1, <1>6, RecordDecoder DEF d
  <2>2. /\ d.val \in CleanRelease /\ d.val.kind = "CleanRelease"
        /\ Occurs(EncodeRecord(d.val), buf, 0) /\ d.len = 17
    BY <1>0, <1>1, <1>6, <2>1, ReleaseCanonical
  <2>3. EncodeRecord(d.val) \in Octets(17)
    BY <1>3, <2>2, ReleaseFields
  <2>6. d.val \in OwnershipRecord
    BY <2>2 DEF OwnershipRecord
  <2>7. WireTag["CleanRelease"] = 2
    BY DEF WireTag
  <2>8. /\ buf[1] = WireTag[d.val.kind] /\ d.val.kind # "IdentityStructure"
        /\ d.val.kind = "SchemaDescriptor" => Len(buf) >= 5
    BY <1>6, <2>2, <2>7
  <2> QED BY <1>4, <2>2, <2>3, <2>6, <2>8
<1>7. CASE buf[1] = 3
  <2>1. d = DecodeMigrationStart(buf)
    BY <1>1, <1>7, RecordDecoder DEF d
  <2>2. /\ d.val \in MigrationStart /\ d.val.kind = "MigrationStart"
        /\ Occurs(EncodeRecord(d.val), buf, 0) /\ d.len = 18
    BY <1>0, <1>1, <1>7, <2>1, StartCanonical
  <2>3. EncodeRecord(d.val) \in Octets(18)
    BY <1>3, <2>2, StartFields
  <2>6. d.val \in OwnershipRecord
    BY <2>2 DEF OwnershipRecord
  <2>7. WireTag["MigrationStart"] = 3
    BY DEF WireTag
  <2>8. /\ buf[1] = WireTag[d.val.kind] /\ d.val.kind # "IdentityStructure"
        /\ d.val.kind = "SchemaDescriptor" => Len(buf) >= 5
    BY <1>7, <2>2, <2>7
  <2> QED BY <1>4, <2>2, <2>3, <2>6, <2>8
<1>8. CASE buf[1] = 4
  <2>1. d = DecodeMigrationEnd(buf)
    BY <1>1, <1>8, RecordDecoder DEF d
  <2>2. /\ d.val \in MigrationEnd /\ d.val.kind = "MigrationEnd"
        /\ Occurs(EncodeRecord(d.val), buf, 0) /\ d.len = 18
    BY <1>0, <1>1, <1>8, <2>1, EndCanonical
  <2>3. EncodeRecord(d.val) \in Octets(18)
    BY <1>3, <2>2, EndFields
  <2>6. d.val \in OwnershipRecord
    BY <2>2 DEF OwnershipRecord
  <2>7. WireTag["MigrationEnd"] = 4
    BY DEF WireTag
  <2>8. /\ buf[1] = WireTag[d.val.kind] /\ d.val.kind # "IdentityStructure"
        /\ d.val.kind = "SchemaDescriptor" => Len(buf) >= 5
    BY <1>8, <2>2, <2>7
  <2> QED BY <1>4, <2>2, <2>3, <2>6, <2>8
<1>9. CASE buf[1] = 5
  <2>1. d = DecodePointer(buf, "InboundPointer")
    BY <1>1, <1>9, RecordDecoder DEF d
  <2>2. /\ d.val \in Pointer({"InboundPointer", "OutboundPointer"}) /\ d.val.kind = "InboundPointer"
        /\ Occurs(EncodeRecord(d.val), buf, 0) /\ d.len = 25
    BY <1>0, <1>1, <1>9, <2>1, InboundCanonical
  <2>3. EncodeRecord(d.val) \in Octets(25)
    BY <1>3, <2>2, InboundFields
  <2>6. d.val \in OwnershipRecord
    BY <2>2 DEF OwnershipRecord
  <2>7. WireTag["InboundPointer"] = 5
    BY DEF WireTag
  <2>8. /\ buf[1] = WireTag[d.val.kind] /\ d.val.kind # "IdentityStructure"
        /\ d.val.kind = "SchemaDescriptor" => Len(buf) >= 5
    BY <1>9, <2>2, <2>7
  <2> QED BY <1>4, <2>2, <2>3, <2>6, <2>8
<1>10. CASE buf[1] = 6
  <2>1. d = DecodePointer(buf, "OutboundPointer")
    BY <1>1, <1>10, RecordDecoder DEF d
  <2>2. /\ d.val \in Pointer({"InboundPointer", "OutboundPointer"}) /\ d.val.kind = "OutboundPointer"
        /\ Occurs(EncodeRecord(d.val), buf, 0) /\ d.len = 25
    BY <1>0, <1>1, <1>10, <2>1, OutboundCanonical
  <2>3. EncodeRecord(d.val) \in Octets(25)
    BY <1>3, <2>2, OutboundFields
  <2>6. d.val \in OwnershipRecord
    BY <2>2 DEF OwnershipRecord
  <2>7. WireTag["OutboundPointer"] = 6
    BY DEF WireTag
  <2>8. /\ buf[1] = WireTag[d.val.kind] /\ d.val.kind # "IdentityStructure"
        /\ d.val.kind = "SchemaDescriptor" => Len(buf) >= 5
    BY <1>10, <2>2, <2>7
  <2> QED BY <1>4, <2>2, <2>3, <2>6, <2>8
<1>11. CASE buf[1] = 7
  <2>1. d = DecodeRescueChoice(buf)
    BY <1>1, <1>11, RecordDecoder DEF d
  <2>2. /\ d.val \in RescuePolicyChoice /\ d.val.kind = "RescuePolicyChoice"
        /\ Occurs(EncodeRecord(d.val), buf, 0) /\ d.len = 6 + Len(d.val.parameters)
    BY <1>0, <1>1, <1>11, <2>1, RescueCanonical
  <2>3. EncodeRecord(d.val) \in Octets(6 + Len(d.val.parameters))
    BY <1>3, <2>2, RescueFields
  <2>4. Len(d.val.parameters) \in Nat
    BY <2>2 DEF RescuePolicyChoice, Text
  <2> DEFINE m == Len(d.val.parameters)
  <2> HIDE DEF m
  <2>5. 6 + m \in Nat /\ EncodeRecord(d.val) \in Octets(6 + m) /\ d.len = 6 + m
    BY <2>2, <2>3, <2>4 DEF m
  <2>6. d.val \in OwnershipRecord
    BY <2>2 DEF OwnershipRecord
  <2>7. WireTag["RescuePolicyChoice"] = 7
    BY DEF WireTag
  <2>8. /\ buf[1] = WireTag[d.val.kind] /\ d.val.kind # "IdentityStructure"
        /\ d.val.kind = "SchemaDescriptor" => Len(buf) >= 5
    BY <1>11, <2>2, <2>7
  <2> QED BY <1>4, <2>2, <2>5, <2>6, <2>8
<1>12. CASE buf[1] = 8
  <2>1. d = DecodeIdentity(buf)
    BY <1>1, <1>12, RecordDecoder DEF d
  <2>2. /\ d.val \in IdentityStructure /\ d.val.kind = "IdentityStructure"
        /\ d.len <= Len(buf) /\ d.len \in Nat
        /\ Len(buf) >= 30 /\ Len(buf) >= 30 + U32(buf, 26)
        /\ Len(EncodeRecord(d.val)) <= d.len
    BY <1>0, <1>1, <1>12, <2>1, IdentityCanonical
  <2>3. WireTag["IdentityStructure"] = 8
    BY DEF WireTag
  <2>4. d.val \in OwnershipRecord
    BY <2>2 DEF OwnershipRecord
  <2> QED BY <1>1, <1>12, <2>2, <2>3, <2>4 DEF Goal
<1>13. CASE buf[1] = 9
  <2>1. d = DecodeDescriptorRecord(buf)
    BY <1>1, <1>13, RecordDecoder DEF d
  <2>2. /\ d.val \in SchemaDescriptor /\ d.val.kind = "SchemaDescriptor"
        /\ Occurs(EncodeRecord(d.val), buf, 0) /\ d.len = 5 + Len(d.val.descriptor) /\ Len(buf) >= 5
    BY <1>0, <1>1, <1>13, <2>1, DescriptorCanonical
  <2>3. EncodeRecord(d.val) \in Octets(5 + Len(d.val.descriptor))
    BY <1>3, <2>2, DescriptorFields
  <2>4. Len(d.val.descriptor) \in Nat
    BY <2>2 DEF SchemaDescriptor, Text
  <2> DEFINE m == Len(d.val.descriptor)
  <2> HIDE DEF m
  <2>5. 5 + m \in Nat /\ EncodeRecord(d.val) \in Octets(5 + m) /\ d.len = 5 + m
    BY <2>2, <2>3, <2>4 DEF m
  <2>6. d.val \in OwnershipRecord
    BY <2>2 DEF OwnershipRecord
  <2>7. WireTag["SchemaDescriptor"] = 9
    BY DEF WireTag
  <2>8. /\ buf[1] = WireTag[d.val.kind] /\ d.val.kind # "IdentityStructure"
        /\ d.val.kind = "SchemaDescriptor" => Len(buf) >= 5
    BY <1>13, <2>2, <2>7
  <2> QED BY <1>4, <2>2, <2>5, <2>6, <2>8
<1> QED BY <1>2, <1>5, <1>6, <1>7, <1>8, <1>9, <1>10, <1>11, <1>12, <1>13

(* The tags tell the kinds apart. *)
LEMMA TagsDiffer ==
    ASSUME NEW r \in OwnershipRecord, NEW q \in OwnershipRecord, WireTag[r.kind] = WireTag[q.kind]
    PROVE  r.kind = q.kind
<1> DEFINE Kinds == {"OwnershipClaim", "CleanRelease", "MigrationStart", "MigrationEnd",
                     "InboundPointer", "OutboundPointer", "RescuePolicyChoice",
                     "IdentityStructure", "SchemaDescriptor"}
<1>1. ASSUME NEW x \in OwnershipRecord PROVE x.kind \in Kinds
  BY DEF OwnershipRecord, OwnershipClaim, CleanRelease, MigrationStart, MigrationEnd, Pointer,
         RescuePolicyChoice, IdentityStructure, SchemaDescriptor
<1>2. ASSUME NEW j \in Kinds, NEW k \in Kinds, WireTag[j] = WireTag[k] PROVE j = k
  BY <1>2 DEF WireTag
<1> QED BY <1>1, <1>2

(* A string that lies in a prefix lies in the whole. *)
LEMMA PrefixOccurs ==
    ASSUME NEW S, NEW whole \in Seq(S), NEW c \in 0 .. Len(whole), NEW f \in Seq(S),
           Occurs(f, At(whole, 0, c), 0)
    PROVE  Occurs(f, whole, 0) /\ Len(f) <= c
<1>1. /\ Len(At(whole, 0, c)) = c /\ c \in Nat /\ Len(whole) \in Nat /\ Len(f) \in Nat
      /\ \A i \in 1 .. c : At(whole, 0, c)[i] = whole[0 + i]
  BY AtOccurs
<1> QED BY <1>1 DEF Occurs

(* Of a record that was cut short only a schema record decodes. *)
LEMMA RecordCut ==
    ASSUME NEW r \in OwnershipRecord, NEW c \in 0 .. Len(EncodeRecord(r)) - 1,
           DecodeRecord(At(EncodeRecord(r), 0, c)).ok
    PROVE  r.kind = "SchemaDescriptor" /\ c >= 5
<1> DEFINE w == EncodeRecord(r)
           buf == At(w, 0, c)
           d == DecodeRecord(buf)
           q == d.val
<1>1. w \in Seq(Byte) /\ Len(w) \in Nat /\ w[1] = WireTag[r.kind]
  BY RecordType
<1>2. c \in Nat /\ c < Len(w) /\ c \in 0 .. Len(w)
  BY <1>1
<1>3. /\ buf \in Seq(Byte) /\ Len(buf) = c
      /\ \A i \in 1 .. c : buf[i] = w[0 + i]
  BY <1>1, <1>2, AtOccurs
<1>4. Occurs(w, w, 0)
  BY <1>1, OccursFirst
<1> HIDE DEF buf
<1>5. /\ q \in OwnershipRecord /\ d.len \in Nat /\ d.len <= Len(buf)
      /\ buf # <<>> /\ buf[1] = WireTag[q.kind]
      /\ \/ /\ q.kind # "IdentityStructure"
            /\ Occurs(EncodeRecord(q), buf, 0) /\ d.len = Len(EncodeRecord(q))
         \/ /\ q.kind = "IdentityStructure"
            /\ Len(EncodeRecord(q)) <= d.len
            /\ Len(buf) >= 30 /\ Len(buf) >= 30 + U32(buf, 26)
      /\ q.kind = "SchemaDescriptor" => Len(buf) >= 5
  BY <1>3, RecordCanonical DEF buf
<1> HIDE DEF d
<1>6. q.kind = r.kind
  <2>1. c >= 1
    BY <1>2, <1>3, <1>5
  <2>2. buf[1] = w[1]
    BY <1>2, <1>3, <2>1
  <2> QED BY <1>1, <1>5, <2>2, TagsDiffer
<1>7. CASE r.kind = "SchemaDescriptor"
  BY <1>3, <1>5, <1>6, <1>7
<1>8. CASE r.kind = "IdentityStructure"
  <2> DEFINE n == ParamLen(r.partitioning_rule)
  <2>1. r \in IdentityStructure
    BY <1>8 DEF OwnershipRecord, OwnershipClaim, CleanRelease, MigrationStart, MigrationEnd, Pointer,
                RescuePolicyChoice, SchemaDescriptor
  <2>2. n \in Nat
    BY DEF ParamLen
  <2>3. w \in Octets(30 + n) /\ U32(w, 26) = n
    BY <1>1, <1>4, <2>1, IdentityFields, IdentityRoundTrip
  <2> HIDE DEF w, n
  <2>4. Len(w) = 30 + n
    <3>1. 30 + n \in Nat
      BY <2>2
    <3> QED BY <2>3, <3>1, OctetsSeq
  <2>5. c >= 30 /\ c >= 30 + U32(buf, 26)
    BY <1>3, <1>5, <1>6, <1>8
  <2>6. U32(buf, 26) = U32(w, 26)
    <3> DEFINE v == U32(w, 26)
    <3>1. 26 + 4 <= Len(w)
      BY <1>2, <2>5
    <3>2. v \in 0 .. U32Max /\ v \in Nat /\ Occurs(LE(v, 4), w, 26)
      BY <1>1, <3>1, U32Written, U32MaxNat
    <3> HIDE DEF v
    <3>3. LE(v, 4) \in Octets(4)
      BY <3>2, LEType
    <3>4. Occurs(LE(v, 4), buf, 26)
      BY <1>1, <1>2, <2>5, <3>2, <3>3, OccursInPrefix DEF buf
    <3> QED BY <1>3, <3>2, <3>4, U32Read DEF v
  <2> QED BY <1>2, <2>2, <2>3, <2>4, <2>5, <2>6
<1>9. CASE r.kind \notin {"SchemaDescriptor", "IdentityStructure"}
  <2>1. Occurs(EncodeRecord(q), buf, 0)
    BY <1>5, <1>6, <1>9
  <2>2. EncodeRecord(q) \in Seq(Byte)
    BY <1>5, RecordType
  <2>3. Occurs(EncodeRecord(q), w, 0) /\ Len(EncodeRecord(q)) <= c
    BY <1>1, <1>2, <2>1, <2>2, PrefixOccurs DEF buf
  <2>4. DecodeRecord(w) = Ok(q, Len(EncodeRecord(q)))
    BY <1>1, <1>5, <1>6, <1>9, <2>3, RecordRoundTrip
  <2>5. DecodeRecord(w) = Ok(r, Len(w))
    BY <1>1, <1>4, RecordRoundTrip
  <2>6. Len(w) = Len(EncodeRecord(q))
    BY <2>4, <2>5 DEF Ok
  <2> QED BY <1>1, <1>2, <2>3, <2>6
<1> QED BY <1>7, <1>8, <1>9

(* A claim is as long as compute_claim_wire_len says. *)
LEMMA ClaimLength ==
    ASSUME NEW r \in OwnershipRecord, r.kind = "OwnershipClaim"
    PROVE  Len(EncodeRecord(r)) = ClaimWireLen(Len(r.operator_label))
<1>1. r \in OwnershipClaim
  BY DEF OwnershipRecord, CleanRelease, MigrationStart, MigrationEnd, Pointer,
         RescuePolicyChoice, IdentityStructure, SchemaDescriptor
<1>2. <<>> \in Seq(Byte)
  OBVIOUS
<1> DEFINE n == 69 + Len(r.operator_label)
<1>3. EncodeRecord(r) \in Octets(n) /\ n \in Nat
  BY <1>1, <1>2, ClaimFields DEF OwnershipClaim, Text
<1> HIDE DEF n
<1>4. Len(EncodeRecord(r)) = n
  BY <1>3, OctetsSeq
<1> QED BY <1>4 DEF n, ClaimWireLen
-----------------------------------------------------------------------------
(* Messages in transit: what a message is, by its codec. *)
WireCodecs == {"envelope", "record"}

Typed(m) ==
    /\ m.codec = "envelope" => m \in [codec : {"envelope"}, val : EventEnvelope]
    /\ m.codec = "record" => m \in [codec : {"record"}, val : OwnershipRecord]
    /\ m.codec \in FileCodecs => m = [codec |-> m.codec, val |-> m.val]

Encoding(m) == EncodeMessage(m).val

(* The bytes that are there are those that were written, but for the damage, and
   what was decoded was decoded from them. *)
MessageInv ==
    /\ Typed(msg)
    /\ phase = "idle" => damage = "none" /\ msg = None
    /\ phase = "scanning" => IsFile
    /\ msg.codec \in WireCodecs /\ phase # "refused" =>
         /\ EncodeMessage(msg).ok
         /\ wire \in Seq(Byte)
         /\ damage = "none" => wire = Encoding(msg) /\ sound = Len(wire)
         /\ damage = "followed" =>
              /\ sound = Len(Encoding(msg)) /\ Len(Encoding(msg)) <= Len(wire)
              /\ At(wire, 0, Len(Encoding(msg))) = Encoding(msg)
         /\ damage = "cut" =>
              Len(wire) < Len(Encoding(msg)) /\ wire = At(Encoding(msg), 0, Len(wire))
         /\ Decoded => got = DecodeMessage(msg, wire)

(* The codec chooses the encoder and the decoder. *)
LEMMA CodecOf ==
    ASSUME NEW m
    PROVE  /\ m.codec = "envelope" => EncodeMessage(m) = EncodeEnvelope(m.val, WireLimit)
           /\ m.codec = "record" => EncodeMessage(m) = Bytes(EncodeRecord(m.val))
           /\ m.codec \in FileCodecs => EncodeMessage(m) = Bytes(ContainerHeader)
           /\ \A buf : m.codec = "envelope" => DecodeMessage(m, buf) = DecodeEnvelope(buf)
           /\ \A buf : m.codec = "record" => DecodeMessage(m, buf) = DecodeRecord(buf)
<1>1. m.codec = "envelope" => EncodeMessage(m) = EncodeEnvelope(m.val, WireLimit)
  BY DEF EncodeMessage, FileCodecs
<1>2. m.codec = "record" => EncodeMessage(m) = Bytes(EncodeRecord(m.val))
  BY DEF EncodeMessage, FileCodecs
<1>3. m.codec \in FileCodecs => EncodeMessage(m) = Bytes(ContainerHeader)
  BY DEF EncodeMessage, FileCodecs
<1>4. ASSUME NEW buf
      PROVE  /\ m.codec = "envelope" => DecodeMessage(m, buf) = DecodeEnvelope(buf)
             /\ m.codec = "record" => DecodeMessage(m, buf) = DecodeRecord(buf)
  BY DEF DecodeMessage
<1> QED BY <1>1, <1>2, <1>3, <1>4

(* What is sent has bytes. *)
LEMMA EncodingType ==
    ASSUME NEW m, Typed(m), m.codec \in WireCodecs, EncodeMessage(m).ok
    PROVE  /\ Encoding(m) \in Seq(Byte) /\ Len(Encoding(m)) \in Nat
           /\ m.codec = "envelope" =>
                /\ m.val \in EventEnvelope /\ Len(m.val.payload) \in 0 .. U32Max
                /\ Encoding(m) = EnvelopeBytes(m.val)
                /\ Len(Encoding(m)) = 85 + Len(m.val.payload)
           /\ m.codec = "record" =>
                m.val \in OwnershipRecord /\ Encoding(m) = EncodeRecord(m.val)
<1>1. CASE m.codec = "envelope"
  <2> DEFINE e == m.val
             n == Len(e.payload)
  <2>1. e \in EventEnvelope
    BY <1>1 DEF Typed
  <2>2. EncodeMessage(m) = EncodeEnvelope(e, WireLimit)
    BY <1>1, CodecOf
  <2> HIDE DEF e
  <2>3. n \in Nat /\ n \in 0 .. U32Max /\ Encoding(m) = EnvelopeBytes(e)
    BY <2>1, <2>2, EnvelopeEncoded DEF Encoding
  <2>4. EnvelopeBytes(e) \in Octets(85 + n)
    <3>1. <<>> \in Seq(Byte)
      OBVIOUS
    <3> QED BY <2>1, <3>1, EnvelopeFields
  <2> HIDE DEF n
  <2>5. 85 + n \in Nat
    BY <2>3
  <2>6. Encoding(m) \in Seq(Byte) /\ Len(Encoding(m)) = 85 + n
    BY <2>3, <2>4, <2>5, OctetsSeq
  <2> QED BY <1>1, <2>1, <2>3, <2>5, <2>6 DEF n, e
<1>2. CASE m.codec = "record"
  <2>1. m.val \in OwnershipRecord
    BY <1>2 DEF Typed
  <2>2. EncodeMessage(m) = Bytes(EncodeRecord(m.val))
    BY <1>2, CodecOf
  <2>3. Encoding(m) = EncodeRecord(m.val)
    BY <2>2 DEF Encoding, Bytes, Ok
  <2> QED BY <1>2, <2>1, <2>3, RecordType
<1> QED BY <1>1, <1>2 DEF WireCodecs

(* MessageInv is inductive: one step for each action. *)
LEMMA MessageInductive == Spec => []MessageInv
<1>1. Init => MessageInv
  BY DEF Init, IsFile, MessageInv, Typed, None, WireCodecs, FileCodecs
<1>2. MessageInv /\ [Next]_vars => MessageInv'
  <2> SUFFICES ASSUME MessageInv, [Next]_vars PROVE MessageInv'
    OBVIOUS
  <2>1. CASE Encode
    <3>1. PICK i \in DOMAIN Messages :
            /\ msg' = Messages[i]
            /\ IF EncodeMessage(Messages[i]).ok
               THEN phase' = "sent" /\ wire' = EncodeMessage(Messages[i]).val
               ELSE phase' = "refused"
      BY <2>1 DEF Encode
    <3>2. damage' = "none" /\ sound' = Len(wire') /\ phase' # "idle"
      BY <2>1, <3>1 DEF Encode, MessageInv
    <3>3. Typed(msg')
      BY <3>1, MessagesAssumption DEF Typed, NewFile
    <3>4. ASSUME phase' # "refused"
          PROVE  EncodeMessage(msg').ok /\ wire' = Encoding(msg') /\ phase' = "sent"
      BY <3>1, <3>4 DEF Encoding
    <3>5. ASSUME msg'.codec \in WireCodecs, phase' # "refused"
          PROVE  wire' \in Seq(Byte)
      BY <3>3, <3>4, <3>5, EncodingType
    <3> QED BY <3>2, <3>3, <3>4, <3>5 DEF MessageInv, Decoded, IsFile
  <2>2. CASE AppendPayload \/ AppendRecord
    <3>1. /\ msg.codec \in FileCodecs /\ phase' = phase /\ phase = "sent"
          /\ \E v : msg' = [msg EXCEPT !.val = v]
      BY <2>2 DEF AppendPayload, AppendRecord, AppendFrame, InTransit, FileCodecs
    <3>2. msg'.codec = msg.codec /\ Typed(msg')
      BY <3>1 DEF MessageInv, Typed, FileCodecs
    <3> QED BY <3>1, <3>2 DEF MessageInv, WireCodecs, FileCodecs, IsFile
  <2>3. CASE AppendBehind
    BY <2>3 DEF AppendBehind, written, MessageInv, WireCodecs, IsFile
  <2>4. CASE Cut
    <3>1. /\ phase = "sent" /\ phase' = phase /\ msg' = msg /\ damage = "none" /\ damage' = "cut"
      BY <2>4 DEF Cut, InTransit, written
    <3>2. ASSUME msg.codec \in WireCodecs
          PROVE  /\ wire' \in Seq(Byte) /\ Len(wire') < Len(Encoding(msg))
                 /\ wire' = At(Encoding(msg), 0, Len(wire'))
      <4>1. wire \in Seq(Byte) /\ wire = Encoding(msg)
        BY <3>1, <3>2 DEF MessageInv
      <4>2. PICK n \in 0 .. Len(wire) - 1 : wire' = At(wire, 0, n)
        BY <2>4 DEF Cut
      <4>3. n \in Nat /\ 0 + n <= Len(wire) /\ n < Len(wire)
        BY <4>1, <4>2
      <4>4. At(wire, 0, n) \in Seq(Byte) /\ Len(At(wire, 0, n)) = n
        BY <4>1, <4>3, AtOccurs
      <4> QED BY <4>1, <4>2, <4>3, <4>4
    <3> QED BY <3>1, <3>2 DEF MessageInv, Decoded, IsFile
  <2>5. CASE Alter
    <3>1. phase = "sent" /\ phase' = phase /\ msg' = msg /\ damage' = "altered"
      BY <2>5 DEF Alter, InTransit, written
    <3>2. wire \in Seq(Byte) => wire' \in Seq(Byte)
      BY <2>5 DEF Alter
    <3> QED BY <3>1, <3>2 DEF MessageInv, Decoded, IsFile
  <2>6. CASE Follow
    <3>1. /\ phase = "sent" /\ phase' = phase /\ msg' = msg /\ damage = "none"
          /\ damage' = "followed" /\ sound' = sound
      BY <2>6 DEF Follow, InTransit, written
    <3>2. ASSUME msg.codec \in WireCodecs
          PROVE  /\ wire' \in Seq(Byte) /\ Len(Encoding(msg)) <= Len(wire')
                 /\ At(wire', 0, Len(Encoding(msg))) = Encoding(msg)
      <4>1. wire \in Seq(Byte) /\ wire = Encoding(msg) /\ Len(wire) \in Nat
        BY <3>1, <3>2 DEF MessageInv
      <4>2. PICK more \in Extra : wire' = wire \o more
        BY <2>6 DEF Follow
      <4>3. more \in Seq(Byte)
        BY <4>2, MessagesAssumption
      <4>4. wire' \in Seq(Byte) /\ Len(wire) <= Len(wire') /\ Occurs(wire, wire', 0)
        BY <4>1, <4>2, <4>3, OccursFirst
      <4> QED BY <4>1, <4>4, OccursAt
    <3> QED BY <3>1, <3>2 DEF MessageInv, Decoded, IsFile
  <2>7. CASE Decode
    BY <2>7 DEF Decode, written, MessageInv, Decoded
  <2>8. CASE ReadHeader \/ ReadFrame \/ EndScan
    <3>1. phase' # "idle" /\ UNCHANGED msg /\ IsFile
      BY <2>8 DEF ReadHeader, ReadFrame, EndScan, Return, written, MessageInv
    <3> QED BY <3>1 DEF MessageInv, IsFile, WireCodecs, FileCodecs
  <2>9. CASE ReadMeta
    BY <2>9 DEF ReadMeta, written, MessageInv, WireCodecs, IsFile
  <2>10. CASE Reconcile
    <3>1. /\ msg.codec \in FileCodecs /\ phase' = "sent"
          /\ \E v : msg' = [msg EXCEPT !.val = v]
      BY <2>10 DEF Reconcile, FileCodecs
    <3>2. msg'.codec = msg.codec /\ Typed(msg')
      BY <3>1 DEF MessageInv, Typed, FileCodecs
    <3> QED BY <3>1, <3>2 DEF MessageInv, WireCodecs, FileCodecs, IsFile
  <2>11. CASE UNCHANGED vars
    BY <2>11 DEF vars, MessageInv, Decoded, IsFile
  <2> QED BY <2>1, <2>2, <2>3, <2>4, <2>5, <2>6, <2>7, <2>8, <2>9, <2>10, <2>11 DEF Next
<1> QED BY <1>1, <1>2, PTL DEF Spec

(* What was written decodes to itself and to exactly its bytes, whatever follows,
   and never when it was cut; a claim has the length create computed.  encode and
   decode of EventEnvelope and of OwnershipRecord. *)
THEOREM WireRoundTrips == Spec => []WireRoundTrip
<1>1. MessageInv => WireRoundTrip
  <2> SUFFICES ASSUME MessageInv, Decoded, msg.codec \in WireCodecs
               PROVE  /\ damage = "none" => got = Ok(msg.val, Len(wire))
                      /\ damage = "followed" /\ SelfDelimiting(msg) => got = Ok(msg.val, sound)
                      /\ damage = "cut" /\ got.ok => ~SelfDelimiting(msg) /\ Len(wire) >= 5
                      /\ damage = "none" /\ msg.codec = "record" =>
                           (msg.val.kind = "OwnershipClaim" =>
                              Len(wire) = ClaimWireLen(Len(msg.val.operator_label)))
    BY DEF WireRoundTrip, WireCodecs
  <2> DEFINE w == Encoding(msg)
  <2>1. /\ Typed(msg) /\ EncodeMessage(msg).ok /\ wire \in Seq(Byte)
        /\ got = DecodeMessage(msg, wire) /\ Len(wire) \in Nat
    BY DEF MessageInv, Decoded
  <2>2. w \in Seq(Byte) /\ Len(w) \in Nat
    BY <2>1, EncodingType
  <2>3. damage = "none" => wire = w /\ Occurs(w, wire, 0)
    BY <2>2, OccursFirst DEF MessageInv, Decoded
  <2>4. damage = "followed" => sound = Len(w) /\ Occurs(w, wire, 0)
    <3> SUFFICES ASSUME damage = "followed" PROVE sound = Len(w) /\ Occurs(w, wire, 0)
      OBVIOUS
    <3>1. sound = Len(w) /\ Len(w) <= Len(wire) /\ At(wire, 0, Len(w)) = w
      BY DEF MessageInv, Decoded
    <3> HIDE DEF w
    <3> QED BY <2>1, <2>2, <3>1, AtOccurs
  <2>5. damage = "cut" => /\ Len(wire) \in 0 .. Len(w) - 1
                          /\ wire = At(w, 0, Len(wire))
    BY <2>1, <2>2 DEF MessageInv, Decoded
  <2>6. CASE msg.codec = "envelope"
    <3>1. /\ msg.val \in EventEnvelope /\ Len(msg.val.payload) \in 0 .. U32Max
          /\ w = EnvelopeBytes(msg.val) /\ Len(w) = 85 + Len(msg.val.payload)
      BY <2>1, <2>6, EncodingType
    <3>2. got = DecodeEnvelope(wire)
      BY <2>1, <2>6, CodecOf
    <3> HIDE DEF w
    <3>3. Occurs(w, wire, 0) => got = Ok(msg.val, Len(w))
      BY <2>1, <3>1, <3>2, EnvelopeRoundTrip
    <3>4. damage = "cut" => ~got.ok
      <4> SUFFICES ASSUME damage = "cut" PROVE ~got.ok
        OBVIOUS
      <4>1. Len(wire) \in 0 .. Len(EnvelopeBytes(msg.val)) - 1
        BY <2>5, <3>1
      <4>2. ~DecodeEnvelope(At(EnvelopeBytes(msg.val), 0, Len(wire))).ok
        BY <3>1, <4>1, EnvelopeCut
      <4> QED BY <2>5, <3>1, <3>2, <4>2
    <3> QED BY <2>3, <2>4, <2>6, <3>3, <3>4
  <2>7. CASE msg.codec = "record"
    <3>1. msg.val \in OwnershipRecord /\ w = EncodeRecord(msg.val)
      BY <2>1, <2>7, EncodingType
    <3>2. got = DecodeRecord(wire)
      BY <2>1, <2>7, CodecOf
    <3> HIDE DEF w
    <3>3. /\ damage = "none" => got = Ok(msg.val, Len(wire))
          /\ damage = "followed" /\ SelfDelimiting(msg) => got = Ok(msg.val, sound)
      BY <2>1, <2>3, <2>4, <2>7, <3>1, <3>2, RecordRoundTrip DEF SelfDelimiting
    <3>4. damage = "cut" /\ got.ok => ~SelfDelimiting(msg) /\ Len(wire) >= 5
      BY <2>5, <2>7, <3>1, <3>2, RecordCut DEF SelfDelimiting
    <3> QED BY <2>3, <3>1, <3>3, <3>4, ClaimLength
  <2> QED BY <2>6, <2>7 DEF WireCodecs
<1> QED BY <1>1, MessageInductive, PTL

(* Whatever the decoder of an envelope or of a record accepts, its encoder writes
   as the very bytes that were read, but for the parameters of a partitioning rule
   that are skipped. *)
THEOREM WireStaysCanonical == Spec => []WireCanonical
<1>1. MessageInv => WireCanonical
  <2> DEFINE again == EncodeMessage([msg EXCEPT !.val = got.val])
  <2> SUFFICES ASSUME MessageInv, Decoded, msg.codec \in WireCodecs, got.ok
               PROVE  /\ got.len <= Len(wire)
                      /\ again.ok =>
                           \/ again.val = At(wire, 0, got.len)
                           \/ /\ msg.codec = "record" /\ got.val.kind = "IdentityStructure"
                              /\ Len(again.val) <= got.len
                              /\ DecodeRecord(again.val) = Ok(got.val, Len(again.val))
    BY DEF WireCanonical, WireCodecs
  <2>1. Typed(msg) /\ wire \in Seq(Byte) /\ got = DecodeMessage(msg, wire)
    BY DEF MessageInv, Decoded
  <2> DEFINE m == [msg EXCEPT !.val = got.val]
  <2>2. m.codec = msg.codec /\ m.val = got.val
    BY <2>1 DEF Typed, WireCodecs
  <2>3. CASE msg.codec = "envelope"
    <3> DEFINE e == got.val
    <3>1. got = DecodeEnvelope(wire) /\ again = EncodeEnvelope(e, WireLimit)
      <4> HIDE DEF m
      <4> QED BY <2>1, <2>2, <2>3, CodecOf DEF m
    <3>2. /\ e \in EventEnvelope /\ got.len = 85 + Len(e.payload)
          /\ got.len <= Len(wire) /\ Occurs(EnvelopeBytes(e), wire, 0)
      BY <2>1, <3>1, EnvelopeCanonical
    <3>3. again.ok => again.val = EnvelopeBytes(e)
      BY <3>1, <3>2, EnvelopeEncoded
    <3>4. EnvelopeBytes(e) = At(wire, 0, got.len)
      <4>1. got.len \in Nat /\ EnvelopeBytes(e) \in Octets(got.len)
        BY <2>1, <3>2, EnvelopeFields DEF EventEnvelope
      <4> QED BY <2>1, <3>2, <4>1, FieldRead
    <3> QED BY <3>2, <3>3, <3>4
  <2>4. CASE msg.codec = "record"
    <3> DEFINE r == got.val
    <3>1. got = DecodeRecord(wire) /\ again = Bytes(EncodeRecord(r))
      <4> HIDE DEF m
      <4> QED BY <2>1, <2>2, <2>4, CodecOf DEF m
    <3>2. /\ r \in OwnershipRecord /\ got.len \in Nat /\ got.len <= Len(wire)
          /\ \/ /\ r.kind # "IdentityStructure"
                /\ Occurs(EncodeRecord(r), wire, 0) /\ got.len = Len(EncodeRecord(r))
             \/ /\ r.kind = "IdentityStructure"
                /\ Len(EncodeRecord(r)) <= got.len
      BY <2>1, <3>1, RecordCanonical
    <3>3. again.val = EncodeRecord(r) /\ EncodeRecord(r) \in Seq(Byte)
      BY <3>1, <3>2, RecordType DEF Bytes, Ok
    <3> HIDE DEF again
    <3>4. CASE r.kind # "IdentityStructure"
      <4>1. At(wire, 0, Len(EncodeRecord(r))) = EncodeRecord(r)
        BY <2>1, <3>2, <3>3, <3>4, OccursAt
      <4> QED BY <3>2, <3>3, <3>4, <4>1
    <3>5. CASE r.kind = "IdentityStructure"
      <4>1. Occurs(EncodeRecord(r), EncodeRecord(r), 0)
        BY <3>3, OccursFirst
      <4>2. DecodeRecord(EncodeRecord(r)) = Ok(r, Len(EncodeRecord(r)))
        BY <3>2, <3>3, <4>1, RecordRoundTrip
      <4> QED BY <2>4, <3>2, <3>3, <3>5, <4>2
    <3> QED BY <3>4, <3>5
  <2> QED BY <2>3, <2>4 DEF WireCodecs
<1> QED BY <1>1, MessageInductive, PTL

(* Whatever envelope is decoded from damaged bytes, it has the commitment bytes of
   the one that was written only if it is that one. *)
THEOREM CommitmentsExpose == Spec => []CommitmentExposes
<1>1. MessageInv => CommitmentExposes
  <2> SUFFICES ASSUME MessageInv, Decoded, msg.codec = "envelope", got.ok
               PROVE  CommitmentInput(got.val) = CommitmentInput(msg.val) <=> got.val = msg.val
    BY DEF CommitmentExposes
  <2>1. Typed(msg) /\ wire \in Seq(Byte) /\ got = DecodeMessage(msg, wire)
    BY DEF MessageInv, Decoded, WireCodecs
  <2>2. got.val \in EventEnvelope /\ msg.val \in EventEnvelope
    BY <2>1, CodecOf, EnvelopeCanonical DEF Typed
  <2> QED BY <2>2, CommitmentInjective
<1> QED BY <1>1, MessageInductive, PTL
-----------------------------------------------------------------------------
(* A non-empty set of numbers has a least one. *)
LEMMA Least ==
    ASSUME NEW T, T \subseteq Nat, T # {}
    PROVE  \E x \in T : \A y \in T : x <= y
<1>1. ASSUME NEW R, IsWellFoundedOn(R, Nat), \A x, y \in Nat : <<y, x>> \in R <=> y < x
      PROVE  \E x \in T : \A y \in T : x <= y
  <2>1. PICK x \in T : \A y \in T : ~(<<y, x>> \in R)
    BY <1>1, WFMin
  <2>2. ASSUME NEW y \in T PROVE x <= y
    <3>1. x \in Nat /\ y \in Nat
      OBVIOUS
    <3>2. ~(y < x)
      BY <1>1, <2>1, <3>1
    <3> QED BY <3>1, <3>2
  <2> QED BY <2>2
<1>2. \A x, y \in Nat : <<y, x>> \in OpToRel(<, Nat) <=> y < x
  BY DEF OpToRel
<1>3. IsWellFoundedOn(OpToRel(<, Nat), Nat)
  BY NatLessThanWellFounded
<1> QED BY <1>1, <1>2, <1>3

(* The bytes of a file.  Nothing is assumed of a checksum but that it is made of
   four of them. *)
Octet == Byte \cup {Crc(p)[i] : p \in Seq(Byte), i \in 1 .. 4}

(* A checksum is four octets. *)
LEMMA CrcType ==
    ASSUME NEW p \in Seq(Byte)
    PROVE  Crc(p) \in Seq(Octet) /\ Len(Crc(p)) = 4
<1>1. \E f : Crc(p) = [i \in 1 .. 4 |-> f[i]]
  <2> DEFINE f == Crc(p)
  <2>1. Crc(p) = [i \in 1 .. 4 |-> f[i]]
    BY DEF Crc, LE
  <2> QED BY <2>1
<1>2. ASSUME NEW i \in 1 .. 4 PROVE Crc(p)[i] \in Octet
  BY DEF Octet
<1>3. Crc(p) \in [1 .. 4 -> Octet]
  BY <1>1, <1>2
<1> QED BY <1>3, SeqFcn

(* Bytes are octets. *)
LEMMA ByteOctet ==
    ASSUME NEW p \in Seq(Byte)
    PROVE  p \in Seq(Octet) /\ Len(p) \in Nat
<1>1. \A i \in 1 .. Len(p) : p[i] \in Octet
  BY DEF Octet
<1> QED BY <1>1

(* Whatever is framed, the frame is made of octets. *)
LEMMA FrameType ==
    ASSUME NEW p \in Seq(Byte)
    PROVE  EncodeFrame(p) \in Seq(Octet)
<1>1. Len(p) \in Nat /\ p \in Seq(Octet) /\ Crc(p) \in Seq(Octet)
  BY ByteOctet, CrcType
<1>2. LE(Len(p), 4) \in Seq(Byte)
  BY <1>1, LEType
<1>3. LE(Len(p), 4) \in Seq(Octet)
  BY <1>2, ByteOctet
<1> QED BY <1>1, <1>3 DEF EncodeFrame

(* A frame lies where its length, its payload and its checksum do. *)
LEMMA FrameFields ==
    ASSUME NEW p \in Text, NEW buf \in Seq(Octet), NEW off \in Nat
    PROVE  /\ EncodeFrame(p) \in Seq(Octet) /\ Len(EncodeFrame(p)) = 8 + Len(p)
           /\ Len(p) \in 0 .. U32Max /\ Len(p) \in Nat
           /\ Occurs(EncodeFrame(p), buf, off) <=>
                /\ Occurs(LE(Len(p), 4), buf, off) /\ Occurs(p, buf, off + 4)
                /\ Occurs(Crc(p), buf, off + 4 + Len(p))
<1> DEFINE n == Len(p)
           l == LE(n, 4)
           b == l \o p
           w == b \o Crc(p)
<1>1. p \in Seq(Byte) /\ n \in Nat /\ n \in 0 .. U32Max
  BY U32MaxNat DEF Text
<1>2. p \in Seq(Octet)
  BY <1>1, ByteOctet
<1>3. l \in Seq(Octet) /\ Len(l) = 4
  BY <1>1, LEType, ByteOctet
<1>4. Crc(p) \in Seq(Octet) /\ Len(Crc(p)) = 4
  BY <1>1, CrcType
<1>5. EncodeFrame(p) = w
  BY DEF EncodeFrame
<1> HIDE DEF l
<1>6. /\ b \in Seq(Octet) /\ Len(b) = Len(l) + Len(p)
      /\ Occurs(b, buf, off) <=> Occurs(l, buf, off) /\ Occurs(p, buf, off + Len(l))
  BY <1>2, <1>3, OccursConcat
<1> HIDE DEF b
<1>7. /\ w \in Seq(Octet) /\ Len(w) = Len(b) + Len(Crc(p))
      /\ Occurs(w, buf, off) <=> Occurs(b, buf, off) /\ Occurs(Crc(p), buf, off + Len(b))
  BY <1>4, <1>6, OccursConcat
<1> HIDE DEF w, n
<1>8. Len(l) = 4 /\ Len(b) = 4 + n /\ off + Len(b) = off + 4 + n /\ Len(w) = 8 + n
  BY <1>1, <1>3, <1>4, <1>6, <1>7 DEF n
<1> QED BY <1>1, <1>5, <1>6, <1>7, <1>8 DEF l, n

(* The number behind the first off bytes, of a buffer of any bytes. *)
LEMMA LengthRead ==
    ASSUME NEW buf \in Seq(Octet), NEW off \in Nat, NEW n \in 0 .. U32Max,
           Occurs(LE(n, 4), buf, off)
    PROVE  U32(buf, off) = n
<1>1. n \in Int
  BY U32MaxNat
<1>2. LE(n, 4) \in Seq(Octet) /\ Len(LE(n, 4)) = 4
  BY <1>1, LEType, ByteOctet
<1>3. At(buf, off, Len(LE(n, 4))) = LE(n, 4)
  BY <1>2, OccursAt
<1> QED BY <1>2, <1>3, LERoundTrip DEF U32

(* A frame that is all there is read, and one whose end is missing is a torn tail. *)
LEMMA FrameRoundTrip ==
    ASSUME NEW p \in Text, NEW buf \in Seq(Octet), Occurs(EncodeFrame(p), buf, 0)
    PROVE  DecodeFrame(buf) = Ok(p, 8 + Len(p))
<1> DEFINE n == Len(p)
<1>1. /\ Occurs(LE(n, 4), buf, 0) /\ Occurs(p, buf, 4) /\ Occurs(Crc(p), buf, 4 + n)
      /\ n \in Nat /\ n \in 0 .. U32Max /\ Len(EncodeFrame(p)) = 8 + n
  BY FrameFields
<1>2. Len(buf) \in Nat /\ 8 + n <= Len(buf)
  BY <1>1 DEF Occurs
<1>3. U32(buf, 0) = n
  BY <1>1, LengthRead
<1>4. p \in Seq(Octet) /\ Crc(p) \in Seq(Octet) /\ Len(Crc(p)) = 4
  BY ByteOctet, CrcType DEF Text
<1>5. At(buf, 4, n) = p
  BY <1>1, <1>4, OccursAt
<1>6. At(buf, 4 + n, 4) = Crc(p)
  <2>1. 4 + n \in Nat
    BY <1>1
  <2>2. At(buf, 4 + n, Len(Crc(p))) = Crc(p)
    BY <1>1, <1>4, <2>1, OccursAt
  <2> QED BY <1>4, <2>2
<1> HIDE DEF n
<1>7. ~(Len(buf) < 4) /\ ~(Len(buf) < 4 + n + 4) /\ 4 + n + 4 = 8 + n
  BY <1>1, <1>2
<1>8. DecodeFrame(buf) = Ok(p, 8 + n)
  BY <1>3, <1>5, <1>6, <1>7 DEF DecodeFrame
<1> QED BY <1>8 DEF n

(* A frame that is not all there is recognised as truncated. *)
LEMMA FrameTorn ==
    ASSUME NEW p \in Text, NEW buf \in Seq(Octet), Len(buf) < 8 + Len(p),
           Len(buf) >= 4 => Occurs(LE(Len(p), 4), buf, 0)
    PROVE  DecodeFrame(buf) = Truncated
<1> DEFINE n == Len(p)
<1>1. n \in Nat /\ n \in 0 .. U32Max /\ Len(buf) \in Nat
  BY U32MaxNat DEF Text
<1>2. CASE Len(buf) < 4
  BY <1>2 DEF DecodeFrame
<1>3. CASE Len(buf) >= 4
  <2>1. U32(buf, 0) = n
    BY <1>1, <1>3, LengthRead
  <2> HIDE DEF n
  <2>2. ~(Len(buf) < 4) /\ Len(buf) < 4 + n + 4
    BY <1>1, <1>3 DEF n
  <2> QED BY <2>1, <2>2 DEF DecodeFrame
<1> QED BY <1>1, <1>2, <1>3

(* The header of a container is twelve bytes, and reads as one. *)
LEMMA HeaderOfContainer ==
    /\ ContainerMagic \in Seq(Byte) /\ Len(ContainerMagic) = 8
    /\ ContainerHeader \in Seq(Byte) /\ Len(ContainerHeader) = 12
    /\ ContainerHeader \in Seq(Octet)
<1>1. ContainerMagic \in Seq(Byte) /\ Len(ContainerMagic) = 8
  <2>1. {16, 1, 18, 4, 15, 19} \subseteq Byte
    BY BaseAssumption DEF Byte
  <2> QED BY <2>1 DEF ContainerMagic
<1>2. LE(FormatVersion, 4) \in Seq(Byte) /\ Len(LE(FormatVersion, 4)) = 4
  BY LEType DEF FormatVersion
<1> DEFINE f == LE(FormatVersion, 4)
<1> HIDE DEF f
<1>3. ContainerHeader = ContainerMagic \o f /\ f \in Seq(Byte) /\ Len(f) = 4
  BY <1>2 DEF ContainerHeader, f
<1>4. ContainerHeader \in Seq(Byte) /\ Len(ContainerHeader) = 12
  <2>1. ContainerMagic \in Seq(Byte) /\ f \in Seq(Byte)
    BY <1>1, <1>3
  <2>2. /\ ContainerMagic \o f \in Seq(Byte)
        /\ Len(ContainerMagic \o f) = Len(ContainerMagic) + Len(f)
    BY <2>1
  <2> QED BY <1>1, <1>3, <2>2
<1> QED BY <1>1, <1>4, ByteOctet

(* A container header is read where it lies. *)
LEMMA HeaderRead ==
    ASSUME NEW buf \in Seq(Octet), Occurs(ContainerHeader, buf, 0)
    PROVE  DecodeContainerHeader(buf) = Ok(FormatVersion, 12) /\ Len(buf) >= 12
<1> DEFINE f == LE(FormatVersion, 4)
<1>1. ContainerMagic \in Seq(Octet) /\ Len(ContainerMagic) = 8 /\ Len(ContainerHeader) = 12
  BY HeaderOfContainer, ByteOctet
<1>2. f \in Seq(Octet) /\ Len(f) = 4 /\ FormatVersion \in 0 .. U32Max
  <2>1. FormatVersion \in Int /\ f \in Seq(Byte) /\ Len(f) = 4
    BY LEType DEF FormatVersion
  <2>2. f \in Seq(Octet)
    BY <2>1, ByteOctet
  <2>3. FormatVersion = FromLE(<<1, 0, 0, 0>>) /\ <<1, 0, 0, 0>> \in Octets(4)
    BY BaseAssumption DEF FormatVersion, FromLE, Weight, Octets, Byte
  <2> QED BY <2>1, <2>2, <2>3, FromLEValue
<1>3. Occurs(ContainerMagic, buf, 0) /\ Occurs(f, buf, 8)
  <2>1. ContainerMagic \in Seq(Octet) /\ f \in Seq(Octet) /\ 0 \in Nat
    BY <1>1, <1>2
  <2> HIDE DEF f
  <2>2. Occurs(ContainerMagic \o f, buf, 0) <=>
          Occurs(ContainerMagic, buf, 0) /\ Occurs(f, buf, 0 + Len(ContainerMagic))
    BY <2>1, OccursConcat
  <2>3. 0 + Len(ContainerMagic) = 8
    BY <1>1
  <2> QED BY <2>2, <2>3 DEF ContainerHeader, f
<1>4. Len(buf) \in Nat /\ Len(buf) >= 12
  BY <1>1 DEF Occurs
<1>5. At(buf, 0, 8) = ContainerMagic
  BY <1>1, <1>3, OccursAt
<1>6. U32(buf, 8) = FormatVersion
  BY <1>2, <1>3, LengthRead
<1>7. ~(Len(buf) < 8) /\ ~(Len(buf) < 12)
  BY <1>4
<1>8. DecodeContainerHeader(buf) = Ok(FormatVersion, 12)
  BY <1>5, <1>6, <1>7 DEF DecodeContainerHeader
<1> QED BY <1>4, <1>8
-----------------------------------------------------------------------------
(* Files.  Where the first k frames end. *)
EndOf(es, k) == IF k = 0 THEN 12 ELSE es[k]

(* The frames of a file lie one behind the other. *)
Layout(V, es) ==
    /\ V \in Seq(Text) /\ es \in Seq(Nat) /\ Len(es) = Len(V)
    /\ \A j \in 1 .. Len(V) : es[j] = EndOf(es, j - 1) + 8 + Len(V[j])

(* Of a string written behind the first off bytes, what lies in the first s bytes
   is as it was written. *)
Kept(f, w, s, off) == \A i \in 1 .. Len(f) : off + i <= s => w[off + i] = f[i]

(* The first s bytes are those of the header and of the frames. *)
Holds(V, es, w, s) ==
    /\ w \in Seq(Octet) /\ s \in Nat /\ s <= Len(w)
    /\ Kept(ContainerHeader, w, s, 0)
    /\ \A j \in 1 .. Len(V) : Kept(EncodeFrame(V[j]), w, s, EndOf(es, j - 1))

(* How long a file is that nothing happened to, or that was cut. *)
Extent(V, es, w, s, d) ==
    /\ d = "none" => s = Len(w) /\ Len(w) = EndOf(es, Len(V))
    /\ d = "cut" => s = Len(w) /\ Len(w) < EndOf(es, Len(V))

(* The first k frames, and no more, end within the first s bytes. *)
Whole(V, es, s, k) ==
    /\ k \in 0 .. Len(V)
    /\ k > 0 => EndOf(es, k) <= s
    /\ k < Len(V) => s < EndOf(es, k + 1)

(* Where frames end, and what lies between two ends. *)
LEMMA EndType ==
    ASSUME NEW V, NEW es, Layout(V, es), NEW k \in 0 .. Len(V)
    PROVE  /\ Len(V) \in Nat /\ k \in Nat /\ EndOf(es, k) \in Nat
           /\ k < Len(V) => /\ V[k + 1] \in Text /\ Len(V[k + 1]) \in Nat
                            /\ EndOf(es, k + 1) = EndOf(es, k) + 8 + Len(V[k + 1])
<1>1. V \in Seq(Text) /\ es \in Seq(Nat) /\ Len(es) = Len(V) /\ Len(V) \in Nat /\ k \in Nat
  BY DEF Layout
<1>2. EndOf(es, k) \in Nat
  BY <1>1 DEF EndOf
<1>3. ASSUME k < Len(V)
      PROVE  /\ V[k + 1] \in Text /\ Len(V[k + 1]) \in Nat
             /\ EndOf(es, k + 1) = EndOf(es, k) + 8 + Len(V[k + 1])
  <2>1. k + 1 \in 1 .. Len(V) /\ (k + 1) - 1 = k /\ k + 1 # 0
    BY <1>1, <1>3
  <2>2. V[k + 1] \in Text
    BY <1>1, <2>1
  <2>3. es[k + 1] = EndOf(es, k) + 8 + Len(V[k + 1])
    BY <2>1 DEF Layout
  <2>4. Len(V[k + 1]) \in Nat
    BY <2>2 DEF Text
  <2> QED BY <2>1, <2>2, <2>3, <2>4 DEF EndOf
<1> QED BY <1>1, <1>2, <1>3

(* Frames end one behind the other, behind the header. *)
LEMMA EndsGrow ==
    ASSUME NEW V, NEW es, Layout(V, es), NEW i \in 0 .. Len(V), NEW j \in i .. Len(V)
    PROVE  EndOf(es, i) <= EndOf(es, j) /\ EndOf(es, j) >= 12
<1>1. ASSUME NEW a \in 0 .. Len(V), NEW b \in a .. Len(V)
      PROVE  EndOf(es, a) <= EndOf(es, b)
  <2> DEFINE T == {x \in a .. Len(V) : EndOf(es, x) < EndOf(es, a)}
  <2>1. Len(V) \in Nat /\ a \in Nat /\ b \in 0 .. Len(V)
    BY <1>1, EndType
  <2>2. SUFFICES ASSUME ~(EndOf(es, a) <= EndOf(es, b)) PROVE FALSE
    OBVIOUS
  <2>3. b \in T /\ T \subseteq Nat
    BY <1>1, <2>1, <2>2, EndType
  <2>4. PICK x \in T : \A y \in T : x <= y
    BY <2>3, Least
  <2>5. x \in a .. Len(V) /\ EndOf(es, x) < EndOf(es, a) /\ x > a /\ x - 1 \in a .. Len(V)
    <3>1. x \in a .. Len(V) /\ EndOf(es, x) < EndOf(es, a) /\ EndOf(es, a) \in Nat
      BY <2>1, <2>4, EndType
    <3>2. x # a
      BY <3>1
    <3> QED BY <2>1, <3>1, <3>2
  <2>6. EndOf(es, x - 1) >= EndOf(es, a)
    <3>1. x - 1 \notin T
      BY <2>1, <2>4, <2>5
    <3>2. EndOf(es, x - 1) \in Nat /\ EndOf(es, a) \in Nat
      <4>1. x - 1 \in 0 .. Len(V)
        BY <2>1, <2>5
      <4> QED BY <2>1, <4>1, EndType
    <3> QED BY <2>5, <3>1, <3>2
  <2>7. EndOf(es, x) >= EndOf(es, x - 1) /\ EndOf(es, x) \in Nat /\ EndOf(es, x - 1) \in Nat
    <3> DEFINE z == x - 1
    <3>1. z \in 0 .. Len(V) /\ z < Len(V) /\ z + 1 = x /\ x \in 0 .. Len(V)
      BY <2>1, <2>5
    <3> HIDE DEF z
    <3>2. /\ EndOf(es, z + 1) = EndOf(es, z) + 8 + Len(V[z + 1])
          /\ EndOf(es, z) \in Nat /\ Len(V[z + 1]) \in Nat
      BY <3>1, EndType
    <3>3. EndOf(es, x) >= EndOf(es, z) /\ EndOf(es, x) \in Nat
      BY <3>1, <3>2
    <3> QED BY <3>2, <3>3 DEF z
  <2>8. EndOf(es, a) \in Nat
    BY <2>1, EndType
  <2> QED BY <2>5, <2>6, <2>7, <2>8
<1>2. Len(V) \in Nat /\ j \in 0 .. Len(V) /\ 0 \in 0 .. Len(V)
  BY EndType
<1>3. EndOf(es, 0) = 12 /\ EndOf(es, 0) <= EndOf(es, j)
  BY <1>1, <1>2 DEF EndOf
<1>4. EndOf(es, j) \in Nat
  BY <1>2, EndType
<1> QED BY <1>1, <1>3, <1>4

(* Some number of frames is whole. *)
LEMMA SomeWhole ==
    ASSUME NEW V, NEW es, Layout(V, es), NEW s \in Nat
    PROVE  \E k \in 0 .. Len(V) : Whole(V, es, s, k)
<1> DEFINE T == {x \in 0 .. Len(V) : x = Len(V) \/ s < EndOf(es, x + 1)}
<1>1. Len(V) \in Nat
  BY DEF Layout
<1>2. Len(V) \in T /\ T \subseteq Nat
  BY <1>1
<1>3. PICK k \in T : \A y \in T : k <= y
  BY <1>2, Least
<1>4. k \in 0 .. Len(V) /\ (k < Len(V) => s < EndOf(es, k + 1))
  BY <1>1, <1>3
<1>5. ASSUME k > 0 PROVE EndOf(es, k) <= s
  <2> DEFINE z == k - 1
  <2>1. z \in 0 .. Len(V) /\ z + 1 = k /\ z # Len(V) /\ z < k
    BY <1>1, <1>4, <1>5
  <2> HIDE DEF z
  <2>2. z \notin T
    <3>1. ASSUME z \in T PROVE k <= z
      BY <1>3, <3>1
    <3> QED BY <1>1, <1>4, <2>1, <3>1
  <2>3. ~(s < EndOf(es, z + 1))
    BY <2>1, <2>2
  <2>4. EndOf(es, k) \in Nat
    BY <1>4, EndType
  <2> QED BY <2>1, <2>3, <2>4
<1> QED BY <1>4, <1>5 DEF Whole

(* A frame that ends within the sound bytes lies in the file as it was written. *)
LEMMA SoundFrame ==
    ASSUME NEW V, NEW es, NEW w, NEW s, Layout(V, es), Holds(V, es, w, s),
           NEW n \in 0 .. Len(V), n < Len(V)
    PROVE  /\ EndOf(es, n + 1) <= s =>
                DecodeFrame(From(w, EndOf(es, n))) = Ok(V[n + 1], 8 + Len(V[n + 1]))
           /\ EndOf(es, n) < Len(w) /\ s = Len(w) /\ s < EndOf(es, n + 1) =>
                DecodeFrame(From(w, EndOf(es, n))) = Truncated
<1> DEFINE off == EndOf(es, n)
           end == EndOf(es, n + 1)
           p == V[n + 1]
           f == EncodeFrame(p)
           l == LE(Len(p), 4)
           buf == From(w, off)
<1>1. /\ p \in Text /\ Len(p) \in Nat /\ off \in Nat /\ end = off + 8 + Len(p)
      /\ Len(V) \in Nat /\ n \in Nat
  BY EndType
<1>2. w \in Seq(Octet) /\ s \in Nat /\ s <= Len(w) /\ Len(w) \in Nat
  BY DEF Holds
<1>3. \A i \in 1 .. Len(f) : off + i <= s => w[off + i] = f[i]
  <2>1. n + 1 \in 1 .. Len(V) /\ (n + 1) - 1 = n
    BY <1>1
  <2> QED BY <2>1 DEF Holds, Kept
<1> HIDE DEF off, end, p, f, buf, l
<1>4. f \in Seq(Octet) /\ Len(f) = 8 + Len(p)
  BY <1>1, <1>2, FrameFields DEF f
<1>5. ASSUME end <= s
      PROVE  DecodeFrame(buf) = Ok(p, 8 + Len(p))
  <2>1. Occurs(f, w, off)
    BY <1>1, <1>2, <1>3, <1>4, <1>5 DEF Occurs
  <2>2. off <= Len(w) /\ off + 0 = off
    BY <1>1, <1>2, <1>5
  <2>3. Occurs(f, buf, 0) /\ buf \in Seq(Octet)
    BY <1>1, <1>2, <1>4, <2>1, <2>2, OccursInRest, RestOf DEF buf
  <2> QED BY <1>1, <2>3, FrameRoundTrip DEF f
<1>6. ASSUME off < Len(w), s = Len(w), s < end
      PROVE  DecodeFrame(buf) = Truncated
  <2>1. buf \in Seq(Octet) /\ Len(buf) = Len(w) - off /\ off <= Len(w) /\ off + 0 = off
    BY <1>1, <1>2, <1>6, RestOf DEF buf
  <2>2. Len(buf) < 8 + Len(p)
    BY <1>1, <1>2, <1>6, <2>1
  <2>3. ASSUME Len(buf) >= 4 PROVE Occurs(l, buf, 0)
    <3>1. l \in Seq(Octet) /\ Len(l) = 4
      BY <1>1, LEType, ByteOctet DEF l
    <3>2. Occurs(l, f, 0)
      <4>1. Occurs(f, f, 0)
        BY <1>4, OccursFirst
      <4> QED BY <1>1, <1>4, <4>1, FrameFields DEF f, l
    <3>3. \A i \in 1 .. Len(l) : f[i] = l[i]
      BY <1>1, <1>4, <3>1, <3>2 DEF Occurs
    <3>4. off + Len(l) <= s /\ Len(l) <= Len(f)
      BY <1>1, <1>2, <1>4, <1>6, <2>1, <2>3, <3>1
    <3>5. \A i \in 1 .. Len(l) : i \in 1 .. Len(f) /\ off + i <= s
      BY <1>1, <1>2, <1>4, <3>1, <3>4
    <3>6. Occurs(l, w, off)
      BY <1>3, <1>6, <3>3, <3>4, <3>5 DEF Occurs
    <3> QED BY <1>1, <1>2, <2>1, <3>1, <3>6, OccursInRest DEF buf
  <2> QED BY <1>1, <2>1, <2>2, <2>3, FrameTorn DEF l
<1> QED BY <1>5, <1>6 DEF off, end, p, buf

(* The sound bytes of a file that was cut, altered or written behind. *)
LEMMA HoldsLess ==
    ASSUME NEW V, NEW es, NEW w, NEW s, Layout(V, es), Holds(V, es, w, s),
           NEW v \in Seq(Octet), NEW t \in Nat, t <= s, t <= Len(v),
           \A i \in 1 .. t : v[i] = w[i]
    PROVE  Holds(V, es, v, t)
<1>1. s \in Nat /\ Len(v) \in Nat
  BY DEF Holds
<1>2. ASSUME NEW f, NEW off \in Nat, Kept(f, w, s, off)
      PROVE  Kept(f, v, t, off)
  <2>1. ASSUME NEW i \in 1 .. Len(f), off + i <= t PROVE v[off + i] = f[i]
    <3>1. off + i \in 1 .. t /\ off + i <= s
      BY <1>1, <2>1
    <3> QED BY <1>2, <3>1 DEF Kept
  <2> QED BY <2>1 DEF Kept
<1>3. Kept(ContainerHeader, v, t, 0)
  BY <1>2 DEF Holds
<1>4. ASSUME NEW j \in 1 .. Len(V) PROVE Kept(EncodeFrame(V[j]), v, t, EndOf(es, j - 1))
  <2>1. Len(V) \in Nat /\ j - 1 \in 0 .. Len(V)
    BY DEF Layout
  <2>2. EndOf(es, j - 1) \in Nat
    BY <2>1, EndType
  <2> QED BY <1>2, <2>2 DEF Holds
<1> QED BY <1>3, <1>4 DEF Holds

(* Appending a frame. *)
LEMMA LayoutAppend ==
    ASSUME NEW V, NEW es, Layout(V, es), NEW p \in Text
    PROVE  LET U == Append(V, p)
               fs == Append(es, EndOf(es, Len(V)) + 8 + Len(p)) IN
           /\ Layout(U, fs) /\ Len(U) = Len(V) + 1
           /\ \A k \in 0 .. Len(V) : EndOf(fs, k) = EndOf(es, k)
           /\ EndOf(fs, Len(U)) = EndOf(es, Len(V)) + 8 + Len(p)
           /\ \A j \in 1 .. Len(V) : U[j] = V[j]
           /\ U[Len(V) + 1] = p
<1> DEFINE n == Len(V)
           x == EndOf(es, n) + 8 + Len(p)
           U == Append(V, p)
           fs == Append(es, x)
<1>1. V \in Seq(Text) /\ es \in Seq(Nat) /\ Len(es) = n /\ n \in Nat
  BY DEF Layout
<1>2. EndOf(es, n) \in Nat /\ Len(p) \in Nat
  BY <1>1, EndType DEF Text
<1>3. x \in Nat
  BY <1>2
<1> HIDE DEF x, n
<1>4. /\ U \in Seq(Text) /\ Len(U) = n + 1 /\ U[n + 1] = p
      /\ \A j \in 1 .. n : U[j] = V[j]
  BY <1>1 DEF n
<1>5. /\ fs \in Seq(Nat) /\ Len(fs) = n + 1 /\ fs[n + 1] = x
      /\ \A j \in 1 .. n : fs[j] = es[j]
  BY <1>1, <1>3
<1> HIDE DEF U, fs
<1>6. \A k \in 0 .. n : EndOf(fs, k) = EndOf(es, k)
  BY <1>1, <1>5 DEF EndOf
<1>7. EndOf(fs, n + 1) = x
  BY <1>1, <1>5 DEF EndOf
<1>8. ASSUME NEW j \in 1 .. n + 1 PROVE fs[j] = EndOf(fs, j - 1) + 8 + Len(U[j])
  <2>1. CASE j = n + 1
    <3>1. j - 1 = n /\ n \in 0 .. n
      BY <1>1, <2>1
    <3> QED BY <1>4, <1>5, <1>6, <2>1, <3>1 DEF x
  <2>2. CASE j \in 1 .. n
    <3>1. j - 1 \in 0 .. n
      BY <1>1, <2>2
    <3>2. es[j] = EndOf(es, j - 1) + 8 + Len(V[j])
      BY <2>2 DEF Layout, n
    <3> QED BY <1>4, <1>5, <1>6, <2>2, <3>1, <3>2
  <2> QED BY <1>1, <2>1, <2>2
<1>9. Layout(U, fs)
  BY <1>4, <1>5, <1>8 DEF Layout
<1> QED BY <1>4, <1>6, <1>7, <1>9 DEF U, fs, x, n

(* The bytes of a whole file after a frame was appended. *)
LEMMA HoldsAppend ==
    ASSUME NEW V, NEW es, NEW w, Layout(V, es), Holds(V, es, w, Len(w)),
           Len(w) = EndOf(es, Len(V)), NEW p \in Text
    PROVE  LET v == w \o EncodeFrame(p) IN
           /\ v \in Seq(Octet) /\ Len(v) = Len(w) + 8 + Len(p)
           /\ Holds(Append(V, p), Append(es, Len(v)), v, Len(v))
           /\ Layout(Append(V, p), Append(es, Len(v)))
           /\ Len(v) = EndOf(Append(es, Len(v)), Len(Append(V, p)))
<1> DEFINE f == EncodeFrame(p)
           v == w \o f
           U == Append(V, p)
           fs == Append(es, Len(v))
           n == Len(V)
<1>1. w \in Seq(Octet) /\ Len(w) \in Nat /\ n \in Nat
  BY DEF Holds, Layout
<1>2. f \in Seq(Octet) /\ Len(f) = 8 + Len(p) /\ Len(p) \in Nat
  BY <1>1, FrameFields
<1> HIDE DEF f, n
<1>3. /\ v \in Seq(Octet) /\ Len(v) = Len(w) + Len(f)
      /\ \A i \in 1 .. Len(w) : v[i] = w[i]
      /\ \A i \in 1 .. Len(f) : v[Len(w) + i] = f[i]
  <2>1. Len(f) \in Nat
    BY <1>2
  <2>2. v \in Seq(Octet) /\ Len(v) = Len(w) + Len(f)
    BY <1>1, <1>2, SMTT(20)
  <2>3. \A i \in 1 .. Len(w) : v[i] = w[i]
    BY <1>1, <1>2, <2>1, SMTT(20)
  <2>4. \A i \in 1 .. Len(f) : v[Len(w) + i] = f[i]
    BY <1>1, <1>2, <2>1, SMTT(20)
  <2> QED BY <2>2, <2>3, <2>4
<1> HIDE DEF v
<1>4. Len(v) = EndOf(es, n) + 8 + Len(p) /\ Len(v) \in Nat
  BY <1>1, <1>2, <1>3 DEF n
<1>5. /\ Layout(U, fs) /\ Len(U) = n + 1 /\ EndOf(fs, Len(U)) = Len(v)
      /\ \A k \in 0 .. n : EndOf(fs, k) = EndOf(es, k)
      /\ \A j \in 1 .. n : U[j] = V[j]
      /\ U[n + 1] = p
  <2> DEFINE x == EndOf(es, Len(V)) + 8 + Len(p)
             hs == Append(es, x)
  <2>1. Len(v) = x
    BY <1>4 DEF n
  <2>2. fs = hs
    BY <2>1
  <2> HIDE DEF fs, hs
  <2>3. /\ Layout(U, hs) /\ Len(U) = Len(V) + 1 /\ EndOf(hs, Len(U)) = x
        /\ \A k \in 0 .. Len(V) : EndOf(hs, k) = EndOf(es, k)
        /\ \A j \in 1 .. Len(V) : U[j] = V[j]
        /\ U[Len(V) + 1] = p
    BY LayoutAppend, SMTT(20) DEF hs
  <2> HIDE DEF x, U
  <2> QED BY <2>1, <2>2, <2>3 DEF n
<1> HIDE DEF U, fs
<1>6. ASSUME NEW g, NEW off \in Nat, Kept(g, w, Len(w), off), off + Len(g) <= Len(w), Len(g) \in Nat
      PROVE  Kept(g, v, Len(v), off)
  <2>1. ASSUME NEW i \in 1 .. Len(g) PROVE v[off + i] = g[i]
    <3>1. off + i \in 1 .. Len(w) /\ off + i <= Len(w)
      BY <1>1, <1>6, <2>1
    <3> QED BY <1>3, <1>6, <3>1 DEF Kept
  <2> QED BY <2>1 DEF Kept
<1>7. Kept(ContainerHeader, v, Len(v), 0)
  <2>1. Kept(ContainerHeader, w, Len(w), 0)
    BY DEF Holds
  <2>2. EndOf(es, n) >= 12
    BY <1>1, EndsGrow DEF n
  <2>3. 0 + Len(ContainerHeader) <= Len(w)
    BY <1>1, <2>2, HeaderOfContainer DEF n
  <2>4. Len(ContainerHeader) \in Nat /\ 0 \in Nat
    BY HeaderOfContainer
  <2> QED BY <1>6, <2>1, <2>3, <2>4
<1>8. ASSUME NEW j \in 1 .. n + 1 PROVE Kept(EncodeFrame(U[j]), v, Len(v), EndOf(fs, j - 1))
  <2>1. CASE j = n + 1
    <3>1. j - 1 = n /\ n \in 0 .. n
      BY <1>1, <2>1
    <3>2. EndOf(fs, j - 1) = Len(w) /\ EncodeFrame(U[j]) = f
      BY <1>5, <2>1, <3>1 DEF n, f
    <3>3. Kept(f, v, Len(v), Len(w))
      BY <1>3 DEF Kept
    <3> QED BY <3>2, <3>3
  <2>2. CASE j \in 1 .. n
    <3> DEFINE k == j - 1
               g == EncodeFrame(V[j])
    <3>1. k \in 0 .. n /\ k < n /\ k + 1 = j /\ j \in 0 .. n /\ n \in j .. n
      BY <1>1, <2>2
    <3>2. /\ V[j] \in Text /\ Len(V[j]) \in Nat /\ EndOf(es, k) \in Nat
          /\ EndOf(es, j) = EndOf(es, k) + 8 + Len(V[j])
      <4> HIDE DEF k
      <4> QED BY <3>1, EndType DEF n
    <3>3. EndOf(es, j) <= Len(w)
      BY <3>1, EndsGrow DEF n
    <3>4. Len(g) = 8 + Len(V[j])
      BY <1>1, <3>2, FrameFields
    <3>5. Kept(g, w, Len(w), EndOf(es, k))
      BY <2>2 DEF Holds, n
    <3> HIDE DEF g, k
    <3>6. EndOf(es, k) + Len(g) <= Len(w) /\ Len(g) \in Nat
      BY <1>1, <3>2, <3>3, <3>4
    <3>7. Kept(g, v, Len(v), EndOf(es, k))
      BY <1>6, <3>2, <3>5, <3>6
    <3> QED BY <1>5, <2>2, <3>1, <3>7 DEF g, k
  <2> QED BY <1>1, <2>1, <2>2
<1>9. Holds(U, fs, v, Len(v))
  BY <1>3, <1>4, <1>5, <1>7, <1>8 DEF Holds
<1>10. Len(v) = Len(w) + 8 + Len(p)
  BY <1>1, <1>2, <1>3
<1> QED BY <1>3, <1>5, <1>9, <1>10 DEF v, f, U, fs, n

(* The frames a torn tail is cut behind. *)
LEMMA LayoutPrefix ==
    ASSUME NEW V, NEW es, Layout(V, es), NEW k \in 0 .. Len(V)
    PROVE  LET U == SubSeq(V, 1, k)
               fs == SubSeq(es, 1, k) IN
           /\ Layout(U, fs) /\ Len(U) = k
           /\ \A i \in 0 .. k : EndOf(fs, i) = EndOf(es, i)
           /\ \A j \in 1 .. k : U[j] = V[j]
<1> DEFINE U == SubSeq(V, 1, k)
           fs == SubSeq(es, 1, k)
<1>1. V \in Seq(Text) /\ es \in Seq(Nat) /\ Len(es) = Len(V) /\ Len(V) \in Nat /\ k \in Nat
  BY DEF Layout
<1>2. U \in Seq(Text) /\ Len(U) = k /\ \A j \in 1 .. k : U[j] = V[j]
  BY <1>1
<1>3. fs \in Seq(Nat) /\ Len(fs) = k /\ \A j \in 1 .. k : fs[j] = es[j]
  BY <1>1
<1> HIDE DEF U, fs
<1>4. \A i \in 0 .. k : EndOf(fs, i) = EndOf(es, i)
  BY <1>1, <1>3 DEF EndOf
<1>5. ASSUME NEW j \in 1 .. k PROVE fs[j] = EndOf(fs, j - 1) + 8 + Len(U[j])
  <2>1. j \in 1 .. Len(V) /\ j - 1 \in 0 .. k
    BY <1>1
  <2>2. es[j] = EndOf(es, j - 1) + 8 + Len(V[j])
    BY <2>1 DEF Layout
  <2> QED BY <1>2, <1>3, <1>4, <2>1, <2>2
<1>6. Layout(U, fs)
  BY <1>2, <1>3, <1>5 DEF Layout
<1> QED BY <1>2, <1>4, <1>6 DEF U, fs

(* The bytes of a file that was cut behind a whole frame. *)
LEMMA HoldsPrefix ==
    ASSUME NEW V, NEW es, NEW w, NEW s, Layout(V, es), Holds(V, es, w, s),
           NEW k \in 0 .. Len(V), EndOf(es, k) <= s
    PROVE  LET v == At(w, 0, EndOf(es, k)) IN
           /\ v \in Seq(Octet) /\ Len(v) = EndOf(es, k)
           /\ Holds(SubSeq(V, 1, k), SubSeq(es, 1, k), v, Len(v))
           /\ EndOf(es, k) = Len(w) => v = w
<1> DEFINE e == EndOf(es, k)
           v == At(w, 0, e)
           U == SubSeq(V, 1, k)
           fs == SubSeq(es, 1, k)
<1>1. w \in Seq(Octet) /\ s \in Nat /\ s <= Len(w) /\ Len(w) \in Nat /\ e \in Nat /\ k \in Nat /\ Len(V) \in Nat
  BY EndType DEF Holds
<1>2. e <= s
  OBVIOUS
<1> HIDE DEF e
<1>3. v \in Seq(Octet) /\ Len(v) = e /\ \A i \in 1 .. e : v[i] = w[i]
  BY <1>1, <1>2 DEF At
<1>4. e = Len(w) => v = w
  <2>1. ASSUME e = Len(w) PROVE v = w
    BY <1>1, <1>3, <2>1, SeqEqual
  <2> QED BY <2>1
<1> HIDE DEF v
<1>5. Holds(V, es, v, e)
  BY <1>1, <1>2, <1>3, HoldsLess
<1>6. /\ Len(U) = k /\ \A i \in 0 .. k : EndOf(fs, i) = EndOf(es, i)
      /\ \A j \in 1 .. k : U[j] = V[j]
  BY LayoutPrefix
<1> HIDE DEF U, fs
<1>7. ASSUME NEW j \in 1 .. k PROVE Kept(EncodeFrame(U[j]), v, e, EndOf(fs, j - 1))
  <2>1. j \in 1 .. Len(V) /\ j - 1 \in 0 .. k
    BY <1>1
  <2>2. Kept(EncodeFrame(V[j]), v, e, EndOf(es, j - 1))
    BY <1>5, <2>1 DEF Holds
  <2> QED BY <1>6, <2>1, <2>2
<1>8. Holds(U, fs, v, e)
  BY <1>5, <1>6, <1>7 DEF Holds
<1> QED BY <1>3, <1>4, <1>8 DEF U, fs, v, e

(* A file on disk: its frames, its bytes and what happened to them. *)
File(V, es, w, s, d) == Layout(V, es) /\ Holds(V, es, w, s) /\ Extent(V, es, w, s, d)

(* Up to the damage, the scan stands between two frames and has found those before it. *)
OnTrack(V, es, s, sc) ==
    \E n \in 0 .. Len(V) :
        /\ sc.frames = SubSeq(V, 1, n) /\ sc.cursor = EndOf(es, n)
        /\ n > 0 => EndOf(es, n) <= s

Begins(V, k, frames) == k <= Len(frames) /\ SubSeq(frames, 1, k) = SubSeq(V, 1, k)

(* Behind the damage, whatever it finds comes after the whole frames. *)
Past(V, es, s, sc) ==
    \E k \in 0 .. Len(V) : /\ Whole(V, es, s, k)
                           /\ \E S : sc.frames \in Seq(S)
                           /\ Begins(V, k, sc.frames)

(* Damage after which what is there is what was written, if not all of it. *)
Torn == {"none", "cut"}

ScanInv(V, es, w, s, d, sc) ==
    /\ Len(w) >= 12
    /\ OnTrack(V, es, s, sc) \/ (d \notin Torn /\ Past(V, es, s, sc))

(* What ScanFindsWhole says of a file that was scanned. *)
Outcome(V, es, w, s, d, g) ==
    \E k \in 0 .. Len(V) :
        /\ Whole(V, es, s, k)
        /\ IF d \notin Torn THEN g.ok => Begins(V, k, g.frames)
           ELSE IF Len(w) < 12 THEN ~g.ok
           ELSE g = Found(SubSeq(V, 1, k), EndOf(es, k) < Len(w), EndOf(es, k))

(* Types of what makes up a file, and how far its sound bytes reach. *)
LEMMA FileType ==
    ASSUME NEW V, NEW es, NEW w, NEW s, NEW d, File(V, es, w, s, d)
    PROVE  /\ Layout(V, es) /\ Holds(V, es, w, s) /\ V \in Seq(Text) /\ Len(V) \in Nat
           /\ w \in Seq(Octet) /\ Len(w) \in Nat /\ s \in Nat /\ s <= Len(w)
           /\ d \in Torn => s = Len(w) /\ s <= EndOf(es, Len(V))
           /\ d = "none" => s = EndOf(es, Len(V))
           /\ d = "cut" => s < EndOf(es, Len(V))
<1>1. Layout(V, es) /\ Holds(V, es, w, s)
  BY DEF File
<1>2. V \in Seq(Text) /\ Len(V) \in Nat /\ w \in Seq(Octet) /\ Len(w) \in Nat /\ s \in Nat /\ s <= Len(w)
  BY <1>1 DEF Layout, Holds
<1>3. EndOf(es, Len(V)) \in Nat
  BY <1>1, <1>2, EndType
<1> QED BY <1>1, <1>2, <1>3 DEF File, Extent, Torn

(* The frames before the cursor are where the outcome of a scan that ends says. *)
LEMMA OutcomeAt ==
    ASSUME NEW V, NEW es, NEW w, NEW s, NEW d, File(V, es, w, s, d), Len(w) >= 12,
           NEW n \in 0 .. Len(V), Whole(V, es, s, n)
    PROVE  /\ d \in Torn => Outcome(V, es, w, s, d, Found(SubSeq(V, 1, n), EndOf(es, n) < Len(w), EndOf(es, n)))
           /\ d \notin Torn => \A t, e : Outcome(V, es, w, s, d, Found(SubSeq(V, 1, n), t, e))
           /\ d \notin Torn => Past(V, es, s, [cursor |-> 0, frames |-> SubSeq(V, 1, n)])
           /\ Begins(V, n, SubSeq(V, 1, n))
<1>1. V \in Seq(Text) /\ Len(V) \in Nat /\ Len(w) \in Nat
  BY FileType
<1>2. SubSeq(V, 1, n) \in Seq(Text) /\ Len(SubSeq(V, 1, n)) = n
  BY <1>1
<1>3. SubSeq(SubSeq(V, 1, n), 1, n) = SubSeq(V, 1, n)
  <2> DEFINE U == SubSeq(V, 1, n)
             X == SubSeq(U, 1, n)
  <2>1. n \in Nat /\ U \in Seq(Text) /\ Len(U) = n
    BY <1>1, <1>2
  <2> HIDE DEF U
  <2>2. X \in Seq(Text) /\ Len(X) = n /\ \A i \in 1 .. n : X[i] = U[i]
    BY <2>1
  <2> HIDE DEF X
  <2>3. X = U
    BY <2>1, <2>2, SeqEqual
  <2> QED BY <2>3 DEF U, X
<1>4. Begins(V, n, SubSeq(V, 1, n))
  BY <1>2, <1>3 DEF Begins
<1>5. d \in Torn => Outcome(V, es, w, s, d, Found(SubSeq(V, 1, n), EndOf(es, n) < Len(w), EndOf(es, n)))
  BY <1>1 DEF Outcome
<1>6. ASSUME d \notin Torn, NEW t, NEW e
      PROVE  Outcome(V, es, w, s, d, Found(SubSeq(V, 1, n), t, e))
  BY <1>4, <1>6 DEF Outcome, Found
<1>7. Past(V, es, s, [cursor |-> 0, frames |-> SubSeq(V, 1, n)])
  BY <1>2, <1>4 DEF Past
<1> QED BY <1>4, <1>5, <1>6, <1>7

(* A failed scan of a file that was damaged otherwise, or of one without a header. *)
LEMMA OutcomeFailed ==
    ASSUME NEW V, NEW es, NEW w, NEW s, NEW d, NEW g, File(V, es, w, s, d), ~g.ok,
           d \notin Torn \/ Len(w) < 12
    PROVE  Outcome(V, es, w, s, d, g)
<1>1. PICK k \in 0 .. Len(V) : Whole(V, es, s, k)
  BY FileType, SomeWhole
<1> QED BY <1>1 DEF Outcome

(* read_container_frames up to its loop. *)
LEMMA HeaderStep ==
    ASSUME NEW V, NEW es, NEW w, NEW s, NEW d, File(V, es, w, s, d)
    PROVE  LET header == IF Len(w) < 12 THEN Err("TooShort") ELSE DecodeContainerHeader(w) IN
           /\ header.ok => ScanInv(V, es, w, s, d, [cursor |-> header.len, frames |-> <<>>])
           /\ ~header.ok => Outcome(V, es, w, s, d, header)
<1> DEFINE header == IF Len(w) < 12 THEN Err("TooShort") ELSE DecodeContainerHeader(w)
<1>1. /\ w \in Seq(Octet) /\ Len(w) \in Nat /\ V \in Seq(Text) /\ Len(V) \in Nat
      /\ Holds(V, es, w, s) /\ (d \in Torn => s = Len(w))
  BY FileType
<1>2. header.ok => Len(w) >= 12 /\ header.len = 12
  BY <1>1 DEF DecodeContainerHeader, Err, Ok
<1>3. ASSUME d \in Torn, Len(w) >= 12 PROVE header.ok
  <2>1. Kept(ContainerHeader, w, Len(w), 0) /\ Len(ContainerHeader) <= Len(w) /\ Len(ContainerHeader) \in Nat
    BY <1>1, <1>3, HeaderOfContainer DEF Holds
  <2>2. Occurs(ContainerHeader, w, 0)
    BY <1>1, <2>1 DEF Kept, Occurs
  <2>3. DecodeContainerHeader(w) = Ok(FormatVersion, 12)
    BY <1>1, <2>2, HeaderRead
  <2>4. header = Ok(FormatVersion, 12)
    BY <1>1, <1>3, <2>3
  <2> QED BY <2>4 DEF Ok
<1> HIDE DEF header
<1>4. ASSUME header.ok PROVE ScanInv(V, es, w, s, d, [cursor |-> header.len, frames |-> <<>>])
  <2>1. SubSeq(V, 1, 0) = <<>> /\ EndOf(es, 0) = 12 /\ 0 \in 0 .. Len(V)
    BY <1>1 DEF EndOf
  <2> QED BY <1>2, <1>4, <2>1 DEF ScanInv, OnTrack
<1>5. ASSUME ~header.ok PROVE Outcome(V, es, w, s, d, header)
  BY <1>1, <1>3, <1>5, OutcomeFailed
<1> QED BY <1>4, <1>5 DEF header

(* One iteration of the loop of read_container_frames. *)
LEMMA FrameStep ==
    ASSUME NEW V, NEW es, NEW w, NEW s, NEW d, NEW sc, File(V, es, w, s, d),
           ScanInv(V, es, w, s, d, sc), sc.cursor < Len(w)
    PROVE  LET frame == DecodeFrame(From(w, sc.cursor)) IN
           /\ frame.ok => ScanInv(V, es, w, s, d, [cursor |-> sc.cursor + frame.len,
                                                   frames |-> Append(sc.frames, frame.val)])
           /\ ~frame.ok => Outcome(V, es, w, s, d,
                              IF frame = Truncated THEN Found(sc.frames, TRUE, sc.cursor) ELSE frame)
<1> DEFINE frame == DecodeFrame(From(w, sc.cursor))
           next == [cursor |-> sc.cursor + frame.len, frames |-> Append(sc.frames, frame.val)]
           g == IF frame = Truncated THEN Found(sc.frames, TRUE, sc.cursor) ELSE frame
<1>1. /\ Layout(V, es) /\ Holds(V, es, w, s) /\ V \in Seq(Text) /\ Len(V) \in Nat
      /\ w \in Seq(Octet) /\ Len(w) \in Nat /\ s \in Nat /\ s <= Len(w) /\ Len(w) >= 12
      /\ d \in Torn => s = Len(w) /\ s <= EndOf(es, Len(V))
  BY FileType DEF ScanInv
<1> HIDE DEF frame
<1>2. ASSUME NEW k \in 0 .. Len(V), Whole(V, es, s, k), NEW S, sc.frames \in Seq(S),
             Begins(V, k, sc.frames), d \notin Torn
      PROVE  /\ ScanInv(V, es, w, s, d, next)
             /\ Outcome(V, es, w, s, d, Found(sc.frames, TRUE, sc.cursor))
  <2> DEFINE F == sc.frames
             X == Append(F, frame.val)
             R == S \cup {frame.val}
  <2>1. F \in Seq(R) /\ X \in Seq(R) /\ Len(X) = Len(F) + 1 /\ Len(F) \in Nat
    BY <1>2
  <2>2. k <= Len(F) /\ SubSeq(F, 1, k) = SubSeq(V, 1, k) /\ k \in Nat
    BY <1>1, <1>2 DEF Begins
  <2>3. \A i \in 1 .. Len(F) : X[i] = F[i]
    BY <1>2
  <2>4. SubSeq(X, 1, k) = SubSeq(F, 1, k)
    <3> HIDE DEF X, F, R
    <3>1. /\ SubSeq(X, 1, k) \in Seq(R) /\ Len(SubSeq(X, 1, k)) = k
          /\ \A i \in 1 .. k : SubSeq(X, 1, k)[i] = X[i]
      BY <2>1, <2>2
    <3>2. /\ SubSeq(F, 1, k) \in Seq(R) /\ Len(SubSeq(F, 1, k)) = k
          /\ \A i \in 1 .. k : SubSeq(F, 1, k)[i] = F[i]
      BY <2>1, <2>2
    <3>3. \A i \in 1 .. k : X[i] = F[i]
      BY <2>1, <2>2, <2>3
    <3> QED BY <3>1, <3>2, <3>3, SeqEqual
  <2>5. Begins(V, k, X)
    BY <2>1, <2>2, <2>4 DEF Begins
  <2>6. Past(V, es, s, next)
    BY <1>2, <2>1, <2>5 DEF Past
  <2>7. Outcome(V, es, w, s, d, Found(F, TRUE, sc.cursor))
    BY <1>2 DEF Outcome, Found
  <2> QED BY <1>1, <1>2, <2>6, <2>7 DEF ScanInv
<1>3. ASSUME d \notin Torn, ~frame.ok,
             Outcome(V, es, w, s, d, Found(sc.frames, TRUE, sc.cursor))
      PROVE  Outcome(V, es, w, s, d, g)
  <2>1. CASE frame = Truncated
    BY <1>3, <2>1
  <2>2. CASE frame # Truncated
    BY <1>3, <2>2, OutcomeFailed
  <2> QED BY <2>1, <2>2
<1>4. CASE OnTrack(V, es, s, sc)
  <2>1. PICK n \in 0 .. Len(V) : /\ sc.frames = SubSeq(V, 1, n) /\ sc.cursor = EndOf(es, n)
                                 /\ n > 0 => EndOf(es, n) <= s
    BY <1>4 DEF OnTrack
  <2>2. n \in Nat /\ EndOf(es, n) \in Nat
    BY <1>1, EndType
  <2>3. CASE n < Len(V) /\ EndOf(es, n + 1) <= s
    <3> DEFINE p == V[n + 1]
    <3>1. frame = Ok(p, 8 + Len(p))
      BY <1>1, <2>1, <2>3, SoundFrame DEF frame
    <3>2. frame.ok /\ frame.val = p /\ frame.len = 8 + Len(p)
      BY <3>1 DEF Ok
    <3>3. sc.cursor + frame.len = EndOf(es, n + 1)
      <4>1. EndOf(es, n + 1) = EndOf(es, n) + 8 + Len(p) /\ Len(p) \in Nat
        BY <1>1, <2>3, EndType
      <4> QED BY <2>1, <2>2, <3>2, <4>1
    <3>4. Append(sc.frames, frame.val) = SubSeq(V, 1, n + 1)
      <4> DEFINE U == SubSeq(V, 1, n)
                 X == Append(U, p)
                 Y == SubSeq(V, 1, n + 1)
      <4>1. U \in Seq(Text) /\ Len(U) = n /\ \A i \in 1 .. n : U[i] = V[i]
        BY <1>1, <2>2
      <4>2. Y \in Seq(Text) /\ Len(Y) = n + 1 /\ \A i \in 1 .. n + 1 : Y[i] = V[i]
        BY <1>1, <2>2, <2>3
      <4>3. p \in Text
        BY <1>1, <2>2, <2>3
      <4> HIDE DEF U, Y, p
      <4>4. X \in Seq(Text) /\ Len(X) = n + 1 /\ X[n + 1] = p /\ \A i \in 1 .. n : X[i] = U[i]
        BY <2>2, <4>1, <4>3
      <4>5. \A i \in 1 .. n + 1 : X[i] = Y[i]
        BY <2>2, <4>1, <4>2, <4>4 DEF p
      <4>6. X = Y
        BY <4>2, <4>4, <4>5, SeqEqual
      <4> QED BY <2>1, <3>2, <4>6 DEF U, Y, p
    <3>5. n + 1 \in 0 .. Len(V)
      BY <1>1, <2>2, <2>3
    <3>6. OnTrack(V, es, s, next)
      BY <2>3, <3>3, <3>4, <3>5 DEF OnTrack
    <3> QED BY <1>1, <3>2, <3>6 DEF ScanInv, frame
  <2>4. CASE ~(n < Len(V) /\ EndOf(es, n + 1) <= s)
    <3>1. Whole(V, es, s, n)
      <4>1. ASSUME n < Len(V) PROVE s < EndOf(es, n + 1)
        <5>1. EndOf(es, n + 1) \in Nat
          <6>1. n + 1 \in 0 .. Len(V)
            BY <1>1, <2>2, <4>1
          <6> QED BY <1>1, <6>1, EndType
        <5> QED BY <1>1, <2>4, <4>1, <5>1
      <4> QED BY <2>1, <4>1 DEF Whole
    <3>2. CASE d \in Torn
      <4>1. n < Len(V)
        <5>1. n = Len(V) => EndOf(es, n) >= s
          BY <1>1, <2>2, <3>2
        <5> QED BY <1>1, <2>1, <2>2, <3>2, <5>1
      <4>2. s < EndOf(es, n + 1)
        BY <3>1, <4>1 DEF Whole
      <4>3. frame = Truncated
        BY <1>1, <2>1, <3>2, <4>1, <4>2, SoundFrame DEF frame
      <4>4. g = Found(SubSeq(V, 1, n), EndOf(es, n) < Len(w), EndOf(es, n))
        BY <2>1, <4>3 DEF Found
      <4>5. Outcome(V, es, w, s, d, g)
        BY <1>1, <3>1, <3>2, <4>4, OutcomeAt
      <4>6. ~frame.ok
        BY <4>3 DEF Truncated, Err
      <4> HIDE DEF g
      <4> QED BY <4>5, <4>6 DEF g, frame
    <3>3. CASE d \notin Torn
      <4>1. Begins(V, n, sc.frames)
        BY <1>1, <2>1, <3>1, OutcomeAt
      <4>2. sc.frames \in Seq(Text)
        BY <1>1, <2>1, <2>2
      <4>3. /\ ScanInv(V, es, w, s, d, next)
            /\ Outcome(V, es, w, s, d, Found(sc.frames, TRUE, sc.cursor))
        BY <1>2, <3>1, <3>3, <4>1, <4>2
      <4> HIDE DEF next, g
      <4> QED BY <1>3, <3>3, <4>3 DEF next, g, frame
    <3> QED BY <3>2, <3>3
  <2> QED BY <2>3, <2>4
<1>5. CASE d \notin Torn /\ Past(V, es, s, sc)
  <2>1. PICK k \in 0 .. Len(V) : /\ Whole(V, es, s, k) /\ Begins(V, k, sc.frames)
                                 /\ \E S : sc.frames \in Seq(S)
    BY <1>5 DEF Past
  <2>2. PICK S : sc.frames \in Seq(S)
    BY <2>1
  <2>3. /\ ScanInv(V, es, w, s, d, next)
        /\ Outcome(V, es, w, s, d, Found(sc.frames, TRUE, sc.cursor))
    BY <1>2, <1>5, <2>1, <2>2
  <2> HIDE DEF next, g
  <2> QED BY <1>3, <1>5, <2>3 DEF next, g, frame
<1> QED BY <1>4, <1>5 DEF ScanInv

(* The loop ends with the buffer. *)
LEMMA EndStep ==
    ASSUME NEW V, NEW es, NEW w, NEW s, NEW d, NEW sc, File(V, es, w, s, d),
           ScanInv(V, es, w, s, d, sc), sc.cursor >= Len(w)
    PROVE  Outcome(V, es, w, s, d, Found(sc.frames, FALSE, sc.cursor))
<1>1. /\ Layout(V, es) /\ Holds(V, es, w, s) /\ V \in Seq(Text) /\ Len(V) \in Nat
      /\ w \in Seq(Octet) /\ Len(w) \in Nat /\ s \in Nat /\ s <= Len(w) /\ Len(w) >= 12
  BY FileType DEF ScanInv
<1>2. CASE OnTrack(V, es, s, sc)
  <2>1. PICK n \in 0 .. Len(V) : /\ sc.frames = SubSeq(V, 1, n) /\ sc.cursor = EndOf(es, n)
                                 /\ n > 0 => EndOf(es, n) <= s
    BY <1>2 DEF OnTrack
  <2>2. n \in Nat /\ EndOf(es, n) \in Nat
    BY <1>1, EndType
  <2>3. Whole(V, es, s, n)
    <3>1. ASSUME n < Len(V) PROVE s < EndOf(es, n + 1)
      <4>1. EndOf(es, n + 1) = EndOf(es, n) + 8 + Len(V[n + 1]) /\ Len(V[n + 1]) \in Nat
        BY <1>1, <3>1, EndType
      <4> QED BY <1>1, <2>1, <2>2, <4>1
    <3> QED BY <2>1, <3>1 DEF Whole
  <2>4. (EndOf(es, n) < Len(w)) = FALSE
    BY <1>1, <2>1, <2>2
  <2>5. Found(sc.frames, FALSE, sc.cursor) = Found(SubSeq(V, 1, n), EndOf(es, n) < Len(w), EndOf(es, n))
    BY <2>1, <2>4 DEF Found
  <2> QED BY <1>1, <2>3, <2>5, OutcomeAt
<1>3. CASE d \notin Torn /\ Past(V, es, s, sc)
  BY <1>3 DEF Past, Outcome, Found
<1> QED BY <1>2, <1>3 DEF ScanInv

(* A writer that opens a container leaves its whole frames and nothing behind them. *)
LEMMA ReconcileStep ==
    ASSUME NEW V, NEW es, NEW w, NEW s, NEW d, NEW g, File(V, es, w, s, d), d \in Torn,
           Outcome(V, es, w, s, d, g), g.ok
    PROVE  LET v == Reconciled(w, g) IN
           File(g.frames, SubSeq(es, 1, Len(g.frames)), v, Len(v), "none")
<1> DEFINE v == Reconciled(w, g)
<1>1. /\ Layout(V, es) /\ Holds(V, es, w, s) /\ V \in Seq(Text) /\ Len(V) \in Nat
      /\ w \in Seq(Octet) /\ Len(w) \in Nat /\ s \in Nat /\ s = Len(w)
  BY FileType
<1>2. PICK k \in 0 .. Len(V) :
        /\ Whole(V, es, s, k) /\ Len(w) >= 12
        /\ g = Found(SubSeq(V, 1, k), EndOf(es, k) < Len(w), EndOf(es, k))
  BY <1>1 DEF Outcome
<1>3. EndOf(es, k) <= s /\ EndOf(es, k) \in Nat /\ k \in Nat
  <2>1. EndOf(es, k) \in Nat /\ k \in Nat
    BY <1>1, EndType
  <2>2. k = 0 => EndOf(es, k) = 12
    BY DEF EndOf
  <2> QED BY <1>1, <1>2, <2>1, <2>2 DEF Whole
<1> DEFINE U == SubSeq(V, 1, k)
           fs == SubSeq(es, 1, k)
           u == At(w, 0, EndOf(es, k))
<1>4. /\ Len(u) = EndOf(es, k) /\ Holds(U, fs, u, Len(u)) /\ (EndOf(es, k) = Len(w) => u = w)
  BY <1>1, <1>3, HoldsPrefix
<1>5. Layout(U, fs) /\ Len(U) = k /\ EndOf(fs, k) = EndOf(es, k)
  BY <1>1, <1>3, LayoutPrefix
<1>6. g.frames = U /\ g.valid_len = EndOf(es, k) /\ g.torn = (EndOf(es, k) < Len(w))
  BY <1>2 DEF Found
<1> HIDE DEF U, fs, u
<1>7. v = u
  <2>1. CASE EndOf(es, k) < Len(w)
    BY <1>6, <2>1 DEF Reconciled, u
  <2>2. CASE ~(EndOf(es, k) < Len(w))
    <3>1. EndOf(es, k) = Len(w)
      BY <1>1, <1>3, <2>2
    <3>2. ~g.torn
      BY <1>6, <2>2
    <3> QED BY <1>4, <3>1, <3>2 DEF Reconciled
  <2> QED BY <2>1, <2>2
<1>8. File(U, fs, u, Len(u), "none")
  BY <1>4, <1>5 DEF File, Extent
<1> QED BY <1>5, <1>6, <1>7, <1>8 DEF fs

(* A file is what its frames are, up to the damage; a scan of it stands between two
   frames, or behind the damage, and what it returned is what ScanFindsWhole says. *)
FileInv ==
    /\ phase = "idle" => ends = <<>>
    /\ IsFile =>
         /\ File(msg.val, ends, wire, sound, damage)
         /\ phase = "scanning" => ScanInv(msg.val, ends, wire, sound, damage, scan)
         /\ Decoded => Outcome(msg.val, ends, wire, sound, damage, got)

(* FileInv holds in every reachable state. *)
LEMMA FileInductive == Spec => []FileInv
<1>1. Init => FileInv
  BY DEF Init, FileInv, IsFile, None, FileCodecs
<1>2. MessageInv /\ FileInv /\ [Next]_vars => FileInv'
  <2> SUFFICES ASSUME MessageInv, FileInv, [Next]_vars PROVE FileInv'
    OBVIOUS
  <2>1. CASE Encode
    <3>1. PICK i \in DOMAIN Messages :
            /\ msg' = Messages[i]
            /\ IF EncodeMessage(Messages[i]).ok
               THEN phase' = "sent" /\ wire' = EncodeMessage(Messages[i]).val
               ELSE phase' = "refused"
      BY <2>1 DEF Encode
    <3>2. /\ damage' = "none" /\ sound' = Len(wire') /\ ends' = <<>> /\ phase' # "idle"
          /\ phase' # "scanning" /\ ~Decoded'
      BY <2>1, <3>1 DEF Encode, MessageInv, FileInv, Decoded
    <3>3. ASSUME msg'.codec \in FileCodecs
          PROVE  File(msg'.val, ends', wire', sound', damage')
      <4>1. msg' = NewFile(msg'.codec)
        BY <3>1, <3>3, MessagesAssumption
      <4>2. msg'.val = <<>>
        BY <4>1 DEF NewFile
      <4>3. EncodeMessage(msg') = Bytes(ContainerHeader)
        BY <3>3, CodecOf
      <4>4. wire' = ContainerHeader
        BY <3>1, <4>3 DEF Bytes, Ok
      <4>5. sound' = 12 /\ Len(wire') = 12 /\ wire' \in Seq(Octet)
        BY <3>2, <4>4, HeaderOfContainer
      <4>6. Layout(<<>>, <<>>)
        BY DEF Layout
      <4>7. Holds(<<>>, <<>>, wire', sound')
        <5>1. Kept(ContainerHeader, ContainerHeader, sound', 0)
          <6>1. \A j \in 1 .. Len(ContainerHeader) : 0 + j = j
            BY HeaderOfContainer
          <6> QED BY <6>1 DEF Kept
        <5> QED BY <4>4, <4>5, <5>1 DEF Holds
      <4>8. Extent(<<>>, <<>>, wire', sound', "none")
        BY <4>5 DEF Extent, EndOf
      <4> QED BY <3>2, <4>2, <4>6, <4>7, <4>8 DEF File
    <3> QED BY <3>2, <3>3 DEF FileInv, IsFile
  <2>2. CASE AppendPayload \/ AppendRecord
    <3>1. PICK p \in Seq(Byte) : AppendFrame(p)
      <4>1. CASE AppendPayload
        BY <4>1, MessagesAssumption DEF AppendPayload
      <4>2. CASE AppendRecord
        BY <4>2, MessagesAssumption, RecordType DEF AppendRecord
      <4> QED BY <2>2, <4>1, <4>2
    <3>2. /\ msg.codec \in FileCodecs /\ phase = "sent" /\ phase' = phase
          /\ damage = "none" /\ damage' = damage /\ Len(p) <= U32Max
          /\ wire' = wire \o EncodeFrame(p) /\ ends' = Append(ends, Len(wire'))
          /\ sound' = Len(wire') /\ msg' = [msg EXCEPT !.val = Append(msg.val, p)]
      BY <2>2, <3>1 DEF AppendPayload, AppendRecord, AppendFrame, InTransit, FileCodecs
    <3>3. msg = [codec |-> msg.codec, val |-> msg.val]
      BY <3>2 DEF MessageInv, Typed
    <3>4. msg'.codec = msg.codec /\ msg'.val = Append(msg.val, p)
      BY <3>2, <3>3
    <3>5. p \in Text
      BY <3>2, U32MaxNat DEF Text
    <3>6. /\ Layout(msg.val, ends) /\ Holds(msg.val, ends, wire, Len(wire))
          /\ Len(wire) = EndOf(ends, Len(msg.val))
      BY <3>2 DEF FileInv, IsFile, File, Extent
    <3>7. File(msg'.val, ends', wire', sound', "none")
      BY <3>2, <3>4, <3>5, <3>6, HoldsAppend DEF File, Extent
    <3> QED BY <3>2, <3>4, <3>7 DEF FileInv, IsFile, Decoded
  <2>3. CASE AppendBehind
    <3>1. /\ msg.codec \in FileCodecs /\ phase = "sent" /\ phase' = phase /\ msg' = msg
          /\ ends' = ends /\ sound' = sound /\ damage' = "behind"
      BY <2>3 DEF AppendBehind, written, FileCodecs
    <3>2. PICK r \in Records : wire' = wire \o EncodeFrame(EncodeRecord(r))
      BY <2>3 DEF AppendBehind
    <3>3. File(msg.val, ends, wire, sound, damage)
      BY <3>1 DEF FileInv, IsFile
    <3>4. EncodeRecord(r) \in Seq(Byte) /\ Len(EncodeRecord(r)) \in Nat
      BY <3>2, MessagesAssumption, RecordType
    <3>5. EncodeFrame(EncodeRecord(r)) \in Seq(Octet)
      BY <3>4, FrameType
    <3>6. /\ Layout(msg.val, ends) /\ Holds(msg.val, ends, wire, sound)
          /\ wire \in Seq(Octet) /\ Len(wire) \in Nat /\ sound \in Nat /\ sound <= Len(wire)
      BY <3>3, FileType
    <3>7. /\ wire' \in Seq(Octet) /\ Len(wire') \in Nat /\ Len(wire) <= Len(wire')
          /\ \A i \in 1 .. Len(wire) : wire'[i] = wire[i]
      BY <3>2, <3>5, <3>6
    <3>8. sound <= Len(wire') /\ \A i \in 1 .. sound : wire'[i] = wire[i]
      BY <3>6, <3>7
    <3>9. Holds(msg.val, ends, wire', sound)
      BY <3>6, <3>7, <3>8, HoldsLess
    <3>10. File(msg.val, ends, wire', sound, "behind")
      BY <3>6, <3>9 DEF File, Extent
    <3> QED BY <3>1, <3>10 DEF FileInv, IsFile, Decoded
  <2>4. CASE Cut
    <3>1. PICK n \in 0 .. Len(wire) - 1 : wire' = At(wire, 0, n) /\ sound' = n
      BY <2>4 DEF Cut
    <3>2. /\ phase = "sent" /\ phase' = phase /\ msg' = msg /\ ends' = ends
          /\ damage = "none" /\ damage' = "cut"
      BY <2>4 DEF Cut, InTransit, written
    <3>3. ASSUME IsFile PROVE File(msg.val, ends, wire', sound', "cut")
      <4>1. /\ Layout(msg.val, ends) /\ Holds(msg.val, ends, wire, sound)
            /\ wire \in Seq(Octet) /\ Len(wire) \in Nat /\ sound = Len(wire)
            /\ Len(wire) = EndOf(ends, Len(msg.val))
        BY <3>2, <3>3, FileType DEF FileInv, Torn
      <4>2. n \in Nat /\ n < Len(wire) /\ n <= Len(wire)
        BY <3>1, <4>1
      <4>3. /\ At(wire, 0, n) \in Seq(Octet) /\ Len(At(wire, 0, n)) = n
            /\ \A i \in 1 .. n : At(wire, 0, n)[i] = wire[i]
        BY <4>1, <4>2 DEF At
      <4>4. /\ wire' \in Seq(Octet) /\ Len(wire') = n /\ \A i \in 1 .. n : wire'[i] = wire[i]
        BY <3>1, <4>3
      <4>5. n <= Len(wire')
        BY <4>2, <4>4
      <4>6. Holds(msg.val, ends, wire', n)
        BY <4>1, <4>2, <4>4, <4>5, HoldsLess
      <4> QED BY <3>1, <4>1, <4>2, <4>4, <4>6 DEF File, Extent
    <3> QED BY <3>2, <3>3 DEF FileInv, IsFile, Decoded
  <2>5. CASE Alter
    <3>1. PICK k \in 1 .. Len(wire), b \in Byte : wire' = [wire EXCEPT ![k] = b] /\ sound' = k - 1
      BY <2>5 DEF Alter
    <3>2. /\ phase = "sent" /\ phase' = phase /\ msg' = msg /\ ends' = ends
          /\ damage = "none" /\ damage' = "altered"
      BY <2>5 DEF Alter, InTransit, written
    <3>3. ASSUME IsFile PROVE File(msg.val, ends, wire', sound', "altered")
      <4>1. /\ Layout(msg.val, ends) /\ Holds(msg.val, ends, wire, sound)
            /\ wire \in Seq(Octet) /\ Len(wire) \in Nat /\ sound = Len(wire)
        BY <3>2, <3>3, FileType DEF FileInv, Torn
      <4>2. b \in Octet
        BY DEF Octet
      <4>3. wire' \in Seq(Octet) /\ Len(wire') = Len(wire)
        BY <3>1, <4>1, <4>2
      <4>4. k - 1 \in Nat /\ k - 1 <= Len(wire)
        BY <4>1
      <4>5. \A i \in 1 .. k - 1 : wire'[i] = wire[i]
        BY <3>1, <4>1
      <4>6. Holds(msg.val, ends, wire', k - 1)
        BY <4>1, <4>3, <4>4, <4>5, HoldsLess
      <4> QED BY <3>1, <4>1, <4>6 DEF File, Extent
    <3> QED BY <3>2, <3>3 DEF FileInv, IsFile, Decoded
  <2>6. CASE Follow \/ Decode
    <3>1. ~IsFile /\ UNCHANGED msg /\ phase' # "idle"
      BY <2>6 DEF Follow, Decode, InTransit, written
    <3> QED BY <3>1 DEF FileInv, IsFile
  <2>7. CASE ReadHeader
    <3>1. /\ IsFile /\ UNCHANGED <<msg, ends, wire, sound, damage>>
          /\ LET header == IF Len(wire) < 12 THEN Err("TooShort") ELSE DecodeContainerHeader(wire)
             IN IF header.ok
                THEN /\ scan' = [cursor |-> header.len, frames |-> <<>>]
                     /\ phase' = "scanning"
                ELSE phase' = "decoded" /\ got' = header
      BY <2>7 DEF ReadHeader, Return, written
    <3>2. File(msg.val, ends, wire, sound, damage)
      BY <3>1 DEF FileInv
    <3>3. /\ phase' = "scanning" => ScanInv(msg.val, ends, wire, sound, damage, scan')
          /\ phase' = "decoded" => Outcome(msg.val, ends, wire, sound, damage, got')
          /\ phase' \in {"scanning", "decoded"}
      BY <3>1, <3>2, HeaderStep
    <3> QED BY <3>1, <3>2, <3>3 DEF FileInv, IsFile, Decoded
  <2>8. CASE ReadFrame
    <3>1. /\ IsFile /\ UNCHANGED <<msg, ends, wire, sound, damage>> /\ scan.cursor < Len(wire)
          /\ phase = "scanning"
          /\ LET frame == DecodeFrame(From(wire, scan.cursor)) IN
             IF frame.ok
             THEN /\ scan' = [cursor |-> scan.cursor + frame.len,
                              frames |-> Append(scan.frames, frame.val)]
                  /\ phase' = phase
             ELSE /\ phase' = "decoded"
                  /\ got' = IF frame = Truncated THEN Found(scan.frames, TRUE, scan.cursor) ELSE frame
      BY <2>8 DEF ReadFrame, Return, written, MessageInv
    <3>2. /\ File(msg.val, ends, wire, sound, damage)
          /\ ScanInv(msg.val, ends, wire, sound, damage, scan)
      BY <3>1 DEF FileInv
    <3>3. /\ phase' = "scanning" => ScanInv(msg.val, ends, wire, sound, damage, scan')
          /\ phase' = "decoded" => Outcome(msg.val, ends, wire, sound, damage, got')
          /\ phase' \in {"scanning", "decoded"}
      BY <3>1, <3>2, FrameStep
    <3> QED BY <3>1, <3>2, <3>3 DEF FileInv, IsFile, Decoded
  <2>9. CASE EndScan
    <3>1. /\ IsFile /\ UNCHANGED <<msg, ends, wire, sound, damage>> /\ scan.cursor >= Len(wire)
          /\ phase = "scanning" /\ phase' = "decoded"
          /\ got' = Found(scan.frames, FALSE, scan.cursor)
      BY <2>9 DEF EndScan, Return, written, MessageInv
    <3>2. /\ File(msg.val, ends, wire, sound, damage)
          /\ ScanInv(msg.val, ends, wire, sound, damage, scan)
      BY <3>1 DEF FileInv
    <3>3. Outcome(msg.val, ends, wire, sound, damage, got')
      BY <3>1, <3>2, EndStep
    <3> QED BY <3>1, <3>2, <3>3 DEF FileInv, IsFile, Decoded
  <2>10. CASE ReadMeta
    BY <2>10 DEF ReadMeta, written, FileInv, IsFile, Decoded
  <2>11. CASE Reconcile
    <3>1. /\ msg.codec \in FileCodecs /\ damage \in Torn /\ phase = "decoded" /\ got.ok
          /\ wire' = Reconciled(wire, got) /\ sound' = Len(wire')
          /\ msg' = [msg EXCEPT !.val = got.frames] /\ phase' = "sent" /\ damage' = "none"
          /\ ends' = SubSeq(ends, 1, Len(got.frames))
      BY <2>11 DEF Reconcile, FileCodecs, Torn
    <3>2. msg = [codec |-> msg.codec, val |-> msg.val]
      BY <3>1 DEF MessageInv, Typed
    <3>3. msg'.codec = msg.codec /\ msg'.val = got.frames
      BY <3>1, <3>2
    <3>4. /\ File(msg.val, ends, wire, sound, damage)
          /\ Outcome(msg.val, ends, wire, sound, damage, got)
      BY <3>1 DEF FileInv, IsFile, Decoded
    <3>5. File(msg'.val, ends', wire', sound', "none")
      BY <3>1, <3>3, <3>4, ReconcileStep
    <3> QED BY <3>1, <3>3, <3>5 DEF FileInv, IsFile, Decoded
  <2>12. CASE UNCHANGED vars
    BY <2>12 DEF vars, FileInv, IsFile, Decoded
  <2> QED BY <2>1, <2>2, <2>3, <2>4, <2>5, <2>6, <2>7, <2>8, <2>9, <2>10, <2>11, <2>12 DEF Next
<1> QED BY <1>1, <1>2, MessageInductive, PTL DEF Spec

(* A whole or cut container or .meta reads as exactly the frames written whole; no
   other damage costs or changes a frame that lies before it.  read_container_frames,
   and reconcile_tail_state and the appends that go on from what it found. *)
THEOREM ScansFindWhole == Spec => []ScanFindsWhole
<1>1. FileInv => ScanFindsWhole
  <2> SUFFICES ASSUME FileInv, Decoded, IsFile PROVE ScanFindsWhole
    BY DEF ScanFindsWhole
  <2>1. Outcome(msg.val, ends, wire, sound, damage, got)
    BY DEF FileInv
  <2>2. \A k : FrameEnd(k) = EndOf(ends, k)
    BY DEF FrameEnd, EndOf
  <2> QED BY <2>1, <2>2 DEF Outcome, Whole, Begins, Torn, ScanFindsWhole
<1> QED BY <1>1, FileInductive, PTL
============================================================================
