----------------------------- MODULE PacketProofs -----------------------------
(***************************************************************************)
(* Proofs about Packet, for every block size, all blocks and any           *)
(* datagrams of other programs that are no packets.                        *)
(***************************************************************************)
EXTENDS Packet, TLAPS, SequenceTheorems

-------------------------------------------------------------------------------
(* Numbers and their bytes. *)

\* What a field of width bytes can hold.
FitsIn(n, width) ==
    \/ width = 1 /\ n < 256
    \/ width = 2 /\ n < 65536
    \/ width = 4 /\ n \div 65536 < 65536

LEMMA ByteType == \A n \in Nat : n % 256 \in Byte
BY DEF Byte

LEMMA TwoBytes ==
    ASSUME NEW n \in Nat, n < 65536
    PROVE  (n % 256) + 256 * ((n \div 256) % 256) = n
OBVIOUS

LEMMA FourBytes ==
    ASSUME NEW n \in Nat, n \div 65536 < 65536
    PROVE  (n % 256) + 256 * ((n \div 256) % 256) + 65536 * ((n \div 65536) % 256)
               + 16777216 * ((n \div 16777216) % 256) = n
OBVIOUS

LEMMA BytesType ==
    ASSUME NEW n \in Nat, NEW width \in {1, 2, 4}
    PROVE  ToBytes(n, width) \in Seq(Byte) /\ Len(ToBytes(n, width)) = width
<1>1. \A i \in 1..width : (n \div Weight[width + 1 - i]) % 256 \in Byte
  <2>1. \A i \in 1..width : Weight[width + 1 - i] \in Nat \ {0}
    BY DEF Weight
  <2>2. \A d \in Nat \ {0} : n \div d \in Nat
    OBVIOUS
  <2>3. QED  BY <2>1, <2>2, ByteType
<1>2. QED  BY <1>1, IsASeq DEF ToBytes

\* ntohl after htonl, and ntohs after htons.
LEMMA BytesAndBack ==
    ASSUME NEW n \in Nat, NEW width \in {1, 2, 4}, FitsIn(n, width),
           NEW s \in Seq(Byte), Len(s) = width,
           \A i \in 1..width : s[i] = ToBytes(n, width)[i]
    PROVE  FromBytes(s) = n
<1>1. \A i \in 1..width : s[i] = (n \div Weight[width + 1 - i]) % 256
  BY DEF ToBytes
<1>2. /\ Weight[1] = 1 /\ Weight[2] = 256 /\ Weight[3] = 65536 /\ Weight[4] = 16777216
  BY DEF Weight
<1>3. n \div 1 = n
  OBVIOUS
<1>4. CASE width = 1
  <2>1. s[1] = (n \div Weight[1]) % 256
    BY <1>1, <1>4
  <2>2. s[1] = n % 256
    BY <1>2, <1>3, <2>1
  <2>3. n < 256
    BY <1>4 DEF FitsIn
  <2>4. n % 256 = n
    BY <2>3
  <2>5. s[1] = n
    BY <2>2, <2>4
  <2>6. QED  BY <1>4, <2>5 DEF FromBytes
<1>5. CASE width = 2
  <2>1. s[2] = n % 256 /\ s[1] = (n \div 256) % 256
    BY <1>1, <1>2, <1>3, <1>5
  <2>2. FromBytes(s) = s[2] + 256 * s[1]
    BY <1>5, <2>1 DEF FromBytes
  <2>3. QED  BY <1>5, <2>1, <2>2, TwoBytes DEF FitsIn
<1>6. CASE width = 4
  <2>1. /\ s[4] = n % 256 /\ s[3] = (n \div 256) % 256
        /\ s[2] = (n \div 65536) % 256 /\ s[1] = (n \div 16777216) % 256
    <3>1. \A i \in 1..4 : s[i] = (n \div Weight[5 - i]) % 256
      BY <1>1, <1>6
    <3>2. /\ s[4] = (n \div Weight[1]) % 256 /\ s[3] = (n \div Weight[2]) % 256
          /\ s[2] = (n \div Weight[3]) % 256 /\ s[1] = (n \div Weight[4]) % 256
      BY <3>1
    <3>3. QED  BY <1>2, <1>3, <3>2
  <2>2. FromBytes(s) = s[4] + 256 * s[3] + 65536 * s[2] + 16777216 * s[1]
    BY <1>6, <2>1 DEF FromBytes
  <2>3. n \div 65536 < 65536
    BY <1>6 DEF FitsIn
  <2>4. PICK a, b, c, d : /\ a = n % 256 /\ b = (n \div 256) % 256
                          /\ c = (n \div 65536) % 256 /\ d = (n \div 16777216) % 256
    OBVIOUS
  <2>5. a + 256 * b + 65536 * c + 16777216 * d = n
    BY <2>3, <2>4, FourBytes
  <2>6. s[4] = a /\ s[3] = b /\ s[2] = c /\ s[1] = d
    BY <2>1, <2>4
  <2>7. QED  BY <2>2, <2>5, <2>6
<1>7. QED  BY <1>4, <1>5, <1>6

\* The bytes of t stand in s from the offset on.
At(s, offset, t) ==
    /\ offset \in Nat /\ t \in Seq(Byte)
    /\ offset + Len(t) <= Len(s)
    /\ \A i \in 1..Len(t) : s[offset + i] = t[i]

LEMMA OneMoreField ==
    ASSUME NEW s \in Seq(Byte), NEW t \in Seq(Byte), NEW r, r = s \o t
    PROVE  /\ r \in Seq(Byte) /\ Len(r) = Len(s) + Len(t)
           /\ At(r, Len(s), t)
           /\ \A offset, u : At(s, offset, u) => At(r, offset, u)
<1>1. /\ r \in Seq(Byte) /\ Len(s) \in Nat /\ Len(t) \in Nat
      /\ Len(r) = Len(s) + Len(t)
      /\ \A i \in 1..(Len(s) + Len(t)) : r[i] = IF i <= Len(s) THEN s[i] ELSE t[i - Len(s)]
  BY ConcatProperties, LenProperties
<1>2. At(r, Len(s), t)
  BY <1>1 DEF At
<1>3. ASSUME NEW u, NEW offset, At(s, offset, u)
      PROVE  At(r, offset, u)
  <2>1. offset \in Nat /\ u \in Seq(Byte) /\ Len(u) \in Nat /\ offset + Len(u) <= Len(s)
    BY <1>3, LenProperties DEF At
  <2>2. \A i \in 1..Len(u) : offset + i \in 1..Len(s) /\ r[offset + i] = s[offset + i]
    BY <1>1, <2>1
  <2>3. QED  BY <1>1, <1>3, <2>1, <2>2 DEF At
<1>4. QED  BY <1>1, <1>2, <1>3

\* The header's fields stand at their offsets.
LEMMA HeaderBytes ==
    ASSUME NEW h, \A n \in {h.encodeMode, h.packetIndex, h.payloadSize,
                            h.blockIndex, h.naluIndex, h.naluSize} : n \in Nat
    PROVE  /\ Serialised(h) \in Seq(Byte) /\ Len(Serialised(h)) = HeaderSize
           /\ At(Serialised(h), 0, ToBytes(h.encodeMode, 1))
           /\ At(Serialised(h), 1, ToBytes(h.packetIndex, 1))
           /\ At(Serialised(h), 2, ToBytes(h.payloadSize, 2))
           /\ At(Serialised(h), 4, ToBytes(h.blockIndex, 4))
           /\ At(Serialised(h), 8, ToBytes(h.naluIndex, 4))
           /\ At(Serialised(h), 12, ToBytes(h.naluSize, 4))
<1> DEFINE a == ToBytes(h.encodeMode, 1)
           b == ToBytes(h.packetIndex, 1)
           c == ToBytes(h.payloadSize, 2)
           d == ToBytes(h.blockIndex, 4)
           e == ToBytes(h.naluIndex, 4)
           f == ToBytes(h.naluSize, 4)
<1>1. /\ a \in Seq(Byte) /\ b \in Seq(Byte) /\ c \in Seq(Byte)
      /\ d \in Seq(Byte) /\ e \in Seq(Byte) /\ f \in Seq(Byte)
  BY BytesType
<1>2. /\ Len(a) = 1 /\ Len(b) = 1 /\ Len(c) = 2 /\ Len(d) = 4 /\ Len(e) = 4 /\ Len(f) = 4
  BY BytesType
<1> HIDE DEF a, b, c, d, e, f
<1>3. At(a, 0, a)
  BY <1>1, <1>2 DEF At
<1>4. PICK s2 : s2 = a \o b
  OBVIOUS
<1>5. /\ s2 \in Seq(Byte) /\ Len(s2) = Len(a) + Len(b)
      /\ At(s2, Len(a), b)
      /\ \A offset, u : At(a, offset, u) => At(s2, offset, u)
  BY <1>1, <1>4, OneMoreField
<1>6. s2 \in Seq(Byte) /\ Len(s2) = 2
  BY <1>2, <1>5
<1>7. At(s2, 0, a) /\ At(s2, 1, b)
  BY <1>2, <1>3, <1>5
<1>8. PICK s4 : s4 = s2 \o c
  OBVIOUS
<1>9. /\ s4 \in Seq(Byte) /\ Len(s4) = Len(s2) + Len(c)
      /\ At(s4, Len(s2), c)
      /\ \A offset, u : At(s2, offset, u) => At(s4, offset, u)
  BY <1>1, <1>6, <1>8, OneMoreField
<1>10. s4 \in Seq(Byte) /\ Len(s4) = 4
  BY <1>2, <1>6, <1>9
<1>11. At(s4, 0, a) /\ At(s4, 1, b) /\ At(s4, 2, c)
  BY <1>6, <1>7, <1>9
<1>12. PICK s8 : s8 = s4 \o d
  OBVIOUS
<1>13. /\ s8 \in Seq(Byte) /\ Len(s8) = Len(s4) + Len(d)
      /\ At(s8, Len(s4), d)
      /\ \A offset, u : At(s4, offset, u) => At(s8, offset, u)
  BY <1>1, <1>10, <1>12, OneMoreField
<1>14. s8 \in Seq(Byte) /\ Len(s8) = 8
  BY <1>2, <1>10, <1>13
<1>15. /\ At(s8, 0, a) /\ At(s8, 1, b) /\ At(s8, 2, c)
      /\ At(s8, 4, d)
  BY <1>10, <1>11, <1>13
<1>16. PICK s12 : s12 = s8 \o e
  OBVIOUS
<1>17. /\ s12 \in Seq(Byte) /\ Len(s12) = Len(s8) + Len(e)
      /\ At(s12, Len(s8), e)
      /\ \A offset, u : At(s8, offset, u) => At(s12, offset, u)
  BY <1>1, <1>14, <1>16, OneMoreField
<1>18. s12 \in Seq(Byte) /\ Len(s12) = 12
  BY <1>2, <1>14, <1>17
<1>19. /\ At(s12, 0, a) /\ At(s12, 1, b) /\ At(s12, 2, c)
      /\ At(s12, 4, d) /\ At(s12, 8, e)
  BY <1>14, <1>15, <1>17
<1>20. PICK s16 : s16 = s12 \o f
  OBVIOUS
<1>21. /\ s16 \in Seq(Byte) /\ Len(s16) = Len(s12) + Len(f)
      /\ At(s16, Len(s12), f)
      /\ \A offset, u : At(s12, offset, u) => At(s16, offset, u)
  BY <1>1, <1>18, <1>20, OneMoreField
<1>22. s16 \in Seq(Byte) /\ Len(s16) = 16
  BY <1>2, <1>18, <1>21
<1>23. /\ At(s16, 0, a) /\ At(s16, 1, b) /\ At(s16, 2, c)
      /\ At(s16, 4, d) /\ At(s16, 8, e) /\ At(s16, 12, f)
  BY <1>18, <1>19, <1>21
<1>24. s16 = Serialised(h)
  BY <1>4, <1>8, <1>12, <1>16, <1>20 DEF a, b, c, d, e, f, Serialised
<1>25. QED  BY <1>22, <1>23, <1>24 DEF a, b, c, d, e, f, HeaderSize

\* A header that can be sent: what its fields hold fits in them.
Sendable(h) ==
    /\ \A n \in {h.encodeMode, h.packetIndex, h.payloadSize,
               h.blockIndex, h.naluIndex, h.naluSize} : n \in Nat
    /\ FitsIn(h.encodeMode, 1) /\ FitsIn(h.packetIndex, 1) /\ FitsIn(h.payloadSize, 2)
    /\ FitsIn(h.blockIndex, 4) /\ FitsIn(h.naluIndex, 4) /\ FitsIn(h.naluSize, 4)

LEMMA FieldRead ==
    ASSUME NEW n \in Nat, NEW width \in {1, 2, 4}, FitsIn(n, width),
           NEW buffer \in Seq(Byte), NEW offset, At(buffer, offset, ToBytes(n, width))
    PROVE  FromBytes(SubSeq(buffer, offset + 1, offset + width)) = n
<1> DEFINE s == SubSeq(buffer, offset + 1, offset + width)
<1>1. /\ Len(buffer) \in Nat /\ width \in Nat \ {0} /\ Len(ToBytes(n, width)) = width
      /\ offset \in Nat /\ offset + width <= Len(buffer)
      /\ \A i \in 1..width : buffer[offset + i] = ToBytes(n, width)[i]
  <2> DEFINE t == ToBytes(n, width)
  <2>1. Len(t) = width
    BY BytesType
  <2> HIDE DEF t
  <2>2. At(buffer, offset, t)
    BY DEF t
  <2>3. /\ offset \in Nat /\ offset + width <= Len(buffer)
        /\ \A i \in 1..width : buffer[offset + i] = t[i]
    BY <2>1, <2>2 DEF At
  <2>4. Len(buffer) \in Nat /\ width \in Nat \ {0}
    BY LenProperties
  <2>5. QED  BY <2>1, <2>3, <2>4 DEF t
<1>2. \A i \in (offset + 1)..(offset + width) : buffer[i] \in Byte
  BY <1>1, ElementOfSeq
<1>3. /\ s \in Seq(Byte) /\ Len(s) = width
      /\ \A i \in 1..width : s[i] = buffer[offset + i]
  BY <1>1, <1>2, IsASeq
<1>4. \A i \in 1..width : s[i] = ToBytes(n, width)[i]
  BY <1>1, <1>3
<1> HIDE DEF s
<1>5. FromBytes(s) = n
  BY <1>3, <1>4, BytesAndBack
<1>6. QED  BY <1>5 DEF s

\* What was written of a header is what is read of it, whatever follows it.
LEMMA HeaderAndBack ==
    ASSUME NEW h, Sendable(h), NEW buffer \in Seq(Byte), HeaderSize <= Len(buffer),
           \A i \in 1..HeaderSize : buffer[i] = Serialised(h)[i]
    PROVE  HeaderIn(buffer) =
               [encodeMode |-> h.encodeMode, packetIndex |-> h.packetIndex,
                payloadSize |-> h.payloadSize, blockIndex |-> h.blockIndex,
                naluIndex |-> h.naluIndex, naluSize |-> h.naluSize]
<1>1. /\ h.encodeMode \in Nat /\ h.packetIndex \in Nat /\ h.payloadSize \in Nat
      /\ h.blockIndex \in Nat /\ h.naluIndex \in Nat /\ h.naluSize \in Nat
      /\ FitsIn(h.encodeMode, 1) /\ FitsIn(h.packetIndex, 1) /\ FitsIn(h.payloadSize, 2)
      /\ FitsIn(h.blockIndex, 4) /\ FitsIn(h.naluIndex, 4) /\ FitsIn(h.naluSize, 4)
  BY DEF Sendable
<1>2. ASSUME NEW offset, NEW t, At(Serialised(h), offset, t)
      PROVE  At(buffer, offset, t)
  <2>1. Len(Serialised(h)) = HeaderSize /\ Len(buffer) \in Nat /\ HeaderSize \in Nat
    BY HeaderBytes, LenProperties DEF Sendable, HeaderSize
  <2>2. offset \in Nat /\ t \in Seq(Byte) /\ Len(t) \in Nat /\ offset + Len(t) <= HeaderSize
    BY <1>2, <2>1, LenProperties DEF At
  <2>3. \A i \in 1..Len(t) : offset + i \in 1..HeaderSize
    BY <2>1, <2>2
  <2>4. QED  BY <1>2, <2>1, <2>2, <2>3 DEF At
<1>3. /\ At(buffer, 0, ToBytes(h.encodeMode, 1)) /\ At(buffer, 1, ToBytes(h.packetIndex, 1))
      /\ At(buffer, 2, ToBytes(h.payloadSize, 2)) /\ At(buffer, 4, ToBytes(h.blockIndex, 4))
      /\ At(buffer, 8, ToBytes(h.naluIndex, 4)) /\ At(buffer, 12, ToBytes(h.naluSize, 4))
  BY <1>2, HeaderBytes DEF Sendable
<1> DEFINE Read(offset, width) == FromBytes(SubSeq(buffer, offset + 1, offset + width))
<1>4. ASSUME NEW n \in Nat, NEW width \in {1, 2, 4}, FitsIn(n, width),
             NEW offset, At(buffer, offset, ToBytes(n, width))
      PROVE  Read(offset, width) = n
  BY <1>4, FieldRead
<1> HIDE DEF Read
<1>5. Read(0, 1) = h.encodeMode /\ Read(1, 1) = h.packetIndex
  BY <1>1, <1>3, <1>4
<1>6. Read(2, 2) = h.payloadSize
  BY <1>1, <1>3, <1>4
<1>7. Read(4, 4) = h.blockIndex /\ Read(8, 4) = h.naluIndex /\ Read(12, 4) = h.naluSize
  BY <1>1, <1>3, <1>4
<1>8. HeaderIn(buffer) =
          [encodeMode |-> Read(0, 1), packetIndex |-> Read(1, 1), payloadSize |-> Read(2, 2),
           blockIndex |-> Read(4, 4), naluIndex |-> Read(8, 4), naluSize |-> Read(12, 4)]
  BY Zenon DEF HeaderIn, Read
<1>9. QED  BY <1>5, <1>6, <1>7, <1>8, Zenon

-------------------------------------------------------------------------------
(* Sizes, padding and what a datagram of a block is. *)

LEMMA Euclid ==
    ASSUME NEW a \in Nat, NEW b \in Nat \ {0}
    PROVE  /\ a \div b \in Nat /\ a % b \in 0..(b - 1)
           /\ a = (a \div b) * b + (a % b)
OBVIOUS

LEMMA Sizes ==
    /\ FieldSize \in Nat \ {0} /\ BlockSize = 8 * FieldSize
    /\ BlockSize \in Nat \ {0} /\ FieldSize <= BlockSize /\ BlockSize < 65536
<1>1. BlockSize \in Nat \ {0} /\ BlockSize % 8 = 0 /\ BlockSize < 65536
  BY SizeAssumption DEF Cells
<1>2. BlockSize = 8 * (BlockSize \div 8) /\ BlockSize \div 8 \in Nat
  BY <1>1
<1>3. QED  BY <1>1, <1>2 DEF FieldSize, Cells

\* Where the payload k is in the block.
LEMMA ChunkBounds ==
    ASSUME NEW k \in 0..7
    PROVE  /\ k * FieldSize \in Nat /\ (k + 1) * FieldSize = k * FieldSize + FieldSize
           /\ k * FieldSize + FieldSize <= BlockSize
<1>1. FieldSize \in Nat /\ BlockSize = 8 * FieldSize
  BY Sizes
<1>2. k = 0 \/ k = 1 \/ k = 2 \/ k = 3 \/ k = 4 \/ k = 5 \/ k = 6 \/ k = 7
  OBVIOUS
<1>3. QED  BY <1>1, <1>2

LEMMA PaddedIs ==
    ASSUME NEW s \in Seq(Byte), NEW n \in Nat
    PROVE  /\ Padded(s, n) \in Seq(Byte) /\ Len(Padded(s, n)) = n
           /\ \A i \in 1..n : Padded(s, n)[i] = IF i <= Len(s) THEN s[i] ELSE 0
<1> DEFINE z == Zeros(n)
           t == s \o z
<1>1. 0 \in Byte
  BY DEF Byte
<1>2. z \in Seq(Byte) /\ Len(z) = n /\ \A i \in 1..n : z[i] = 0
  BY <1>1, IsASeq DEF Zeros
<1> HIDE DEF z
<1>3. /\ t \in Seq(Byte) /\ Len(s) \in Nat /\ Len(t) = Len(s) + n
      /\ \A i \in 1..(Len(s) + n) : t[i] = IF i <= Len(s) THEN s[i] ELSE z[i - Len(s)]
  BY <1>2, ConcatProperties, LenProperties
<1>4. \A i \in 1..n : t[i] = IF i <= Len(s) THEN s[i] ELSE 0
  BY <1>2, <1>3
<1> HIDE DEF t
<1>5. \A i \in 1..n : t[i] \in Byte
  BY <1>3, ElementOfSeq
<1>6. /\ SubSeq(t, 1, n) \in Seq(Byte) /\ Len(SubSeq(t, 1, n)) = n
      /\ \A i \in 1..n : SubSeq(t, 1, n)[i] = t[i]
  BY <1>5, IsASeq
<1>7. Padded(s, n) = SubSeq(t, 1, n)
  BY DEF Padded, t, z
<1>8. QED  BY <1>4, <1>6, <1>7

\* Cutting off what was filled up.
LEMMA CutBack ==
    ASSUME NEW s \in Seq(Byte), NEW t \in Seq(Byte), Len(s) <= Len(t),
           \A i \in 1..Len(s) : t[i] = s[i]
    PROVE  Padded(t, Len(s)) = s /\ SubSeq(t, 1, Len(s)) = s
<1>1. Len(s) \in Nat /\ Len(t) \in Nat
  BY LenProperties
<1>2. /\ Padded(t, Len(s)) \in Seq(Byte) /\ Len(Padded(t, Len(s))) = Len(s)
      /\ \A i \in 1..Len(s) : Padded(t, Len(s))[i] = s[i]
  BY <1>1, PaddedIs
<1>3. \A i \in 1..Len(s) : t[i] \in Byte
  BY <1>1, ElementOfSeq
<1>4. /\ SubSeq(t, 1, Len(s)) \in Seq(Byte) /\ Len(SubSeq(t, 1, Len(s))) = Len(s)
      /\ \A i \in 1..Len(s) : SubSeq(t, 1, Len(s))[i] = s[i]
  BY <1>1, <1>3, IsASeq
<1>5. QED  BY <1>2, <1>4, SeqEqual

LEMMA BlockShape ==
    ASSUME NEW b \in Blocks
    PROVE  /\ b = [blockIndex |-> b.blockIndex, naluIndex |-> b.naluIndex,
                   naluSize |-> b.naluSize, data |-> b.data]
           /\ b.blockIndex \in Nat /\ b.naluIndex \in Nat /\ b.naluSize \in Nat
           /\ FitsIn(b.blockIndex, 4) /\ FitsIn(b.naluIndex, 4) /\ FitsIn(b.naluSize, 4)
           /\ b.data \in Seq(Byte) /\ Len(b.data) \in 1..BlockSize
           /\ Len(b.data) \in Nat /\ FitsIn(Len(b.data), 2)
<1>1. b \in [blockIndex : Nat, naluIndex : Nat, naluSize : Nat, data : Seq(Byte)]
  BY BlocksAssumption
<1>2. Len(b.data) \in 1..BlockSize
  BY BlocksAssumption
<1>3. b.blockIndex \div 65536 < 65536 /\ b.naluIndex \div 65536 < 65536
      /\ b.naluSize \div 65536 < 65536
  BY BlocksAssumption
<1>4. Len(b.data) \in Nat /\ Len(b.data) < 65536
  BY <1>2, Sizes
<1>5. QED  BY <1>1, <1>2, <1>3, <1>4 DEF FitsIn

\* The payload k of block b: all of it when raw, an eighth when encoded.
Chunk(b, k) == SubSeq(Padded(b.data, BlockSize), k * FieldSize + 1, (k + 1) * FieldSize)
Body(mode, b, k) == IF mode = 0 THEN Padded(b.data, BlockSize) ELSE Chunk(b, k)

Head16(mode, b, k) == Header(mode, k, Len(b.data), b)
Datagram(mode, b, k) == Serialised(Head16(mode, b, k)) \o Body(mode, b, k)

\* The packet that becomes of it.
Parcel(mode, b, k) == [header |-> Head16(mode, b, k), payload |-> Body(mode, b, k)]

Indices(mode) == IF mode = 0 THEN {0} ELSE 0..7

LEMMA FullData ==
    ASSUME NEW b \in Blocks
    PROVE  /\ Padded(b.data, BlockSize) \in Seq(Byte) /\ Len(Padded(b.data, BlockSize)) = BlockSize
           /\ \A i \in 1..BlockSize :
                  Padded(b.data, BlockSize)[i] = IF i <= Len(b.data) THEN b.data[i] ELSE 0
<1>1. b.data \in Seq(Byte)
  BY BlockShape
<1>2. BlockSize \in Nat
  BY Sizes
<1>3. QED  BY <1>1, <1>2, PaddedIs

LEMMA ChunkIs ==
    ASSUME NEW b \in Blocks, NEW k \in 0..7
    PROVE  /\ Chunk(b, k) \in Seq(Byte) /\ Len(Chunk(b, k)) = FieldSize
           /\ \A i \in 1..FieldSize :
                  Chunk(b, k)[i] = Padded(b.data, BlockSize)[k * FieldSize + i]
<1> DEFINE t == Padded(b.data, BlockSize)
           o == k * FieldSize
<1>1. t \in Seq(Byte) /\ Len(t) = BlockSize
  BY FullData
<1> HIDE DEF t
<1>2. o \in Nat /\ (k + 1) * FieldSize = o + FieldSize /\ o + FieldSize <= BlockSize
      /\ FieldSize \in Nat \ {0} /\ BlockSize \in Nat
  BY ChunkBounds, Sizes
<1> HIDE DEF o
<1>3. \A i \in (o + 1)..(o + FieldSize) : t[i] \in Byte
  BY <1>1, <1>2, ElementOfSeq
<1>4. /\ SubSeq(t, o + 1, o + FieldSize) \in Seq(Byte)
      /\ Len(SubSeq(t, o + 1, o + FieldSize)) = FieldSize
      /\ \A i \in 1..FieldSize : SubSeq(t, o + 1, o + FieldSize)[i] = t[o + i]
  BY <1>2, <1>3, IsASeq
<1>5. Chunk(b, k) = SubSeq(t, o + 1, o + FieldSize)
  BY <1>2 DEF Chunk, t, o
<1>6. QED  BY <1>4, <1>5 DEF t, o

LEMMA BodyIs ==
    ASSUME NEW mode \in {0, 1}, NEW b \in Blocks, NEW k \in Indices(mode)
    PROVE  Body(mode, b, k) \in Seq(Byte) /\ Len(Body(mode, b, k)) = Room(mode)
<1>1. CASE mode = 0
  BY <1>1, FullData DEF Body, Room
<1>2. CASE mode = 1
  BY <1>2, ChunkIs DEF Body, Room, Indices
<1>3. QED  BY <1>1, <1>2

LEMMA HeaderSends ==
    ASSUME NEW mode \in {0, 1}, NEW b \in Blocks, NEW k \in Indices(mode)
    PROVE  Sendable(Head16(mode, b, k))
<1> DEFINE h == Head16(mode, b, k)
<1>1. /\ h.encodeMode = mode /\ h.packetIndex = k /\ h.payloadSize = Len(b.data)
      /\ h.blockIndex = b.blockIndex /\ h.naluIndex = b.naluIndex /\ h.naluSize = b.naluSize
  BY DEF Head16, Header
<1> HIDE DEF h
<1>2. k \in Nat /\ k < 256
  BY DEF Indices
<1>3. /\ h.encodeMode \in Nat /\ h.packetIndex \in Nat /\ h.payloadSize \in Nat
      /\ h.blockIndex \in Nat /\ h.naluIndex \in Nat /\ h.naluSize \in Nat
  BY <1>1, <1>2, BlockShape
<1>4. FitsIn(h.encodeMode, 1) /\ FitsIn(h.packetIndex, 1)
  BY <1>1, <1>2 DEF FitsIn
<1>5. /\ FitsIn(h.payloadSize, 2) /\ FitsIn(h.blockIndex, 4)
      /\ FitsIn(h.naluIndex, 4) /\ FitsIn(h.naluSize, 4)
  BY <1>1, BlockShape
<1>6. Sendable(h)
  BY <1>3, <1>4, <1>5 DEF Sendable
<1>7. QED  BY <1>6 DEF h

LEMMA HeaderSizeType == HeaderSize \in Nat
BY DEF HeaderSize

LEMMA SubSeqIs ==
    ASSUME NEW s \in Seq(Byte), NEW m \in Nat, NEW n \in Nat, m + n <= Len(s)
    PROVE  /\ SubSeq(s, m + 1, m + n) \in Seq(Byte) /\ Len(SubSeq(s, m + 1, m + n)) = n
           /\ \A i \in 1..n : SubSeq(s, m + 1, m + n)[i] = s[m + i]
<1>1. \A i \in (m + 1)..(m + n) : s[i] \in Byte
  BY LenProperties, ElementOfSeq
<1>2. QED  BY <1>1, IsASeq

LEMMA DatagramIs ==
    ASSUME NEW mode \in {0, 1}, NEW b \in Blocks, NEW k \in Indices(mode)
    PROVE  /\ Datagram(mode, b, k) \in Seq(Byte)
           /\ Len(Datagram(mode, b, k)) = HeaderSize + Room(mode)
           /\ Room(mode) \in Nat /\ Room(mode) <= BlockSize
           /\ \A i \in 1..HeaderSize :
                  Datagram(mode, b, k)[i] = Serialised(Head16(mode, b, k))[i]
           /\ \A i \in 1..Room(mode) : Datagram(mode, b, k)[HeaderSize + i] = Body(mode, b, k)[i]
<1> DEFINE h == Serialised(Head16(mode, b, k))
           p == Body(mode, b, k)
           d == Datagram(mode, b, k)
<1>1. h \in Seq(Byte) /\ Len(h) = HeaderSize
  BY HeaderSends, HeaderBytes DEF Sendable
<1>2. p \in Seq(Byte) /\ Len(p) = Room(mode)
  BY BodyIs
<1>3. d = h \o p
  BY DEF Datagram
<1>4. Room(mode) \in Nat /\ Room(mode) <= BlockSize
  BY Sizes DEF Room
<1> HIDE DEF h, p, d
<1>5. /\ d \in Seq(Byte) /\ Len(d) = HeaderSize + Room(mode)
      /\ \A i \in 1..(HeaderSize + Room(mode)) : d[i] = IF i <= HeaderSize THEN h[i] ELSE p[i - HeaderSize]
  BY <1>1, <1>2, <1>3, ConcatProperties
<1>6. \A i \in 1..HeaderSize : d[i] = h[i]
  BY <1>4, <1>5, HeaderSizeType
<1>7. \A i \in 1..Room(mode) : d[HeaderSize + i] = p[i]
  BY <1>4, <1>5, HeaderSizeType
<1>8. QED  BY <1>4, <1>5, <1>6, <1>7 DEF h, p, d

\* composePacket makes the datagram, and refuses payloads that are too long.
LEMMA RawIsComposed ==
    ASSUME NEW b \in Blocks
    PROVE  ComposeRaw(b) = <<Datagram(0, b, 0)>>
<1>1. ~Exceeds(Len(b.data), BlockSize)
  BY BlockShape, Sizes DEF Exceeds
<1>2. QED  BY <1>1 DEF ComposeRaw, Datagram, Head16, Body

LEMMA PayloadIs ==
    ASSUME NEW b \in Blocks, NEW o \in Oversize, NEW k \in 0..7
    PROVE  LET payload == Encoded(b.data, FieldSize + o)[k + 1] IN
           /\ payload \in Seq(Byte) /\ Len(payload) = FieldSize + o
           /\ o = 0 => SubSeq(payload, 1, FieldSize) = Chunk(b, k)
<1> DEFINE c == Chunk(b, k)
           payload == Encoded(b.data, FieldSize + o)[k + 1]
<1>1. payload = Padded(SubSeq(Padded(b.data, BlockSize),
                              ((k + 1) - 1) * FieldSize + 1, (k + 1) * FieldSize), FieldSize + o)
  BY DEF Encoded, Cells
<1>2. payload = Padded(c, FieldSize + o)
  <2>1. (k + 1) - 1 = k
    OBVIOUS
  <2>2. QED  BY <1>1, <2>1 DEF Chunk
<1>3. c \in Seq(Byte) /\ Len(c) = FieldSize
  BY ChunkIs
<1> HIDE DEF c, payload
<1>4. FieldSize \in Nat /\ o \in Nat /\ FieldSize + o \in Nat
  BY Sizes, ExternalAssumption
<1>5. /\ payload \in Seq(Byte) /\ Len(payload) = FieldSize + o
      /\ \A i \in 1..(FieldSize + o) : payload[i] = IF i <= FieldSize THEN c[i] ELSE 0
  BY <1>2, <1>3, <1>4, PaddedIs
<1>6. SubSeq(payload, 1, FieldSize) = c
  <2>1. \A i \in 1..Len(c) : payload[i] = c[i]
    BY <1>3, <1>4, <1>5
  <2>2. QED  BY <1>3, <1>4, <1>5, <2>1, CutBack
<1>7. QED  BY <1>5, <1>6 DEF c, payload

LEMMA RsIsComposed ==
    ASSUME NEW b \in Blocks, NEW o \in Oversize, NEW k \in 0..7
    PROVE  ComposeRs(b, k, Encoded(b.data, FieldSize + o)[k + 1]) =
               IF o = 0 THEN <<Datagram(1, b, k)>> ELSE <<>>
<1> DEFINE payload == Encoded(b.data, FieldSize + o)[k + 1]
<1>1. Len(payload) = FieldSize + o /\ (o = 0 => SubSeq(payload, 1, FieldSize) = Chunk(b, k))
  BY PayloadIs
<1> HIDE DEF payload
<1>2. FieldSize \in Nat /\ o \in Nat
  BY Sizes, ExternalAssumption
<1>3. Exceeds(Len(payload), FieldSize) <=> o # 0
  BY <1>1, <1>2 DEF Exceeds
<1>4. ComposeRs(b, k, payload) =
          IF o = 0 THEN <<Serialised(Header(1, k, Len(b.data), b)) \o SubSeq(payload, 1, FieldSize)>>
          ELSE <<>>
  BY <1>3 DEF ComposeRs
<1>5. o = 0 => Datagram(1, b, k) =
                   Serialised(Header(1, k, Len(b.data), b)) \o SubSeq(payload, 1, FieldSize)
  <2>1. Datagram(1, b, k) = Serialised(Header(1, k, Len(b.data), b)) \o Chunk(b, k)
    BY DEF Datagram, Head16, Body
  <2>2. QED  BY <1>1, <2>1
<1>6. QED  BY <1>4, <1>5 DEF payload

-------------------------------------------------------------------------------
(* What comes out of the receive buffer. *)

Buffers == [1..(HeaderSize + BlockSize) -> Byte]

LEMMA ReceivedIs ==
    ASSUME NEW d \in Seq(Byte)
    PROVE  /\ Received(d) \in Nat /\ Received(d) <= Len(d) /\ Received(d) <= HeaderSize + BlockSize
           /\ Len(d) <= HeaderSize + BlockSize => Received(d) = Len(d)
BY LenProperties, Sizes, HeaderSizeType DEF Received

LEMMA BufferedIs ==
    ASSUME NEW d \in Seq(Byte), NEW old \in Buffers
    PROVE  /\ Buffered(d, old) \in Buffers /\ Buffered(d, old) \in Seq(Byte)
           /\ Len(Buffered(d, old)) = HeaderSize + BlockSize
           /\ \A i \in 1..Received(d) : Buffered(d, old)[i] = d[i]
<1>1. Len(d) \in Nat /\ BlockSize \in Nat /\ HeaderSize \in Nat
  BY LenProperties, Sizes, HeaderSizeType
<1>2. Received(d) \in Nat /\ Received(d) <= Len(d) /\ Received(d) <= HeaderSize + BlockSize
  BY ReceivedIs
<1>3. \A i \in 1..(HeaderSize + BlockSize) : (IF i <= Received(d) THEN d[i] ELSE old[i]) \in Byte
  BY <1>1, <1>2, ElementOfSeq DEF Buffers
<1>4. Buffered(d, old) = [i \in 1..(HeaderSize + BlockSize) |-> IF i <= Received(d) THEN d[i] ELSE old[i]]
  BY DEF Buffered
<1>5. Buffered(d, old) \in Buffers
  BY <1>3, <1>4 DEF Buffers
<1>6. Buffered(d, old) \in Seq(Byte) /\ Len(Buffered(d, old)) = HeaderSize + BlockSize
  BY <1>1, <1>3, <1>4, IsASeq
<1>7. \A i \in 1..Received(d) : Buffered(d, old)[i] = d[i]
  BY <1>1, <1>2, <1>4
<1>8. QED  BY <1>5, <1>6, <1>7

\* decomposePacket gives back what composePacket was given, whatever the buffer held before.
LEMMA DatagramArrives ==
    ASSUME NEW mode \in {0, 1}, NEW b \in Blocks, NEW k \in Indices(mode), NEW old \in Buffers
    PROVE  Decompose(Buffered(Datagram(mode, b, k), old), Received(Datagram(mode, b, k))) =
               <<Parcel(mode, b, k)>>
<1> DEFINE d == Datagram(mode, b, k)
           h == Head16(mode, b, k)
           p == Body(mode, b, k)
           buffer == Buffered(d, old)
           n == Received(d)
           room == Room(mode)
<1>1. /\ d \in Seq(Byte) /\ Len(d) = HeaderSize + room /\ room \in Nat /\ room <= BlockSize
      /\ \A i \in 1..HeaderSize : d[i] = Serialised(h)[i]
      /\ \A i \in 1..room : d[HeaderSize + i] = p[i]
  BY DatagramIs
<1>2. p \in Seq(Byte) /\ Len(p) = room
  BY BodyIs
<1>3. BlockSize \in Nat /\ HeaderSize \in Nat
  BY Sizes, HeaderSizeType
<1> HIDE DEF d, p, room
<1>4. /\ n = HeaderSize + room /\ buffer \in Seq(Byte) /\ Len(buffer) = HeaderSize + BlockSize
      /\ \A i \in 1..(HeaderSize + room) : buffer[i] = d[i]
  <2>1. n = HeaderSize + room
    BY <1>1, <1>3, ReceivedIs
  <2>2. QED  BY <1>1, <2>1, BufferedIs
<1> HIDE DEF buffer, n
<1>5. HeaderIn(buffer) = h
  <2>1. HeaderSize <= Len(buffer)
    BY <1>3, <1>4
  <2>2. \A i \in 1..HeaderSize : buffer[i] = Serialised(h)[i]
    BY <1>1, <1>3, <1>4
  <2>3. Sendable(h)
    BY HeaderSends
  <2>4. h = [encodeMode |-> h.encodeMode, packetIndex |-> h.packetIndex,
             payloadSize |-> h.payloadSize, blockIndex |-> h.blockIndex,
             naluIndex |-> h.naluIndex, naluSize |-> h.naluSize]
    BY DEF Head16, Header
  <2> HIDE DEF h
  <2>5. QED  BY <1>4, <2>1, <2>2, <2>3, <2>4, HeaderAndBack
<1>6. h.encodeMode = mode /\ h.payloadSize = Len(b.data)
  BY DEF Head16, Header
<1> HIDE DEF h
<1>7. SubSeq(buffer, HeaderSize + 1, n) = p
  <2> DEFINE t == SubSeq(buffer, HeaderSize + 1, HeaderSize + room)
  <2>1. HeaderSize + room <= Len(buffer)
    BY <1>1, <1>3, <1>4
  <2>2. t \in Seq(Byte) /\ Len(t) = room /\ \A i \in 1..room : t[i] = buffer[HeaderSize + i]
    BY <1>1, <1>3, <1>4, <2>1, SubSeqIs
  <2> HIDE DEF t
  <2>3. \A i \in 1..room : t[i] = p[i]
    BY <1>1, <1>3, <1>4, <2>2
  <2>4. t = p
    BY <1>2, <2>2, <2>3, SeqEqual
  <2>5. QED  BY <1>4, <2>4 DEF t
<1>8. Padded(p, room) = p
  BY <1>1, <1>2, CutBack
<1>9. ~(n < HeaderSize) /\ ~Exceeds(n - HeaderSize, room)
  BY <1>1, <1>3, <1>4 DEF Exceeds
<1>10. ~Exceeds(h.payloadSize, BlockSize)
  BY <1>3, <1>6, BlockShape DEF Exceeds
<1>11. Decompose(buffer, n) = <<[header |-> h, payload |-> p]>>
  BY <1>5, <1>6, <1>7, <1>8, <1>9, <1>10 DEF Decompose, room
<1>12. QED  BY <1>11 DEF Parcel, d, h, p, buffer, n

\* A datagram that is no packet is none over whatever the buffer held before.
LEMMA StrayIsNothing ==
    ASSUME NEW d \in Strays, NEW old \in Buffers
    PROVE  d \in Seq(Byte) /\ Decompose(Buffered(d, old), Received(d)) = <<>>
<1> DEFINE zeros == Zeros(HeaderSize + BlockSize)
           n == Received(d)
           new == Buffered(d, old)
           ref == Buffered(d, zeros)
<1>1. d \in Seq(Byte)
  BY ExternalAssumption
<1>2. BlockSize \in Nat /\ HeaderSize \in Nat
  BY Sizes, HeaderSizeType
<1>3. zeros \in Buffers
  BY <1>2 DEF Buffers, Zeros, Byte
<1>4. n \in Nat /\ n <= HeaderSize + BlockSize
  BY <1>1, ReceivedIs
<1> HIDE DEF n, zeros
<1>5. /\ new \in Seq(Byte) /\ Len(new) = HeaderSize + BlockSize
      /\ ref \in Seq(Byte) /\ Len(ref) = HeaderSize + BlockSize
      /\ \A i \in 1..n : new[i] = d[i] /\ ref[i] = d[i]
  BY <1>1, <1>3, BufferedIs DEF n
<1>6. Decompose(ref, n) = <<>>
  BY StraysAssumption DEF ref, n, zeros
<1> HIDE DEF new, ref
<1>7. CASE n < HeaderSize
  <2>1. Decompose(new, n) = <<>>
    BY <1>7 DEF Decompose
  <2>2. QED  BY <1>1, <2>1 DEF new, n
<1>8. CASE HeaderSize <= n
  <2>1. \A i \in 1..n : new[i] = ref[i]
    BY <1>5
  <2>2. ASSUME NEW a \in Nat, NEW w \in Nat, a + w <= n
        PROVE  SubSeq(new, a + 1, a + w) = SubSeq(ref, a + 1, a + w)
    <3>1. a + w <= Len(new) /\ a + w <= Len(ref)
      BY <1>2, <1>4, <1>5, <2>2
    <3>2. /\ SubSeq(new, a + 1, a + w) \in Seq(Byte) /\ Len(SubSeq(new, a + 1, a + w)) = w
          /\ \A i \in 1..w : SubSeq(new, a + 1, a + w)[i] = new[a + i]
      BY <1>5, <3>1, SubSeqIs
    <3>3. /\ SubSeq(ref, a + 1, a + w) \in Seq(Byte) /\ Len(SubSeq(ref, a + 1, a + w)) = w
          /\ \A i \in 1..w : SubSeq(ref, a + 1, a + w)[i] = ref[a + i]
      BY <1>5, <3>1, SubSeqIs
    <3>4. \A i \in 1..w : a + i \in 1..n
      BY <1>4, <2>2
    <3>5. \A i \in 1..w : SubSeq(new, a + 1, a + w)[i] = SubSeq(ref, a + 1, a + w)[i]
      BY <2>1, <3>2, <3>3, <3>4
    <3>6. QED  BY <3>2, <3>3, <3>5, SeqEqual
  <2> DEFINE Same(a, w) == SubSeq(new, a + 1, a + w) = SubSeq(ref, a + 1, a + w)
  <2>3. \A a, w \in Nat : a + w <= n => Same(a, w)
    BY <2>2
  <2> HIDE DEF Same
  <2>4. HeaderIn(new) = HeaderIn(ref)
    <3>1. 16 <= n
      BY <1>8 DEF HeaderSize
    <3>2. Same(0, 1) /\ Same(1, 1) /\ Same(2, 2) /\ Same(4, 4) /\ Same(8, 4) /\ Same(12, 4)
      BY <1>4, <2>3, <3>1
    <3>3. QED  BY <3>2, Zenon DEF HeaderIn, Same
  <2>5. PICK w \in Nat : n = HeaderSize + w
    <3>1. n - HeaderSize \in Nat /\ n = HeaderSize + (n - HeaderSize)
      BY <1>2, <1>4, <1>8
    <3>2. QED  BY <3>1
  <2>6. Same(HeaderSize, w)
    BY <1>2, <1>4, <2>3, <2>5
  <2>7. SubSeq(new, HeaderSize + 1, n) = SubSeq(ref, HeaderSize + 1, n)
    BY <2>5, <2>6, Zenon DEF Same
  <2>8. Decompose(new, n) = Decompose(ref, n)
    BY <2>4, <2>7, Zenon DEF Decompose
  <2>9. QED  BY <1>1, <1>6, <2>8 DEF new, n
<1>9. QED  BY <1>2, <1>4, <1>7, <1>8

-------------------------------------------------------------------------------
(* Datagrams, packets and payloads tell the blocks apart. *)

\* What rscoder files a packet under is that of one block: 16 bits of blockIndex and 16 of
\* naluIndex, and what is above them in both gets mixed.
DistinctIds == \A b, c \in Blocks : Id(b) = Id(c) => b = c

Share(b, k) == [id |-> Id(b), index |-> k, payload |-> Chunk(b, k)]

LEMMA SharesDiffer ==
    ASSUME DistinctIds, NEW b \in Blocks, NEW c \in Blocks, NEW k, NEW l,
           Share(b, k) = Share(c, l)
    PROVE  b = c /\ k = l
<1>1. Share(b, k).id = Share(c, l).id /\ Share(b, k).index = Share(c, l).index
  OBVIOUS
<1>2. Id(b) = Id(c) /\ k = l
  BY <1>1, Zenon DEF Share
<1>3. QED  BY <1>2 DEF DistinctIds

\* The id of a packet is that of its block.
LEMMA IdOfHeader ==
    ASSUME NEW mode, NEW b, NEW k
    PROVE  Id(Head16(mode, b, k)) = Id(b)
<1> DEFINE IdOf(nalu, block) ==
               << {i \in 0..15 : \/ (nalu \div 2^i) % 2 = 1
                                \/ ((block \div 65536) \div 2^i) % 2 = 1},
                  block % 65536 >>
           h == Head16(mode, b, k)
<1>1. Id(h) = IdOf(h.naluIndex, h.blockIndex)
  BY DEF Id
<1>2. Id(b) = IdOf(b.naluIndex, b.blockIndex)
  BY DEF Id
<1> HIDE DEF IdOf
<1>3. h.naluIndex = b.naluIndex /\ h.blockIndex = b.blockIndex
  BY DEF Head16, Header
<1> HIDE DEF h
<1>4. Id(h) = Id(b)
  BY <1>1, <1>2, <1>3, Zenon
<1>5. QED  BY <1>4 DEF h

LEMMA ParcelsDiffer ==
    ASSUME DistinctIds, NEW mode \in {0, 1}, NEW b \in Blocks, NEW c \in Blocks, NEW k, NEW l,
           Parcel(mode, b, k) = Parcel(mode, c, l)
    PROVE  b = c /\ k = l
<1>1. Parcel(mode, b, k).header = Parcel(mode, c, l).header
  OBVIOUS
<1>2. Head16(mode, b, k) = Head16(mode, c, l)
  BY <1>1, Zenon DEF Parcel
<1>3. Id(b) = Id(c)
  BY <1>2, IdOfHeader
<1>4. Head16(mode, b, k).packetIndex = k /\ Head16(mode, c, l).packetIndex = l
  BY DEF Head16, Header
<1>5. QED  BY <1>2, <1>3, <1>4 DEF DistinctIds

LEMMA ABuffer == Zeros(HeaderSize + BlockSize) \in Buffers
BY DEF Buffers, Zeros, Byte

LEMMA DatagramsDiffer ==
    ASSUME DistinctIds, NEW mode \in {0, 1}, NEW b \in Blocks, NEW c \in Blocks,
           NEW k \in Indices(mode), NEW l \in Indices(mode),
           Datagram(mode, b, k) = Datagram(mode, c, l)
    PROVE  b = c /\ k = l
<1>1. <<Parcel(mode, b, k)>> = <<Parcel(mode, c, l)>>
  BY ABuffer, DatagramArrives
<1>2. Parcel(mode, b, k) = Parcel(mode, c, l)
  BY <1>1
<1>3. QED  BY <1>2, ParcelsDiffer

LEMMA NoStrayIsADatagram ==
    ASSUME NEW mode \in {0, 1}, NEW b \in Blocks, NEW k \in Indices(mode)
    PROVE  Datagram(mode, b, k) \notin Strays
<1>1. SUFFICES ASSUME Datagram(mode, b, k) \in Strays
               PROVE  FALSE
  OBVIOUS
<1>2. PICK old \in Buffers : TRUE
  BY ABuffer
<1>3. Decompose(Buffered(Datagram(mode, b, k), old), Received(Datagram(mode, b, k))) = <<>>
  BY <1>1, StrayIsNothing
<1>4. <<Parcel(mode, b, k)>> = <<>>
  BY <1>3, DatagramArrives
<1>5. QED  BY <1>4

-------------------------------------------------------------------------------
(* What is given to AddBlock. *)

AsBlock(header, data) ==
    [blockIndex |-> header.blockIndex, naluIndex |-> header.naluIndex,
     naluSize |-> header.naluSize, data |-> data]

LEMMA AsBlockIs ==
    ASSUME NEW mode, NEW b \in Blocks, NEW k
    PROVE  AsBlock(Head16(mode, b, k), b.data) = b
<1>1. /\ Head16(mode, b, k).naluIndex = b.naluIndex /\ Head16(mode, b, k).blockIndex = b.blockIndex
      /\ Head16(mode, b, k).naluSize = b.naluSize
  BY DEF Head16, Header
<1>2. QED  BY <1>1, BlockShape DEF AsBlock

LEMMA RawComesBack ==
    ASSUME NEW b \in Blocks
    PROVE  SubSeq(Parcel(0, b, 0).payload, 1, Parcel(0, b, 0).header.payloadSize) = b.data
<1>1. Parcel(0, b, 0).payload = Padded(b.data, BlockSize)
  BY DEF Parcel, Body
<1>2. Parcel(0, b, 0).header.payloadSize = Len(b.data)
  BY DEF Parcel, Head16, Header
<1> DEFINE t == Padded(b.data, BlockSize)
           s == b.data
<1>3. /\ t \in Seq(Byte) /\ Len(t) = BlockSize /\ BlockSize \in Nat
      /\ \A i \in 1..BlockSize : t[i] = IF i <= Len(s) THEN s[i] ELSE 0
  BY FullData, Sizes
<1>4. s \in Seq(Byte) /\ Len(s) \in 1..BlockSize
  BY BlockShape
<1> HIDE DEF t, s
<1>5. Len(s) <= Len(t) /\ \A i \in 1..Len(s) : t[i] = s[i]
  BY <1>3, <1>4
<1>6. SubSeq(t, 1, Len(s)) = s
  BY <1>3, <1>4, <1>5, CutBack
<1>7. QED  BY <1>1, <1>2, <1>6 DEF t, s

LEMMA RsComesBack ==
    ASSUME NEW b \in Blocks, NEW S,
           \A s \in S : \E k \in 0..7 : s = Share(b, k),
           \A k \in 0..7 : Share(b, k) \in S
    PROVE  Resized(Decoded(S), Len(b.data)) = b.data
<1> DEFINE Payload(k) == (CHOOSE p \in S : p.index = k).payload
           t == Decoded(S)
           f == Padded(b.data, BlockSize)
<1>1. \A k \in 0..7 : Payload(k) = Chunk(b, k)
  <2> TAKE k \in 0..7
  <2>1. Share(b, k) \in S /\ Share(b, k).index = k
    BY Zenon DEF Share
  <2>2. PICK p : p = CHOOSE q \in S : q.index = k
    OBVIOUS
  <2>3. p \in S /\ p.index = k
    BY <2>1, <2>2
  <2>4. PICK l \in 0..7 : p = Share(b, l)
    BY <2>3
  <2>5. p.index = l /\ p.payload = Chunk(b, l)
    BY <2>4, Zenon DEF Share
  <2>6. QED  BY <2>2, <2>3, <2>5
<1>2. t = [i \in 1..BlockSize |-> Payload((i - 1) \div FieldSize)[((i - 1) % FieldSize) + 1]]
  BY DEF Decoded
<1> HIDE DEF Payload, t
<1>3. /\ f \in Seq(Byte) /\ Len(f) = BlockSize
      /\ \A i \in 1..BlockSize : f[i] = IF i <= Len(b.data) THEN b.data[i] ELSE 0
  BY FullData
<1> HIDE DEF f
<1>4. FieldSize \in Nat \ {0} /\ BlockSize = 8 * FieldSize /\ BlockSize \in Nat
  BY Sizes
<1>5. ASSUME NEW i \in 1..BlockSize
      PROVE  t[i] = f[i]
  <2>1. PICK k, r : k = (i - 1) \div FieldSize /\ r = (i - 1) % FieldSize
    OBVIOUS
  <2>2. i - 1 \in Nat
    BY <1>4
  <2>3. /\ k \in Nat /\ r \in 0..(FieldSize - 1) /\ i - 1 = k * FieldSize + r
    BY <1>4, <2>1, <2>2, Euclid
  <2>4. k \in 0..7
    <3>1. SUFFICES ASSUME k >= 8 PROVE FALSE
      BY <2>3
    <3>2. PICK e \in Nat : k = 8 + e
      BY <2>3, <3>1
    <3>3. k * FieldSize = 8 * FieldSize + e * FieldSize /\ e * FieldSize \in Nat
      BY <1>4, <3>2
    <3>4. QED  BY <1>4, <2>3, <3>3
  <2>5. t[i] = Chunk(b, k)[r + 1]
    BY <1>1, <1>2, <2>1, <2>4
  <2>6. k * FieldSize \in Nat
    BY <2>4, ChunkBounds
  <2>7. r + 1 \in 1..FieldSize /\ k * FieldSize + (r + 1) = i
    BY <1>4, <2>3, <2>6
  <2>8. Chunk(b, k)[r + 1] = f[k * FieldSize + (r + 1)]
    BY <2>4, <2>7, ChunkIs DEF f
  <2>9. QED  BY <2>5, <2>7, <2>8
<1>6. t \in Seq(Byte) /\ Len(t) = BlockSize
  <2>1. \A i \in 1..BlockSize : f[i] \in Byte
    BY <1>3, <1>4, ElementOfSeq
  <2>2. t = [i \in 1..BlockSize |-> f[i]]
    BY <1>2, <1>5
  <2>3. QED  BY <1>4, <2>1, <2>2, IsASeq
<1>7. b.data \in Seq(Byte) /\ Len(b.data) \in 1..BlockSize
  BY BlockShape
<1>8. Len(b.data) <= Len(t) /\ \A i \in 1..Len(b.data) : t[i] = b.data[i]
  BY <1>3, <1>4, <1>5, <1>6, <1>7
<1>9. Padded(t, Len(b.data)) = b.data
  BY <1>6, <1>7, <1>8, CutBack
<1>10. QED  BY <1>9 DEF Resized, t

-------------------------------------------------------------------------------
(* The invariant.  A ticket <<i, k>> is the payload k of the block i of read; the client  *)
(* hands tickets over in the order of 8 * i + k.                                          *)

\* The tickets before this one are handed over.
Cursor ==
    8 * Len(read) + IF given = <<>> THEN 8 ELSE IF payloads = <<>> THEN 0 ELSE 8 - Len(payloads)

Ticket(i, k) ==
    i \in 1..Len(read) /\ k \in Indices(encodingMode) /\ 8 * i + k < Cursor

\* Where a ticket stands: 0 with rscoder, 1 in packet, and from 2 on in rx.
Stands(p, i, k) ==
    /\ Ticket(i, k)
    /\ \/ p = 0 /\ encodingMode = 1 /\ Share(read[i], k) \in collected
       \/ p = 1 /\ packet = <<Parcel(encodingMode, read[i], k)>>
       \/ p \in 2..(Len(rx) + 1) /\ rx[p - 1] = Datagram(encodingMode, read[i], k)

Added(x, i) == x \in 1..Len(added) /\ i \in 1..Len(read) /\ added[x] = read[i]

\* What the client holds is what remains of the last block it read.
Holding ==
    /\ given # <<>>
    /\ read # <<>> /\ given = <<read[Len(read)]>>
    /\ IF encodingMode = 0
       THEN payloads = <<>>
       ELSE /\ payloads \in Seq(Seq(Byte)) /\ Len(payloads) \in 1..8
            /\ \E o \in Oversize : \A q \in 1..Len(payloads) :
                   payloads[q] = Encoded(read[Len(read)].data, FieldSize + o)[8 - Len(payloads) + q]

Types ==
    /\ encodingMode \in {0, 1}
    /\ read \in Seq(Blocks) /\ \A i, j \in 1..Len(read) : read[i] = read[j] => i = j
    /\ (given = <<>> /\ payloads = <<>>) \/ Holding
    /\ rx \in Seq(Seq(Byte)) /\ message \in Buffers /\ added \in Seq(Blocks)
    /\ lost \in Nat

\* Everything under way is a ticket or a stray.
UnderWay ==
    /\ \A j \in 1..Len(rx) : rx[j] \in Strays \/ \E i, k : Stands(j + 1, i, k)
    /\ packet = <<>> \/ \E i, k : Stands(1, i, k)
    /\ \A s \in collected : \E i, k : Stands(0, i, k) /\ s = Share(read[i], k)

\* What stands behind was handed over later.
InOrder ==
    \A p, q, i, j, k, l :
        Stands(p, i, k) /\ Stands(q, j, l) /\ p < q => 8 * i + k < 8 * j + l

\* What is still to be processed is of later blocks than those added.
AddedFirst ==
    /\ \A x \in 1..Len(added) : \E i : Added(x, i)
    /\ \A x, i : Added(x, i) => 8 * i + 7 < Cursor
    /\ \A x, y, i, j : Added(x, i) /\ Added(y, j) /\ x < y => i < j
    /\ \A x, i, p, j, l : Added(x, i) /\ Stands(p, j, l) /\ p # 0 => i < j

\* A block is decoded as soon as its eight payloads are there.
NoneComplete == \A i \in 1..Len(read) : \E k \in 0..7 : Share(read[i], k) \notin collected

\* While nothing is lost every ticket is somewhere, and no block is passed over.
NothingMissing ==
    lost = 0 =>
        /\ \A i, k : Ticket(i, k) => (\E x : Added(x, i)) \/ (\E p : Stands(p, i, k))
        /\ Len(added) <= Len(read) /\ \A x \in 1..Len(added) : added[x] = read[x]

Inv == Types /\ UnderWay /\ InOrder /\ AddedFirst /\ NoneComplete /\ NothingMissing

LEMMA InitInv == ASSUME Init PROVE Inv
<1>1. /\ encodingMode \in {0, 1} /\ given = <<>> /\ payloads = <<>> /\ rx = <<>> /\ packet = <<>>
      /\ collected = {} /\ read = <<>> /\ added = <<>> /\ lost = 0
  BY DEF Init
<1>2. Len(read) = 0 /\ Len(rx) = 0 /\ Len(added) = 0
  BY <1>1
<1>3. \A i, k : ~Ticket(i, k)
  BY <1>2 DEF Ticket
<1>4. \A p, i, k : ~Stands(p, i, k)
  BY <1>3 DEF Stands
<1>5. \A x, i : ~Added(x, i)
  BY <1>2 DEF Added
<1>6. Types
  <2>1. message \in Buffers
    BY DEF Init, Buffers, Byte
  <2>2. QED  BY <1>1, <1>2, <2>1 DEF Types
<1>7. UnderWay
  BY <1>1, <1>2 DEF UnderWay
<1>8. InOrder
  BY <1>4 DEF InOrder
<1>9. AddedFirst
  BY <1>2, <1>5 DEF AddedFirst
<1>10. NoneComplete
  BY <1>2 DEF NoneComplete
<1>11. NothingMissing
  BY <1>2, <1>3 DEF NothingMissing
<1>12. QED  BY <1>6, <1>7, <1>8, <1>9, <1>10, <1>11 DEF Inv

\* What the eight payloads of a block are as a sequence.
LEMMA EncodedIs ==
    ASSUME NEW b \in Blocks, NEW o \in Oversize
    PROVE  Encoded(b.data, FieldSize + o) \in Seq(Seq(Byte)) /\ Len(Encoded(b.data, FieldSize + o)) = 8
<1> DEFINE e == Encoded(b.data, FieldSize + o)
<1>1. \A k \in 0..7 : e[k + 1] \in Seq(Byte)
  BY PayloadIs
<1>2. DOMAIN e = 1..8 /\ e = [k \in 1..8 |-> e[k]]
  BY DEF Encoded, Cells
<1> HIDE DEF e
<1>3. \A k \in 1..8 : e[k] \in Seq(Byte)
  <2> TAKE k \in 1..8
  <2>1. k - 1 \in 0..7 /\ (k - 1) + 1 = k
    OBVIOUS
  <2>2. QED  BY <1>1, <2>1
<1>4. e \in Seq(Seq(Byte)) /\ Len(e) = 8
  BY <1>2, <1>3, IsASeq
<1>5. QED  BY <1>4 DEF e

LEMMA ReadBlockInv == ASSUME Inv, DistinctIds, ReadBlock PROVE Inv'
<1> DEFINE L == Len(read)
<1>1. /\ encodingMode' = encodingMode /\ rx' = rx /\ message' = message /\ packet' = packet
      /\ collected' = collected /\ added' = added /\ lost' = lost /\ given = <<>>
  BY DEF ReadBlock, serverVars
<1>2. PICK b \in Blocks \ Range(read), o \in Oversize :
        /\ given' = <<b>> /\ read' = Append(read, b)
        /\ payloads' = IF encodingMode = 0 THEN <<>> ELSE Encoded(b.data, FieldSize + o)
  BY DEF ReadBlock
<1>3. /\ read \in Seq(Blocks) /\ L \in Nat /\ encodingMode \in {0, 1} /\ payloads = <<>>
      /\ \A i, j \in 1..L : read[i] = read[j] => i = j
  BY <1>1, LenProperties DEF Inv, Types, Holding
<1>4. /\ read' \in Seq(Blocks) /\ Len(read') = L + 1 /\ read'[L + 1] = b
      /\ \A i \in 1..L : read'[i] = read[i] /\ read[i] # b
  <2>1. \A i \in 1..L : read[i] # b
    BY <1>2, <1>3 DEF Range
  <2>2. QED  BY <1>2, <1>3, <2>1, AppendProperties
<1>5. encodingMode = 1 => payloads' \in Seq(Seq(Byte)) /\ Len(payloads') = 8 /\ payloads' # <<>>
  <2>1. /\ Encoded(b.data, FieldSize + o) \in Seq(Seq(Byte))
        /\ Len(Encoded(b.data, FieldSize + o)) = 8
    BY <1>2, EncodedIs
  <2>2. ASSUME NEW e, e \in Seq(Seq(Byte)), Len(e) = 8
        PROVE  e # <<>>
    <3>1. Len(<<>>) = 0
      OBVIOUS
    <3>2. e = <<>> => Len(e) = Len(<<>>)
      BY Zenon
    <3>3. 8 # 0
      OBVIOUS
    <3>4. QED  BY <2>2, <3>1, <3>2, <3>3, Zenon
  <2>3. encodingMode = 1 => payloads' = Encoded(b.data, FieldSize + o)
    BY <1>2
  <2>4. QED  BY <2>1, <2>2, <2>3
<1> HIDE DEF L
<1>6. Cursor = 8 * L + 8 /\ Cursor' = 8 * L + 8
  <2>1. Cursor = 8 * L + 8
    BY <1>1 DEF Cursor, L
  <2>2. given' # <<>>
    BY <1>2
  <2>3. encodingMode = 0 => payloads' = <<>>
    BY <1>2
  <2>4. Cursor' = 8 * Len(read') +
            IF payloads' = <<>> THEN 0 ELSE 8 - Len(payloads')
    BY <2>2 DEF Cursor
  <2>5. (IF payloads' = <<>> THEN 0 ELSE 8 - Len(payloads')) = 0
    BY <1>3, <1>5, <2>3
  <2>6. Cursor' = 8 * Len(read') + 0
    BY <2>4, <2>5, Zenon
  <2>7. QED  BY <1>3, <1>4, <2>1, <2>6
<1>7. \A i, k : Ticket(i, k)' <=> Ticket(i, k)
  BY <1>1, <1>3, <1>4, <1>6 DEF Ticket, Indices, L
<1>8. \A i, k : Ticket(i, k) => i \in 1..L
  BY DEF Ticket, L
<1>9. \A p, i, k : Stands(p, i, k)' <=> Stands(p, i, k)
  BY <1>1, <1>4, <1>7, <1>8 DEF Stands
<1>10. \A x, i : Added(x, i)' <=> Added(x, i)
  <2>1. \A x \in 1..Len(added) : \E j \in 1..L : added[x] = read[j]
    BY DEF Inv, AddedFirst, Added, L
  <2>2. \A x \in 1..Len(added) : added[x] # b
    BY <1>4, <2>1
  <2>3. QED  BY <1>1, <1>3, <1>4, <2>2 DEF Added, L
<1>11. Types'
  <2>1. \A i, j \in 1..Len(read') : read'[i] = read'[j] => i = j
    BY <1>3, <1>4
  <2>2. Holding'
    <3>1. given' # <<>> /\ read' # <<>> /\ given' = <<read'[Len(read')]>>
      BY <1>2, <1>3, <1>4
    <3>2. CASE encodingMode = 0
      BY <1>1, <1>2, <3>1, <3>2 DEF Holding
    <3>3. CASE encodingMode = 1
      <4>1. payloads' = Encoded(read'[Len(read')].data, FieldSize + o)
        BY <1>2, <1>4, <3>3
      <4>2. \A q \in 1..8 : 8 - 8 + q = q
        OBVIOUS
      <4>3. \A q \in 1..Len(payloads') :
              payloads'[q] = Encoded(read'[Len(read')].data, FieldSize + o)[8 - Len(payloads') + q]
        BY <1>5, <3>3, <4>1, <4>2
      <4>4. Len(payloads') \in 1..8
        BY <1>5, <3>3
      <4>5. QED  BY <1>1, <1>2, <1>5, <3>1, <3>3, <4>3, <4>4 DEF Holding
    <3>4. QED  BY <1>3, <3>2, <3>3
  <2>3. QED  BY <1>1, <1>4, <2>1, <2>2 DEF Inv, Types
<1>12. UnderWay'
  <2>1. \A i, k : Stands(0, i, k) => read'[i] = read[i]
    BY <1>4, <1>8 DEF Stands
  <2>2. QED  BY <1>1, <1>9, <2>1 DEF Inv, UnderWay
<1>13. InOrder'
  BY <1>9 DEF Inv, InOrder
<1>14. AddedFirst'
  BY <1>1, <1>6, <1>9, <1>10 DEF Inv, AddedFirst
<1>15. NoneComplete'
  <2>1. \A i \in 1..L : \E k \in 0..7 : Share(read'[i], k) \notin collected
    BY <1>4 DEF Inv, NoneComplete, L
  <2>2. Share(b, 0) \notin collected
    <3>1. SUFFICES ASSUME Share(b, 0) \in collected
                   PROVE  FALSE
      OBVIOUS
    <3>2. PICK i, k : Stands(0, i, k) /\ Share(b, 0) = Share(read[i], k)
      BY <3>1 DEF Inv, UnderWay
    <3>3. i \in 1..L
      BY <1>8, <3>2 DEF Stands
    <3>4. read[i] \in Blocks
      BY <1>3, <3>3, ElementOfSeq DEF L
    <3>5. QED  BY <1>4, <3>2, <3>3, <3>4, SharesDiffer
  <2>3. \A i \in 1..(L + 1) : i \in 1..L \/ i = L + 1
    BY <1>3
  <2>4. 0 \in 0..7
    OBVIOUS
  <2>5. QED  BY <1>1, <1>4, <2>1, <2>2, <2>3, <2>4 DEF NoneComplete
<1>16. NothingMissing'
  <2>1. ASSUME lost = 0
        PROVE  Len(added') <= Len(read') /\ \A x \in 1..Len(added') : added'[x] = read'[x]
    <3>1. Len(added) <= L /\ \A x \in 1..Len(added) : added[x] = read[x]
      BY <2>1 DEF Inv, NothingMissing, L
    <3>2. Len(added) \in Nat
      BY LenProperties DEF Inv, Types
    <3>3. QED  BY <1>1, <1>3, <1>4, <3>1, <3>2
  <2>2. QED  BY <1>1, <1>7, <1>9, <1>10, <2>1 DEF Inv, NothingMissing
<1>17. QED  BY <1>11, <1>12, <1>13, <1>14, <1>15, <1>16 DEF Inv

LEMMA TicketIs ==
    ASSUME Inv, NEW i, NEW k, Ticket(i, k)
    PROVE  /\ i \in 1..Len(read) /\ k \in 0..7 /\ k \in Indices(encodingMode)
           /\ read[i] \in Blocks /\ 8 * i + k < Cursor
<1>1. i \in 1..Len(read) /\ k \in Indices(encodingMode) /\ 8 * i + k < Cursor
  BY DEF Ticket
<1>2. read[i] \in Blocks
  BY <1>1, ElementOfSeq DEF Inv, Types
<1>3. k \in 0..7
  BY <1>1 DEF Indices
<1>4. QED  BY <1>1, <1>2, <1>3

LEMMA StandsIs ==
    ASSUME NEW p, NEW i, NEW k, Stands(p, i, k)
    PROVE  Ticket(i, k) /\ p \in 0..(Len(rx) + 1)
<1>1. QED  BY DEF Stands

\* Only one ticket stands in packet, and at each place of rx.
LEMMA OneThere ==
    ASSUME Inv, DistinctIds, NEW p, NEW i, NEW j, NEW k, NEW l,
           Stands(p, i, k), Stands(p, j, l), p # 0
    PROVE  i = j /\ k = l
<1>1. Ticket(i, k) /\ Ticket(j, l)
  BY StandsIs
<1>2. /\ i \in 1..Len(read) /\ read[i] \in Blocks /\ k \in Indices(encodingMode)
      /\ j \in 1..Len(read) /\ read[j] \in Blocks /\ l \in Indices(encodingMode)
  BY <1>1, TicketIs
<1>3. encodingMode \in {0, 1} /\ (read[i] = read[j] => i = j)
  BY <1>2 DEF Inv, Types
<1>4. CASE packet = <<Parcel(encodingMode, read[i], k)>> /\ packet = <<Parcel(encodingMode, read[j], l)>>
  <2>1. Parcel(encodingMode, read[i], k) = Parcel(encodingMode, read[j], l)
    BY <1>4
  <2>2. QED  BY <1>2, <1>3, <2>1, ParcelsDiffer
<1>5. CASE Datagram(encodingMode, read[i], k) = Datagram(encodingMode, read[j], l)
  BY <1>2, <1>3, <1>5, DatagramsDiffer
<1>6. QED  BY <1>4, <1>5 DEF Stands

\* A ticket the client has not handed over is nowhere.
LEMMA NotYet ==
    ASSUME Inv, DistinctIds, NEW i \in 1..Len(read), NEW k \in Indices(encodingMode), ~Ticket(i, k)
    PROVE  /\ Share(read[i], k) \notin collected
           /\ packet # <<Parcel(encodingMode, read[i], k)>>
           /\ \A j \in 1..Len(rx) : rx[j] # Datagram(encodingMode, read[i], k)
<1>1. /\ encodingMode \in {0, 1} /\ read[i] \in Blocks
      /\ \A j \in 1..Len(read) : read[i] = read[j] => i = j
  BY ElementOfSeq DEF Inv, Types
<1>2. ASSUME Share(read[i], k) \in collected
      PROVE  FALSE
  <2>1. PICK j, l : Stands(0, j, l) /\ Share(read[i], k) = Share(read[j], l)
    BY <1>2 DEF Inv, UnderWay
  <2>2. Ticket(j, l)
    BY <2>1, StandsIs
  <2>3. j \in 1..Len(read) /\ read[j] \in Blocks
    BY <2>2, TicketIs
  <2>4. read[i] = read[j] /\ k = l
    BY <1>1, <2>1, <2>3, SharesDiffer
  <2>5. QED  BY <1>1, <2>2, <2>3, <2>4
<1>3. ASSUME packet = <<Parcel(encodingMode, read[i], k)>>
      PROVE  FALSE
  <2>1. PICK j, l : Stands(1, j, l)
    BY <1>3 DEF Inv, UnderWay
  <2>2. Ticket(j, l)
    BY <2>1, StandsIs
  <2>3. j \in 1..Len(read) /\ read[j] \in Blocks
    BY <2>2, TicketIs
  <2>4. Parcel(encodingMode, read[i], k) = Parcel(encodingMode, read[j], l)
    BY <1>3, <2>1 DEF Stands
  <2>5. read[i] = read[j] /\ k = l
    BY <1>1, <2>3, <2>4, ParcelsDiffer
  <2>6. QED  BY <1>1, <2>2, <2>3, <2>5
<1>4. ASSUME NEW n \in 1..Len(rx), rx[n] = Datagram(encodingMode, read[i], k)
      PROVE  FALSE
  <2>1. rx[n] \notin Strays
    BY <1>1, <1>4, NoStrayIsADatagram
  <2>2. PICK j, l : Stands(n + 1, j, l)
    BY <2>1 DEF Inv, UnderWay
  <2>3. Ticket(j, l)
    BY <2>2, StandsIs
  <2>4. j \in 1..Len(read) /\ read[j] \in Blocks /\ l \in Indices(encodingMode)
    BY <2>3, TicketIs
  <2>5. rx[n] = Datagram(encodingMode, read[j], l)
    <3>1. n + 1 # 0 /\ n + 1 # 1 /\ (n + 1) - 1 = n
      BY <1>4
    <3>2. QED  BY <2>2, <3>1 DEF Stands
  <2>6. Datagram(encodingMode, read[i], k) = Datagram(encodingMode, read[j], l)
    BY <1>4, <2>5
  <2>7. read[i] = read[j] /\ k = l
    BY <1>1, <2>4, <2>6, DatagramsDiffer
  <2>8. QED  BY <1>1, <2>3, <2>4, <2>7
<1>5. QED  BY <1>2, <1>3, <1>4

LEMMA RxShape ==
    ASSUME Inv
    PROVE  /\ rx \in Seq(Seq(Byte)) /\ Len(rx) \in Nat /\ encodingMode \in {0, 1} /\ message \in Buffers
           /\ Len(read) \in Nat /\ Len(added) \in Nat
           /\ \A i, j \in 1..Len(read) : read[i] = read[j] => i = j
BY LenProperties DEF Inv, Types

\* The client hands over the ticket that is next: it arrives behind all others, or is lost.
LEMMA HandedOver ==
    ASSUME Inv, DistinctIds, read # <<>>, NEW n \in Indices(encodingMode),
           Cursor = 8 * Len(read) + n, Cursor < Cursor', Cursor' \in Nat,
           \A k \in Indices(encodingMode) :
               8 * Len(read) + k < Cursor' <=> k = n \/ 8 * Len(read) + k < Cursor,
           encodingMode' = encodingMode, read' = read, packet' = packet,
           collected' = collected, added' = added,
           \/ rx' = Append(rx, Datagram(encodingMode, read[Len(read)], n)) /\ lost' = lost
           \/ rx' = rx /\ lost' = lost + 1,
           Types'
    PROVE  Inv'
<1>0. PICK L, R, d : L = Len(read) /\ R = Len(rx) /\ d = Datagram(encodingMode, read[L], n)
  OBVIOUS
<1>1. /\ L = Len(read) /\ R = Len(rx) /\ L \in Nat \ {0} /\ R \in Nat
      /\ encodingMode \in {0, 1} /\ n \in 0..7 /\ lost \in Nat
      /\ read[L] \in Blocks /\ rx \in Seq(Seq(Byte))
  <2>1. /\ read \in Seq(Blocks) /\ rx \in Seq(Seq(Byte)) /\ encodingMode \in {0, 1} /\ lost \in Nat
    BY DEF Inv, Types
  <2>2. L \in Nat \ {0}
    BY <1>0, <2>1, EmptySeq
  <2>3. QED  BY <1>0, <2>1, <2>2, LenProperties, ElementOfSeq DEF Indices
<1>2. d \in Seq(Byte)
  BY <1>0, <1>1, DatagramIs
<1>3. \/ /\ Len(rx') = R + 1 /\ rx'[R + 1] = d /\ lost' = lost
         /\ \A j \in 1..R : rx'[j] = rx[j]
      \/ rx' = rx /\ lost' = lost + 1
  <2>1. (rx' = Append(rx, d) /\ lost' = lost) \/ (rx' = rx /\ lost' = lost + 1)
    BY <1>0
  <2>2. Len(Append(rx, d)) = R + 1 /\ Append(rx, d)[R + 1] = d
        /\ \A j \in 1..R : Append(rx, d)[j] = rx[j]
    BY <1>1, <1>2, AppendProperties
  <2>3. QED  BY <2>1, <2>2
<1> DEFINE Arrives == Len(rx') = R + 1
<1>4. \A i, k : Ticket(i, k)' <=> Ticket(i, k) \/ (i = L /\ k = n)
  <2>1. \A i, k : Ticket(i, k)' <=> i \in 1..L /\ k \in Indices(encodingMode) /\ 8 * i + k < Cursor'
    BY <1>1 DEF Ticket
  <2>2. \A i, k : i \in 1..L /\ k \in Indices(encodingMode) /\ i # L =>
                      8 * i + k < Cursor /\ 8 * i + k < Cursor'
    BY <1>1 DEF Indices
  <2>3. \A k \in Indices(encodingMode) : 8 * L + k < Cursor' <=> k = n \/ 8 * L + k < Cursor
    BY <1>1
  <2>4. \A i, k : Ticket(i, k) <=> i \in 1..L /\ k \in Indices(encodingMode) /\ 8 * i + k < Cursor
    BY <1>1 DEF Ticket
  <2>5. ASSUME NEW i, NEW k
        PROVE  Ticket(i, k)' <=> Ticket(i, k) \/ (i = L /\ k = n)
    <3>1. CASE i = L
      <4>1. L \in 1..L
        BY <1>1
      <4>2. QED  BY <2>1, <2>3, <2>4, <3>1, <4>1, Zenon
    <3>2. CASE i # L
      BY <2>1, <2>2, <2>4, <3>2, Zenon
    <3>3. QED  BY <3>1, <3>2
  <2>6. QED  BY <2>5
<1>5. ~Ticket(L, n)
  BY <1>1 DEF Ticket
<1>6. /\ Share(read[L], n) \notin collected
      /\ packet # <<Parcel(encodingMode, read[L], n)>>
      /\ \A j \in 1..R : rx[j] # d
  BY <1>0, <1>1, <1>5, NotYet
<1>7. \A p, i, k : Stands(p, i, k) =>
          /\ p \in 0..(R + 1) /\ Ticket(i, k) /\ i \in 1..L /\ k \in 0..7 /\ 8 * i + k < Cursor
  BY <1>1, StandsIs, TicketIs
<1>8. ASSUME NEW p, NEW i, NEW k, Stands(p, i, k)
      PROVE  Stands(p, i, k)'
  <2>1. Ticket(i, k)'
    BY <1>4, <1>7, <1>8, Zenon
  <2>2. CASE p = 0 \/ p = 1
    BY <1>8, <2>1, <2>2 DEF Stands
  <2>3. CASE p # 0 /\ p # 1
    <3>1. p \in 2..(R + 1) /\ rx[p - 1] = Datagram(encodingMode, read[i], k)
      BY <1>1, <1>8, <2>3 DEF Stands
    <3>2. PICK m : m = p - 1
      OBVIOUS
    <3>3. m \in 1..R
      BY <1>1, <3>1, <3>2
    <3>4. rx'[m] = rx[m]
      BY <1>3, <3>3
    <3>5. Len(rx') = R \/ Len(rx') = R + 1
      BY <1>1, <1>3
    <3>6. p \in 2..(Len(rx') + 1)
      <4>1. p \in 2..(R + 1)
        BY <3>1
      <4>2. QED  BY <1>1, <3>5, <4>1
    <3>7. rx'[p - 1] = Datagram(encodingMode, read[i], k)
      BY <3>1, <3>2, <3>4
    <3>8. QED  BY <2>1, <3>6, <3>7 DEF Stands
  <2>4. QED  BY <2>2, <2>3
<1>9. ASSUME NEW p, NEW i, NEW k, Stands(p, i, k)'
      PROVE  Stands(p, i, k) \/ (Arrives /\ i = L /\ k = n /\ p = R + 2)
  <2>1. Ticket(i, k) \/ (i = L /\ k = n)
    <3>1. Ticket(i, k)'
      BY <1>9, Zenon DEF Stands
    <3>2. QED  BY <1>4, <3>1, Zenon
  <2>2. CASE p = 0 \/ p = 1
    <3>1. \/ p = 0 /\ encodingMode = 1 /\ Share(read[i], k) \in collected
          \/ p = 1 /\ packet = <<Parcel(encodingMode, read[i], k)>>
      <4>1. \/ p = 0 /\ encodingMode' = 1 /\ Share(read'[i], k) \in collected'
            \/ p = 1 /\ packet' = <<Parcel(encodingMode', read'[i], k)>>
            \/ p \in 2..(Len(rx') + 1)
        BY <1>9, Zenon DEF Stands
      <4>2. p \notin 2..(Len(rx') + 1)
        BY <2>2
      <4>3. QED  BY <4>1, <4>2
    <3>2. ~(i = L /\ k = n)
      BY <1>6, <3>1
    <3>3. Ticket(i, k)
      BY <2>1, <3>2
    <3>4. QED  BY <3>1, <3>3 DEF Stands
  <2>3. CASE p # 0 /\ p # 1
    <3>1. p \in 2..(Len(rx') + 1) /\ rx'[p - 1] = Datagram(encodingMode, read[i], k)
      BY <1>9, <2>3 DEF Stands
    <3>2. CASE p \in 2..(R + 1)
      <4>1. p - 1 \in 1..R /\ rx'[p - 1] = rx[p - 1]
        <5>1. PICK m : m = p - 1
          OBVIOUS
        <5>2. m \in 1..R
          BY <1>1, <3>2, <5>1
        <5>3. rx'[m] = rx[m]
          BY <1>3, <5>2
        <5>4. QED  BY <5>1, <5>2, <5>3
      <4>2. ~(i = L /\ k = n)
        BY <1>0, <1>6, <3>1, <4>1
      <4>3. QED  BY <1>1, <2>1, <3>1, <3>2, <4>1, <4>2 DEF Stands
    <3>3. CASE p = R + 2 /\ Arrives
      <4>1. p - 1 = R + 1
        BY <1>1, <3>3
      <4>2. rx'[R + 1] = d
        BY <1>1, <1>3, <3>3
      <4>3. Datagram(encodingMode, read[L], n) = Datagram(encodingMode, read[i], k)
        BY <1>0, <3>1, <4>1, <4>2
      <4>4. CASE Ticket(i, k)
        <5>1. /\ i \in 1..L /\ read[i] \in Blocks /\ k \in Indices(encodingMode)
          BY <1>1, <4>4, TicketIs
        <5>2. L \in 1..L
          BY <1>1
        <5>3. read[L] = read[i] => L = i
          BY <1>1, <5>1, <5>2, RxShape
        <5>4. L = i /\ n = k
          BY <1>1, <4>3, <5>1, <5>3, DatagramsDiffer
        <5>5. QED  BY <3>3, <5>4
      <4>5. QED  BY <2>1, <3>3, <4>4
    <3>4. QED  BY <1>1, <1>3, <3>1, <3>2, <3>3
  <2>4. QED  BY <2>2, <2>3
<1>10. Arrives => Stands(R + 2, L, n)'
  <2>1. SUFFICES ASSUME Arrives PROVE Stands(R + 2, L, n)'
    OBVIOUS
  <2>2. Ticket(L, n)'
    BY <1>4
  <2>3. rx'[R + 1] = d
    BY <1>1, <1>3, <2>1
  <2>4. R + 2 \in 2..(Len(rx') + 1) /\ (R + 2) - 1 = R + 1
    BY <1>1, <2>1
  <2>5. rx'[(R + 2) - 1] = Datagram(encodingMode', read'[L], n)
    BY <1>0, <2>3, <2>4
  <2>6. QED  BY <2>2, <2>4, <2>5, Zenon DEF Stands
<1>11. \A x, i : Added(x, i)' <=> Added(x, i)
  BY DEF Added
<1>12. \A i, k : Ticket(i, k) => i \in 1..L /\ k \in 0..7 /\ 8 * i + k < Cursor
  BY <1>1, TicketIs
<1> HIDE DEF Arrives
<1>13. UnderWay'
  <2>1. ASSUME NEW j \in 1..Len(rx')
        PROVE  rx'[j] \in Strays \/ \E i, k : Stands(j + 1, i, k)'
    <3>1. CASE j \in 1..R
      BY <1>1, <1>3, <1>8, <3>1 DEF Inv, UnderWay
    <3>2. CASE j = R + 1 /\ Arrives
      <4>1. j + 1 = R + 2
        BY <1>1, <3>2
      <4>2. QED  BY <1>10, <3>2, <4>1, Zenon
    <3>3. QED  BY <1>1, <1>3, <3>1, <3>2 DEF Arrives
  <2>2. packet' = <<>> \/ \E i, k : Stands(1, i, k)'
    BY <1>8 DEF Inv, UnderWay
  <2>3. \A s \in collected' : \E i, k : Stands(0, i, k)' /\ s = Share(read'[i], k)
    BY <1>8 DEF Inv, UnderWay
  <2>4. QED  BY <2>1, <2>2, <2>3 DEF UnderWay
<1>14. InOrder'
  <2>1. ASSUME NEW p, NEW q, NEW i, NEW j, NEW k, NEW l, Stands(p, i, k)', Stands(q, j, l)', p < q
        PROVE  8 * i + k < 8 * j + l
    <3>1. CASE Stands(p, i, k) /\ Stands(q, j, l)
      BY <2>1, <3>1 DEF Inv, InOrder
    <3>2. CASE Stands(p, i, k) /\ j = L /\ l = n
      BY <1>1, <1>7, <3>2
    <3>3. CASE p = R + 2
      <4>1. Stands(q, j, l) \/ q = R + 2
        BY <1>9, <2>1, Zenon
      <4>2. q \in 0..(R + 2)
        BY <1>1, <1>7, <4>1
      <4>3. QED  BY <1>1, <2>1, <3>3, <4>2
    <3>4. QED  BY <1>9, <2>1, <3>1, <3>2, <3>3
  <2>2. QED  BY <2>1 DEF InOrder
<1>15. AddedFirst'
  <2>1. \A x \in 1..Len(added') : \E i : Added(x, i)'
    BY <1>11 DEF Inv, AddedFirst
  <2>2. \A x, i : Added(x, i)' => 8 * i + 7 < Cursor /\ i \in 1..L
    BY <1>1, <1>11 DEF Inv, AddedFirst, Added
  <2>3. \A x, i : Added(x, i)' => 8 * i + 7 < Cursor'
    BY <1>1, <2>2
  <2>4. \A x, y, i, j : Added(x, i)' /\ Added(y, j)' /\ x < y => i < j
    BY <1>11 DEF Inv, AddedFirst
  <2>5. ASSUME NEW x, NEW i, NEW p, NEW j, NEW l, Added(x, i)', Stands(p, j, l)', p # 0
        PROVE  i < j
    <3>1. CASE Stands(p, j, l)
      BY <1>11, <2>5, <3>1 DEF Inv, AddedFirst
    <3>2. CASE j = L
      BY <1>1, <2>2, <2>5, <3>2
    <3>3. QED  BY <1>9, <2>5, <3>1, <3>2
  <2>6. QED  BY <2>1, <2>3, <2>4, <2>5 DEF AddedFirst
<1>16. NoneComplete'
  BY DEF Inv, NoneComplete
<1>17. NothingMissing'
  <2>1. SUFFICES ASSUME lost' = 0
                 PROVE  /\ \A i, k : Ticket(i, k)' => \/ \E x : Added(x, i)'
                                                     \/ \E p : Stands(p, i, k)'
                        /\ Len(added) <= Len(read) /\ \A x \in 1..Len(added) : added[x] = read[x]
    BY DEF NothingMissing
  <2>2. lost = 0 /\ Arrives
    BY <1>1, <1>3, <2>1 DEF Arrives
  <2>3. \A i, k : Ticket(i, k)' => \/ \E x : Added(x, i)'
                                  \/ \E p : Stands(p, i, k)'
    <3>1. SUFFICES ASSUME NEW i, NEW k, Ticket(i, k)'
                   PROVE  (\E x : Added(x, i)') \/ (\E p : Stands(p, i, k)')
      OBVIOUS
    <3>2. CASE Ticket(i, k)
      <4>1. (\E x : Added(x, i)) \/ (\E p : Stands(p, i, k))
        BY <2>2, <3>2, Zenon DEF Inv, NothingMissing
      <4>2. QED  BY <1>8, <1>11, <4>1, Zenon
    <3>3. CASE i = L /\ k = n
      BY <1>10, <2>2, <3>3, Zenon
    <3>4. QED  BY <1>4, <3>1, <3>2, <3>3, Zenon
  <2>4. Len(added) <= Len(read) /\ \A x \in 1..Len(added) : added[x] = read[x]
    BY <2>2 DEF Inv, NothingMissing
  <2>5. QED  BY <2>3, <2>4, Zenon
<1>18. QED  BY <1>13, <1>14, <1>15, <1>16, <1>17 DEF Inv

LEMMA HoldingIs ==
    ASSUME Inv, given # <<>>
    PROVE  Holding /\ Len(read) \in Nat \ {0} /\ read[Len(read)] \in Blocks
<1>1. Holding /\ read \in Seq(Blocks)
  BY DEF Inv, Types
<1>2. Len(read) \in Nat \ {0}
  BY <1>1, EmptySeq DEF Holding
<1>3. QED  BY <1>1, <1>2, ElementOfSeq

LEMMA SendRawInv == ASSUME Inv, DistinctIds, SendRaw PROVE Inv'
<1>1. /\ encodingMode = 0 /\ given # <<>> /\ given' = <<>>
      /\ encodingMode' = encodingMode /\ payloads' = payloads /\ read' = read
      /\ message' = message /\ packet' = packet /\ collected' = collected /\ added' = added
  BY DEF SendRaw, serverVars
<1>2. PICK L, b : L = Len(read) /\ b = read[L]
  OBVIOUS
<1>3. Holding /\ L \in Nat \ {0} /\ b \in Blocks /\ read # <<>>
  BY <1>1, <1>2, HoldingIs DEF Holding
<1>4. given[1] = b /\ payloads = <<>>
  BY <1>1, <1>2, <1>3 DEF Holding
<1>5. ComposeRaw(b) = <<Datagram(0, b, 0)>>
  BY <1>3, RawIsComposed
<1>6. Send(Datagram(0, b, 0))
  <2>1. PICK c : c = <<Datagram(0, b, 0)>>
    OBVIOUS
  <2>2. IF c # <<>> THEN Send(c[1]) ELSE lost' = lost + 1 /\ UNCHANGED rx
    BY <1>4, <1>5, <2>1, Zenon DEF SendRaw
  <2>3. c # <<>> /\ c[1] = Datagram(0, b, 0)
    BY <2>1
  <2>4. QED  BY <2>2, <2>3, Zenon
<1>7. \/ rx' = Append(rx, Datagram(encodingMode, read[Len(read)], 0)) /\ lost' = lost
      \/ rx' = rx /\ lost' = lost + 1
  BY <1>1, <1>2, <1>6, Zenon DEF Send
<1>8. Cursor = 8 * L + 0 /\ Cursor' = 8 * L + 8
  BY <1>1, <1>2, <1>4 DEF Cursor
<1>9. Types'
  <2>1. Datagram(encodingMode, read[Len(read)], 0) \in Seq(Byte)
    BY <1>1, <1>2, <1>3, DatagramIs DEF Indices
  <2>2. rx \in Seq(Seq(Byte)) /\ lost \in Nat
    BY DEF Inv, Types
  <2>3. rx' \in Seq(Seq(Byte)) /\ lost' \in Nat
    <3>1. Append(rx, Datagram(encodingMode, read[Len(read)], 0)) \in Seq(Seq(Byte))
      BY <2>1, <2>2, AppendProperties
    <3>2. rx' \in Seq(Seq(Byte)) /\ (lost' = lost \/ lost' = lost + 1)
      BY <1>7, <2>2, <3>1, Zenon
    <3>3. QED  BY <2>2, <3>2
  <2>4. QED  BY <1>1, <1>4, <2>3 DEF Inv, Types
<1>10. 0 \in Indices(encodingMode) /\ \A k \in Indices(encodingMode) : k = 0
  BY <1>1 DEF Indices
<1>11. Cursor < Cursor' /\ Cursor' \in Nat
  BY <1>3, <1>8
<1>12. \A k \in Indices(encodingMode) :
          8 * Len(read) + k < Cursor' <=> k = 0 \/ 8 * Len(read) + k < Cursor
  BY <1>2, <1>3, <1>8, <1>10
<1>13. Cursor = 8 * Len(read) + 0
  BY <1>2, <1>8
<1>14. QED  BY <1>1, <1>3, <1>7, <1>9, <1>10, <1>11, <1>12, <1>13, HandedOver

LEMMA SendRsInv == ASSUME Inv, DistinctIds, SendRs PROVE Inv'
<1>1. /\ payloads # <<>> /\ payloads' = Tail(payloads)
      /\ given' = IF Len(payloads) = 1 THEN <<>> ELSE given
      /\ encodingMode' = encodingMode /\ read' = read
      /\ message' = message /\ packet' = packet /\ collected' = collected /\ added' = added
  BY DEF SendRs, serverVars
<1>2. PICK L, b, P, n : L = Len(read) /\ b = read[L] /\ P = Len(payloads) /\ n = 8 - P
  OBVIOUS
<1>3. Holding /\ given # <<>> /\ encodingMode = 1
  BY <1>1 DEF Inv, Types, Holding
<1>4. L \in Nat \ {0} /\ b \in Blocks /\ read # <<>>
  BY <1>2, <1>3, HoldingIs DEF Holding
<1>5. given = <<b>> /\ payloads \in Seq(Seq(Byte)) /\ P \in 1..8
  <2>1. given = <<read[Len(read)]>>
    BY <1>3 DEF Holding
  <2>2. payloads \in Seq(Seq(Byte)) /\ Len(payloads) \in 1..8
    BY <1>3 DEF Holding
  <2>3. QED  BY <1>2, <2>1, <2>2, Zenon
<1>6. PICK o \in Oversize : \A q \in 1..P : payloads[q] = Encoded(b.data, FieldSize + o)[8 - P + q]
  <2>1. \E o \in Oversize : \A q \in 1..Len(payloads) :
           payloads[q] = Encoded(read[Len(read)].data, FieldSize + o)[8 - Len(payloads) + q]
    BY <1>3 DEF Holding
  <2>2. QED  BY <1>2, <2>1
<1>7. n \in 0..7 /\ P = 8 - n /\ Head(payloads) = Encoded(b.data, FieldSize + o)[n + 1]
  <2>1. n = 8 - P /\ P \in 1..8
    BY <1>2, <1>5
  <2>2. n \in 0..7 /\ P = 8 - n /\ 1 \in 1..P /\ (8 - P) + 1 = n + 1
    BY <2>1
  <2>3. Head(payloads) = payloads[1]
    BY <1>1, <1>5, HeadTailProperties
  <2>4. payloads[1] = Encoded(b.data, FieldSize + o)[8 - P + 1]
    BY <1>6, <2>2
  <2>5. QED  BY <2>2, <2>3, <2>4
<1>8. ComposeRs(given[1], Cells - Len(payloads), Head(payloads)) =
          IF o = 0 THEN <<Datagram(1, b, n)>> ELSE <<>>
  <2>1. given[1] = b /\ Cells - Len(payloads) = n
    BY <1>2, <1>5 DEF Cells
  <2>2. ComposeRs(b, n, Encoded(b.data, FieldSize + o)[n + 1]) =
            IF o = 0 THEN <<Datagram(1, b, n)>> ELSE <<>>
    BY <1>4, <1>7, RsIsComposed
  <2>3. QED  BY <1>7, <2>1, <2>2, Zenon
<1>9. \/ rx' = Append(rx, Datagram(encodingMode, read[Len(read)], n)) /\ lost' = lost
      \/ rx' = rx /\ lost' = lost + 1
  <2>1. PICK c : c = ComposeRs(given[1], Cells - Len(payloads), Head(payloads))
    OBVIOUS
  <2>2. IF c # <<>> THEN Send(c[1]) ELSE lost' = lost + 1 /\ UNCHANGED rx
    BY <2>1, Zenon DEF SendRs
  <2>3. c # <<>> => c[1] = Datagram(1, b, n)
    BY <1>8, <2>1
  <2>4. Send(Datagram(1, b, n)) \/ (rx' = rx /\ lost' = lost + 1)
    BY <2>2, <2>3
  <2>5. QED  BY <1>2, <1>3, <2>4 DEF Send
<1>10. /\ payloads' \in Seq(Seq(Byte)) /\ Len(payloads') = P - 1
       /\ \A q \in 1..(P - 1) : payloads'[q] = payloads[q + 1]
  BY <1>1, <1>2, <1>5, HeadTailProperties
<1>11. P = 1 => given' = <<>> /\ payloads' = <<>>
  <2>1. SUFFICES ASSUME P = 1 PROVE given' = <<>> /\ payloads' = <<>>
    OBVIOUS
  <2>2. payloads' # <<>> => Len(payloads') \in Nat \ {0}
    BY <1>10, EmptySeq
  <2>3. QED  BY <1>1, <1>2, <1>10, <2>1, <2>2
<1>12. P # 1 => given' = given /\ payloads' # <<>>
  <2>1. Len(<<>>) = 0
    OBVIOUS
  <2>2. payloads' = <<>> => Len(payloads') = Len(<<>>)
    BY Zenon
  <2>3. P # 1 => Len(payloads') # 0
    BY <1>5, <1>10
  <2>4. QED  BY <1>1, <1>2, <2>1, <2>2, <2>3
<1>13. Cursor = 8 * L + n /\ Cursor' = 8 * L + n + 1
  <2>1. Cursor = 8 * L + (8 - P)
    BY <1>1, <1>2, <1>3 DEF Cursor
  <2>2. CASE P = 1
    <3>1. Cursor' = 8 * L + 8
      BY <1>1, <1>2, <1>11, <2>2 DEF Cursor
    <3>2. QED  BY <1>2, <1>4, <2>1, <2>2, <3>1
  <2>3. CASE P # 1
    <3>1. Cursor' = 8 * L + (8 - (P - 1))
      BY <1>1, <1>2, <1>3, <1>10, <1>12, <2>3 DEF Cursor
    <3>2. QED  BY <1>2, <1>4, <1>5, <2>1, <3>1
  <2>4. QED  BY <2>2, <2>3
<1>14. Types'
  <2>1. n \in Indices(encodingMode)
    BY <1>3, <1>7 DEF Indices
  <2>2. Datagram(encodingMode, read[Len(read)], n) \in Seq(Byte)
    BY <1>2, <1>3, <1>4, <2>1, DatagramIs
  <2>3. rx \in Seq(Seq(Byte)) /\ lost \in Nat
    BY DEF Inv, Types
  <2>4. rx' \in Seq(Seq(Byte)) /\ lost' \in Nat
    <3>1. Append(rx, Datagram(encodingMode, read[Len(read)], n)) \in Seq(Seq(Byte))
      BY <2>2, <2>3, AppendProperties
    <3>2. rx' \in Seq(Seq(Byte)) /\ (lost' = lost \/ lost' = lost + 1)
      BY <1>9, <2>3, <3>1, Zenon
    <3>3. QED  BY <2>3, <3>2
  <2>5. P # 1 => Holding'
    <3>1. SUFFICES ASSUME P # 1 PROVE Holding'
      OBVIOUS
    <3>2. \A q \in 1..(P - 1) : payloads'[q] = Encoded(b.data, FieldSize + o)[8 - (P - 1) + q]
      <4>1. \A q \in 1..(P - 1) : q + 1 \in 1..P /\ 8 - P + (q + 1) = 8 - (P - 1) + q
        BY <1>5
      <4>2. QED  BY <1>6, <1>10, <4>1
    <3>3. given' # <<>> /\ read' # <<>> /\ given' = <<read'[Len(read')]>>
      BY <1>1, <1>2, <1>3, <1>4, <1>5, <1>12, <3>1
    <3>4. Len(payloads') \in 1..8
      BY <1>5, <1>10, <3>1
    <3>5. \A q \in 1..Len(payloads') :
            payloads'[q] = Encoded(read'[Len(read')].data, FieldSize + o)[8 - Len(payloads') + q]
      BY <1>1, <1>2, <1>10, <3>2
    <3>6. encodingMode' # 0
      BY <1>1, <1>3
    <3>7. QED  BY <1>10, <3>3, <3>4, <3>5, <3>6 DEF Holding
  <2>6. QED  BY <1>1, <1>11, <2>4, <2>5 DEF Inv, Types
<1>15. n \in Indices(encodingMode) /\ \A k \in Indices(encodingMode) : k \in 0..7
  BY <1>3, <1>7 DEF Indices
<1>16. Cursor < Cursor' /\ Cursor' \in Nat
  BY <1>4, <1>7, <1>13
<1>17. \A k \in Indices(encodingMode) :
          8 * Len(read) + k < Cursor' <=> k = n \/ 8 * Len(read) + k < Cursor
  BY <1>2, <1>4, <1>7, <1>13, <1>15
<1>18. Cursor = 8 * Len(read) + n
  BY <1>2, <1>13
<1>19. QED  BY <1>1, <1>4, <1>9, <1>14, <1>15, <1>16, <1>17, <1>18, HandedOver

LEMMA StrayInv == ASSUME Inv, DistinctIds, Stray PROVE Inv'
<1>1. /\ encodingMode' = encodingMode /\ given' = given /\ payloads' = payloads /\ read' = read
      /\ message' = message /\ packet' = packet /\ collected' = collected /\ added' = added
      /\ lost' = lost
  BY DEF Stray, clientVars, serverVars
<1>2. PICK d \in Strays : rx' = Append(rx, d)
  BY DEF Stray
<1>3. PICK R : R = Len(rx)
  OBVIOUS
<1>4. d \in Seq(Byte) /\ rx \in Seq(Seq(Byte)) /\ R \in Nat /\ encodingMode \in {0, 1}
  BY <1>2, <1>3, RxShape, StrayIsNothing, ABuffer
<1>5. /\ rx' \in Seq(Seq(Byte)) /\ Len(rx') = R + 1 /\ rx'[R + 1] = d
      /\ \A j \in 1..R : rx'[j] = rx[j]
  BY <1>2, <1>3, <1>4, AppendProperties
<1>6. Cursor' = Cursor
  BY <1>1 DEF Cursor
<1>7. \A i, k : Ticket(i, k)' <=> Ticket(i, k)
  BY <1>1, <1>6 DEF Ticket
<1>8. ASSUME NEW p, NEW i, NEW k, Stands(p, i, k)
      PROVE  Stands(p, i, k)'
  <2>1. Ticket(i, k)'
    BY <1>7, <1>8, StandsIs, Zenon
  <2>2. CASE p = 0 \/ p = 1
    BY <1>1, <1>8, <2>1, <2>2 DEF Stands
  <2>3. CASE p # 0 /\ p # 1
    <3>1. p \in 2..(R + 1) /\ rx[p - 1] = Datagram(encodingMode, read[i], k)
      BY <1>3, <1>8, <2>3 DEF Stands
    <3>2. PICK m : m = p - 1
      OBVIOUS
    <3>3. m \in 1..R
      BY <1>4, <3>1, <3>2
    <3>4. rx'[m] = rx[m]
      BY <1>5, <3>3
    <3>5. p \in 2..(Len(rx') + 1)
      BY <1>4, <1>5, <3>1
    <3>6. QED  BY <1>1, <2>1, <3>1, <3>2, <3>4, <3>5 DEF Stands
  <2>4. QED  BY <2>2, <2>3
<1>9. ASSUME NEW p, NEW i, NEW k, Stands(p, i, k)'
      PROVE  Stands(p, i, k)
  <2>1. Ticket(i, k)
    BY <1>7, <1>9 DEF Stands
  <2>2. CASE p = 0 \/ p = 1
    BY <1>1, <1>9, <2>1, <2>2 DEF Stands
  <2>3. CASE p # 0 /\ p # 1
    <3>1. p \in 2..(Len(rx') + 1) /\ rx'[p - 1] = Datagram(encodingMode, read[i], k)
      BY <1>1, <1>9, <2>3 DEF Stands
    <3>2. PICK m : m = p - 1
      OBVIOUS
    <3>3. m \in 1..(R + 1)
      BY <1>4, <1>5, <3>1, <3>2
    <3>4. rx'[m] \notin Strays
      BY <1>4, <2>1, <3>1, <3>2, TicketIs, NoStrayIsADatagram
    <3>5. m \in 1..R
      BY <1>2, <1>4, <1>5, <3>3, <3>4
    <3>6. rx'[m] = rx[m]
      BY <1>5, <3>5
    <3>7. p \in 2..(Len(rx) + 1)
      BY <1>3, <1>4, <3>1, <3>2, <3>5
    <3>8. QED  BY <1>1, <2>1, <3>1, <3>2, <3>6, <3>7 DEF Stands
  <2>4. QED  BY <2>2, <2>3
<1>10. \A x, i : Added(x, i)' <=> Added(x, i)
  BY <1>1 DEF Added
<1>11. Types'
  <2>1. Holding => Holding'
    BY <1>1 DEF Holding
  <2>2. QED  BY <1>1, <1>5, <2>1 DEF Inv, Types
<1>12. UnderWay'
  <2>1. ASSUME NEW j \in 1..Len(rx')
        PROVE  rx'[j] \in Strays \/ \E i, k : Stands(j + 1, i, k)'
    <3>1. CASE j \in 1..R
      <4>1. rx[j] \in Strays \/ \E i, k : Stands(j + 1, i, k)
        BY <1>3, <3>1 DEF Inv, UnderWay
      <4>2. rx'[j] = rx[j]
        BY <1>5, <3>1
      <4>3. QED  BY <1>8, <4>1, <4>2, Zenon
    <3>2. CASE j = R + 1
      BY <1>2, <1>5, <3>2
    <3>3. QED  BY <1>4, <1>5, <3>1, <3>2
  <2>2. packet' = <<>> \/ \E i, k : Stands(1, i, k)'
    BY <1>1, <1>8 DEF Inv, UnderWay
  <2>3. \A s \in collected' : \E i, k : Stands(0, i, k)' /\ s = Share(read'[i], k)
    BY <1>1, <1>8 DEF Inv, UnderWay
  <2>4. QED  BY <2>1, <2>2, <2>3 DEF UnderWay
<1>13. InOrder'
  BY <1>9 DEF Inv, InOrder
<1>14. AddedFirst'
  BY <1>1, <1>6, <1>9, <1>10 DEF Inv, AddedFirst
<1>15. NoneComplete'
  BY <1>1 DEF Inv, NoneComplete
<1>16. NothingMissing'
  <2>1. SUFFICES ASSUME lost' = 0
                 PROVE  /\ \A i, k : Ticket(i, k)' => (\E x : Added(x, i)') \/ (\E p : Stands(p, i, k)')
                        /\ Len(added) <= Len(read) /\ \A x \in 1..Len(added) : added[x] = read[x]
    BY <1>1 DEF NothingMissing
  <2>2. /\ \A i, k : Ticket(i, k) => (\E x : Added(x, i)) \/ (\E p : Stands(p, i, k))
        /\ Len(added) <= Len(read) /\ \A x \in 1..Len(added) : added[x] = read[x]
    BY <1>1, <2>1, Zenon DEF Inv, NothingMissing
  <2>3. QED  BY <1>7, <1>8, <1>10, <2>2, Zenon
<1>17. QED  BY <1>11, <1>12, <1>13, <1>14, <1>15, <1>16 DEF Inv

\* The head of rx becomes the packet, or nothing does: all that stands moves up.
LEMMA ReceiveInv == ASSUME Inv, DistinctIds, ReceiveNonBlocking PROVE Inv'
<1>1. /\ encodingMode' = encodingMode /\ given' = given /\ payloads' = payloads /\ read' = read
      /\ collected' = collected /\ added' = added /\ lost' = lost
      /\ packet = <<>> /\ rx # <<>> /\ rx' = Tail(rx)
  BY DEF ReceiveNonBlocking, clientVars
<1>2. PICK d, R : d = Head(rx) /\ R = Len(rx)
  OBVIOUS
<1>3. /\ message' = Buffered(d, message) /\ packet' = Decompose(Buffered(d, message), Received(d))
  BY <1>2, Zenon DEF ReceiveNonBlocking
<1>4. /\ rx \in Seq(Seq(Byte)) /\ encodingMode \in {0, 1} /\ message \in Buffers
      /\ \A i, j \in 1..Len(read) : read[i] = read[j] => i = j
  BY RxShape
<1>5. /\ d = rx[1] /\ d \in Seq(Byte) /\ R \in Nat \ {0}
      /\ rx' \in Seq(Seq(Byte)) /\ Len(rx') = R - 1
      /\ \A j \in 1..(R - 1) : rx'[j] = rx[j + 1]
  <2>1. R \in Nat \ {0}
    BY <1>1, <1>2, <1>4, EmptySeq
  <2>2. QED  BY <1>1, <1>2, <1>4, <2>1, HeadTailProperties
<1>6. Cursor' = Cursor
  BY <1>1 DEF Cursor
<1>7. \A i, k : Ticket(i, k)' <=> Ticket(i, k)
  BY <1>1, <1>6 DEF Ticket
<1>8. \/ d \in Strays /\ packet' = <<>>
      \/ \E i, k : Stands(2, i, k) /\ packet' = <<Parcel(encodingMode, read[i], k)>>
  <2>1. CASE d \in Strays
    BY <1>3, <1>4, <2>1, StrayIsNothing
  <2>2. CASE d \notin Strays
    <3>1. 1 \in 1..Len(rx) /\ 1 + 1 = 2
      BY <1>2, <1>5
    <3>2. \E i, k : Stands(1 + 1, i, k)
      BY <1>5, <2>2, <3>1 DEF Inv, UnderWay
    <3>3. PICK i, k : Stands(2, i, k)
      BY <3>1, <3>2
    <3>4. d = Datagram(encodingMode, read[i], k)
      BY <1>5, <3>3 DEF Stands
    <3>5. read[i] \in Blocks /\ k \in Indices(encodingMode)
      BY <3>3, StandsIs, TicketIs
    <3>6. packet' = <<Parcel(encodingMode, read[i], k)>>
      BY <1>3, <1>4, <3>4, <3>5, DatagramArrives
    <3>7. QED  BY <3>3, <3>6
  <2>3. QED  BY <2>1, <2>2
<1>9. ASSUME NEW p, NEW i, NEW k, Stands(p, i, k)'
      PROVE  (p = 0 /\ Stands(0, i, k)) \/ (p \in Nat \ {0} /\ Stands(p + 1, i, k))
  <2>1. Ticket(i, k)
    BY <1>7, <1>9 DEF Stands
  <2>2. CASE p = 0
    BY <1>1, <1>9, <2>1, <2>2 DEF Stands
  <2>3. CASE p = 1
    <3>1. packet' = <<Parcel(encodingMode, read[i], k)>>
      BY <1>1, <1>9, <2>3 DEF Stands
    <3>2. PICK j, l : Stands(2, j, l) /\ packet' = <<Parcel(encodingMode, read[j], l)>>
      BY <1>8, <3>1
    <3>3. Parcel(encodingMode, read[i], k) = Parcel(encodingMode, read[j], l)
      BY <3>1, <3>2
    <3>4. read[i] = read[j] /\ k = l /\ i \in 1..Len(read) /\ j \in 1..Len(read)
      <4>1. read[i] \in Blocks /\ i \in 1..Len(read)
        BY <2>1, TicketIs
      <4>2. Ticket(j, l)
        BY <3>2, StandsIs
      <4>3. read[j] \in Blocks /\ j \in 1..Len(read)
        BY <4>2, TicketIs
      <4>4. read[i] = read[j] /\ k = l
        BY <1>4, <3>3, <4>1, <4>3, ParcelsDiffer
      <4>5. QED  BY <4>1, <4>3, <4>4
    <3>5. i = j /\ k = l
      BY <1>4, <3>4
    <3>6. QED  BY <2>3, <3>2, <3>5
  <2>4. CASE p # 0 /\ p # 1
    <3>1. p \in 2..(Len(rx') + 1) /\ rx'[p - 1] = Datagram(encodingMode, read[i], k)
      BY <1>1, <1>9, <2>4 DEF Stands
    <3>2. PICK m : m = p - 1
      OBVIOUS
    <3>3. m \in 1..(R - 1) /\ m + 1 = p /\ p \in Nat \ {0}
      BY <1>5, <3>1, <3>2
    <3>4. rx[p] = Datagram(encodingMode, read[i], k)
      BY <1>5, <3>1, <3>2, <3>3
    <3>5. (p + 1) - 1 = p /\ p + 1 \in 2..(Len(rx) + 1)
      BY <1>2, <1>5, <3>1
    <3>6. Stands(p + 1, i, k)
      BY <2>1, <3>4, <3>5 DEF Stands
    <3>7. QED  BY <3>3, <3>6
  <2>5. QED  BY <2>2, <2>3, <2>4
<1>10. ASSUME NEW p, NEW i, NEW k, Stands(p, i, k)
       PROVE  (p = 0 /\ Stands(0, i, k)') \/ (p \in Nat /\ p # 0 /\ p # 1 /\ Stands(p - 1, i, k)')
  <2>1. Ticket(i, k)' /\ Ticket(i, k)
    BY <1>7, <1>10, StandsIs, Zenon
  <2>2. CASE p = 0
    BY <1>1, <1>10, <2>1, <2>2 DEF Stands
  <2>3. p # 1
    BY <1>1, <1>10 DEF Stands
  <2>4. CASE p # 0 /\ p # 1
    <3>1. p \in 2..(R + 1) /\ rx[p - 1] = Datagram(encodingMode, read[i], k)
      BY <1>2, <1>10, <2>4 DEF Stands
    <3>2. CASE p = 2
      <4>1. d = Datagram(encodingMode, read[i], k)
        BY <1>5, <3>1, <3>2
      <4>2. packet' = <<Parcel(encodingMode, read[i], k)>>
        BY <1>3, <1>4, <2>1, <4>1, TicketIs, DatagramArrives
      <4>3. Stands(1, i, k)'
        BY <1>1, <2>1, <4>2 DEF Stands
      <4>4. p - 1 = 1
        BY <3>2
      <4>5. QED  BY <3>2, <4>3, <4>4
    <3>3. CASE p # 2
      <4>1. PICK m, q : m = p - 2 /\ q = p - 1
        OBVIOUS
      <4>2. m \in 1..(R - 1) /\ m + 1 = q /\ q - 1 = m /\ q \in 2..R /\ p \in Nat
        BY <1>5, <3>1, <3>3, <4>1
      <4>3. rx'[m] = Datagram(encodingMode, read[i], k)
        BY <1>5, <3>1, <4>1, <4>2
      <4>4. q \in 2..(Len(rx') + 1)
        BY <1>5, <4>2
      <4>5. Stands(q, i, k)'
        BY <1>1, <2>1, <4>2, <4>3, <4>4 DEF Stands
      <4>6. QED  BY <2>4, <4>1, <4>2, <4>5
    <3>4. QED  BY <3>2, <3>3
  <2>5. QED  BY <2>2, <2>3, <2>4
<1>11. \A x, i : Added(x, i)' <=> Added(x, i)
  BY <1>1 DEF Added
<1>12. Types'
  <2>1. Holding => Holding'
    BY <1>1 DEF Holding
  <2>2. message' \in Buffers
    BY <1>3, <1>4, <1>5, BufferedIs
  <2>3. QED  BY <1>1, <1>5, <2>1, <2>2 DEF Inv, Types
<1>13. UnderWay'
  <2>1. ASSUME NEW j \in 1..Len(rx')
        PROVE  rx'[j] \in Strays \/ \E i, k : Stands(j + 1, i, k)'
    <3>1. PICK m : m = j + 1
      OBVIOUS
    <3>2. m \in 1..R /\ rx'[j] = rx[m] /\ (m + 1) - 1 = m /\ m + 1 # 0
      <4>1. j \in 1..(R - 1)
        BY <1>5
      <4>2. rx'[j] = rx[j + 1]
        BY <1>5, <4>1
      <4>3. m \in 1..R /\ (m + 1) - 1 = m /\ m + 1 # 0
        BY <1>5, <3>1, <4>1
      <4>4. QED  BY <3>1, <4>2, <4>3
    <3>3. rx[m] \in Strays \/ \E i, k : Stands(m + 1, i, k)
      BY <1>2, <3>2 DEF Inv, UnderWay
    <3>4. ASSUME NEW i, NEW k, Stands(m + 1, i, k)
          PROVE  Stands(m, i, k)'
      <4>1. PICK p : p = m + 1
        OBVIOUS
      <4>2. p # 0 /\ p - 1 = m
        BY <3>2, <4>1
      <4>3. Stands(p, i, k)
        BY <3>4, <4>1
      <4>4. Stands(p - 1, i, k)'
        BY <1>10, <4>2, <4>3
      <4>5. QED  BY <4>2, <4>4
    <3>5. QED  BY <3>1, <3>2, <3>3, <3>4
  <2>2. packet' = <<>> \/ \E i, k : Stands(1, i, k)'
    <3>1. ASSUME NEW i, NEW k, Stands(2, i, k)
          PROVE  Stands(1, i, k)'
      <4>1. 2 # 0 /\ 2 - 1 = 1
        OBVIOUS
      <4>2. Stands(2 - 1, i, k)'
        BY <1>10, <3>1, <4>1
      <4>3. QED  BY <4>1, <4>2
    <3>2. QED  BY <1>8, <3>1
  <2>3. \A s \in collected' : \E i, k : Stands(0, i, k)' /\ s = Share(read'[i], k)
    <3>1. \A i, k : Stands(0, i, k) => Stands(0, i, k)'
      BY <1>10
    <3>2. QED  BY <1>1, <3>1 DEF Inv, UnderWay
  <2>4. QED  BY <2>1, <2>2, <2>3 DEF UnderWay
<1>14. InOrder'
  <2>1. ASSUME NEW p, NEW q, NEW i, NEW j, NEW k, NEW l, Stands(p, i, k)', Stands(q, j, l)', p < q
        PROVE  8 * i + k < 8 * j + l
    <3>1. PICK a : Stands(a, i, k) /\ ((p = 0 /\ a = 0) \/ (p \in Nat \ {0} /\ a = p + 1))
      BY <1>9, <2>1, Zenon
    <3>2. PICK c : Stands(c, j, l) /\ ((q = 0 /\ c = 0) \/ (q \in Nat \ {0} /\ c = q + 1))
      BY <1>9, <2>1, Zenon
    <3>3. a < c
      BY <2>1, <3>1, <3>2
    <3>4. QED  BY <3>1, <3>2, <3>3 DEF Inv, InOrder
  <2>2. QED  BY <2>1 DEF InOrder
<1>15. AddedFirst'
  <2>1. ASSUME NEW x, NEW i, NEW p, NEW j, NEW l, Added(x, i)', Stands(p, j, l)', p # 0
        PROVE  i < j
    <3>1. p + 1 # 0 /\ Stands(p + 1, j, l)
      BY <1>9, <2>1
    <3>2. QED  BY <1>11, <2>1, <3>1 DEF Inv, AddedFirst
  <2>2. QED  BY <1>1, <1>6, <1>11, <2>1 DEF Inv, AddedFirst
<1>16. NoneComplete'
  BY <1>1 DEF Inv, NoneComplete
<1>17. NothingMissing'
  <2>1. SUFFICES ASSUME lost' = 0
                 PROVE  /\ \A i, k : Ticket(i, k)' => (\E x : Added(x, i)') \/ (\E p : Stands(p, i, k)')
                        /\ Len(added) <= Len(read) /\ \A x \in 1..Len(added) : added[x] = read[x]
    BY <1>1 DEF NothingMissing
  <2>2. /\ \A i, k : Ticket(i, k) => (\E x : Added(x, i)) \/ (\E p : Stands(p, i, k))
        /\ Len(added) <= Len(read) /\ \A x \in 1..Len(added) : added[x] = read[x]
    BY <1>1, <2>1, Zenon DEF Inv, NothingMissing
  <2>3. ASSUME NEW p, NEW i, NEW k, Stands(p, i, k)
        PROVE  \E q : Stands(q, i, k)'
    BY <1>10, <2>3, Zenon
  <2>4. QED  BY <1>7, <1>11, <2>2, <2>3, Zenon
<1>18. QED  BY <1>12, <1>13, <1>14, <1>15, <1>16, <1>17 DEF Inv

LEMMA CursorIs ==
    ASSUME Inv
    PROVE  Cursor \in Nat /\ (encodingMode = 0 => Cursor \in {8 * Len(read), 8 * Len(read) + 8})
<1>1. PICK c : c = IF given = <<>> THEN 8 ELSE IF payloads = <<>> THEN 0 ELSE 8 - Len(payloads)
  OBVIOUS
<1>2. Cursor = 8 * Len(read) + c
  BY <1>1, Zenon DEF Cursor
<1>3. Len(read) \in Nat
  BY RxShape
<1>4. CASE given = <<>> \/ payloads = <<>>
  <2>1. c = 8 \/ c = 0
    BY <1>1, <1>4
  <2>2. QED  BY <1>2, <1>3, <2>1
<1>5. CASE given # <<>> /\ payloads # <<>>
  <2>1. Holding
    BY <1>5 DEF Inv, Types
  <2>2. Len(payloads) \in 1..8 /\ encodingMode # 0
    BY <1>5, <2>1 DEF Holding
  <2>3. c = 8 - Len(payloads)
    BY <1>1, <1>5
  <2>4. c \in 0..8
    <3>1. PICK m \in 1..8 : m = Len(payloads)
      BY <2>2
    <3>2. QED  BY <2>3, <3>1
  <2>5. QED  BY <1>2, <1>3, <2>2, <2>4
<1>6. QED  BY <1>4, <1>5

\* The block after those added is missing: nothing lost, a payload of it is still to be
\* processed.
LEMMA StillComing ==
    ASSUME Inv, DistinctIds, lost = 0, NEW z \in 1..Len(read), z = Len(added) + 1,
           \A k \in Indices(encodingMode) : Ticket(z, k)
    PROVE  \E k \in Indices(encodingMode) : \E p : p # 0 /\ Stands(p, z, k)
<1>1. SUFFICES ASSUME \A k \in Indices(encodingMode) : \A p : Stands(p, z, k) => p = 0
               PROVE  FALSE
  OBVIOUS
<1>2. /\ \A i, k : Ticket(i, k) => (\E x : Added(x, i)) \/ (\E p : Stands(p, i, k))
      /\ \A x \in 1..Len(added) : added[x] = read[x]
      /\ Len(added) <= Len(read)
  BY Zenon DEF Inv, NothingMissing
<1>3. Len(added) \in Nat /\ encodingMode \in {0, 1} /\ Len(read) \in Nat
      /\ \A i, j \in 1..Len(read) : read[i] = read[j] => i = j
  BY RxShape
<1>4. \A x : ~Added(x, z)
  <2>1. SUFFICES ASSUME NEW x, Added(x, z)
                 PROVE  FALSE
    OBVIOUS
  <2>2. x \in 1..Len(added) /\ added[x] = read[z]
    BY <2>1 DEF Added
  <2>3. read[x] = read[z] /\ x \in 1..Len(read) /\ x # z
    BY <1>2, <1>3, <2>2
  <2>4. QED  BY <1>3, <2>3
<1>5. \A k \in Indices(encodingMode) : Stands(0, z, k)
  BY <1>1, <1>2, <1>4
<1>6. encodingMode = 1
  BY <1>3, <1>5 DEF Stands, Indices
<1>7. \A k \in 0..7 : Share(read[z], k) \in collected
  BY <1>5, <1>6 DEF Stands, Indices
<1>8. QED  BY <1>7 DEF Inv, NoneComplete

\* While nothing is lost, a block that is completed is the next one.
LEMMA NextIsAdded ==
    ASSUME Inv, DistinctIds, lost = 0, NEW n, NEW top, Stands(1, n, top)
    PROVE  n = Len(added) + 1
<1>1. PICK A, z : A = Len(added) /\ z = A + 1
  OBVIOUS
<1>2. A \in Nat /\ encodingMode \in {0, 1} /\ Len(read) \in Nat
  BY <1>1, RxShape
<1>3. Ticket(n, top)
  BY StandsIs
<1>4. n \in 1..Len(read) /\ top \in 0..7 /\ 8 * n + top < Cursor
  BY <1>3, TicketIs
<1>5. A <= Len(read) /\ \A x \in 1..A : added[x] = read[x]
  BY <1>1 DEF Inv, NothingMissing
<1>6. z <= n
  <2>1. CASE A = 0
    BY <1>1, <1>4, <2>1
  <2>2. CASE A # 0
    <3>1. Added(A, A)
      BY <1>1, <1>2, <1>5, <2>2 DEF Added
    <3>2. 1 # 0
      OBVIOUS
    <3>3. A < n
      BY <3>1, <3>2, Zenon DEF Inv, AddedFirst
    <3>4. QED  BY <1>1, <1>2, <1>4, <3>3
  <2>3. QED  BY <2>1, <2>2
<1>7. ASSUME z < n
      PROVE  FALSE
  <2>1. z \in 1..Len(read) /\ z = Len(added) + 1
    BY <1>1, <1>2, <1>4, <1>7
  <2>2. Cursor \in Nat
    BY CursorIs
  <2>3. \A k \in Indices(encodingMode) : Ticket(z, k)
    BY <1>2, <1>4, <1>7, <2>1, <2>2 DEF Ticket, Indices
  <2>3a. PICK k \in Indices(encodingMode) : \E p : p # 0 /\ Stands(p, z, k)
    BY <2>1, <2>3, StillComing
  <2>4. PICK p : p # 0 /\ Stands(p, z, k)
    BY <2>3a
  <2>5. k \in 0..7 /\ p \in 0..(Len(rx) + 1) /\ Len(rx) \in Nat
    BY <2>4, RxShape, StandsIs, TicketIs
  <2>6. p # 1
    <3>1. p = 1 => z = n
      BY <2>4, OneThere
    <3>2. QED  BY <1>2, <1>4, <1>7, <2>1, <3>1
  <2>7. 1 < p
    BY <2>4, <2>5, <2>6
  <2>8. 8 * n + top < 8 * z + k
    BY <2>4, <2>7 DEF Inv, InOrder
  <2>9. QED  BY <1>4, <1>7, <2>1, <2>5, <2>8
<1>8. QED  BY <1>1, <1>2, <1>4, <1>6, <1>7

\* The block whose last ticket is the packet is given to AddBlock, and what rscoder has of
\* it is forgotten.
LEMMA Delivered ==
    ASSUME Inv, DistinctIds, NEW n, NEW top, Stands(1, n, top),
           \A k \in Indices(encodingMode) : k <= top,
           8 * n + 7 < Cursor,
           added' = Append(added, read[n]), packet' = <<>>,
           \A s : s \in collected' <=> s \in collected /\ s.id # Id(read[n]),
           encodingMode' = encodingMode, given' = given, payloads' = payloads, read' = read,
           rx' = rx, message' = message, lost' = lost
    PROVE  Inv'
<1>1. PICK A : A = Len(added)
  OBVIOUS
<1>2. /\ A \in Nat /\ encodingMode \in {0, 1} /\ Len(read) \in Nat /\ Len(rx) \in Nat
      /\ added \in Seq(Blocks)
      /\ \A i, j \in 1..Len(read) : read[i] = read[j] => i = j
  BY <1>1, RxShape DEF Inv, Types
<1>3. Ticket(n, top)
  BY StandsIs
<1>4. n \in 1..Len(read) /\ top \in 0..7 /\ read[n] \in Blocks
  BY <1>3, TicketIs
<1>5. /\ added' \in Seq(Blocks) /\ Len(added') = A + 1 /\ added'[A + 1] = read[n]
      /\ \A x \in 1..A : added'[x] = added[x]
  BY <1>1, <1>2, <1>4, AppendProperties
<1>6. Cursor' = Cursor
  BY DEF Cursor
<1>7. \A i, k : Ticket(i, k)' <=> Ticket(i, k)
  BY <1>6 DEF Ticket
<1>8. ASSUME NEW p, NEW i, NEW k, Stands(p, i, k)'
      PROVE  Stands(p, i, k) /\ p # 1
  BY <1>7, <1>8 DEF Stands
<1>9. ASSUME NEW p, NEW i, NEW k, Stands(p, i, k), p # 1, i # n \/ p # 0
      PROVE  Stands(p, i, k)'
  <2>1. Ticket(i, k)' /\ Ticket(i, k)
    BY <1>7, <1>9, StandsIs, Zenon
  <2>2. CASE p = 0
    <3>1. encodingMode = 1 /\ Share(read[i], k) \in collected
      BY <1>9, <2>2 DEF Stands
    <3>2. Share(read[i], k).id = Id(read[i])
      BY Zenon DEF Share
    <3>3. Id(read[i]) # Id(read[n])
      BY <1>2, <1>4, <1>9, <2>1, <2>2, TicketIs DEF DistinctIds
    <3>4. Share(read[i], k) \in collected'
      BY <3>1, <3>2, <3>3
    <3>5. QED  BY <2>1, <2>2, <3>1, <3>4 DEF Stands
  <2>3. CASE p # 0
    BY <1>9, <2>1, <2>3 DEF Stands
  <2>4. QED  BY <2>2, <2>3
<1>10. \A x, i : Added(x, i)' <=> Added(x, i) \/ (x = A + 1 /\ i = n)
  BY <1>1, <1>2, <1>4, <1>5 DEF Added
<1>11. Types'
  <2>1. Holding => Holding'
    BY DEF Holding
  <2>2. QED  BY <1>5, <2>1 DEF Inv, Types
<1>12. UnderWay'
  <2>1. ASSUME NEW j \in 1..Len(rx')
        PROVE  rx'[j] \in Strays \/ \E i, k : Stands(j + 1, i, k)'
    <3>1. rx[j] \in Strays \/ \E i, k : Stands(j + 1, i, k)
      BY DEF Inv, UnderWay
    <3>2. PICK p : p = j + 1
      OBVIOUS
    <3>3. p # 0 /\ p # 1
      BY <1>2, <3>2
    <3>4. \A i, k : Stands(p, i, k) => Stands(p, i, k)'
      BY <1>9, <3>3
    <3>5. QED  BY <3>1, <3>2, <3>4
  <2>2. \A s \in collected' : \E i, k : Stands(0, i, k)' /\ s = Share(read'[i], k)
    <3>1. SUFFICES ASSUME NEW s \in collected'
                   PROVE  \E i, k : Stands(0, i, k)' /\ s = Share(read[i], k)
      OBVIOUS
    <3>2. s \in collected /\ s.id # Id(read[n])
      OBVIOUS
    <3>3. PICK i, k : Stands(0, i, k) /\ s = Share(read[i], k)
      BY <3>2 DEF Inv, UnderWay
    <3>4. Share(read[i], k).id = Id(read[i])
      BY Zenon DEF Share
    <3>5. i # n
      BY <3>2, <3>3, <3>4
    <3>6. Stands(0, i, k)'
      BY <1>9, <3>3, <3>5
    <3>7. QED  BY <3>3, <3>6
  <2>3. QED  BY <2>1, <2>2 DEF UnderWay
<1>13. InOrder'
  BY <1>8 DEF Inv, InOrder
<1>14. AddedFirst'
  <2>1. \A x \in 1..Len(added') : \E i : Added(x, i)'
    <3>1. \A x \in 1..(A + 1) : x \in 1..A \/ x = A + 1
      BY <1>2
    <3>2. \A x \in 1..A : \E i : Added(x, i)
      BY <1>1 DEF Inv, AddedFirst
    <3>3. QED  BY <1>5, <1>10, <3>1, <3>2
  <2>2. \A x, i : Added(x, i)' => 8 * i + 7 < Cursor'
    BY <1>6, <1>10 DEF Inv, AddedFirst
  <2>3. \A x, i : Added(x, i) => x \in 1..A /\ i < n
    <3>1. 1 # 0
      OBVIOUS
    <3>2. \A x, i : Added(x, i) => i < n
      BY <3>1, Zenon DEF Inv, AddedFirst
    <3>3. QED  BY <1>1, <3>2 DEF Added
  <2>4. ASSUME NEW x, NEW y, NEW i, NEW j, Added(x, i)', Added(y, j)', x < y
        PROVE  i < j
    <3>1. CASE Added(x, i) /\ Added(y, j)
      BY <2>4, <3>1 DEF Inv, AddedFirst
    <3>2. CASE Added(x, i) /\ j = n
      BY <2>3, <3>2
    <3>3. CASE x = A + 1
      <4>1. y \in 1..(A + 1)
        BY <1>2, <1>10, <2>3, <2>4
      <4>2. QED  BY <1>2, <2>4, <3>3, <4>1
    <3>4. QED  BY <1>10, <2>4, <3>1, <3>2, <3>3
  <2>5. ASSUME NEW x, NEW i, NEW p, NEW j, NEW l, Added(x, i)', Stands(p, j, l)', p # 0
        PROVE  i < j
    <3>1. Stands(p, j, l) /\ p # 1
      BY <1>8, <2>5
    <3>2. CASE Added(x, i)
      BY <2>5, <3>1, <3>2 DEF Inv, AddedFirst
    <3>3. CASE i = n
      <4>1. /\ p \in 0..(Len(rx) + 1) /\ j \in 1..Len(read) /\ l \in 0..7
            /\ l \in Indices(encodingMode)
        BY <3>1, StandsIs, TicketIs
      <4>2. 1 < p
        BY <1>2, <2>5, <3>1, <4>1
      <4>3. 8 * n + top < 8 * j + l
        BY <3>1, <4>2 DEF Inv, InOrder
      <4>4. l <= top
        BY <4>1
      <4>5. QED  BY <1>4, <3>3, <4>1, <4>3, <4>4
    <3>4. QED  BY <1>10, <2>5, <3>2, <3>3
  <2>6. QED  BY <2>1, <2>2, <2>4, <2>5 DEF AddedFirst
<1>15. NoneComplete'
  BY DEF Inv, NoneComplete
<1>16. NothingMissing'
  <2>1. SUFFICES ASSUME lost' = 0
                 PROVE  /\ \A i, k : Ticket(i, k)' => (\E x : Added(x, i)') \/ (\E p : Stands(p, i, k)')
                        /\ Len(added') <= Len(read)
                        /\ \A x \in 1..Len(added') : added'[x] = read[x]
    BY DEF NothingMissing
  <2>2. /\ \A i, k : Ticket(i, k) => (\E x : Added(x, i)) \/ (\E p : Stands(p, i, k))
        /\ Len(added) <= Len(read) /\ \A x \in 1..Len(added) : added[x] = read[x]
    BY <2>1, Zenon DEF Inv, NothingMissing
  <2>3. ASSUME NEW i, NEW k, Ticket(i, k)'
        PROVE  (\E x : Added(x, i)') \/ (\E p : Stands(p, i, k)')
    <3>1. CASE i = n
      BY <1>10, <3>1
    <3>2. CASE \E x : Added(x, i)
      BY <1>10, <3>2
    <3>3. CASE i # n /\ \E p : Stands(p, i, k)
      <4>1. PICK p : Stands(p, i, k)
        BY <3>3
      <4>2. p # 1
        <5>1. p = 1 => i = n
          BY <4>1, OneThere
        <5>2. QED  BY <3>3, <5>1
      <4>3. Stands(p, i, k)'
        BY <1>9, <3>3, <4>1, <4>2
      <4>4. QED  BY <4>3
    <3>4. QED  BY <1>7, <2>2, <2>3, <3>1, <3>2, <3>3
  <2>4. n = A + 1
    BY <1>1, <2>1, NextIsAdded
  <2>5. Len(added') <= Len(read) /\ \A x \in 1..Len(added') : added'[x] = read[x]
    BY <1>1, <1>2, <1>4, <1>5, <2>2, <2>4
  <2>6. QED  BY <2>3, <2>5
<1>17. QED  BY <1>11, <1>12, <1>13, <1>14, <1>15, <1>16 DEF Inv

LEMMA ProcessRawInv == ASSUME Inv, DistinctIds, ProcessRaw PROVE Inv'
<1>1. /\ encodingMode' = encodingMode /\ given' = given /\ payloads' = payloads /\ read' = read
      /\ rx' = rx /\ message' = message /\ collected' = collected /\ lost' = lost
      /\ packet' = <<>> /\ packet # <<>> /\ packet[1].header.encodeMode = 0
      /\ AddBlock(packet[1].header, SubSeq(packet[1].payload, 1, packet[1].header.payloadSize))
  BY DEF ProcessRaw, clientVars
<1>2. PICK n, top : Stands(1, n, top)
  BY <1>1 DEF Inv, UnderWay
<1>3. packet[1] = Parcel(encodingMode, read[n], top)
  BY <1>2 DEF Stands
<1>4. Ticket(n, top)
  BY <1>2, StandsIs
<1>5. /\ n \in 1..Len(read) /\ read[n] \in Blocks /\ top \in Indices(encodingMode)
      /\ 8 * n + top < Cursor
  BY <1>4, TicketIs
<1>6. encodingMode = 0 /\ top = 0
  <2>1. Parcel(encodingMode, read[n], top).header.encodeMode = encodingMode
    BY Zenon DEF Parcel, Head16, Header
  <2>2. encodingMode = 0
    BY <1>1, <1>3, <2>1
  <2>3. QED  BY <1>5, <2>2 DEF Indices
<1>7. added' = Append(added, read[n])
  <2>1. PICK q : q = Parcel(0, read[n], 0)
    OBVIOUS
  <2>2. packet[1] = q
    BY <1>3, <1>6, <2>1
  <2>3. added' = Append(added, AsBlock(q.header, SubSeq(q.payload, 1, q.header.payloadSize)))
    BY <1>1, <2>2, Zenon DEF AddBlock, AsBlock
  <2>4. SubSeq(q.payload, 1, q.header.payloadSize) = read[n].data
    BY <1>5, <2>1, RawComesBack
  <2>5. q.header = Head16(0, read[n], 0)
    BY <2>1, Zenon DEF Parcel
  <2>6. AsBlock(q.header, read[n].data) = read[n]
    BY <1>5, <2>5, AsBlockIs
  <2>7. QED  BY <2>3, <2>4, <2>6
<1>8. 8 * n + 7 < Cursor
  <2>1. Len(read) \in Nat
    BY RxShape
  <2>2. QED  BY <1>5, <1>6, <2>1, CursorIs
<1>9. collected = {}
  <2>1. \A i, k : ~Stands(0, i, k)
    BY <1>6 DEF Stands
  <2>2. QED  BY <2>1 DEF Inv, UnderWay
<1>10. \A k \in Indices(encodingMode) : k <= top
  BY <1>6 DEF Indices
<1>11. \A s : s \in collected' <=> s \in collected /\ s.id # Id(read[n])
  BY <1>1, <1>9
<1>12. QED  BY <1>1, <1>2, <1>7, <1>8, <1>10, <1>11, Delivered

LEMMA ShareFields ==
    ASSUME NEW b, NEW k
    PROVE  /\ Share(b, k).id = Id(b) /\ Share(b, k).index = k
           /\ Share(b, k).payload = Chunk(b, k)
BY Zenon DEF Share

\* One payload more with rscoder, and the block is not complete.
LEMMA Kept ==
    ASSUME Inv, DistinctIds, NEW n, NEW top, Stands(1, n, top), encodingMode = 1,
           collected' = collected \cup {Share(read[n], top)}, packet' = <<>>,
           \E k \in 0..7 : Share(read[n], k) \notin collected',
           encodingMode' = encodingMode, given' = given, payloads' = payloads, read' = read,
           rx' = rx, message' = message, lost' = lost, added' = added
    PROVE  Inv'
<1>1. /\ Len(read) \in Nat /\ Len(rx) \in Nat
      /\ \A i, j \in 1..Len(read) : read[i] = read[j] => i = j
  BY RxShape
<1>2. Ticket(n, top)
  BY StandsIs
<1>3. n \in 1..Len(read) /\ top \in 0..7 /\ read[n] \in Blocks
  BY <1>2, TicketIs
<1>4. Cursor' = Cursor
  BY DEF Cursor
<1>5. \A i, k : Ticket(i, k)' <=> Ticket(i, k)
  BY <1>4 DEF Ticket
<1>6. ASSUME NEW i, NEW k, i \in 1..Len(read), Share(read[i], k) = Share(read[n], top)
      PROVE  i = n /\ k = top
  <2>1. read[i] \in Blocks
    BY <1>6, ElementOfSeq DEF Inv, Types
  <2>2. read[i] = read[n] /\ k = top
    BY <1>3, <1>6, <2>1, SharesDiffer
  <2>3. QED  BY <1>1, <1>3, <1>6, <2>2
<1>7. ASSUME NEW p, NEW i, NEW k, Stands(p, i, k)'
      PROVE  (Stands(p, i, k) /\ p # 1) \/ (p = 0 /\ i = n /\ k = top)
  <2>1. Ticket(i, k)
    BY <1>5, <1>7 DEF Stands
  <2>2. CASE p = 0
    <3>1. Share(read[i], k) \in collected \/ Share(read[i], k) = Share(read[n], top)
      BY <1>7, <2>2 DEF Stands
    <3>2. i \in 1..Len(read)
      BY <2>1, TicketIs
    <3>3. CASE Share(read[i], k) \in collected
      BY <2>1, <2>2, <3>3 DEF Stands
    <3>4. CASE Share(read[i], k) = Share(read[n], top)
      BY <1>6, <2>2, <3>2, <3>4
    <3>5. QED  BY <3>1, <3>3, <3>4
  <2>3. CASE p # 0
    BY <1>7, <2>1, <2>3 DEF Stands
  <2>4. QED  BY <2>2, <2>3
<1>8. ASSUME NEW p, NEW i, NEW k, Stands(p, i, k), p # 1
      PROVE  Stands(p, i, k)'
  <2>1. Ticket(i, k)'
    BY <1>5, <1>8, StandsIs, Zenon
  <2>2. QED  BY <1>8, <2>1 DEF Stands
<1>9. Stands(0, n, top)'
  <2>1. Ticket(n, top)'
    BY <1>2, <1>5
  <2>2. QED  BY <2>1 DEF Stands
<1>10. \A x, i : Added(x, i)' <=> Added(x, i)
  BY DEF Added
<1>11. Types'
  <2>1. Holding => Holding'
    BY DEF Holding
  <2>2. QED  BY <2>1 DEF Inv, Types
<1>12. UnderWay'
  <2>1. ASSUME NEW j \in 1..Len(rx')
        PROVE  rx'[j] \in Strays \/ \E i, k : Stands(j + 1, i, k)'
    <3>1. rx[j] \in Strays \/ \E i, k : Stands(j + 1, i, k)
      BY DEF Inv, UnderWay
    <3>2. PICK p : p = j + 1
      OBVIOUS
    <3>3. p # 1
      BY <1>1, <3>2
    <3>4. \A i, k : Stands(p, i, k) => Stands(p, i, k)'
      BY <1>8, <3>3
    <3>5. QED  BY <3>1, <3>2, <3>4
  <2>2. \A s \in collected' : \E i, k : Stands(0, i, k)' /\ s = Share(read'[i], k)
    <3>1. \A i, k : Stands(0, i, k) => Stands(0, i, k)'
      BY <1>8
    <3>2. \A s \in collected : \E i, k : Stands(0, i, k)' /\ s = Share(read'[i], k)
      BY <3>1 DEF Inv, UnderWay
    <3>3. QED  BY <1>9, <3>2
  <2>3. QED  BY <2>1, <2>2 DEF UnderWay
<1>13. InOrder'
  <2>1. ASSUME NEW p, NEW q, NEW i, NEW j, NEW k, NEW l, Stands(p, i, k)', Stands(q, j, l)', p < q
        PROVE  8 * i + k < 8 * j + l
    <3>1. CASE Stands(p, i, k) /\ Stands(q, j, l)
      BY <2>1, <3>1 DEF Inv, InOrder
    <3>2. CASE p = 0 /\ i = n /\ k = top /\ Stands(q, j, l) /\ q # 1
      <4>1. 1 < q
        BY <1>1, <2>1, <3>2, StandsIs
      <4>2. QED  BY <3>2, <4>1 DEF Inv, InOrder
    <3>3. CASE q = 0
      <4>1. p \in 0..(Len(rx) + 1)
        BY <1>1, <1>7, <2>1, StandsIs
      <4>2. QED  BY <1>1, <2>1, <3>3, <4>1
    <3>4. QED  BY <1>7, <2>1, <3>1, <3>2, <3>3
  <2>2. QED  BY <2>1 DEF InOrder
<1>14. AddedFirst'
  <2>1. ASSUME NEW x, NEW i, NEW p, NEW j, NEW l, Added(x, i)', Stands(p, j, l)', p # 0
        PROVE  i < j
    <3>1. Stands(p, j, l)
      BY <1>7, <2>1
    <3>2. QED  BY <1>10, <2>1, <3>1 DEF Inv, AddedFirst
  <2>2. QED  BY <1>4, <1>10, <2>1 DEF Inv, AddedFirst
<1>15. NoneComplete'
  <2>1. ASSUME NEW i \in 1..Len(read)
        PROVE  \E k \in 0..7 : Share(read[i], k) \notin collected'
    <3>1. PICK k \in 0..7 : Share(read[i], k) \notin collected
      BY DEF Inv, NoneComplete
    <3>2. CASE i = n
      BY <3>2
    <3>3. CASE i # n
      <4>1. Share(read[i], k) # Share(read[n], top)
        BY <1>6, <3>3
      <4>2. QED  BY <3>1, <4>1
    <3>4. QED  BY <3>2, <3>3
  <2>2. QED  BY <2>1 DEF NoneComplete
<1>16. NothingMissing'
  <2>1. SUFFICES ASSUME lost' = 0
                 PROVE  /\ \A i, k : Ticket(i, k)' => (\E x : Added(x, i)') \/ (\E p : Stands(p, i, k)')
                        /\ Len(added) <= Len(read) /\ \A x \in 1..Len(added) : added[x] = read[x]
    BY DEF NothingMissing
  <2>2. /\ \A i, k : Ticket(i, k) => (\E x : Added(x, i)) \/ (\E p : Stands(p, i, k))
        /\ Len(added) <= Len(read) /\ \A x \in 1..Len(added) : added[x] = read[x]
    BY <2>1, Zenon DEF Inv, NothingMissing
  <2>3. ASSUME NEW p, NEW i, NEW k, Stands(p, i, k)
        PROVE  \E q : Stands(q, i, k)'
    <3>1. CASE p = 1
      <4>1. 1 # 0
        OBVIOUS
      <4>2. Stands(1, i, k)
        BY <2>3, <3>1
      <4>3. i = n /\ k = top
        BY <4>1, <4>2, OneThere
      <4>4. QED  BY <1>9, <4>3
    <3>2. QED  BY <1>8, <2>3, <3>1
  <2>4. QED  BY <1>5, <1>10, <2>2, <2>3, Zenon
<1>17. QED  BY <1>11, <1>12, <1>13, <1>14, <1>15, <1>16 DEF Inv

LEMMA ProcessRsInv == ASSUME Inv, DistinctIds, ProcessRs PROVE Inv'
<1>1. /\ encodingMode' = encodingMode /\ given' = given /\ payloads' = payloads /\ read' = read
      /\ rx' = rx /\ message' = message /\ lost' = lost
      /\ packet' = <<>> /\ packet # <<>> /\ packet[1].header.encodeMode = 1
  BY DEF ProcessRs, clientVars
<1>2. PICK n, top : Stands(1, n, top)
  BY <1>1 DEF Inv, UnderWay
<1>3. packet[1] = Parcel(encodingMode, read[n], top)
  BY <1>2 DEF Stands
<1>4. Ticket(n, top)
  BY <1>2, StandsIs
<1>5. n \in 1..Len(read) /\ read[n] \in Blocks /\ top \in 0..7 /\ 8 * n + top < Cursor
  BY <1>4, TicketIs
<1>6. encodingMode = 1
  <2>1. Parcel(encodingMode, read[n], top).header.encodeMode = encodingMode
    BY Zenon DEF Parcel, Head16, Header
  <2>2. QED  BY <1>1, <1>3, <2>1
<1>7. PICK b, header, id, share, ofId :
          /\ b = read[n] /\ header = packet[1].header /\ id = Id(header)
          /\ share = [id |-> id, index |-> header.packetIndex, payload |-> packet[1].payload]
          /\ ofId = {s \in collected \cup {share} : s.id = id}
  OBVIOUS
<1>8. IF Decodable(ofId)
      THEN /\ AddBlock(header, Resized(Decoded(ofId), header.payloadSize))
           /\ collected' = collected \ ofId
      ELSE collected' = collected \cup ofId /\ added' = added
  BY <1>7, Zenon DEF ProcessRs
<1>9. /\ header = Head16(1, b, top) /\ id = Id(b) /\ share = Share(b, top) /\ b \in Blocks
      /\ header.payloadSize = Len(b.data)
  <2>1. packet[1] = Parcel(1, b, top)
    BY <1>3, <1>6, <1>7
  <2>2. Parcel(1, b, top).header = Head16(1, b, top)
    BY Zenon DEF Parcel
  <2>3. Parcel(1, b, top).payload = Chunk(b, top)
    BY DEF Parcel, Body
  <2>4. Head16(1, b, top).packetIndex = top /\ Head16(1, b, top).payloadSize = Len(b.data)
    BY Zenon DEF Head16, Header
  <2>5. header = Head16(1, b, top)
    BY <1>7, <2>1, <2>2
  <2>6. id = Id(b)
    BY <1>7, <2>5, IdOfHeader
  <2>7. share = Share(b, top)
    BY <1>7, <2>1, <2>3, <2>4, <2>5, <2>6, Zenon DEF Share
  <2>8. QED  BY <1>5, <1>7, <2>4, <2>5, <2>6, <2>7
<1>10. \A s \in collected : \E i, k : /\ Stands(0, i, k) /\ s = Share(read[i], k)
                                     /\ i \in 1..Len(read) /\ read[i] \in Blocks /\ k \in 0..7
  <2>1. \A i, k : Stands(0, i, k) => i \in 1..Len(read) /\ read[i] \in Blocks /\ k \in 0..7
    BY StandsIs, TicketIs
  <2>2. QED  BY <2>1 DEF Inv, UnderWay
<1>11. \A s \in ofId : \E k \in 0..7 : s = Share(b, k)
  <2>1. SUFFICES ASSUME NEW s \in ofId
                 PROVE  \E k \in 0..7 : s = Share(b, k)
    OBVIOUS
  <2>2. s.id = id /\ (s \in collected \/ s = share)
    BY <1>7
  <2>3. CASE s = share
    BY <1>5, <1>9, <2>3
  <2>4. CASE s \in collected
    <3>1. PICK i, k : s = Share(read[i], k) /\ read[i] \in Blocks /\ k \in 0..7
      BY <1>10, <2>4
    <3>2. Id(read[i]) = Id(b)
      BY <1>9, <2>2, <3>1, ShareFields
    <3>3. read[i] = b
      BY <1>9, <3>1, <3>2 DEF DistinctIds
    <3>4. QED  BY <3>1, <3>3
  <2>5. QED  BY <2>2, <2>3, <2>4
<1>12. \A k \in 0..7 : Share(b, k) \in ofId <=> Share(b, k) \in collected \cup {share}
  BY <1>7, <1>9, ShareFields
<1>13. Decodable(ofId) <=> \A k \in 0..7 : Share(b, k) \in ofId
  <2>1. Cells - 1 = 7
    BY DEF Cells
  <2>2. Decodable(ofId) <=> {s.index : s \in ofId} = 0..7
    BY <2>1 DEF Decodable
  <2>3. ASSUME {s.index : s \in ofId} = 0..7, NEW k \in 0..7
        PROVE  Share(b, k) \in ofId
    <3>1. PICK s \in ofId : s.index = k
      BY <2>3
    <3>2. PICK l \in 0..7 : s = Share(b, l)
      BY <1>11
    <3>3. l = k
      BY <3>1, <3>2, ShareFields
    <3>4. QED  BY <3>2, <3>3
  <2>4. ASSUME \A k \in 0..7 : Share(b, k) \in ofId
        PROVE  {s.index : s \in ofId} = 0..7
    <3>1. \A s \in ofId : s.index \in 0..7
      BY <1>11, ShareFields
    <3>2. \A k \in 0..7 : \E s \in ofId : s.index = k
      BY <2>4, ShareFields
    <3>3. QED  BY <3>1, <3>2
  <2>5. QED  BY <2>2, <2>3, <2>4
<1>14. share \in ofId
  BY <1>7, <1>9, ShareFields
<1>15. CASE ~Decodable(ofId)
  <2>1. collected' = collected \cup {share} /\ added' = added
    BY <1>7, <1>8, <1>14, <1>15
  <2>2. \E k \in 0..7 : Share(b, k) \notin collected'
    BY <1>12, <1>13, <1>15, <2>1
  <2>3. QED  BY <1>1, <1>2, <1>6, <1>7, <1>9, <2>1, <2>2, Kept
<1>16. CASE Decodable(ofId)
  <2>1. \A k \in 0..7 : Share(b, k) \in ofId
    BY <1>13, <1>16
  <2>2. AddBlock(header, Resized(Decoded(ofId), header.payloadSize)) /\ collected' = collected \ ofId
    BY <1>8, <1>16
  <2>3. Resized(Decoded(ofId), header.payloadSize) = b.data
    BY <1>9, <1>11, <2>1, RsComesBack
  <2>4. added' = Append(added, read[n])
    <3>1. added' = Append(added, AsBlock(header, b.data))
      BY <2>2, <2>3, Zenon DEF AddBlock, AsBlock
    <3>2. AsBlock(header, b.data) = b
      BY <1>9, AsBlockIs
    <3>3. QED  BY <1>7, <3>1, <3>2
  <2>5. top = 7
    <3>1. SUFFICES ASSUME top # 7
                   PROVE  FALSE
      OBVIOUS
    <3>2. 7 \in 0..7
      OBVIOUS
    <3>3. Share(b, 7) \in ofId /\ Share(b, 7) # share
      BY <1>9, <2>1, <3>1, <3>2, ShareFields
    <3>4. Share(b, 7) \in collected
      BY <1>7, <3>3
    <3>5. PICK i, k : Stands(0, i, k) /\ Share(b, 7) = Share(read[i], k)
                      /\ i \in 1..Len(read) /\ read[i] \in Blocks /\ k \in 0..7
      BY <1>10, <3>4
    <3>6. b = read[i] /\ 7 = k
      BY <1>9, <3>5, SharesDiffer
    <3>7. i = n
      BY <1>5, <1>7, <3>5, <3>6, RxShape
    <3>8. 0 < 1
      OBVIOUS
    <3>9. 8 * n + 7 < 8 * n + top
      BY <1>2, <3>5, <3>6, <3>7, <3>8 DEF Inv, InOrder
    <3>10. QED  BY <1>5, <3>9
  <2>6. \A k \in Indices(encodingMode) : k <= top
    BY <1>6, <2>5 DEF Indices
  <2>7. 8 * n + 7 < Cursor
    BY <1>5, <2>5
  <2>8. \A s : s \in collected' <=> s \in collected /\ s.id # Id(read[n])
    BY <1>7, <1>9, <2>2
  <2>9. QED  BY <1>1, <1>2, <2>4, <2>6, <2>7, <2>8, Delivered
<1>17. QED  BY <1>15, <1>16

-------------------------------------------------------------------------------
(* What is proved of Packet. *)

LEMMA InvIsInductive == ASSUME Inv, DistinctIds, [Next]_vars PROVE Inv'
<1>1. CASE ReadBlock
  BY <1>1, ReadBlockInv
<1>2. CASE SendRaw
  BY <1>2, SendRawInv
<1>3. CASE SendRs
  BY <1>3, SendRsInv
<1>4. CASE Stray
  BY <1>4, StrayInv
<1>5. CASE ReceiveNonBlocking
  BY <1>5, ReceiveInv
<1>6. CASE ProcessRaw
  BY <1>6, ProcessRawInv
<1>7. CASE ProcessRs
  BY <1>7, ProcessRsInv
<1>8. CASE UNCHANGED vars
  <2>1. /\ encodingMode' = encodingMode /\ given' = given /\ payloads' = payloads /\ read' = read
        /\ rx' = rx /\ message' = message /\ packet' = packet /\ collected' = collected
        /\ added' = added /\ lost' = lost
    BY <1>8 DEF vars, clientVars, serverVars
  <2>2. Cursor' = Cursor
    BY <2>1 DEF Cursor
  <2>3. \A i, k : Ticket(i, k)' <=> Ticket(i, k)
    BY <2>1, <2>2 DEF Ticket
  <2>4. \A p, i, k : Stands(p, i, k)' <=> Stands(p, i, k)
    BY <2>1, <2>3 DEF Stands
  <2>5. \A x, i : Added(x, i)' <=> Added(x, i)
    BY <2>1 DEF Added
  <2>6. Types'
    BY <2>1 DEF Inv, Types, Holding
  <2>7. UnderWay'
    BY <2>1, <2>4 DEF Inv, UnderWay
  <2>8. InOrder' /\ AddedFirst'
    BY <2>1, <2>2, <2>4, <2>5 DEF Inv, InOrder, AddedFirst
  <2>9. NoneComplete' /\ NothingMissing'
    BY <2>1, <2>3, <2>4, <2>5 DEF Inv, NoneComplete, NothingMissing
  <2>10. QED  BY <2>6, <2>7, <2>8, <2>9 DEF Inv
<1>9. QED  BY <1>1, <1>2, <1>3, <1>4, <1>5, <1>6, <1>7, <1>8 DEF Next

LEMMA InvHolds == DistinctIds => (Spec => []Inv)
<1>1. DistinctIds /\ Inv /\ [Next]_vars => Inv'
  BY InvIsInductive
<1>2. SUFFICES ASSUME DistinctIds
               PROVE  Spec => []Inv
  OBVIOUS
<1>3. Inv /\ [Next]_vars => Inv'
  BY <1>1, <1>2
<1>4. Init => Inv
  BY InitInv
<1>5. QED  BY <1>3, <1>4, PTL DEF Spec

\* What is given to AddBlock are blocks that were read, in the order they were read and to
\* the byte (composePacket, decomposePacket, resize), when no two blocks of the stream have
\* the same id: for every block size and all blocks, whatever is lost, and whatever arrives
\* in between that decomposePacket refuses.
THEOREM AddedAsRead == DistinctIds => (Spec => []BlocksArriveUnchanged)
<1>1. Inv => BlocksArriveUnchanged
  <2>1. SUFFICES ASSUME Inv
                 PROVE  BlocksArriveUnchanged
    OBVIOUS
  <2>2. \A x \in 1..Len(added) : \E i \in 1..Len(read) : added[x] = read[i]
    BY <2>1 DEF Inv, AddedFirst, Added
  <2>3. ASSUME NEW x \in 1..Len(added), NEW y \in 1..Len(added),
               NEW i \in 1..Len(read), NEW j \in 1..Len(read),
               x < y, added[x] = read[i], added[y] = read[j]
        PROVE  i < j
    <3>1. Added(x, i) /\ Added(y, j)
      BY <2>3 DEF Added
    <3>2. QED  BY <2>1, <2>3, <3>1 DEF Inv, AddedFirst
  <2>4. QED  BY <2>2, <2>3 DEF BlocksArriveUnchanged
<1>2. QED  BY <1>1, InvHolds, PTL

\* Where no datagram was lost every block read is added once nothing is under way: no test
\* of a size, in composePacket or decomposePacket, refuses a block that is just full.
THEOREM AllAdded == DistinctIds => (Spec => []EveryBlockArrives)
<1>1. DistinctIds /\ Inv => EveryBlockArrives
  <2>1. SUFFICES ASSUME DistinctIds, Inv, given = <<>>, rx = <<>>, packet = <<>>, lost = 0
                 PROVE  added = read
    BY DEF EveryBlockArrives
  <2>2. /\ Len(added) \in Nat /\ Len(read) \in Nat /\ added \in Seq(Blocks) /\ read \in Seq(Blocks)
        /\ encodingMode \in {0, 1}
    BY <2>1, RxShape DEF Inv, Types
  <2>3. Len(added) <= Len(read) /\ \A x \in 1..Len(added) : added[x] = read[x]
    BY <2>1 DEF Inv, NothingMissing
  <2>4. ASSUME Len(added) < Len(read)
        PROVE  FALSE
    <3>1. PICK z : z = Len(added) + 1
      OBVIOUS
    <3>2. z \in 1..Len(read)
      BY <2>2, <2>4, <3>1
    <3>3. Cursor = 8 * Len(read) + 8
      BY <2>1 DEF Cursor
    <3>4. \A k \in Indices(encodingMode) : Ticket(z, k)
      BY <2>2, <3>2, <3>3 DEF Ticket, Indices
    <3>4a. PICK k \in Indices(encodingMode) : \E p : p # 0 /\ Stands(p, z, k)
      BY <2>1, <3>1, <3>2, <3>4, StillComing
    <3>5. PICK p : p # 0 /\ Stands(p, z, k)
      BY <3>4a
    <3>6. Len(rx) = 0
      BY <2>1
    <3>7. QED  BY <2>1, <3>5, <3>6 DEF Stands
  <2>5. Len(added) = Len(read)
    BY <2>2, <2>3, <2>4
  <2>6. QED  BY <2>2, <2>3, <2>5, SeqEqual
<1>2. SUFFICES ASSUME DistinctIds
               PROVE  Spec => []EveryBlockArrives
  OBVIOUS
<1>3. Inv => EveryBlockArrives
  BY <1>1, <1>2
<1>4. Spec => []Inv
  BY <1>2, InvHolds
<1>5. QED  BY <1>3, <1>4, PTL

===============================================================================
