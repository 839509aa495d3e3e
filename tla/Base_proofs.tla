----------------------------- MODULE Base_proofs ----------------------------
(***************************************************************************)
(* What the proofs about the other components rest on: the framing of      *)
(* packets, for every byte base, and the ids of Snowflake.                 *)
(***************************************************************************)
EXTENDS CodecLaws, Snowflake, SequenceTheorems, WellFoundedInduction, TLAPS

(***************************************************************************)
(* The framing (packet.cpp).                                               *)
(***************************************************************************)
(* Concatenation.                                                          *)
LEMMA ConcatOfBytes == \A s, t \in Seq(Byte) : s \o t \in Seq(Byte)
OBVIOUS

LEMMA LenOfConcat == \A s, t \in Seq(Byte) : Len(s \o t) = Len(s) + Len(t)
OBVIOUS

LEMMA LenIsNat == \A s \in Seq(Byte) : Len(s) \in Nat
OBVIOUS

LEMMA ConcatIsAssociative == \A s, t, u \in Seq(Byte) : (s \o t) \o u = s \o (t \o u)
<1> TAKE s, t, u \in Seq(Byte)
<1>. QED
  OBVIOUS

LEMMA ConcatEmpty == \A s \in Seq(Byte) : s \o <<>> = s /\ <<>> \o s = s /\ <<>> \in Seq(Byte)
OBVIOUS

(* The digits of a size are bytes.                                         *)
LEMMA DigitIsByte ==
    ASSUME NEW n \in Nat
    PROVE  n % ByteBase \in Byte
BY CodecAssumption DEF Byte

LEMMA Products ==
    /\ ByteBase * ByteBase \in Nat \ {0}
    /\ ByteBase * ByteBase * ByteBase \in Nat \ {0}
BY CodecAssumption

LEMMA DivIsNat ==
    ASSUME NEW n \in Nat, NEW d \in Nat \ {0}
    PROVE  n \div d \in Nat
OBVIOUS

(* Header writes four bytes, whatever the size.                            *)
LEMMA HeaderType ==
    ASSUME NEW size \in Nat
    PROVE  Header(size) \in Seq(Byte) /\ Len(Header(size)) = HeaderLen
<1>1. size \div ByteBase \in Nat
  BY DivIsNat, CodecAssumption
<1>2. size \div (ByteBase * ByteBase) \in Nat
  BY DivIsNat, Products
<1>3. size \div (ByteBase * ByteBase * ByteBase) \in Nat
  BY DivIsNat, Products
<1>4. /\ size % ByteBase \in Byte
      /\ (size \div ByteBase) % ByteBase \in Byte
      /\ (size \div (ByteBase * ByteBase)) % ByteBase \in Byte
      /\ (size \div (ByteBase * ByteBase * ByteBase)) % ByteBase \in Byte
  BY <1>1, <1>2, <1>3, DigitIsByte
<1>. QED
  BY <1>4 DEF Header, HeaderLen

LEMMA PacketToBufferType ==
    ASSUME NEW packet \in Seq(Byte)
    PROVE  /\ packet_to_buffer(packet) \in Seq(Byte)
           /\ Len(packet_to_buffer(packet)) = HeaderLen + Len(packet)
BY HeaderType DEF packet_to_buffer

LEMMA RestType ==
    ASSUME NEW S, NEW buffer \in Seq(S), NEW n \in Nat
    PROVE  /\ Rest(buffer, n) \in Seq(S)
           /\ n <= Len(buffer) => Len(Rest(buffer, n)) = Len(buffer) - n
BY DEF Rest

LEMMA PrefixType ==
    ASSUME NEW S, NEW buffer \in Seq(S), NEW n \in 0 .. Len(buffer)
    PROVE  /\ SubSeq(buffer, 1, n) \in Seq(S)
           /\ Len(SubSeq(buffer, 1, n)) = n
OBVIOUS

(* A buffer is its first n elements and the rest.                          *)
LEMMA SplitAt ==
    ASSUME NEW S, NEW buffer \in Seq(S), NEW n \in 0 .. Len(buffer)
    PROVE  buffer = SubSeq(buffer, 1, n) \o Rest(buffer, n)
<1>. /\ 1 \in 1 .. Len(buffer) + 1
     /\ n \in 1 - 1 .. Len(buffer)
     /\ Len(buffer) \in n .. Len(buffer)
  OBVIOUS
<1>1. SubSeq(buffer, 1, n) \o SubSeq(buffer, n + 1, Len(buffer))
          = SubSeq(buffer, 1, Len(buffer))
  BY ConcatAdjacentSubSeq
<1>. QED
  BY <1>1, SubSeqFull DEF Rest

LEMMA HeaderSizeType ==
    ASSUME NEW buffer \in Seq(Byte), Len(buffer) >= HeaderLen
    PROVE  HeaderSize(buffer) \in Nat
<1>1. \A i \in 1 .. 4 : buffer[i] \in Nat
  BY CodecAssumption DEF HeaderLen, Byte
<1>2. buffer[3] + ByteBase * buffer[4] \in Nat
  BY <1>1, CodecAssumption
<1>3. buffer[2] + ByteBase * (buffer[3] + ByteBase * buffer[4]) \in Nat
  BY <1>1, <1>2, CodecAssumption
<1>4. ByteBase * (buffer[2] + ByteBase * (buffer[3] + ByteBase * buffer[4])) \in Nat
  BY <1>3, CodecAssumption
<1>. QED
  BY <1>1, <1>4 DEF HeaderSize

-----------------------------------------------------------------------------
LEMMA TimesMonotonic ==
    ASSUME NEW d \in Nat, NEW p \in Nat, NEW q \in Nat, p <= q
    PROVE  d * p <= d * q
<1>1. d * q = d * p + d * (q - p)
  OBVIOUS
<1>2. d * (q - p) \in Nat
  OBVIOUS
<1>. QED
  BY <1>1, <1>2

(* Quotient and remainder are the only ones that recompose the dividend.   *)
LEMMA DivisionUnique ==
    ASSUME NEW d \in Nat \ {0}, NEW p \in Nat, NEW r \in 0 .. d - 1
    PROVE  (d * p + r) \div d = p /\ (d * p + r) % d = r
<1>1. d * p + r \in Nat
  OBVIOUS
<1>2. PICK q \in Nat, t \in 0 .. d - 1 :
          /\ d * p + r = d * q + t
          /\ q = (d * p + r) \div d
          /\ t = (d * p + r) % d
  BY <1>1
<1>3. ASSUME q >= p + 1 PROVE FALSE
  <2>1. d * (p + 1) <= d * q
    BY <1>3, TimesMonotonic
  <2>. QED
    BY <1>2, <2>1
<1>4. ASSUME p >= q + 1 PROVE FALSE
  <2>1. d * (q + 1) <= d * p
    BY <1>4, TimesMonotonic
  <2>. QED
    BY <1>2, <2>1
<1>5. q = p
  BY <1>3, <1>4
<1>. QED
  BY <1>2, <1>5

LEMMA Division ==
    ASSUME NEW n \in Nat, NEW d \in Nat \ {0}
    PROVE  /\ n = d * (n \div d) + (n % d)
           /\ n % d \in 0 .. d - 1
           /\ n \div d \in Nat
OBVIOUS

LEMMA DivDiv ==
    ASSUME NEW n \in Nat, NEW d \in Nat \ {0}, NEW e \in Nat \ {0}
    PROVE  (n \div d) \div e = n \div (d * e)
<1> DEFINE q == n \div d
           r == n % d
           p == q \div e
           s == q % e
<1>1. n = d * q + r /\ r \in 0 .. d - 1 /\ q \in Nat
  BY Division
<1>2. q = e * p + s /\ s \in 0 .. e - 1 /\ p \in Nat
  BY <1>1, Division
<1> HIDE DEF q, r, p, s
<1>3. /\ d * (e * p + s) = d * (e * p) + d * s
      /\ d * (e * p) = (d * e) * p
  BY <1>2
<1>4. n = (d * e) * p + (d * s + r)
  BY <1>1, <1>2, <1>3
<1>5. d * s + r \in 0 .. d * e - 1
  <2>1. d * s <= d * (e - 1)
    BY <1>2, TimesMonotonic
  <2>2. d * (e - 1) = d * e - d
    OBVIOUS
  <2>3. d * s \in Nat
    BY <1>2
  <2>. QED
    BY <1>1, <2>1, <2>2, <2>3
<1>6. d * e \in Nat \ {0}
  OBVIOUS
<1>7. n \div (d * e) = p
  BY <1>2, <1>4, <1>5, <1>6, DivisionUnique
<1>. QED
  BY <1>7 DEF p, q

LEMMA FourDigits ==
    ASSUME NEW B \in Nat \ {0}, NEW n \in Nat, n < B * (B * (B * B))
    PROVE  n = (n % B) + B * (((n \div B) % B)
                 + B * (((n \div (B * B)) % B)
                         + B * ((n \div (B * B * B)) % B)))
<1> DEFINE q1 == n \div B
           q2 == q1 \div B
           q3 == q2 \div B
           d0 == n % B
           d1 == q1 % B
           d2 == q2 % B
           d3 == q3 % B
<1>1. n = B * q1 + d0 /\ d0 \in 0 .. B - 1 /\ q1 \in Nat
  BY Division
<1>2. q1 = B * q2 + d1 /\ d1 \in 0 .. B - 1 /\ q2 \in Nat
  BY <1>1, Division
<1>3. q2 = B * q3 + d2 /\ d2 \in 0 .. B - 1 /\ q3 \in Nat
  BY <1>2, Division
<1>4. q3 = B * (q3 \div B) + d3 /\ d3 \in 0 .. B - 1 /\ q3 \div B \in Nat
  BY <1>3, Division
<1>5. B * B \in Nat \ {0}
  OBVIOUS
<1>6. q2 = n \div (B * B)
  BY DivDiv
<1>7. (n \div (B * B)) \div B = n \div ((B * B) * B)
  BY <1>5, DivDiv
<1>8. q3 = n \div (B * B * B)
  BY <1>6, <1>7
<1>9. d2 = (n \div (B * B)) % B /\ d3 = (n \div (B * B * B)) % B
  BY <1>6, <1>8
<1>10. SUFFICES n = d0 + B * (d1 + B * (d2 + B * d3))
  BY <1>9
<1> HIDE DEF q1, q2, q3, d0, d1, d2, d3
<1>11. q3 < B
  <2>1. SUFFICES ASSUME B <= q3 PROVE FALSE
    BY <1>3
  <2>2. B * B <= q2
    BY <1>3, <2>1, TimesMonotonic
  <2>3. B * (B * B) <= B * q2
    BY <1>2, <1>5, <2>2, TimesMonotonic
  <2>4. B * (B * B) <= q1 /\ B * (B * B) \in Nat
    BY <1>2, <2>3
  <2>5. B * (B * (B * B)) <= B * q1
    BY <1>1, <2>4, TimesMonotonic
  <2>. QED
    BY <1>1, <2>5
<1>12. q3 \div B = 0
  <2>1. SUFFICES ASSUME 1 <= q3 \div B PROVE FALSE
    BY <1>4
  <2>2. B * 1 <= B * (q3 \div B)
    BY <1>4, <2>1, TimesMonotonic
  <2>. QED
    BY <1>3, <1>4, <1>11, <2>2
<1>13. q3 = d3
  BY <1>4, <1>12
<1>. QED
  BY <1>1, <1>2, <1>3, <1>13

(* Reading a header gives the size that was written, if it fits uint32_t.  *)
LEMMA HeaderSizeOfHeader ==
    ASSUME NEW size \in 0 .. SizeModulus - 1, NEW buffer \in Seq(Byte),
           \A i \in 1 .. HeaderLen : buffer[i] = Header(size)[i]
    PROVE  HeaderSize(buffer) = size
<1>1. /\ buffer[1] = size % ByteBase
      /\ buffer[2] = (size \div ByteBase) % ByteBase
      /\ buffer[3] = (size \div (ByteBase * ByteBase)) % ByteBase
      /\ buffer[4] = (size \div (ByteBase * ByteBase * ByteBase)) % ByteBase
  BY DEF Header, HeaderLen
<1>2. ByteBase \in Nat \ {0}
  BY CodecAssumption
<1>3. SizeModulus = ByteBase * (ByteBase * (ByteBase * ByteBase))
  BY <1>2 DEF SizeModulus
<1>4. size \in Nat /\ size < ByteBase * (ByteBase * (ByteBase * ByteBase))
  BY <1>2, <1>3
<1>. QED
  BY ONLY <1>1, <1>2, <1>4, FourDigits DEF HeaderSize

LEMMA IndexOfConcat ==
    ASSUME NEW S, NEW s \in Seq(S), NEW t \in Seq(S), NEW i \in 1 .. Len(s)
    PROVE  (s \o t)[i] = s[i]
OBVIOUS

LEMMA SuffixOfConcat ==
    ASSUME NEW S, NEW s \in Seq(S), NEW t \in Seq(S)
    PROVE  SubSeq(s \o t, Len(s) + 1, Len(s) + Len(t)) = t
OBVIOUS

(***************************************************************************)
(* Sizes, and what an int keeps of them.                                   *)
(***************************************************************************)
LEMMA Modulus == SizeModulus \in Nat /\ SizeModulus >= 16
<1>1. PICK B \in Nat : B = ByteBase /\ B >= 2
  BY CodecAssumption
<1>2. B * 2 <= B * B
  BY <1>1, TimesMonotonic
<1>3. PICK q \in Nat : q = B * B /\ q >= 4
  BY <1>1, <1>2
<1>4. q * 2 <= q * B
  BY <1>1, TimesMonotonic
<1>5. PICK c \in Nat : c = q * B /\ c >= 8
  BY <1>1, <1>3, <1>4
<1>6. c * 2 <= c * B
  BY <1>1, TimesMonotonic
<1>7. SizeModulus = c * B /\ c * B \in Nat
  BY <1>1, <1>3, <1>5 DEF SizeModulus
<1>. QED
  BY <1>5, <1>6, <1>7

LEMMA HeaderSizeBound ==
    ASSUME NEW buffer \in Seq(Byte), Len(buffer) >= HeaderLen
    PROVE  HeaderSize(buffer) \in 0 .. SizeModulus - 1
<1>1. PICK B \in Nat : B = ByteBase /\ B >= 2
  BY CodecAssumption
<1>2. PICK b0 \in 0 .. B - 1, b1 \in 0 .. B - 1, b2 \in 0 .. B - 1, b3 \in 0 .. B - 1 :
          b0 = buffer[1] /\ b1 = buffer[2] /\ b2 = buffer[3] /\ b3 = buffer[4]
  <2>1. \A i \in 1 .. 4 : buffer[i] \in Byte
    BY DEF HeaderLen
  <2>2. Byte = 0 .. B - 1
    BY <1>1 DEF Byte
  <2>3. 1 \in 1 .. 4 /\ 2 \in 1 .. 4 /\ 3 \in 1 .. 4 /\ 4 \in 1 .. 4
    OBVIOUS
  <2>. QED
    BY <2>1, <2>2, <2>3
<1>3. \A p \in Nat : \A x \in 0 .. p - 1, d \in 0 .. B - 1 :
          /\ d + B * x \in 0 .. B * p - 1
          /\ B * p \in Nat
  <2> TAKE p \in Nat
  <2> TAKE x \in 0 .. p - 1, d \in 0 .. B - 1
  <2>1. B * x <= B * (p - 1)
    BY TimesMonotonic
  <2>2. B * (p - 1) = B * p - B /\ B * x \in Nat /\ B * p \in Nat
    OBVIOUS
  <2>. QED
    BY <2>1, <2>2
<1>4. b2 + B * b3 \in 0 .. B * B - 1 /\ B * B \in Nat
  BY <1>3
<1>5. b1 + B * (b2 + B * b3) \in 0 .. B * (B * B) - 1 /\ B * (B * B) \in Nat
  BY <1>3, <1>4
<1>6. b0 + B * (b1 + B * (b2 + B * b3)) \in 0 .. B * (B * (B * B)) - 1
  BY <1>3, <1>5
<1>7. SizeModulus = B * (B * (B * B))
  BY <1>1 DEF SizeModulus
<1>. QED
  BY <1>1, <1>2, <1>6, <1>7 DEF HeaderSize

(* A size in the buffer's header that does not wrap, and all its bytes.    *)
Framed(b) ==
    /\ Len(b) >= HeaderLen
    /\ HeaderSize(b) \in 1 .. Len(b) - HeaderLen
    /\ ~SizeWraps(b)

(* The three things packet_from_buffer can do.                             *)
LEMMA FrontCases ==
    ASSUME NEW b \in Seq(Byte)
    PROVE  \/ ~Framed(b) /\ packet_from_buffer(b) = NoPacket
           \/ SizeWraps(b) /\ \E n \in 0 .. 3 :
                  packet_from_buffer(b) = [len |-> n, packet |-> <<>>]
           \/ Framed(b) /\ packet_from_buffer(b) =
                  [len    |-> ToInt(HeaderSize(b) + HeaderLen),
                   packet |-> ParseFromArray(b, HeaderSize(b))]
<1>1. PICK M \in Nat, l \in Nat : M = SizeModulus /\ M >= 16 /\ l = Len(b)
  BY Modulus
<1> DEFINE size == HeaderSize(b)
           end  == (size + HeaderLen) % SizeModulus
<1>2. CASE l < HeaderLen
  BY <1>1, <1>2 DEF packet_from_buffer, Framed, HeaderLen
<1>3. CASE l >= HeaderLen
  <2>1. size \in 0 .. M - 1
    BY <1>1, <1>3, HeaderSizeBound
  <2> HIDE DEF size
  <2>2. packet_from_buffer(b) = IF size > 0 /\ l >= end
                                THEN [len |-> ToInt(end), packet |-> ParseFromArray(b, size)]
                                ELSE NoPacket
    BY <1>1, <1>3 DEF packet_from_buffer, size
  <2>3. CASE size + HeaderLen >= M
    <3>1. end = size + HeaderLen - M /\ end \in 0 .. 3
      <4>1. end = (size + HeaderLen - M) % M
        BY <1>1, <2>1, <2>3 DEF HeaderLen
      <4>2. size + HeaderLen - M \in 0 .. M - 1 /\ size + HeaderLen - M \in 0 .. 3
        BY <1>1, <2>1, <2>3 DEF HeaderLen
      <4>. QED
        BY <4>1, <4>2
    <3>2. ToInt(size) < 0 /\ ToInt(end) = end
      BY <1>1, <2>1, <2>3, <3>1 DEF ToInt, HeaderLen
    <3>3. SizeWraps(b)
      BY <1>1, <1>3, <2>3 DEF SizeWraps, size
    <3>4. size > 0 /\ l >= end
      <4> HIDE DEF end
      <4>. QED
        BY <1>1, <1>3, <2>1, <2>3, <3>1 DEF HeaderLen
    <3>5. packet_from_buffer(b) = [len |-> end, packet |-> <<>>]
      BY <2>2, <3>2, <3>4 DEF ParseFromArray
    <3>. QED
      BY <3>1, <3>3, <3>5
  <2>4. CASE size + HeaderLen < M
    <3>1. end = size + HeaderLen
      BY <1>1, <2>1, <2>4 DEF HeaderLen
    <3>2. ~SizeWraps(b)
      BY <1>1, <2>1, <2>4 DEF SizeWraps, size, HeaderLen
    <3>3. Framed(b) <=> size > 0 /\ l >= end
      BY <1>1, <1>3, <2>1, <3>1, <3>2 DEF Framed, size, HeaderLen
    <3>. QED
      BY <2>2, <3>1, <3>3 DEF size
  <2>. QED
    BY <1>1, <2>1, <2>3, <2>4 DEF HeaderLen
<1>. QED
  BY <1>1, <1>2, <1>3 DEF HeaderLen

NonEmpty == Seq(Byte) \ {<<>>}

(* A packet that is read back with the length of its frame, and one that   *)
(* is written so that all behind it can be read.                           *)
Readable == {packet \in NonEmpty : Fits(packet)}
Writable == {packet \in Seq(Byte) : Fits(packet)}

LEMMA FrontBounds ==
    ASSUME NEW b \in Seq(Byte)
    PROVE  LET result == packet_from_buffer(b)
           IN  /\ result.len \in Int
               /\ result.len <= Len(b)
               /\ 2 * result.len < SizeModulus /\ - SizeModulus <= 2 * result.len
               /\ result.packet \in Seq(Byte)
<1>1. PICK M \in Nat, l \in Nat : M = SizeModulus /\ M >= 16 /\ l = Len(b)
  BY Modulus
<1>2. CASE packet_from_buffer(b) = NoPacket
  BY <1>1, <1>2 DEF NoPacket
<1>3. ASSUME SizeWraps(b), NEW n \in 0 .. 3, packet_from_buffer(b) = [len |-> n, packet |-> <<>>]
      PROVE  packet_from_buffer(b).len = n /\ n <= l /\ packet_from_buffer(b).packet \in Seq(Byte)
  BY <1>1, <1>3 DEF SizeWraps, HeaderLen
<1>4. CASE Framed(b) /\ packet_from_buffer(b) =
                  [len    |-> ToInt(HeaderSize(b) + HeaderLen),
                   packet |-> ParseFromArray(b, HeaderSize(b))]
  <2>1. PICK size \in 1 .. l - HeaderLen : size = HeaderSize(b) /\ size + HeaderLen < M
    BY <1>1, <1>4, HeaderSizeType DEF Framed, SizeWraps, HeaderLen
  <2>2. /\ ToInt(size + HeaderLen) \in Int /\ ToInt(size + HeaderLen) <= l
        /\ 2 * ToInt(size + HeaderLen) < M /\ -M <= 2 * ToInt(size + HeaderLen)
    BY <1>1, <2>1 DEF ToInt, HeaderLen
  <2>3. SubSeq(b, HeaderLen + 1, HeaderLen + size) \in Seq(Byte)
    BY <1>1, <2>1 DEF HeaderLen
  <2>4. ParseFromArray(b, size) \in Seq(Byte)
    BY <2>3 DEF ParseFromArray
  <2>. QED
    BY <1>1, <1>4, <2>1, <2>2, <2>4
<1>. QED
  BY <1>1, <1>2, <1>3, <1>4, FrontCases

(* What an int can count is never cut off with a negative length.          *)
LEMMA FrontInRange ==
    ASSUME NEW b \in Seq(Byte), InIntRange(b)
    PROVE  packet_from_buffer(b).len >= 0
<1>1. PICK M \in Nat, l \in Nat : M = SizeModulus /\ M >= 16 /\ l = Len(b) /\ 2 * l < M
  BY Modulus, LenIsNat DEF InIntRange
<1>2. ASSUME Framed(b) PROVE ToInt(HeaderSize(b) + HeaderLen) >= 0
  <2>1. PICK size \in 1 .. l - HeaderLen : size = HeaderSize(b)
    BY <1>1, <1>2 DEF Framed
  <2>. QED
    BY <1>1, <2>1 DEF ToInt, HeaderLen
<1>. QED
  BY <1>2, FrontCases DEF NoPacket

(* A packet that is taken is the one the header announces, unless its size *)
(* wraps.                                                                  *)
LEMMA FrontTaken ==
    ASSUME NEW b \in Seq(Byte), ~SizeWraps(b), packet_from_buffer(b).len > 0
    PROVE  LET result == packet_from_buffer(b)
           IN  /\ Framed(b)
               /\ result.len = HeaderSize(b) + HeaderLen
               /\ result.len \in HeaderLen + 1 .. Len(b)
               /\ result.packet = SubSeq(b, HeaderLen + 1, result.len)
               /\ Len(result.packet) = HeaderSize(b)
               /\ result.packet \in Readable
<1>1. PICK M \in Nat, l \in Nat : M = SizeModulus /\ M >= 16 /\ l = Len(b)
  BY Modulus
<1>2. Framed(b) /\ packet_from_buffer(b) = [len    |-> ToInt(HeaderSize(b) + HeaderLen),
                                            packet |-> ParseFromArray(b, HeaderSize(b))]
  BY FrontCases DEF NoPacket
<1>3. PICK size \in 1 .. l - HeaderLen : size = HeaderSize(b) /\ size + HeaderLen < M
  BY <1>1, <1>2, HeaderSizeType DEF Framed, SizeWraps, HeaderLen
<1>4. 2 * (size + HeaderLen) < M /\ ToInt(size + HeaderLen) = size + HeaderLen
  BY <1>1, <1>2, <1>3 DEF ToInt, HeaderLen
<1>5. ToInt(size) = size
  BY <1>1, <1>3, <1>4 DEF ToInt, HeaderLen
<1>6. ParseFromArray(b, size) = SubSeq(b, HeaderLen + 1, HeaderLen + size)
  <2>1. ~(ToInt(size) < 0)
    BY <1>3, <1>5
  <2>. QED
    BY <2>1 DEF ParseFromArray
<1>7. PICK packet \in Seq(Byte) : /\ packet = SubSeq(b, HeaderLen + 1, HeaderLen + size)
                                  /\ Len(packet) = size
  <2>1. size \in Nat /\ HeaderLen + size <= Len(b) /\ HeaderLen + 1 <= HeaderLen + size
    BY <1>1, <1>3 DEF HeaderLen
  <2>2. /\ SubSeq(b, HeaderLen + 1, HeaderLen + size) \in Seq(Byte)
        /\ Len(SubSeq(b, HeaderLen + 1, HeaderLen + size)) = size
    BY <2>1 DEF HeaderLen
  <2>. QED
    BY <2>2
<1>8. packet # <<>> /\ Fits(packet)
  <2>1. Len(<<>>) = 0
    OBVIOUS
  <2>2. Len(packet) = size /\ size # 0
    BY <1>3, <1>7
  <2>3. packet # <<>>
    BY <2>1, <2>2
  <2>4. Fits(packet)
    BY <1>1, <1>4, <2>2 DEF Fits
  <2>. QED
    BY <2>3, <2>4
<1>9. packet \in Readable
  BY <1>7, <1>8 DEF Readable, NonEmpty
<1>10. packet_from_buffer(b).len = size + HeaderLen /\ packet_from_buffer(b).packet = packet
  BY <1>2, <1>3, <1>4, <1>6, <1>7
<1>11. size + HeaderLen \in HeaderLen + 1 .. l /\ size + HeaderLen = HeaderLen + size
  BY <1>1, <1>3 DEF HeaderLen
<1>. QED
  BY <1>1, <1>2, <1>3, <1>7, <1>9, <1>10, <1>11

(***************************************************************************)
(* What packet_to_buffer writes, packet_from_buffer reads back whatever    *)
(* bytes follow it, for every byte base (256 in the program) and every     *)
(* non-empty packet protobuf can serialise; the length it reads is the int *)
(* that is left of the frame's, which the loops take for that of a frame   *)
(* only of packets at least four bytes short of 2^31 (packet.cpp:5-39,     *)
(* 69-85).                                                                 *)
(***************************************************************************)
THEOREM PacketRoundTrip ==
    ASSUME NEW packet \in Seq(Byte), NEW tail \in Seq(Byte), Serialisable(packet)
    PROVE  LET result == packet_from_buffer(packet_to_buffer(packet) \o tail)
           IN  /\ result = [len |-> ToInt(Len(packet) + HeaderLen), packet |-> packet]
               /\ result.len > 0 <=> Fits(packet)
<1> DEFINE size   == Len(packet)
           frame  == packet_to_buffer(packet)
           buffer == frame \o tail
<1>0. PICK M \in Nat : M = SizeModulus /\ M >= 16
  BY Modulus
<1>1. size \in Nat \ {0} /\ 2 * size < M
  BY <1>0, EmptySeq DEF Serialisable
<1>2. Header(size) \in Seq(Byte) /\ Len(Header(size)) = HeaderLen
  BY <1>1, HeaderType
<1>3. frame \in Seq(Byte) /\ Len(frame) = HeaderLen + size
  BY PacketToBufferType
<1>4. \A i \in 1 .. HeaderLen : frame[i] = Header(size)[i]
  BY <1>2, IndexOfConcat DEF packet_to_buffer
<1>5. SubSeq(frame, HeaderLen + 1, HeaderLen + size) = packet
  BY <1>2, SuffixOfConcat DEF packet_to_buffer
<1> HIDE DEF frame
<1>6. buffer \in Seq(Byte) /\ Len(buffer) = HeaderLen + size + Len(tail)
  BY <1>1, <1>3 DEF HeaderLen
<1>7. \A i \in 1 .. HeaderLen : buffer[i] = Header(size)[i]
  BY <1>1, <1>3, <1>4 DEF HeaderLen
<1>8. SubSeq(buffer, HeaderLen + 1, HeaderLen + size) = packet
  BY <1>1, <1>3, <1>5, SubSeqOfConcat1 DEF HeaderLen
<1> HIDE DEF size, buffer
<1>9. size \in 0 .. SizeModulus - 1
  BY <1>0, <1>1
<1>10. HeaderSize(buffer) = size
  BY <1>6, <1>7, <1>9, HeaderSizeOfHeader
<1>11. Framed(buffer) /\ ~SizeWraps(buffer)
  <2>1. Len(tail) \in Nat
    OBVIOUS
  <2>. QED
    BY <1>0, <1>1, <1>6, <1>10, <2>1 DEF Framed, SizeWraps, HeaderLen
<1>12. packet_from_buffer(buffer) = [len |-> ToInt(size + HeaderLen), packet |-> packet]
  <2>1. ToInt(size) = size
    BY <1>0, <1>1 DEF ToInt
  <2>2. ParseFromArray(buffer, size) = packet
    BY <1>1, <1>8, <2>1 DEF ParseFromArray
  <2>. QED
    BY <1>6, <1>10, <1>11, <2>2, FrontCases
<1>13. ToInt(size + HeaderLen) > 0 <=> Fits(packet)
  BY <1>0, <1>1 DEF ToInt, Fits, HeaderLen, size
<1>. QED
  BY <1>12, <1>13 DEF size, buffer, frame

-----------------------------------------------------------------------------
(***************************************************************************)
(* Induction over numbers, as a statement about a set of them.             *)
(***************************************************************************)
LEMMA LeastNumber ==
    ASSUME NEW T, T \subseteq Nat, NEW z \in T
    PROVE  \E x \in T : \A y \in T : x <= y
<1>1. IsWellFoundedOn(OpToRel(<, Nat), Nat)
  BY NatLessThanWellFounded
<1>2. PICK x \in T : \A y \in T : ~ (<<y, x>> \in OpToRel(<, Nat))
  BY <1>1, WFMin, Zenon
<1>3. \A y \in T : <<y, x>> \in OpToRel(<, Nat) <=> y < x
  BY DEF OpToRel
<1>4. \A y \in T : ~(y < x)
  BY <1>2, <1>3
<1>. QED
  BY <1>4

LEMMA SetInduction ==
    ASSUME NEW S, 0 \in S, \A n \in Nat : n \in S => n + 1 \in S
    PROVE  \A n \in Nat : n \in S
<1> DEFINE T == Nat \ S
<1> SUFFICES ASSUME NEW z \in T PROVE FALSE
  OBVIOUS
<1>1. PICK x \in T : \A y \in T : x <= y
  BY LeastNumber
<1>2. x # 0
  OBVIOUS
<1>3. x - 1 \in Nat /\ x - 1 \notin T
  BY <1>1, <1>2
<1>. QED
  BY <1>3

LEMMA RestElements ==
    ASSUME NEW buffer \in Seq(Byte), NEW n \in 0 .. Len(buffer)
    PROVE  /\ Rest(buffer, n) \in Seq(Byte)
           /\ Len(Rest(buffer, n)) = Len(buffer) - n
           /\ \A i \in 1 .. Len(buffer) - n : Rest(buffer, n)[i] = buffer[n + i]
<1>1. \A i \in 1 .. Len(buffer) - n : SubSeq(buffer, n + 1, Len(buffer))[i] = buffer[n + i]
  OBVIOUS
<1>. QED
  BY <1>1, RestType DEF Rest

LEMMA RestOfRest ==
    ASSUME NEW buffer \in Seq(Byte), NEW r \in 0 .. Len(buffer),
           NEW q \in 0 .. Len(buffer) - r
    PROVE  Rest(Rest(buffer, r), q) = Rest(buffer, r + q)
<1>1. PICK rest \in Seq(Byte) : /\ rest = Rest(buffer, r)
                                /\ Len(rest) = Len(buffer) - r
                                /\ \A i \in 1 .. Len(rest) : rest[i] = buffer[r + i]
  BY RestElements
<1>2. r + q \in 0 .. Len(buffer) /\ q \in 0 .. Len(rest)
  BY <1>1
<1>3. PICK s \in Seq(Byte) : /\ s = Rest(rest, q)
                             /\ Len(s) = Len(rest) - q
                             /\ \A i \in 1 .. Len(s) : s[i] = rest[q + i]
  BY <1>2, RestElements
<1>4. PICK t \in Seq(Byte) : /\ t = Rest(buffer, r + q)
                             /\ Len(t) = Len(buffer) - (r + q)
                             /\ \A i \in 1 .. Len(t) : t[i] = buffer[(r + q) + i]
  BY <1>2, RestElements
<1>5. Len(s) = Len(t)
  <2>1. \A l \in Nat : (l - r) - q = l - (r + q)
    OBVIOUS
  <2>2. Len(buffer) \in Nat
    BY LenIsNat
  <2>. QED
    BY <1>1, <1>3, <1>4, <2>1, <2>2
<1>6. ASSUME NEW i \in 1 .. Len(s) PROVE s[i] = t[i]
  <2>1. q + i \in 1 .. Len(rest) /\ r + (q + i) = (r + q) + i
    BY <1>3, <1>2
  <2>. QED
    BY <1>1, <1>3, <1>4, <1>5, <2>1
<1>. QED
  BY <1>1, <1>3, <1>4, <1>5, <1>6, SeqEqual

-----------------------------------------------------------------------------
(***************************************************************************)
(* packets_from_buffer (packet.cpp:41-67): the table its recursive         *)
(* function is defined by exists and is unique, so that the loop can be    *)
(* unfolded.                                                               *)
(***************************************************************************)
FrontLen(buffer, r) == packet_from_buffer(Rest(buffer, r)).len

Turn(buffer, cut, readLength) ==
    LET rest   == Rest(buffer, readLength)
        result == packet_from_buffer(rest)
        next   == ToInt(readLength + result.len)
        found  == IF result.len > 0 THEN <<result.packet>> ELSE <<>>
    IN  IF result.len > 0 /\ next >= 0
        THEN LET more == cut[next]
             IN  [len      |-> more.len,
                  packets  |-> found \o more.packets,
                  overruns |-> SizeWraps(rest) \/ more.overruns]
        ELSE [len |-> next, packets |-> found, overruns |-> SizeWraps(rest)]

LengthsFrom(buffer, first) == {n \in ReadLengths(buffer) : n >= first}

IsCut(buffer, f, first) ==
    f = [readLength \in LengthsFrom(buffer, first) |-> Turn(buffer, f, readLength)]

LEMMA Lengths ==
    ASSUME NEW buffer \in Seq(Byte), NEW r \in ReadLengths(buffer)
    PROVE  /\ r \in 0 .. Len(buffer) /\ 2 * r < SizeModulus
           /\ Rest(buffer, r) \in Seq(Byte) /\ Len(Rest(buffer, r)) = Len(buffer) - r
  BY RestElements DEF ReadLengths

LEMMA FirstLength ==
    ASSUME NEW buffer \in Seq(Byte)
    PROVE  0 \in ReadLengths(buffer) /\ LengthsFrom(buffer, 0) = ReadLengths(buffer)
  BY Modulus, LenIsNat DEF ReadLengths, LengthsFrom

(* Where a turn goes on: behind the frame it cut off, or nowhere.          *)
LEMMA NextLength ==
    ASSUME NEW buffer \in Seq(Byte), NEW r \in ReadLengths(buffer)
    PROVE  LET len  == FrontLen(buffer, r)
               next == ToInt(r + len)
           IN  /\ len \in Int /\ next \in Int /\ len <= Len(buffer) - r
               /\ len <= 0 => next = r + len
               /\ len > 0 /\ next >= 0 =>
                      next = r + len /\ next \in ReadLengths(buffer) /\ next > r
               /\ InIntRange(buffer) => len >= 0 /\ next = r + len
<1>1. PICK M \in Nat, l \in Nat, n \in Nat :
          M = SizeModulus /\ l = Len(buffer) /\ n = r /\ n <= l /\ 2 * n < M /\ M >= 16
  <2>1. r \in 0 .. Len(buffer) /\ 2 * r < SizeModulus
    BY Lengths
  <2>2. r \in Nat /\ Len(buffer) \in Nat /\ r <= Len(buffer)
    BY <2>1, LenIsNat
  <2>. QED
    BY <2>1, <2>2, Modulus
<1>2. PICK rest \in Seq(Byte) : rest = Rest(buffer, r) /\ Len(rest) = l - n
  BY <1>1, Lengths
<1>3. PICK len \in Int : len = FrontLen(buffer, r) /\ len <= l - n /\ 2 * len < M /\ -M <= 2 * len
  BY <1>1, <1>2, FrontBounds DEF FrontLen
<1>4. InIntRange(buffer) => len >= 0 /\ 2 * l < M
  <2>1. ASSUME InIntRange(buffer) PROVE len >= 0 /\ 2 * l < M
    <3>1. InIntRange(rest) /\ 2 * l < M
      BY <1>1, <1>2, <2>1 DEF InIntRange
    <3>. QED
      BY <1>2, <1>3, <3>1, FrontInRange DEF FrontLen
  <2>. QED
    BY <2>1
<1>5. ToInt(n + len) = IF 2 * (n + len) < M THEN n + len ELSE n + len - M
  BY <1>1 DEF ToInt
<1>6. n + len \in Nat /\ n + len <= l /\ 2 * (n + len) < M => n + len \in ReadLengths(buffer)
  BY <1>1 DEF ReadLengths
<1>. QED
  BY <1>1, <1>3, <1>4, <1>5, <1>6

LEMMA TurnDependsOn ==
    ASSUME NEW buffer \in Seq(Byte), NEW f, NEW g, NEW r \in ReadLengths(buffer),
           \A q \in ReadLengths(buffer) : q > r => f[q] = g[q]
    PROVE  Turn(buffer, f, r) = Turn(buffer, g, r)
  BY NextLength DEF Turn, FrontLen

LEMMA CutExtends ==
    ASSUME NEW buffer \in Seq(Byte), NEW first \in Nat,
           NEW g, IsCut(buffer, g, first + 1)
    PROVE  \E f : IsCut(buffer, f, first)
<1> DEFINE D == LengthsFrom(buffer, first)
           f == [r \in D |-> IF r = first THEN Turn(buffer, g, r) ELSE g[r]]
<1>1. ASSUME NEW r \in D PROVE f[r] = Turn(buffer, f, r)
  <2>1. r \in ReadLengths(buffer) /\ r >= first /\ r \in Nat
    BY Lengths DEF LengthsFrom
  <2>2. \A q \in ReadLengths(buffer) : q > r => q \in D /\ q # first /\ f[q] = g[q]
    BY <2>1, Lengths DEF LengthsFrom
  <2>3. r # first => r \in LengthsFrom(buffer, first + 1)
    BY <2>1 DEF LengthsFrom
  <2>4. f[r] = Turn(buffer, g, r)
    BY <2>3 DEF IsCut
  <2> HIDE DEF f
  <2>5. Turn(buffer, f, r) = Turn(buffer, g, r)
    BY <2>1, <2>2, TurnDependsOn
  <2>. QED
    BY <2>4, <2>5
<1>2. DOMAIN f = D /\ f = [r \in DOMAIN f |-> f[r]]
  OBVIOUS
<1> HIDE DEF f
<1>3. f = [r \in D |-> Turn(buffer, f, r)]
  BY <1>1, <1>2
<1>. QED
  BY <1>3 DEF IsCut

LEMMA CutExists ==
    ASSUME NEW buffer \in Seq(Byte)
    PROVE  \E f : IsCut(buffer, f, 0)
<1> DEFINE l == Len(buffer)
           S == {k \in Nat : k <= l + 1 => \E f : IsCut(buffer, f, (l + 1) - k)}
<1>0. l \in Nat
  BY LenIsNat
<1> HIDE DEF l
<1>1. 0 \in S
  <2>1. LengthsFrom(buffer, l + 1) = {}
    BY <1>0, Lengths DEF LengthsFrom, l
  <2> DEFINE f == [r \in {} |-> <<>>]
  <2>2. f = [r \in {} |-> Turn(buffer, f, r)]
    OBVIOUS
  <2> HIDE DEF f
  <2>3. IsCut(buffer, f, l + 1)
    BY <2>1, <2>2 DEF IsCut
  <2>4. (l + 1) - 0 = l + 1
    BY <1>0
  <2>. QED
    BY <2>3, <2>4
<1>2. ASSUME NEW k \in Nat, k \in S PROVE k + 1 \in S
  <2>1. SUFFICES ASSUME k + 1 <= l + 1 PROVE \E f : IsCut(buffer, f, (l + 1) - (k + 1))
    OBVIOUS
  <2>2. PICK g : IsCut(buffer, g, (l + 1) - k)
    BY <1>0, <1>2, <2>1
  <2>3. (l + 1) - (k + 1) \in Nat /\ ((l + 1) - (k + 1)) + 1 = (l + 1) - k
    BY <1>0, <2>1
  <2>. QED
    BY <2>2, <2>3, CutExtends
<1> HIDE DEF S
<1>3. l + 1 \in S
  BY <1>0, <1>1, <1>2, SetInduction
<1>4. (l + 1) - (l + 1) = 0 /\ l + 1 <= l + 1
  BY <1>0
<1>. QED
  BY <1>3, <1>4 DEF S

(* The table of packets_from_buffer.                                       *)
Cut(buffer) == CHOOSE f : f = [readLength \in ReadLengths(buffer) |-> Turn(buffer, f, readLength)]

LEMMA CutOfBuffer ==
    ASSUME NEW buffer \in Seq(Byte)
    PROVE  /\ Cut(buffer) = [readLength \in ReadLengths(buffer) |-> Turn(buffer, Cut(buffer), readLength)]
           /\ packets_from_buffer(buffer) = Cut(buffer)[0]
<1>1. \E f : f = [readLength \in ReadLengths(buffer) |-> Turn(buffer, f, readLength)]
  BY CutExists, FirstLength DEF IsCut
<1>2. packets_from_buffer(buffer) = Cut(buffer)[0]
  BY DEF packets_from_buffer, Turn, Cut
<1>. QED
  BY <1>1, <1>2 DEF Cut

(* What holds of a length if it holds of all that are greater, holds of    *)
(* every one.                                                              *)
LEMMA CutInduction ==
    ASSUME NEW buffer \in Seq(Byte), NEW Good,
           \A r \in ReadLengths(buffer) :
               (\A q \in ReadLengths(buffer) : q > r => q \in Good) => r \in Good
    PROVE  \A r \in ReadLengths(buffer) : r \in Good
<1> DEFINE S == {k \in Nat : \A r \in ReadLengths(buffer) : Len(buffer) - r < k => r \in Good}
<1>1. \A r \in ReadLengths(buffer) : r \in Nat /\ Len(buffer) - r \in Nat
  BY LenIsNat, Lengths
<1>2. 0 \in S
  BY <1>1
<1>3. ASSUME NEW k \in Nat, k \in S PROVE k + 1 \in S
  <2>1. ASSUME NEW r \in ReadLengths(buffer), Len(buffer) - r < k + 1 PROVE r \in Good
    <3>1. ASSUME NEW q \in ReadLengths(buffer), q > r PROVE q \in Good
      <4>1. Len(buffer) - q < k
        BY <1>1, <2>1, <3>1, LenIsNat
      <4>. QED
        BY <1>3, <4>1
    <3>. QED
      BY <3>1
  <2>. QED
    BY <2>1
<1> HIDE DEF S
<1>4. Len(buffer) + 1 \in S
  BY <1>2, <1>3, SetInduction, LenIsNat
<1>5. \A r \in ReadLengths(buffer) : Len(buffer) - r < Len(buffer) + 1
  BY <1>1, LenIsNat
<1>. QED
  BY <1>4, <1>5 DEF S

LEMMA CutUnique ==
    ASSUME NEW buffer \in Seq(Byte), NEW f,
           f = [readLength \in ReadLengths(buffer) |-> Turn(buffer, f, readLength)]
    PROVE  f = Cut(buffer)
<1>1. PICK g : g = Cut(buffer) /\ g = [readLength \in ReadLengths(buffer) |-> Turn(buffer, g, readLength)]
  BY CutOfBuffer
<1> DEFINE Good == {r \in ReadLengths(buffer) : f[r] = g[r]}
<1>2. ASSUME NEW r \in ReadLengths(buffer), \A q \in ReadLengths(buffer) : q > r => q \in Good
      PROVE  r \in Good
  <2>1. \A q \in ReadLengths(buffer) : q > r => f[q] = g[q]
    BY <1>2
  <2>2. Turn(buffer, f, r) = Turn(buffer, g, r)
    BY <2>1, TurnDependsOn
  <2>. QED
    BY <1>1, <2>2
<1> HIDE DEF Good
<1>3. \A r \in ReadLengths(buffer) : r \in Good
  BY <1>2, CutInduction
<1>4. \A r \in ReadLengths(buffer) : f[r] = g[r]
  BY <1>3 DEF Good
<1>5. /\ f = [r \in ReadLengths(buffer) |-> f[r]]
      /\ g = [r \in ReadLengths(buffer) |-> g[r]]
  BY <1>1
<1>. QED
  BY <1>1, <1>4, <1>5

ParseResult == [len : Int, packets : Seq(Seq(Byte)), overruns : BOOLEAN]

LEMMA WrapsIsBoolean == \A b : SizeWraps(b) \in BOOLEAN
  BY DEF SizeWraps

LEMMA CutType ==
    ASSUME NEW buffer \in Seq(Byte)
    PROVE  \A r \in ReadLengths(buffer) :
               Cut(buffer)[r] \in ParseResult /\ Cut(buffer)[r].len <= Len(buffer)
<1> DEFINE f == Cut(buffer)
           Good == {r \in ReadLengths(buffer) : f[r] \in ParseResult /\ f[r].len <= Len(buffer)}
<1>0. \A r \in ReadLengths(buffer) : f[r] = Turn(buffer, f, r)
  BY CutOfBuffer
<1> HIDE DEF f
<1>1. ASSUME NEW r \in ReadLengths(buffer), \A q \in ReadLengths(buffer) : q > r => q \in Good
      PROVE  r \in Good
  <2>1. PICK rest \in Seq(Byte) : rest = Rest(buffer, r)
    BY Lengths
  <2>2. PICK len \in Int, packet \in Seq(Byte), l \in Nat :
            len = packet_from_buffer(rest).len /\ packet = packet_from_buffer(rest).packet /\ l = Len(buffer)
    BY FrontBounds, LenIsNat
  <2>3. PICK next \in Int : /\ next = ToInt(r + len)
                            /\ len <= 0 => next = r + len
                            /\ len > 0 /\ next >= 0 => next \in ReadLengths(buffer) /\ next > r
                            /\ len <= l - r
    BY <2>1, <2>2, NextLength DEF FrontLen
  <2>4. r \in Nat /\ <<packet>> \in Seq(Seq(Byte)) /\ <<>> \in Seq(Seq(Byte)) /\ SizeWraps(rest) \in BOOLEAN
    BY Lengths, WrapsIsBoolean
  <2>5. CASE len > 0 /\ next >= 0
    <3>1. PICK more \in ParseResult : more = f[next] /\ more.len <= l
      BY <1>1, <2>2, <2>3, <2>5
    <3>2. f[r] = [len |-> more.len, packets |-> <<packet>> \o more.packets,
                  overruns |-> SizeWraps(rest) \/ more.overruns]
      BY <1>0, <2>1, <2>2, <2>3, <2>5, <3>1 DEF Turn
    <3>3. more.len \in Int /\ more.packets \in Seq(Seq(Byte)) /\ more.overruns \in BOOLEAN
      BY DEF ParseResult
    <3>4. <<packet>> \o more.packets \in Seq(Seq(Byte))
      BY <2>4, <3>3, ConcatProperties
    <3>5. (SizeWraps(rest) \/ more.overruns) \in BOOLEAN
      OBVIOUS
    <3>6. f[r] \in ParseResult
      BY <3>2, <3>3, <3>4, <3>5 DEF ParseResult
    <3>7. f[r].len <= Len(buffer)
      BY <2>2, <3>1, <3>2
    <3>. QED
      BY <3>6, <3>7
  <2>6. CASE ~(len > 0 /\ next >= 0)
    <3>1. PICK found \in Seq(Seq(Byte)) : found = IF len > 0 THEN <<packet>> ELSE <<>>
      BY <2>4
    <3>2. f[r] = [len |-> next, packets |-> found, overruns |-> SizeWraps(rest)]
      BY <1>0, <2>1, <2>2, <2>3, <2>6, <3>1 DEF Turn
    <3>3. next <= l
      BY <2>2, <2>3, <2>4, <2>6
    <3>4. f[r] \in ParseResult
      BY <2>4, <3>2 DEF ParseResult
    <3>5. f[r].len <= Len(buffer)
      BY <2>2, <3>2, <3>3
    <3>. QED
      BY <3>4, <3>5
  <2>. QED
    BY <2>5, <2>6
<1> HIDE DEF Good
<1>2. \A r \in ReadLengths(buffer) : r \in Good
  BY <1>1, CutInduction
<1>. QED
  BY <1>2 DEF Good, f

(* A turn of the loop, by fields: the last one, the one that overflows, and *)
(* one that goes on.                                                       *)
LEMMA CutStops ==
    ASSUME NEW buffer \in Seq(Byte), NEW r \in ReadLengths(buffer),
           FrontLen(buffer, r) <= 0
    PROVE  /\ Cut(buffer)[r].len = r + FrontLen(buffer, r)
           /\ Cut(buffer)[r].packets = <<>>
           /\ Cut(buffer)[r].overruns = SizeWraps(Rest(buffer, r))
<1>1. Cut(buffer)[r] = Turn(buffer, Cut(buffer), r)
  BY CutOfBuffer
<1>2. PICK len \in Int : len = FrontLen(buffer, r) /\ len <= 0 /\ ToInt(r + len) = r + len
  BY NextLength
<1>3. Cut(buffer)[r] = [len |-> r + len, packets |-> <<>>,
                        overruns |-> SizeWraps(Rest(buffer, r))]
  BY <1>1, <1>2 DEF Turn, FrontLen
<1>. QED
  BY <1>2, <1>3

LEMMA CutOverflows ==
    ASSUME NEW buffer \in Seq(Byte), NEW r \in ReadLengths(buffer),
           FrontLen(buffer, r) > 0, ToInt(r + FrontLen(buffer, r)) < 0
    PROVE  /\ Cut(buffer)[r].len = ToInt(r + FrontLen(buffer, r))
           /\ Cut(buffer)[r].packets = <<packet_from_buffer(Rest(buffer, r)).packet>>
           /\ Cut(buffer)[r].overruns = SizeWraps(Rest(buffer, r))
<1>1. Cut(buffer)[r] = Turn(buffer, Cut(buffer), r)
  BY CutOfBuffer
<1>2. PICK len \in Int, next \in Int :
          len = FrontLen(buffer, r) /\ len > 0 /\ next = ToInt(r + len) /\ next < 0
  BY NextLength
<1>3. Cut(buffer)[r] = [len |-> next, packets |-> <<packet_from_buffer(Rest(buffer, r)).packet>>,
                        overruns |-> SizeWraps(Rest(buffer, r))]
  BY <1>1, <1>2 DEF Turn, FrontLen
<1>. QED
  BY <1>2, <1>3

LEMMA CutGoesOn ==
    ASSUME NEW buffer \in Seq(Byte), NEW r \in ReadLengths(buffer), NEW next \in Int,
           FrontLen(buffer, r) > 0, next = ToInt(r + FrontLen(buffer, r)), next >= 0
    PROVE  /\ Cut(buffer)[r].len = Cut(buffer)[next].len
           /\ Cut(buffer)[r].packets =
                  <<packet_from_buffer(Rest(buffer, r)).packet>> \o Cut(buffer)[next].packets
           /\ Cut(buffer)[r].overruns =
                  (SizeWraps(Rest(buffer, r)) \/ Cut(buffer)[next].overruns)
<1>1. Cut(buffer)[r] = Turn(buffer, Cut(buffer), r)
  BY CutOfBuffer
<1>2. PICK more : more = Cut(buffer)[next]
  OBVIOUS
<1>3. Turn(buffer, Cut(buffer), r) =
          [len |-> more.len,
           packets |-> <<packet_from_buffer(Rest(buffer, r)).packet>> \o more.packets,
           overruns |-> SizeWraps(Rest(buffer, r)) \/ more.overruns]
  BY <1>2 DEF Turn, FrontLen
<1>. QED
  BY <1>1, <1>2, <1>3

LEMMA ParseFields ==
    ASSUME NEW b \in Seq(Byte)
    PROVE  LET result == packets_from_buffer(b)
           IN  /\ result.len \in Int /\ result.len <= Len(b)
               /\ result.packets \in Seq(Seq(Byte))
               /\ result.overruns \in BOOLEAN
               /\ result = [len |-> result.len, packets |-> result.packets, overruns |-> result.overruns]
<1>1. PICK result \in ParseResult : result = packets_from_buffer(b) /\ result.len <= Len(b)
  BY CutOfBuffer, CutType, FirstLength
<1>2. /\ result.len \in Int /\ result.packets \in Seq(Seq(Byte)) /\ result.overruns \in BOOLEAN
      /\ result = [len |-> result.len, packets |-> result.packets, overruns |-> result.overruns]
  BY DEF ParseResult
<1>. QED
  BY <1>1, <1>2

-----------------------------------------------------------------------------
LEMMA RestOfNothing ==
    ASSUME NEW b \in Seq(Byte)
    PROVE  Rest(b, 0) = b
<1>1. SubSeq(b, 0 + 1, Len(b)) = b
  OBVIOUS
<1>. QED
  BY <1>1 DEF Rest

(***************************************************************************)
(* The loop finds nothing where packet_from_buffer returns a length that   *)
(* is not positive, the negative one of a frame of 2^31 bytes or more      *)
(* included, and returns that length: a buffer that a client fills with    *)
(* such a frame is kept for ever (packet.cpp:48-55,62).                    *)
(***************************************************************************)
THEOREM ParsesNothing ==
    ASSUME NEW b \in Seq(Byte), packet_from_buffer(b).len <= 0
    PROVE  packets_from_buffer(b) = [len      |-> packet_from_buffer(b).len,
                                     packets  |-> <<>>,
                                     overruns |-> SizeWraps(b)]
<1>1. PICK len \in Int : len = packet_from_buffer(b).len /\ len <= 0
  BY FrontBounds
<1>2. PICK result : result = packets_from_buffer(b) /\ result = Cut(b)[0]
  BY CutOfBuffer
<1>3. /\ result.len = 0 + len /\ result.packets = <<>>
      /\ result.overruns = SizeWraps(b)
  BY <1>1, <1>2, CutStops, FirstLength, RestOfNothing DEF FrontLen
<1>4. result = [len |-> result.len, packets |-> result.packets, overruns |-> result.overruns]
  BY <1>2, ParseFields
<1>. QED
  BY <1>1, <1>2, <1>3, <1>4

(* Below 2^31 bytes, what the loop does from some place on depends only on *)
(* the bytes from there on.                                                *)
LEMMA CutOfRest ==
    ASSUME NEW b \in Seq(Byte), InIntRange(b), NEW r \in 0 .. Len(b)
    PROVE  LET rest == Rest(b, r)
           IN  \A k \in ReadLengths(rest) :
                   /\ r + k \in ReadLengths(b)
                   /\ Cut(b)[r + k].len = r + Cut(rest)[k].len
                   /\ Cut(b)[r + k].packets = Cut(rest)[k].packets
                   /\ Cut(b)[r + k].overruns = Cut(rest)[k].overruns
<1>1. PICK M \in Nat, l \in Nat, n \in Nat :
          M = SizeModulus /\ l = Len(b) /\ n = r /\ n <= l /\ 2 * l < M
  BY Modulus, LenIsNat DEF InIntRange
<1>2. PICK rest \in Seq(Byte) : rest = Rest(b, r) /\ Len(rest) = l - n
  BY <1>1, RestElements
<1>3. InIntRange(rest)
  BY <1>1, <1>2 DEF InIntRange
<1>4. ASSUME NEW k \in ReadLengths(rest)
      PROVE  /\ k \in 0 .. l - n /\ n + k \in 0 .. l /\ n + k \in ReadLengths(b)
             /\ Rest(rest, k) = Rest(b, n + k)
  <2>1. k \in 0 .. l - n
    BY <1>2, Lengths
  <2>2. n + k \in 0 .. l
    BY <1>1, <2>1
  <2>3. n + k \in ReadLengths(b)
    BY <1>1, <2>2 DEF ReadLengths
  <2>4. Rest(rest, k) = Rest(b, n + k)
    BY <1>1, <1>2, <2>1, RestOfRest
  <2>. QED
    BY <2>1, <2>2, <2>3, <2>4
<1> DEFINE Good == {k \in ReadLengths(rest) :
                        /\ Cut(b)[n + k].len = n + Cut(rest)[k].len
                        /\ Cut(b)[n + k].packets = Cut(rest)[k].packets
                        /\ Cut(b)[n + k].overruns = Cut(rest)[k].overruns}
<1>5. ASSUME NEW k \in ReadLengths(rest),
             \A q \in ReadLengths(rest) : q > k => q \in Good
      PROVE  k \in Good
  <2>1. PICK here \in Seq(Byte) : here = Rest(rest, k) /\ here = Rest(b, n + k)
    BY <1>2, <1>4, Lengths
  <2>2. PICK len \in Int : len = packet_from_buffer(here).len
    BY <2>1, FrontBounds
  <2>7. PICK packet : packet = packet_from_buffer(here).packet
    OBVIOUS
  <2>0. FrontLen(rest, k) = len /\ FrontLen(b, n + k) = len /\ k \in Nat
    BY <1>4, <2>1, <2>2 DEF FrontLen
  <2>3. /\ len >= 0 /\ ToInt(k + len) = k + len
        /\ len > 0 => k + len \in ReadLengths(rest) /\ k + len > k
    <3>1. len >= 0 /\ ToInt(k + len) = k + len
      BY <1>3, <2>0, NextLength
    <3>2. ASSUME len > 0 PROVE k + len \in ReadLengths(rest) /\ k + len > k
      <4>1. FrontLen(rest, k) > 0 /\ ToInt(k + FrontLen(rest, k)) >= 0
        BY <2>0, <3>1, <3>2
      <4>2. ToInt(k + FrontLen(rest, k)) = k + len /\ k \in ReadLengths(rest)
        BY <2>0, <3>1
      <4>. QED
        BY <3>2, <2>0, <4>1, <4>2, NextLength
    <3>. QED
      BY <3>1, <3>2
  <2>4. ToInt(n + k + len) = n + k + len
    BY <1>1, <1>2, <1>4, <2>0, NextLength
  <2>5. CASE len <= 0
    <3>1. /\ Cut(rest)[k].len = k + len /\ Cut(rest)[k].packets = <<>>
          /\ Cut(rest)[k].overruns = SizeWraps(here)
      BY <1>2, <2>1, <2>2, <2>5, CutStops DEF FrontLen
    <3>2. /\ Cut(b)[n + k].len = n + k + len /\ Cut(b)[n + k].packets = <<>>
          /\ Cut(b)[n + k].overruns = SizeWraps(here)
      <4>1. FrontLen(b, n + k) = len
        BY <2>1, <2>2 DEF FrontLen
      <4>2. n + k \in ReadLengths(b)
        BY <1>4
      <4>. QED
        BY <2>1, <2>5, <4>1, <4>2, CutStops
    <3>. QED
      BY <1>1, <1>4, <3>1, <3>2
  <2>6. CASE len > 0
    <3>1. k + len \in Good
      BY <1>5, <2>3, <2>6
    <3>2. PICK more : more = Cut(rest)[k + len]
      OBVIOUS
    <3>3. PICK behind : /\ behind = Cut(b)[n + (k + len)] /\ behind.len = n + more.len
                        /\ behind.packets = more.packets /\ behind.overruns = more.overruns
      BY <3>1, <3>2
    <3>4. n + (k + len) = n + k + len /\ k + len >= 0 /\ n + k + len >= 0
      BY <1>1, <1>4, <2>3, <2>6
    <3>5. /\ Cut(rest)[k].len = more.len /\ Cut(rest)[k].packets = <<packet>> \o more.packets
          /\ Cut(rest)[k].overruns = (SizeWraps(here) \/ more.overruns)
      <4>1. k + len \in Int
        BY <2>0
      <4>2. /\ FrontLen(rest, k) > 0 /\ k + len = ToInt(k + FrontLen(rest, k)) /\ k + len >= 0
        BY <2>0, <2>3, <2>6, <3>4
      <4>3. /\ Cut(rest)[k].len = Cut(rest)[k + len].len
            /\ Cut(rest)[k].packets = <<packet_from_buffer(Rest(rest, k)).packet>> \o Cut(rest)[k + len].packets
            /\ Cut(rest)[k].overruns = (SizeWraps(Rest(rest, k)) \/ Cut(rest)[k + len].overruns)
        BY <4>1, <4>2, CutGoesOn
      <4>. QED
        BY <2>1, <2>7, <3>2, <4>3
    <3>6. /\ Cut(b)[n + k].len = behind.len /\ Cut(b)[n + k].packets = <<packet>> \o behind.packets
          /\ Cut(b)[n + k].overruns = (SizeWraps(here) \/ behind.overruns)
      <4>1. n + k \in ReadLengths(b) /\ n + k + len \in Int
        BY <1>1, <1>4
      <4>2. /\ FrontLen(b, n + k) > 0 /\ n + k + len = ToInt(n + k + FrontLen(b, n + k))
            /\ n + k + len >= 0
        BY <2>0, <2>4, <2>6, <3>4
      <4>3. /\ Cut(b)[n + k].len = Cut(b)[n + k + len].len
            /\ Cut(b)[n + k].packets = <<packet_from_buffer(Rest(b, n + k)).packet>> \o Cut(b)[n + k + len].packets
            /\ Cut(b)[n + k].overruns = (SizeWraps(Rest(b, n + k)) \/ Cut(b)[n + k + len].overruns)
        BY <4>1, <4>2, CutGoesOn
      <4>. QED
        BY <2>1, <2>7, <3>3, <3>4, <4>3
    <3>. QED
      BY <3>3, <3>5, <3>6
  <2>. QED
    BY <2>5, <2>6
<1> HIDE DEF Good
<1>6. \A k \in ReadLengths(rest) : k \in Good
  BY <1>2, <1>5, CutInduction
<1>. QED
  BY <1>1, <1>2, <1>4, <1>6 DEF Good

(***************************************************************************)
(* In a buffer of fewer than 2^31 bytes the loop cuts off the first packet *)
(* and goes on behind it, even when the size of that packet wraps and the  *)
(* length is the few bytes the wrapped sum says (packet.cpp:48-55).        *)
(***************************************************************************)
THEOREM ParsesFirst ==
    ASSUME NEW b \in Seq(Byte), InIntRange(b), packet_from_buffer(b).len > 0
    PROVE  LET result == packet_from_buffer(b)
               more   == packets_from_buffer(Rest(b, result.len))
           IN  packets_from_buffer(b) =
                   [len      |-> result.len + more.len,
                    packets  |-> <<result.packet>> \o more.packets,
                    overruns |-> SizeWraps(b) \/ more.overruns]
<1>1. PICK len \in Int : len = packet_from_buffer(b).len /\ len > 0 /\ len <= Len(b)
  BY FrontBounds
<1>0. PICK packet : packet = packet_from_buffer(b).packet
  OBVIOUS
<1>2. len \in 0 .. Len(b)
  BY <1>1, LenIsNat
<1>3. PICK rest \in Seq(Byte) : rest = Rest(b, len)
  BY <1>2, RestElements
<1>4. PICK more : more = packets_from_buffer(rest) /\ more = Cut(rest)[0]
  BY CutOfBuffer
<1>5. /\ len + 0 \in ReadLengths(b) /\ Cut(b)[len + 0].len = len + more.len
      /\ Cut(b)[len + 0].packets = more.packets /\ Cut(b)[len + 0].overruns = more.overruns
  BY <1>2, <1>3, <1>4, CutOfRest, FirstLength
<1>6. PICK behind : /\ behind = Cut(b)[len] /\ behind.len = len + more.len
                    /\ behind.packets = more.packets /\ behind.overruns = more.overruns
  BY <1>1, <1>5
<1>7. 0 \in ReadLengths(b) /\ Rest(b, 0) = b
  BY FirstLength, RestOfNothing
<1>8. ToInt(0 + len) = 0 + len /\ 0 + len = len
  BY <1>1, <1>7, NextLength DEF FrontLen
<1>9. PICK result : result = packets_from_buffer(b) /\ result = Cut(b)[0]
  BY CutOfBuffer
<1>10. /\ result.len = behind.len /\ result.packets = <<packet>> \o behind.packets
       /\ result.overruns = (SizeWraps(b) \/ behind.overruns)
  <2>1. FrontLen(b, 0) = len /\ len \in Int /\ ToInt(0 + FrontLen(b, 0)) = len
    BY <1>1, <1>7, <1>8 DEF FrontLen
  <2>2. /\ Cut(b)[0].len = Cut(b)[len].len
        /\ Cut(b)[0].packets = <<packet_from_buffer(Rest(b, 0)).packet>> \o Cut(b)[len].packets
        /\ Cut(b)[0].overruns = (SizeWraps(Rest(b, 0)) \/ Cut(b)[len].overruns)
    <3>1. PICK zero \in ReadLengths(b) : zero = 0
      BY <1>7
    <3>2. /\ FrontLen(b, zero) > 0 /\ len = ToInt(zero + FrontLen(b, zero))
          /\ len >= 0 /\ len \in Int
      BY <1>1, <2>1, <3>1
    <3>3. /\ Cut(b)[zero].len = Cut(b)[len].len
          /\ Cut(b)[zero].packets =
                 <<packet_from_buffer(Rest(b, zero)).packet>> \o Cut(b)[len].packets
          /\ Cut(b)[zero].overruns = (SizeWraps(Rest(b, zero)) \/ Cut(b)[len].overruns)
      BY <3>2, CutGoesOn
    <3>. QED
      BY <3>1, <3>3
  <2>. QED
    BY <1>0, <1>6, <1>7, <1>9, <2>2
<1>11. result = [len |-> result.len, packets |-> result.packets, overruns |-> result.overruns]
  BY <1>9, ParseFields
<1>. QED
  BY <1>0, <1>1, <1>3, <1>4, <1>6, <1>9, <1>10, <1>11
-----------------------------------------------------------------------------
(***************************************************************************)
(* FlattenSeq over concatenations.                                         *)
(***************************************************************************)
FlatTable(seqs, f, last) ==
    f = [i \in 1 .. last |-> IF i = 1 THEN seqs[i] ELSE f[i - 1] \o seqs[i]]

LEMMA FlatTableExists ==
    ASSUME NEW seqs, NEW n \in Nat
    PROVE  \E f : FlatTable(seqs, f, n)
<1> DEFINE S == {k \in Nat : \E f : FlatTable(seqs, f, k)}
           Entry(f, i) == IF i = 1 THEN seqs[i] ELSE f[i - 1] \o seqs[i]
<1>1. 0 \in S
  <2> DEFINE f == [i \in 1 .. 0 |-> <<>>]
  <2>1. f = [i \in 1 .. 0 |-> Entry(f, i)]
    BY \A i : i \notin 1 .. 0
  <2>. QED
    BY <2>1 DEF FlatTable
<1>2. ASSUME NEW k \in Nat, k \in S PROVE k + 1 \in S
  <2>1. PICK f : FlatTable(seqs, f, k)
    BY <1>2
  <2>2. \A i \in 1 .. k : f[i] = Entry(f, i)
    BY <2>1 DEF FlatTable
  <2> DEFINE g == [i \in 1 .. k + 1 |-> IF i = k + 1 THEN Entry(f, i) ELSE f[i]]
  <2>3. ASSUME NEW i \in 1 .. k + 1 PROVE g[i] = Entry(g, i)
    <3>1. i # 1 => i - 1 \in 1 .. k /\ g[i - 1] = f[i - 1]
      OBVIOUS
    <3>2. Entry(g, i) = Entry(f, i)
      <4> HIDE DEF g
      <4>. QED BY <3>1
    <3>3. g[i] = Entry(f, i)
      <4> HIDE DEF Entry
      <4>. QED BY <2>2
    <3>. QED
      BY <3>2, <3>3
  <2>4. DOMAIN g = 1 .. k + 1 /\ g = [i \in DOMAIN g |-> g[i]]
    OBVIOUS
  <2> HIDE DEF g
  <2>5. g = [i \in 1 .. k + 1 |-> Entry(g, i)]
    BY <2>3, <2>4
  <2>6. FlatTable(seqs, g, k + 1)
    BY <2>5 DEF FlatTable
  <2>. QED
    BY <2>6
<1> HIDE DEF S
<1>3. n \in S
  BY <1>1, <1>2, SetInduction
<1>. QED
  BY <1>3 DEF S

LEMMA FlattenTable ==
    ASSUME NEW seqs, Len(seqs) \in Nat \ {0}
    PROVE  \E f : FlatTable(seqs, f, Len(seqs)) /\ FlattenSeq(seqs) = f[Len(seqs)]
<1> DEFINE flatten == CHOOSE f : f = [i \in 1 .. Len(seqs) |->
                                        IF i = 1 THEN seqs[i] ELSE f[i - 1] \o seqs[i]]
<1>1. flatten = [i \in 1 .. Len(seqs) |-> IF i = 1 THEN seqs[i] ELSE flatten[i - 1] \o seqs[i]]
  BY FlatTableExists DEF FlatTable
<1>2. FlattenSeq(seqs) = flatten[Len(seqs)]
  BY DEF FlattenSeq
<1> HIDE DEF flatten
<1>. QED
  BY <1>1, <1>2 DEF FlatTable

LongerTable(t, g, m) == FlatTable(t, g, m + 1)

AgreeUpTo(s, t, m) == \A i \in 1 .. m : s[i] = t[i]

(* Tables of a sequence and of a longer one agree on the shorter.          *)
LEMMA FlatTablesAgree ==
    ASSUME NEW m \in Nat, NEW s, NEW t, AgreeUpTo(s, t, m),
           NEW f, FlatTable(s, f, m), NEW g, LongerTable(t, g, m)
    PROVE  AgreeUpTo(f, g, m)
<1> DEFINE S == {k \in Nat : k \in 1 .. m => f[k] = g[k]}
<1>1. 0 \in S
  OBVIOUS
<1>2. ASSUME NEW k \in Nat, k \in S PROVE k + 1 \in S
  <2>1. SUFFICES ASSUME k + 1 \in 1 .. m PROVE f[k + 1] = g[k + 1]
    OBVIOUS
  <2>2. f[k + 1] = IF k + 1 = 1 THEN s[k + 1] ELSE f[(k + 1) - 1] \o s[k + 1]
    BY <2>1 DEF FlatTable
  <2>3. g[k + 1] = IF k + 1 = 1 THEN t[k + 1] ELSE g[(k + 1) - 1] \o t[k + 1]
    <3>1. k + 1 \in 1 .. m + 1
      BY <2>1
    <3>. QED
      BY <3>1 DEF FlatTable, LongerTable
  <2>4. (k + 1) - 1 = k /\ s[k + 1] = t[k + 1]
    BY <2>1 DEF AgreeUpTo
  <2>5. k + 1 # 1 => f[k] = g[k]
    BY <1>2, <2>1
  <2>. QED
    BY <2>2, <2>3, <2>4, <2>5
<1> HIDE DEF S
<1>3. \A k \in Nat : k \in S
  BY <1>1, <1>2, SetInduction
<1>. QED
  BY <1>3 DEF S, AgreeUpTo

LEMMA FlattenEmpty == FlattenSeq(<<>>) = <<>>
BY DEF FlattenSeq

LEMMA FlattenAppendOne ==
    ASSUME NEW S, NEW s \in Seq(Seq(S)), NEW x \in Seq(S), FlattenSeq(s) \in Seq(S)
    PROVE  FlattenSeq(Append(s, x)) = FlattenSeq(s) \o x
<1> DEFINE t == Append(s, x)
           n == Len(s)
<1>1. /\ n \in Nat /\ Len(t) = n + 1 /\ t[n + 1] = x
      /\ \A i \in 1 .. n : s[i] = t[i]
  OBVIOUS
<1> HIDE DEF t
<1>2. PICK g : FlatTable(t, g, n + 1) /\ FlattenSeq(t) = g[n + 1]
  BY <1>1, FlattenTable
<1>3. n + 1 \in 1 .. n + 1 /\ (n + 1) - 1 = n
  BY <1>1
<1>4. g[n + 1] = IF n + 1 = 1 THEN x ELSE g[n] \o x
  BY <1>1, <1>2, <1>3 DEF FlatTable
<1>5. CASE n = 0
  <2>1. s = <<>>
    BY <1>5, EmptySeq
  <2>. QED
    BY <1>2, <1>4, <1>5, <2>1, FlattenEmpty, ConcatEmptySeq DEF t
<1>6. CASE n # 0
  <2>1. PICK f : FlatTable(s, f, n) /\ FlattenSeq(s) = f[n]
    BY <1>1, <1>6, FlattenTable
  <2>2. f[n] = g[n]
    <3>1. \A i \in 1 .. n : f[i] = g[i]
      <4>1. PICK m \in Nat : m = n
        BY <1>1
      <4>2. AgreeUpTo(s, t, m) /\ FlatTable(s, f, m) /\ LongerTable(t, g, m)
        BY <1>1, <1>2, <2>1, <4>1 DEF AgreeUpTo, LongerTable
      <4> HIDE DEF n
      <4>3. AgreeUpTo(f, g, m)
        BY <4>2, FlatTablesAgree
      <4>. QED
        BY <4>1, <4>3 DEF AgreeUpTo
    <3>2. n \in 1 .. n
      BY <1>1, <1>6
    <3>. QED
      BY <3>1, <3>2
  <2>3. n + 1 # 1
    BY <1>1, <1>6
  <2>. QED
    BY <1>2, <1>4, <2>1, <2>2, <2>3 DEF t
<1>. QED
  BY <1>5, <1>6

LEMMA FlattenType ==
    ASSUME NEW S, NEW s \in Seq(Seq(S))
    PROVE  FlattenSeq(s) \in Seq(S)
<1> DEFINE Flat == {k \in Nat : \A t \in Seq(Seq(S)) : Len(t) = k => FlattenSeq(t) \in Seq(S)}
<1>1. 0 \in Flat
  <2>1. ASSUME NEW t \in Seq(Seq(S)), Len(t) = 0 PROVE FlattenSeq(t) \in Seq(S)
    <3>1. t = <<>>
      BY <2>1, EmptySeq
    <3>. QED
      BY <3>1, FlattenEmpty, EmptySeq
  <2>. QED
    BY <2>1
<1>2. ASSUME NEW k \in Nat, k \in Flat PROVE k + 1 \in Flat
  <2>1. ASSUME NEW t \in Seq(Seq(S)), Len(t) = k + 1 PROVE FlattenSeq(t) \in Seq(S)
    <3>1. PICK u \in Seq(Seq(S)), x \in Seq(S) : t = Append(u, x)
      <4>1. t # <<>>
        BY <2>1, EmptySeq
      <4>. QED
        BY <4>1, SequenceEmptyOrAppend
    <3>2. Len(u) = k
      BY <2>1, <3>1
    <3>3. FlattenSeq(u) \in Seq(S)
      BY <1>2, <3>2
    <3>4. FlattenSeq(t) = FlattenSeq(u) \o x
      BY <3>1, <3>3, FlattenAppendOne
    <3>. QED
      BY <3>3, <3>4, ConcatProperties
  <2>. QED
    BY <2>1
<1> HIDE DEF Flat
<1>3. \A k \in Nat : k \in Flat
  BY <1>1, <1>2, SetInduction
<1>4. Len(s) \in Nat
  BY LenProperties
<1>. QED
  BY <1>3, <1>4 DEF Flat

LEMMA FlattenAppend ==
    ASSUME NEW S, NEW s \in Seq(Seq(S)), NEW x \in Seq(S)
    PROVE  FlattenSeq(Append(s, x)) = FlattenSeq(s) \o x
BY FlattenType, FlattenAppendOne

(* Flattening distributes over concatenation.                              *)
LEMMA FlattenConcat ==
    ASSUME NEW S, NEW s \in Seq(Seq(S)), NEW t \in Seq(Seq(S))
    PROVE  FlattenSeq(s \o t) = FlattenSeq(s) \o FlattenSeq(t)
<1> DEFINE Good == {k \in Nat : \A u \in Seq(Seq(S)) :
                        Len(u) = k => FlattenSeq(s \o u) = FlattenSeq(s) \o FlattenSeq(u)}
<1>1. 0 \in Good
  <2>1. ASSUME NEW u \in Seq(Seq(S)), Len(u) = 0
        PROVE  FlattenSeq(s \o u) = FlattenSeq(s) \o FlattenSeq(u)
    <3>1. u = <<>>
      BY <2>1, EmptySeq
    <3>2. s \o u = s
      BY <3>1, ConcatEmptySeq
    <3>3. FlattenSeq(s) \o <<>> = FlattenSeq(s)
      BY FlattenType, ConcatEmptySeq
    <3>. QED
      BY <3>1, <3>2, <3>3, FlattenEmpty
  <2>. QED
    BY <2>1
<1>2. ASSUME NEW k \in Nat, k \in Good PROVE k + 1 \in Good
  <2>1. ASSUME NEW u \in Seq(Seq(S)), Len(u) = k + 1
        PROVE  FlattenSeq(s \o u) = FlattenSeq(s) \o FlattenSeq(u)
    <3>1. PICK v \in Seq(Seq(S)), x \in Seq(S) : u = Append(v, x)
      <4>1. u # <<>>
        BY <2>1, EmptySeq
      <4>. QED
        BY <4>1, SequenceEmptyOrAppend
    <3>2. Len(v) = k
      BY <2>1, <3>1
    <3>3. FlattenSeq(s \o v) = FlattenSeq(s) \o FlattenSeq(v)
      BY <1>2, <3>2
    <3>4. s \o u = Append(s \o v, x) /\ s \o v \in Seq(Seq(S))
      BY <3>1
    <3>5. FlattenSeq(s \o u) = FlattenSeq(s \o v) \o x
      BY <3>4, FlattenAppend
    <3>6. FlattenSeq(u) = FlattenSeq(v) \o x
      BY <3>1, FlattenAppend
    <3>7. FlattenSeq(s) \in Seq(S) /\ FlattenSeq(v) \in Seq(S)
      BY FlattenType
    <3>. QED
      BY <3>3, <3>5, <3>6, <3>7, ConcatAssociative
  <2>. QED
    BY <2>1
<1> HIDE DEF Good
<1>3. \A k \in Nat : k \in Good
  BY <1>1, <1>2, SetInduction
<1>4. Len(t) \in Nat
  BY LenProperties
<1>. QED
  BY <1>3, <1>4 DEF Good

LEMMA FlattenOne ==
    ASSUME NEW S, NEW x \in Seq(S)
    PROVE  FlattenSeq(<<x>>) = x
<1>1. <<>> \in Seq(Seq(S)) /\ Append(<<>>, x) = <<x>>
  OBVIOUS
<1>2. FlattenSeq(Append(<<>>, x)) = FlattenSeq(<<>>) \o x
  BY <1>1, FlattenAppend
<1>. QED
  BY <1>1, <1>2, FlattenEmpty, ConcatEmptySeq

-----------------------------------------------------------------------------
(***************************************************************************)
(* Encoding what was parsed gives back what was read.                      *)
(***************************************************************************)
(* The header is the only one that its bytes are read as.                  *)
LEMMA HeaderOfHeaderSize ==
    ASSUME NEW buffer \in Seq(Byte), Len(buffer) >= HeaderLen
    PROVE  Header(HeaderSize(buffer)) = SubSeq(buffer, 1, HeaderLen)
<1> DEFINE B == ByteBase
<1>1. B \in Nat \ {0} /\ B * B \in Nat \ {0} /\ B * B * B \in Nat \ {0}
  BY CodecAssumption, Products
<1>2. PICK b0 \in 0 .. B - 1, b1 \in 0 .. B - 1, b2 \in 0 .. B - 1, b3 \in 0 .. B - 1 :
          b0 = buffer[1] /\ b1 = buffer[2] /\ b2 = buffer[3] /\ b3 = buffer[4]
  <2>1. \A i \in 1 .. 4 : buffer[i] \in Byte
    BY DEF HeaderLen
  <2>2. Byte = 0 .. B - 1
    BY DEF Byte
  <2> HIDE DEF B
  <2>. QED
    BY <2>1, <2>2
<1>3. SubSeq(buffer, 1, HeaderLen) = <<b0, b1, b2, b3>>
  <2>1. Len(<<b0, b1, b2, b3>>) = 4
    OBVIOUS
  <2>2. Len(SubSeq(buffer, 1, HeaderLen)) = 4 /\ SubSeq(buffer, 1, HeaderLen) \in Seq(Byte)
    BY DEF HeaderLen
  <2>3. \A i \in 1 .. 4 : SubSeq(buffer, 1, HeaderLen)[i] = buffer[i]
    BY DEF HeaderLen
  <2>4. b0 \in Byte /\ b1 \in Byte /\ b2 \in Byte /\ b3 \in Byte
    BY DEF Byte
  <2>5. <<b0, b1, b2, b3>> \in Seq(Byte)
    BY <2>4
  <2>6. \A i \in 1 .. 4 : SubSeq(buffer, 1, HeaderLen)[i] = <<b0, b1, b2, b3>>[i]
    <3>1. \A i \in 1 .. 4 : i = 1 \/ i = 2 \/ i = 3 \/ i = 4
      OBVIOUS
    <3>2. \A i \in 1 .. 4 : buffer[i] = <<b0, b1, b2, b3>>[i]
      BY <1>2, <3>1
    <3>. QED
      BY <2>3, <3>2
  <2>. QED
    BY <2>1, <2>2, <2>5, <2>6, SeqEqual
<1> DEFINE q3 == b3
           q2 == b2 + B * b3
           q1 == b1 + B * q2
           n == b0 + B * q1
<1>4. q2 \in Nat /\ q1 \in Nat /\ n \in Nat
  BY <1>1
<1>5. HeaderSize(buffer) = n
  BY <1>2 DEF HeaderSize
<1>6. n \div B = q1 /\ n % B = b0
  <2>1. n = B * q1 + b0
    BY <1>1, <1>4
  <2> HIDE DEF n, q1
  <2>. QED
    BY <1>1, <1>4, <2>1, DivisionUnique
<1>7. q1 \div B = q2 /\ q1 % B = b1
  <2>1. q1 = B * q2 + b1
    BY <1>1, <1>4
  <2> HIDE DEF n, q1, q2
  <2>. QED
    BY <1>1, <1>4, <2>1, DivisionUnique
<1>8. q2 \div B = b3 /\ q2 % B = b2
  <2>1. q2 = B * b3 + b2
    BY <1>1, <1>4
  <2> HIDE DEF n, q1, q2
  <2>. QED
    BY <1>1, <1>4, <2>1, DivisionUnique
<1>9. b3 % B = b3
  BY <1>1
<1> HIDE DEF n, q1, q2
<1>10. n \div (B * B) = q2
  BY <1>1, <1>4, <1>6, <1>7, DivDiv
<1>11. n \div (B * B * B) = b3
  BY <1>1, <1>4, <1>8, <1>10, DivDiv
<1>12. Header(n) = <<b0, b1, b2, b3>>
  BY <1>6, <1>7, <1>8, <1>9, <1>10, <1>11 DEF Header
<1>. QED
  BY <1>3, <1>5, <1>12


(* The front of a buffer is the encoding of the packet taken from it.      *)
LEMMA FrameIsEncoding ==
    ASSUME NEW b \in Seq(Byte), ~SizeWraps(b), packet_from_buffer(b).len > 0
    PROVE  packet_to_buffer(packet_from_buffer(b).packet)
               = SubSeq(b, 1, packet_from_buffer(b).len)
<1>1. PICK l \in Nat : l = Len(b)
  BY LenIsNat
<1>2. PICK len \in Int, packet \in Seq(Byte) :
          len = packet_from_buffer(b).len /\ packet = packet_from_buffer(b).packet
  BY FrontBounds
<1>3. /\ len = HeaderSize(b) + HeaderLen /\ len \in HeaderLen + 1 .. l
      /\ packet = SubSeq(b, HeaderLen + 1, len) /\ Len(packet) = HeaderSize(b)
  BY <1>1, <1>2, FrontTaken
<1>4. l >= HeaderLen /\ len \in 4 .. l /\ 4 \in 0 .. l /\ 1 \in 1 .. l + 1
  BY <1>3 DEF HeaderLen
<1>5. Header(Len(packet)) = SubSeq(b, 1, HeaderLen)
  BY <1>1, <1>3, <1>4, HeaderOfHeaderSize
<1>6. SubSeq(b, 1, HeaderLen) \o SubSeq(b, HeaderLen + 1, len) = SubSeq(b, 1, len)
  <2>1. 4 \in 1 - 1 .. l
    BY <1>4
  <2>. QED
    BY <1>1, <1>4, <2>1, ConcatAdjacentSubSeq DEF HeaderLen
<1>. QED
  BY <1>2, <1>3, <1>5, <1>6 DEF packet_to_buffer

Frames(packets) == [i \in DOMAIN packets |-> packet_to_buffer(packets[i])]

LEMMA FramesType ==
    ASSUME NEW packets \in Seq(Seq(Byte))
    PROVE  Frames(packets) \in Seq(Seq(Byte)) /\ Len(Frames(packets)) = Len(packets)
<1>1. \A i \in DOMAIN packets : packet_to_buffer(packets[i]) \in Seq(Byte)
  BY PacketToBufferType
<1>2. DOMAIN packets = 1 .. Len(packets) /\ Len(packets) \in Nat
  OBVIOUS
<1>. QED
  BY <1>1, <1>2 DEF Frames

LEMMA ConcatOfPackets ==
    \A s, t \in Seq(Seq(Byte)) : s \o t \in Seq(Seq(Byte)) /\ Len(s \o t) = Len(s) + Len(t)
<1> TAKE s, t \in Seq(Seq(Byte))
<1> QED
  BY ConcatProperties

LEMMA FramesOfConcat ==
    ASSUME NEW s \in Seq(Seq(Byte)), NEW t \in Seq(Seq(Byte))
    PROVE  Frames(s \o t) = Frames(s) \o Frames(t)
<1>1. PICK st \in Seq(Seq(Byte)) : st = s \o t
  BY ConcatOfPackets, Zenon
<1>2. PICK f \in Seq(Seq(Byte)), g \in Seq(Seq(Byte)), h \in Seq(Seq(Byte)) :
          /\ f = Frames(s) /\ g = Frames(t) /\ h = Frames(st)
          /\ Len(f) = Len(s) /\ Len(g) = Len(t) /\ Len(h) = Len(st)
  BY FramesType
<1>3. PICK k \in Nat, l \in Nat : k = Len(s) /\ l = Len(t)
  OBVIOUS
<1>4. f \o g \in Seq(Seq(Byte)) /\ Len(f \o g) = k + l /\ Len(h) = k + l
  <2>1. f \o g \in Seq(Seq(Byte)) /\ Len(f \o g) = Len(f) + Len(g)
    BY ConcatOfPackets
  <2>2. s \o t \in Seq(Seq(Byte)) /\ Len(s \o t) = Len(s) + Len(t)
    BY ConcatOfPackets
  <2>3. Len(st) = k + l
    BY <1>1, <1>3, <2>2
  <2>. QED
    BY <1>2, <1>3, <2>1, <2>3
<1>5. ASSUME NEW i \in 1 .. k + l PROVE h[i] = (f \o g)[i]
  <2>1. h[i] = packet_to_buffer(st[i])
    BY <1>1, <1>2, <1>3 DEF Frames
  <2>2. CASE i <= k
    <3>1. st[i] = s[i] /\ f[i] = packet_to_buffer(s[i])
      BY <1>1, <1>2, <1>3, <2>2 DEF Frames
    <3>2. (f \o g)[i] = f[i]
      BY <1>2, <1>3, <2>2
    <3>. QED
      BY <2>1, <3>1, <3>2
  <2>3. CASE ~(i <= k)
    <3>1. PICK j \in 1 .. l : j = i - k
      BY <2>3
    <3>2. st[i] = t[j] /\ g[j] = packet_to_buffer(t[j])
      BY <1>1, <1>2, <1>3, <2>3, <3>1 DEF Frames
    <3>3. (f \o g)[i] = g[j]
      BY <1>2, <1>3, <2>3, <3>1
    <3>. QED
      BY <2>1, <3>2, <3>3
  <2>. QED
    BY <2>2, <2>3
<1>. QED
  BY <1>1, <1>2, <1>4, <1>5, SeqEqual

LEMMA EncodedType ==
    ASSUME NEW packets \in Seq(Seq(Byte))
    PROVE  Encoded(packets) \in Seq(Byte)
BY FramesType, FlattenType DEF Encoded, Frames

LEMMA EncodedEmpty == Encoded(<<>>) = <<>>
<1>1. Frames(<<>>) = <<>>
  BY DEF Frames
<1>. QED
  BY <1>1, FlattenEmpty DEF Encoded, Frames

LEMMA EncodedConcat ==
    ASSUME NEW s \in Seq(Seq(Byte)), NEW t \in Seq(Seq(Byte))
    PROVE  Encoded(s \o t) = Encoded(s) \o Encoded(t)
BY FramesOfConcat, FramesType, FlattenConcat DEF Encoded, Frames

LEMMA EncodedOne ==
    ASSUME NEW packet \in Seq(Byte)
    PROVE  Encoded(<<packet>>) = packet_to_buffer(packet)
<1>1. Frames(<<packet>>) = <<packet_to_buffer(packet)>>
  BY DEF Frames
<1>. QED
  BY <1>1, PacketToBufferType, FlattenOne DEF Encoded, Frames

LEMMA EncodedAppend ==
    ASSUME NEW s \in Seq(Seq(Byte)), NEW packet \in Seq(Byte)
    PROVE  Encoded(Append(s, packet)) = Encoded(s) \o packet_to_buffer(packet)
<1>1. Append(s, packet) = s \o <<packet>> /\ <<packet>> \in Seq(Seq(Byte))
  OBVIOUS
<1>. QED
  BY <1>1, EncodedConcat, EncodedOne

LEMMA NonEmptyPackets == Seq(NonEmpty) \subseteq Seq(Seq(Byte))
<1>1. NonEmpty \subseteq Seq(Byte)
  BY DEF NonEmpty
<1>. QED
  BY <1>1, SeqMonotonic

LEMMA SliceElements ==
    ASSUME NEW b \in Seq(Byte), NEW n \in 0 .. Len(b), NEW m \in 0 .. Len(b) - n
    PROVE  /\ SubSeq(b, n + 1, n + m) \in Seq(Byte)
           /\ Len(SubSeq(b, n + 1, n + m)) = m
           /\ \A i \in 1 .. m : SubSeq(b, n + 1, n + m)[i] = b[n + i]
<1>1. PICK l \in Nat : l = Len(b) /\ n \in 0 .. l /\ m \in 0 .. l - n
  OBVIOUS
<1>2. \A i \in n + 1 .. n + m : i \in 1 .. Len(b)
  BY <1>1
<1>3. \A i \in n + 1 .. n + m : b[i] \in Byte
  BY <1>2
<1>4. n + 1 \in Int /\ n + m \in Int
  BY <1>1
<1>5. /\ SubSeq(b, n + 1, n + m) \in Seq(Byte)
      /\ Len(SubSeq(b, n + 1, n + m)) = IF n + 1 <= n + m THEN (n + m) - (n + 1) + 1 ELSE 0
      /\ \A i \in 1 .. (n + m) - (n + 1) + 1 : SubSeq(b, n + 1, n + m)[i] = b[(n + 1) + i - 1]
  BY <1>3, <1>4, SubSeqProperties
<1>6. /\ (IF n + 1 <= n + m THEN (n + m) - (n + 1) + 1 ELSE 0) = m
      /\ (n + m) - (n + 1) + 1 = m
      /\ \A i \in 1 .. m : (n + 1) + i - 1 = n + i
  BY <1>1
<1>. QED
  BY <1>5, <1>6

LEMMA PrefixElements ==
    ASSUME NEW b \in Seq(Byte), NEW m \in Nat, m <= Len(b)
    PROVE  /\ SubSeq(b, 1, m) \in Seq(Byte)
           /\ Len(SubSeq(b, 1, m)) = m
           /\ \A i \in 1 .. m : SubSeq(b, 1, m)[i] = b[i]
OBVIOUS

LEMMA PrefixOfRest ==
    ASSUME NEW b \in Seq(Byte), NEW n \in 0 .. Len(b), NEW m \in 0 .. Len(b) - n
    PROVE  /\ SubSeq(Rest(b, n), 1, m) = SubSeq(b, n + 1, n + m)
           /\ SubSeq(b, 1, n) \o SubSeq(Rest(b, n), 1, m) = SubSeq(b, 1, n + m)
<1>1. PICK l \in Nat : l = Len(b) /\ n \in 0 .. l /\ m \in 0 .. l - n
  OBVIOUS
<1>2. PICK rest \in Seq(Byte) : /\ rest = Rest(b, n) /\ Len(rest) = l - n
                                /\ \A i \in 1 .. l - n : rest[i] = b[n + i]
  BY <1>1, RestElements
<1>3. PICK s \in Seq(Byte) : /\ s = SubSeq(rest, 1, m) /\ Len(s) = m
                             /\ \A i \in 1 .. m : s[i] = rest[i]
  <2>1. m \in Nat /\ m <= Len(rest)
    BY <1>1, <1>2
  <2>. QED
    BY <2>1, PrefixElements, Zenon
<1>4. PICK t \in Seq(Byte) : /\ t = SubSeq(b, n + 1, n + m) /\ Len(t) = m
                             /\ \A i \in 1 .. m : t[i] = b[n + i]
  BY SliceElements, Zenon
<1>5. s = t
  <2>1. \A i \in 1 .. m : i \in 1 .. l - n
    BY <1>1
  <2>2. \A i \in 1 .. m : s[i] = t[i]
    BY <1>2, <1>3, <1>4, <2>1
  <2>. QED
    BY <1>3, <1>4, <2>2, SeqEqual
<1>6. SubSeq(b, 1, n) \o SubSeq(b, n + 1, n + m) = SubSeq(b, 1, n + m)
  <2>1. /\ 1 \in 1 .. Len(b) + 1
        /\ n \in 1 - 1 .. Len(b)
        /\ n + m \in n .. Len(b)
    OBVIOUS
  <2>. QED
    BY <2>1, ConcatAdjacentSubSeq
<1>. QED
  BY <1>2, <1>3, <1>4, <1>5, <1>6

(***************************************************************************)
(* What holds of a buffer no packet is taken from, and of one whose rest   *)
(* behind the packet taken from it it holds of, holds of every buffer.     *)
(***************************************************************************)
LEMMA ParseInduction ==
    ASSUME NEW Good,
           \A b \in Seq(Byte) : packet_from_buffer(b).len <= 0 => b \in Good,
           \A b \in Seq(Byte) :
               packet_from_buffer(b).len > 0 /\ Rest(b, packet_from_buffer(b).len) \in Good
                   => b \in Good
    PROVE  \A b \in Seq(Byte) : b \in Good
<1> DEFINE S == {k \in Nat : \A b \in Seq(Byte) : Len(b) <= k => b \in Good}
<1>1. ASSUME NEW k \in Nat, \A c \in Seq(Byte) : Len(c) < k => c \in Good,
             NEW b \in Seq(Byte), Len(b) <= k
      PROVE  b \in Good
  <2>1. CASE packet_from_buffer(b).len > 0
    <3>1. PICK n \in Int : n = packet_from_buffer(b).len /\ n > 0 /\ n <= Len(b)
      BY <2>1, FrontBounds
    <3>2. n \in 0 .. Len(b)
      BY <3>1, LenIsNat
    <3>3. Rest(b, n) \in Seq(Byte) /\ Len(Rest(b, n)) = Len(b) - n
      BY <3>2, RestElements
    <3>4. Len(Rest(b, n)) < k
      BY <1>1, <3>1, <3>3, LenIsNat
    <3>. QED
      BY <1>1, <2>1, <3>1, <3>3, <3>4
  <2>2. packet_from_buffer(b).len \in Int
    BY FrontBounds
  <2>. QED
    BY <2>1, <2>2
<1>2. 0 \in S
  <2>1. \A c \in Seq(Byte) : ~(Len(c) < 0)
    OBVIOUS
  <2>. QED
    BY <1>1, <2>1
<1>3. ASSUME NEW k \in Nat, k \in S PROVE k + 1 \in S
  <2>1. \A c \in Seq(Byte) : Len(c) < k + 1 => c \in Good
    BY <1>3
  <2>2. \A b \in Seq(Byte) : Len(b) <= k + 1 => b \in Good
    BY <1>1, <2>1
  <2>. QED
    BY <2>2
<1> HIDE DEF S
<1>4. \A k \in Nat : k \in S
  BY <1>2, <1>3, SetInduction
<1>5. \A b \in Seq(Byte) : Len(b) \in Nat
  OBVIOUS
<1>. QED
  BY <1>4, <1>5 DEF S

LEMMA PrefixOfPrefix ==
    ASSUME NEW b \in Seq(Byte), NEW e \in 0 .. Len(b)
    PROVE  IsPrefix(SubSeq(b, 1, e), b) /\ Len(SubSeq(b, 1, e)) = e
<1>1. PICK s \in Seq(Byte) : s = SubSeq(b, 1, e) /\ Len(s) = e
  BY PrefixType
<1>2. SubSeq(s, 1, Len(s)) = s
  BY SubSeqFull
<1>. QED
  BY <1>1, <1>2 DEF IsPrefix

(***************************************************************************)
(* What the loop returns from some place on is the encoding of the bytes   *)
(* from there up to a place that the length does not exceed.               *)
(***************************************************************************)
Covers(b, r, here) ==
    \E e \in r .. Len(b) :
        /\ Encoded(here.packets) = SubSeq(b, r + 1, e)
        /\ here.len <= e
        /\ InIntRange(b) => here.len = e

LEMMA CutCovers ==
    ASSUME NEW b \in Seq(Byte)
    PROVE  \A r \in ReadLengths(b) : ~Cut(b)[r].overruns => Covers(b, r, Cut(b)[r])
<1> DEFINE Good == {r \in ReadLengths(b) : ~Cut(b)[r].overruns => Covers(b, r, Cut(b)[r])}
<1>1. ASSUME NEW r \in ReadLengths(b), \A q \in ReadLengths(b) : q > r => q \in Good
      PROVE  r \in Good
  <2>1. PICK l \in Nat, n \in Nat : l = Len(b) /\ n = r /\ n <= l
    BY Lengths, LenIsNat
  <2>2. PICK rest \in Seq(Byte) : rest = Rest(b, n) /\ Len(rest) = l - n
    BY <2>1, Lengths
  <2>3. PICK len \in Int, packet \in Seq(Byte), next \in Int :
            /\ len = packet_from_buffer(rest).len /\ packet = packet_from_buffer(rest).packet
            /\ next = ToInt(n + len)
    BY <2>1, <2>2, FrontBounds, NextLength DEF FrontLen
  <2>4. FrontLen(b, n) = len /\ n \in ReadLengths(b)
    BY <2>1, <2>2, <2>3 DEF FrontLen
  <2>5. /\ len <= l - n
        /\ len > 0 /\ next >= 0 => next = n + len /\ next \in ReadLengths(b) /\ next > n
        /\ InIntRange(b) => len >= 0 /\ next = n + len
    BY <2>1, <2>3, <2>4, NextLength
  <2>6. PICK here : here = Cut(b)[n]
    OBVIOUS
  <2>7. SUFFICES ASSUME ~here.overruns PROVE Covers(b, n, here)
    BY <2>1, <2>6
  <2>8. CASE len <= 0
    <3>1. here.len = n + len /\ here.packets = <<>>
      BY <2>4, <2>6, <2>8, CutStops
    <3>2. SubSeq(b, n + 1, n) = <<>>
      BY <2>1
    <3>3. Encoded(here.packets) = SubSeq(b, n + 1, n)
      BY <3>1, <3>2, EncodedEmpty
    <3>4. n \in n .. Len(b) /\ here.len <= n /\ (InIntRange(b) => here.len = n)
      BY <2>1, <2>5, <2>8, <3>1
    <3>. QED
      BY <3>3, <3>4 DEF Covers
  <2>9. ASSUME len > 0, ~SizeWraps(rest)
        PROVE  /\ Encoded(<<packet>>) = SubSeq(b, n + 1, n + len)
               /\ n + len \in n .. l
    <3>1. packet_to_buffer(packet) = SubSeq(rest, 1, len)
      BY <2>3, <2>9, FrameIsEncoding
    <3>2. SubSeq(rest, 1, len) = SubSeq(b, n + 1, n + len)
      <4>1. n \in 0 .. Len(b) /\ len \in 0 .. Len(b) - n
        BY <2>1, <2>5, <2>9
      <4>. QED
        BY <2>2, <4>1, PrefixOfRest
    <3>3. n + len \in n .. l
      BY <2>5, <2>9
    <3>. QED
      BY <3>1, <3>2, <3>3, EncodedOne
  <2>10. CASE len > 0 /\ next < 0
    <3>1. here.len = next /\ here.packets = <<packet>> /\ ~SizeWraps(rest)
      BY <2>2, <2>3, <2>4, <2>6, <2>7, <2>10, CutOverflows
    <3>2. n + len \in n .. Len(b) /\ here.len <= n + len /\ ~InIntRange(b)
      BY <2>1, <2>5, <2>9, <2>10, <3>1
    <3>. QED
      BY <2>9, <2>10, <3>1, <3>2 DEF Covers
  <2>11. CASE len > 0 /\ next >= 0
    <3>1. PICK more \in ParseResult : more = Cut(b)[next]
      BY <2>5, <2>11, CutType
    <3>2. here.len = more.len /\ here.packets = <<packet>> \o more.packets
          /\ here.overruns = (SizeWraps(rest) \/ more.overruns)
      <4>1. FrontLen(b, n) > 0 /\ next = ToInt(n + FrontLen(b, n)) /\ next >= 0
        BY <2>3, <2>4, <2>11
      <4>2. /\ Cut(b)[n].len = Cut(b)[next].len
            /\ Cut(b)[n].packets =
                   <<packet_from_buffer(Rest(b, n)).packet>> \o Cut(b)[next].packets
            /\ Cut(b)[n].overruns = (SizeWraps(Rest(b, n)) \/ Cut(b)[next].overruns)
        BY <2>4, <4>1, CutGoesOn
      <4>. QED
        BY <2>2, <2>3, <2>6, <3>1, <4>2
    <3>3. ~SizeWraps(rest) /\ ~more.overruns
      BY <2>7, <3>2
    <3>4. Covers(b, next, more)
      <4>1. next \in Good
        BY <1>1, <2>1, <2>5, <2>11
      <4>. QED
        BY <3>1, <3>3, <4>1
    <3>5. PICK e \in n + len .. l :
              /\ Encoded(more.packets) = SubSeq(b, n + len + 1, e)
              /\ more.len <= e /\ (InIntRange(b) => more.len = e)
      BY <2>1, <2>5, <2>11, <3>4 DEF Covers
    <3>6. Encoded(here.packets) = Encoded(<<packet>>) \o Encoded(more.packets)
      <4>1. <<packet>> \in Seq(Seq(Byte)) /\ more.packets \in Seq(Seq(Byte))
        BY DEF ParseResult
      <4>. QED
        BY <3>2, <4>1, EncodedConcat
    <3>7. SubSeq(b, n + 1, n + len) \o SubSeq(b, n + len + 1, e) = SubSeq(b, n + 1, e)
      <4>1. /\ n + 1 \in 1 .. Len(b) + 1 /\ n + len \in (n + 1) - 1 .. Len(b)
            /\ e \in n + len .. Len(b)
        BY <2>1, <2>5, <2>11
      <4>. QED
        BY <4>1, ConcatAdjacentSubSeq
    <3>8. e \in n .. Len(b) /\ here.len <= e /\ (InIntRange(b) => here.len = e)
      BY <2>1, <2>11, <3>2, <3>5
    <3>9. Encoded(here.packets) = SubSeq(b, n + 1, e)
      BY <2>9, <2>11, <3>3, <3>5, <3>6, <3>7
    <3>. QED
      BY <3>8, <3>9 DEF Covers
  <2>. QED
    BY <2>3, <2>8, <2>10, <2>11
<1> HIDE DEF Good
<1>2. \A r \in ReadLengths(b) : r \in Good
  BY <1>1, CutInduction
<1>. QED
  BY <1>2 DEF Good

LEMMA ReadIsEncoding ==
    ASSUME NEW b \in Seq(Byte), ~packets_from_buffer(b).overruns
    PROVE  LET result == packets_from_buffer(b)
           IN  \E e \in 0 .. Len(b) :
                   /\ Encoded(result.packets) = SubSeq(b, 1, e)
                   /\ result.len <= e
                   /\ InIntRange(b) => result.len = e
<1>1. PICK result : result = packets_from_buffer(b) /\ result = Cut(b)[0]
  BY CutOfBuffer
<1>2. Covers(b, 0, result)
  BY <1>1, CutCovers, FirstLength
<1>. QED
  BY <1>1, <1>2 DEF Covers

-----------------------------------------------------------------------------
(***************************************************************************)
(* What arrives later does not change how a buffer is parsed.              *)
(***************************************************************************)
(* A packet that is taken is the same one whatever arrives behind the      *)
(* buffer.                                                                 *)
LEMMA FrontOfConcat ==
    ASSUME NEW b \in Seq(Byte), NEW t \in Seq(Byte), packet_from_buffer(b).len > 0
    PROVE  /\ packet_from_buffer(b \o t) = packet_from_buffer(b)
           /\ SizeWraps(b \o t) = SizeWraps(b)
<1>1. PICK M \in Nat, l \in Nat, k \in Nat : M = SizeModulus /\ M >= 16 /\ l = Len(b) /\ k = Len(t)
  BY Modulus, LenIsNat
<1>2. PICK w \in Seq(Byte) : w = b \o t /\ Len(w) = l + k
  BY <1>1, ConcatOfBytes, LenOfConcat
<1>3. \A i \in 1 .. l : w[i] = b[i]
  BY <1>1, <1>2, IndexOfConcat
<1> DEFINE end == (HeaderSize(b) + HeaderLen) % SizeModulus
<1>4. l >= HeaderLen /\ HeaderSize(b) > 0 /\ l >= end
  BY <1>1 DEF packet_from_buffer, NoPacket
<1>5. HeaderSize(w) = HeaderSize(b) /\ HeaderSize(b) \in 0 .. M - 1
  <2>1. w[1] = b[1] /\ w[2] = b[2] /\ w[3] = b[3] /\ w[4] = b[4]
    BY <1>3, <1>4 DEF HeaderLen
  <2>2. HeaderSize(w) = HeaderSize(b)
    BY <2>1 DEF HeaderSize
  <2>. QED
    BY <1>1, <1>4, <2>2, HeaderSizeBound
<1>6. PICK size \in Nat : size = HeaderSize(b) /\ size = HeaderSize(w) /\ size > 0 /\ size < M
  BY <1>1, <1>4, <1>5
<1>7. SizeWraps(w) = SizeWraps(b)
  BY <1>1, <1>2, <1>4, <1>6 DEF SizeWraps, HeaderLen
<1>8. end \in Nat /\ l + k >= end /\ l + k >= HeaderLen
  BY <1>1, <1>4, <1>6 DEF HeaderLen
<1>9. ParseFromArray(w, size) = ParseFromArray(b, size)
  <2>1. CASE ToInt(size) < 0
    BY <2>1 DEF ParseFromArray
  <2>2. CASE ~(ToInt(size) < 0)
    <3>1. size + HeaderLen < M /\ end = size + HeaderLen
      <4>1. 2 * size < M
        BY <1>1, <1>6, <2>2 DEF ToInt
      <4>2. size + HeaderLen < M
        BY <1>1, <4>1 DEF HeaderLen
      <4>3. size + HeaderLen \in 0 .. M - 1
        BY <1>1, <1>6, <4>2 DEF HeaderLen
      <4>4. (size + HeaderLen) % M = size + HeaderLen
        <5>1. PICK n \in 0 .. M - 1 : n = size + HeaderLen
          BY <4>3
        <5>2. (M * 0 + n) % M = n /\ M * 0 + n = n
          BY <1>1, DivisionUnique
        <5>. QED
          BY <5>1, <5>2
      <4>. QED
        BY <1>1, <1>6, <4>2, <4>4
    <3>2. HeaderLen + size <= l
      BY <1>4, <1>6, <3>1 DEF HeaderLen
    <3>3. /\ HeaderLen \in 0 .. Len(b) /\ size \in 0 .. Len(b) - HeaderLen
          /\ HeaderLen \in 0 .. Len(w) /\ size \in 0 .. Len(w) - HeaderLen
      BY <1>1, <1>2, <3>2 DEF HeaderLen
    <3>4. PICK p \in Seq(Byte) : /\ p = SubSeq(b, HeaderLen + 1, HeaderLen + size) /\ Len(p) = size
                                 /\ \A i \in 1 .. size : p[i] = b[HeaderLen + i]
      BY <3>3, SliceElements
    <3>5. PICK q \in Seq(Byte) : /\ q = SubSeq(w, HeaderLen + 1, HeaderLen + size) /\ Len(q) = size
                                 /\ \A i \in 1 .. size : q[i] = w[HeaderLen + i]
      BY <3>3, SliceElements
    <3>6. \A i \in 1 .. size : HeaderLen + i \in 1 .. l
      BY <3>2 DEF HeaderLen
    <3>7. \A i \in 1 .. size : p[i] = q[i]
      BY <1>3, <3>4, <3>5, <3>6
    <3>8. p = q
      BY <3>4, <3>5, <3>7, SeqEqual
    <3>. QED
      BY <2>2, <3>4, <3>5, <3>8 DEF ParseFromArray
  <2>. QED
    BY <2>1, <2>2
<1>10. packet_from_buffer(b) = [len |-> ToInt(end), packet |-> ParseFromArray(b, size)]
  BY <1>1, <1>4, <1>6 DEF packet_from_buffer
<1>11. packet_from_buffer(w) = [len |-> ToInt(end), packet |-> ParseFromArray(w, size)]
  <2>1. Len(w) >= HeaderLen /\ HeaderSize(w) > 0 /\ Len(w) >= end
    BY <1>2, <1>6, <1>8
  <2>. QED
    BY <1>6, <2>1 DEF packet_from_buffer
<1>. QED
  BY <1>2, <1>7, <1>9, <1>10, <1>11

(* What lies behind the first part of a concatenation.                     *)
LEMMA RestBehind == \A s, t \in Seq(Byte) : Rest(s \o t, Len(s)) = t
<1> TAKE s \in Seq(Byte), t \in Seq(Byte)
<1>1. SubSeq(s \o t, Len(s) + 1, Len(s) + Len(t)) = t
  BY SuffixOfConcat
<1>2. Len(s \o t) = Len(s) + Len(t)
  BY LenOfConcat
<1>. QED
  BY <1>1, <1>2 DEF Rest

LEMMA RestOfConcat ==
    ASSUME NEW b \in Seq(Byte), NEW t \in Seq(Byte), NEW n \in 0 .. Len(b)
    PROVE  Rest(b \o t, n) = Rest(b, n) \o t
<1>1. PICK p \in Seq(Byte) : p = SubSeq(b, 1, n) /\ Len(p) = n
  BY PrefixType
<1>2. PICK r \in Seq(Byte) : r = Rest(b, n)
  BY RestElements
<1>3. b = p \o r
  BY <1>1, <1>2, SplitAt
<1>4. PICK x \in Seq(Byte) : x = r \o t
  BY ConcatOfBytes
<1>5. (p \o r) \o t = p \o (r \o t)
  BY ConcatIsAssociative
<1>6. Rest(p \o x, Len(p)) = x
  BY RestBehind
<1>. QED
  BY <1>1, <1>2, <1>3, <1>4, <1>5, <1>6

LEMMA ThreePackets == \A s, t, u \in Seq(Seq(Byte)) : (s \o t) \o u = s \o (t \o u)
<1> TAKE s, t, u \in Seq(Seq(Byte))
<1>. QED
  OBVIOUS

LEMMA ShorterInRange ==
    ASSUME NEW b \in Seq(Byte), InIntRange(b), NEW n \in 0 .. Len(b)
    PROVE  /\ Rest(b, n) \in Seq(Byte) /\ Len(Rest(b, n)) = Len(b) - n
           /\ InIntRange(Rest(b, n))
<1>1. PICK M \in Nat, l \in Nat : M = SizeModulus /\ l = Len(b) /\ 2 * l < M /\ n \in 0 .. l
  BY Modulus, LenIsNat DEF InIntRange
<1>2. Rest(b, n) \in Seq(Byte) /\ Len(Rest(b, n)) = l - n
  BY <1>1, RestElements
<1>. QED
  BY <1>1, <1>2 DEF InIntRange

(* The first turn of the loop, by fields.                                  *)
LEMMA FirstFields ==
    ASSUME NEW b \in Seq(Byte), InIntRange(b), packet_from_buffer(b).len > 0
    PROVE  \E n \in 1 .. Len(b), packet \in Seq(Byte), rest \in Seq(Byte) :
              /\ packet_from_buffer(b).len = n /\ packet_from_buffer(b).packet = packet
              /\ rest = Rest(b, n) /\ Len(rest) = Len(b) - n /\ InIntRange(rest)
              /\ packets_from_buffer(b).len = n + packets_from_buffer(rest).len
              /\ packets_from_buffer(b).packets = <<packet>> \o packets_from_buffer(rest).packets
<1>1. PICK n \in 1 .. Len(b), packet \in Seq(Byte) :
          packet_from_buffer(b).len = n /\ packet_from_buffer(b).packet = packet
  BY FrontBounds, LenIsNat
<1>2. PICK rest \in Seq(Byte) :
          rest = Rest(b, n) /\ Len(rest) = Len(b) - n /\ InIntRange(rest)
  <2>1. n \in 0 .. Len(b)
    OBVIOUS
  <2>. QED
    BY <2>1, ShorterInRange
<1>3. PICK more : more = packets_from_buffer(rest)
  OBVIOUS
<1>4. packets_from_buffer(b) = [len      |-> n + more.len,
                                packets  |-> <<packet>> \o more.packets,
                                overruns |-> SizeWraps(b) \/ more.overruns]
  <2>1. LET result == packet_from_buffer(b)
            behind == packets_from_buffer(Rest(b, result.len))
        IN  packets_from_buffer(b) =
                   [len      |-> result.len + behind.len,
                    packets  |-> <<result.packet>> \o behind.packets,
                    overruns |-> SizeWraps(b) \/ behind.overruns]
    BY ParsesFirst, Zenon
  <2>. QED
    BY <1>1, <1>2, <1>3, <2>1, Zenon
<1>5. packets_from_buffer(b).len = n + more.len /\ packets_from_buffer(b).packets = <<packet>> \o more.packets
  BY <1>4
<1>. QED
  BY <1>1, <1>2, <1>3, <1>5

LEMMA LengthInRange ==
    ASSUME NEW buffer \in Seq(Byte), InIntRange(buffer)
    PROVE  packets_from_buffer(buffer).len \in 0 .. Len(buffer)
<1> DEFINE Good == {b \in Seq(Byte) : InIntRange(b) => packets_from_buffer(b).len >= 0}
<1>1. ASSUME NEW b \in Seq(Byte), packet_from_buffer(b).len <= 0 PROVE b \in Good
  <2>1. packets_from_buffer(b).len = packet_from_buffer(b).len
    BY <1>1, ParsesNothing
  <2>. QED
    BY <2>1, FrontInRange
<1>2. ASSUME NEW b \in Seq(Byte), packet_from_buffer(b).len > 0,
             Rest(b, packet_from_buffer(b).len) \in Good
      PROVE  b \in Good
  <2>1. SUFFICES ASSUME InIntRange(b) PROVE packets_from_buffer(b).len >= 0
    OBVIOUS
  <2>2. PICK n \in 1 .. Len(b), rest \in Seq(Byte) :
              /\ packet_from_buffer(b).len = n
              /\ rest = Rest(b, n) /\ InIntRange(rest)
              /\ packets_from_buffer(b).len = n + packets_from_buffer(rest).len
    BY <1>2, <2>1, FirstFields
  <2>3. packets_from_buffer(rest).len \in Int /\ packets_from_buffer(rest).len >= 0
    BY <1>2, <2>2, ParseFields
  <2>. QED
    BY <2>2, <2>3
<1> HIDE DEF Good
<1>3. \A b \in Seq(Byte) : b \in Good
  BY <1>1, <1>2, ParseInduction
<1>4. packets_from_buffer(buffer).len \in Int /\ packets_from_buffer(buffer).len <= Len(buffer)
  BY ParseFields
<1>. QED
  BY <1>3, <1>4, LenIsNat DEF Good

(***************************************************************************)
(* Parsing a buffer and what arrives behind it is parsing the buffer, then *)
(* what it left over together with what arrived.                           *)
(***************************************************************************)
Resumes(b, t) ==
    LET whole == packets_from_buffer(b \o t)
        first == packets_from_buffer(b)
        later == packets_from_buffer(Rest(b \o t, first.len))
    IN  /\ whole.len = first.len + later.len
        /\ whole.packets = first.packets \o later.packets

LEMMA ParseConcat ==
    ASSUME NEW buffer \in Seq(Byte), NEW tail \in Seq(Byte), InIntRange(buffer \o tail)
    PROVE  Resumes(buffer, tail)
<1> DEFINE Good == {b \in Seq(Byte) : \A t \in Seq(Byte) : InIntRange(b \o t) => Resumes(b, t)}
<1>0. ASSUME NEW b \in Seq(Byte), NEW t \in Seq(Byte), InIntRange(b \o t)
      PROVE  InIntRange(b)
  <2>1. PICK M \in Nat, l \in Nat, k \in Nat : M = SizeModulus /\ l = Len(b) /\ k = Len(t)
    BY Modulus, LenIsNat
  <2>2. Len(b \o t) = l + k
    BY <2>1, LenOfConcat
  <2>. QED
    BY <1>0, <2>1, <2>2 DEF InIntRange
<1>1. ASSUME NEW b \in Seq(Byte), packet_from_buffer(b).len <= 0 PROVE b \in Good
  <2>1. ASSUME NEW t \in Seq(Byte), InIntRange(b \o t) PROVE Resumes(b, t)
    <3>1. PICK w \in Seq(Byte) : w = b \o t
      BY ConcatOfBytes
    <3>2. Rest(w, 0) = w
      BY RestOfNothing
    <3>3. packets_from_buffer(w).len \in Int /\ packets_from_buffer(w).packets \in Seq(Seq(Byte))
      BY ParseFields
    <3>4. 0 + packets_from_buffer(w).len = packets_from_buffer(w).len
      BY <3>3
    <3>5. <<>> \o packets_from_buffer(w).packets = packets_from_buffer(w).packets
      BY <3>3, ConcatEmptySeq
    <3>6. packets_from_buffer(b).len = 0 /\ packets_from_buffer(b).packets = <<>>
      <4>1. packet_from_buffer(b).len \in Int /\ packet_from_buffer(b).len >= 0
        BY <1>0, <2>1, FrontBounds, FrontInRange
      <4>2. packet_from_buffer(b).len = 0
        BY <1>1, <4>1
      <4>. QED
        BY <1>1, <4>2, ParsesNothing
    <3>. QED
      BY <3>1, <3>2, <3>4, <3>5, <3>6 DEF Resumes
  <2>. QED
    BY <2>1
<1>2. ASSUME NEW b \in Seq(Byte), packet_from_buffer(b).len > 0,
             Rest(b, packet_from_buffer(b).len) \in Good
      PROVE  b \in Good
  <2>1. ASSUME NEW t \in Seq(Byte), InIntRange(b \o t) PROVE Resumes(b, t)
    <3>0. PICK n \in 1 .. Len(b), packet \in Seq(Byte), rest \in Seq(Byte) :
              /\ packet_from_buffer(b).len = n /\ packet_from_buffer(b).packet = packet
              /\ rest = Rest(b, n) /\ Len(rest) = Len(b) - n /\ InIntRange(rest)
              /\ packets_from_buffer(b).len = n + packets_from_buffer(rest).len
              /\ packets_from_buffer(b).packets = <<packet>> \o packets_from_buffer(rest).packets
      BY <1>0, <1>2, <2>1, FirstFields
    <3>1. PICK w \in Seq(Byte) : w = b \o t /\ Len(w) = Len(b) + Len(t) /\ InIntRange(w)
      BY <2>1, ConcatOfBytes, LenOfConcat
    <3>2. packet_from_buffer(w).len = n /\ packet_from_buffer(w).packet = packet
      BY <1>2, <3>0, <3>1, FrontOfConcat
    <3>3. n \in 0 .. Len(b) /\ n \in Nat /\ n \in 0 .. Len(w) /\ Len(w) \in Nat
      BY <3>1, LenIsNat
    <3>4. PICK behind \in Seq(Byte) : /\ behind = rest \o t /\ behind = Rest(w, n)
                                      /\ Len(behind) = Len(w) - n /\ InIntRange(behind)
      <4>1. Rest(b \o t, n) = Rest(b, n) \o t
        BY <3>3, RestOfConcat
      <4>2. Rest(w, n) \in Seq(Byte) /\ Len(Rest(w, n)) = Len(w) - n /\ InIntRange(Rest(w, n))
        BY <3>1, <3>3, ShorterInRange
      <4>. QED
        BY <3>0, <3>1, <4>1, <4>2
    <3>5. /\ packets_from_buffer(w).len = n + packets_from_buffer(behind).len
          /\ packets_from_buffer(w).packets = <<packet>> \o packets_from_buffer(behind).packets
      <4>1. PICK k \in 1 .. Len(w), q \in Seq(Byte), r \in Seq(Byte) :
              /\ packet_from_buffer(w).len = k /\ packet_from_buffer(w).packet = q
              /\ r = Rest(w, k) /\ Len(r) = Len(w) - k /\ InIntRange(r)
              /\ packets_from_buffer(w).len = k + packets_from_buffer(r).len
              /\ packets_from_buffer(w).packets = <<q>> \o packets_from_buffer(r).packets
        <5>1. packet_from_buffer(w).len > 0
          BY <3>0, <3>2
        <5>2. InIntRange(w)
          BY <3>1
        <5>. QED
          BY ONLY w \in Seq(Byte), <5>1, <5>2, FirstFields
      <4>2. k = n /\ q = packet /\ r = behind
        BY <3>2, <3>4, <4>1
      <4>. QED
        BY <4>1, <4>2
    <3>6. PICK m \in 0 .. Len(rest), p \in Seq(Seq(Byte)) :
              packets_from_buffer(rest).len = m /\ packets_from_buffer(rest).packets = p
      BY <3>0, LengthInRange, ParseFields
    <3>7. n + m \in Nat /\ m \in 0 .. Len(w) - n
      BY <3>0, <3>1, <3>3, <3>6, LenIsNat
    <3>8. PICK u \in Seq(Byte) : u = Rest(w, n + m)
      BY <3>7, RestType
    <3>9. Rest(behind, m) = u
      BY <3>3, <3>4, <3>7, <3>8, RestOfRest
    <3>10. PICK k \in Int, q \in Seq(Seq(Byte)) :
              packets_from_buffer(u).len = k /\ packets_from_buffer(u).packets = q
      BY ParseFields
    <3>11. Resumes(rest, t)
      BY <1>2, <3>0, <3>4
    <3>12. packets_from_buffer(behind).len = m + k /\ packets_from_buffer(behind).packets = p \o q
      BY <3>4, <3>6, <3>9, <3>10, <3>11 DEF Resumes
    <3>13. (n + m) + k = n + (m + k)
      BY <3>3, <3>6
    <3>14. (<<packet>> \o p) \o q = <<packet>> \o (p \o q)
      <4>1. <<packet>> \in Seq(Seq(Byte))
        OBVIOUS
      <4>. QED
        BY <4>1, ThreePackets
    <3>. QED
      BY <3>0, <3>1, <3>5, <3>6, <3>8, <3>10, <3>12, <3>13, <3>14 DEF Resumes
  <2>. QED
    BY <2>1
<1> HIDE DEF Good
<1>3. \A b \in Seq(Byte) : b \in Good
  BY <1>1, <1>2, ParseInduction
<1>. QED
  BY <1>3 DEF Good

-----------------------------------------------------------------------------
(***************************************************************************)
(* The laws of CodecLaws, for buffers of every length.                     *)
(***************************************************************************)
(***************************************************************************)
(* The buffers the laws are about are sequences of bytes.                  *)
(***************************************************************************)
LEMMA BytesAreBytes == BytesSpec => [](bytes \in Seq(Byte))
<1>1. NoBytes => bytes \in Seq(Byte)
  BY DEF NoBytes
<1>2. ASSUME bytes \in Seq(Byte), [Len(bytes) < MaxLen /\ (OneMore \/ Stretched)]_bytes
      PROVE  (bytes \in Seq(Byte))'
  <2>1. CASE OneMore
    BY <1>2, <2>1 DEF OneMore
  <2>2. CASE Stretched
    <3>1. PICK n \in Stretches : bytes' = bytes \o Zeros(n)
      BY <2>2 DEF Stretched
    <3>2. n \in Nat /\ 0 \in Byte
      BY LawsAssumption, CodecAssumption DEF Byte
    <3>3. Zeros(n) \in Seq(Byte)
      BY <3>2 DEF Zeros
    <3>. QED
      BY <1>2, <3>1, <3>3
  <2>. QED
    BY <1>2, <2>1, <2>2
<1>. QED
  BY <1>1, <1>2, PTL DEF BytesSpec

(***************************************************************************)
(* Whatever the buffer, sizes of 2^31 bytes and more and sizes that wrap   *)
(* included, the length packets_from_buffer reports is at most that of the *)
(* buffer, and, unless a size on the way wraps, that of the encoding of    *)
(* the packets it returns, or, in a buffer of 2^31 bytes or more, less     *)
(* than it: erasing it (server.cpp:165, 211) removes these packets and     *)
(* nothing else.                                                           *)
(***************************************************************************)
THEOREM ReadIsWhatWasParsedAlways == BytesSpec => []ReadIsWhatWasParsed
<1>1. ASSUME bytes \in Seq(Byte) PROVE ReadIsWhatWasParsed
  <2>1. PICK result : result = packets_from_buffer(bytes)
    OBVIOUS
  <2>2. result.len <= Len(bytes)
    BY <1>1, <2>1, ParseFields
  <2>3. ASSUME ~result.overruns
        PROVE  /\ IsPrefix(Encoded(result.packets), bytes)
               /\ result.len <= Len(Encoded(result.packets))
               /\ InIntRange(bytes) => result.len = Len(Encoded(result.packets))
    <3>1. PICK e \in 0 .. Len(bytes) :
              /\ Encoded(result.packets) = SubSeq(bytes, 1, e)
              /\ result.len <= e
              /\ InIntRange(bytes) => result.len = e
      BY <1>1, <2>1, <2>3, ReadIsEncoding
    <3>2. IsPrefix(SubSeq(bytes, 1, e), bytes) /\ Len(SubSeq(bytes, 1, e)) = e
      BY <1>1, PrefixOfPrefix
    <3>. QED
      BY <3>1, <3>2
  <2>. QED
    BY <2>1, <2>2, <2>3 DEF ReadIsWhatWasParsed
<1>. QED
  BY <1>1, BytesAreBytes, PTL

(***************************************************************************)
(* Whatever the buffer of fewer than 2^31 bytes and wherever it is cut,    *)
(* parsing its beginning and then what that left over together with the    *)
(* rest gives what parsing the whole gives (packet.cpp:41-67).             *)
(***************************************************************************)
THEOREM ChunkingDoesNotMatterAlways == BytesSpec => []ChunkingDoesNotMatter
<1>1. ASSUME bytes \in Seq(Byte) PROVE ChunkingDoesNotMatter
  <2>1. SUFFICES ASSUME InIntRange(bytes), NEW k \in 0 .. Len(bytes)
                 PROVE  LET whole == packets_from_buffer(bytes)
                            first == packets_from_buffer(SubSeq(bytes, 1, k))
                            later == packets_from_buffer(Rest(bytes, first.len))
                        IN  /\ first.packets \o later.packets = whole.packets
                            /\ first.len + later.len = whole.len
    BY DEF ChunkingDoesNotMatter
  <2>2. PICK p \in Seq(Byte) : p = SubSeq(bytes, 1, k)
    BY <1>1, PrefixType
  <2>3. PICK t \in Seq(Byte) : t = Rest(bytes, k)
    BY <1>1, RestElements
  <2>4. bytes = p \o t
    BY <1>1, <2>2, <2>3, SplitAt
  <2>5. Resumes(p, t)
    BY <2>1, <2>4, ParseConcat
  <2>. QED
    BY <2>2, <2>4, <2>5 DEF Resumes
<1>. QED
  BY <1>1, BytesAreBytes, PTL

(***************************************************************************)
(* Whatever the packet and the bytes behind it, packet_from_buffer reads   *)
(* back what packet_to_buffer wrote, for every size protobuf can           *)
(* serialise, and the length is positive just if the packet is at least    *)
(* four bytes short of 2^31 (packet.cpp:5-39, 69-85).                      *)
(***************************************************************************)
THEOREM RoundTripAlways == BytesSpec => []RoundTrip
<1>1. ASSUME bytes \in Seq(Byte) PROVE RoundTrip
  <2>1. ASSUME NEW k \in 0 .. Len(bytes), Serialisable(SubSeq(bytes, 1, k))
        PROVE  LET packet == SubSeq(bytes, 1, k)
                   result == packet_from_buffer(packet_to_buffer(packet) \o Rest(bytes, k))
               IN  /\ result.packet = packet
                   /\ result.len = ToInt(k + HeaderLen)
                   /\ result.len > 0 <=> Fits(packet)
    <3>1. PICK p \in Seq(Byte) : p = SubSeq(bytes, 1, k) /\ Len(p) = k
      BY <1>1, PrefixType
    <3>2. PICK t \in Seq(Byte) : t = Rest(bytes, k)
      BY <1>1, RestElements
    <3>3. PICK result : result = packet_from_buffer(packet_to_buffer(p) \o t)
      OBVIOUS
    <3>4. /\ result = [len |-> ToInt(Len(p) + HeaderLen), packet |-> p]
          /\ result.len > 0 <=> Fits(p)
      BY <2>1, <3>1, <3>3, PacketRoundTrip
    <3>. QED
      BY <3>1, <3>2, <3>3, <3>4
  <2>. QED
    BY <2>1 DEF RoundTrip
<1>. QED
  BY <1>1, BytesAreBytes, PTL

-----------------------------------------------------------------------------
(***************************************************************************)
(* What the frames of a stream say about the packets that were written     *)
(* into it.                                                                *)
(***************************************************************************)
LEMMA ReadableWritable ==
    /\ Readable \subseteq Writable /\ Seq(Readable) \subseteq Seq(Writable)
    /\ Seq(Readable) \subseteq Seq(Seq(Byte)) /\ Seq(Writable) \subseteq Seq(Seq(Byte))
<1>1. /\ Readable \subseteq Writable
      /\ Readable \subseteq Seq(Byte)
      /\ Writable \subseteq Seq(Byte)
  BY DEF Readable, Writable, NonEmpty
<1>. QED
  BY <1>1, SeqMonotonic

LEMMA ThreeWritable == \A s, t, u \in Seq(Writable) : (s \o t) \o u = s \o (t \o u)
<1> TAKE s, t, u \in Seq(Writable)
<1>. QED
  OBVIOUS

LEMMA ConcatOfReadable == \A s, t \in Seq(Readable) : s \o t \in Seq(Readable)
OBVIOUS

LEMMA ReadableIsSerialisable ==
    ASSUME NEW packet \in Readable
    PROVE  packet \in Seq(Byte) /\ Serialisable(packet) /\ Fits(packet)
<1>1. PICK M \in Nat, l \in Nat : M = SizeModulus /\ l = Len(packet)
  BY Modulus, LenIsNat DEF Readable, NonEmpty
<1>2. packet \in Seq(Byte) /\ packet # <<>> /\ 2 * (l + HeaderLen) < M
  BY <1>1 DEF Readable, NonEmpty, Fits
<1>. QED
  BY <1>1, <1>2 DEF Serialisable, Fits, HeaderLen

LEMMA FrontOfFrame ==
    ASSUME NEW x \in Readable, NEW u \in Seq(Byte)
    PROVE  LET result == packet_from_buffer(packet_to_buffer(x) \o u)
           IN  result.len > 0 /\ result.packet = x
<1>1. PICK result : result = packet_from_buffer(packet_to_buffer(x) \o u)
  OBVIOUS
<1>2. x \in Seq(Byte) /\ Serialisable(x) /\ Fits(x)
  BY ReadableIsSerialisable
<1>3. /\ result = [len |-> ToInt(Len(x) + HeaderLen), packet |-> x]
      /\ result.len > 0 <=> Fits(x)
  BY <1>1, <1>2, PacketRoundTrip
<1>. QED
  BY <1>1, <1>2, <1>3

(* Two streams that start with a frame start with the same packet.         *)
LEMMA SameFront ==
    ASSUME NEW x \in Readable, NEW y \in Writable, NEW u \in Seq(Byte), NEW v \in Seq(Byte),
           packet_to_buffer(x) \o u = packet_to_buffer(y) \o v
    PROVE  x = y /\ u = v
<1>1. PICK w \in Seq(Byte) : w = packet_to_buffer(x) \o u
  BY PacketToBufferType, ConcatOfBytes DEF Readable, NonEmpty
<1>2. packet_from_buffer(w).len > 0 /\ packet_from_buffer(w).packet = x
  BY <1>1, FrontOfFrame
<1>3. y \in Seq(Byte)
  BY DEF Writable
<1>4. y # <<>>
  <2>1. SUFFICES ASSUME y = <<>> PROVE FALSE
    OBVIOUS
  <2>2. PICK frame \in Seq(Byte) : frame = packet_to_buffer(y) /\ Len(frame) = HeaderLen + Len(y)
    BY <1>3, PacketToBufferType
  <2>3. frame = Header(0)
    <3>1. Len(y) = 0 /\ Header(0) \in Seq(Byte)
      BY <2>1, HeaderType
    <3>2. Header(0) \o <<>> = Header(0)
      BY <3>1, ConcatEmpty
    <3>. QED
      BY <2>1, <2>2, <3>1, <3>2 DEF packet_to_buffer
  <2>4. w = frame \o v /\ Len(frame) = HeaderLen
    BY <1>1, <2>1, <2>2 DEF HeaderLen
  <2>5. \A i \in 1 .. HeaderLen : w[i] = Header(0)[i]
    BY <2>3, <2>4, IndexOfConcat
  <2>6. 0 \in 0 .. SizeModulus - 1
    BY Modulus
  <2>7. HeaderSize(w) = 0
    BY <2>5, <2>6, HeaderSizeOfHeader
  <2>8. packet_from_buffer(w) = NoPacket
    BY <2>7 DEF packet_from_buffer
  <2>. QED
    BY <1>2, <2>8 DEF NoPacket
<1>5. x = y
  <2>1. y \in Readable
    BY <1>4 DEF Writable, Readable, NonEmpty
  <2>. QED
    BY <1>1, <1>2, <2>1, FrontOfFrame
<1>6. PICK frame \in Seq(Byte) : frame = packet_to_buffer(y)
  BY <1>3, PacketToBufferType
<1>7. Rest(frame \o u, Len(frame)) = u /\ Rest(frame \o v, Len(frame)) = v
  BY RestBehind
<1>. QED
  BY <1>5, <1>6, <1>7

LEMMA SameFrontOfAll ==
    \A x \in Readable, y \in Writable, u \in Seq(Byte), v \in Seq(Byte) :
        packet_to_buffer(x) \o u = packet_to_buffer(y) \o v => x = y /\ u = v
BY SameFront

(* The encoding of a non-empty sequence of packets starts with the first.  *)
LEMMA EncodedHead ==
    ASSUME NEW s \in Seq(Seq(Byte)), s # <<>>
    PROVE  Encoded(s) = packet_to_buffer(Head(s)) \o Encoded(Tail(s))
<1>1. PICK x \in Seq(Byte), t \in Seq(Seq(Byte)) : x = Head(s) /\ t = Tail(s) /\ s = <<x>> \o t
  <2>1. Head(s) \in Seq(Byte) /\ Tail(s) \in Seq(Seq(Byte)) /\ s = <<Head(s)>> \o Tail(s)
    BY HeadTailProperties
  <2>. QED
    BY <2>1
<1>2. <<x>> \in Seq(Seq(Byte))
  OBVIOUS
<1>3. Encoded(<<x>> \o t) = Encoded(<<x>>) \o Encoded(t)
  BY <1>2, EncodedConcat
<1>4. Encoded(<<x>>) = packet_to_buffer(x)
  BY EncodedOne
<1>. QED
  BY <1>1, <1>3, <1>4

(***************************************************************************)
(* If a stream written from packets starts with the encoding of readable   *)
(* packets, these are the first of the packets written.                    *)
(***************************************************************************)
Begins(l, a) == \E more \in Seq(Writable) : a = l \o more

LEMMA EncodedPrefix ==
    ASSUME NEW l \in Seq(Readable), NEW a \in Seq(Writable), NEW r \in Seq(Byte),
           Encoded(a) = Encoded(l) \o r
    PROVE  Begins(l, a)
<1> DEFINE Holds(s) == \A t \in Seq(Writable) : \A u \in Seq(Byte) :
                          Encoded(t) = Encoded(s) \o u => Begins(s, t)
           S == {k \in Nat : \A s \in Seq(Readable) : Len(s) = k => Holds(s)}
<1>1. 0 \in S
  <2>1. ASSUME NEW s \in Seq(Readable), Len(s) = 0, NEW t \in Seq(Writable) PROVE Begins(s, t)
    <3>1. s = <<>>
      BY <2>1, EmptySeq
    <3>2. t = <<>> \o t
      BY ConcatEmptySeq
    <3>. QED
      BY <3>1, <3>2 DEF Begins
  <2>. QED
    BY <2>1
<1>2. ASSUME NEW k \in Nat, k \in S,
             NEW s \in Seq(Readable), Len(s) = k + 1,
             NEW t \in Seq(Writable), NEW u \in Seq(Byte),
             Encoded(t) = Encoded(s) \o u
      PROVE  Begins(s, t)
  <2>1. Len(s) = k + 1 /\ Encoded(t) = Encoded(s) \o u
    BY <1>2
  <2>2. s # <<>>
    BY <2>1, EmptySeq
  <2>3. PICK x \in Readable, z \in Seq(Readable) :
            x = Head(s) /\ z = Tail(s) /\ s = <<x>> \o z /\ Len(z) = k
    <3>1. Head(s) \in Readable /\ Tail(s) \in Seq(Readable) /\ s = <<Head(s)>> \o Tail(s)
          /\ Len(Tail(s)) = Len(s) - 1
      BY <2>2, HeadTailProperties
    <3>2. Len(s) - 1 = k
      BY <2>1
    <3>. QED
      BY <3>1, <3>2
  <2>4. PICK front \in Seq(Byte), e \in Seq(Byte) : front = packet_to_buffer(x) /\ e = Encoded(z)
                                                     /\ Len(front) >= HeaderLen
    <3>1. x \in Seq(Byte) /\ z \in Seq(Seq(Byte)) /\ Len(x) \in Nat
      BY ReadableWritable DEF Readable, NonEmpty
    <3>2. packet_to_buffer(x) \in Seq(Byte) /\ Len(packet_to_buffer(x)) = HeaderLen + Len(x)
      BY <3>1, PacketToBufferType
    <3>. QED
      BY <3>1, <3>2, EncodedType DEF HeaderLen
  <2>5. Encoded(s) = front \o e
    <3>1. s \in Seq(Seq(Byte))
      BY ReadableWritable
    <3>. QED
      BY <2>2, <2>3, <2>4, <3>1, EncodedHead
  <2>6. PICK ru \in Seq(Byte) : ru = e \o u
    BY ConcatOfBytes
  <2>7. Encoded(t) = front \o ru
    <3>1. (front \o e) \o u = front \o (e \o u)
      BY ConcatIsAssociative
    <3>. QED
      BY <2>1, <2>5, <2>6, <3>1
  <2>8. t # <<>>
    <3>1. SUFFICES ASSUME t = <<>> PROVE FALSE
      OBVIOUS
    <3>2. Encoded(t) = <<>>
      BY <3>1, EncodedEmpty
    <3>3. Len(front \o ru) = Len(front) + Len(ru) /\ Len(ru) \in Nat /\ Len(front) \in Nat
      BY LenOfConcat
    <3>4. Len(<<>>) = 0
      OBVIOUS
    <3>. QED
      BY <2>4, <2>7, <3>2, <3>3, <3>4 DEF HeaderLen
  <2>9. PICK y \in Writable, v \in Seq(Writable) : y = Head(t) /\ v = Tail(t) /\ t = <<y>> \o v
    <3>1. Head(t) \in Writable /\ Tail(t) \in Seq(Writable) /\ t = <<Head(t)>> \o Tail(t)
      BY <2>8, HeadTailProperties
    <3>. QED
      BY <3>1
  <2>10. PICK ev \in Seq(Byte) : ev = Encoded(v)
    BY ReadableWritable, EncodedType
  <2>11. Encoded(t) = packet_to_buffer(y) \o ev
    <3>1. t \in Seq(Seq(Byte))
      BY ReadableWritable
    <3>. QED
      BY <2>8, <2>9, <2>10, <3>1, EncodedHead
  <2>12. x = y /\ ru = ev
    <3>1. packet_to_buffer(x) \o ru = packet_to_buffer(y) \o ev
      BY <2>4, <2>7, <2>11
    <3>. QED
      BY <3>1, SameFront
  <2>13. Encoded(v) = Encoded(z) \o u
    BY <2>4, <2>6, <2>10, <2>12
  <2>14. Begins(z, v)
    BY <1>2, <2>3, <2>13
  <2>15. PICK more \in Seq(Writable) : v = z \o more
    BY <2>14 DEF Begins
  <2>16. t = s \o more
    <3>1. <<x>> \in Seq(Writable) /\ z \in Seq(Writable)
      BY ReadableWritable
    <3>2. (<<x>> \o z) \o more = <<x>> \o (z \o more)
      BY <3>1, ThreeWritable
    <3>. QED
      BY <2>3, <2>9, <2>12, <2>15, <3>2
  <2>. QED
    BY <2>16 DEF Begins
<1>0. ASSUME NEW k \in Nat, k \in S PROVE k + 1 \in S
  <2>1. ASSUME NEW s \in Seq(Readable), Len(s) = k + 1 PROVE Holds(s)
    <3>1. ASSUME NEW t \in Seq(Writable), NEW u \in Seq(Byte), Encoded(t) = Encoded(s) \o u
          PROVE  Begins(s, t)
      BY <1>0, <1>2, <2>1, <3>1
    <3>. QED
      BY <3>1
  <2> HIDE DEF Holds
  <2>. QED
    BY <2>1
<1> HIDE DEF S
<1>3. \A k \in Nat : k \in S
  BY <1>0, <1>1, SetInduction
<1>4. Len(l) \in Nat
  OBVIOUS
<1>5. Holds(l)
  BY <1>3, <1>4 DEF S
<1>. QED
  BY <1>5

IsFrontOf(packet, x, n) == packet_to_buffer(packet) = SubSeq(x, 1, n)
StartsWith(x, w, y, behind) == x \o w = packet_to_buffer(y) \o behind

LEMMA BehindTheFrame ==
    ASSUME NEW x \in Seq(Byte), NEW w \in Seq(Byte), NEW packet \in Readable,
           NEW n \in 1 .. Len(x), IsFrontOf(packet, x, n),
           NEW y \in Writable, NEW behind \in Seq(Byte), StartsWith(x, w, y, behind)
    PROVE  packet = y /\ Rest(x, n) \o w = behind
<1>1. n \in 0 .. Len(x)
  OBVIOUS
<1>2. PICK f \in Seq(Byte) : f = SubSeq(x, 1, n)
  BY <1>1, PrefixType
<1>3. PICK r \in Seq(Byte) : r = Rest(x, n)
  BY <1>1, RestElements
<1>4. x = f \o r
  BY <1>1, <1>2, <1>3, SplitAt
<1>5. (f \o r) \o w = f \o (r \o w)
  BY ConcatIsAssociative
<1>6. PICK u \in Seq(Byte) : u = r \o w
  BY ConcatOfBytes
<1>7. packet_to_buffer(packet) \o u = packet_to_buffer(y) \o behind
  BY <1>2, <1>4, <1>5, <1>6 DEF IsFrontOf, StartsWith
<1>8. packet_to_buffer(packet) \o u = packet_to_buffer(y) \o behind => packet = y /\ u = behind
  BY SameFrontOfAll
<1>. QED
  BY <1>3, <1>6, <1>7, <1>8

(***************************************************************************)
(* What a stream of written packets starts with holds no size that wraps   *)
(* and no frame of 2^31 bytes, and is parsed into the packets its bytes    *)
(* are the encoding of.                                                    *)
(***************************************************************************)
LEMMA FrontOfStream ==
    ASSUME NEW x \in Seq(Byte), NEW w \in Seq(Byte), NEW s \in Seq(Writable),
           x \o w = Encoded(s)
    PROVE  LET result == packet_from_buffer(x)
           IN  /\ ~SizeWraps(x) /\ result.len >= 0
               /\ result.len > 0 =>
                      /\ result.packet \in Readable
                      /\ result.len \in 1 .. Len(x)
                      /\ packet_to_buffer(result.packet) = SubSeq(x, 1, result.len)
                      /\ \E more \in Seq(Writable) : Rest(x, result.len) \o w = Encoded(more)
<1>0. SUFFICES /\ ~SizeWraps(x) /\ packet_from_buffer(x).len >= 0
               /\ packet_from_buffer(x).len > 0 =>
                     /\ packet_from_buffer(x).packet \in Readable
                     /\ packet_from_buffer(x).len \in 1 .. Len(x)
                     /\ packet_to_buffer(packet_from_buffer(x).packet)
                            = SubSeq(x, 1, packet_from_buffer(x).len)
                     /\ \E more \in Seq(Writable) :
                            Rest(x, packet_from_buffer(x).len) \o w = Encoded(more)
  OBVIOUS
<1>1. PICK M \in Nat, l \in Nat : M = SizeModulus /\ M >= 16 /\ l = Len(x)
  BY Modulus, LenIsNat
<1>2. CASE l < HeaderLen
  <2>1. ~SizeWraps(x) /\ packet_from_buffer(x) = NoPacket
    BY <1>1, <1>2 DEF SizeWraps, packet_from_buffer, HeaderLen
  <2>. QED
    BY <2>1 DEF NoPacket
<1>3. CASE l >= HeaderLen
  <2>1. s # <<>>
    <3>1. SUFFICES ASSUME s = <<>> PROVE FALSE
      OBVIOUS
    <3>2. Encoded(s) = <<>> /\ Len(<<>>) = 0
      BY <3>1, EncodedEmpty
    <3>3. Len(x \o w) = l + Len(w) /\ Len(w) \in Nat
      BY <1>1, LenOfConcat
    <3>. QED
      BY <1>1, <1>3, <3>2, <3>3 DEF HeaderLen
  <2>2. PICK y \in Writable, more \in Seq(Writable) :
            /\ Encoded(s) = packet_to_buffer(y) \o Encoded(more)
    <3>1. Head(s) \in Writable /\ Tail(s) \in Seq(Writable)
      BY <2>1, HeadTailProperties
    <3>2. s \in Seq(Seq(Byte))
      BY ReadableWritable
    <3>3. Encoded(s) = packet_to_buffer(Head(s)) \o Encoded(Tail(s))
      BY <2>1, <3>2, EncodedHead
    <3>. QED
      BY <3>1, <3>3
  <2>3. PICK size \in Nat : y \in Seq(Byte) /\ size = Len(y) /\ 2 * (size + HeaderLen) < M
    BY <1>1, LenIsNat DEF Writable, Fits
  <2>4. PICK behind \in Seq(Byte) : behind = Encoded(more)
    BY ReadableWritable, EncodedType
  <2>5. Header(size) \in Seq(Byte) /\ Len(Header(size)) = HeaderLen
    BY HeaderType
  <2>6. PICK frame \in Seq(Byte) : frame = packet_to_buffer(y) /\ Len(frame) = HeaderLen + size
    BY <2>3, PacketToBufferType
  <2>7. HeaderSize(x) = size
    <3>1. ASSUME NEW i \in 1 .. HeaderLen PROVE x[i] = Header(size)[i]
      <4>1. frame[i] = Header(size)[i]
        BY <2>3, <2>5, <2>6, IndexOfConcat DEF packet_to_buffer
      <4>2. i \in 1 .. Len(frame) /\ i \in 1 .. Len(x)
        BY <1>1, <1>3, <2>6 DEF HeaderLen
      <4>3. (frame \o behind)[i] = frame[i] /\ (x \o w)[i] = x[i]
        BY <4>2, IndexOfConcat
      <4>. QED
        BY <2>2, <2>4, <2>6, <4>1, <4>3
    <3>2. size \in 0 .. SizeModulus - 1
      BY <1>1, <2>3 DEF HeaderLen
    <3>. QED
      BY <3>1, <3>2, HeaderSizeOfHeader
  <2>8. ~SizeWraps(x)
    BY <1>1, <2>3, <2>7 DEF SizeWraps, HeaderLen
  <2>9. packet_from_buffer(x).len >= 0
    <3>1. ToInt(size + HeaderLen) >= 0
      BY <1>1, <2>3 DEF ToInt, HeaderLen
    <3>2. \/ packet_from_buffer(x) = NoPacket
          \/ packet_from_buffer(x) = [len    |-> ToInt(size + HeaderLen),
                                      packet |-> ParseFromArray(x, size)]
      BY <2>7, <2>8, FrontCases
    <3>. QED
      BY <3>1, <3>2 DEF NoPacket
  <2>10. ASSUME packet_from_buffer(x).len > 0
         PROVE  /\ packet_from_buffer(x).packet \in Readable
                /\ packet_from_buffer(x).len \in 1 .. Len(x)
                /\ packet_to_buffer(packet_from_buffer(x).packet)
                       = SubSeq(x, 1, packet_from_buffer(x).len)
                /\ Rest(x, packet_from_buffer(x).len) \o w = Encoded(more)
    <3>1. /\ packet_from_buffer(x).packet \in Readable
          /\ packet_from_buffer(x).len \in HeaderLen + 1 .. Len(x)
      BY <2>8, <2>10, FrontTaken
    <3>2. packet_from_buffer(x).len \in 1 .. Len(x)
      BY <3>1 DEF HeaderLen
    <3>3. PICK n \in 1 .. Len(x), packet \in Readable :
              n = packet_from_buffer(x).len /\ packet = packet_from_buffer(x).packet
      BY <3>1, <3>2
    <3>4. packet_to_buffer(packet) = SubSeq(x, 1, n)
      BY <2>8, <2>10, <3>3, FrameIsEncoding
    <3>5. IsFrontOf(packet, x, n) /\ StartsWith(x, w, y, behind)
      BY <2>2, <2>4, <3>4 DEF IsFrontOf, StartsWith
    <3>6. packet = y /\ Rest(x, n) \o w = behind
      BY <3>5, BehindTheFrame
    <3>. QED
      BY <2>4, <3>3, <3>4, <3>6
  <2>. QED
    BY <2>8, <2>9, <2>10
<1>. QED
  <2>1. l < HeaderLen \/ l >= HeaderLen
    BY DEF HeaderLen
  <2>. QED
    BY ONLY <1>2, <1>3, <2>1

(* What the loop makes of the front of such a stream from some place on.   *)
Cleanly(b, r, here) ==
    /\ ~here.overruns
    /\ here.packets \in Seq(Readable)
    /\ here.len >= 0 => /\ here.len \in r .. Len(b)
                        /\ Encoded(here.packets) = SubSeq(b, r + 1, here.len)

Follows(x, w) == \E s \in Seq(Writable) : x \o w = Encoded(s)

LEMMA CutOfStream ==
    ASSUME NEW b \in Seq(Byte), NEW w \in Seq(Byte)
    PROVE  \A r \in ReadLengths(b) : Follows(Rest(b, r), w) => Cleanly(b, r, Cut(b)[r])
<1> DEFINE Good == {r \in ReadLengths(b) : Follows(Rest(b, r), w) => Cleanly(b, r, Cut(b)[r])}
<1>1. ASSUME NEW r \in ReadLengths(b), \A q \in ReadLengths(b) : q > r => q \in Good
      PROVE  r \in Good
  <2>1. PICK l \in Nat, n \in Nat : l = Len(b) /\ n = r /\ n <= l
    BY Lengths, LenIsNat
  <2>2. PICK rest \in Seq(Byte) : rest = Rest(b, n) /\ Len(rest) = l - n
    BY <2>1, Lengths
  <2>3. PICK here : here = Cut(b)[n]
    OBVIOUS
  <2>4. SUFFICES ASSUME NEW s \in Seq(Writable), rest \o w = Encoded(s) PROVE Cleanly(b, n, here)
    BY <2>1, <2>2, <2>3 DEF Follows
  <2>5. PICK len \in Int, packet \in Seq(Byte), next \in Int :
            /\ len = packet_from_buffer(rest).len /\ packet = packet_from_buffer(rest).packet
            /\ next = ToInt(n + len)
    BY <2>1, <2>2, FrontBounds, NextLength DEF FrontLen
  <2>6. FrontLen(b, n) = len /\ n \in ReadLengths(b)
    BY <2>1, <2>2, <2>5 DEF FrontLen
  <2>7. len > 0 /\ next >= 0 => next = n + len /\ next \in ReadLengths(b) /\ next > n
    BY <2>1, <2>5, <2>6, NextLength
  <2>8. /\ ~SizeWraps(rest) /\ len >= 0
        /\ len > 0 =>
               /\ packet \in Readable /\ len \in 1 .. l - n
               /\ packet_to_buffer(packet) = SubSeq(rest, 1, len)
               /\ \E more \in Seq(Writable) : Rest(rest, len) \o w = Encoded(more)
    BY <2>2, <2>4, <2>5, FrontOfStream
  <2>9. CASE len <= 0
    <3>1. here.len = n + len /\ here.packets = <<>> /\ here.overruns = SizeWraps(rest)
      BY <2>2, <2>3, <2>6, <2>9, CutStops
    <3>2. SubSeq(b, n + 1, n) = <<>> /\ <<>> \in Seq(Readable)
      BY <2>1
    <3>3. here.len = n
      BY <2>8, <2>9, <3>1
    <3>4. Encoded(here.packets) = SubSeq(b, n + 1, here.len)
      BY <3>1, <3>2, <3>3, EncodedEmpty
    <3>. QED
      BY <2>1, <2>8, <3>1, <3>2, <3>3, <3>4 DEF Cleanly
  <2>10. CASE len > 0 /\ next < 0
    <3>1. /\ here.len = next /\ here.packets = <<packet>>
          /\ here.overruns = SizeWraps(rest)
      BY <2>2, <2>3, <2>5, <2>6, <2>10, CutOverflows
    <3>2. <<packet>> \in Seq(Readable)
      BY <2>8, <2>10
    <3>. QED
      BY <2>8, <2>10, <3>1, <3>2 DEF Cleanly
  <2>11. CASE len > 0 /\ next >= 0
    <3>1. PICK more \in ParseResult : more = Cut(b)[next]
      BY <2>7, <2>11, CutType
    <3>2. here.len = more.len /\ here.packets = <<packet>> \o more.packets
          /\ here.overruns = (SizeWraps(rest) \/ more.overruns)
      <4>1. FrontLen(b, n) > 0 /\ next = ToInt(n + FrontLen(b, n)) /\ next >= 0
        BY <2>5, <2>6, <2>11
      <4>2. /\ Cut(b)[n].len = Cut(b)[next].len
            /\ Cut(b)[n].packets =
                   <<packet_from_buffer(Rest(b, n)).packet>> \o Cut(b)[next].packets
            /\ Cut(b)[n].overruns = (SizeWraps(Rest(b, n)) \/ Cut(b)[next].overruns)
        BY <2>6, <4>1, CutGoesOn
      <4>. QED
        BY <2>2, <2>3, <2>5, <3>1, <4>2
    <3>3. n \in 0 .. Len(b) /\ len \in 0 .. Len(b) - n
      BY <2>1, <2>8, <2>11
    <3>4. Rest(rest, len) = Rest(b, next)
      BY <2>2, <2>7, <2>11, <3>3, RestOfRest
    <3>5. Cleanly(b, next, more)
      <4>1. next \in Good
        BY <1>1, <2>1, <2>7, <2>11
      <4>2. Follows(Rest(b, next), w)
        BY <2>8, <2>11, <3>4 DEF Follows
      <4>. QED
        BY <3>1, <4>1, <4>2
    <3>6. here.packets \in Seq(Readable) /\ ~here.overruns
      <4>1. <<packet>> \in Seq(Readable) /\ more.packets \in Seq(Readable)
        BY <2>8, <2>11, <3>5 DEF Cleanly
      <4>. QED
        BY <2>8, <3>2, <3>5, <4>1, ConcatOfReadable DEF Cleanly
    <3>7. ASSUME here.len >= 0
          PROVE  /\ here.len \in n .. Len(b)
                 /\ Encoded(here.packets) = SubSeq(b, n + 1, here.len)
      <4>1. PICK e \in n + len .. l : e = here.len /\ Encoded(more.packets) = SubSeq(b, n + len + 1, e)
        BY <2>1, <2>7, <2>11, <3>2, <3>5, <3>7 DEF Cleanly
      <4>2. Encoded(here.packets) = Encoded(<<packet>>) \o Encoded(more.packets)
        <5>1. <<packet>> \in Seq(Seq(Byte)) /\ more.packets \in Seq(Seq(Byte))
          BY DEF ParseResult
        <5>. QED
          BY <3>2, <5>1, EncodedConcat
      <4>3. Encoded(<<packet>>) = SubSeq(b, n + 1, n + len)
        <5>1. SubSeq(rest, 1, len) = SubSeq(b, n + 1, n + len)
          BY <2>2, <3>3, PrefixOfRest
        <5>. QED
          BY <2>8, <2>11, <5>1, EncodedOne
      <4>4. SubSeq(b, n + 1, n + len) \o SubSeq(b, n + len + 1, e) = SubSeq(b, n + 1, e)
        <5>1. /\ n + 1 \in 1 .. Len(b) + 1 /\ n + len \in (n + 1) - 1 .. Len(b)
              /\ e \in n + len .. Len(b)
          BY <2>1, <2>8, <2>11
        <5>. QED
          BY <5>1, ConcatAdjacentSubSeq
      <4>5. e \in n .. Len(b)
        BY <2>1, <2>11
      <4>. QED
        BY <4>1, <4>2, <4>3, <4>4, <4>5
    <3>. QED
      BY <3>6, <3>7 DEF Cleanly
  <2>. QED
    BY <2>5, <2>9, <2>10, <2>11
<1> HIDE DEF Good
<1>2. \A r \in ReadLengths(b) : r \in Good
  BY <1>1, CutInduction
<1>. QED
  BY <1>2 DEF Good

LEMMA ParsesStream ==
    ASSUME NEW b \in Seq(Byte), NEW w \in Seq(Byte), Follows(b, w)
    PROVE  Cleanly(b, 0, packets_from_buffer(b))
<1>1. 0 \in ReadLengths(b) /\ Rest(b, 0) = b /\ packets_from_buffer(b) = Cut(b)[0]
  BY FirstLength, RestOfNothing, CutOfBuffer
<1>. QED
  BY <1>1, CutOfStream

(***************************************************************************)
(* Behind the encoding of readable packets a stream of written ones goes   *)
(* on with a stream of written ones.                                       *)
(***************************************************************************)
LEMMA StreamGoesOn ==
    ASSUME NEW a \in Seq(Writable), NEW l \in Seq(Readable),
           NEW x \in Seq(Byte), NEW w \in Seq(Byte),
           Encoded(a) = Encoded(l) \o (x \o w)
    PROVE  Follows(x, w)
<1>1. PICK r \in Seq(Byte) : r = x \o w
  BY ConcatOfBytes
<1>2. Encoded(a) = Encoded(l) \o r
  BY <1>1
<1>3. PICK more \in Seq(Writable) : a = l \o more
  BY <1>2, EncodedPrefix DEF Begins
<1>4. /\ l \in Seq(Seq(Byte)) /\ more \in Seq(Seq(Byte))
  BY ReadableWritable
<1>5. PICK e \in Seq(Byte), m \in Seq(Byte) : e = Encoded(l) /\ m = Encoded(more)
  BY <1>4, EncodedType
<1>6. e \o r = e \o m
  BY <1>2, <1>3, <1>4, <1>5, EncodedConcat
<1>7. r = m
  <2>1. Rest(e \o r, Len(e)) = r /\ Rest(e \o m, Len(e)) = m
    BY RestBehind
  <2>. QED
    BY <1>6, <2>1
<1>. QED
  BY <1>1, <1>5, <1>7 DEF Follows

-----------------------------------------------------------------------------
(***************************************************************************)
(* The places a client's bytes can be in, in the order of the stream: the  *)
(* erased ones, the read buffer, the chunk in flight and the wire.         *)
(***************************************************************************)
Kept(s, t, b, f, w) == s = t \o b \o f \o w

Balanced(s, t, b, f, w) == Len(s) = Len(t) + Len(b) + Len(f) + Len(w)

Joined(x, y, z) == z = x \o y

LEMMA JoinedWhenGrown ==
    ASSUME NEW p \in Seq(Byte), NEW w \in Seq(Byte), NEW g \in Seq(Byte),
           NEW s \in Seq(Byte), NEW w2 \in Seq(Byte), NEW s2 \in Seq(Byte),
           Joined(w, g, w2), Joined(s, g, s2), Joined(p, w, s)
    PROVE  Joined(p, w2, s2)
BY DEF Joined

(* A peer's frame makes the stream and the wire longer.                    *)
LEMMA KeptWhenGrown ==
    ASSUME NEW s \in Seq(Byte), NEW t \in Seq(Byte), NEW b \in Seq(Byte),
           NEW f \in Seq(Byte), NEW w \in Seq(Byte), NEW g \in Seq(Byte),
           NEW s2 \in Seq(Byte), NEW w2 \in Seq(Byte),
           Joined(s, g, s2), Joined(w, g, w2)
    PROVE  /\ Kept(s, t, b, f, w) => Kept(s2, t, b, f, w2)
           /\ Balanced(s, t, b, f, w) => Balanced(s2, t, b, f, w2)
<1>1. Kept(s, t, b, f, w) => Kept(s2, t, b, f, w2)
  <2>1. t \o b \o f \in Seq(Byte)
    OBVIOUS
  <2>2. PICK p \in Seq(Byte) : p = t \o b \o f
    BY <2>1, Zenon
  <2>3. Joined(p, w, s) => Joined(p, w2, s2)
    BY JoinedWhenGrown
  <2>. QED
    BY <2>2, <2>3 DEF Kept, Joined
<1>2. Len(s2) = Len(s) + Len(g) /\ Len(w2) = Len(w) + Len(g)
  BY LenOfConcat DEF Joined
<1>3. Balanced(s, t, b, f, w) => Balanced(s2, t, b, f, w2)
  BY <1>2 DEF Balanced
<1>. QED
  BY <1>1, <1>3

(* Recv takes a chunk off the front of the wire.                           *)
LEMMA KeptWhenReceived ==
    ASSUME NEW s \in Seq(Byte), NEW t \in Seq(Byte), NEW b \in Seq(Byte),
           NEW f \in Seq(Byte), NEW w \in Seq(Byte), NEW w2 \in Seq(Byte),
           NEW e \in Seq(Byte), e = <<>>, Joined(f, w2, w)
    PROVE  /\ Kept(s, t, b, e, w) => Kept(s, t, b, f, w2)
           /\ Balanced(s, t, b, e, w) => Balanced(s, t, b, f, w2)
<1>1. Kept(s, t, b, e, w) => Kept(s, t, b, f, w2)
  BY DEF Kept, Joined
<1>2. Len(w) = Len(f) + Len(w2) /\ Len(e) = 0
  BY LenOfConcat DEF Joined
<1>3. Balanced(s, t, b, e, w) => Balanced(s, t, b, f, w2)
  BY <1>2 DEF Balanced
<1>. QED
  BY <1>1, <1>3

(* The chunk goes in front of the read buffer.                             *)
LEMMA KeptWhenInserted ==
    ASSUME NEW s \in Seq(Byte), NEW t \in Seq(Byte), NEW b \in Seq(Byte),
           NEW f \in Seq(Byte), NEW w \in Seq(Byte), NEW b2 \in Seq(Byte),
           NEW e \in Seq(Byte), e = <<>>, Joined(f, b, b2)
    PROVE  /\ b = <<>> /\ Kept(s, t, b, f, w) => Kept(s, t, b2, e, w)
           /\ Balanced(s, t, b, f, w) => Balanced(s, t, b2, e, w)
           /\ Len(b) <= Len(b2)
<1>1. b = <<>> /\ Kept(s, t, b, f, w) => Kept(s, t, b2, e, w)
  BY DEF Kept, Joined
<1>2. Len(b2) = Len(f) + Len(b) /\ Len(e) = 0 /\ Len(f) \in Nat /\ Len(b) \in Nat
  BY LenOfConcat, LenIsNat DEF Joined
<1>3. Balanced(s, t, b, f, w) => Balanced(s, t, b2, e, w)
  BY <1>2 DEF Balanced
<1>. QED
  BY <1>1, <1>2, <1>3

(* The reader moves x from the front of the read buffer to what is taken.  *)
LEMMA KeptWhenErased ==
    ASSUME NEW s \in Seq(Byte), NEW t \in Seq(Byte), NEW b \in Seq(Byte),
           NEW f \in Seq(Byte), NEW w \in Seq(Byte), NEW x \in Seq(Byte),
           NEW t2 \in Seq(Byte), NEW b2 \in Seq(Byte),
           Joined(t, x, t2)
    PROVE  /\ Joined(x, b2, b) /\ Kept(s, t, b, f, w) => Kept(s, t2, b2, f, w)
           /\ /\ Len(b) = Len(x) + Len(b2)
              /\ Balanced(s, t, b, f, w)
              => Balanced(s, t2, b2, f, w)
<1>1. Joined(x, b2, b) /\ Kept(s, t, b, f, w) => Kept(s, t2, b2, f, w)
  BY DEF Kept, Joined
<1>2. Len(t2) = Len(t) + Len(x)
  BY LenOfConcat DEF Joined
<1>3. Len(b) = Len(x) + Len(b2) /\ Balanced(s, t, b, f, w) => Balanced(s, t2, b2, f, w)
  BY <1>2 DEF Balanced
<1>. QED
  BY <1>1, <1>3

(***************************************************************************)
(* A stream that is kept, and of which the readable packets p and q have   *)
(* been taken, begins with the packets that were written into it.          *)
(***************************************************************************)
LEMMA BeginsWithPrefix ==
    ASSUME NEW p \in Seq(Writable), NEW q \in Seq(Writable), NEW a \in Seq(Writable),
           Begins(p \o q, a)
    PROVE  Len(p) <= Len(a) /\ SubSeq(a, 1, Len(p)) = p
<1>1. PICK more \in Seq(Writable) : a = (p \o q) \o more
  BY DEF Begins
<1>2. PICK r \in Seq(Writable) : r = q \o more
  <2>1. q \o more \in Seq(Writable)
    OBVIOUS
  <2>. QED
    BY <2>1
<1>3. a = p \o r
  <2>1. (p \o q) \o more = p \o (q \o more)
    BY ThreeWritable
  <2>. QED
    BY <1>1, <1>2, <2>1
<1>. QED
  BY <1>3

LEMMA KeptBehind ==
    ASSUME NEW s \in Seq(Byte), NEW t \in Seq(Byte), NEW b \in Seq(Byte),
           NEW f \in Seq(Byte), NEW w \in Seq(Byte), Kept(s, t, b, f, w)
    PROVE  \E r \in Seq(Byte) : s = t \o r
<1>1. (t \o b) \o f = t \o (b \o f)
  BY ConcatIsAssociative
<1>2. PICK bf \in Seq(Byte) : bf = b \o f
  BY ConcatOfBytes, Zenon
<1>3. (t \o bf) \o w = t \o (bf \o w)
  BY ConcatIsAssociative
<1>4. bf \o w \in Seq(Byte)
  BY ConcatOfBytes
<1>5. s = ((t \o b) \o f) \o w
  BY Zenon DEF Kept
<1>. QED
  BY <1>1, <1>2, <1>3, <1>4, <1>5, Zenon

LEMMA TakenIsWritten ==
    ASSUME NEW a \in Seq(Writable), NEW p \in Seq(Readable), NEW q \in Seq(Readable),
           NEW s \in Seq(Byte), NEW t \in Seq(Byte), NEW b \in Seq(Byte),
           NEW f \in Seq(Byte), NEW w \in Seq(Byte),
           s = Encoded(a), t = Encoded(p \o q), Kept(s, t, b, f, w)
    PROVE  Len(p) <= Len(a) /\ SubSeq(a, 1, Len(p)) = p
<1>1. PICK l \in Seq(Readable) : l = p \o q
  BY ConcatOfReadable
<1>2. PICK r \in Seq(Byte) : s = t \o r
  BY KeptBehind
<1>3. Encoded(a) = Encoded(l) \o r
  BY <1>1, <1>2
<1>4. Begins(l, a)
  BY <1>3, EncodedPrefix
<1>5. p \in Seq(Writable) /\ q \in Seq(Writable)
  BY ReadableWritable
<1>. QED
  BY <1>1, <1>4, <1>5, BeginsWithPrefix
-----------------------------------------------------------------------------
(***************************************************************************)
(* Ids (snowflake.cpp).  Callers that exclude each other: the sequence     *)
(* part of the k-th id is k modulo SequenceModulus, so that no id comes    *)
(* twice in a run of that length.                                          *)
(***************************************************************************)
M == SequenceModulus
-----------------------------------------------------------------------------
(* Counting modulo m.                                                      *)

LEMMA DivMod ==
    ASSUME NEW m \in Nat \ {0}, NEW n \in Nat
    PROVE  /\ n % m \in 0 .. m - 1
           /\ n \div m \in Nat
           /\ n = m * (n \div m) + (n % m)
  OBVIOUS

LEMMA RemainderIsUnique ==
    ASSUME NEW m \in Nat \ {0}, NEW q \in Int, NEW r \in 0 .. m - 1
    PROVE  (m * q + r) % m = r
  OBVIOUS

LEMMA NoMultipleBetween ==
    ASSUME NEW m \in Nat \ {0}, NEW d \in Int, 0 < m * d, m * d < m
    PROVE  FALSE
  OBVIOUS

(* Numbers less than m apart have different remainders.                    *)
LEMMA RemaindersDiffer ==
    ASSUME NEW m \in Nat \ {0}, NEW i \in Nat, NEW j \in Nat, i < j, j < i + m
    PROVE  i % m # j % m
<1> SUFFICES ASSUME i % m = j % m PROVE FALSE
  OBVIOUS
<1>1. PICK p \in Nat, r \in 0 .. m - 1 : i % m = r /\ i = m * p + r
  BY DivMod
<1>2. PICK q \in Nat : j = m * q + r
  BY DivMod, <1>1
<1>3. m * (q - p) = m * q - m * p
  OBVIOUS
<1>4. m * p \in Int /\ m * q \in Int
  OBVIOUS
<1>5. m * (q - p) = j - i
  BY <1>1, <1>2, <1>3, <1>4
<1>6. 0 < m * (q - p) /\ m * (q - p) < m
  BY <1>5
<1> QED
  BY <1>6, NoMultipleBetween, q - p \in Int

(* Counting on and taking the remainder commute.                           *)
LEMMA RemainderOfNext ==
    ASSUME NEW m \in Nat \ {0}, NEW n \in Nat
    PROVE  ((n % m) + 1) % m = (n + 1) % m
<1>1. PICK q \in Nat, r \in 0 .. m - 1 : n % m = r /\ n = m * q + r
  BY DivMod
<1>2. m * q \in Nat /\ m * (q + 1) = m * q + m
  OBVIOUS
<1>3. CASE r + 1 < m
  <2>1. r + 1 \in 0 .. m - 1
    BY <1>3
  <2>2. n + 1 = m * q + (r + 1)
    BY <1>1, <1>2
  <2>3. (m * q + (r + 1)) % m = r + 1
    BY <2>1, RemainderIsUnique, q \in Int
  <2>4. (m * 0 + (r + 1)) % m = r + 1
    BY <2>1, RemainderIsUnique
  <2>5. m * 0 + (r + 1) = r + 1
    OBVIOUS
  <2> QED
    BY <1>1, <2>2, <2>3, <2>4, <2>5
<1>4. CASE r + 1 = m
  <2>1. n + 1 = m * (q + 1) + 0
    BY <1>1, <1>2, <1>4
  <2>2. (m * (q + 1) + 0) % m = 0
    BY RemainderIsUnique, q + 1 \in Int, 0 \in 0 .. m - 1
  <2>3. (m * 1 + 0) % m = 0
    BY RemainderIsUnique, 0 \in 0 .. m - 1
  <2>4. m * 1 + 0 = r + 1
    BY <1>4
  <2> QED
    BY <1>1, <2>1, <2>2, <2>3, <2>4
<1> QED
  BY <1>3, <1>4
-----------------------------------------------------------------------------
(* The steps of one call, whatever the others do.                          *)

LEMMA StepTypes ==
    ASSUME SnowflakeTypeOK, NEW c \in Callers, CreateSnowflake(c)
    PROVE  SnowflakeTypeOK'
<1> USE ModuliAssumption, TimesAssumption DEF SnowflakeTypeOK
<1>1. call[c] \in Calls
  OBVIOUS
<1>2. CASE ReadClock(c)
  <2>1. [call[c] EXCEPT !.at = "load", !.ms = clock] \in Calls
    BY <1>1 DEF Calls
  <2> QED
    BY <1>2, <2>1 DEF ReadClock
<1>3. CASE Load(c)
  <2>1. [call[c] EXCEPT !.at = "store", !.loaded = sequence] \in Calls
    BY <1>1 DEF Calls
  <2> QED
    BY <1>3, <2>1 DEF Load
<1>4. CASE Store(c)
  <2>1. [call[c] EXCEPT !.at = "return"] \in Calls
    BY <1>1 DEF Calls
  <2>2. call[c].loaded + 1 \in Nat
    BY <1>1 DEF Calls
  <2>3. sequence' \in 0 .. SequenceModulus - 1
    BY <1>4, <2>2, DivMod DEF Store, Successor
  <2> QED
    BY <1>4, <2>1, <2>3 DEF Store
<1>5. CASE Return(c)
  <2>1. Idle \in Calls
    BY DEF Idle, Calls
  <2>2. PICK ms \in Times \cup {0} : ms = call[c].ms
    BY <1>1 DEF Calls
  <2>3. PICK time \in 0 .. TimeModulus - 1 : time = ms % TimeModulus
    BY <2>2, DivMod
  <2>4. <<time, sequence>> \in Ids
    BY <2>3 DEF Ids
  <2>5. Id(ms, sequence) \in Ids
    BY <2>3, <2>4 DEF Id
  <2>6. [ms |-> ms, id |-> Id(ms, sequence)] \in Created
    BY <2>5 DEF Created
  <2> QED
    BY <1>5, <2>1, <2>2, <2>6 DEF Return
<1> QED
  BY <1>2, <1>3, <1>4, <1>5 DEF CreateSnowflake

(* The id a call returns is the last one of the history.                   *)
LEMMA ReturnedId ==
    ASSUME SnowflakeTypeOK, NEW c \in Callers, Return(c)
    PROVE  /\ Len(created') = Len(created) + 1
           /\ DOMAIN created' = 1 .. Len(created) + 1
           /\ \A k \in 1 .. Len(created) : created'[k] = created[k]
           /\ created'[Len(created')].id \in Ids
           /\ created'[Len(created')].id[2] = sequence
<1>1. created \in Seq(Created)
  BY DEF SnowflakeTypeOK
<1>2. created' \in Seq(Created)
  BY StepTypes DEF CreateSnowflake, SnowflakeTypeOK
<1>3. PICK new : new = [ms |-> call[c].ms, id |-> Id(call[c].ms, sequence)]
  OBVIOUS
<1>4. created' = Append(created, new)
  BY <1>3 DEF Return
<1>5. /\ Len(created') = Len(created) + 1
      /\ DOMAIN created' = 1 .. Len(created) + 1
      /\ \A k \in 1 .. Len(created) : created'[k] = created[k]
      /\ created'[Len(created')] = new
  BY <1>1, <1>4
<1>6. new \in Created
  BY <1>2, <1>5
<1>7. new.id[2] = sequence
  BY <1>3 DEF Id
<1> QED
  BY <1>5, <1>6, <1>7 DEF Created
-----------------------------------------------------------------------------
(* The invariant.                                                          *)

(* At most one caller is inside CreateSnowflake.                           *)
OneCallAtATime ==
    \A c, d \in Callers : call[c].at # "idle" /\ call[d].at # "idle" => c = d

(* The counter is the number of ids created, and one more between a        *)
(* caller's store and its return.                                          *)
CounterCounts ==
    /\ (\A c \in Callers : call[c].at # "return") => sequence = Len(created) % M
    /\ \A c \in Callers :
           /\ call[c].at = "store" => call[c].loaded = Len(created) % M
           /\ call[c].at = "return" => sequence = (Len(created) + 1) % M

IdsCount == \A k \in DOMAIN created : created[k].id[2] = k % M

CountInv ==
    /\ SnowflakeTypeOK
    /\ OneCallAtATime
    /\ CounterCounts
    /\ IdsCount

LEMMA InitCounts == SnowflakeInit => CountInv
<1> SUFFICES ASSUME SnowflakeInit PROVE CountInv
  OBVIOUS
<1> USE ModuliAssumption, TimesAssumption DEF SnowflakeInit
<1>1. Idle \in Calls
  BY DEF Idle, Calls
<1>2. SnowflakeTypeOK
  BY <1>1 DEF SnowflakeTypeOK
<1>3. \A c \in Callers : call[c].at = "idle"
  BY DEF Idle
<1>4. OneCallAtATime
  BY <1>3 DEF OneCallAtATime
<1>5. (M * 0 + 0) % M = 0
  BY RemainderIsUnique, 0 \in 0 .. M - 1 DEF M
<1>6. Len(created) % M = 0
  BY <1>5 DEF M
<1>7. CounterCounts
  BY <1>3, <1>6 DEF CounterCounts
<1>8. IdsCount
  BY DEF IdsCount
<1> QED
  BY <1>2, <1>4, <1>7, <1>8 DEF CountInv
-----------------------------------------------------------------------------
(* The steps.                                                              *)

LEMMA CallCounts ==
    ASSUME CountInv, NEW c \in Callers, Exclusively(c), CreateSnowflake(c)
    PROVE  CountInv'
<1> USE ModuliAssumption, TimesAssumption
<1>1. SnowflakeTypeOK /\ OneCallAtATime /\ CounterCounts /\ IdsCount
  BY DEF CountInv
<1>2. Len(created) \in Nat
  BY <1>1 DEF SnowflakeTypeOK
<1>3. SnowflakeTypeOK'
  BY <1>1, StepTypes
<1>4. \A d \in Callers : d # c => call'[d] = call[d] /\ call[d].at = "idle"
  BY <1>1
  DEF Exclusively, CreateSnowflake, ReadClock, Load, Store, Return, SnowflakeTypeOK
<1>5. OneCallAtATime'
  BY <1>4 DEF OneCallAtATime
<1>6. call[c] \in Calls /\ call \in [Callers -> Calls]
  BY <1>1 DEF SnowflakeTypeOK
<1>7. CASE ReadClock(c)
  <2>1. UNCHANGED <<sequence, created>> /\ call[c].at = "idle" /\ call'[c].at = "load"
    BY <1>6, <1>7 DEF ReadClock, Calls
  <2>2. CounterCounts' /\ IdsCount'
    BY <1>1, <1>4, <2>1 DEF CounterCounts, IdsCount
  <2> QED
    BY <1>3, <1>5, <2>2 DEF CountInv
<1>8. CASE Load(c)
  <2>1. /\ UNCHANGED <<sequence, created>>
        /\ call[c].at = "load" /\ call'[c].at = "store"
        /\ call'[c].loaded = sequence
    BY <1>6, <1>8 DEF Load, Calls
  <2>2. CounterCounts' /\ IdsCount'
    BY <1>1, <1>4, <2>1 DEF CounterCounts, IdsCount
  <2> QED
    BY <1>3, <1>5, <2>2 DEF CountInv
<1>9. CASE Store(c)
  <2>1. /\ UNCHANGED created
        /\ call[c].at = "store" /\ call'[c].at = "return"
        /\ sequence' = (call[c].loaded + 1) % M
    BY <1>6, <1>9 DEF Store, Calls, Successor, M
  <2>2. sequence' = (Len(created) + 1) % M
    BY <1>1, <1>2, <2>1, RemainderOfNext DEF CounterCounts, M
  <2>3. CounterCounts' /\ IdsCount'
    BY <1>1, <1>4, <2>1, <2>2 DEF CounterCounts, IdsCount
  <2> QED
    BY <1>3, <1>5, <2>3 DEF CountInv
<1>10. CASE Return(c)
  <2>1. /\ UNCHANGED sequence
        /\ call[c].at = "return" /\ call'[c].at = "idle"
    BY <1>6, <1>10 DEF Return, Idle
  <2>2. /\ Len(created') = Len(created) + 1
        /\ DOMAIN created' = 1 .. Len(created) + 1
        /\ \A k \in 1 .. Len(created) : created'[k] = created[k]
        /\ created'[Len(created')].id[2] = sequence
    BY <1>1, <1>10, ReturnedId
  <2>3. sequence = Len(created') % M
    BY <1>1, <2>1, <2>2 DEF CounterCounts
  <2>4. CounterCounts'
    BY <1>4, <2>1, <2>3 DEF CounterCounts
  <2>5. IdsCount'
    <3> SUFFICES ASSUME NEW k \in DOMAIN created' PROVE created'[k].id[2] = k % M
      BY DEF IdsCount
    <3>1. CASE k \in 1 .. Len(created)
      BY <1>1, <2>2, <3>1 DEF IdsCount, SnowflakeTypeOK
    <3>2. CASE k = Len(created) + 1
      BY <2>2, <2>3, <3>2
    <3> QED
      BY <1>2, <2>2, <3>1, <3>2
  <2> QED
    BY <1>3, <1>5, <2>4, <2>5 DEF CountInv
<1> QED
  BY <1>7, <1>8, <1>9, <1>10 DEF CreateSnowflake

LEMMA NextCounts == CountInv /\ [SerialNext]_snowflakeVars => CountInv'
<1> SUFFICES ASSUME CountInv, [SerialNext]_snowflakeVars PROVE CountInv'
  OBVIOUS
<1>1. SnowflakeTypeOK /\ OneCallAtATime /\ CounterCounts /\ IdsCount
  BY DEF CountInv
<1>2. CASE ClockMoves
  <2>1. SnowflakeTypeOK'
    BY <1>1, <1>2 DEF ClockMoves, SnowflakeTypeOK
  <2>2. OneCallAtATime' /\ CounterCounts' /\ IdsCount'
    BY <1>1, <1>2 DEF ClockMoves, OneCallAtATime, CounterCounts, IdsCount
  <2> QED
    BY <2>1, <2>2 DEF CountInv
<1>3. CASE UNCHANGED snowflakeVars
  BY <1>1, <1>3
  DEF snowflakeVars, CountInv, SnowflakeTypeOK, OneCallAtATime, CounterCounts, IdsCount
<1> QED
  BY <1>2, <1>3, CallCounts DEF SerialNext
-----------------------------------------------------------------------------
(* The theorems.                                                           *)

(***************************************************************************)
(* The counter of callers that exclude each other counts the ids, and the  *)
(* module's state keeps its types (snowflake.cpp:7-20).                    *)
(***************************************************************************)
THEOREM CounterInvariant == SerialSpec => []CountInv
  BY InitCounts, NextCounts, PTL DEF SerialSpec

LEMMA CountedIdsAreDistinct == CountInv => RunsAreDistinct
<1> SUFFICES ASSUME CountInv,
                    NEW i \in DOMAIN created, NEW j \in DOMAIN created,
                    i < j, j < i + SequenceModulus
             PROVE  created[i].id # created[j].id
  BY DEF RunsAreDistinct
<1>1. i \in Nat /\ j \in Nat
  BY DEF CountInv, SnowflakeTypeOK
<1>2. i % M # j % M
  BY <1>1, RemaindersDiffer, ModuliAssumption DEF M
<1> QED
  BY <1>2 DEF CountInv, IdsCount

(***************************************************************************)
(* Callers that exclude each other never get one id twice within           *)
(* SequenceModulus ids, for any number of callers, any moduli and whatever *)
(* the clock shows (snowflake.cpp:16-19).                                  *)
(***************************************************************************)
THEOREM SerialRunsAreDistinct == SerialSpec => []RunsAreDistinct
  BY CounterInvariant, CountedIdsAreDistinct, PTL
=============================================================================
