-------------------------- MODULE PacketCodecProofs --------------------------
(***************************************************************************)
(* What is encoded is decoded, for every base, header, payload and buffer. *)
(***************************************************************************)
EXTENDS PacketCodec, SequenceTheorems, TLAPS

----------------------------------------------------------------------------
(* Numbers *)

\* A product is no less than its factor's product with something smaller.
LEMMA TimesMonotone ==
    ASSUME NEW b \in Nat, NEW c \in Nat, NEW q \in Nat, c <= q
    PROVE  b * c <= b * q
<1>1. PICK d \in Nat : q = c + d
  <2>1. q - c \in Nat /\ q = c + (q - c)
    OBVIOUS
  <2> QED  BY <2>1
<1>2. b * q = b * c + b * d
  BY <1>1
<1>3. b * d \in Nat /\ b * c \in Nat
  OBVIOUS
<1> QED  BY <1>2, <1>3

LEMMA Division ==
    ASSUME NEW b \in Nat \ {0}, NEW n \in Nat
    PROVE  /\ n % b \in 0 .. b - 1
           /\ n \div b \in Nat
           /\ (n % b) + b * (n \div b) = n
  OBVIOUS

\* Half as many bytes are enough for the quotient.
LEMMA QuotientBelow ==
    ASSUME NEW b \in Nat \ {0}, NEW c \in Nat \ {0}, NEW n \in 0 .. b * c - 1
    PROVE  n \div b \in 0 .. c - 1
<1>1. b * c \in Nat /\ n \in Nat
  OBVIOUS
<1>2. n \div b \in Nat /\ n % b \in Nat /\ (n % b) + b * (n \div b) = n
  BY <1>1, Division
<1>3. ~ (c <= n \div b)
  <2> SUFFICES ASSUME c <= n \div b PROVE FALSE
    OBVIOUS
  <2>1. b * c <= b * (n \div b)
    BY <1>2, TimesMonotone
  <2>2. b * (n \div b) \in Nat
    BY <1>2
  <2> QED  BY <1>1, <1>2, <2>1, <2>2
<1> QED  BY <1>2, <1>3

\* There is one way to write a number as a remainder and a multiple.
LEMMA DivisionUnique ==
    ASSUME NEW b \in Nat \ {0}, NEW q \in Nat, NEW r \in 0 .. b - 1
    PROVE  /\ r + b * q \in Nat
           /\ (r + b * q) % b = r
           /\ (r + b * q) \div b = q
<1> DEFINE n == r + b * q
           p == n \div b
           s == n % b
<1>1. n \in Nat /\ b * q \in Nat
  OBVIOUS
<1>2. s \in 0 .. b - 1 /\ p \in Nat /\ s + b * p = n
  BY <1>1, Division
<1> HIDE DEF p, s
<1>3. b * p \in Nat
  BY <1>2
<1>4. ~ (p + 1 <= q)
  <2> SUFFICES ASSUME p + 1 <= q PROVE FALSE
    OBVIOUS
  <2>1. b * (p + 1) <= b * q
    BY <1>2, TimesMonotone
  <2>2. b * (p + 1) = b * p + b
    BY <1>2
  <2> QED  BY <1>1, <1>2, <1>3, <2>1, <2>2
<1>5. ~ (q + 1 <= p)
  <2> SUFFICES ASSUME q + 1 <= p PROVE FALSE
    OBVIOUS
  <2>1. b * (q + 1) <= b * p
    BY <1>2, TimesMonotone
  <2>2. b * (q + 1) = b * q + b
    OBVIOUS
  <2> QED  BY <1>1, <1>2, <1>3, <2>1, <2>2
<1>6. p = q
  BY <1>2, <1>4, <1>5
<1>7. s = r
  BY <1>1, <1>2, <1>6
<1> QED  BY <1>1, <1>6, <1>7 DEF p, s

LEMMA Limits ==
    /\ Base \in Nat \ {0} /\ Limit2 \in Nat \ {0}
    /\ Limit4 \in Nat \ {0} /\ Limit8 \in Nat \ {0}
<1>1. \A b \in Nat \ {0} : b * b \in Nat \ {0}
  OBVIOUS
<1> QED  BY <1>1, BaseAssumption DEF Limit2, Limit4, Limit8

\* A number of one digit of b more, and one of one digit of c.
LEMMA SumBelow ==
    ASSUME NEW b \in Nat \ {0}, NEW c \in Nat \ {0}, NEW r \in 0 .. b - 1, NEW q \in 0 .. c - 1
    PROVE  r + b * q \in 0 .. b * c - 1
<1>1. b * (q + 1) <= b * c
  <2>1. q + 1 <= c /\ q + 1 \in Nat /\ b \in Nat /\ c \in Nat
    OBVIOUS
  <2> QED  BY <2>1, TimesMonotone
<1>2. b * (q + 1) = b * q + b
  OBVIOUS
<1>3. b * q \in Nat /\ b * c \in Nat
  OBVIOUS
<1> QED  BY <1>1, <1>2, <1>3

----------------------------------------------------------------------------
(* Bytes *)

\* The elements of two sequences, one after the other.
LEMMA Joined ==
    ASSUME NEW T, NEW s \in Seq(T), NEW t \in Seq(T)
    PROVE  s \o t \in Seq(T) /\ Len(s \o t) = Len(s) + Len(t)
  OBVIOUS

LEMMA JoinedLow ==
    ASSUME NEW T, NEW s \in Seq(T), NEW t \in Seq(T), NEW j \in 1 .. Len(s)
    PROVE  (s \o t)[j] = s[j]
<1>1. j \in 1 .. Len(s) + Len(t) /\ j <= Len(s)
  OBVIOUS
<1> QED  BY <1>1, ConcatProperties, Zenon

LEMMA JoinedHigh ==
    ASSUME NEW T, NEW s \in Seq(T), NEW t \in Seq(T), NEW j \in 1 .. Len(t)
    PROVE  (s \o t)[Len(s) + j] = t[j]
<1>1. /\ Len(s) + j \in 1 .. Len(s) + Len(t) /\ ~(Len(s) + j <= Len(s))
      /\ (Len(s) + j) - Len(s) = j
  OBVIOUS
<1> QED  BY <1>1, ConcatProperties

\* What a number of two, four and eight bytes is written as.
LEMMA Le2Bytes ==
    ASSUME NEW n \in 0 .. Limit2 - 1
    PROVE  /\ Le2(n) \in Seq(Byte) /\ Len(Le2(n)) = 2
           /\ Le2(n)[1] = n % Base /\ Le2(n)[2] = n \div Base
<1>1. n \in Nat
  BY Limits
<1>2. n % Base \in Byte
  BY <1>1, Limits, Division DEF Byte
<1>3. n \div Base \in Byte
  BY Limits, QuotientBelow DEF Byte, Limit2
<1> QED  BY <1>2, <1>3 DEF Le2

LEMMA Le4Bytes ==
    ASSUME NEW n \in 0 .. Limit4 - 1
    PROVE  /\ Le4(n) \in Seq(Byte) /\ Len(Le4(n)) = 4
           /\ n % Limit2 \in 0 .. Limit2 - 1 /\ n \div Limit2 \in 0 .. Limit2 - 1
           /\ \A j \in 1 .. 2 : Le4(n)[j] = Le2(n % Limit2)[j]
           /\ \A j \in 1 .. 2 : Le4(n)[2 + j] = Le2(n \div Limit2)[j]
<1>1. n \in Nat
  BY Limits
<1>2. n % Limit2 \in 0 .. Limit2 - 1
  BY <1>1, Limits, Division
<1>3. n \div Limit2 \in 0 .. Limit2 - 1
  BY Limits, QuotientBelow DEF Limit4
<1>4. /\ Le2(n % Limit2) \in Seq(Byte) /\ Len(Le2(n % Limit2)) = 2
      /\ Le2(n \div Limit2) \in Seq(Byte) /\ Len(Le2(n \div Limit2)) = 2
  BY <1>2, <1>3, Le2Bytes
<1>5. /\ Le4(n) \in Seq(Byte) /\ Len(Le4(n)) = 2 + Len(Le2(n \div Limit2))
      /\ \A j \in 1 .. 2 : Le4(n)[j] = Le2(n % Limit2)[j]
      /\ \A j \in 1 .. Len(Le2(n \div Limit2)) : Le4(n)[2 + j] = Le2(n \div Limit2)[j]
  <2> DEFINE low  == Le2(n % Limit2)
             high == Le2(n \div Limit2)
  <2>1. Le4(n) = low \o high
    BY DEF Le4
  <2>2. low \in Seq(Byte) /\ high \in Seq(Byte)
    BY <1>4
  <2>3. Len(low) = 2
    BY <1>4
  <2> HIDE DEF low, high
  <2>4. low \o high \in Seq(Byte) /\ Len(low \o high) = Len(low) + Len(high)
    BY <2>2, Joined
  <2>5. \A j \in 1 .. Len(low) : (low \o high)[j] = low[j]
    BY <2>2, JoinedLow, Zenon
  <2>6. \A j \in 1 .. Len(high) : (low \o high)[Len(low) + j] = high[j]
    BY <2>2, JoinedHigh, Zenon
  <2> QED  BY <2>1, <2>3, <2>4, <2>5, <2>6, Zenon DEF low, high
<1>6. 2 + Len(Le2(n \div Limit2)) = 4
  <2>1. 2 + 2 = 4
    OBVIOUS
  <2> QED  BY <1>4, <2>1, Zenon
<1> QED  BY <1>2, <1>3, <1>4, <1>5, <1>6, Zenon

LEMMA Le8Bytes ==
    ASSUME NEW n \in 0 .. Limit8 - 1
    PROVE  /\ Le8(n) \in Seq(Byte) /\ Len(Le8(n)) = 8
           /\ n % Limit4 \in 0 .. Limit4 - 1 /\ n \div Limit4 \in 0 .. Limit4 - 1
           /\ \A j \in 1 .. 4 : Le8(n)[j] = Le4(n % Limit4)[j]
           /\ \A j \in 1 .. 4 : Le8(n)[4 + j] = Le4(n \div Limit4)[j]
<1>1. n \in Nat
  BY Limits
<1>2. n % Limit4 \in 0 .. Limit4 - 1
  BY <1>1, Limits, Division
<1>3. n \div Limit4 \in 0 .. Limit4 - 1
  BY Limits, QuotientBelow DEF Limit8
<1>4. /\ Le4(n % Limit4) \in Seq(Byte) /\ Len(Le4(n % Limit4)) = 4
      /\ Le4(n \div Limit4) \in Seq(Byte) /\ Len(Le4(n \div Limit4)) = 4
  BY <1>2, <1>3, Le4Bytes
<1>5. /\ Le8(n) \in Seq(Byte) /\ Len(Le8(n)) = 4 + Len(Le4(n \div Limit4))
      /\ \A j \in 1 .. 4 : Le8(n)[j] = Le4(n % Limit4)[j]
      /\ \A j \in 1 .. Len(Le4(n \div Limit4)) : Le8(n)[4 + j] = Le4(n \div Limit4)[j]
  <2> DEFINE low  == Le4(n % Limit4)
             high == Le4(n \div Limit4)
  <2>1. Le8(n) = low \o high
    BY DEF Le8
  <2>2. low \in Seq(Byte) /\ high \in Seq(Byte)
    BY <1>4
  <2>3. Len(low) = 4
    BY <1>4
  <2> HIDE DEF low, high
  <2>4. low \o high \in Seq(Byte) /\ Len(low \o high) = Len(low) + Len(high)
    BY <2>2, Joined
  <2>5. \A j \in 1 .. Len(low) : (low \o high)[j] = low[j]
    BY <2>2, JoinedLow, Zenon
  <2>6. \A j \in 1 .. Len(high) : (low \o high)[Len(low) + j] = high[j]
    BY <2>2, JoinedHigh, Zenon
  <2> QED  BY <2>1, <2>3, <2>4, <2>5, <2>6, Zenon DEF low, high
<1>6. 4 + Len(Le4(n \div Limit4)) = 8
  <2>1. 4 + 4 = 8
    OBVIOUS
  <2> QED  BY <1>4, <2>1, Zenon
<1> QED  BY <1>2, <1>3, <1>4, <1>5, <1>6, Zenon

\* A buffer that holds what a number is written as, after the first i bytes,
\* is read as that number.
LEMMA ReadBack2 ==
    ASSUME NEW n \in 0 .. Limit2 - 1, NEW buf, NEW i \in Nat,
           \A j \in 1 .. 2 : buf[i + j] = Le2(n)[j]
    PROVE  U2(buf, i) = n
<1>1. buf[i + 1] = n % Base /\ buf[i + 2] = n \div Base
  BY Le2Bytes
<1>2. n \in Nat
  BY Limits
<1> QED  BY <1>1, <1>2, Limits, Division DEF U2

LEMMA ReadBack4 ==
    ASSUME NEW n \in 0 .. Limit4 - 1, NEW buf, NEW i \in Nat,
           \A j \in 1 .. 4 : buf[i + j] = Le4(n)[j]
    PROVE  U4(buf, i) = n
<1>1. U2(buf, i) = n % Limit2
  BY Le4Bytes, ReadBack2
<1>2. U2(buf, i + 2) = n \div Limit2
  <2>1. \A j \in 1 .. 2 : buf[(i + 2) + j] = Le2(n \div Limit2)[j]
    <3> SUFFICES ASSUME NEW j \in 1 .. 2
                 PROVE  buf[(i + 2) + j] = Le2(n \div Limit2)[j]
      OBVIOUS
    <3>1. (i + 2) + j = i + (2 + j) /\ 2 + j \in 1 .. 4
      OBVIOUS
    <3> QED  BY <3>1, Le4Bytes
  <2> QED  BY <2>1, Le4Bytes, ReadBack2
<1>3. n \in Nat
  BY Limits
<1> QED  BY <1>1, <1>2, <1>3, Limits, Division DEF U4

LEMMA ReadBack8 ==
    ASSUME NEW n \in 0 .. Limit8 - 1, NEW buf, NEW i \in Nat,
           \A j \in 1 .. 8 : buf[i + j] = Le8(n)[j]
    PROVE  U8(buf, i) = n
<1>1. U4(buf, i) = n % Limit4
  <2>1. \A j \in 1 .. 4 : buf[i + j] = Le4(n % Limit4)[j]
    <3>1. \A j \in 1 .. 4 : j \in 1 .. 8
      OBVIOUS
    <3> QED  BY <3>1, Le8Bytes
  <2>2. n % Limit4 \in 0 .. Limit4 - 1
    BY Le8Bytes, Zenon
  <2> QED  BY <2>1, <2>2, ReadBack4, Zenon
<1>2. U4(buf, i + 4) = n \div Limit4
  <2>1. \A j \in 1 .. 4 : buf[(i + 4) + j] = Le4(n \div Limit4)[j]
    <3> SUFFICES ASSUME NEW j \in 1 .. 4
                 PROVE  buf[(i + 4) + j] = Le4(n \div Limit4)[j]
      OBVIOUS
    <3>1. (i + 4) + j = i + (4 + j) /\ 4 + j \in 1 .. 8
      OBVIOUS
    <3> QED  BY <3>1, Le8Bytes
  <2>2. n \div Limit4 \in 0 .. Limit4 - 1 /\ i + 4 \in Nat
    BY Le8Bytes
  <2> QED  BY <2>1, <2>2, ReadBack4, Zenon
<1>3. n \in Nat
  BY Limits
<1> QED  BY <1>1, <1>2, <1>3, Limits, Division DEF U8

\* What is read from bytes is written as those bytes.
LEMMA WrittenBack2 ==
    ASSUME NEW buf, NEW i \in Nat, \A j \in 1 .. 2 : buf[i + j] \in Byte
    PROVE  /\ U2(buf, i) \in 0 .. Limit2 - 1
           /\ \A j \in 1 .. 2 : Le2(U2(buf, i))[j] = buf[i + j]
<1>1. buf[i + 1] \in 0 .. Base - 1 /\ buf[i + 2] \in 0 .. Base - 1
  BY DEF Byte
<1>2. U2(buf, i) \in 0 .. Limit2 - 1
  BY <1>1, Limits, SumBelow DEF U2, Limit2
<1>3. U2(buf, i) % Base = buf[i + 1] /\ U2(buf, i) \div Base = buf[i + 2]
  <2>1. Base \in Nat \ {0} /\ buf[i + 2] \in Nat
    BY <1>1, Limits
  <2> QED  BY <1>1, <2>1, DivisionUnique, Zenon DEF U2
<1> QED  BY <1>2, <1>3, Le2Bytes

LEMMA WrittenBack4 ==
    ASSUME NEW buf, NEW i \in Nat, \A j \in 1 .. 4 : buf[i + j] \in Byte
    PROVE  /\ U4(buf, i) \in 0 .. Limit4 - 1
           /\ \A j \in 1 .. 4 : Le4(U4(buf, i))[j] = buf[i + j]
<1> DEFINE low == U2(buf, i)
           high == U2(buf, i + 2)
<1>1. low \in 0 .. Limit2 - 1 /\ \A j \in 1 .. 2 : Le2(low)[j] = buf[i + j]
  BY WrittenBack2
<1>2. high \in 0 .. Limit2 - 1 /\ \A j \in 1 .. 2 : Le2(high)[j] = buf[(i + 2) + j]
  <2>1. \A j \in 1 .. 2 : (i + 2) + j = i + (2 + j) /\ 2 + j \in 1 .. 4
    OBVIOUS
  <2> QED  BY <2>1, WrittenBack2
<1> HIDE DEF low, high
<1>3. low + Limit2 * high \in 0 .. Limit4 - 1
  BY <1>1, <1>2, Limits, SumBelow DEF Limit4
<1>4. (low + Limit2 * high) % Limit2 = low /\ (low + Limit2 * high) \div Limit2 = high
  <2>1. Limit2 \in Nat \ {0} /\ high \in Nat /\ low \in 0 .. Limit2 - 1
    BY <1>1, <1>2, Limits
  <2> QED  BY <2>1, DivisionUnique, Zenon
<1>5. \A j \in 1 .. 2 : /\ Le4(low + Limit2 * high)[j] = buf[i + j]
                        /\ Le4(low + Limit2 * high)[2 + j] = buf[i + (2 + j)]
  <2>1. \A j \in 1 .. 2 : (i + 2) + j = i + (2 + j)
    OBVIOUS
  <2> QED  BY <1>1, <1>2, <1>3, <1>4, <2>1, Le4Bytes
<1>6. \A j \in 1 .. 4 : Le4(low + Limit2 * high)[j] = buf[i + j]
  <2>1. \A j \in 1 .. 4 : j \in 1 .. 2 \/ \E m \in 1 .. 2 : j = 2 + m
    <3>1. \A j \in 1 .. 4 : j \in 1 .. 2 \/ (j - 2 \in 1 .. 2 /\ j = 2 + (j - 2))
      OBVIOUS
    <3> QED  BY <3>1
  <2> QED  BY <1>5, <2>1
<1> QED  BY <1>3, <1>6 DEF U4, low, high

LEMMA WrittenBack8 ==
    ASSUME NEW buf, NEW i \in Nat, \A j \in 1 .. 8 : buf[i + j] \in Byte
    PROVE  /\ U8(buf, i) \in 0 .. Limit8 - 1
           /\ \A j \in 1 .. 8 : Le8(U8(buf, i))[j] = buf[i + j]
<1> DEFINE low == U4(buf, i)
           high == U4(buf, i + 4)
<1>1. low \in 0 .. Limit4 - 1 /\ \A j \in 1 .. 4 : Le4(low)[j] = buf[i + j]
  BY WrittenBack4
<1>2. high \in 0 .. Limit4 - 1 /\ \A j \in 1 .. 4 : Le4(high)[j] = buf[(i + 4) + j]
  <2>1. \A j \in 1 .. 4 : (i + 4) + j = i + (4 + j) /\ 4 + j \in 1 .. 8
    OBVIOUS
  <2> QED  BY <2>1, WrittenBack4
<1> HIDE DEF low, high
<1>3. low + Limit4 * high \in 0 .. Limit8 - 1
  BY <1>1, <1>2, Limits, SumBelow DEF Limit8
<1>4. (low + Limit4 * high) % Limit4 = low /\ (low + Limit4 * high) \div Limit4 = high
  <2>1. Limit4 \in Nat \ {0} /\ high \in Nat /\ low \in 0 .. Limit4 - 1
    BY <1>1, <1>2, Limits
  <2> QED  BY <2>1, DivisionUnique, Zenon
<1>5. \A j \in 1 .. 4 : /\ Le8(low + Limit4 * high)[j] = buf[i + j]
                        /\ Le8(low + Limit4 * high)[4 + j] = buf[i + (4 + j)]
  <2>1. \A j \in 1 .. 4 : (i + 4) + j = i + (4 + j)
    OBVIOUS
  <2>2. /\ \A j \in 1 .. 4 : Le8(low + Limit4 * high)[j] = Le4(low)[j]
        /\ \A j \in 1 .. 4 : Le8(low + Limit4 * high)[4 + j] = Le4(high)[j]
    BY <1>3, <1>4, Le8Bytes, Zenon
  <2> QED  BY <1>1, <1>2, <2>1, <2>2
<1>6. \A j \in 1 .. 8 : Le8(low + Limit4 * high)[j] = buf[i + j]
  <2>1. \A j \in 1 .. 8 : j \in 1 .. 4 \/ \E m \in 1 .. 4 : j = 4 + m
    <3>1. \A j \in 1 .. 8 : j \in 1 .. 4 \/ (j - 4 \in 1 .. 4 /\ j = 4 + (j - 4))
      OBVIOUS
    <3> QED  BY <3>1
  <2> QED  BY <1>5, <2>1
<1> QED  BY <1>3, <1>6 DEF U8, low, high

\* Of bytes u: m bytes as in s, and after them the n bytes of t.
Continues(u, s, t, m, n) ==
    /\ u \in Seq(Byte)
    /\ Len(u) = m + n
    /\ \A j \in 1 .. m : u[j] = s[j]
    /\ \A j \in 1 .. n : u[m + j] = t[j]

LEMMA Continued ==
    ASSUME NEW s \in Seq(Byte), NEW t \in Seq(Byte), NEW m, NEW n, Len(s) = m, Len(t) = n
    PROVE  Continues(s \o t, s, t, m, n)
<1>1. \A j \in 1 .. Len(s) : (s \o t)[j] = s[j]
  BY JoinedLow, Zenon
<1>2. \A j \in 1 .. Len(t) : (s \o t)[Len(s) + j] = t[j]
  BY JoinedHigh, Zenon
<1>3. s \o t \in Seq(Byte) /\ Len(s \o t) = Len(s) + Len(t)
  BY Joined
<1> QED  BY <1>1, <1>2, <1>3, Zenon DEF Continues

----------------------------------------------------------------------------
(* Headers *)

\* The kinds are bytes, and different ones.
LEMMA KindBytes ==
    /\ \A k \in DOMAIN Kinds : Kinds[k] \in Byte
    /\ \A k, l \in DOMAIN Kinds : Kinds[k] = Kinds[l] => k = l
    /\ Version \in Byte
  BY BaseAssumption DEF Kinds, Version, Byte

LEMMA MagicBytesFour == Magic \in Seq(Byte) /\ Len(Magic) = 4
<1>1. Magic \in Seq(Byte)
  BY MagicAssumption, SeqDef
<1>2. DOMAIN Magic = 1 .. 4 /\ DOMAIN Magic = 1 .. Len(Magic) /\ Len(Magic) \in Nat
  BY <1>1, MagicAssumption, LenProperties
<1> QED  BY <1>1, <1>2

\* Where a buffer holds what of a header h and of the length of a payload.
LaidOut(buf, h, len) ==
    /\ \A j \in 1 .. 4 : buf[j] = Magic[j]
    /\ buf[5] = Version /\ buf[6] = Kinds[h.kind]
    /\ \A j \in 1 .. 2 : buf[6 + j] = Le2(h.flags)[j]
    /\ \A j \in 1 .. 8 : buf[8 + j] = Le8(h.channel_id)[j]
    /\ \A j \in 1 .. 4 : buf[16 + j] = Le4(h.src_peer_id)[j]
    /\ \A j \in 1 .. 4 : buf[20 + j] = Le4(h.dst_peer_id)[j]
    /\ \A j \in 1 .. 4 : buf[24 + j] = Le4(h.stream_id)[j]
    /\ \A j \in 1 .. 2 : buf[28 + j] = Le2(len)[j]

LEMMA HeaderBytesAre ==
    ASSUME NEW h \in Header, NEW len \in 0 .. Limit2 - 1
    PROVE  /\ HeaderBytes(h, len) \in Seq(Byte)
           /\ Len(HeaderBytes(h, len)) = HeaderLen
           /\ LaidOut(HeaderBytes(h, len), h, len)
<1> DEFINE a1 == Magic
           a2 == a1 \o <<Version, Kinds[h.kind]>>
           a3 == a2 \o Le2(h.flags)
           a4 == a3 \o Le8(h.channel_id)
           a5 == a4 \o Le4(h.src_peer_id)
           a6 == a5 \o Le4(h.dst_peer_id)
           a7 == a6 \o Le4(h.stream_id)
           a8 == a7 \o Le2(len)
<1> HIDE DEF a1, a2, a3, a4, a5, a6, a7, a8
<1>1. /\ h.flags \in 0 .. Limit2 - 1 /\ h.channel_id \in 0 .. Limit8 - 1
      /\ h.src_peer_id \in 0 .. Limit4 - 1 /\ h.dst_peer_id \in 0 .. Limit4 - 1
      /\ h.stream_id \in 0 .. Limit4 - 1 /\ h.kind \in DOMAIN Kinds
  BY DEF Header
<1>2. a1 \in Seq(Byte) /\ Len(a1) = 4
  BY MagicBytesFour DEF a1
<1>3. a2 \in Seq(Byte) /\ Len(a2) = 6 /\ Continues(a2, a1, <<Version, Kinds[h.kind]>>, 4, 2)
  <2>1. <<Version, Kinds[h.kind]>> \in Seq(Byte) /\ Len(<<Version, Kinds[h.kind]>>) = 2
    BY <1>1, KindBytes
  <2>2. Continues(a2, a1, <<Version, Kinds[h.kind]>>, 4, 2)
    BY <1>2, <2>1, Continued, Zenon DEF a2
  <2>3. a2 \in Seq(Byte) /\ Len(a2) = 4 + 2
    BY <2>2, Zenon DEF Continues
  <2> QED  BY <2>2, <2>3
<1>4. a3 \in Seq(Byte) /\ Len(a3) = 8 /\ Continues(a3, a2, Le2(h.flags), 6, 2)
  <2>1. Le2(h.flags) \in Seq(Byte) /\ Len(Le2(h.flags)) = 2
    BY <1>1, Le2Bytes
  <2>2. Continues(a3, a2, Le2(h.flags), 6, 2)
    BY <1>3, <2>1, Continued, Zenon DEF a3
  <2>3. a3 \in Seq(Byte) /\ Len(a3) = 6 + 2
    BY <2>2, Zenon DEF Continues
  <2> QED  BY <2>2, <2>3
<1>5. a4 \in Seq(Byte) /\ Len(a4) = 16 /\ Continues(a4, a3, Le8(h.channel_id), 8, 8)
  <2>1. Le8(h.channel_id) \in Seq(Byte) /\ Len(Le8(h.channel_id)) = 8
    BY <1>1, Le8Bytes
  <2>2. Continues(a4, a3, Le8(h.channel_id), 8, 8)
    BY <1>4, <2>1, Continued, Zenon DEF a4
  <2>3. a4 \in Seq(Byte) /\ Len(a4) = 8 + 8
    BY <2>2, Zenon DEF Continues
  <2> QED  BY <2>2, <2>3
<1>6. a5 \in Seq(Byte) /\ Len(a5) = 20 /\ Continues(a5, a4, Le4(h.src_peer_id), 16, 4)
  <2>1. Le4(h.src_peer_id) \in Seq(Byte) /\ Len(Le4(h.src_peer_id)) = 4
    BY <1>1, Le4Bytes
  <2>2. Continues(a5, a4, Le4(h.src_peer_id), 16, 4)
    BY <1>5, <2>1, Continued, Zenon DEF a5
  <2>3. a5 \in Seq(Byte) /\ Len(a5) = 16 + 4
    BY <2>2, Zenon DEF Continues
  <2> QED  BY <2>2, <2>3
<1>7. a6 \in Seq(Byte) /\ Len(a6) = 24 /\ Continues(a6, a5, Le4(h.dst_peer_id), 20, 4)
  <2>1. Le4(h.dst_peer_id) \in Seq(Byte) /\ Len(Le4(h.dst_peer_id)) = 4
    BY <1>1, Le4Bytes
  <2>2. Continues(a6, a5, Le4(h.dst_peer_id), 20, 4)
    BY <1>6, <2>1, Continued, Zenon DEF a6
  <2>3. a6 \in Seq(Byte) /\ Len(a6) = 20 + 4
    BY <2>2, Zenon DEF Continues
  <2> QED  BY <2>2, <2>3
<1>8. a7 \in Seq(Byte) /\ Len(a7) = 28 /\ Continues(a7, a6, Le4(h.stream_id), 24, 4)
  <2>1. Le4(h.stream_id) \in Seq(Byte) /\ Len(Le4(h.stream_id)) = 4
    BY <1>1, Le4Bytes
  <2>2. Continues(a7, a6, Le4(h.stream_id), 24, 4)
    BY <1>7, <2>1, Continued, Zenon DEF a7
  <2>3. a7 \in Seq(Byte) /\ Len(a7) = 24 + 4
    BY <2>2, Zenon DEF Continues
  <2> QED  BY <2>2, <2>3
<1>9. a8 \in Seq(Byte) /\ Len(a8) = 30 /\ Continues(a8, a7, Le2(len), 28, 2)
  <2>1. Le2(len) \in Seq(Byte) /\ Len(Le2(len)) = 2
    BY <1>1, Le2Bytes
  <2>2. Continues(a8, a7, Le2(len), 28, 2)
    BY <1>8, <2>1, Continued, Zenon DEF a8
  <2>3. a8 \in Seq(Byte) /\ Len(a8) = 28 + 2
    BY <2>2, Zenon DEF Continues
  <2> QED  BY <2>2, <2>3
<1>10. a8 = HeaderBytes(h, len)
  BY Zenon DEF HeaderBytes, a1, a2, a3, a4, a5, a6, a7, a8
<1>11. /\ \A j \in 1 .. 28 : a8[j] = a7[j]
       /\ \A j \in 1 .. 24 : a7[j] = a6[j]
       /\ \A j \in 1 .. 20 : a6[j] = a5[j]
       /\ \A j \in 1 .. 16 : a5[j] = a4[j]
       /\ \A j \in 1 .. 8 : a4[j] = a3[j]
       /\ \A j \in 1 .. 6 : a3[j] = a2[j]
       /\ \A j \in 1 .. 4 : a2[j] = a1[j]
  BY <1>3, <1>4, <1>5, <1>6, <1>7, <1>8, <1>9, Zenon DEF Continues
<1>12. \A j \in 1 .. 4 : a8[j] = Magic[j]
  <2> SUFFICES ASSUME NEW j \in 1 .. 4 PROVE a8[j] = Magic[j]
    OBVIOUS
  <2>1. /\ j \in 1 .. 6 /\ j \in 1 .. 8 /\ j \in 1 .. 16 /\ j \in 1 .. 20
        /\ j \in 1 .. 24 /\ j \in 1 .. 28
    OBVIOUS
  <2> QED  BY <1>11, <2>1, Zenon DEF a1
<1>13. \A j \in 1 .. 2 : a8[4 + j] = <<Version, Kinds[h.kind]>>[j]
  <2> SUFFICES ASSUME NEW j \in 1 .. 2 PROVE a8[4 + j] = <<Version, Kinds[h.kind]>>[j]
    OBVIOUS
  <2>1. 4 + j \in 1 .. 6 /\ 4 + j \in 1 .. 8 /\ 4 + j \in 1 .. 16 /\ 4 + j \in 1 .. 20 /\ 4 + j \in 1 .. 24 /\ 4 + j \in 1 .. 28
    OBVIOUS
  <2>2. a2[4 + j] = <<Version, Kinds[h.kind]>>[j]
    BY <1>3, Zenon DEF Continues
  <2> QED  BY <1>11, <2>1, <2>2
<1>14. \A j \in 1 .. 2 : a8[6 + j] = Le2(h.flags)[j]
  <2> SUFFICES ASSUME NEW j \in 1 .. 2 PROVE a8[6 + j] = Le2(h.flags)[j]
    OBVIOUS
  <2>1. 6 + j \in 1 .. 8 /\ 6 + j \in 1 .. 16 /\ 6 + j \in 1 .. 20 /\ 6 + j \in 1 .. 24 /\ 6 + j \in 1 .. 28
    OBVIOUS
  <2>2. a3[6 + j] = Le2(h.flags)[j]
    BY <1>4, Zenon DEF Continues
  <2> QED  BY <1>11, <2>1, <2>2
<1>15. \A j \in 1 .. 8 : a8[8 + j] = Le8(h.channel_id)[j]
  <2> SUFFICES ASSUME NEW j \in 1 .. 8 PROVE a8[8 + j] = Le8(h.channel_id)[j]
    OBVIOUS
  <2>1. 8 + j \in 1 .. 16 /\ 8 + j \in 1 .. 20 /\ 8 + j \in 1 .. 24 /\ 8 + j \in 1 .. 28
    OBVIOUS
  <2>2. a4[8 + j] = Le8(h.channel_id)[j]
    BY <1>5, Zenon DEF Continues
  <2> QED  BY <1>11, <2>1, <2>2
<1>16. \A j \in 1 .. 4 : a8[16 + j] = Le4(h.src_peer_id)[j]
  <2> SUFFICES ASSUME NEW j \in 1 .. 4 PROVE a8[16 + j] = Le4(h.src_peer_id)[j]
    OBVIOUS
  <2>1. 16 + j \in 1 .. 20 /\ 16 + j \in 1 .. 24 /\ 16 + j \in 1 .. 28
    OBVIOUS
  <2>2. a5[16 + j] = Le4(h.src_peer_id)[j]
    BY <1>6, Zenon DEF Continues
  <2> QED  BY <1>11, <2>1, <2>2
<1>17. \A j \in 1 .. 4 : a8[20 + j] = Le4(h.dst_peer_id)[j]
  <2> SUFFICES ASSUME NEW j \in 1 .. 4 PROVE a8[20 + j] = Le4(h.dst_peer_id)[j]
    OBVIOUS
  <2>1. 20 + j \in 1 .. 24 /\ 20 + j \in 1 .. 28
    OBVIOUS
  <2>2. a6[20 + j] = Le4(h.dst_peer_id)[j]
    BY <1>7, Zenon DEF Continues
  <2> QED  BY <1>11, <2>1, <2>2
<1>18. \A j \in 1 .. 4 : a8[24 + j] = Le4(h.stream_id)[j]
  <2> SUFFICES ASSUME NEW j \in 1 .. 4 PROVE a8[24 + j] = Le4(h.stream_id)[j]
    OBVIOUS
  <2>1. 24 + j \in 1 .. 28
    OBVIOUS
  <2>2. a7[24 + j] = Le4(h.stream_id)[j]
    BY <1>8, Zenon DEF Continues
  <2> QED  BY <1>11, <2>1, <2>2
<1>19. \A j \in 1 .. 2 : a8[28 + j] = Le2(len)[j]
  BY <1>9, Zenon DEF Continues
<1>20. a8[5] = Version /\ a8[6] = Kinds[h.kind]
  <2>1. a8[4 + 1] = <<Version, Kinds[h.kind]>>[1] /\ a8[4 + 2] = <<Version, Kinds[h.kind]>>[2]
    BY <1>13
  <2> QED  BY <2>1
<1>21. a8 \in Seq(Byte) /\ Len(a8) = HeaderLen
  BY <1>9 DEF HeaderLen
<1>22. LaidOut(a8, h, len)
  BY <1>12, <1>14, <1>15, <1>16, <1>17, <1>18, <1>19, <1>20, Zenon DEF LaidOut
<1> QED  BY <1>10, <1>21, <1>22, Zenon

----------------------------------------------------------------------------
(* Frames *)

\* The length a frame tells.
LEMMA LengthOfFits ==
    ASSUME NEW p \in Seq(Byte)
    PROVE  /\ LengthOf(p) \in 0 .. Limit2 - 1
           /\ LengthOf(p) <= Len(p)
           /\ Len(p) < Limit2 => LengthOf(p) = Len(p)
<1>1. Len(p) \in Nat /\ Limit2 \in Nat \ {0}
  BY Limits
<1> QED  BY <1>1 DEF LengthOf

\* A frame is its header's bytes and the payload's.
LEMMA EncodeIs ==
    ASSUME NEW h \in Header, NEW p \in Seq(Byte)
    PROVE  /\ Encode(h, p) \in Seq(Byte)
           /\ Len(Encode(h, p)) = HeaderLen + LengthOf(p)
           /\ \A j \in 1 .. HeaderLen : Encode(h, p)[j] = HeaderBytes(h, LengthOf(p))[j]
           /\ \A j \in 1 .. LengthOf(p) : Encode(h, p)[HeaderLen + j] = p[j]
<1> DEFINE len  == LengthOf(p)
           head == HeaderBytes(h, len)
           tail == SubSeq(p, 1, len)
<1>1. len \in 0 .. Limit2 - 1 /\ len <= Len(p) /\ len \in Nat
  BY LengthOfFits, Limits
<1>2. head \in Seq(Byte) /\ Len(head) = HeaderLen
  BY <1>1, HeaderBytesAre
<1>3. tail \in Seq(Byte) /\ Len(tail) = len /\ \A j \in 1 .. len : tail[j] = p[j]
  BY <1>1
<1>4. Encode(h, p) = head \o tail
  BY Zenon DEF Encode
<1> HIDE DEF len, head, tail
<1>5. Continues(head \o tail, head, tail, HeaderLen, len)
  BY <1>2, <1>3, Continued, Zenon
<1>6. \A j \in 1 .. len : (head \o tail)[HeaderLen + j] = p[j]
  BY <1>3, <1>5, Zenon DEF Continues
<1> QED  BY <1>4, <1>5, <1>6, Zenon DEF Continues, len, head

\* The layout leaves no byte of a header open.
LEMMA LaidOutAlike ==
    ASSUME NEW h, NEW len, NEW a, NEW b, LaidOut(a, h, len), LaidOut(b, h, len),
           NEW i \in 1 .. HeaderLen
    PROVE  a[i] = b[i]
<1>1. /\ \A j \in 1 .. 4 : a[j] = b[j]
      /\ a[5] = b[5] /\ a[6] = b[6]
  BY Zenon DEF LaidOut
<1>2. /\ \A j \in 1 .. 2 : a[6 + j] = b[6 + j]
      /\ \A j \in 1 .. 8 : a[8 + j] = b[8 + j]
  BY Zenon DEF LaidOut
<1>3. /\ \A j \in 1 .. 4 : a[16 + j] = b[16 + j]
      /\ \A j \in 1 .. 4 : a[20 + j] = b[20 + j]
  <2>1. ASSUME NEW j \in 1 .. 4 PROVE a[16 + j] = b[16 + j]
    <3>1. a[16 + j] = Le4(h.src_peer_id)[j] /\ b[16 + j] = Le4(h.src_peer_id)[j]
      BY Zenon DEF LaidOut
    <3> QED  BY <3>1, Zenon
  <2>2. \A j \in 1 .. 4 : a[20 + j] = b[20 + j]
    BY Zenon DEF LaidOut
  <2> QED  BY <2>1, <2>2, Zenon
<1>4. /\ \A j \in 1 .. 4 : a[24 + j] = b[24 + j]
      /\ \A j \in 1 .. 2 : a[28 + j] = b[28 + j]
  BY Zenon DEF LaidOut
<1>5. ASSUME NEW j \in 1 .. 30 PROVE a[j] = b[j]
  <2>1. \/ j \in 1 .. 4 \/ j = 5 \/ j = 6
        \/ j - 6 \in 1 .. 2 /\ j = 6 + (j - 6)
        \/ j - 8 \in 1 .. 8 /\ j = 8 + (j - 8)
        \/ j - 16 \in 1 .. 4 /\ j = 16 + (j - 16)
        \/ j - 20 \in 1 .. 4 /\ j = 20 + (j - 20)
        \/ j - 24 \in 1 .. 4 /\ j = 24 + (j - 24)
        \/ j - 28 \in 1 .. 2 /\ j = 28 + (j - 28)
    OBVIOUS
  <2>2. CASE j \in 1 .. 4 \/ j = 5 \/ j = 6
    BY <1>1, <2>2, Zenon
  <2>3. CASE \/ j - 6 \in 1 .. 2 /\ j = 6 + (j - 6)
             \/ j - 8 \in 1 .. 8 /\ j = 8 + (j - 8)
    BY <1>2, <2>3, Zenon
  <2>4. CASE \/ j - 16 \in 1 .. 4 /\ j = 16 + (j - 16)
             \/ j - 20 \in 1 .. 4 /\ j = 20 + (j - 20)
    BY <1>3, <2>4, Zenon
  <2>5. CASE \/ j - 24 \in 1 .. 4 /\ j = 24 + (j - 24)
             \/ j - 28 \in 1 .. 2 /\ j = 28 + (j - 28)
    BY <1>4, <2>5, Zenon
  <2> QED  BY <2>1, <2>2, <2>3, <2>4, <2>5, Zenon
<1> QED  BY <1>5, Zenon DEF HeaderLen

LEMMA FirstFour ==
    ASSUME NEW buf \in Seq(Byte), Len(buf) >= HeaderLen
    PROVE  /\ SubSeq(buf, 1, 4) \in Seq(Byte)
           /\ Len(SubSeq(buf, 1, 4)) = 4
           /\ \A j \in 1 .. 4 : SubSeq(buf, 1, 4)[j] = buf[j]
<1>1. \A j \in 1 .. 4 : buf[j] \in Byte
  <2> SUFFICES ASSUME NEW j \in 1 .. 4 PROVE buf[j] \in Byte
    OBVIOUS
  <2>1. j \in 1 .. Len(buf)
    BY DEF HeaderLen
  <2> QED  BY <2>1, ElementOfSeq
<1>2. /\ SubSeq(buf, 1, 4) \in Seq(Byte)
      /\ Len(SubSeq(buf, 1, 4)) = IF 1 <= 4 THEN 4 - 1 + 1 ELSE 0
      /\ \A j \in 1 .. 4 - 1 + 1 : SubSeq(buf, 1, 4)[j] = buf[1 + j - 1]
  BY <1>1, SubSeqProperties
<1>3. \A j \in 1 .. 4 : j \in 1 .. 4 - 1 + 1 /\ 1 + j - 1 = j
  OBVIOUS
<1>4. (IF 1 <= 4 THEN 4 - 1 + 1 ELSE 0) = 4
  OBVIOUS
<1>5. \A j \in 1 .. 4 : SubSeq(buf, 1, 4)[j] = buf[j]
  <2> SUFFICES ASSUME NEW j \in 1 .. 4 PROVE SubSeq(buf, 1, 4)[j] = buf[j]
    OBVIOUS
  <2>1. SubSeq(buf, 1, 4)[j] = buf[1 + j - 1]
    BY <1>2, <1>3, Zenon
  <2> QED  BY <1>3, <2>1, Zenon
<1> QED  BY <1>2, <1>4, <1>5, Zenon

\* The bytes of a header are within the buffer.
LEMMA Offsets ==
    /\ 6 \in Nat /\ 8 \in Nat /\ 16 \in Nat /\ 20 \in Nat /\ 24 \in Nat /\ 28 \in Nat
    /\ \A j \in 1 .. 2 : 6 + j \in 1 .. 30 /\ 28 + j \in 1 .. 30
    /\ \A j \in 1 .. 8 : 8 + j \in 1 .. 30
    /\ \A j \in 1 .. 4 : 16 + j \in 1 .. 30 /\ 20 + j \in 1 .. 30 /\ 24 + j \in 1 .. 30
  OBVIOUS

\* What has the bytes of a header has its layout.
LEMMA LaidOutCopied ==
    ASSUME NEW h, NEW len, NEW a, NEW b, LaidOut(a, h, len),
           \A j \in 1 .. HeaderLen : b[j] = a[j]
    PROVE  LaidOut(b, h, len)
<1>1. \A j \in 1 .. 30 : b[j] = a[j]
  BY Zenon DEF HeaderLen
<1>2. /\ \A j \in 1 .. 4 : j \in 1 .. 30
      /\ 5 \in 1 .. 30 /\ 6 \in 1 .. 30
  OBVIOUS
<1>3. /\ \A j \in 1 .. 4 : b[j] = Magic[j]
      /\ b[5] = Version /\ b[6] = Kinds[h.kind]
  BY <1>1, <1>2, Zenon DEF LaidOut
<1>4. \A j \in 1 .. 2 : b[6 + j] = Le2(h.flags)[j]
  BY <1>1, Offsets, Zenon DEF LaidOut
<1>5. \A j \in 1 .. 8 : b[8 + j] = Le8(h.channel_id)[j]
  BY <1>1, Offsets, Zenon DEF LaidOut
<1>6. \A j \in 1 .. 4 : b[16 + j] = Le4(h.src_peer_id)[j]
  BY <1>1, Offsets, Zenon DEF LaidOut
<1>7. \A j \in 1 .. 4 : b[20 + j] = Le4(h.dst_peer_id)[j]
  BY <1>1, Offsets, Zenon DEF LaidOut
<1>8. \A j \in 1 .. 4 : b[24 + j] = Le4(h.stream_id)[j]
  BY <1>1, Offsets, Zenon DEF LaidOut
<1>9. \A j \in 1 .. 2 : b[28 + j] = Le2(len)[j]
  BY <1>1, Offsets, Zenon DEF LaidOut
<1> QED  BY <1>3, <1>4, <1>5, <1>6, <1>7, <1>8, <1>9, Zenon DEF LaidOut

\* What a header is laid out in is read as that header.
LEMMA HeaderReadBack ==
    ASSUME NEW h \in Header, NEW len \in 0 .. Limit2 - 1,
           NEW buf \in Seq(Byte), Len(buf) >= HeaderLen, LaidOut(buf, h, len)
    PROVE  Framed(buf) /\ HeaderOf(buf) = h /\ PayloadEnd(buf) = HeaderLen + len
<1>1. /\ h.flags \in 0 .. Limit2 - 1 /\ h.channel_id \in 0 .. Limit8 - 1
      /\ h.src_peer_id \in 0 .. Limit4 - 1 /\ h.dst_peer_id \in 0 .. Limit4 - 1
      /\ h.stream_id \in 0 .. Limit4 - 1 /\ h.kind \in DOMAIN Kinds
  BY DEF Header
<1>2. U2(buf, 6) = h.flags
  <2>1. \A j \in 1 .. 2 : buf[6 + j] = Le2(h.flags)[j]
    BY Zenon DEF LaidOut
  <2> QED  BY <1>1, <2>1, Offsets, ReadBack2, Zenon
<1>3. U8(buf, 8) = h.channel_id
  <2>1. \A j \in 1 .. 8 : buf[8 + j] = Le8(h.channel_id)[j]
    BY Zenon DEF LaidOut
  <2> QED  BY <1>1, <2>1, Offsets, ReadBack8, Zenon
<1>4. U4(buf, 16) = h.src_peer_id
  <2>1. \A j \in 1 .. 4 : buf[16 + j] = Le4(h.src_peer_id)[j]
    BY Zenon DEF LaidOut
  <2> QED  BY <1>1, <2>1, Offsets, ReadBack4, Zenon
<1>5. U4(buf, 20) = h.dst_peer_id
  <2>1. \A j \in 1 .. 4 : buf[20 + j] = Le4(h.dst_peer_id)[j]
    BY Zenon DEF LaidOut
  <2> QED  BY <1>1, <2>1, Offsets, ReadBack4, Zenon
<1>6. U4(buf, 24) = h.stream_id
  <2>1. \A j \in 1 .. 4 : buf[24 + j] = Le4(h.stream_id)[j]
    BY Zenon DEF LaidOut
  <2> QED  BY <1>1, <2>1, Offsets, ReadBack4, Zenon
<1>7. U2(buf, 28) = len
  <2>1. \A j \in 1 .. 2 : buf[28 + j] = Le2(len)[j]
    BY Zenon DEF LaidOut
  <2> QED  BY <2>1, Offsets, ReadBack2, Zenon
<1>8. SubSeq(buf, 1, 4) = Magic
  <2>1. /\ SubSeq(buf, 1, 4) \in Seq(Byte) /\ Len(SubSeq(buf, 1, 4)) = 4
        /\ \A j \in 1 .. 4 : SubSeq(buf, 1, 4)[j] = buf[j]
    BY FirstFour, Zenon
  <2>2. \A j \in 1 .. 4 : SubSeq(buf, 1, 4)[j] = Magic[j]
    BY <2>1, Zenon DEF LaidOut
  <2> QED  BY <2>1, <2>2, MagicBytesFour, SeqEqual, Zenon
<1>9. (CHOOSE k \in DOMAIN Kinds : Kinds[k] = buf[6]) = h.kind
  BY <1>1, KindBytes, Zenon DEF LaidOut
<1>10. Framed(buf)
  BY <1>1, <1>8, Zenon DEF Framed, LaidOut
<1>11. HeaderOf(buf) = h
  BY <1>2, <1>3, <1>4, <1>5, <1>6, <1>9 DEF HeaderOf, Header
<1> QED  BY <1>7, <1>10, <1>11, Zenon DEF PayloadEnd

\* A header that can be read is laid out where it was read.
LEMMA HeaderWrittenBack ==
    ASSUME NEW buf \in Seq(Byte), Framed(buf)
    PROVE  /\ HeaderOf(buf) \in Header
           /\ U2(buf, 28) \in 0 .. Limit2 - 1
           /\ LaidOut(buf, HeaderOf(buf), U2(buf, 28))
<1> DEFINE h   == HeaderOf(buf)
           len == U2(buf, 28)
<1>1. \A j \in 1 .. 30 : buf[j] \in Byte
  <2> SUFFICES ASSUME NEW j \in 1 .. 30 PROVE buf[j] \in Byte
    OBVIOUS
  <2>1. j \in 1 .. Len(buf)
    <3>1. Len(buf) >= 30 /\ Len(buf) \in Nat
      BY DEF Framed, HeaderLen
    <3> QED  BY <3>1
  <2> QED  BY <2>1, ElementOfSeq
<1>2. h.kind \in DOMAIN Kinds /\ buf[6] = Kinds[h.kind]
  <2>1. h.kind = CHOOSE k \in DOMAIN Kinds : Kinds[k] = buf[6]
    BY DEF HeaderOf
  <2> QED  BY <2>1, Zenon DEF Framed
<1>3. /\ h.flags = U2(buf, 6) /\ h.channel_id = U8(buf, 8)
      /\ h.src_peer_id = U4(buf, 16) /\ h.dst_peer_id = U4(buf, 20)
      /\ h.stream_id = U4(buf, 24)
  BY DEF HeaderOf
<1>4. h = [ kind |-> h.kind, flags |-> h.flags, channel_id |-> h.channel_id,
            src_peer_id |-> h.src_peer_id, dst_peer_id |-> h.dst_peer_id,
            stream_id |-> h.stream_id ]
  BY DEF HeaderOf
<1>5. U2(buf, 6) \in 0 .. Limit2 - 1 /\ \A j \in 1 .. 2 : Le2(U2(buf, 6))[j] = buf[6 + j]
  BY <1>1, Offsets, WrittenBack2, Zenon
<1>6. U8(buf, 8) \in 0 .. Limit8 - 1 /\ \A j \in 1 .. 8 : Le8(U8(buf, 8))[j] = buf[8 + j]
  BY <1>1, Offsets, WrittenBack8, Zenon
<1>7. U4(buf, 16) \in 0 .. Limit4 - 1 /\ \A j \in 1 .. 4 : Le4(U4(buf, 16))[j] = buf[16 + j]
  BY <1>1, Offsets, WrittenBack4, Zenon
<1>8. U4(buf, 20) \in 0 .. Limit4 - 1 /\ \A j \in 1 .. 4 : Le4(U4(buf, 20))[j] = buf[20 + j]
  BY <1>1, Offsets, WrittenBack4, Zenon
<1>9. U4(buf, 24) \in 0 .. Limit4 - 1 /\ \A j \in 1 .. 4 : Le4(U4(buf, 24))[j] = buf[24 + j]
  BY <1>1, Offsets, WrittenBack4, Zenon
<1>10. U2(buf, 28) \in 0 .. Limit2 - 1 /\ \A j \in 1 .. 2 : Le2(U2(buf, 28))[j] = buf[28 + j]
  BY <1>1, Offsets, WrittenBack2, Zenon
<1>11. \A j \in 1 .. 4 : buf[j] = Magic[j]
  BY FirstFour, Zenon DEF Framed
<1> HIDE DEF h, len
<1>12. h \in Header
  <2>1. /\ h.flags \in 0 .. Limit2 - 1 /\ h.channel_id \in 0 .. Limit8 - 1
        /\ h.src_peer_id \in 0 .. Limit4 - 1 /\ h.dst_peer_id \in 0 .. Limit4 - 1
        /\ h.stream_id \in 0 .. Limit4 - 1
    BY <1>3, <1>5, <1>6, <1>7, <1>8, <1>9, Zenon
  <2> QED  BY <1>2, <1>4, <2>1 DEF Header
<1>13. LaidOut(buf, h, U2(buf, 28))
  <2>1. buf[5] = Version
    BY Zenon DEF Framed
  <2>2. \A j \in 1 .. 2 : buf[6 + j] = Le2(h.flags)[j]
    BY <1>3, <1>5, Zenon
  <2>3. \A j \in 1 .. 8 : buf[8 + j] = Le8(h.channel_id)[j]
    BY <1>3, <1>6, Zenon
  <2>4. \A j \in 1 .. 4 : buf[16 + j] = Le4(h.src_peer_id)[j]
    BY <1>3, <1>7, Zenon
  <2>5. \A j \in 1 .. 4 : buf[20 + j] = Le4(h.dst_peer_id)[j]
    BY <1>3, <1>8, Zenon
  <2>6. \A j \in 1 .. 4 : buf[24 + j] = Le4(h.stream_id)[j]
    BY <1>3, <1>9, Zenon
  <2>7. \A j \in 1 .. 2 : buf[28 + j] = Le2(U2(buf, 28))[j]
    BY <1>10, Zenon
  <2> QED  BY <1>2, <1>11, <2>1, <2>2, <2>3, <2>4, <2>5, <2>6, <2>7, Zenon DEF LaidOut
<1> QED  BY <1>10, <1>12, <1>13, Zenon DEF h

\* A part of a sequence.
LEMMA PartIs ==
    ASSUME NEW s \in Seq(Byte), NEW i \in Nat, NEW n \in Nat, i + n <= Len(s)
    PROVE  /\ SubSeq(s, i + 1, i + n) \in Seq(Byte)
           /\ Len(SubSeq(s, i + 1, i + n)) = n
           /\ \A j \in 1 .. n : SubSeq(s, i + 1, i + n)[j] = s[i + j]
<1>1. \A j \in i + 1 .. i + n : s[j] \in Byte
  <2> SUFFICES ASSUME NEW j \in i + 1 .. i + n PROVE s[j] \in Byte
    OBVIOUS
  <2>1. j \in 1 .. Len(s)
    OBVIOUS
  <2> QED  BY <2>1, ElementOfSeq
<1>2. i + 1 \in Int /\ i + n \in Int
  OBVIOUS
<1>3. /\ SubSeq(s, i + 1, i + n) \in Seq(Byte)
      /\ Len(SubSeq(s, i + 1, i + n)) =
           IF i + 1 <= i + n THEN (i + n) - (i + 1) + 1 ELSE 0
      /\ \A j \in 1 .. (i + n) - (i + 1) + 1 :
           SubSeq(s, i + 1, i + n)[j] = s[(i + 1) + j - 1]
  BY <1>1, <1>2, SubSeqProperties
<1>4. Len(SubSeq(s, i + 1, i + n)) = n
  BY <1>3
<1>5. ASSUME NEW j \in 1 .. n PROVE SubSeq(s, i + 1, i + n)[j] = s[i + j]
  <2>1. j \in 1 .. (i + n) - (i + 1) + 1 /\ (i + 1) + j - 1 = i + j
    OBVIOUS
  <2>2. SubSeq(s, i + 1, i + n)[j] = s[(i + 1) + j - 1]
    BY <1>3, <2>1, Zenon
  <2> QED  BY <2>1, <2>2, Zenon
<1> QED  BY <1>3, <1>4, <1>5, Zenon

LEMMA BeginningIs ==
    ASSUME NEW s \in Seq(Byte), NEW n \in Nat, n <= Len(s)
    PROVE  /\ SubSeq(s, 1, n) \in Seq(Byte)
           /\ Len(SubSeq(s, 1, n)) = n
           /\ \A j \in 1 .. n : SubSeq(s, 1, n)[j] = s[j]
  OBVIOUS

\* decode gives back what encode was given, if the payload's length could be told.
LEMMA DecodeOfEncode ==
    ASSUME NEW h \in Header, NEW p \in Seq(Byte), Len(p) < Limit2
    PROVE  Decode(Encode(h, p)) = <<h, p>>
<1> DEFINE e == Encode(h, p)
<1>1. Len(p) \in 0 .. Limit2 - 1 /\ Len(p) \in Nat /\ LengthOf(p) = Len(p)
  BY Limits, LengthOfFits
<1>2. /\ e \in Seq(Byte) /\ Len(e) = HeaderLen + Len(p)
      /\ \A j \in 1 .. HeaderLen : e[j] = HeaderBytes(h, Len(p))[j]
      /\ \A j \in 1 .. Len(p) : e[HeaderLen + j] = p[j]
  <2>1. /\ e \in Seq(Byte) /\ Len(e) = HeaderLen + LengthOf(p)
        /\ \A j \in 1 .. HeaderLen : e[j] = HeaderBytes(h, LengthOf(p))[j]
        /\ \A j \in 1 .. LengthOf(p) : e[HeaderLen + j] = p[j]
    BY EncodeIs, Zenon
  <2> QED  BY <1>1, <2>1, Zenon
<1> HIDE DEF e
<1>3. LaidOut(e, h, Len(p))
  BY <1>1, <1>2, HeaderBytesAre, LaidOutCopied, Zenon
<1>4. Len(e) >= HeaderLen
  BY <1>1, <1>2 DEF HeaderLen
<1>5. Framed(e) /\ HeaderOf(e) = h /\ PayloadEnd(e) = HeaderLen + Len(p)
  BY <1>1, <1>2, <1>3, <1>4, HeaderReadBack, Zenon
<1>6. Whole(e)
  BY <1>1, <1>2, <1>5 DEF Whole, HeaderLen
<1>7. SubSeq(e, HeaderLen + 1, PayloadEnd(e)) = p
  <2>1. HeaderLen \in Nat /\ HeaderLen + Len(p) <= Len(e)
    BY <1>1, <1>2 DEF HeaderLen
  <2>2. /\ SubSeq(e, HeaderLen + 1, HeaderLen + Len(p)) \in Seq(Byte)
        /\ Len(SubSeq(e, HeaderLen + 1, HeaderLen + Len(p))) = Len(p)
        /\ \A j \in 1 .. Len(p) :
             SubSeq(e, HeaderLen + 1, HeaderLen + Len(p))[j] = e[HeaderLen + j]
    BY <1>1, <1>2, <2>1, PartIs, Zenon
  <2>3. \A j \in 1 .. Len(p) : SubSeq(e, HeaderLen + 1, HeaderLen + Len(p))[j] = p[j]
    BY <1>2, <2>2, Zenon
  <2>4. SubSeq(e, HeaderLen + 1, HeaderLen + Len(p)) = p
    BY <2>2, <2>3, SeqEqual, Zenon
  <2> QED  BY <1>5, <2>4, Zenon
<1> QED  BY <1>5, <1>6, <1>7, Zenon DEF Decode, e

\* decode refuses a frame that is cut.
LEMMA CutIsRefused ==
    ASSUME NEW h \in Header, NEW p \in Seq(Byte), NEW n \in Nat, n < Len(Encode(h, p))
    PROVE  Decode(SubSeq(Encode(h, p), 1, n)) = None
<1> DEFINE e   == Encode(h, p)
           len == LengthOf(p)
           cut == SubSeq(e, 1, n)
<1>1. len \in 0 .. Limit2 - 1
  BY LengthOfFits
<1>2. /\ e \in Seq(Byte) /\ Len(e) = HeaderLen + len
      /\ \A j \in 1 .. HeaderLen : e[j] = HeaderBytes(h, len)[j]
  BY EncodeIs, Zenon
<1> HIDE DEF e, len
<1>3. n < Len(e)
  BY Zenon DEF e
<1>4. cut \in Seq(Byte) /\ Len(cut) = n /\ \A j \in 1 .. n : cut[j] = e[j]
  <2>1. n <= Len(e)
    BY <1>2, <1>3
  <2> QED  BY <1>2, <2>1, BeginningIs, Zenon
<1> HIDE DEF cut
<1>5. CASE n < HeaderLen
  <2>1. ~ (n >= HeaderLen)
    BY <1>5 DEF HeaderLen
  <2> QED  BY <1>4, <2>1, Zenon DEF Decode, Framed, cut, e
<1>6. CASE n >= HeaderLen
  <2>1. \A j \in 1 .. HeaderLen : cut[j] = HeaderBytes(h, len)[j]
    <3>1. \A j \in 1 .. HeaderLen : j \in 1 .. n
      BY <1>6 DEF HeaderLen
    <3> QED  BY <1>2, <1>4, <3>1, Zenon
  <2>2. LaidOut(cut, h, len)
    BY <1>1, <2>1, HeaderBytesAre, LaidOutCopied, Zenon
  <2>3. Len(cut) >= HeaderLen
    BY <1>4, <1>6, Zenon
  <2>4. PayloadEnd(cut) = HeaderLen + len
    BY <1>1, <1>4, <2>2, <2>3, HeaderReadBack, Zenon
  <2>5. ~ (HeaderLen + len <= n)
    <3>1. len \in Nat /\ HeaderLen \in Nat
      BY <1>1, Limits DEF HeaderLen
    <3> QED  BY <1>2, <1>3, <3>1
  <2> QED  BY <1>4, <2>4, <2>5, Zenon DEF Decode, Whole, cut, e
<1> QED  BY <1>5, <1>6 DEF HeaderLen

\* What decode accepts begins with what encode makes of it.
LEMMA DecodedIsEncoded ==
    ASSUME NEW buf \in Seq(Byte), Framed(buf), Whole(buf)
    PROVE  LET p == SubSeq(buf, HeaderLen + 1, PayloadEnd(buf))
           IN  /\ HeaderOf(buf) \in Header
               /\ Encode(HeaderOf(buf), p) = SubSeq(buf, 1, HeaderLen + Len(p))
<1> DEFINE h   == HeaderOf(buf)
           len == U2(buf, 28)
           p   == SubSeq(buf, HeaderLen + 1, PayloadEnd(buf))
           e   == Encode(h, p)
<1>1. h \in Header /\ len \in 0 .. Limit2 - 1 /\ LaidOut(buf, h, len)
  BY HeaderWrittenBack, Zenon
<1>2. len \in Nat /\ len < Limit2 /\ HeaderLen \in Nat /\ Len(buf) \in Nat
  BY <1>1, Limits DEF HeaderLen
<1>3. HeaderLen + len <= Len(buf) /\ PayloadEnd(buf) = HeaderLen + len
  BY Zenon DEF Whole, PayloadEnd
<1> HIDE DEF h, len
<1>4. p \in Seq(Byte) /\ Len(p) = len /\ \A j \in 1 .. len : p[j] = buf[HeaderLen + j]
  <2> DEFINE part == SubSeq(buf, HeaderLen + 1, HeaderLen + len)
  <2>1. /\ part \in Seq(Byte) /\ Len(part) = len
        /\ \A j \in 1 .. len : part[j] = buf[HeaderLen + j]
    BY <1>2, <1>3, PartIs, Zenon
  <2>2. p = part
    BY <1>3, Zenon
  <2> HIDE DEF part, p
  <2> QED  BY <2>1, <2>2, Zenon
<1> HIDE DEF p
<1>5. LengthOf(p) = len
  BY <1>2, <1>4, LengthOfFits, Zenon
<1>6. /\ e \in Seq(Byte) /\ Len(e) = HeaderLen + len
      /\ \A j \in 1 .. HeaderLen : e[j] = HeaderBytes(h, len)[j]
      /\ \A j \in 1 .. len : e[HeaderLen + j] = p[j]
  <2>1. /\ e \in Seq(Byte) /\ Len(e) = HeaderLen + LengthOf(p)
        /\ \A j \in 1 .. HeaderLen : e[j] = HeaderBytes(h, LengthOf(p))[j]
        /\ \A j \in 1 .. LengthOf(p) : e[HeaderLen + j] = p[j]
    BY <1>1, <1>4, EncodeIs, Zenon
  <2> QED  BY <1>5, <2>1, Zenon
<1> HIDE DEF e
<1>7. \A j \in 1 .. HeaderLen : e[j] = buf[j]
  <2>1. LaidOut(HeaderBytes(h, len), h, len)
    BY <1>1, HeaderBytesAre, Zenon
  <2>2. \A j \in 1 .. HeaderLen : HeaderBytes(h, len)[j] = buf[j]
    BY <1>1, <2>1, LaidOutAlike, SMTT(30)
  <2> QED  BY <1>6, <2>2, Zenon
<1>8. \A j \in 1 .. HeaderLen + len : e[j] = buf[j]
  <2> SUFFICES ASSUME NEW j \in 1 .. HeaderLen + len PROVE e[j] = buf[j]
    OBVIOUS
  <2>1. \/ j \in 1 .. HeaderLen
        \/ j - HeaderLen \in 1 .. len /\ j = HeaderLen + (j - HeaderLen)
    BY <1>2
  <2> QED  BY <1>4, <1>6, <1>7, <2>1, Zenon
<1>9. /\ SubSeq(buf, 1, HeaderLen + len) \in Seq(Byte)
      /\ Len(SubSeq(buf, 1, HeaderLen + len)) = HeaderLen + len
      /\ \A j \in 1 .. HeaderLen + len : SubSeq(buf, 1, HeaderLen + len)[j] = buf[j]
  <2>1. HeaderLen + len \in Nat
    BY <1>2
  <2> QED  BY <1>3, <2>1, BeginningIs, Zenon
<1>10. e = SubSeq(buf, 1, HeaderLen + len)
  <2>1. \A j \in 1 .. HeaderLen + len : e[j] = SubSeq(buf, 1, HeaderLen + len)[j]
    BY <1>8, <1>9, Zenon
  <2> QED  BY <1>6, <1>9, <2>1, SeqEqual, Zenon
<1> QED  BY <1>1, <1>4, <1>10, Zenon DEF e, h, p

----------------------------------------------------------------------------
(* The datagram, from one end to the other *)

\* What has not been damaged is what was sent, or the beginning of it once it
\* has been read.
Arrived ==
    /\ stage = "sent" => wire = Encode(header, payload)
    /\ \E n \in Nat : /\ n <= Len(Encode(header, payload))
                      /\ wire = SubSeq(Encode(header, payload), 1, n)

CodecInv ==
    /\ header \in Header /\ payload \in Seq(Byte)
    /\ wire \in Seq(Byte)
    /\ stage \in {"sent", "read", "decoded"}
    /\ stage # "decoded" => got = None
    /\ stage = "decoded" => got = Decode(wire)
    /\ ~damaged => Arrived

LEMMA EncodeWhole ==
    ASSUME NEW h \in Header, NEW p \in Seq(Byte)
    PROVE  /\ Encode(h, p) \in Seq(Byte) /\ Len(Encode(h, p)) \in Nat
           /\ SubSeq(Encode(h, p), 1, Len(Encode(h, p))) = Encode(h, p)
<1>1. Encode(h, p) \in Seq(Byte)
  BY EncodeIs, Zenon
<1>2. \A s \in Seq(Byte) : Len(s) \in Nat /\ SubSeq(s, 1, Len(s)) = s
  <2> SUFFICES ASSUME NEW s \in Seq(Byte) PROVE Len(s) \in Nat /\ SubSeq(s, 1, Len(s)) = s
    OBVIOUS
  <2>1. Len(s) \in Nat /\ Len(s) <= Len(s)
    OBVIOUS
  <2>2. /\ SubSeq(s, 1, Len(s)) \in Seq(Byte) /\ Len(SubSeq(s, 1, Len(s))) = Len(s)
        /\ \A j \in 1 .. Len(s) : SubSeq(s, 1, Len(s))[j] = s[j]
    BY <2>1, BeginningIs, Zenon
  <2> QED  BY <2>1, <2>2, SeqEqual, Zenon
<1> QED  BY <1>1, <1>2, Zenon

LEMMA CodecInit ==
    ASSUME Init PROVE CodecInv
<1>1. header \in Header /\ payload \in Seq(Byte)
  BY HeaderAssumption, PayloadAssumption DEF Init
<1>2. /\ Encode(header, payload) \in Seq(Byte) /\ Len(Encode(header, payload)) \in Nat
      /\ SubSeq(Encode(header, payload), 1, Len(Encode(header, payload)))
           = Encode(header, payload)
  BY <1>1, EncodeWhole, Zenon
<1>3. wire = Encode(header, payload) /\ stage = "sent" /\ got = None
  BY DEF Init
<1>4. Len(Encode(header, payload)) <= Len(Encode(header, payload))
  BY <1>2
<1>5. Arrived
  BY <1>2, <1>3, <1>4, Zenon DEF Arrived
<1> QED  BY <1>1, <1>2, <1>3, <1>5 DEF CodecInv

LEMMA CodecStep ==
    ASSUME CodecInv, [Next]_vars PROVE CodecInv'
<1> USE DEF CodecInv
<1>1. CASE Damage
  <2>1. wire' \in Seq(Byte)
    <3>1. PICK i \in DOMAIN wire, b \in Byte : wire' = [wire EXCEPT ![i] = b]
      BY <1>1 DEF Damage
    <3> QED  BY <3>1
  <2> QED  BY <1>1, <2>1 DEF Damage
<1>2. CASE ReadDatagram
  <2> DEFINE e == Encode(header, payload)
  <2>1. PICK size \in BufferSizes : wire' = IF Len(wire) > size THEN SubSeq(wire, 1, size) ELSE wire
    BY <1>2 DEF ReadDatagram
  <2>2. size \in Nat
    BY BufferAssumption
  <2>3. wire' \in Seq(Byte)
    BY <2>1, <2>2
  <2>4. ASSUME ~damaged PROVE \E n \in Nat : n <= Len(e) /\ wire' = SubSeq(e, 1, n)
    <3>1. wire = e
      BY <1>2, <2>4, Zenon DEF ReadDatagram, Arrived
    <3>2. Len(e) \in Nat /\ SubSeq(e, 1, Len(e)) = e
      BY EncodeWhole, Zenon
    <3> HIDE DEF e
    <3>3. CASE Len(wire) > size
      BY <2>1, <2>2, <3>1, <3>2, <3>3
    <3>4. CASE ~(Len(wire) > size)
      <4>1. wire' = SubSeq(e, 1, Len(e))
        BY <2>1, <3>1, <3>2, <3>4, Zenon
      <4>2. Len(e) <= Len(e)
        BY <3>2
      <4> QED  BY <3>2, <4>1, <4>2, Zenon
    <3> QED  BY <3>3, <3>4
  <2>5. ~damaged' => Arrived'
    BY <1>2, <2>4, Zenon DEF ReadDatagram, Arrived
  <2> QED  BY <1>2, <2>3, <2>5 DEF ReadDatagram
<1>3. CASE DecodeDatagram
  <2>1. ~damaged' => Arrived'
    BY <1>3 DEF DecodeDatagram, Arrived
  <2> QED  BY <1>3, <2>1 DEF DecodeDatagram
<1>4. CASE UNCHANGED vars
  <2>1. ~damaged' => Arrived'
    BY <1>4 DEF vars, Arrived
  <2> QED  BY <1>4, <2>1 DEF vars
<1> QED  BY <1>1, <1>2, <1>3, <1>4 DEF Next

\* Frames only ever hold bytes, and what has been decoded is what decode makes
\* of the datagram that arrived (packet.rs, encode and decode).
THEOREM CodecCorrect == Spec => []CodecInv
<1>1. Init => CodecInv
  BY CodecInit
<1>2. CodecInv /\ [Next]_vars => CodecInv'
  BY CodecStep
<1> QED  BY <1>1, <1>2, PTL DEF Spec

\* A frame that arrives as it was sent is decoded into the header and the
\* payload that were encoded, for every header and every payload whose length
\* two bytes can tell (packet.rs, encode and decode).
THEOREM RoundTripHolds == Spec => []RoundTrip
<1>1. CodecInv => RoundTrip
  <2> SUFFICES ASSUME CodecInv, stage = "decoded", wire = Encode(header, payload),
                      Len(payload) < Limit2
               PROVE  got = <<header, payload>>
    BY Zenon DEF RoundTrip
  <2>1. header \in Header /\ payload \in Seq(Byte) /\ got = Decode(Encode(header, payload))
    BY Zenon DEF CodecInv
  <2> QED  BY <2>1, DecodeOfEncode, Zenon
<1> QED  BY <1>1, CodecCorrect, PTL

\* A frame that the receive buffer has cut is refused, however it was cut
\* (packet.rs, the two length checks of decode).
THEOREM CutRefusedHolds == Spec => []CutRefused
<1>1. CodecInv => CutRefused
  <2> SUFFICES ASSUME CodecInv, stage = "decoded", ~damaged,
                      Len(wire) < Len(Encode(header, payload))
               PROVE  got = None
    BY Zenon DEF CutRefused
  <2>1. header \in Header /\ payload \in Seq(Byte) /\ got = Decode(wire)
    BY Zenon DEF CodecInv
  <2> DEFINE e == Encode(header, payload)
  <2>2. PICK n \in Nat : n <= Len(e) /\ wire = SubSeq(e, 1, n)
    BY Zenon DEF CodecInv, Arrived
  <2>3. e \in Seq(Byte) /\ Len(e) \in Nat
    BY <2>1, EncodeWhole, Zenon
  <2>4. n < Len(e)
    <3>1. Len(wire) = n
      <4> HIDE DEF e
      <4> QED  BY <2>2, <2>3, BeginningIs, Zenon
    <3> QED  BY <3>1, Zenon
  <2> QED  BY <2>1, <2>2, <2>4, CutIsRefused, Zenon
<1> QED  BY <1>1, CodecCorrect, PTL

\* Whatever bytes arrive, what decode accepts begins with what encode makes of
\* the header and the payload it returns (packet.rs, decode).
THEOREM AcceptsOnlyFramesHolds == Spec => []AcceptsOnlyFrames
<1>1. CodecInv => AcceptsOnlyFrames
  <2> SUFFICES ASSUME CodecInv, got # None
               PROVE  /\ got[1] \in Header
                      /\ Encode(got[1], got[2]) = SubSeq(wire, 1, HeaderLen + Len(got[2]))
    BY Zenon DEF AcceptsOnlyFrames
  <2>1. wire \in Seq(Byte) /\ got = Decode(wire)
    BY Zenon DEF CodecInv
  <2>2. Framed(wire) /\ Whole(wire)
        /\ got = <<HeaderOf(wire), SubSeq(wire, HeaderLen + 1, PayloadEnd(wire))>>
    BY <2>1, Zenon DEF Decode
  <2>3. got[1] = HeaderOf(wire) /\ got[2] = SubSeq(wire, HeaderLen + 1, PayloadEnd(wire))
    BY <2>2
  <2> QED  BY <2>1, <2>2, <2>3, DecodedIsEncoded, Zenon
<1> QED  BY <1>1, CodecCorrect, PTL
=============================================================================
