----------------------------- MODULE PacketCodec -----------------------------
(***************************************************************************)
(* Frames (src/src/proto/packet.rs): encode and decode, and what a         *)
(* datagram may go through between them: a receive buffer that is too      *)
(* short for it cuts it, and one that was never encoded may come instead.  *)
(* Numbers are little-endian sequences of bytes in base Base, which is 256 *)
(* in the program; every width is as in the program, so the length of a    *)
(* payload, two bytes, goes up to Limit2 - 1.                              *)
(***************************************************************************)
EXTENDS Naturals, Sequences

CONSTANTS
    Base,           \* of a byte
    Magic,          \* the first four bytes
    Headers,        \* the headers that are sent
    Payloads,       \* the payloads that are sent
    BufferSizes,    \* what recv_from reads at most, in one place or another
    None

ASSUME BaseAssumption == Base \in Nat /\ Base >= 4
Byte == 0 .. Base - 1
ASSUME MagicAssumption == Magic \in [1 .. 4 -> Byte]

ASSUME PayloadAssumption == Payloads \subseteq Seq(Byte)
ASSUME BufferAssumption == BufferSizes \subseteq Nat

Version == 1
Kinds == [Control |-> 1, Dtls |-> 2, Srtp |-> 3]
HeaderLen == 30

\* How many numbers two, four and eight bytes tell apart.
Limit2 == Base * Base
Limit4 == Limit2 * Limit2
Limit8 == Limit4 * Limit4

Header == [ kind        : DOMAIN Kinds,
            flags       : 0 .. Limit2 - 1,
            channel_id  : 0 .. Limit8 - 1,
            src_peer_id : 0 .. Limit4 - 1,
            dst_peer_id : 0 .. Limit4 - 1,
            stream_id   : 0 .. Limit4 - 1 ]

ASSUME HeaderAssumption == Headers \subseteq Header

\* to_le_bytes of a u16, a u32 and a u64: the lower half comes first.
Le2(n) == <<n % Base, n \div Base>>
Le4(n) == Le2(n % Limit2) \o Le2(n \div Limit2)
Le8(n) == Le4(n % Limit4) \o Le4(n \div Limit4)

\* from_le_bytes of the bytes of a buffer after the first i.
U2(buf, i) == buf[i + 1] + Base * buf[i + 2]
U4(buf, i) == U2(buf, i) + Limit2 * U2(buf, i + 2)
U8(buf, i) == U4(buf, i) + Limit4 * U4(buf, i + 4)

\* The first HeaderLen bytes, for a payload of len bytes.
HeaderBytes(h, len) ==
    Magic \o <<Version, Kinds[h.kind]>> \o Le2(h.flags) \o Le8(h.channel_id)
      \o Le4(h.src_peer_id) \o Le4(h.dst_peer_id) \o Le4(h.stream_id) \o Le2(len)

\* A payload too long for its length is cut to the greatest length there is.
\* The header's own payload_len is not looked at.
LengthOf(payload) == IF Len(payload) < Limit2 THEN Len(payload) ELSE Limit2 - 1

Encode(h, payload) ==
    HeaderBytes(h, LengthOf(payload)) \o SubSeq(payload, 1, LengthOf(payload))

ToTheEnd(buf) == Len(buf)                           \* mutant of PayloadEnd
PayloadEnd(buf) == HeaderLen + U2(buf, 28)

AnyVersion(buf) ==                                  \* mutant of Framed
    Len(buf) >= HeaderLen /\ SubSeq(buf, 1, 4) = Magic /\ \E k \in DOMAIN Kinds : Kinds[k] = buf[6]

Framed(buf) ==
    /\ Len(buf) >= HeaderLen
    /\ SubSeq(buf, 1, 4) = Magic
    /\ buf[5] = Version
    /\ \E k \in DOMAIN Kinds : Kinds[k] = buf[6]

Whole(buf) == PayloadEnd(buf) <= Len(buf)

Swapped(buf) ==                                     \* mutant of HeaderOf
    [ kind        |-> CHOOSE k \in DOMAIN Kinds : Kinds[k] = buf[6],
      flags       |-> U2(buf, 6),
      channel_id  |-> U8(buf, 8),
      src_peer_id |-> U4(buf, 20),
      dst_peer_id |-> U4(buf, 16),
      stream_id   |-> U4(buf, 24) ]

HeaderOf(buf) ==
    [ kind        |-> CHOOSE k \in DOMAIN Kinds : Kinds[k] = buf[6],
      flags       |-> U2(buf, 6),
      channel_id  |-> U8(buf, 8),
      src_peer_id |-> U4(buf, 16),
      dst_peer_id |-> U4(buf, 20),
      stream_id   |-> U4(buf, 24) ]

Decode(buf) ==
    IF Framed(buf) /\ Whole(buf)
    THEN <<HeaderOf(buf), SubSeq(buf, HeaderLen + 1, PayloadEnd(buf))>>
    ELSE None

----------------------------------------------------------------------------

VARIABLES
    header, payload,    \* what is sent
    wire,               \* the datagram
    stage,              \* "sent", "read" into a buffer, "decoded"
    damaged,            \* the datagram is not what was sent
    got                 \* what decode returned

vars == <<header, payload, wire, stage, damaged, got>>

Init ==
    /\ header \in Headers /\ payload \in Payloads
    /\ wire = Encode(header, payload)
    /\ stage = "sent" /\ damaged = FALSE /\ got = None

\* A datagram that differs in one byte comes from somebody else.
Damage ==
    /\ stage = "sent" /\ ~damaged
    /\ \E i \in DOMAIN wire, b \in Byte : wire' = [wire EXCEPT ![i] = b]
    /\ damaged' = TRUE
    /\ UNCHANGED <<header, payload, stage, got>>

ReadDatagram ==
    /\ stage = "sent" /\ stage' = "read"
    /\ \E size \in BufferSizes :
         wire' = IF Len(wire) > size THEN SubSeq(wire, 1, size) ELSE wire
    /\ UNCHANGED <<header, payload, damaged, got>>

DecodeDatagram ==
    /\ stage = "read" /\ stage' = "decoded"
    /\ got' = Decode(wire)
    /\ UNCHANGED <<header, payload, wire, damaged>>

Next == Damage \/ ReadDatagram \/ DecodeDatagram

Spec == Init /\ [][Next]_vars

----------------------------------------------------------------------------

\* What was sent whole is read as it was sent, up to the longest payload that
\* a length can tell.
RoundTrip ==
    stage = "decoded" /\ wire = Encode(header, payload) /\ Len(payload) < Limit2
      => got = <<header, payload>>

\* A datagram the buffer has cut is refused, not read in part.
CutRefused ==
    stage = "decoded" /\ ~damaged /\ Len(wire) < Len(Encode(header, payload)) => got = None

\* Whatever decode accepts begins with what encode makes of it: nothing but
\* the bytes after the payload is passed over.
AcceptsOnlyFrames ==
    got # None =>
        /\ got[1] \in Header
        /\ Encode(got[1], got[2]) = SubSeq(wire, 1, HeaderLen + Len(got[2]))
=============================================================================
