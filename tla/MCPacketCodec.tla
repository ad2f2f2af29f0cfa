---------------------------- MODULE MCPacketCodec ----------------------------
(* Bytes of two bits: a payload is up to 15 bytes long. *)
EXTENDS PacketCodec

MagicBytes == <<3, 0, 2, 1>>

\* Each kind, with fields at their bounds and in between, all different.
SomeHeaders ==
    { [kind |-> k, flags |-> f, channel_id |-> c, src_peer_id |-> 0,
       dst_peer_id |-> d, stream_id |-> 7] :
        k \in DOMAIN Kinds, f \in {0, 6}, c \in {0, 1, 27000, 65535}, d \in {1, 255} }

\* Payloads up to, at and over the limit.
SomePayloads == {[i \in 1 .. n |-> (i * 3) % 4] : n \in {0, 1, 12, 13, 15, 16}}
=============================================================================
