------------------------------ MODULE MCServerLoop ------------------------------
(* What clients may send to the server's two ports. *)
EXTENDS ServerLoop

CONSTANTS ann, bob,                         \* addresses
          connect, heartbeat, probe, bytes  \* messages, and what is none

Text(m, src, size)     == [msg |-> m, src |-> src, form |-> "text", size |-> size]
Frame(f, m, src, size) == [msg |-> m, src |-> src, form |-> f, size |-> size]

\* Frames of every sort, and texts shorter and longer than a header.
AnyForm == { Frame("control", connect, ann, 50), Frame("binary", bytes, ann, 34),
             Frame("media", bytes, bob, 40),
             Text(connect, bob, 45), Text(heartbeat, ann, 20) }

\* The same at the second port, besides the NAT probes: "NAT_PROBE 2\n".  Texts
\* a byte shorter than the CONTROL frame of the main port, and as long.
AnyProbe == { Text(probe, ann, 12), Text(probe, bob, 12), Text(heartbeat, bob, HeaderLen - 1),
              Text(heartbeat, bob, 49), Text(heartbeat, bob, 50),
              Frame("control", connect, bob, 60) }
=============================================================================
