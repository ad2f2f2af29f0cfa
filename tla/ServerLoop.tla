------------------------------ MODULE ServerLoop ------------------------------
(***************************************************************************)
(* How the server's main task reads its two sockets, 2131 and 2132 for the *)
(* second NAT probe (run_server in bin/signaling_server.rs), and what it   *)
(* takes a datagram for: the message in a frame of proto/packet.rs, if the *)
(* datagram is one, and text otherwise.                                    *)
(*                                                                         *)
(* Each socket has a buffer of its own.  Both branches decode the main     *)
(* socket's, cut to the length of what has just come in; what they see     *)
(* there is decided by the last datagram of the main socket alone: a text  *)
(* overwrites the magic of a frame, and a frame ends with its payload.     *)
(* What the message does is SignalingServer's.                             *)
(*                                                                         *)
(* A datagram is text or a frame: of CONTROL with a payload of text, of    *)
(* CONTROL with other bytes ("binary"), or of media.                       *)
(***************************************************************************)
EXTENDS Naturals, Sequences

CONSTANTS
    MainDatagrams,  \* what reaches port 2131
    ProbeDatagrams, \* what reaches port 2132
    QueueLimit,     \* bound: the datagrams waiting at a socket
    None

HeaderLen == 30
BufferLen == 2048

\* What can be sent: a frame is at least a header long; a datagram is not
\* empty and fits the buffers.
Sendable(d) ==
    /\ d.size \in Nat \ {0} /\ d.size <= BufferLen
    /\ d.form \in {"text", "control", "binary", "media"}
    /\ d.form # "text" => d.size >= HeaderLen

Datagrams == MainDatagrams \cup ProbeDatagrams

VARIABLES
    waiting,    \* the datagrams at each socket, first to last
    buf_main,   \* the datagram last read into the main buffer, or None
    taken,      \* the datagram last taken from a socket, or None
    handled     \* the message it was taken for, and from whom; or None

vars == <<waiting, buf_main, taken, handled>>

Sockets == {"main", "probe"}
Incoming(s) == IF s = "main" THEN MainDatagrams ELSE ProbeDatagrams

Init ==
    /\ waiting = [s \in Sockets |-> <<>>]
    /\ buf_main = None
    /\ taken = None /\ handled = None

Arrive(s, d) ==
    /\ d \in Incoming(s)
    /\ Len(waiting[s]) < QueueLimit
    /\ waiting' = [waiting EXCEPT ![s] = Append(@, d)]
    /\ UNCHANGED <<buf_main, taken, handled>>

\* decode finds a frame in the first len bytes of a buffer that b was last
\* read into.
Decodes(b, len) == b # None /\ b.form # "text" /\ b.size <= len

Message(d, from) == [msg |-> d.msg, src |-> from]

\* What the branch makes of the datagram d it has just read: buffer is the one
\* it decodes.  Of the frames only those of CONTROL with a text are handled.
\* What is not decoded is handled as text; a frame is a text that begins with
\* the magic, no message handle_message knows.
Outcome(d, buffer) ==
    IF Decodes(buffer, d.size)
    THEN IF buffer.form = "control" THEN Message(buffer, d.src) ELSE None
    ELSE IF d.form = "text" THEN Message(d, d.src) ELSE None

TakeMain ==
    /\ waiting["main"] # <<>>
    /\ LET d == Head(waiting["main"])
       IN  /\ buf_main' = d
           /\ taken' = d
           /\ handled' = Outcome(d, d)
    /\ waiting' = [waiting EXCEPT !["main"] = Tail(@)]

\* The probe branch reads buf_probe and decodes buf_main.
TakeProbe ==
    /\ waiting["probe"] # <<>>
    /\ LET d == Head(waiting["probe"])
       IN  /\ taken' = d
           /\ handled' = Outcome(d, buf_main)
    /\ waiting' = [waiting EXCEPT !["probe"] = Tail(@)]
    /\ UNCHANGED buf_main

\* select takes whichever socket is ready.
Next ==
    \/ \E s \in Sockets : \E d \in Incoming(s) : Arrive(s, d)
    \/ TakeMain
    \/ TakeProbe

Spec == Init /\ [][Next]_vars

----------------------------------------------------------------------------

\* A text shorter than a header, as the probes of detect_nat_kind are, is
\* handled as itself and for the address it came from at either port, whatever
\* frame the main buffer still holds: the NAT detection of one client is not
\* disturbed by what others send.
ProbesAnswered ==
    taken # None /\ taken.form = "text" /\ taken.size < HeaderLen
        => handled = Message(taken, taken.src)

----------------------------------------------------------------------------
(* What the documentation says and the code does not do                    *)

\* The address a message is handled with is the one it came from
\* (doc_signaling_server.md: "the UDP socket address of the user (derived from
\* the source of the UDP packet)").  A datagram at the probe port that is as
\* long as the last frame at the main port has that frame handled once more,
\* for its own source.
SourceIsItsOwn == handled # None => handled = Message(taken, taken.src)
=============================================================================
