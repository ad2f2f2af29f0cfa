----------------------------- MODULE NatDetection -----------------------------
(***************************************************************************)
(* How a client finds out what NAT it is behind, before it connects        *)
(* (detect_nat_kind in client/networking.rs, NAT_PROBE in                  *)
(* signaling/handlers/message.rs): it sends a probe to each port of the    *)
(* server, and compares the addresses the server has seen them come from.  *)
(* The network loses and copies datagrams and delivers them in any order.  *)
(* Datagrams that are no NAT_SEEN are read and forgotten; not modelled.    *)
(***************************************************************************)
EXTENDS Naturals, Sequences

CONSTANTS
    Ips, PublicPorts,   \* where the NAT may put the client's socket
    CopyLimit,          \* bound: the datagrams the network copies
    Undecided           \* no verdict yet

ASSUME CopyLimitAssumption == CopyLimit \in Nat
ASSUME UndecidedAssumption == Undecided \notin {"Unknown", "Cone", "Symmetric"}

\* The ports of the server, and the addresses it may see.
ServerPorts == {2131, 2132}
Address == [ip : Ips, port : PublicPorts]

VARIABLES
    mapping,    \* the address of the client's socket, as each port sees it
    probes,     \* NAT_PROBE on its way to each port: how many copies
    answers,    \* NAT_SEEN on its way from each port: how many copies
    copies,     \* the copies made so far
    seen,       \* the answers read, in that order
    reading,    \* the deadline has not passed, and the socket works
    kind        \* the verdict

vars == <<mapping, probes, answers, copies, seen, reading, kind>>

Init ==
    /\ mapping \in [ServerPorts -> Address]
    /\ probes = [p \in ServerPorts |-> 1]
    /\ answers = [p \in ServerPorts |-> 0]
    /\ copies = 0
    /\ seen = <<>>
    /\ reading = TRUE
    /\ kind = Undecided

\* The server tells what it sees, from the port it was asked at.
Answer(p) ==
    /\ probes[p] > 0
    /\ probes' = [probes EXCEPT ![p] = @ - 1]
    /\ answers' = [answers EXCEPT ![p] = @ + 1]
    /\ UNCHANGED <<mapping, copies, seen, reading, kind>>

Lose(p) ==
    /\ \/ probes[p] > 0 /\ probes' = [probes EXCEPT ![p] = @ - 1] /\ UNCHANGED answers
       \/ answers[p] > 0 /\ answers' = [answers EXCEPT ![p] = @ - 1] /\ UNCHANGED probes
    /\ UNCHANGED <<mapping, copies, seen, reading, kind>>

Copy(p) ==
    /\ copies < CopyLimit /\ copies' = copies + 1
    /\ \/ probes[p] > 0 /\ probes' = [probes EXCEPT ![p] = @ + 1] /\ UNCHANGED answers
       \/ answers[p] > 0 /\ answers' = [answers EXCEPT ![p] = @ + 1] /\ UNCHANGED probes
    /\ UNCHANGED <<mapping, seen, reading, kind>>

Listening == kind = Undecided /\ reading /\ Len(seen) < 2

\* An answer counts whichever port it is from.
Read(p) ==
    /\ Listening
    /\ answers[p] > 0
    /\ answers' = [answers EXCEPT ![p] = @ - 1]
    /\ seen' = Append(seen, mapping[p])
    /\ UNCHANGED <<mapping, probes, copies, reading, kind>>

\* The 600 ms are over, or reading the socket fails.
Stop ==
    /\ kind = Undecided /\ reading
    /\ reading' = FALSE
    /\ UNCHANGED <<mapping, probes, answers, copies, seen, kind>>

DoneWithBoth == Len(seen) = 2                       \* mutant of Done
Done == Len(seen) = 2 \/ ~reading

ByIp(s) ==                                          \* mutant of Classify
    IF Len(s) < 2 THEN "Unknown" ELSE IF s[1].ip # s[2].ip THEN "Symmetric" ELSE "Cone"

AtWorst(s) ==                                       \* mutant of Classify
    IF Len(s) = 2 /\ s[1] = s[2] THEN "Cone" ELSE "Symmetric"

Classify(s) ==
    IF Len(s) < 2 THEN "Unknown" ELSE IF s[1] # s[2] THEN "Symmetric" ELSE "Cone"

Decide ==
    /\ kind = Undecided /\ Done
    /\ kind' = Classify(seen)
    /\ UNCHANGED <<mapping, probes, answers, copies, seen, reading>>

Next ==
    \/ \E p \in ServerPorts : Answer(p) \/ Lose(p) \/ Copy(p) \/ Read(p)
    \/ Stop
    \/ Decide

\* The deadline comes, and the loop sees it.  Nothing makes a datagram arrive.
Spec == Init /\ [][Next]_vars /\ WF_vars(Stop) /\ WF_vars(Decide)

----------------------------------------------------------------------------

\* The NAT gives the client one address towards both ports.
OneAddress == \A p, q \in ServerPorts : mapping[p] = mapping[q]

\* A client that takes itself for symmetric, and lives on the server's relay
\* from then on, is: neither lost nor repeated answers lead to that.
SymmetricIsSo == kind = "Symmetric" => ~OneAddress

\* "(same addr on both ports)": a client that takes itself for a cone, and
\* may be made the relay, has one address, unless a datagram was copied: the
\* answers are not told apart, and a copy of one passes for the other.
ConeIsSo == copies = 0 /\ kind = "Cone" => OneAddress

\* Whatever is lost, the client gets on to CONNECT.
Decides == <>(kind # Undecided)
=============================================================================
