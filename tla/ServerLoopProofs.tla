--------------------------- MODULE ServerLoopProofs ---------------------------
(***************************************************************************)
(* What the branches of run_server take a short text for, whatever else is *)
(* sent to either port: a frame is never found in fewer bytes than a       *)
(* header has, so the buffer that the probe branch should not be reading   *)
(* does no harm to a NAT probe.                                            *)
(***************************************************************************)
EXTENDS ServerLoop, TLAPS

\* What waits at a socket and what is in the main buffer was sent to the
\* server; and a short text that was taken was handled as itself.
LoopInv ==
    /\ waiting \in [Sockets -> Seq(Datagrams)]
    /\ buf_main \in Datagrams \cup {None}
    /\ ProbesAnswered

\* A short text is handled as itself, whatever the buffer that is decoded
\* holds.
LEMMA ShortIsItself ==
    ASSUME NEW d, Sendable(d), NEW b, b = None \/ Sendable(b),
           d.form = "text", d.size < HeaderLen
    PROVE  Outcome(d, b) = Message(d, d.src)
<1>1. d.size \in Nat
  BY DEF Sendable
<1>2. ~Decodes(b, d.size)
  <2>1. CASE b = None
    BY <2>1 DEF Decodes
  <2>2. CASE Sendable(b) /\ b.form # "text"
    <3>1. b.size \in Nat /\ b.size >= HeaderLen
      BY <2>2 DEF Sendable
    <3>2. ~(b.size <= d.size)
      BY <1>1, <3>1 DEF HeaderLen
    <3> QED
      BY <3>2 DEF Decodes
  <2>3. CASE b.form = "text"
    BY <2>3 DEF Decodes
  <2> QED
    BY <2>1, <2>2, <2>3
<1> QED
  BY <1>2 DEF Outcome

LEMMA LoopInit ==
    ASSUME None \notin Datagrams, Init
    PROVE  LoopInv
BY DEF Init, LoopInv, ProbesAnswered

LEMMA LoopStep ==
    ASSUME \A d \in Datagrams : Sendable(d), LoopInv, [Next]_vars
    PROVE  LoopInv'
<1> USE DEF LoopInv
<1>1. ASSUME NEW s \in Sockets, NEW d \in Incoming(s), Arrive(s, d)
      PROVE  LoopInv'
  <2>1. d \in Datagrams
    BY <1>1 DEF Incoming, Datagrams
  <2> QED
    BY <1>1, <2>1 DEF Arrive, ProbesAnswered
\* Both branches read the first datagram of their socket, and decode a buffer
\* that some datagram was read into.
<1>2. ASSUME NEW s \in Sockets, waiting[s] # <<>>,
             NEW b \in Datagrams \cup {None},
             waiting' = [waiting EXCEPT ![s] = Tail(waiting[s])],
             taken' = Head(waiting[s]),
             handled' = Outcome(Head(waiting[s]), IF s = "main" THEN Head(waiting[s]) ELSE b)
      PROVE  /\ Head(waiting[s]) \in Datagrams
             /\ waiting' \in [Sockets -> Seq(Datagrams)]
             /\ ProbesAnswered'
  <2>1. Head(waiting[s]) \in Datagrams /\ Tail(waiting[s]) \in Seq(Datagrams)
    BY <1>2
  <2>2. waiting' \in [Sockets -> Seq(Datagrams)]
    BY <1>2, <2>1
  <2>3. ProbesAnswered'
    BY <1>2, <2>1, ShortIsItself DEF ProbesAnswered
  <2> QED
    BY <2>1, <2>2, <2>3
<1>3. CASE TakeMain
  BY <1>2, <1>3 DEF TakeMain, Sockets
<1>4. CASE TakeProbe
  BY <1>2, <1>4 DEF TakeProbe, Sockets
<1>5. CASE UNCHANGED vars
  BY <1>5 DEF vars, ProbesAnswered
<1> QED
  BY <1>1, <1>3, <1>4, <1>5 DEF Next

----------------------------------------------------------------------------

\* Whatever datagrams come to either port and in whatever order, a text
\* shorter than a header is handled as itself, for its own source.
THEOREM ProbesAnsweredHolds ==
    ASSUME None \notin Datagrams, \A d \in Datagrams : Sendable(d)
    PROVE  Spec => []ProbesAnswered
<1>1. Init => LoopInv
  BY LoopInit
<1>2. LoopInv /\ [Next]_vars => LoopInv'
  BY LoopStep
<1>3. LoopInv => ProbesAnswered
  BY DEF LoopInv
<1> QED
  BY <1>1, <1>2, <1>3, PTL DEF Spec
=============================================================================
