-------------------------- MODULE NatDetectionProofs --------------------------
(* What detect_nat_kind concludes, for every NAT: proofs. *)
EXTENDS NatDetection, SequenceTheorems, TLAPS

----------------------------------------------------------------------------
(* However often datagrams are copied *)

\* What has been read is what one port or the other sees.
SeenIsMapped ==
    /\ mapping \in [ServerPorts -> Address]
    /\ seen \in Seq(Address)
    /\ \A i \in DOMAIN seen : \E p \in ServerPorts : seen[i] = mapping[p]
    /\ Len(seen) <= 2
    /\ kind \in {"Unknown", "Cone", "Symmetric", Undecided}
    /\ copies \in Nat
    /\ SymmetricIsSo

\* Arithmetic, and an answer appended to one.
LEMMA BelowTwo == \A n \in Nat : n < 2 => n = 0 \/ n = 1
  OBVIOUS

LEMMA Two == \A n \in Nat : n <= 2 /\ ~(n < 2) => n = 2
  OBVIOUS

LEMMA Appended ==
    ASSUME NEW T, NEW s \in Seq(T), NEW e \in T
    PROVE  Len(Append(s, e)) = Len(s) + 1 /\ Append(s, e)[Len(s) + 1] = e
  BY AppendProperties

LEMMA AppendSecond ==
    ASSUME NEW T, NEW s \in Seq(T), NEW e \in T, Len(s) = 1
    PROVE  /\ Len(Append(s, e)) = 2
           /\ Append(s, e)[1] = s[1] /\ Append(s, e)[2] = e
<1>1. Len(s) + 1 = 2
  OBVIOUS
<1>2. Append(s, e)[1] = s[1]
  OBVIOUS
<1> QED BY <1>1, <1>2, Appended, Zenon

\* What the two verdicts tell of the answers.
LEMMA SymmetricUnequal ==
    ASSUME NEW s, Classify(s) = "Symmetric" PROVE ~(Len(s) < 2) /\ s[1] # s[2]
  BY Zenon DEF Classify

LEMMA ConeEqual ==
    ASSUME NEW s, Classify(s) = "Cone" PROVE ~(Len(s) < 2) /\ s[1] = s[2]
  BY Zenon DEF Classify

LEMMA SeenInit == Init => SeenIsMapped
  BY UndecidedAssumption DEF Init, SeenIsMapped, SymmetricIsSo

LEMMA SeenStep == SeenIsMapped /\ [Next]_vars => SeenIsMapped'
<1> SUFFICES ASSUME SeenIsMapped, [Next]_vars PROVE SeenIsMapped'
  OBVIOUS
<1> USE DEF SeenIsMapped
<1>1. ASSUME NEW p \in ServerPorts, Answer(p) \/ Lose(p) \/ Copy(p) PROVE SeenIsMapped'
  BY <1>1 DEF Answer, Lose, Copy, SymmetricIsSo, OneAddress
<1>2. ASSUME NEW p \in ServerPorts, Read(p) PROVE SeenIsMapped'
  <2>1. mapping[p] \in Address /\ UNCHANGED <<mapping, kind>> /\ Len(seen) < 2
    BY <1>2 DEF Read, Listening
  <2>2. seen' = Append(seen, mapping[p])
    BY <1>2 DEF Read
  <2>3. seen' \in Seq(Address) /\ Len(seen') <= 2
    BY <2>1, <2>2
  <2>4. \A i \in DOMAIN seen' : \E q \in ServerPorts : seen'[i] = mapping'[q]
    <3> SUFFICES ASSUME NEW i \in DOMAIN seen' PROVE \E q \in ServerPorts : seen'[i] = mapping[q]
      BY <2>1
    <3>1. CASE i = Len(seen) + 1
      BY <3>1, <2>1, <2>2
    <3>2. CASE i # Len(seen) + 1
      <4>1. i \in DOMAIN seen /\ seen'[i] = seen[i]
        BY <3>2, <2>1, <2>2
      <4> QED BY <4>1
    <3> QED BY <3>1, <3>2
  <2>5. SymmetricIsSo'
    BY <2>1 DEF SymmetricIsSo, OneAddress
  <2>6. copies' \in Nat
    BY <1>2 DEF Read
  <2> QED BY <2>1, <2>3, <2>4, <2>5, <2>6
<1>3. CASE Stop
  BY <1>3 DEF Stop, SymmetricIsSo, OneAddress
<1>4. CASE Decide
  <2>1. UNCHANGED <<mapping, seen>> /\ kind' = Classify(seen)
    BY <1>4 DEF Decide
  <2>2. kind' \in {"Unknown", "Cone", "Symmetric"}
    BY <2>1 DEF Classify
  <2>3. ASSUME kind' = "Symmetric" PROVE \E p, q \in ServerPorts : mapping[p] # mapping[q]
    <3>0. ~(Len(seen) < 2) /\ seen[1] # seen[2]
      <4>1. Classify(seen) = "Symmetric"
        BY ONLY <2>1, <2>3
      <4> QED BY ONLY <4>1, SymmetricUnequal
    <3>1. Len(seen) = 2
      <4>1. Len(seen) \in Nat /\ Len(seen) <= 2
        OBVIOUS
      <4> QED BY ONLY <3>0, <4>1, Two
    <3>2. 1 \in DOMAIN seen /\ 2 \in DOMAIN seen
      BY <3>1
    <3> QED BY <3>0, <3>2
  <2>4. SymmetricIsSo'
    BY <2>1, <2>3 DEF SymmetricIsSo, OneAddress
  <2>5. copies' \in Nat
    BY <1>4 DEF Decide
  <2> QED BY <2>1, <2>2, <2>4, <2>5
<1>5. CASE UNCHANGED vars
  BY <1>5 DEF vars, SymmetricIsSo, OneAddress
<1> QED BY <1>1, <1>2, <1>3, <1>4, <1>5 DEF Next

\* A client that takes itself for symmetric is.
THEOREM SymmetricIsSoHolds == Spec => []SymmetricIsSo
<1>1. SeenIsMapped => SymmetricIsSo
  BY DEF SeenIsMapped
<1> QED BY SeenInit, SeenStep, <1>1, PTL DEF Spec

----------------------------------------------------------------------------
(* As long as nothing has been copied *)

OnTheWay(p) == probes[p] + answers[p]

\* Nothing has been copied, and each port is heard once at most.
HeardOnce ==
    /\ copies = 0
    /\ probes \in [ServerPorts -> Nat] /\ answers \in [ServerPorts -> Nat]
    /\ seen = <<>> =>
         \A p \in ServerPorts : OnTheWay(p) <= 1
    /\ Len(seen) = 1 =>
         \E p, q \in ServerPorts :
           p # q /\ seen[1] = mapping[p] /\ OnTheWay(p) = 0 /\ OnTheWay(q) <= 1
    /\ Len(seen) = 2 =>
         \E p, q \in ServerPorts : p # q /\ seen[1] = mapping[p] /\ seen[2] = mapping[q]
    /\ ConeIsSo

LEMMA HeardInit == Init => HeardOnce
  BY UndecidedAssumption DEF Init, HeardOnce, ConeIsSo, OnTheWay

\* The verdict and the deadline leave the network alone.
LEMMA SameNetwork ==
    ASSUME HeardOnce, UNCHANGED <<mapping, probes, answers, copies, seen>>, ConeIsSo'
    PROVE  HeardOnce'
<1>1. \A p \in ServerPorts : OnTheWay(p)' = OnTheWay(p)
  BY DEF OnTheWay
<1> QED BY <1>1 DEF HeardOnce

\* Losing and answering leave no more on the way.
LEMMA FewerOnTheWay ==
    ASSUME SeenIsMapped, HeardOnce, copies' = 0, UNCHANGED <<mapping, seen, kind>>,
           probes' \in [ServerPorts -> Nat], answers' \in [ServerPorts -> Nat],
           \A p \in ServerPorts : OnTheWay(p)' <= OnTheWay(p)
    PROVE  HeardOnce'
<1>1. \A p \in ServerPorts : OnTheWay(p) \in Nat /\ OnTheWay(p)' \in Nat
  BY DEF HeardOnce, OnTheWay
<1>2. ConeIsSo'
  BY DEF HeardOnce, ConeIsSo, OneAddress
<1>3. (seen = <<>> => \A p \in ServerPorts : OnTheWay(p) <= 1)'
  BY <1>1 DEF HeardOnce
<1>4. (Len(seen) = 1 => \E p, q \in ServerPorts :
         p # q /\ seen[1] = mapping[p] /\ OnTheWay(p) = 0 /\ OnTheWay(q) <= 1)'
  <2> SUFFICES ASSUME Len(seen) = 1
               PROVE  \E p, q \in ServerPorts : p # q /\ seen[1] = mapping[p]
                                                  /\ OnTheWay(p)' = 0 /\ OnTheWay(q)' <= 1
    OBVIOUS
  <2>1. PICK p, q \in ServerPorts :
          p # q /\ seen[1] = mapping[p] /\ OnTheWay(p) = 0 /\ OnTheWay(q) <= 1
    BY DEF HeardOnce
  <2>2. OnTheWay(p)' = 0 /\ OnTheWay(q)' <= 1
    BY <1>1, <2>1
  <2> QED BY <2>1, <2>2
<1>5. (Len(seen) = 2 =>
         \E p, q \in ServerPorts : p # q /\ seen[1] = mapping[p] /\ seen[2] = mapping[q])'
  BY DEF HeardOnce
<1> QED BY <1>2, <1>3, <1>4, <1>5 DEF HeardOnce

LEMMA HeardStep ==
    SeenIsMapped /\ (copies = 0 => HeardOnce) /\ [Next]_vars => (copies = 0 => HeardOnce)'
<1> SUFFICES ASSUME SeenIsMapped, copies = 0 => HeardOnce, [Next]_vars, copies' = 0
             PROVE  HeardOnce'
  OBVIOUS
<1>1. ASSUME NEW p \in ServerPorts, Copy(p) PROVE FALSE
  BY <1>1 DEF Copy, SeenIsMapped
<1>2. copies = 0
  BY <1>1 DEF Next, Answer, Lose, Read, Stop, Decide, vars
<1>3. HeardOnce
  BY <1>2
<1>4. copies = 0 /\ probes \in [ServerPorts -> Nat] /\ answers \in [ServerPorts -> Nat]
  BY <1>3 DEF HeardOnce
<1>5. ASSUME NEW p \in ServerPorts, Answer(p) PROVE HeardOnce'
  <2>1. /\ probes' = [probes EXCEPT ![p] = @ - 1] /\ answers' = [answers EXCEPT ![p] = @ + 1]
        /\ UNCHANGED <<mapping, seen, kind, copies>> /\ probes[p] > 0
    BY <1>5 DEF Answer
  <2>2. probes' \in [ServerPorts -> Nat] /\ answers' \in [ServerPorts -> Nat]
    BY <1>4, <2>1
  <2>3. \A q \in ServerPorts : OnTheWay(q)' <= OnTheWay(q)
    BY <1>4, <2>1 DEF OnTheWay
  <2> QED BY <1>3, <1>4, <2>1, <2>2, <2>3, FewerOnTheWay
<1>6. ASSUME NEW p \in ServerPorts, Lose(p) PROVE HeardOnce'
  <2>1. /\ \/ probes[p] > 0 /\ probes' = [probes EXCEPT ![p] = @ - 1] /\ UNCHANGED answers
           \/ answers[p] > 0 /\ answers' = [answers EXCEPT ![p] = @ - 1] /\ UNCHANGED probes
        /\ UNCHANGED <<mapping, seen, kind, copies>>
    BY <1>6 DEF Lose
  <2>2. probes' \in [ServerPorts -> Nat] /\ answers' \in [ServerPorts -> Nat]
    BY <1>4, <2>1
  <2>3. \A q \in ServerPorts : OnTheWay(q)' <= OnTheWay(q)
    BY <1>4, <2>1 DEF OnTheWay
  <2> QED BY <1>3, <1>4, <2>1, <2>2, <2>3, FewerOnTheWay
<1>7. ASSUME NEW p \in ServerPorts, Read(p) PROVE HeardOnce'
  <2>1. /\ answers[p] > 0 /\ answers' = [answers EXCEPT ![p] = @ - 1]
        /\ seen' = Append(seen, mapping[p])
        /\ UNCHANGED <<mapping, probes, kind, copies>> /\ Len(seen) < 2 /\ kind = Undecided
    BY <1>7 DEF Read, Listening
  <2>2. seen \in Seq(Address) /\ mapping[p] \in Address
    BY DEF SeenIsMapped
  <2>3. answers' \in [ServerPorts -> Nat]
    BY <1>4, <2>1
  <2>4. ConeIsSo'
    BY <2>1, UndecidedAssumption DEF ConeIsSo
  <2>5. \A q \in ServerPorts : OnTheWay(q)' = IF q = p THEN OnTheWay(q) - 1 ELSE OnTheWay(q)
    BY <1>4, <2>1 DEF OnTheWay
  <2>6. \A q \in ServerPorts : OnTheWay(q) \in Nat
    BY <1>4 DEF OnTheWay
  <2>7. CASE Len(seen) = 0
    <3>1. seen = <<>>
      BY <2>2, <2>7
    <3>2. \A q \in ServerPorts : OnTheWay(q) <= 1
      BY <1>3, <3>1 DEF HeardOnce
    <3>3. PICK q \in ServerPorts : q # p
      BY DEF ServerPorts
    <3>4. Len(seen') = 1 /\ seen'[1] = mapping'[p] /\ seen' # <<>>
      BY <2>1, <2>2, <2>7
    <3>5. OnTheWay(p) > 0
      BY <1>4, <2>1 DEF OnTheWay
    <3>6. OnTheWay(p)' = 0 /\ OnTheWay(q)' <= 1
      BY <2>5, <2>6, <3>2, <3>3, <3>5
    <3> QED BY <1>4, <2>1, <2>3, <2>4, <3>3, <3>4, <3>6 DEF HeardOnce
  <2>8. CASE Len(seen) = 1
    <3>1. PICK a, b \in ServerPorts : a # b /\ seen[1] = mapping[a] /\ OnTheWay(a) = 0
      BY <1>3, <2>8 DEF HeardOnce
    <3>2. p # a
      BY <1>4, <2>1, <3>1 DEF OnTheWay
    <3>3. Len(seen') = 2 /\ seen'[1] = mapping'[a] /\ seen'[2] = mapping'[p] /\ seen' # <<>>
      <4>1. Len(seen') = 2 /\ seen'[1] = seen[1] /\ seen'[2] = mapping[p]
        BY ONLY <2>1, <2>2, <2>8, AppendSecond
      <4>2. seen' # <<>>
        BY <4>1
      <4> QED BY <2>1, <3>1, <4>1, <4>2
    <3>4. \E c, d \in ServerPorts : c # d /\ seen'[1] = mapping'[c] /\ seen'[2] = mapping'[d]
      BY <3>2, <3>3
    <3>5. ~(seen' = <<>>) /\ ~(Len(seen') = 1)
      BY <3>3
    <3>6. copies' = 0 /\ probes' \in [ServerPorts -> Nat]
      BY <1>4, <2>1
    <3> HIDE <2>8
    <3> QED BY <2>3, <2>4, <3>4, <3>5, <3>6 DEF HeardOnce
  <2>9. Len(seen) = 0 \/ Len(seen) = 1
    <3>1. Len(seen) \in Nat
      BY <2>2
    <3>2. Len(seen) < 2
      BY <2>1
    <3> QED BY ONLY <3>1, <3>2, BelowTwo
  <2> QED BY <2>7, <2>8, <2>9
<1>8. CASE Stop
  <2>1. ConeIsSo'
    BY <1>3, <1>8 DEF Stop, HeardOnce, ConeIsSo, OneAddress
  <2> QED BY <1>8, <2>1, <1>3, SameNetwork DEF Stop
<1>9. CASE Decide
  <2>1. UNCHANGED <<mapping, probes, answers, copies, seen>> /\ kind' = Classify(seen)
    BY <1>9 DEF Decide
  <2>2. ASSUME kind' = "Cone" PROVE OneAddress
    <3>0. Len(seen) \in Nat /\ Len(seen) <= 2
      BY DEF SeenIsMapped
    <3>9. ~(Len(seen) < 2) /\ seen[1] = seen[2]
      <4>1. Classify(seen) = "Cone"
        BY ONLY <2>1, <2>2
      <4> QED BY ONLY <4>1, ConeEqual
    <3>1. Len(seen) = 2
      BY ONLY <3>0, <3>9, Two
    <3>2. PICK p, q \in ServerPorts : p # q /\ seen[1] = mapping[p] /\ seen[2] = mapping[q]
      BY <1>3, <3>1 DEF HeardOnce
    <3>3. mapping[p] = mapping[q]
      BY <3>2, <3>9
    <3>4. \A r \in ServerPorts : r = p \/ r = q
      BY <3>2 DEF ServerPorts
    <3> QED BY <3>3, <3>4 DEF OneAddress
  <2>3. ConeIsSo'
    BY <2>1, <2>2 DEF ConeIsSo, OneAddress
  <2> QED BY <2>1, <2>3, <1>3, SameNetwork
<1>10. CASE UNCHANGED vars
  <2>1. ConeIsSo'
    BY <1>3, <1>10 DEF vars, HeardOnce, ConeIsSo, OneAddress
  <2> QED BY <1>10, <2>1, <1>3, SameNetwork DEF vars
<1> QED BY <1>1, <1>5, <1>6, <1>7, <1>8, <1>9, <1>10 DEF Next

\* A client that takes itself for a cone has one address, whatever is lost or
\* overtaken, if nothing was copied.
THEOREM ConeIsSoHolds == Spec => []ConeIsSo
<1> DEFINE Heard == copies = 0 => HeardOnce
<1>1. Init => SeenIsMapped /\ Heard
  BY SeenInit, HeardInit
<1>2. SeenIsMapped /\ Heard /\ [Next]_vars => (SeenIsMapped /\ Heard)'
  BY SeenStep, HeardStep
<1>3. Heard => ConeIsSo
  BY DEF HeardOnce, ConeIsSo
<1> HIDE DEF Heard
<1> QED BY <1>1, <1>2, <1>3, PTL DEF Spec
=============================================================================
