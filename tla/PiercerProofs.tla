---------------------------- MODULE PiercerProofs ----------------------------
(***************************************************************************)
(* What the server and its clients do together to one channel as long as   *)
(* no process crashes and no relay takes a peer that it watches for lost   *)
(* (Heeded, which HearingProofs shows): for every number of users and      *)
(* every order of everything that happens, Calm holds, and with it what    *)
(* PiercerProperties says of the roles, the tables and the mirroring.      *)
(*                                                                         *)
(* Each side decides by itself, so what is true once nothing is on its     *)
(* way is said of what is on its way as well: a client is, or will be      *)
(* told that it is, the relay; knows, or will be told of, its peer.        *)
(***************************************************************************)
EXTENDS PiercerProperties, SequenceTheorems, FiniteSetTheorems, TLAPS

----------------------------------------------------------------------------
(* Sequences of sets *)

IsSequence(s) == s \in Seq({s[i] : i \in DOMAIN s})

\* What is somewhere in s; m is in s, and o is after it.
Contents(s) == UNION {s[i] : i \in DOMAIN s}
InOrder(s, m, o) == \E i, j \in DOMAIN s : i < j /\ m \in s[i] /\ o \in s[j]

LEMMA SequenceHasLength ==
    ASSUME NEW s, IsSequence(s)
    PROVE  Len(s) \in Nat /\ DOMAIN s = 1 .. Len(s)
BY DEF IsSequence

LEMMA IsSequenceOf ==
    ASSUME NEW T, NEW s \in Seq(T)
    PROVE  IsSequence(s)
<1> DEFINE R == {s[i] : i \in DOMAIN s}
<1>1. Len(s) \in Nat /\ s \in [1 .. Len(s) -> T] /\ DOMAIN s = 1 .. Len(s)
  BY LenProperties
<1>2. s \in [1 .. Len(s) -> R]
  BY <1>1
<1> HIDE DEF R
<1>3. s \in Seq(R)
  BY <1>1, <1>2, SeqDef
<1> QED  BY <1>3 DEF IsSequence, R

\* w is s with t after it.
Joined(w, s, t) ==
    /\ \A i \in DOMAIN s : i \in DOMAIN w /\ w[i] = s[i]
    /\ \A j \in DOMAIN t : Len(s) + j \in DOMAIN w /\ w[Len(s) + j] = t[j]
    /\ \A i \in DOMAIN w : i \in DOMAIN s \/ \E j \in DOMAIN t : i = Len(s) + j

LEMMA JoinedSequences ==
    ASSUME NEW s, NEW t, IsSequence(s), IsSequence(t)
    PROVE  IsSequence(s \o t) /\ Joined(s \o t, s, t)
<1> DEFINE T == {s[i] : i \in DOMAIN s} \cup {t[i] : i \in DOMAIN t}
<1>1. s \in Seq(T) /\ t \in Seq(T)
  <2>1. /\ Len(s) \in Nat /\ DOMAIN s = 1 .. Len(s)
        /\ Len(t) \in Nat /\ DOMAIN t = 1 .. Len(t)
    BY SequenceHasLength
  <2>2. s \in [1 .. Len(s) -> {s[i] : i \in DOMAIN s}] /\ t \in [1 .. Len(t) -> {t[i] : i \in DOMAIN t}]
    BY LenProperties DEF IsSequence
  <2>3. s \in [1 .. Len(s) -> T] /\ t \in [1 .. Len(t) -> T]
    BY <2>2
  <2> HIDE DEF T
  <2> QED  BY <2>1, <2>3, SeqDef
<1> HIDE DEF T
<1>2. /\ Len(s) \in Nat /\ DOMAIN s = 1 .. Len(s)
      /\ Len(t) \in Nat /\ DOMAIN t = 1 .. Len(t)
  BY <1>1, LenProperties
<1>3. /\ s \o t \in Seq(T) /\ Len(s \o t) = Len(s) + Len(t)
      /\ \A i \in 1 .. Len(s) + Len(t) :
           (s \o t)[i] = IF i <= Len(s) THEN s[i] ELSE t[i - Len(s)]
  BY <1>1, ConcatProperties
<1>4. DOMAIN (s \o t) = 1 .. Len(s) + Len(t)
  BY <1>3, LenProperties
<1>5. \A i \in DOMAIN s : i \in DOMAIN (s \o t) /\ (s \o t)[i] = s[i]
  BY <1>2, <1>3, <1>4
<1>6. ASSUME NEW j \in DOMAIN t
      PROVE  Len(s) + j \in DOMAIN (s \o t) /\ (s \o t)[Len(s) + j] = t[j]
  <2>1. Len(s) + j \in 1 .. Len(s) + Len(t) /\ ~(Len(s) + j <= Len(s)) /\ (Len(s) + j) - Len(s) = j
    BY <1>2
  <2> QED  BY <1>3, <1>4, <2>1
<1>7. ASSUME NEW i \in DOMAIN (s \o t)
      PROVE  i \in DOMAIN s \/ \E j \in DOMAIN t : i = Len(s) + j
  <2>1. i \in 1 .. Len(s) \/ (i - Len(s) \in 1 .. Len(t) /\ i = Len(s) + (i - Len(s)))
    BY <1>2, <1>4
  <2> QED  BY <1>2, <2>1
<1>8. IsSequence(s \o t)
  BY <1>3, IsSequenceOf
<1> QED  BY <1>5, <1>6, <1>7, <1>8 DEF Joined

LEMMA JoinContents ==
    ASSUME NEW s, NEW t, IsSequence(s), IsSequence(t), NEW m
    PROVE  m \in Contents(s \o t) <=> m \in Contents(s) \/ m \in Contents(t)
<1> DEFINE w == s \o t
<1>1. Joined(w, s, t)
  BY JoinedSequences, Zenon
<1> HIDE DEF w
<1>2. m \in Contents(w) <=> m \in Contents(s) \/ m \in Contents(t)
  BY <1>1 DEF Joined, Contents
<1> QED  BY <1>2, Zenon DEF w

LEMMA JoinInOrder ==
    ASSUME NEW s, NEW t, IsSequence(s), IsSequence(t), NEW m, NEW o,
           \/ InOrder(s, m, o)
           \/ m \in Contents(s) /\ o \in Contents(t)
           \/ InOrder(t, m, o)
    PROVE  InOrder(s \o t, m, o)
<1> DEFINE w == s \o t
<1>1. Joined(w, s, t)
  BY JoinedSequences, Zenon
<1>2. /\ \A i \in DOMAIN s, j \in DOMAIN t : i < Len(s) + j
      /\ \A i, j \in DOMAIN t : i < j => Len(s) + i < Len(s) + j
  BY SequenceHasLength
<1> SUFFICES InOrder(w, m, o)
  OBVIOUS
<1> HIDE DEF w
<1>3. CASE InOrder(s, m, o)
  BY <1>1, <1>3 DEF Joined, InOrder
<1>4. CASE m \in Contents(s) /\ o \in Contents(t)
  <2>1. PICK i \in DOMAIN s, j \in DOMAIN t : m \in s[i] /\ o \in t[j]
    BY <1>4 DEF Contents
  <2>2. m \in w[i] /\ o \in w[Len(s) + j]
    BY <1>1, <2>1 DEF Joined
  <2>3. i \in DOMAIN w /\ Len(s) + j \in DOMAIN w /\ i < Len(s) + j
    BY <1>1, <1>2 DEF Joined
  <2> QED  BY <2>2, <2>3 DEF InOrder
<1>5. CASE InOrder(t, m, o)
  <2>1. PICK i \in DOMAIN t, j \in DOMAIN t : i < j /\ m \in t[i] /\ o \in t[j]
    BY <1>5 DEF InOrder
  <2>2. m \in w[Len(s) + i] /\ o \in w[Len(s) + j]
    BY <1>1, <2>1 DEF Joined
  <2>3. Len(s) + i \in DOMAIN w /\ Len(s) + j \in DOMAIN w /\ Len(s) + i < Len(s) + j
    BY <1>1, <1>2, <2>1 DEF Joined
  <2> QED  BY <2>2, <2>3 DEF InOrder
<1> QED  BY <1>3, <1>4, <1>5

\* A sequence without one member of its first element.
LEMMA TailOf ==
    ASSUME NEW s, IsSequence(s), s # <<>>
    PROVE  /\ IsSequence(Tail(s)) /\ 1 \in DOMAIN s
           /\ \A i \in DOMAIN Tail(s) : i + 1 \in DOMAIN s /\ Tail(s)[i] = s[i + 1]
           /\ \A i \in DOMAIN s : i # 1 => i - 1 \in DOMAIN Tail(s) /\ Tail(s)[i - 1] = s[i]
<1> DEFINE T == {s[i] : i \in DOMAIN s}
<1>1. s \in Seq(T)
  BY DEF IsSequence
<1> HIDE DEF T
<1>2. Len(s) \in Nat /\ DOMAIN s = 1 .. Len(s) /\ Len(s) # 0
  BY <1>1
<1>3. Tail(s) \in Seq(T) /\ DOMAIN Tail(s) = 1 .. Len(s) - 1
      /\ \A i \in 1 .. Len(s) - 1 : Tail(s)[i] = s[i + 1]
  BY <1>1, <1>2
<1>4. \A i \in 1 .. Len(s) : i # 1 => i - 1 \in 1 .. Len(s) - 1 /\ (i - 1) + 1 = i
  BY <1>2
<1>5. \A i \in 1 .. Len(s) - 1 : i + 1 \in 1 .. Len(s)
  BY <1>2
<1>6. IsSequence(Tail(s))
  BY <1>3, IsSequenceOf, Zenon
<1>7. 1 \in 1 .. Len(s)
  BY <1>2
<1> DEFINE w == Tail(s)
<1>8. DOMAIN w = 1 .. Len(s) - 1 /\ \A i \in 1 .. Len(s) - 1 : w[i] = s[i + 1]
  BY <1>3
<1> HIDE DEF w
<1>9. /\ \A i \in DOMAIN w : i + 1 \in DOMAIN s /\ w[i] = s[i + 1]
      /\ \A i \in DOMAIN s : i # 1 => i - 1 \in DOMAIN w /\ w[i - 1] = s[i]
  BY <1>2, <1>4, <1>5, <1>8
<1> QED  BY <1>2, <1>6, <1>7, <1>9, Zenon DEF w

\* t is s without m at its head: what was after something still is there.
Lessened(t, s, m) ==
    /\ IsSequence(t)
    /\ Contents(t) \subseteq Contents(s)
    /\ \A x \in Contents(s) : x # m => x \in Contents(t)
    /\ \A x, y : InOrder(s, x, y) => y \in Contents(t) /\ (x # m => InOrder(t, x, y))

LEMMA TailLessens ==
    ASSUME NEW s, IsSequence(s), s # <<>>, NEW m, s[1] = {m}
    PROVE  Lessened(Tail(s), s, m)
<1> DEFINE w == Tail(s)
<1>1. /\ IsSequence(w) /\ 1 \in DOMAIN s
      /\ \A i \in DOMAIN w : i + 1 \in DOMAIN s /\ w[i] = s[i + 1]
      /\ \A i \in DOMAIN s : i # 1 => i - 1 \in DOMAIN w /\ w[i - 1] = s[i]
  BY TailOf
<1> HIDE DEF w
<1>2. DOMAIN s = 1 .. Len(s) /\ Len(s) \in Nat
  BY SequenceHasLength
<1>3. \A i \in DOMAIN s : \A x \in s[i] : i # 1 => x \in Contents(w)
  BY <1>1 DEF Contents
<1>4. Contents(w) \subseteq Contents(s)
  BY <1>1 DEF Contents
<1>5. ASSUME NEW x \in Contents(s), x # m
      PROVE  x \in Contents(w)
  <2>1. PICK i \in DOMAIN s : x \in s[i]
    BY DEF Contents
  <2>2. i # 1
    BY <1>5, <2>1
  <2> QED  BY <1>3, <2>1, <2>2
<1>6. ASSUME NEW x, NEW y, InOrder(s, x, y)
      PROVE  y \in Contents(w) /\ (x # m => InOrder(w, x, y))
  <2>1. PICK i \in DOMAIN s, j \in DOMAIN s : i < j /\ x \in s[i] /\ y \in s[j]
    BY <1>6 DEF InOrder
  <2>2. j # 1
    BY <1>2, <2>1
  <2>3. y \in Contents(w)
    BY <1>3, <2>1, <2>2
  <2>4. ASSUME x # m
        PROVE  InOrder(w, x, y)
    <3>1. i # 1
      BY <2>1, <2>4
    <3>2. i - 1 \in DOMAIN w /\ j - 1 \in DOMAIN w /\ i - 1 < j - 1
      BY <1>1, <1>2, <2>1, <2>2, <3>1
    <3>3. x \in w[i - 1] /\ y \in w[j - 1]
      BY <1>1, <2>1, <2>2, <3>1
    <3> QED  BY <3>2, <3>3 DEF InOrder
  <2> QED  BY <2>3, <2>4
<1>7. Lessened(w, s, m)
  BY <1>1, <1>4, <1>5, <1>6 DEF Lessened
<1> QED  BY <1>7 DEF w

LEMMA HeadLessens ==
    ASSUME NEW s, IsSequence(s), s # <<>>, NEW m
    PROVE  Lessened([s EXCEPT ![1] = @ \ {m}], s, m)
<1> DEFINE w == [s EXCEPT ![1] = @ \ {m}]
<1>1. DOMAIN s = 1 .. Len(s) /\ Len(s) \in Nat /\ 1 \in DOMAIN s
  BY SequenceHasLength, TailOf
<1>2. /\ w = [i \in 1 .. Len(s) |-> IF i = 1 THEN s[1] \ {m} ELSE s[i]]
  <2>1. s \in [1 .. Len(s) -> {s[i] : i \in DOMAIN s}]
    BY LenProperties DEF IsSequence
  <2> QED  BY <1>1, <2>1
<1>3. IsSequence(w)
  <2> DEFINE T == {s[i] : i \in DOMAIN s} \cup {s[1] \ {m}}
  <2>1. w \in [1 .. Len(s) -> T]
    BY <1>1, <1>2
  <2> HIDE DEF T, w
  <2>2. w \in Seq(T)
    BY <1>1, <2>1, SeqDef
  <2> QED  BY <2>2, IsSequenceOf, Zenon
<1>4. DOMAIN w = DOMAIN s /\ w[1] = s[1] \ {m} /\ \A i \in DOMAIN s : i # 1 => w[i] = s[i]
  BY <1>1, <1>2
<1> HIDE DEF w
<1>5. Contents(w) \subseteq Contents(s)
  BY <1>4 DEF Contents
<1>6. \A i \in DOMAIN s : \A x \in s[i] : i # 1 \/ x # m => x \in w[i] /\ x \in Contents(w)
  BY <1>4 DEF Contents
<1>7. \A x \in Contents(s) : x # m => x \in Contents(w)
  BY <1>6 DEF Contents
<1>8. ASSUME NEW x, NEW y, InOrder(s, x, y)
      PROVE  y \in Contents(w) /\ (x # m => InOrder(w, x, y))
  <2>1. PICK i \in DOMAIN s, j \in DOMAIN s : i < j /\ x \in s[i] /\ y \in s[j]
    BY <1>8 DEF InOrder
  <2>2. j # 1
    BY <1>1, <2>1
  <2>3. y \in w[j] /\ y \in Contents(w)
    BY <1>6, <2>1, <2>2
  <2>4. x # m => x \in w[i]
    BY <1>6, <2>1
  <2> QED  BY <1>4, <2>1, <2>3, <2>4 DEF InOrder
<1>9. Lessened(w, s, m)
  BY <1>3, <1>5, <1>7, <1>8 DEF Lessened
<1> QED  BY <1>9 DEF w

----------------------------------------------------------------------------
(* The packets of one step on their way *)

LEMMA BatchFacts ==
    ASSUME NEW from, NEW to, NEW packets, NEW types
    PROVE  /\ IsSequence(Batch(from, to, packets, types))
           /\ \A x : x \in Contents(Batch(from, to, packets, types)) <=>
                \E p \in packets : x = <<from, p>> /\ p.to = to /\ p.type \in types
                                     /\ Arrives(from, to)
<1> DEFINE sent == {p \in packets : p.to = to /\ p.type \in types /\ Arrives(from, to)}
           B    == IF sent = {} THEN <<>> ELSE << {from} \X sent >>
<1>1. Batch(from, to, packets, types) = B
  BY DEF Batch
<1>2. IsSequence(B) /\ Contents(B) = {from} \X sent
  <2> HIDE DEF sent
  <2>1. CASE sent = {}
    <3>1. <<>> \in Seq({}) /\ Contents(<<>>) = {}
      BY DEF Contents
    <3> QED  BY <2>1, <3>1, IsSequenceOf
  <2>2. CASE sent # {}
    <3> DEFINE t == {from} \X sent
               w == << t >>
    <3>1. w \in Seq({t}) /\ DOMAIN w = {1} /\ w[1] = t
      <4> HIDE DEF t
      <4> QED  OBVIOUS
    <3>2. IsSequence(w)
      BY <3>1, IsSequenceOf
    <3>3. Contents(w) = t
      BY <3>1 DEF Contents
    <3> QED  BY <2>2, <3>2, <3>3
  <2> QED  BY <2>1, <2>2
<1> HIDE DEF B
<1>3. \A x : x \in {from} \X sent <=> \E p \in sent : x = <<from, p>>
  <2> HIDE DEF sent
  <2> QED  BY SMT
<1> QED  BY <1>1, <1>2, <1>3

PacketTypes == {"USER_LEFT", "MODE DIRECT", "MODE RELAY", "MODE SERVER_RELAY"} \cup Others

\* What is sent is on its way, MODE RELAY before MODE SERVER_RELAY.
Packed(s, from, to, packets) ==
    /\ IsSequence(s)
    /\ \A x \in Contents(s) : \E p \in packets : x = <<from, p>> /\ p.to = to /\ Arrives(from, to)
    /\ \A p \in packets :
         p.to = to /\ p.type \in PacketTypes /\ Arrives(from, to) => <<from, p>> \in Contents(s)
    /\ \A p, q \in packets :
         p.to = to /\ p.type = "MODE RELAY" /\ q.to = to /\ q.type = "MODE SERVER_RELAY"
           /\ Arrives(from, to)
         => InOrder(s, <<from, p>>, <<from, q>>)

LEMMA BatchesFacts ==
    ASSUME NEW from, NEW to, NEW packets
    PROVE  Packed(Batches(from, to, packets), from, to, packets)
<1> DEFINE a == Batch(from, to, packets, {"USER_LEFT"})
           b == Batch(from, to, packets, {"MODE DIRECT"})
           c == Batch(from, to, packets, {"MODE RELAY"})
           d == Batch(from, to, packets, {"MODE SERVER_RELAY"})
           e == Batch(from, to, packets, Others)
           ab == a \o b
           abc == ab \o c
           abcd == abc \o d
           w == abcd \o e
           In(x, types) == \E p \in packets : x = <<from, p>> /\ p.to = to /\ p.type \in types
                                                /\ Arrives(from, to)
<1>1. /\ IsSequence(a) /\ \A x : x \in Contents(a) <=> In(x, {"USER_LEFT"})
      /\ IsSequence(b) /\ \A x : x \in Contents(b) <=> In(x, {"MODE DIRECT"})
      /\ IsSequence(c) /\ \A x : x \in Contents(c) <=> In(x, {"MODE RELAY"})
      /\ IsSequence(d) /\ \A x : x \in Contents(d) <=> In(x, {"MODE SERVER_RELAY"})
      /\ IsSequence(e) /\ \A x : x \in Contents(e) <=> In(x, Others)
  BY BatchFacts
<1> HIDE DEF a, b, c, d, e
<1>2. IsSequence(ab) /\ \A x : x \in Contents(ab) <=> x \in Contents(a) \/ x \in Contents(b)
  BY <1>1, JoinedSequences, JoinContents
<1> HIDE DEF ab
<1>3. IsSequence(abc) /\ \A x : x \in Contents(abc) <=> x \in Contents(ab) \/ x \in Contents(c)
  BY <1>1, <1>2, JoinedSequences, JoinContents
<1> HIDE DEF abc
<1>4. IsSequence(abcd) /\ \A x : x \in Contents(abcd) <=> x \in Contents(abc) \/ x \in Contents(d)
  BY <1>1, <1>3, JoinedSequences, JoinContents
<1>5. \A x, y : x \in Contents(abc) /\ y \in Contents(d) => InOrder(abcd, x, y)
  BY <1>1, <1>3, JoinInOrder
<1> HIDE DEF abcd
<1>6. IsSequence(w) /\ \A x : x \in Contents(w) <=> x \in Contents(abcd) \/ x \in Contents(e)
  BY <1>1, <1>4, JoinedSequences, JoinContents
<1>7. \A x, y : InOrder(abcd, x, y) => InOrder(w, x, y)
  BY <1>1, <1>4, JoinInOrder
<1> HIDE DEF w
<1>8. \A x \in Contents(w) : \E p \in packets : x = <<from, p>> /\ p.to = to /\ Arrives(from, to)
  <2> TAKE x \in Contents(w)
  <2>1. \/ x \in Contents(a) \/ x \in Contents(b) \/ x \in Contents(c)
        \/ x \in Contents(d) \/ x \in Contents(e)
    BY <1>2, <1>3, <1>4, <1>6, Zenon
  <2>2. \A types : In(x, types) => \E p \in packets : x = <<from, p>> /\ p.to = to /\ Arrives(from, to)
    OBVIOUS
  <2> HIDE DEF In
  <2>3. \E types : In(x, types)
    BY <1>1, <2>1, Zenon
  <2> QED  BY <2>2, <2>3, Zenon
<1>9. ASSUME NEW p \in packets, p.to = to, p.type \in PacketTypes, Arrives(from, to)
      PROVE  <<from, p>> \in Contents(w)
  <2>1. \/ In(<<from, p>>, {"USER_LEFT"}) \/ In(<<from, p>>, {"MODE DIRECT"})
        \/ In(<<from, p>>, {"MODE RELAY"}) \/ In(<<from, p>>, {"MODE SERVER_RELAY"})
        \/ In(<<from, p>>, Others)
    BY <1>9 DEF PacketTypes
  <2> HIDE DEF In
  <2> QED  BY <1>1, <1>2, <1>3, <1>4, <1>6, <2>1
<1>10. ASSUME NEW p \in packets, NEW q \in packets, p.to = to, p.type = "MODE RELAY",
              q.to = to, q.type = "MODE SERVER_RELAY", Arrives(from, to)
       PROVE  InOrder(w, <<from, p>>, <<from, q>>)
  <2>1. In(<<from, p>>, {"MODE RELAY"}) /\ In(<<from, q>>, {"MODE SERVER_RELAY"})
    BY <1>10
  <2> HIDE DEF In
  <2>2. <<from, p>> \in Contents(abc) /\ <<from, q>> \in Contents(d)
    BY <1>1, <1>3, <2>1
  <2> QED  BY <1>5, <1>7, <2>2
<1>11. Packed(w, from, to, packets)
  BY <1>6, <1>8, <1>9, <1>10 DEF Packed
<1> QED  BY <1>11 DEF w, abcd, abc, ab, a, b, c, d, e, Batches

\* t is s without what is gone from its head, and with the packets at its end.
MovedAt(s, t, b, gone, from, packets) ==
    /\ IsSequence(t)
    /\ \A x \in Contents(t) :
         x \in Contents(s) \/ \E p \in packets : x = <<from, p>> /\ p.to = b /\ Arrives(from, b)
    /\ \A x \in Contents(s) : x \notin gone => x \in Contents(t)
    /\ \A x, y : InOrder(s, x, y) => y \in Contents(t) /\ (x \notin gone => InOrder(t, x, y))
    /\ \A p \in packets :
         p.to = b /\ p.type \in PacketTypes /\ Arrives(from, b)
         => /\ <<from, p>> \in Contents(t)
            /\ \A x \in Contents(s) : x \notin gone => InOrder(t, x, <<from, p>>)
    /\ \A p, q \in packets :
         p.to = b /\ p.type = "MODE RELAY" /\ q.to = b /\ q.type = "MODE SERVER_RELAY"
           /\ Arrives(from, b)
         => InOrder(t, <<from, p>>, <<from, q>>)

\* From one state of the network to another.
Moved(old, new, taken, from, packets) ==
    /\ DOMAIN new = DOMAIN old
    /\ \A b \in DOMAIN old :
         MovedAt(old[b], new[b], b, {x \in Contents(old[b]) : <<b, x>> \in taken}, from, packets)

\* t is s without what is gone.
Rest(t, s, gone) ==
    /\ IsSequence(t)
    /\ Contents(t) \subseteq Contents(s)
    /\ \A x \in Contents(s) : x \notin gone => x \in Contents(t)
    /\ \A x, y : InOrder(s, x, y) => y \in Contents(t) /\ (x \notin gone => InOrder(t, x, y))

LEMMA NothingGone ==
    ASSUME NEW s, IsSequence(s)
    PROVE  Rest(s, s, {})
<1>1. \A x, y : InOrder(s, x, y) => y \in Contents(s)
  BY DEF InOrder, Contents
<1> QED  BY <1>1 DEF Rest

LEMMA RestMoves ==
    ASSUME NEW s, NEW w, NEW b, NEW gone, NEW from, NEW packets, Rest(w, s, gone)
    PROVE  MovedAt(s, w \o Batches(from, b, packets), b, gone, from, packets)
<1> DEFINE p == Batches(from, b, packets)
           t == w \o p
<1>1. Packed(p, from, b, packets)
  BY BatchesFacts
<1> HIDE DEF p
<1>2. IsSequence(w) /\ IsSequence(p)
  BY <1>1 DEF Rest, Packed
<1>3. /\ IsSequence(t)
      /\ \A x : x \in Contents(t) <=> x \in Contents(w) \/ x \in Contents(p)
  BY <1>2, JoinedSequences, JoinContents
<1>4. /\ \A x, y : InOrder(w, x, y) => InOrder(t, x, y)
      /\ \A x, y : x \in Contents(w) /\ y \in Contents(p) => InOrder(t, x, y)
      /\ \A x, y : InOrder(p, x, y) => InOrder(t, x, y)
  BY <1>2, JoinInOrder
<1> HIDE DEF t
<1>5. \A x \in Contents(t) :
        x \in Contents(s) \/ \E q \in packets : x = <<from, q>> /\ q.to = b /\ Arrives(from, b)
  BY <1>1, <1>3 DEF Rest, Packed
<1>6. \A x \in Contents(s) : x \notin gone => x \in Contents(t)
  BY <1>3 DEF Rest
<1>7. \A x, y : InOrder(s, x, y) => y \in Contents(t) /\ (x \notin gone => InOrder(t, x, y))
  BY <1>3, <1>4 DEF Rest
<1>8. \A q \in packets :
        q.to = b /\ q.type \in PacketTypes /\ Arrives(from, b)
        => /\ <<from, q>> \in Contents(t)
           /\ \A x \in Contents(s) : x \notin gone => InOrder(t, x, <<from, q>>)
  BY <1>1, <1>3, <1>4 DEF Rest, Packed
<1>9. \A r, q \in packets :
        r.to = b /\ r.type = "MODE RELAY" /\ q.to = b /\ q.type = "MODE SERVER_RELAY"
          /\ Arrives(from, b)
        => InOrder(t, <<from, r>>, <<from, q>>)
  BY <1>1, <1>4 DEF Packed
<1>10. MovedAt(s, t, b, gone, from, packets)
  BY <1>3, <1>5, <1>6, <1>7, <1>8, <1>9 DEF MovedAt
<1> QED  BY <1>10 DEF t, p

\* Nothing is sent.
LEMMA RestStays ==
    ASSUME NEW s, NEW w, NEW b, NEW gone, NEW from, Rest(w, s, gone)
    PROVE  MovedAt(s, w, b, gone, from, {})
BY DEF Rest, MovedAt

\* The network is a sequence of sets for each address.
Sequences == \A b \in DOMAIN net : IsSequence(net[b])

LEMMA CarriedMoves ==
    ASSUME Sequences, NEW from, NEW packets, net' = Carried(net, from, packets)
    PROVE  Moved(net, net', {}, from, packets)
<1>1. DOMAIN net' = DOMAIN net /\ \A b \in DOMAIN net : net'[b] = net[b] \o Batches(from, b, packets)
  BY DEF Carried
<1>2. ASSUME NEW b \in DOMAIN net
      PROVE  MovedAt(net[b], net'[b], b, {x \in Contents(net[b]) : <<b, x>> \in {}}, from, packets)
  <2>1. MovedAt(net[b], net[b] \o Batches(from, b, packets), b, {}, from, packets)
    BY NothingGone, RestMoves DEF Sequences
  <2>2. {x \in Contents(net[b]) : <<b, x>> \in {}} = {}
    OBVIOUS
  <2> QED  BY <1>1, <2>1, <2>2
<1> QED  BY <1>1, <1>2 DEF Moved

\* What is left of the network once m has arrived at a.
LEMMA WithoutRests ==
    ASSUME Sequences, NEW a \in DOMAIN net, NEW m \in Arriving(a)
    PROVE  /\ DOMAIN Without(a, m) = DOMAIN net /\ m \in Contents(net[a])
           /\ \A b \in DOMAIN net :
                Rest(Without(a, m)[b], net[b],
                     {x \in Contents(net[b]) : <<b, x>> \in {<<a, m>>}})
<1> DEFINE t == TakeFirst(net[a], m)
<1>1. net[a] # <<>> /\ m \in net[a][1] /\ IsSequence(net[a])
  BY DEF Arriving, Sequences
<1>2. m \in Contents(net[a])
  BY <1>1, TailOf DEF Contents
<1>3. Lessened(t, net[a], m)
  BY <1>1, TailLessens, HeadLessens DEF TakeFirst
<1>4. /\ DOMAIN Without(a, m) = DOMAIN net
      /\ \A b \in DOMAIN net : Without(a, m)[b] = IF b = a THEN t ELSE net[b]
  <2>1. Without(a, m) = [net EXCEPT ![a] = t]
    BY DEF Without
  <2> HIDE DEF t
  <2> QED  BY <2>1
<1> HIDE DEF t
<1>5. ASSUME NEW b \in DOMAIN net
      PROVE  Rest(Without(a, m)[b], net[b], {x \in Contents(net[b]) : <<b, x>> \in {<<a, m>>}})
  <2>1. CASE b = a
    <3>1. {x \in Contents(net[b]) : <<b, x>> \in {<<a, m>>}} = {m}
      BY <1>2, <2>1
    <3>2. Rest(t, net[a], {m})
      BY <1>3 DEF Rest, Lessened
    <3> QED  BY <1>4, <2>1, <3>1, <3>2
  <2>2. CASE b # a
    <3>1. {x \in Contents(net[b]) : <<b, x>> \in {<<a, m>>}} = {}
      BY <2>2
    <3> QED  BY <1>4, <2>2, <3>1, NothingGone DEF Sequences
  <2> QED  BY <2>1, <2>2
<1> QED  BY <1>2, <1>4, <1>5

LEMMA AnswerMoves ==
    ASSUME Sequences, NEW a \in DOMAIN net, NEW m \in Arriving(a), NEW from, NEW packets,
           net' = Carried(Without(a, m), from, packets)
    PROVE  Moved(net, net', {<<a, m>>}, from, packets)
<1> DEFINE N == Without(a, m)
<1>1. /\ DOMAIN N = DOMAIN net
      /\ \A b \in DOMAIN net : Rest(N[b], net[b], {x \in Contents(net[b]) : <<b, x>> \in {<<a, m>>}})
  BY WithoutRests
<1>2. net' = Carried(N, from, packets)
  OBVIOUS
<1> HIDE DEF N
<1>3. DOMAIN net' = DOMAIN net /\ \A b \in DOMAIN net : net'[b] = N[b] \o Batches(from, b, packets)
  BY <1>1, <1>2 DEF Carried
<1>4. ASSUME NEW b \in DOMAIN net
      PROVE  MovedAt(net[b], net'[b], b, {x \in Contents(net[b]) : <<b, x>> \in {<<a, m>>}}, from, packets)
  BY <1>1, <1>3, RestMoves
<1> QED  BY <1>3, <1>4 DEF Moved

LEMMA WithoutMoves ==
    ASSUME Sequences, NEW a \in DOMAIN net, NEW m \in Arriving(a), NEW from,
           net' = Without(a, m)
    PROVE  Moved(net, net', {<<a, m>>}, from, {})
<1>1. /\ DOMAIN net' = DOMAIN net
      /\ \A b \in DOMAIN net : Rest(net'[b], net[b], {x \in Contents(net[b]) : <<b, x>> \in {<<a, m>>}})
  BY WithoutRests
<1> QED  BY <1>1, RestStays DEF Moved

LEMMA NothingMoves ==
    ASSUME Sequences, NEW from, net' = net
    PROVE  Moved(net, net', {}, from, {})
<1>1. ASSUME NEW b \in DOMAIN net
      PROVE  MovedAt(net[b], net[b], b, {x \in Contents(net[b]) : <<b, x>> \in {}}, from, {})
  <2>1. {x \in Contents(net[b]) : <<b, x>> \in {}} = {}
    OBVIOUS
  <2> QED  BY <2>1, NothingGone, RestStays DEF Sequences
<1> QED  BY <1>1 DEF Moved

----------------------------------------------------------------------------
(* The inductive invariant of a world without crashes *)

StateTypes ==
    /\ clients \in [Names -> Process \cup {None}]
    /\ DOMAIN net = Addrs \cup {Server} /\ Sequences
    /\ DOMAIN st \subseteq S!Keys /\ st \in [DOMAIN st -> S!Channel]

\* Every process that was started runs, each at an address of its own.
Processes ==
    /\ IsFiniteSet(Running) /\ starts = Cardinality(Running)
    /\ \A n, o \in Running : clients[n].addr = clients[o].addr => n = o

\* The users of a channel are clients that run.
Members ==
    \A k \in DOMAIN st :
        /\ st[k].users # {}
        /\ \A u \in st[k].users :
             /\ Beating(u) /\ ~u.silent /\ u.peer_id < st[k].next_peer_id
             /\ u.nat_kind = "Symmetric" => u.needs_server_relay
        /\ \A u, v \in st[k].users : u.peer_id = v.peer_id \/ u.name = v.name => u = v

\* The main task has seen the channel as it is, and the heartbeat has nobody
\* to take leave of.
Tasks ==
    /\ main \in {"recv", "notify"}
    /\ main = "notify" =>
         notifyKey \in DOMAIN st /\ snapshot = st[notifyKey].users /\ ~S!Lone(snapshot)
    /\ hb \in {"tick", "collect"} /\ unvisited \subseteq DOMAIN st /\ toCleanup = {}
    /\ \A p \in notes : p.type \in {"PING", "MODE SERVER_RELAY"}

MemberAt(a) == \E k \in DOMAIN st : \E u \in st[k].users : u.addr = a

\* What is on its way to a is true.
Proper(a, m) ==
    /\ m[2].type \notin {"USER_LEFT", "PEER_TIMEOUT"}
    /\ m[2].type = "CONNECT" =>
         m[2].name \in Running /\ clients[m[2].name].addr = m[1] /\ m[2].nat \in NatKinds
    /\ m[2].type = "MODE DIRECT" => m[2].name \in Running /\ clients[m[2].name].addr = m[2].addr
    /\ m[2].type = "MODE RELAY" => MemberAt(a)

Mail == \A a \in DOMAIN net : \A m \in Contents(net[a]) : Proper(a, m)

\* The entries of a table are of clients that run, at the addresses they are at.
Tables ==
    \A n \in Running :
        /\ \A p \in clients[n].peers : Answering(p)
        /\ clients[n].is_relay => MemberAt(clients[n].addr)

\* n is the relay, or will hear of it; has o in its table, or will hear of
\* it; mirrors to the server, or will once it has heard what is on its way.
Told(n) ==
    \/ clients[n].is_relay
    \/ \E m \in Contents(net[clients[n].addr]) : m[2].type = "MODE RELAY"

Knows(n, o) ==
    \/ \E p \in clients[n].peers : p.username = o /\ p.addr = clients[o].addr
    \/ \E m \in Contents(net[clients[n].addr]) :
         m[2].type = "MODE DIRECT" /\ m[2].name = o /\ m[2].addr = clients[o].addr

ServedOther(n, m) == m[2].type = "MODE SERVER_RELAY" /\ m[2].name # n

WillMirror(n) ==
    \/ clients[n].channel_has_server_relays
    \/ \E o \in Contents(net[clients[n].addr]) :
         /\ ServedOther(n, o)
         /\ \/ clients[n].is_relay
            \/ \E m \in Contents(net[clients[n].addr]) :
                 m[2].type = "MODE RELAY" /\ InOrder(net[clients[n].addr], m, o)

\* The relay on record is the first who can be one, and nobody else who can
\* be one has been told so.
Roles ==
    \A k \in DOMAIN st :
        /\ st[k].relay # None => \E u \in st[k].users : st[k].relay = u.name
        /\ \A u \in st[k].users :
             /\ st[k].relay = u.name => Told(u.name)
             /\ Told(u.name) /\ S!Eligible(u) =>
                  /\ st[k].relay = u.name
                  /\ \A v \in S!EligibleUsers(st[k].users) : u.peer_id <= v.peer_id
             /\ st[k].users = {u} /\ ~u.needs_server_relay => st[k].relay = u.name

\* A member and the relay, once the join of the last member is announced.
Pairs ==
    \A k \in DOMAIN st : ~(main = "notify" /\ notifyKey = k) =>
        \A r, u \in st[k].users :
            st[k].relay = r.name /\ u # r =>
                IF u.needs_server_relay THEN WillMirror(r.name)
                ELSE Knows(r.name, u.name) /\ Knows(u.name, r.name)

Calm ==
    /\ StateTypes /\ Processes /\ Members /\ Tasks
    /\ Mail /\ Tables /\ Roles /\ Pairs

\* No peer that a relay watches is overdue.
Heeded ==
    \A n \in Running : clients[n].is_relay => \A p \in Watched(clients[n].peers) : ~p.overdue

OneChannel == \A k, q \in S!Keys : k = q

----------------------------------------------------------------------------
(* What a step leaves alone *)

\* Who ran runs, at the same address.
Steady == \A n \in Running : n \in Running' /\ clients'[n].addr = clients[n].addr

LEMMA RunningProcess ==
    ASSUME StateTypes, NEW n \in Running
    PROVE  /\ n \in Names /\ clients[n] \in Process
           /\ clients[n].addr \in Addrs /\ clients[n].addr \in DOMAIN net
<1>1. n \in Names /\ clients[n] \in Process
  BY DEF StateTypes, Running
<1>2. clients[n].addr \in Addrs
  BY <1>1 DEF Process
<1> QED  BY <1>1, <1>2 DEF StateTypes

\* A client that does nothing, and to whom nothing arrives.
LEMMA Unmoved ==
    ASSUME StateTypes, NEW n \in Running, clients'[n] = clients[n],
           NEW taken, NEW from, NEW packets, Moved(net, net', taken, from, packets),
           \A x : <<clients[n].addr, x>> \notin taken
    PROVE  /\ Told(n) => Told(n)'
           /\ Told(n)' => Told(n) \/ \E p \in packets : p.to = clients[n].addr /\ p.type = "MODE RELAY"
           /\ \A o : clients'[o].addr = clients[o].addr /\ Knows(n, o) => Knows(n, o)'
           /\ WillMirror(n) => WillMirror(n)'
<1> DEFINE a == clients[n].addr
           s == net[a]
           t == net'[a]
<1>1. MovedAt(s, t, a, {}, from, packets)
  <2>1. {x \in Contents(net[a]) : <<a, x>> \in taken} = {}
    OBVIOUS
  <2> QED  BY <2>1, RunningProcess DEF Moved
<1>2. clients'[n].addr = a
  OBVIOUS
<1> HIDE DEF a, s, t
<1>3. /\ \A x \in Contents(s) : x \in Contents(t)
      /\ \A x \in Contents(t) : x \in Contents(s) \/ \E p \in packets : x = <<from, p>> /\ p.to = a
      /\ \A x, y : InOrder(s, x, y) => InOrder(t, x, y)
  BY <1>1 DEF MovedAt
<1>4. /\ Told(n) <=> clients[n].is_relay \/ \E m \in Contents(s) : m[2].type = "MODE RELAY"
      /\ Told(n)' <=> clients[n].is_relay \/ \E m \in Contents(t) : m[2].type = "MODE RELAY"
  BY DEF Told, a, s, t
<1>5. Told(n) => Told(n)'
  BY <1>3, <1>4
<1>6. Told(n)' => Told(n) \/ \E p \in packets : p.to = a /\ p.type = "MODE RELAY"
  <2> SUFFICES ASSUME NEW m \in Contents(t), m[2].type = "MODE RELAY", m \notin Contents(s)
               PROVE  \E p \in packets : p.to = a /\ p.type = "MODE RELAY"
    BY <1>4
  <2>1. PICK p \in packets : m = <<from, p>> /\ p.to = a
    BY <1>3
  <2>2. p.type = "MODE RELAY"
    BY <2>1
  <2> QED  BY <2>1, <2>2
<1>7. ASSUME NEW o, clients'[o].addr = clients[o].addr, Knows(n, o)
      PROVE  Knows(n, o)'
  BY <1>3, <1>7 DEF Knows, a, s, t
<1>8. ASSUME WillMirror(n)
      PROVE  WillMirror(n)'
  BY <1>3, <1>8 DEF WillMirror, a, s, t
<1> QED  BY <1>5, <1>6, <1>7, <1>8 DEF a

LEMMA MailNext ==
    ASSUME Mail, Steady, NEW taken, NEW from, NEW packets, Moved(net, net', taken, from, packets),
           \A a : MemberAt(a) => MemberAt(a)',
           \A p \in packets : p.to \in DOMAIN net => Proper(p.to, <<from, p>>)'
    PROVE  Mail'
<1> SUFFICES ASSUME NEW a \in DOMAIN net', NEW m \in Contents(net'[a])
             PROVE  Proper(a, m)'
  BY DEF Mail
<1>1. a \in DOMAIN net /\ MovedAt(net[a], net'[a], a, {x \in Contents(net[a]) : <<a, x>> \in taken}, from, packets)
  BY DEF Moved
<1>2. m \in Contents(net[a]) \/ \E p \in packets : m = <<from, p>> /\ p.to = a
  BY <1>1 DEF MovedAt
<1>3. CASE m \in Contents(net[a])
  <2>1. Proper(a, m)
    BY <1>1, <1>3 DEF Mail
  <2> QED  BY <2>1 DEF Proper, Steady
<1>4. CASE \E p \in packets : m = <<from, p>> /\ p.to = a
  BY <1>1, <1>4
<1> QED  BY <1>2, <1>3, <1>4

----------------------------------------------------------------------------
(* Steps of a client *)

Chat == {"PING", "PONG", "HOLE_PUNCH", "DATA", "REQUEST_RELAY"}

\* Client n becomes d on hearing what is taken: it forgets nothing, and takes
\* notice of what it has heard.
Minds(n, d, taken) ==
    /\ d \in Process /\ d.addr = clients[n].addr
    /\ \A p \in d.peers : Answering(p)
    /\ \A p \in clients[n].peers : \E q \in d.peers : q.username = p.username /\ q.addr = p.addr
    /\ clients[n].is_relay => d.is_relay
    /\ clients[n].channel_has_server_relays => d.channel_has_server_relays
    /\ d.is_relay => \/ clients[n].is_relay
                     \/ \E m \in Contents(net[d.addr]) : m[2].type = "MODE RELAY"
    /\ \A b, m : <<b, m>> \in taken =>
         /\ b = clients[n].addr
         /\ m[2].type = "MODE RELAY" => d.is_relay
         /\ m[2].type = "MODE DIRECT" /\ m[2].name # n =>
              \E q \in d.peers : q.username = m[2].name /\ q.addr = m[2].addr
         /\ ServedOther(n, m) /\ clients[n].is_relay => d.channel_has_server_relays

ClientMoves(n, d, taken, packets) ==
    /\ clients' = [clients EXCEPT ![n] = d]
    /\ st' = st /\ main' = main /\ notifyKey' = notifyKey /\ snapshot' = snapshot
    /\ hb' = hb /\ unvisited' = unvisited /\ toCleanup' = toCleanup /\ notes' = notes
    /\ starts' = starts
    /\ Moved(net, net', taken, clients[n].addr, packets)

LEMMA OwnMoves ==
    ASSUME StateTypes, NEW n \in Running, NEW d, NEW taken, NEW packets,
           Minds(n, d, taken), ClientMoves(n, d, taken, packets),
           \A p \in packets : p.type \in Chat
    PROVE  /\ Told(n)' <=> Told(n)
           /\ \A o : o # n /\ clients'[o].addr = clients[o].addr /\ Knows(n, o) => Knows(n, o)'
           /\ WillMirror(n) => WillMirror(n)'
<1> DEFINE a == clients[n].addr
           c == clients[n]
           s == net[a]
           t == net'[a]
           gone == {x \in Contents(s) : <<a, x>> \in taken}
<1>1. MovedAt(s, t, a, gone, a, packets)
  BY RunningProcess DEF Moved, ClientMoves
<1>2. n \in Names /\ clients'[n] = d /\ d.addr = a
  BY RunningProcess DEF ClientMoves, Minds, StateTypes
<1>3. \A m \in gone :
         /\ m[2].type = "MODE RELAY" => d.is_relay
         /\ m[2].type = "MODE DIRECT" /\ m[2].name # n =>
              \E q \in d.peers : q.username = m[2].name /\ q.addr = m[2].addr
         /\ ServedOther(n, m) /\ c.is_relay => d.channel_has_server_relays
  BY DEF Minds
<1>4. /\ c.is_relay => d.is_relay
      /\ c.channel_has_server_relays => d.channel_has_server_relays
      /\ d.is_relay => c.is_relay \/ \E m \in Contents(s) : m[2].type = "MODE RELAY"
      /\ \A p \in c.peers : \E q \in d.peers : q.username = p.username /\ q.addr = p.addr
  BY DEF Minds
<1> HIDE DEF s, t, gone
<1>5. /\ \A x \in Contents(s) : x \notin gone => x \in Contents(t)
      /\ \A x \in Contents(t) : x \in Contents(s) \/ \E p \in packets : x = <<a, p>> /\ p.to = a
      /\ \A x, y : InOrder(s, x, y) => y \in Contents(t) /\ (x \notin gone => InOrder(t, x, y))
  BY <1>1 DEF MovedAt
<1>6. \A x \in Contents(t) : x \in Contents(s) \/ x[2].type \in Chat
  BY <1>5
<1>7. /\ Told(n) <=> c.is_relay \/ \E m \in Contents(s) : m[2].type = "MODE RELAY"
      /\ Told(n)' <=> d.is_relay \/ \E m \in Contents(t) : m[2].type = "MODE RELAY"
  BY <1>2 DEF Told, s, t
<1>8. Told(n)' <=> Told(n)
  <2>1. Told(n) => Told(n)'
    BY <1>3, <1>4, <1>5, <1>7
  <2>2. Told(n)' => Told(n)
    BY <1>4, <1>6, <1>7 DEF Chat
  <2> QED  BY <2>1, <2>2
<1>9. ASSUME NEW o, o # n, clients'[o].addr = clients[o].addr, Knows(n, o)
      PROVE  Knows(n, o)'
  <2> DEFINE b == clients[o].addr
  <2>1. Knows(n, o)' <=>
          \/ \E p \in d.peers : p.username = o /\ p.addr = b
          \/ \E m \in Contents(t) : m[2].type = "MODE DIRECT" /\ m[2].name = o /\ m[2].addr = b
    BY <1>2, <1>9 DEF Knows, t
  <2>2. CASE \E p \in c.peers : p.username = o /\ p.addr = b
    <3>1. PICK p \in c.peers : p.username = o /\ p.addr = b
      BY <2>2
    <3>2. PICK q \in d.peers : q.username = p.username /\ q.addr = p.addr
      BY <1>4
    <3> QED  BY <2>1, <3>1, <3>2
  <2>3. CASE \E m \in Contents(s) : m[2].type = "MODE DIRECT" /\ m[2].name = o /\ m[2].addr = b
    <3>1. PICK m \in Contents(s) : m[2].type = "MODE DIRECT" /\ m[2].name = o /\ m[2].addr = b
      BY <2>3
    <3>2. CASE m \in gone
      BY <1>3, <1>9, <2>1, <3>1, <3>2
    <3>3. CASE m \notin gone
      BY <1>5, <2>1, <3>1, <3>3
    <3> QED  BY <3>2, <3>3
  <2> QED  BY <1>9, <2>2, <2>3 DEF Knows, s
<1>10. ASSUME WillMirror(n)
       PROVE  WillMirror(n)'
  <2>1. WillMirror(n)' <=>
          \/ d.channel_has_server_relays
          \/ \E o \in Contents(t) :
               /\ ServedOther(n, o)
               /\ \/ d.is_relay
                  \/ \E m \in Contents(t) : m[2].type = "MODE RELAY" /\ InOrder(t, m, o)
    BY <1>2 DEF WillMirror, ServedOther, t
  <2>2. CASE c.channel_has_server_relays
    BY <1>4, <2>1, <2>2
  <2>3. CASE ~c.channel_has_server_relays
    <3>1. PICK o \in Contents(s) :
            /\ ServedOther(n, o)
            /\ \/ c.is_relay
               \/ \E m \in Contents(s) : m[2].type = "MODE RELAY" /\ InOrder(s, m, o)
      BY <1>10, <2>3 DEF WillMirror, s
    <3>2. CASE c.is_relay
      BY <1>3, <1>4, <1>5, <2>1, <3>1, <3>2
    <3>3. CASE \E m \in Contents(s) : m[2].type = "MODE RELAY" /\ InOrder(s, m, o)
      BY <1>3, <1>5, <2>1, <3>1, <3>3
    <3> QED  BY <3>1, <3>2, <3>3
  <2> QED  BY <2>2, <2>3
<1> QED  BY <1>8, <1>9, <1>10

\* A step of a client that minds what it hears keeps everything.
LEMMA ClientStep ==
    ASSUME Calm, NEW n \in Running, NEW d, NEW taken, NEW packets,
           Minds(n, d, taken), ClientMoves(n, d, taken, packets),
           \A p \in packets : p.type \in Chat
    PROVE  Calm'
<1>1. StateTypes /\ Processes /\ Members /\ Tasks /\ Mail /\ Tables /\ Roles /\ Pairs
  BY DEF Calm
<1>2. /\ n \in Names /\ clients \in [Names -> Process \cup {None}] /\ d \in Process /\ d # None
      /\ d.addr = clients[n].addr
      /\ \A j \in Names : clients'[j] = IF j = n THEN d ELSE clients[j]
  BY <1>1, ProcessAssumption DEF StateTypes, Running, Minds, ClientMoves
<1>3. Running' = Running /\ \A j \in Running : clients'[j].addr = clients[j].addr
  BY <1>2 DEF Running
<1>4. Steady /\ \A u : Beating(u)' <=> Beating(u)
  BY <1>3 DEF Steady, Beating
<1>5. \A p : Answering(p)' <=> Answering(p)
  BY <1>3 DEF Answering
<1>6. \A a : MemberAt(a)' <=> MemberAt(a)
  BY DEF MemberAt, ClientMoves
<1>7. StateTypes'
  <2>1. clients' \in [Names -> Process \cup {None}]
    BY <1>2 DEF ClientMoves
  <2>2. DOMAIN net' = Addrs \cup {Server} /\ Sequences'
    BY <1>1 DEF StateTypes, Sequences, ClientMoves, Moved, MovedAt
  <2> QED  BY <1>1, <2>1, <2>2 DEF StateTypes, ClientMoves
<1>8. Processes'
  BY <1>1, <1>3 DEF Processes, ClientMoves
<1>9. Members'
  BY <1>1, <1>4 DEF Members, ClientMoves
<1>10. Tasks'
  BY <1>1 DEF Tasks, ClientMoves, S!Lone
<1>11. Mail'
  <2> PICK from : from = clients[n].addr
    OBVIOUS
  <2>1. \A p \in packets : p.to \in DOMAIN net => Proper(p.to, <<from, p>>)'
    BY DEF Proper, Chat
  <2>2. Moved(net, net', taken, from, packets) /\ \A a : MemberAt(a) => MemberAt(a)'
    BY <1>6 DEF ClientMoves
  <2> QED  BY <1>1, <1>4, <2>1, <2>2, MailNext, Zenon
<1>12. Tables'
  <2> SUFFICES ASSUME NEW j \in Running
               PROVE  /\ \A p \in clients'[j].peers : Answering(p)
                      /\ clients'[j].is_relay => MemberAt(clients[j].addr)
    BY <1>3, <1>5, <1>6 DEF Tables
  <2>1. CASE j # n
    BY <1>1, <1>2, <2>1 DEF Tables, Running
  <2>2. CASE j = n
    <3>1. clients'[j] = d
      BY <1>2, <2>2
    <3>2. \A p \in d.peers : Answering(p)
      BY DEF Minds
    <3>3. clients[n].is_relay => MemberAt(clients[n].addr)
      BY <1>1 DEF Tables
    <3>4. ASSUME NEW m \in Contents(net[d.addr]), m[2].type = "MODE RELAY"
          PROVE  MemberAt(d.addr)
      <4>1. d.addr \in DOMAIN net
        BY <1>1, <1>2, RunningProcess
      <4> QED  BY <1>1, <3>4, <4>1 DEF Mail, Proper
    <3>5. d.is_relay => MemberAt(d.addr)
      BY <1>2, <3>3, <3>4 DEF Minds
    <3> QED  BY <1>2, <2>2, <3>1, <3>2, <3>5
  <2> QED  BY <2>1, <2>2
<1>13. ASSUME NEW j \in Running
       PROVE  /\ Told(j)' <=> Told(j)
              /\ \A o \in Running : o # j /\ Knows(j, o) => Knows(j, o)'
              /\ WillMirror(j) => WillMirror(j)'
  <2>1. CASE j = n
    BY <1>1, <1>3, <2>1, OwnMoves
  <2>2. CASE j # n
    <3>1. clients'[j] = clients[j] /\ clients[j].addr # clients[n].addr
      BY <1>1, <1>2, <2>2 DEF Processes, Running
    <3>2. \A x : <<clients[j].addr, x>> \notin taken
      BY <3>1 DEF Minds
    <3>3. Moved(net, net', taken, clients[n].addr, packets)
      BY DEF ClientMoves
    <3>4. /\ Told(j) => Told(j)'
          /\ Told(j)' => Told(j) \/ \E p \in packets : p.to = clients[j].addr /\ p.type = "MODE RELAY"
          /\ \A o : clients'[o].addr = clients[o].addr /\ Knows(j, o) => Knows(j, o)'
          /\ WillMirror(j) => WillMirror(j)'
      BY <1>1, <3>1, <3>2, <3>3, Unmoved
    <3>5. \A p \in packets : p.type # "MODE RELAY"
      BY DEF Chat
    <3> QED  BY <1>3, <3>4, <3>5
  <2> QED  BY <2>1, <2>2
<1>14. \A k \in DOMAIN st : \A u \in st[k].users : u.name \in Running
  BY <1>1 DEF Members, Beating
<1>15. Roles'
  BY <1>1, <1>13, <1>14 DEF Roles, ClientMoves, S!Eligible, S!EligibleUsers
<1>16. Pairs'
  <2> SUFFICES ASSUME NEW k \in DOMAIN st, ~(main = "notify" /\ notifyKey = k),
                      NEW r \in st[k].users, NEW u \in st[k].users,
                      st[k].relay = r.name, u # r
               PROVE  IF u.needs_server_relay THEN WillMirror(r.name)'
                      ELSE Knows(r.name, u.name)' /\ Knows(u.name, r.name)'
    BY DEF Pairs, ClientMoves
  <2>1. r.name \in Running /\ u.name \in Running /\ r.name # u.name
    BY <1>1, <1>14 DEF Members
  <2>2. IF u.needs_server_relay THEN WillMirror(r.name)
        ELSE Knows(r.name, u.name) /\ Knows(u.name, r.name)
    BY <1>1 DEF Pairs
  <2> QED  BY <1>13, <2>1, <2>2
<1> QED  BY <1>7, <1>8, <1>9, <1>10, <1>11, <1>12, <1>15, <1>16 DEF Calm

\* A table of the same peers.
Alike(new, old) ==
    /\ new \in SUBSET Peer
    /\ \A p \in new : \E q \in old :
         p.username = q.username /\ p.addr = q.addr
    /\ \A q \in old : \E p \in new : p.username = q.username /\ p.addr = q.addr

LEMMA AlikeItself ==
    ASSUME NEW peers \in SUBSET Peer
    PROVE  Alike(peers, peers)
BY DEF Alike

LEMMA AlikeTwice ==
    ASSUME NEW a, NEW b, NEW c, Alike(a, b), Alike(b, c)
    PROVE  Alike(a, c)
<1>1. \A p \in a : \E q \in c : p.username = q.username /\ p.addr = q.addr
  <2> TAKE p \in a
  <2>1. PICK q \in b : p.username = q.username /\ p.addr = q.addr
    BY DEF Alike
  <2>2. PICK r \in c : q.username = r.username /\ q.addr = r.addr
    BY DEF Alike
  <2> QED  BY <2>1, <2>2
<1>2. \A r \in c : \E p \in a : p.username = r.username /\ p.addr = r.addr
  <2> TAKE r \in c
  <2>1. PICK q \in b : q.username = r.username /\ q.addr = r.addr
    BY DEF Alike
  <2>2. PICK p \in a : p.username = q.username /\ p.addr = q.addr
    BY DEF Alike
  <2> QED  BY <2>1, <2>2
<1> QED  BY <1>1, <1>2 DEF Alike

LEMMA MarksAreAlike ==
    ASSUME NEW peers \in SUBSET Peer, NEW addr, NEW name
    PROVE  /\ Alike(MarkAt(peers, addr), peers)
           /\ Alike(MarkCalled(peers, name), peers)
           /\ Alike(MarkServed(peers, name), peers)
<1>1. \A p \in peers : Connected(p) \in Peer /\ Served(p) \in Peer
  BY DEF Peer, Connected, Served
<1>2. \A p \in peers :
        /\ Connected(p).username = p.username /\ Connected(p).addr = p.addr
        /\ Served(p).username = p.username /\ Served(p).addr = p.addr
  BY DEF Peer, Connected, Served
<1>3. ASSUME NEW X \in SUBSET peers
      PROVE  /\ Alike((peers \ X) \cup {Connected(p) : p \in X}, peers)
             /\ Alike((peers \ X) \cup {Served(p) : p \in X}, peers)
  <2>1. Alike((peers \ X) \cup {Connected(p) : p \in X}, peers)
    <3> DEFINE N == (peers \ X) \cup {Connected(p) : p \in X}
    <3>1. \A q \in peers : q \in N \/ Connected(q) \in N
      OBVIOUS
    <3>2. \A p \in N : p \in peers \/ \E q \in peers : p = Connected(q)
      OBVIOUS
    <3> HIDE DEF N
    <3>3. N \in SUBSET Peer
      BY <1>1, <3>2
    <3>4. \A p \in N : \E q \in peers : p.username = q.username /\ p.addr = q.addr
      BY <1>2, <3>2
    <3>5. \A q \in peers : \E p \in N : p.username = q.username /\ p.addr = q.addr
      BY <1>2, <3>1
    <3> QED  BY <3>3, <3>4, <3>5 DEF Alike, N
  <2>2. Alike((peers \ X) \cup {Served(p) : p \in X}, peers)
    <3> DEFINE N == (peers \ X) \cup {Served(p) : p \in X}
    <3>1. \A q \in peers : q \in N \/ Served(q) \in N
      OBVIOUS
    <3>2. \A p \in N : p \in peers \/ \E q \in peers : p = Served(q)
      OBVIOUS
    <3> HIDE DEF N
    <3>3. N \in SUBSET Peer
      BY <1>1, <3>2
    <3>4. \A p \in N : \E q \in peers : p.username = q.username /\ p.addr = q.addr
      BY <1>2, <3>2
    <3>5. \A q \in peers : \E p \in N : p.username = q.username /\ p.addr = q.addr
      BY <1>2, <3>1
    <3> QED  BY <3>3, <3>4, <3>5 DEF Alike, N
  <2> QED  BY <2>1, <2>2
<1>4. At(peers, addr) \in SUBSET peers /\ Oldest(Called(peers, name)) \in SUBSET peers
  BY DEF At, Oldest, Called
<1> QED  BY <1>3, <1>4 DEF MarkAt, MarkCalled, MarkServed

\* A round of the keepalive in which nobody it watches is overdue.
LEMMA RoundIsAlike ==
    ASSUME NEW peers \in SUBSET Peer, \A p \in Watched(peers) : ~p.overdue
    PROVE  /\ Alike(AfterRound(peers), peers)
           /\ \A p \in RoundPackets(peers) : p.type \in {"PING", "REQUEST_RELAY"}
<1>1. Expired(peers) = {}
  BY DEF Expired
<1>2. Unreached(peers) \in SUBSET peers
  BY DEF Unreached, Watched
<1> DEFINE X == Unreached(peers)
           N == (peers \ X) \cup {[p EXCEPT !.relay_requested = TRUE] : p \in X}
<1>3. AfterRound(peers) = N
  BY <1>1 DEF AfterRound
<1>4. \A p \in peers :
        /\ [p EXCEPT !.relay_requested = TRUE] \in Peer
        /\ [p EXCEPT !.relay_requested = TRUE].username = p.username
        /\ [p EXCEPT !.relay_requested = TRUE].addr = p.addr
  BY DEF Peer
<1>5. Alike(N, peers)
  <2>1. \A q \in peers : q \in N \/ [q EXCEPT !.relay_requested = TRUE] \in N
    OBVIOUS
  <2>2. \A p \in N : p \in peers \/ \E q \in peers : p = [q EXCEPT !.relay_requested = TRUE]
    BY <1>2
  <2> HIDE DEF N
  <2>3. N \in SUBSET Peer
    BY <1>4, <2>2
  <2>4. \A p \in N : \E q \in peers : p.username = q.username /\ p.addr = q.addr
    BY <1>4, <2>2
  <2>5. \A q \in peers : \E p \in N : p.username = q.username /\ p.addr = q.addr
    BY <1>4, <2>1
  <2> QED  BY <2>3, <2>4, <2>5 DEF Alike
<1>6. \A p \in RoundPackets(peers) : p.type \in {"PING", "REQUEST_RELAY"}
  BY <1>1 DEF RoundPackets, Ping, AskForRelay
<1> QED  BY <1>3, <1>5, <1>6

\* A client that hears m in one step.
LEMMA AnswerCalm ==
    ASSUME Calm, NEW n \in Running, NEW m \in Arriving(clients[n].addr), NEW d, NEW packets,
           Answers(n, m, d, packets), Minds(n, d, {<<clients[n].addr, m>>}),
           \A p \in packets : p.type \in Chat
    PROVE  Calm'
<1>1. StateTypes /\ Sequences /\ clients[n].addr \in DOMAIN net
  BY RunningProcess DEF Calm, StateTypes
<1>2. Moved(net, net', {<<clients[n].addr, m>>}, clients[n].addr, packets)
  BY <1>1, AnswerMoves DEF Answers
<1>3. ClientMoves(n, d, {<<clients[n].addr, m>>}, packets)
  BY <1>2 DEF ClientMoves, Answers, Becomes, serverVars
<1> QED  BY <1>3, ClientStep, Zenon

\* A client that sends and hears nothing.
LEMMA SendCalm ==
    ASSUME Calm, NEW n \in Running, NEW d, NEW packets,
           Becomes(n, d, packets), net' = Carried(net, clients[n].addr, packets),
           Minds(n, d, {}), \A p \in packets : p.type \in Chat
    PROVE  Calm'
<1>1. Moved(net, net', {}, clients[n].addr, packets)
  BY CarriedMoves DEF Calm, StateTypes
<1>2. ClientMoves(n, d, {}, packets)
  BY <1>1 DEF ClientMoves, Becomes, serverVars
<1> QED  BY <1>2, ClientStep, Zenon

\* A client that keeps the entries it has, and hears nothing of its role.
LEMMA AlikeMinds ==
    ASSUME Calm, NEW n \in Running, NEW d \in Process, NEW taken,
           d.addr = clients[n].addr, Alike(d.peers, clients[n].peers),
           d.is_relay = clients[n].is_relay,
           clients[n].channel_has_server_relays => d.channel_has_server_relays,
           \A b, m : <<b, m>> \in taken =>
             /\ b = clients[n].addr /\ m[2].type \notin {"MODE RELAY", "MODE DIRECT"}
             /\ ServedOther(n, m) /\ clients[n].is_relay => d.channel_has_server_relays
    PROVE  Minds(n, d, taken)
<1>1. \A p \in clients[n].peers : Answering(p)
  BY DEF Calm, Tables
<1>2. \A p \in d.peers : Answering(p)
  BY <1>1 DEF Alike, Answering
<1>3. \A p \in clients[n].peers : \E q \in d.peers : q.username = p.username /\ q.addr = p.addr
  BY DEF Alike
<1> QED  BY <1>2, <1>3 DEF Minds

LEMMA ProcessChanged ==
    ASSUME NEW c \in Process, NEW peers \in SUBSET Peer
    PROVE  LET d == [c EXCEPT !.peers = peers]
           IN  /\ d \in Process /\ d.peers = peers /\ d.addr = c.addr
               /\ d.is_relay = c.is_relay
               /\ d.channel_has_server_relays = c.channel_has_server_relays
               /\ d.send_via_server = c.send_via_server
BY DEF Process

\* The same client, with some of its entries marked.
Marked(c, d) ==
    /\ d \in Process /\ d.addr = c.addr /\ Alike(d.peers, c.peers)
    /\ d.is_relay = c.is_relay /\ d.channel_has_server_relays = c.channel_has_server_relays

LEMMA PeersMarked ==
    ASSUME NEW c \in Process, NEW peers, Alike(peers, c.peers)
    PROVE  Marked(c, [c EXCEPT !.peers = peers])
<1>1. peers \in SUBSET Peer
  BY DEF Alike
<1> QED  BY <1>1, ProcessChanged DEF Marked

LEMMA GreetedMarked ==
    ASSUME NEW c \in Process, NEW from
    PROVE  Marked(c, Greeted(c, from))
<1>1. c.peers \in SUBSET Peer
  BY DEF Process
<1>2. Marked(c, c)
  BY <1>1, AlikeItself DEF Marked
<1>3. Marked(c, [c EXCEPT !.peers = MarkAt(@, from)])
  BY <1>1, MarksAreAlike, PeersMarked
<1> QED  BY <1>2, <1>3 DEF Greeted

LEMMA MarkedTwice ==
    ASSUME NEW a, NEW b, NEW c, Marked(a, b), Marked(b, c)
    PROVE  Marked(a, c)
<1>1. Alike(c.peers, a.peers)
  BY AlikeTwice DEF Marked
<1> QED  BY <1>1 DEF Marked

\* A client that hears what tells it nothing of its role.
LEMMA MarkedMinds ==
    ASSUME Calm, NEW n \in Running, NEW d, Marked(clients[n], d), NEW taken,
           \A b, m : <<b, m>> \in taken =>
             b = clients[n].addr /\ m[2].type \notin {"MODE RELAY", "MODE DIRECT", "MODE SERVER_RELAY"}
    PROVE  Minds(n, d, taken)
<1>1. /\ d \in Process /\ d.addr = clients[n].addr /\ Alike(d.peers, clients[n].peers)
      /\ d.is_relay = clients[n].is_relay
      /\ d.channel_has_server_relays = clients[n].channel_has_server_relays
  BY DEF Marked
<1>2. \A b, m : <<b, m>> \in taken =>
             /\ b = clients[n].addr /\ m[2].type \notin {"MODE RELAY", "MODE DIRECT"}
             /\ ServedOther(n, m) /\ clients[n].is_relay => d.channel_has_server_relays
  BY DEF ServedOther
<1> QED  BY <1>1, <1>2, AlikeMinds

LEMMA HearPingCalm ==
    ASSUME Calm, NEW n \in Running, NEW m \in Arriving(clients[n].addr), HearPing(n, m)
    PROVE  Calm'
<1> DEFINE d == Greeted(clients[n], m[1])
           packets == {PongTo(m[1])}
<1>1. Answers(n, m, d, packets) /\ m[2].type = "PING"
  BY DEF HearPing
<1>2. Marked(clients[n], d)
  BY RunningProcess, GreetedMarked DEF Calm
<1> HIDE DEF d
<1>3. \A p \in packets : p.type \in Chat
  BY DEF PongTo, Chat
<1> HIDE DEF packets
<1>4. Minds(n, d, {<<clients[n].addr, m>>})
  BY <1>1, <1>2, MarkedMinds
<1> QED  BY <1>1, <1>3, <1>4, AnswerCalm

LEMMA HearSignCalm ==
    ASSUME Calm, NEW n \in Running, NEW m \in Arriving(clients[n].addr), HearSign(n, m)
    PROVE  Calm'
<1> DEFINE d == Greeted(clients[n], m[1])
<1>1. Answers(n, m, d, {}) /\ m[2].type \in {"PONG", "HOLE_PUNCH", "WELCOME"}
  BY DEF HearSign
<1>2. Marked(clients[n], d)
  BY RunningProcess, GreetedMarked DEF Calm
<1> HIDE DEF d
<1>3. Minds(n, d, {<<clients[n].addr, m>>})
  BY <1>1, <1>2, MarkedMinds
<1> QED  BY <1>1, <1>3, AnswerCalm

\* What has arrived was on its way, and is true.
LEMMA ArrivingIsProper ==
    ASSUME Calm, NEW a \in DOMAIN net, NEW m \in Arriving(a)
    PROVE  m \in Contents(net[a]) /\ Proper(a, m)
BY WithoutRests DEF Calm, StateTypes, Mail

\* A client hears of a peer, that it is the relay, or of a user that the
\* server serves.
LEMMA HearDirectMinds ==
    ASSUME Calm, NEW n \in Running, NEW m \in Arriving(clients[n].addr), HearDirect(n, m)
    PROVE  \E d : /\ Answers(n, m, d, {}) /\ Minds(n, d, {<<clients[n].addr, m>>})
                  /\ d.is_relay = clients[n].is_relay
                  /\ d.send_via_server = clients[n].send_via_server
                  /\ \E new : \A p \in d.peers :
                       \/ p \in clients[n].peers
                       \/ /\ p = new /\ p.username = m[2].name /\ p.username # n
                          /\ ~p.connected /\ ~p.use_server_relay
                          /\ ~p.relay_requested /\ ~p.overdue
                          /\ \A q \in clients[n].peers : q.username # p.username
<1> DEFINE c == clients[n]
           o == m[2].name
           peers == AddPeer(c.peers, n, o, m[2].addr)
           d == [c EXCEPT !.peers = peers]
<1>1. Answers(n, m, d, {}) /\ m[2].type = "MODE DIRECT" /\ Later(c.peers) # {}
  BY DEF HearDirect
<1>2. n \in Names /\ c \in Process /\ c.peers \in SUBSET Peer /\ c.addr \in DOMAIN net
  BY RunningProcess DEF Calm, Process
<1>3. o \in Running /\ clients[o].addr = m[2].addr
  BY <1>1, <1>2, ArrivingIsProper DEF Proper
<1>4. o \in Names /\ m[2].addr \in Addrs
  BY <1>3, RunningProcess DEF Calm
<1> DEFINE new == NewPeer(o, m[2].addr, Now(c.peers))
<1>5. /\ new \in Peer /\ new.username = o /\ new.addr = m[2].addr
      /\ ~new.connected /\ ~new.use_server_relay /\ ~new.relay_requested /\ ~new.overdue
  <2>1. Now(c.peers) \in 1 .. InstantLimit
    BY <1>1 DEF Now, Later
  <2> HIDE DEF o
  <2> QED  BY <1>4, <2>1 DEF NewPeer, Peer
<1> HIDE DEF new
<1>6. \A p \in c.peers : Answering(p)
  BY DEF Calm, Tables
<1>7. /\ peers \in SUBSET Peer /\ c.peers \subseteq peers
      /\ \A p \in peers : Answering(p)
      /\ o # n => \E q \in peers : q.username = o /\ q.addr = m[2].addr
      /\ \A p \in peers : p \in c.peers \/ (p = new /\ o # n /\ \A q \in c.peers : q.username # o)
  <2>1. CASE o = n
    BY <1>2, <1>6, <2>1 DEF AddPeer
  <2>2. CASE o # n /\ At(c.peers, m[2].addr) # {}
    <3>1. PICK p \in c.peers : p.addr = m[2].addr
      BY <2>2 DEF At
    <3>2. p.username \in Running /\ clients[p.username].addr = p.addr
      BY <1>6 DEF Answering
    <3>3. p.username = o
      BY <1>3, <3>1, <3>2 DEF Calm, Processes
    <3>4. peers = c.peers
      BY <2>2 DEF AddPeer
    <3> QED  BY <1>2, <1>6, <3>1, <3>3, <3>4
  <2>3. CASE o # n /\ At(c.peers, m[2].addr) = {}
    <3>1. peers = c.peers \cup {new}
      BY <2>3 DEF AddPeer, new
    <3>2. Answering(new)
      BY <1>3, <1>5 DEF Answering
    <3> HIDE DEF peers
    <3>6. \A q \in c.peers : q.username # o
      BY <1>3, <1>6, <2>3 DEF Answering, At
    <3>3. \A p \in peers : p \in c.peers \/ (p = new /\ o # n /\ \A q \in c.peers : q.username # o)
      BY <2>3, <3>1, <3>6
    <3>4. peers \in SUBSET Peer /\ c.peers \subseteq peers /\ new \in peers
      BY <1>2, <1>5, <3>1
    <3>5. \A p \in peers : Answering(p)
      BY <1>5, <1>6, <3>2, <3>3
    <3> QED  BY <1>5, <3>3, <3>4, <3>5
  <2> QED  BY <2>1, <2>2, <2>3
<1> HIDE DEF peers
<1>8. /\ d \in Process /\ d.peers = peers /\ d.addr = c.addr
      /\ d.is_relay = c.is_relay
      /\ d.channel_has_server_relays = c.channel_has_server_relays
      /\ d.send_via_server = c.send_via_server
  BY <1>2, <1>7, ProcessChanged
<1> HIDE DEF d
<1>9. Minds(n, d, {<<clients[n].addr, m>>})
  BY <1>1, <1>7, <1>8 DEF Minds, ServedOther
<1>10. \A p \in d.peers :
         \/ p \in c.peers
         \/ /\ p = new /\ p.username = m[2].name /\ p.username # n
            /\ ~p.connected /\ ~p.use_server_relay
            /\ ~p.relay_requested /\ ~p.overdue
            /\ \A q \in c.peers : q.username # p.username
  BY <1>5, <1>7, <1>8
<1> PICK fresh : fresh = new
  OBVIOUS
<1>11. \E e : \A p \in d.peers :
         \/ p \in c.peers
         \/ /\ p = e /\ p.username = m[2].name /\ p.username # n
            /\ ~p.connected /\ ~p.use_server_relay
            /\ ~p.relay_requested /\ ~p.overdue
            /\ \A q \in c.peers : q.username # p.username
  BY <1>10
<1> QED  BY <1>1, <1>8, <1>9, <1>11

LEMMA HearUserLeftCalm ==
    ASSUME Calm, NEW n \in Running, NEW m \in Arriving(clients[n].addr), HearUserLeft(n, m)
    PROVE  FALSE
<1>1. clients[n].addr \in DOMAIN net
  BY RunningProcess DEF Calm
<1> QED  BY <1>1, ArrivingIsProper DEF HearUserLeft, Proper

LEMMA HearRelayMinds ==
    ASSUME Calm, NEW n \in Running, NEW m \in Arriving(clients[n].addr), HearRelay(n, m)
    PROVE  \E d : /\ Answers(n, m, d, {}) /\ Minds(n, d, {<<clients[n].addr, m>>})
                  /\ d.peers = clients[n].peers /\ ~d.send_via_server
<1> DEFINE c == clients[n]
           d == [c EXCEPT !.is_relay = TRUE, !.send_via_server = FALSE]
<1>1. Answers(n, m, d, {}) /\ m[2].type = "MODE RELAY"
  BY DEF HearRelay
<1>2. n \in Names /\ c \in Process /\ c.addr \in DOMAIN net
  BY RunningProcess DEF Calm
<1>3. m \in Contents(net[c.addr])
  BY <1>2, ArrivingIsProper
<1>4. /\ d \in Process /\ d.peers = c.peers /\ d.addr = c.addr /\ d.is_relay
      /\ d.channel_has_server_relays = c.channel_has_server_relays /\ ~d.send_via_server
  <2> HIDE DEF c
  <2> QED  BY <1>2 DEF Process
<1>5. \A p \in c.peers : Answering(p)
  BY DEF Calm, Tables
<1> HIDE DEF d
<1>6. Minds(n, d, {<<clients[n].addr, m>>})
  BY <1>1, <1>3, <1>4, <1>5 DEF Minds, ServedOther
<1> QED  BY <1>1, <1>4, <1>6

LEMMA HearServerRelayMinds ==
    ASSUME Calm, NEW n \in Running, NEW m \in Arriving(clients[n].addr), HearServerRelay(n, m)
    PROVE  \E d : /\ Answers(n, m, d, {}) /\ Minds(n, d, {<<clients[n].addr, m>>})
                  /\ d.is_relay = clients[n].is_relay
                  /\ IF m[2].name = n
                     THEN d.peers = clients[n].peers /\ d.send_via_server
                     ELSE /\ d.peers = MarkServed(clients[n].peers, m[2].name)
                          /\ d.send_via_server = clients[n].send_via_server
<1> DEFINE c == clients[n]
           d1 == [c EXCEPT !.send_via_server = TRUE]
           d2 == [c EXCEPT !.channel_has_server_relays = Mirrors(c),
                           !.peers = MarkServed(@, m[2].name)]
           d == IF m[2].name = n THEN d1 ELSE d2
<1>1. Answers(n, m, d, {}) /\ m[2].type = "MODE SERVER_RELAY"
  BY DEF HearServerRelay
<1>2. n \in Names /\ c \in Process /\ c.peers \in SUBSET Peer
  BY RunningProcess DEF Calm, Process
<1>3. /\ d \in Process /\ d.addr = c.addr /\ Alike(d.peers, c.peers)
      /\ d.is_relay = c.is_relay
      /\ c.channel_has_server_relays => d.channel_has_server_relays
      /\ m[2].name # n /\ c.is_relay => d.channel_has_server_relays
      /\ IF m[2].name = n
         THEN d.peers = c.peers /\ d.send_via_server
         ELSE d.peers = MarkServed(c.peers, m[2].name) /\ d.send_via_server = c.send_via_server
  <2> HIDE DEF c
  <2>1. CASE m[2].name = n
    <3>1. /\ d1 \in Process /\ d1.peers = c.peers /\ d1.addr = c.addr /\ d1.is_relay = c.is_relay
          /\ d1.channel_has_server_relays = c.channel_has_server_relays /\ d1.send_via_server
      BY <1>2 DEF Process
    <3> HIDE DEF d1
    <3> QED  BY <1>2, <2>1, <3>1, AlikeItself
  <2>2. CASE m[2].name # n
    <3> DEFINE P == MarkServed(c.peers, m[2].name)
    <3>1. Alike(P, c.peers)
      BY <1>2, MarksAreAlike
    <3>0. P \in SUBSET Peer
      BY <3>1 DEF Alike
    <3> HIDE DEF P
    <3>2. Mirrors(c) \in BOOLEAN /\ (c.is_relay => Mirrors(c)) /\ (c.channel_has_server_relays => Mirrors(c))
      BY <1>2 DEF Mirrors, Process
    <3>3. d2 = [c EXCEPT !.channel_has_server_relays = Mirrors(c), !.peers = P]
      BY DEF P
    <3>4. /\ d2 \in Process /\ d2.peers = P /\ d2.addr = c.addr /\ d2.is_relay = c.is_relay
          /\ d2.channel_has_server_relays = Mirrors(c) /\ d2.send_via_server = c.send_via_server
      BY <1>2, <3>0, <3>2, <3>3 DEF Process
    <3> HIDE DEF d2
    <3> QED  BY <2>2, <3>1, <3>2, <3>4 DEF P
  <2> QED  BY <2>1, <2>2
<1> HIDE DEF d
<1>4. Minds(n, d, {<<clients[n].addr, m>>})
  BY <1>1, <1>3, AlikeMinds DEF ServedOther
<1> QED  BY <1>1, <1>3, <1>4

LEMMA HearModeCalm ==
    ASSUME Calm, NEW n \in Running, NEW m \in Arriving(clients[n].addr),
           HearDirect(n, m) \/ HearRelay(n, m) \/ HearServerRelay(n, m)
    PROVE  Calm'
<1>1. PICK d : Answers(n, m, d, {}) /\ Minds(n, d, {<<clients[n].addr, m>>})
  BY HearDirectMinds, HearRelayMinds, HearServerRelayMinds
<1>2. \A p \in {} : p.type \in Chat
  OBVIOUS
<1> QED  BY <1>1, <1>2, AnswerCalm

LEMMA HearDataCalm ==
    ASSUME Calm, NEW n \in Running, NEW m \in Arriving(clients[n].addr), HearData(n, m)
    PROVE  Calm'
<1> DEFINE g == Greeted(clients[n], m[1])
           d == [g EXCEPT !.peers = MarkCalled(@, m[2].name)]
           sender == m[2].name
           packets == IF ~d.is_relay THEN {}
                      ELSE {Data(p.addr, sender) : p \in ForwardTargets(d.peers, sender)}
                             \cup (IF d.channel_has_server_relays THEN {Data(Server, sender)} ELSE {})
<1>1. Answers(n, m, d, packets) /\ m[2].type = "DATA"
  BY DEF HearData
<1>2. Marked(clients[n], d)
  <2>1. Marked(clients[n], g)
    BY RunningProcess, GreetedMarked DEF Calm
  <2> HIDE DEF g
  <2>2. g \in Process /\ g.peers \in SUBSET Peer
    BY <2>1 DEF Marked, Process
  <2>3. Marked(g, d)
    BY <2>2, MarksAreAlike, PeersMarked
  <2> QED  BY <2>1, <2>3, MarkedTwice
<1> HIDE DEF d, g
<1>3. \A p \in packets : p.type \in Chat
  BY DEF Data, Chat
<1> HIDE DEF packets
<1>4. Minds(n, d, {<<clients[n].addr, m>>})
  BY <1>1, <1>2, MarkedMinds
<1> QED  BY <1>1, <1>3, <1>4, AnswerCalm

LEMMA ClientHearsCalm ==
    ASSUME Calm, NEW n \in Names, ClientHears(n)
    PROVE  Calm'
<1>1. n \in Running
  BY DEF ClientHears
<1>2. PICK m \in Arriving(clients[n].addr) :
         \/ HearPing(n, m) \/ HearSign(n, m) \/ HearDirect(n, m) \/ HearUserLeft(n, m)
         \/ HearRelay(n, m) \/ HearServerRelay(n, m) \/ HearData(n, m)
  BY DEF ClientHears
<1> QED
  BY <1>1, <1>2, HearPingCalm, HearSignCalm, HearUserLeftCalm, HearModeCalm, HearDataCalm

LEMMA PunchCalm ==
    ASSUME Calm, NEW n \in Names, Punch(n)
    PROVE  Calm'
<1> DEFINE packets == {HolePunch(p.addr) : p \in PunchTargets(clients[n].peers)}
<1>1. n \in Running /\ Becomes(n, clients[n], packets) /\ net' = Carried(net, clients[n].addr, packets)
  BY DEF Punch
<1>2. \A p \in packets : p.type \in Chat
  BY DEF HolePunch, Chat
<1> HIDE DEF packets
<1>3. Marked(clients[n], clients[n])
  BY <1>1, RunningProcess, AlikeItself DEF Calm, Marked, Process
<1>4. Minds(n, clients[n], {})
  BY <1>1, <1>3, MarkedMinds
<1> QED  BY <1>1, <1>2, <1>4, SendCalm

LEMMA SpeakCalm ==
    ASSUME Calm, NEW n \in Names, Speak(n)
    PROVE  Calm'
<1> DEFINE c == clients[n]
           packets == IF c.send_via_server THEN {Data(Server, n)}
                      ELSE {Data(p.addr, n) : p \in TypedTargets(c.peers)}
                             \cup (IF c.is_relay /\ c.channel_has_server_relays
                                   THEN {Data(Server, n)} ELSE {})
<1>1. n \in Running /\ Becomes(n, clients[n], packets) /\ net' = Carried(net, clients[n].addr, packets)
  BY DEF Speak
<1>2. \A p \in packets : p.type \in Chat
  BY DEF Data, Chat
<1> HIDE DEF packets
<1>3. Marked(clients[n], clients[n])
  BY <1>1, RunningProcess, AlikeItself DEF Calm, Marked, Process
<1>4. Minds(n, clients[n], {})
  BY <1>1, <1>3, MarkedMinds
<1> QED  BY <1>1, <1>2, <1>4, SendCalm

LEMMA KeepAliveCalm ==
    ASSUME Calm, Heeded, NEW n \in Names, KeepAlive(n)
    PROVE  Calm'
<1> DEFINE packets == RoundPackets(clients[n].peers)
           d == [clients[n] EXCEPT !.peers = AfterRound(@)]
<1>1. n \in Running /\ Becomes(n, d, packets) /\ net' = Carried(net, clients[n].addr, packets)
  BY DEF KeepAlive
<1>2. clients[n] \in Process /\ clients[n].peers \in SUBSET Peer
  BY <1>1, RunningProcess DEF Calm, Process
<1>3. \A p \in Watched(clients[n].peers) : ~p.overdue
  BY <1>1 DEF Heeded, KeepAlive
<1>4. Alike(AfterRound(clients[n].peers), clients[n].peers) /\ \A p \in packets : p.type \in Chat
  BY <1>2, <1>3, RoundIsAlike DEF Chat
<1>5. Marked(clients[n], d)
  BY <1>2, <1>4, PeersMarked
<1> HIDE DEF packets, d
<1>6. Minds(n, d, {})
  BY <1>1, <1>5, MarkedMinds
<1> QED  BY <1>1, <1>4, <1>6, SendCalm

\* Time passes for an entry.
LEMMA AgeCalm ==
    ASSUME Calm, NEW n \in Names, Age(n)
    PROVE  Calm'
<1>1. n \in Running
  BY DEF Age
<1>2. clients[n] \in Process /\ clients[n].peers \in SUBSET Peer
  BY <1>1, RunningProcess DEF Calm, Process
<1>3. PICK p \in clients[n].peers :
        \E o \in {[p EXCEPT !.late = TRUE], [p EXCEPT !.late = TRUE, !.overdue = TRUE]} :
          Becomes(n, [clients[n] EXCEPT !.peers = (@ \ {p}) \cup {o}], {})
  BY DEF Age, Watched
<1> PICK o \in {[p EXCEPT !.late = TRUE], [p EXCEPT !.late = TRUE, !.overdue = TRUE]} :
        Becomes(n, [clients[n] EXCEPT !.peers = (@ \ {p}) \cup {o}], {})
  BY <1>3
<1>4. o \in Peer /\ o.username = p.username /\ o.addr = p.addr
  BY <1>2, <1>3 DEF Peer
<1>5. net' = net
  BY DEF Age
<1> DEFINE c == clients[n]
           peers == (c.peers \ {p}) \cup {o}
           d == [c EXCEPT !.peers = peers]
<1>6. Alike(peers, c.peers)
  <2> HIDE DEF c
  <2>1. \A r \in (c.peers \ {p}) \cup {o} : r \in c.peers \/ r = o
    OBVIOUS
  <2> QED  BY <1>2, <1>4, <2>1 DEF Alike, c
<1>7. Marked(clients[n], d)
  BY <1>2, <1>6, PeersMarked
<1> HIDE DEF d
<1>8. Minds(n, d, {})
  BY <1>1, <1>7, MarkedMinds
<1>9. Moved(net, net', {}, clients[n].addr, {})
  BY <1>5, NothingMoves DEF Calm, StateTypes
<1>10. ClientMoves(n, d, {}, {})
  BY <1>3, <1>9 DEF ClientMoves, Becomes, serverVars, d
<1> QED  BY <1>1, <1>8, <1>10, ClientStep

----------------------------------------------------------------------------
(* Steps that leave the channels alone *)

LEMMA SameChannels ==
    ASSUME Calm, st' = st, main' = main, notifyKey' = notifyKey,
           \A n \in Running : n \in Running' /\ clients'[n] = clients[n],
           NEW taken, NEW from, NEW packets, Moved(net, net', taken, from, packets),
           \A n \in Running : \A x : <<clients[n].addr, x>> \notin taken,
           \A p \in packets : p.type # "MODE RELAY"
    PROVE  Members' /\ Roles' /\ Pairs'
<1>1. StateTypes /\ Members /\ Roles /\ Pairs
  BY DEF Calm
<1>2. \A k \in DOMAIN st : \A u \in st[k].users : u.name \in Running
  BY <1>1 DEF Members, Beating
<1>3. \A u : Beating(u) => Beating(u)'
  BY DEF Beating
<1>4. ASSUME NEW n \in Running
      PROVE  /\ Told(n)' <=> Told(n)
             /\ \A o \in Running : Knows(n, o) => Knows(n, o)'
             /\ WillMirror(n) => WillMirror(n)'
  <2>1. /\ Told(n) => Told(n)'
        /\ Told(n)' => Told(n) \/ \E p \in packets : p.to = clients[n].addr /\ p.type = "MODE RELAY"
        /\ \A o : clients'[o].addr = clients[o].addr /\ Knows(n, o) => Knows(n, o)'
        /\ WillMirror(n) => WillMirror(n)'
    BY <1>1, Unmoved
  <2> QED  BY <2>1
<1>5. Members'
  BY <1>1, <1>3 DEF Members
<1>6. Roles'
  BY <1>1, <1>2, <1>4 DEF Roles, S!Eligible, S!EligibleUsers
<1>7. Pairs'
  <2> SUFFICES ASSUME NEW k \in DOMAIN st, ~(main = "notify" /\ notifyKey = k),
                      NEW r \in st[k].users, NEW u \in st[k].users,
                      st[k].relay = r.name, u # r
               PROVE  IF u.needs_server_relay THEN WillMirror(r.name)'
                      ELSE Knows(r.name, u.name)' /\ Knows(u.name, r.name)'
    BY DEF Pairs
  <2>1. r.name \in Running /\ u.name \in Running
    BY <1>2
  <2>2. IF u.needs_server_relay THEN WillMirror(r.name)
        ELSE Knows(r.name, u.name) /\ Knows(u.name, r.name)
    BY <1>1 DEF Pairs
  <2> QED  BY <1>4, <2>1, <2>2
<1> QED  BY <1>5, <1>6, <1>7

\* A process starts.
LEMMA StartCalm ==
    ASSUME Calm, NEW n \in Names, NEW addr \in Addrs, Start(n, addr)
    PROVE  Calm'
<1>1. n \in Names /\ addr \in Addrs
  OBVIOUS
<1>2. /\ n \notin Running /\ starts' = starts + 1
      /\ \A j \in Running : clients[j].addr # addr
      /\ clients' = [clients EXCEPT ![n] = NewProcess(addr)]
      /\ net' = Carried(net, addr, {Connect(n)})
      /\ st' = st /\ main' = main /\ notifyKey' = notifyKey /\ snapshot' = snapshot
      /\ hb' = hb /\ unvisited' = unvisited /\ toCleanup' = toCleanup /\ notes' = notes
  BY DEF Start, serverVars
<1>3. StateTypes /\ Processes /\ Members /\ Tasks /\ Mail /\ Tables /\ Roles /\ Pairs
  BY DEF Calm
<1>4. /\ NewProcess(addr) \in Process /\ NewProcess(addr) # None
      /\ NewProcess(addr).addr = addr /\ NewProcess(addr).peers = {} /\ ~NewProcess(addr).is_relay
  <2>1. NewProcess(addr) \in Process
    BY DEF NewProcess, Process
  <2>2. NewProcess(addr).addr = addr /\ NewProcess(addr).peers = {} /\ ~NewProcess(addr).is_relay
    BY DEF NewProcess
  <2> QED  BY <2>1, <2>2, ProcessAssumption
<1>5. /\ clients' \in [Names -> Process \cup {None}]
      /\ clients'[n] = NewProcess(addr)
      /\ \A j \in Names : j # n => clients'[j] = clients[j]
  BY <1>1, <1>2, <1>3, <1>4 DEF StateTypes
<1>6. Running' = Running \cup {n}
  BY <1>1, <1>2, <1>4, <1>5 DEF Running
<1>7. \A j \in Running : j \in Running' /\ clients'[j] = clients[j]
  BY <1>2, <1>5, <1>6 DEF Running
<1>8. Moved(net, net', {}, addr, {Connect(n)})
  BY <1>2, <1>3, CarriedMoves DEF StateTypes
<1>9. Members' /\ Roles' /\ Pairs'
  <2>1. Connect(n).type # "MODE RELAY"
    BY DEF Connect
  <2> PICK taken : taken = {}
    OBVIOUS
  <2>2. \A j \in Running : \A x : <<clients[j].addr, x>> \notin taken
    OBVIOUS
  <2> PICK packets : packets = {Connect(n)}
    OBVIOUS
  <2>3. \A p \in packets : p.type # "MODE RELAY"
    BY <2>1
  <2>4. Moved(net, net', taken, addr, packets)
    BY <1>8
  <2>5. st' = st /\ main' = main /\ notifyKey' = notifyKey
    BY <1>2
  <2> QED  BY <1>7, <2>2, <2>3, <2>4, <2>5, SameChannels
<1>10. StateTypes'
  <2>1. DOMAIN net' = Addrs \cup {Server} /\ Sequences'
    BY <1>3, <1>8 DEF StateTypes, Sequences, Moved, MovedAt
  <2> QED  BY <1>2, <1>3, <1>5, <2>1 DEF StateTypes
<1>11. Processes'
  <2>1. IsFiniteSet(Running') /\ starts' = Cardinality(Running')
    BY <1>2, <1>3, <1>6, FS_AddElement DEF Processes
  <2>2. \A i, j \in Running' : clients'[i].addr = clients'[j].addr => i = j
    BY <1>2, <1>3, <1>4, <1>5, <1>6, <1>7 DEF Processes
  <2> QED  BY <2>1, <2>2 DEF Processes
<1>12. Tasks'
  BY <1>2, <1>3 DEF Tasks, S!Lone
<1>13. Mail'
  <2>1. Steady /\ \A a : MemberAt(a) => MemberAt(a)'
    BY <1>2, <1>7 DEF Steady, MemberAt
  <2>2. Proper(Connect(n).to, <<addr, Connect(n)>>)'
    <3>1. NatOf[n] \in NatKinds
      BY <1>1, PiercerAssumption
    <3>2. n \in Running' /\ clients'[n].addr = addr
      BY <1>4, <1>5, <1>6
    <3> QED  BY <3>1, <3>2 DEF Proper, Connect
  <2> QED  BY <1>3, <1>8, <2>1, <2>2, MailNext
<1>14. Tables'
  <2>1. \A p : Answering(p) => Answering(p)'
    BY <1>7 DEF Answering
  <2>2. \A a : MemberAt(a) => MemberAt(a)'
    BY <1>2 DEF MemberAt
  <2> SUFFICES ASSUME NEW j \in Running'
               PROVE  /\ \A p \in clients'[j].peers : Answering(p)'
                      /\ clients'[j].is_relay => MemberAt(clients[j].addr)'
    BY DEF Tables
  <2>3. CASE j = n
    BY <1>4, <1>5, <2>3
  <2>4. CASE j # n
    <3>1. j \in Running /\ clients'[j] = clients[j]
      BY <1>6, <1>7, <2>4
    <3> QED  BY <1>3, <2>1, <2>2, <3>1 DEF Tables, MemberAt
  <2> QED  BY <2>3, <2>4
<1> QED  BY <1>9, <1>10, <1>11, <1>12, <1>13, <1>14 DEF Calm

\* A step of the network or the server that no client takes part in.
LEMMA NoClient ==
    ASSUME Calm, clients' = clients, starts' = starts,
           NEW taken, NEW from, NEW packets, Moved(net, net', taken, from, packets),
           \A a : MemberAt(a) => MemberAt(a)',
           \A p \in packets : p.to \in DOMAIN net => Proper(p.to, <<from, p>>)'
    PROVE  /\ clients' \in [Names -> Process \cup {None}]
           /\ DOMAIN net' = Addrs \cup {Server} /\ Sequences'
           /\ Processes' /\ Mail' /\ Tables'
<1>1. StateTypes /\ Processes /\ Mail /\ Tables
  BY DEF Calm
<1>2. Running' = Running
  BY DEF Running
<1>3. clients' \in [Names -> Process \cup {None}] /\ DOMAIN net' = Addrs \cup {Server} /\ Sequences'
  BY <1>1 DEF StateTypes, Sequences, Moved, MovedAt
<1>4. Processes'
  BY <1>1, <1>2 DEF Processes
<1>5. Mail'
  BY <1>1, <1>2, MailNext DEF Steady
<1>6. Tables'
  <2>1. \A n \in Running : clients[n].is_relay => MemberAt(clients[n].addr)'
    BY <1>1 DEF Tables, MemberAt
  <2>2. \A p : Answering(p)' <=> Answering(p)
    BY <1>2 DEF Answering
  <2> QED  BY <1>1, <1>2, <2>1, <2>2 DEF Tables
<1> QED  BY <1>3, <1>4, <1>5, <1>6

\* Packets that tell no client of its role or its peers.
Harmless == {"WELCOME", "DATA", "PING", "MODE SERVER_RELAY"}

LEMMA IdleCalm ==
    ASSUME Calm, st' = st, main' = main, notifyKey' = notifyKey, Tasks',
           clients' = clients, starts' = starts,
           NEW taken, NEW from, NEW packets, Moved(net, net', taken, from, packets),
           \A n \in Running : \A x : <<clients[n].addr, x>> \notin taken,
           \A p \in packets : p.type \in Harmless
    PROVE  Calm'
<1>1. \A a : MemberAt(a) => MemberAt(a)'
  BY DEF MemberAt
<1>2. \A p \in packets : p.to \in DOMAIN net => Proper(p.to, <<from, p>>)'
  BY DEF Proper, Harmless
<1>3. /\ clients' \in [Names -> Process \cup {None}]
      /\ DOMAIN net' = Addrs \cup {Server} /\ Sequences'
      /\ Processes' /\ Mail' /\ Tables'
  BY <1>1, <1>2, NoClient
<1>4. \A p \in packets : p.type # "MODE RELAY"
  BY DEF Harmless
<1>5. \A n \in Running : n \in Running' /\ clients'[n] = clients[n]
  BY DEF Running
<1>6. Members' /\ Roles' /\ Pairs'
  BY <1>4, <1>5, SameChannels
<1>7. StateTypes'
  BY <1>3 DEF Calm, StateTypes
<1> QED  BY <1>3, <1>6, <1>7 DEF Calm

LEMMA VanishCalm ==
    ASSUME Calm, NEW a \in Addrs, Vanish(a)
    PROVE  Calm'
<1>1. PICK m \in Arriving(a) : net' = Without(a, m)
  BY DEF Vanish
<1>2. a \in DOMAIN net /\ Sequences
  BY DEF Calm, StateTypes
<1>3. /\ st' = st /\ main' = main /\ notifyKey' = notifyKey /\ snapshot' = snapshot
      /\ hb' = hb /\ unvisited' = unvisited /\ toCleanup' = toCleanup /\ notes' = notes
      /\ clients' = clients /\ starts' = starts
      /\ \A n \in Running : clients[n].addr # a
  BY DEF Vanish, serverVars
<1> PICK taken : taken = {<<a, m>>}
  OBVIOUS
<1> PICK packets : packets = {}
  OBVIOUS
<1>4. Moved(net, net', taken, Server, packets)
  BY <1>1, <1>2, WithoutMoves
<1>5. /\ \A n \in Running : \A x : <<clients[n].addr, x>> \notin taken
      /\ \A p \in packets : p.type \in Harmless
  BY <1>3
<1>6. Tasks'
  BY <1>3 DEF Calm, Tasks, S!Lone
<1> QED  BY <1>3, <1>4, <1>5, <1>6, IdleCalm

\* What has arrived at the server is not taken from a client.
LEMMA TakenAtServer ==
    ASSUME Calm, NEW m
    PROVE  \A n \in Running : \A x : <<clients[n].addr, x>> \notin {<<Server, m>>}
<1>1. \A n \in Running : clients[n].addr \in Addrs
  BY RunningProcess DEF Calm
<1> QED  BY <1>1, ServerAssumption

\* A step of the server that changes no channel, on what it has taken.
LEMMA ServerIdleCalm ==
    ASSUME Calm, st' = st, main' = main, notifyKey' = notifyKey, Tasks',
           clients' = clients, starts' = starts,
           NEW m \in Arriving(Server), NEW packets, net' = Carried(Without(Server, m), Server, packets),
           \A p \in packets : p.type \in Harmless
    PROVE  Calm'
<1> PICK taken : taken = {<<Server, m>>}
  OBVIOUS
<1>1. Server \in DOMAIN net /\ Sequences
  BY DEF Calm, StateTypes
<1>2. Moved(net, net', taken, Server, packets)
  BY <1>1, AnswerMoves
<1>3. \A n \in Running : \A x : <<clients[n].addr, x>> \notin taken
  BY TakenAtServer
<1> QED  BY <1>2, <1>3, IdleCalm

\* ... or has collected.
LEMMA ServerSendsCalm ==
    ASSUME Calm, st' = st, main' = main, notifyKey' = notifyKey, Tasks',
           clients' = clients, starts' = starts,
           NEW packets, net' = Carried(net, Server, packets),
           \A p \in packets : p.type \in Harmless
    PROVE  Calm'
<1> PICK taken : taken = {}
  OBVIOUS
<1>1. Moved(net, net', taken, Server, packets)
  BY CarriedMoves DEF Calm, StateTypes
<1>2. \A n \in Running : \A x : <<clients[n].addr, x>> \notin taken
  OBVIOUS
<1> QED  BY <1>1, <1>2, IdleCalm

\* Nothing becomes of the tasks.
LEMMA SameTasks ==
    ASSUME Calm, st' = st, UNCHANGED <<main, notifyKey, snapshot, hb, unvisited, toCleanup, notes>>
    PROVE  Tasks'
BY DEF Calm, Tasks, S!Lone

LEMMA LeastNumber ==
    ASSUME NEW N, N \subseteq Nat, N # {}
    PROVE  \E m \in N : \A n \in N : m <= n
<1> DEFINE R == {p \in Nat \X Nat : p[1] < p[2]}
<1>1. IsWellFoundedOn(R, Nat)
  <2>1. OpToRel(<, Nat) = R
    BY DEF OpToRel
  <2> QED  BY <2>1, NatLessThanWellFounded
<1>2. PICK m \in N : \A n \in N : <<n, m>> \notin R
  <2> HIDE DEF R
  <2> QED  BY <1>1, WFMin
<1>3. \A n \in N : ~(n < m)
  BY <1>2
<1> QED  BY <1>3

LEMMA FirstIsLeast ==
    ASSUME NEW users \in SUBSET S!User, users # {}
    PROVE  /\ S!First(users) \in users
           /\ \A v \in users : S!First(users).peer_id <= v.peer_id
<1> DEFINE ids == {u.peer_id : u \in users}
<1>1. ids \subseteq Nat /\ ids # {}
  BY DEF S!User
<1>2. PICK m \in ids : \A n \in ids : m <= n
  <2> HIDE DEF ids
  <2> QED  BY <1>1, LeastNumber
<1>3. \E u \in users : \A v \in users : u.peer_id <= v.peer_id
  BY <1>2
<1> QED  BY <1>3 DEF S!First

\* Nobody is silent, so that there is nobody to refresh.
LEMMA NobodySilent ==
    ASSUME Calm, NEW k \in DOMAIN st
    PROVE  /\ st[k] \in S!Channel /\ st[k].users \in SUBSET S!User
           /\ \A u \in st[k].users : ~u.silent /\ S!Refresh(st[k].users, u) = st[k].users
           /\ S!Silent(st[k].users) = {}
<1>1. st[k] \in S!Channel
  BY DEF Calm, StateTypes
<1>2. st[k].users \in SUBSET S!User
  BY <1>1 DEF S!Channel
<1>3. \A u \in st[k].users : ~u.silent
  BY DEF Calm, Members
<1>4. \A u \in st[k].users : [u EXCEPT !.silent = FALSE] = u
  BY <1>2, <1>3 DEF S!User
<1>5. ASSUME NEW u \in st[k].users
      PROVE  S!Refresh(st[k].users, u) = st[k].users
  <2>1. S!Refresh(st[k].users, u) = (st[k].users \ {u}) \cup {[u EXCEPT !.silent = FALSE]}
    BY DEF S!Refresh
  <2>2. [u EXCEPT !.silent = FALSE] = u
    BY <1>4
  <2>3. (st[k].users \ {u}) \cup {u} = st[k].users
    OBVIOUS
  <2> QED  BY <2>1, <2>2, <2>3
<1>6. S!Silent(st[k].users) = {}
  BY <1>3 DEF S!Silent
<1> QED  BY <1>1, <1>2, <1>3, <1>5, <1>6

----------------------------------------------------------------------------
(* Steps of the server that come to nothing, or only send *)

LEMMA RefreshesNobody ==
    ASSUME Calm, NEW k \in DOMAIN st, NEW u \in st[k].users
    PROVE  [st EXCEPT ![k].users = S!Refresh(@, u)] = st
<1>1. S!Refresh(st[k].users, u) = st[k].users /\ st[k] \in S!Channel
  BY NobodySilent
<1> DEFINE ch == st[k]
<1>2. [ch EXCEPT !.users = S!Refresh(@, u)] = ch
  <2> HIDE DEF ch
  <2>1. ch \in S!Channel => [ch EXCEPT !.users = ch.users] = ch
    BY DEF S!Channel
  <2>2. S!Refresh(ch.users, u) = ch.users /\ ch \in S!Channel
    BY <1>1 DEF ch
  <2> QED  BY <2>1, <2>2
<1> DEFINE d == [ch EXCEPT !.users = S!Refresh(@, u)]
<1>3. [st EXCEPT ![k].users = S!Refresh(@, u)] = [st EXCEPT ![k] = d]
  OBVIOUS
<1>4. d = st[k]
  BY <1>2
<1>5. st \in [DOMAIN st -> S!Channel]
  BY DEF Calm, StateTypes
<1> HIDE DEF d
<1> QED  BY <1>3, <1>4, <1>5

LEMMA ReconnectIdle ==
    ASSUME Calm, OneChannel, NEW k \in S!Keys, NEW name, NEW addr, S!Reconnect(k, name, addr)
    PROVE  /\ st' = st /\ UNCHANGED <<main, notifyKey, snapshot, hb, unvisited, toCleanup, notes>>
           /\ \A p \in out' : p.type \in Harmless
<1>1. PICK u \in st[k].users :
        /\ st' = [S!Sweep(k, name, addr) EXCEPT ![k].users = S!Refresh(@, u)]
        /\ out' = {S!Welcome(addr, st[k].channel_id, u.peer_id)}
  BY DEF S!Reconnect
<1>2. k \in DOMAIN st /\ UNCHANGED <<main, notifyKey, snapshot, hb, unvisited, toCleanup, notes>>
  BY DEF S!Reconnect, S!mainVars, S!hbVars
<1>3. S!Sweep(k, name, addr) = st
  <2>1. \A q \in DOMAIN st : q = k
    BY <1>2 DEF OneChannel, Calm, StateTypes
  <2>2. st = [q \in DOMAIN st |-> st[q]]
    BY DEF Calm, StateTypes
  <2> QED  BY <2>1, <2>2 DEF S!Sweep
<1>4. st' = st
  BY <1>1, <1>2, <1>3, RefreshesNobody
<1>5. \A p \in out' : p.type \in Harmless
  <2>1. S!Welcome(addr, st[k].channel_id, u.peer_id).type = "WELCOME"
    BY DEF S!Welcome
  <2> QED  BY <1>1, <2>1 DEF Harmless
<1> QED  BY <1>2, <1>4, <1>5

LEMMA PongIdle ==
    ASSUME Calm, NEW addr, S!Pong(addr)
    PROVE  /\ st' = st /\ UNCHANGED <<main, notifyKey, snapshot, hb, unvisited, toCleanup, notes>>
           /\ \A p \in out' : p.type \in Harmless
<1> DEFINE here(k) == {u \in st[k].users : u.addr = addr}
           next(k) == IF here(k) = {} THEN st[k]
                      ELSE [st[k] EXCEPT !.users = S!Refresh(@, S!First(here(k)))]
<1>1. /\ st' = [k \in DOMAIN st |-> next(k)] /\ out' = {}
      /\ UNCHANGED <<main, notifyKey, snapshot, hb, unvisited, toCleanup, notes>>
  BY DEF S!Pong, S!mainVars, S!hbVars
<1>2. ASSUME NEW k \in DOMAIN st
      PROVE  next(k) = st[k]
  <2>1. CASE here(k) = {}
    BY <2>1
  <2>2. CASE here(k) # {}
    <3> DEFINE u == S!First(here(k))
    <3>1. st[k] \in S!Channel /\ here(k) \in SUBSET S!User
      BY NobodySilent
    <3>2. u \in here(k)
      <4> DEFINE H == here(k)
      <4>1. H \in SUBSET S!User /\ H # {}
        BY <2>2, <3>1
      <4> HIDE DEF H
      <4>2. S!First(H) \in H
        BY <4>1, FirstIsLeast
      <4> QED  BY <4>2 DEF H
    <3> HIDE DEF u
    <3>3. S!Refresh(st[k].users, u) = st[k].users
      BY <3>2, NobodySilent
    <3>4. \A ch \in S!Channel : [ch EXCEPT !.users = ch.users] = ch
      BY DEF S!Channel
    <3>5. next(k) = [st[k] EXCEPT !.users = S!Refresh(st[k].users, u)]
      BY <2>2 DEF u
    <3> QED  BY <3>1, <3>3, <3>4, <3>5
  <2> QED  BY <2>1, <2>2
<1>3. st = [k \in DOMAIN st |-> st[k]]
  BY DEF Calm, StateTypes
<1>4. st' = [k \in DOMAIN st |-> st[k]]
  BY <1>1, <1>2
<1>5. st' = st
  BY <1>3, <1>4
<1> QED  BY <1>1, <1>5

LEMMA ForwardDataIdle ==
    ASSUME NEW src, NEW sender, S!ForwardData(src, sender)
    PROVE  /\ st' = st /\ UNCHANGED <<main, notifyKey, snapshot, hb, unvisited, toCleanup, notes>>
           /\ \A p \in out' : p.type \in Harmless
<1>1. PICK k \in DOMAIN st : out' = {S!Data(u.addr, sender) : u \in S!DataReceivers(st[k], src, sender)}
  BY DEF S!ForwardData
<1>2. \A p \in out' : p.type \in Harmless
  <2> SUFFICES ASSUME NEW u
               PROVE  S!Data(u.addr, sender).type \in Harmless
    BY <1>1
  <2>1. S!Data(u.addr, sender).type = "DATA"
    BY DEF S!Data
  <2> QED  BY <2>1 DEF Harmless
<1> QED  BY <1>2 DEF S!ForwardData, S!mainVars, S!hbVars

LEMMA ServerIgnoresCalm ==
    ASSUME Calm, ServerIgnores
    PROVE  Calm'
<1>1. PICK m \in Arriving(Server) : net' = Without(Server, m)
  BY DEF ServerIgnores
<1>2. /\ st' = st /\ main' = main /\ notifyKey' = notifyKey /\ clients' = clients /\ starts' = starts
      /\ UNCHANGED <<main, notifyKey, snapshot, hb, unvisited, toCleanup, notes>>
  BY DEF ServerIgnores, serverVars
<1> PICK taken : taken = {<<Server, m>>}
  OBVIOUS
<1> PICK packets : packets = {}
  OBVIOUS
<1>3. Server \in DOMAIN net /\ Sequences
  BY DEF Calm, StateTypes
<1>4. Moved(net, net', taken, Server, packets)
  BY <1>1, <1>3, WithoutMoves
<1>5. \A n \in Running : \A x : <<clients[n].addr, x>> \notin taken
  BY TakenAtServer
<1>6. Tasks'
  BY <1>2, SameTasks
<1>7. \A p \in packets : p.type \in Harmless
  OBVIOUS
<1> QED  BY <1>2, <1>4, <1>5, <1>6, <1>7, IdleCalm

----------------------------------------------------------------------------
(* The heartbeat *)

LEMMA ServerTicks ==
    ASSUME Calm, S!Tick, ServerSends, clients' = clients, starts' = starts
    PROVE  Calm'
<1>1. /\ st' = st /\ main' = main /\ notifyKey' = notifyKey /\ out' = {} /\ snapshot' = snapshot
      /\ hb' = "collect" /\ unvisited' = DOMAIN st /\ toCleanup' = toCleanup /\ notes' = notes
  BY DEF S!Tick, S!mainVars
<1>2. Tasks'
  BY <1>1 DEF Calm, Tasks, S!Lone
<1>3. \A p \in out' : p.type \in Harmless
  BY <1>1
<1> PICK packets : packets = out'
  OBVIOUS
<1>4. net' = Carried(net, Server, packets) /\ \A p \in packets : p.type \in Harmless
  BY <1>1 DEF ServerSends
<1> QED  BY <1>1, <1>2, <1>4, ServerSendsCalm

LEMMA NobodyExpires ==
    ASSUME Calm, NEW k, S!ExpireUser(k)
    PROVE  FALSE
<1>1. k \in DOMAIN st
  BY DEF S!ExpireUser, Calm, Tasks
<1> QED  BY <1>1, NobodySilent DEF S!ExpireUser

LEMMA NothingToClean ==
    ASSUME Calm, S!Cleanup
    PROVE  FALSE
BY DEF Calm, Tasks, S!Cleanup

LEMMA SendNotesCalm ==
    ASSUME Calm, S!SendNotes, ServerSends, clients' = clients, starts' = starts
    PROVE  Calm'
<1>1. /\ st' = st /\ main' = main /\ notifyKey' = notifyKey /\ out' = notes /\ snapshot' = snapshot
      /\ hb' = "tick" /\ unvisited' = unvisited /\ toCleanup' = toCleanup /\ notes' = {}
  BY DEF S!SendNotes, S!mainVars, Calm, Tasks
<1>2. Tasks'
  BY <1>1 DEF Calm, Tasks, S!Lone
<1> PICK packets : packets = notes
  OBVIOUS
<1>3. net' = Carried(net, Server, packets)
  BY <1>1 DEF ServerSends
<1>4. \A p \in packets : p.type \in Harmless
  BY DEF Calm, Tasks, Harmless
<1> QED  BY <1>1, <1>2, <1>3, <1>4, ServerSendsCalm

\* A channel gets another relay, or none.
LEMMA OtherRelay ==
    ASSUME StateTypes, NEW k \in DOMAIN st, NEW r \in Names \cup {None},
           st' = [st EXCEPT ![k].relay = r]
    PROVE  /\ DOMAIN st' = DOMAIN st /\ st' \in [DOMAIN st' -> S!Channel]
           /\ st'[k].relay = r /\ st'[k].users = st[k].users /\ st'[k].next_peer_id = st[k].next_peer_id
           /\ \A q \in DOMAIN st : q # k => st'[q] = st[q]
<1>1. st \in [DOMAIN st -> S!Channel] /\ st[k] \in S!Channel
  BY DEF StateTypes
<1> DEFINE d == [st[k] EXCEPT !.relay = r]
<1>2. d \in S!Channel /\ d.relay = r /\ d.users = st[k].users /\ d.next_peer_id = st[k].next_peer_id
  <2>1. \A ch \in S!Channel :
          /\ [ch EXCEPT !.relay = r] \in S!Channel /\ [ch EXCEPT !.relay = r].relay = r
          /\ [ch EXCEPT !.relay = r].users = ch.users
          /\ [ch EXCEPT !.relay = r].next_peer_id = ch.next_peer_id
    BY DEF S!Channel
  <2> QED  BY <1>1, <2>1
<1>3. st' = [st EXCEPT ![k] = d]
  OBVIOUS
<1> HIDE DEF d
<1> QED  BY <1>1, <1>2, <1>3

LEMMA SameRelay ==
    ASSUME StateTypes, NEW k \in DOMAIN st
    PROVE  [st EXCEPT ![k].relay = st[k].relay] = st
<1>1. st \in [DOMAIN st -> S!Channel] /\ st[k] \in S!Channel
  BY DEF StateTypes
<1> DEFINE d == [st[k] EXCEPT !.relay = st[k].relay]
<1>2. d = st[k]
  <2>1. \A ch \in S!Channel : [ch EXCEPT !.relay = ch.relay] = ch
    BY DEF S!Channel
  <2> QED  BY <1>1, <2>1
<1>3. [st EXCEPT ![k].relay = st[k].relay] = [st EXCEPT ![k] = d]
  OBVIOUS
<1> HIDE DEF d
<1> QED  BY <1>1, <1>2, <1>3

\* A lone user that the server serves is no relay any more.
LEMMA SettleCalm ==
    ASSUME Calm, OneChannel, NEW k \in S!Keys, S!SettleChannel(k), ServerSends,
           clients' = clients, starts' = starts
    PROVE  Calm'
<1>1. StateTypes /\ Members /\ Tasks /\ Roles /\ Pairs
  BY DEF Calm
<1>2. /\ k \in DOMAIN st /\ main' = main /\ notifyKey' = notifyKey /\ out' = {}
      /\ snapshot' = snapshot /\ hb' = hb
      /\ toCleanup' = {} /\ unvisited' \subseteq unvisited
  BY <1>1 DEF Tasks, Members, S!SettleChannel, S!FindEmpty, S!mainVars
<1> DEFINE U == st[k].users
<1>3. U \in SUBSET S!User
  BY <1>2, NobodySilent
<1> PICK packets : packets = {}
  OBVIOUS
<1>4. net' = Carried(net, Server, packets)
  BY <1>2 DEF ServerSends
<1>5. CASE st' = st /\ \A p \in notes' : p.type \in {"PING", "MODE SERVER_RELAY"}
  <2>1. Tasks'
    BY <1>1, <1>2, <1>5 DEF Tasks, S!Lone
  <2>2. \A p \in packets : p.type \in Harmless
    OBVIOUS
  <2> QED  BY <1>2, <1>4, <1>5, <2>1, <2>2, ServerSendsCalm
<1>6. CASE ~S!Lone(U)
  <2>1. st' = st /\ notes' = notes
    BY <1>6 DEF S!SettleChannel
  <2> QED  BY <1>1, <1>5, <2>1 DEF Tasks
<1>7. CASE S!Lone(U)
  <2>1. PICK u \in U : U = {u}
    BY <1>7 DEF S!Lone
  <2>2. S!First(U) = u
    BY <1>3, <2>1, FirstIsLeast
  <2>3. CASE S!HeartbeatEligible(u)
    <3>1. st[k].relay = u.name
      BY <1>1, <1>2, <2>1, <2>3 DEF Roles, S!HeartbeatEligible
    <3>2. st' = [st EXCEPT ![k].relay = u.name] /\ notes' = notes \cup {S!Ping(u.addr)}
      BY <1>7, <2>2, <2>3 DEF S!SettleChannel
    <3>3. st' = st
      BY <1>1, <1>2, <3>1, <3>2, SameRelay
    <3>4. S!Ping(u.addr).type = "PING"
      BY DEF S!Ping
    <3> QED  BY <1>1, <1>5, <3>2, <3>3, <3>4 DEF Tasks
  <2>4. CASE ~S!HeartbeatEligible(u)
    <3>1. st' = [st EXCEPT ![k].relay = None] /\ notes' = notes \cup {S!ModeServerRelay(u.addr, u.name)}
      BY <1>7, <2>2, <2>4 DEF S!SettleChannel
    <3>2. S!ModeServerRelay(u.addr, u.name).type = "MODE SERVER_RELAY"
      BY DEF S!ModeServerRelay
    <3>3. /\ DOMAIN st' = DOMAIN st /\ st' \in [DOMAIN st' -> S!Channel]
          /\ st'[k].relay = None /\ st'[k].users = U /\ st'[k].next_peer_id = st[k].next_peer_id
      BY <1>1, <1>2, <3>1, OtherRelay
    <3>4. \A q \in DOMAIN st : q = k
      BY <1>1, <1>2 DEF OneChannel, StateTypes
    <3>5. \A a : MemberAt(a) => MemberAt(a)'
      BY <3>3, <3>4 DEF MemberAt
    <3> PICK taken : taken = {}
      OBVIOUS
    <3>6. Moved(net, net', taken, Server, packets)
      BY <1>1, <1>4, CarriedMoves DEF StateTypes
    <3>7. \A p \in packets : p.to \in DOMAIN net => Proper(p.to, <<Server, p>>)'
      OBVIOUS
    <3>8. /\ clients' \in [Names -> Process \cup {None}]
          /\ DOMAIN net' = Addrs \cup {Server} /\ Sequences'
          /\ Processes' /\ Mail' /\ Tables'
      BY <3>5, <3>6, <3>7, NoClient
    <3>9. StateTypes'
      BY <1>1, <3>3, <3>8 DEF StateTypes
    <3>10. Members'
      BY <1>1, <3>3, <3>4 DEF Members, Beating, Running
    <3>11. Tasks'
      <4>1. \A p \in notes' : p.type \in {"PING", "MODE SERVER_RELAY"}
        BY <1>1, <3>1, <3>2 DEF Tasks
      <4>2. main = "notify" => snapshot = st'[notifyKey].users
        BY <1>1, <3>3, <3>4 DEF Tasks
      <4> QED  BY <1>1, <1>2, <3>3, <4>1, <4>2 DEF Tasks, S!Lone
    <3>12. None # u.name
      BY <1>3, <2>1, PiercerAssumption DEF S!User
    <3>13. Roles'
      BY <2>1, <2>4, <3>3, <3>4, <3>12 DEF Roles, S!Eligible, S!HeartbeatEligible
    <3>14. Pairs'
      BY <2>1, <3>3, <3>4 DEF Pairs
    <3> QED  BY <3>8, <3>9, <3>10, <3>11, <3>13, <3>14 DEF Calm
  <2> QED  BY <2>3, <2>4
<1> QED  BY <1>6, <1>7

----------------------------------------------------------------------------
(* What the server tells a client *)

LEMMA SentByServer ==
    ASSUME StateTypes, NEW taken, NEW packets, Moved(net, net', taken, Server, packets),
           NEW p \in packets, NEW b \in Addrs, p.to = b, p.type \in PacketTypes
    PROVE  /\ <<Server, p>> \in Contents(net'[b])
           /\ \A x \in Contents(net[b]) : <<b, x>> \notin taken => InOrder(net'[b], x, <<Server, p>>)
           /\ \A q \in packets : q.to = b /\ p.type = "MODE SERVER_RELAY" /\ q.type = "MODE RELAY"
                                 => InOrder(net'[b], <<Server, q>>, <<Server, p>>)
<1>1. b \in DOMAIN net /\ Arrives(Server, b)
  BY DEF StateTypes, Arrives
<1> DEFINE gone == {x \in Contents(net[b]) : <<b, x>> \in taken}
<1>2. MovedAt(net[b], net'[b], b, gone, Server, packets)
  BY <1>1 DEF Moved
<1> HIDE DEF gone
<1>3. /\ <<Server, p>> \in Contents(net'[b])
      /\ \A x \in Contents(net[b]) : x \notin gone => InOrder(net'[b], x, <<Server, p>>)
      /\ \A q \in packets : q.to = b /\ p.type = "MODE SERVER_RELAY" /\ q.type = "MODE RELAY"
                                 => InOrder(net'[b], <<Server, q>>, <<Server, p>>)
  BY <1>1, <1>2 DEF MovedAt
<1> QED  BY <1>3 DEF gone

LEMMA ServerTells ==
    ASSUME StateTypes, NEW n \in Running, clients' = clients,
           NEW taken, NEW packets, Moved(net, net', taken, Server, packets),
           \A x : <<clients[n].addr, x>> \notin taken
    PROVE  /\ (\E p \in packets : p.to = clients[n].addr /\ p.type = "MODE RELAY") => Told(n)'
           /\ \A o : (\E p \in packets : /\ p.to = clients[n].addr /\ p.type = "MODE DIRECT"
                                         /\ p.name = o /\ p.addr = clients[o].addr)
                     => Knows(n, o)'
           /\ /\ \/ Told(n)
                 \/ \E p \in packets : p.to = clients[n].addr /\ p.type = "MODE RELAY"
              /\ \E p \in packets : /\ p.to = clients[n].addr /\ p.type = "MODE SERVER_RELAY"
                                    /\ p.name # n
              => WillMirror(n)'
<1> PICK b : b = clients[n].addr
  OBVIOUS
<1>1. b \in Addrs
  BY RunningProcess
<1> DEFINE s == net[b]
           t == net'[b]
<1>2. \A p \in packets : p.to = b /\ p.type \in PacketTypes
        => /\ <<Server, p>> \in Contents(t)
           /\ \A x \in Contents(s) : InOrder(t, x, <<Server, p>>)
           /\ \A q \in packets : q.to = b /\ p.type = "MODE SERVER_RELAY" /\ q.type = "MODE RELAY"
                                 => InOrder(t, <<Server, q>>, <<Server, p>>)
  BY <1>1, SentByServer
<1>3. {"MODE DIRECT", "MODE RELAY", "MODE SERVER_RELAY"} \subseteq PacketTypes
  BY DEF PacketTypes
<1>4. \A x, y : InOrder(t, x, y) => x \in Contents(t)
  BY DEF InOrder, Contents
<1>5. /\ Told(n) <=> clients[n].is_relay \/ \E m \in Contents(s) : m[2].type = "MODE RELAY"
      /\ Told(n)' <=> clients[n].is_relay \/ \E m \in Contents(t) : m[2].type = "MODE RELAY"
  BY DEF Told
<1>6. WillMirror(n)' <=>
          \/ clients[n].channel_has_server_relays
          \/ \E o \in Contents(t) :
               /\ ServedOther(n, o)
               /\ \/ clients[n].is_relay
                  \/ \E m \in Contents(t) : m[2].type = "MODE RELAY" /\ InOrder(t, m, o)
  BY DEF WillMirror, ServedOther
<1>7. \A o : Knows(n, o)' <=>
          \/ \E p \in clients[n].peers : p.username = o /\ p.addr = clients[o].addr
          \/ \E m \in Contents(t) : m[2].type = "MODE DIRECT" /\ m[2].name = o /\ m[2].addr = clients[o].addr
  BY DEF Knows
<1> HIDE DEF s, t
<1>8. ASSUME NEW p \in packets, p.to = b, p.type = "MODE RELAY"
      PROVE  Told(n)'
  <2>1. <<Server, p>> \in Contents(t)
    BY <1>2, <1>3, <1>8
  <2>2. <<Server, p>>[2].type = "MODE RELAY"
    BY <1>8
  <2> QED  BY <1>5, <2>1, <2>2
<1>9. ASSUME NEW o, NEW p \in packets, p.to = b, p.type = "MODE DIRECT", p.name = o, p.addr = clients[o].addr
      PROVE  Knows(n, o)'
  <2>1. <<Server, p>> \in Contents(t)
    BY <1>2, <1>3, <1>9
  <2>2. <<Server, p>>[2] = p
    OBVIOUS
  <2> QED  BY <1>7, <1>9, <2>1, <2>2
<1>10. ASSUME NEW p \in packets, p.to = b, p.type = "MODE SERVER_RELAY", p.name # n,
              \/ Told(n)
              \/ \E q \in packets : q.to = b /\ q.type = "MODE RELAY"
       PROVE  WillMirror(n)'
  <2> DEFINE o == <<Server, p>>
  <2>1. /\ o \in Contents(t) /\ \A x \in Contents(s) : InOrder(t, x, o)
        /\ \A q \in packets : q.to = b /\ q.type = "MODE RELAY" => InOrder(t, <<Server, q>>, o)
    BY <1>2, <1>3, <1>10
  <2>2. ServedOther(n, o)
    BY <1>10 DEF ServedOther
  <2> HIDE DEF o
  <2>3. CASE clients[n].is_relay
    BY <1>6, <2>1, <2>2, <2>3
  <2>4. CASE \E m \in Contents(s) : m[2].type = "MODE RELAY"
    <3>1. PICK m \in Contents(s) : m[2].type = "MODE RELAY"
      BY <2>4
    <3> QED  BY <1>4, <1>6, <2>1, <2>2, <3>1
  <2>5. CASE \E q \in packets : q.to = b /\ q.type = "MODE RELAY"
    <3>1. PICK q \in packets : q.to = b /\ q.type = "MODE RELAY"
      BY <2>5
    <3>2. InOrder(t, <<Server, q>>, o) /\ <<Server, q>>[2].type = "MODE RELAY"
      BY <2>1, <3>1
    <3> QED  BY <1>4, <1>6, <2>1, <2>2, <3>2
  <2> QED  BY <1>5, <1>10, <2>3, <2>4, <2>5
<1> QED  BY <1>8, <1>9, <1>10

\* A relay hears of another user that the server serves.
LEMMA ServerTellsRelay ==
    ASSUME StateTypes, NEW n \in Running, clients' = clients,
           NEW taken, NEW packets, Moved(net, net', taken, Server, packets),
           \A x : <<clients[n].addr, x>> \notin taken,
           \/ Told(n)
           \/ \E p \in packets : p.to = clients[n].addr /\ p.type = "MODE RELAY",
           NEW q \in packets, q.to = clients[n].addr, q.type = "MODE SERVER_RELAY", q.name # n
    PROVE  WillMirror(n)'
<1>1. /\ \/ Told(n)
         \/ \E p \in packets : p.to = clients[n].addr /\ p.type = "MODE RELAY"
      /\ \E p \in packets : /\ p.to = clients[n].addr /\ p.type = "MODE SERVER_RELAY"
                            /\ p.name # n
  OBVIOUS
<1>2. /\ \/ Told(n)
         \/ \E p \in packets : p.to = clients[n].addr /\ p.type = "MODE RELAY"
      /\ \E p \in packets : /\ p.to = clients[n].addr /\ p.type = "MODE SERVER_RELAY"
                            /\ p.name # n
      => WillMirror(n)'
  BY ServerTells
<1> QED  BY <1>1, <1>2, Zenon

\* What a join tells the channel.
Announces(packets, users, r, changed) ==
    /\ \A p \in packets :
         \/ /\ p.type = "MODE DIRECT"
            /\ \E u \in users : /\ p.name = u.name /\ p.addr = u.addr
                                /\ u = r \/ ~u.needs_server_relay
            /\ p.to = r.addr \/ p.name = r.name
         \/ p.type = "MODE RELAY" /\ p.to = r.addr
         \/ p.type = "MODE SERVER_RELAY" /\ \E u \in users : p.name = u.name /\ u.needs_server_relay
    /\ changed => \E p \in packets : p.to = r.addr /\ p.type = "MODE RELAY"
    /\ \A u \in users : u.name # r.name =>
         IF u.needs_server_relay
         THEN /\ \E p \in packets : p.to = r.addr /\ p.type = "MODE SERVER_RELAY" /\ p.name = u.name
              /\ \E p \in packets : p.to = u.addr /\ p.type = "MODE SERVER_RELAY" /\ p.name = u.name
         ELSE /\ \E p \in packets : /\ p.to = r.addr /\ p.type = "MODE DIRECT"
                                    /\ p.name = u.name /\ p.addr = u.addr
              /\ \E p \in packets : /\ p.to = u.addr /\ p.type = "MODE DIRECT"
                                    /\ p.name = r.name /\ p.addr = r.addr

LEMMA JoinAnnounces ==
    ASSUME NEW users, NEW r \in users, NEW changed \in BOOLEAN
    PROVE  Announces(S!JoinNotices(users, r, changed), users, r, changed)
<1> DEFINE others == {u \in users : u.name # r.name}
           served == {u \in others : u.needs_server_relay}
           direct == others \ served
           A == {S!ModeDirect(r.addr, p.name, p.addr) : p \in direct}
           B == {S!ModeDirect(p.addr, r.name, r.addr) : p \in direct}
           C == IF changed THEN {S!ModeRelay(r.addr)} ELSE {}
           D == {S!ModeServerRelay(s.addr, s.name) : s \in served}
           E == {S!ModeServerRelay(r.addr, s.name) : s \in served}
           packets == S!JoinNotices(users, r, changed)
<1>1. packets = A \cup B \cup C \cup D \cup E
  BY DEF S!JoinNotices, S!Introductions
<1>3. ASSUME NEW p \in packets
      PROVE  \/ /\ p.type = "MODE DIRECT"
                /\ \E u \in users : /\ p.name = u.name /\ p.addr = u.addr
                                    /\ u = r \/ ~u.needs_server_relay
                /\ p.to = r.addr \/ p.name = r.name
             \/ p.type = "MODE RELAY" /\ p.to = r.addr
             \/ p.type = "MODE SERVER_RELAY" /\ \E u \in users : p.name = u.name /\ u.needs_server_relay
  <2>1. \/ \E u \in users : ~u.needs_server_relay /\ p = S!ModeDirect(r.addr, u.name, u.addr)
        \/ \E u \in users : p = S!ModeDirect(u.addr, r.name, r.addr)
        \/ p = S!ModeRelay(r.addr)
        \/ \E s \in users : s.needs_server_relay /\ p = S!ModeServerRelay(s.addr, s.name)
        \/ \E s \in users : s.needs_server_relay /\ p = S!ModeServerRelay(r.addr, s.name)
    BY <1>1
  <2>2. ASSUME NEW u \in users, p = S!ModeDirect(r.addr, u.name, u.addr)
        PROVE  p.type = "MODE DIRECT" /\ p.name = u.name /\ p.addr = u.addr /\ p.to = r.addr
    BY <2>2 DEF S!ModeDirect
  <2>3. ASSUME NEW u \in users, p = S!ModeDirect(u.addr, r.name, r.addr)
        PROVE  p.type = "MODE DIRECT" /\ p.name = r.name /\ p.addr = r.addr
    BY <2>3 DEF S!ModeDirect
  <2>4. ASSUME NEW to, NEW name, p = S!ModeServerRelay(to, name)
        PROVE  p.type = "MODE SERVER_RELAY" /\ p.name = name
    BY <2>4 DEF S!ModeServerRelay
  <2>5. ASSUME p = S!ModeRelay(r.addr)
        PROVE  p.type = "MODE RELAY" /\ p.to = r.addr
    BY <2>5 DEF S!ModeRelay
  <2> HIDE DEF packets
  <2> QED  BY <2>1, <2>2, <2>3, <2>4, <2>5
<1>4. ASSUME changed
      PROVE  \E p \in packets : p.to = r.addr /\ p.type = "MODE RELAY"
  <2> DEFINE p == S!ModeRelay(r.addr)
  <2>1. p \in packets
    BY <1>1, <1>4
  <2>2. p.to = r.addr /\ p.type = "MODE RELAY"
    BY DEF S!ModeRelay
  <2> HIDE DEF packets, p
  <2> QED  BY <2>1, <2>2
<1>5. ASSUME NEW u \in users, u.name # r.name, u.needs_server_relay
      PROVE  /\ \E p \in packets : p.to = r.addr /\ p.type = "MODE SERVER_RELAY" /\ p.name = u.name
             /\ \E p \in packets : p.to = u.addr /\ p.type = "MODE SERVER_RELAY" /\ p.name = u.name
  <2> DEFINE p == S!ModeServerRelay(r.addr, u.name)
             q == S!ModeServerRelay(u.addr, u.name)
  <2>1. p \in packets /\ q \in packets
    BY <1>1, <1>5
  <2>2. /\ p.to = r.addr /\ p.type = "MODE SERVER_RELAY" /\ p.name = u.name
        /\ q.to = u.addr /\ q.type = "MODE SERVER_RELAY" /\ q.name = u.name
    BY DEF S!ModeServerRelay
  <2> HIDE DEF packets, p, q
  <2> QED  BY <2>1, <2>2
<1>6. ASSUME NEW u \in users, u.name # r.name, ~u.needs_server_relay
      PROVE  /\ \E p \in packets : /\ p.to = r.addr /\ p.type = "MODE DIRECT"
                                   /\ p.name = u.name /\ p.addr = u.addr
             /\ \E p \in packets : /\ p.to = u.addr /\ p.type = "MODE DIRECT"
                                   /\ p.name = r.name /\ p.addr = r.addr
  <2> DEFINE p == S!ModeDirect(r.addr, u.name, u.addr)
             q == S!ModeDirect(u.addr, r.name, r.addr)
  <2>1. p \in packets /\ q \in packets
    BY <1>1, <1>6
  <2>2. /\ p.to = r.addr /\ p.type = "MODE DIRECT" /\ p.name = u.name /\ p.addr = u.addr
        /\ q.to = u.addr /\ q.type = "MODE DIRECT" /\ q.name = r.name /\ q.addr = r.addr
    BY DEF S!ModeDirect
  <2> HIDE DEF packets, p, q
  <2> QED  BY <2>1, <2>2
<1> HIDE DEF packets
<1>7. Announces(packets, users, r, changed)
  BY <1>3, <1>4, <1>5, <1>6 DEF Announces
<1> QED  BY <1>7 DEF packets

LEMMA AppointCalm ==
    ASSUME Calm, OneChannel, S!AppointRelay, ServerSends, clients' = clients, starts' = starts
    PROVE  Calm'
<1>1. StateTypes /\ Processes /\ Members /\ Tasks /\ Roles
  BY DEF Calm
<1> PICK k : k = notifyKey
  OBVIOUS
<1> PICK U : U = snapshot
  OBVIOUS
<1>2. /\ main = "notify" /\ k \in DOMAIN st /\ U = st[k].users /\ ~S!Lone(U)
      /\ \A q \in DOMAIN st : q = k
  BY <1>1 DEF Tasks, S!AppointRelay, OneChannel, StateTypes
<1>3. U \in SUBSET S!User
  BY <1>2, NobodySilent
<1> PICK r : r = S!First(S!EligibleUsers(U))
  OBVIOUS
<1>4. r \in U /\ S!Eligible(r) /\ \A v \in S!EligibleUsers(U) : r.peer_id <= v.peer_id
  <2>1. S!EligibleUsers(U) \in SUBSET S!User /\ S!EligibleUsers(U) # {}
    BY <1>3 DEF S!AppointRelay, S!EligibleUsers
  <2>2. r \in S!EligibleUsers(U) /\ \A v \in S!EligibleUsers(U) : r.peer_id <= v.peer_id
    BY <2>1, FirstIsLeast
  <2> QED  BY <2>2 DEF S!EligibleUsers
<1> PICK changed \in BOOLEAN : changed = (st[k].relay # r.name)
  OBVIOUS
<1> PICK packets : packets = out'
  OBVIOUS
<1>5. /\ st' = [st EXCEPT ![k].relay = r.name]
      /\ packets = S!JoinNotices(U, r, changed)
      /\ main' = "recv" /\ hb' = hb /\ unvisited' = unvisited /\ toCleanup' = toCleanup /\ notes' = notes
  BY <1>2 DEF S!AppointRelay, S!PickEligible, S!SetRelay, S!BackToRecv, S!hbVars
<1>6. Announces(packets, U, r, changed)
  BY <1>4, <1>5, JoinAnnounces
<1>7. r.name \in Names /\ r.name # None
  BY <1>3, <1>4, PiercerAssumption DEF S!User
<1>8. /\ DOMAIN st' = DOMAIN st /\ st' \in [DOMAIN st' -> S!Channel]
      /\ st'[k].relay = r.name /\ st'[k].users = U /\ st'[k].next_peer_id = st[k].next_peer_id
  BY <1>1, <1>2, <1>5, <1>7, OtherRelay
<1>9. /\ \A u \in U : u.name \in Running /\ clients[u.name].addr = u.addr
      /\ \A u, v \in U : u.peer_id = v.peer_id \/ u.name = v.name => u = v
      /\ \A u, v \in U : u.addr = v.addr => u = v
  BY <1>1, <1>2 DEF Members, Beating, Processes
<1>10. MemberAt(r.addr)' /\ \A a : MemberAt(a) => MemberAt(a)'
  BY <1>2, <1>4, <1>8 DEF MemberAt
<1> PICK taken : taken = {}
  OBVIOUS
<1>11. Moved(net, net', taken, Server, packets)
  BY <1>1, CarriedMoves DEF ServerSends, StateTypes
<1>12. ASSUME NEW p \in packets
       PROVE  Proper(p.to, <<Server, p>>)'
  <2>1. \/ p.type = "MODE DIRECT" /\ \E u \in U : p.name = u.name /\ p.addr = u.addr
        \/ p.type = "MODE RELAY" /\ p.to = r.addr
        \/ p.type = "MODE SERVER_RELAY"
    <3>1. \/ /\ p.type = "MODE DIRECT"
             /\ \E u \in U : p.name = u.name /\ p.addr = u.addr /\ (u = r \/ ~u.needs_server_relay)
             /\ p.to = r.addr \/ p.name = r.name
          \/ p.type = "MODE RELAY" /\ p.to = r.addr
          \/ p.type = "MODE SERVER_RELAY" /\ \E u \in U : p.name = u.name /\ u.needs_server_relay
      BY <1>6 DEF Announces
    <3> QED  BY <3>1
  <2>2. Running' = Running
    BY DEF Running
  <2>3. <<Server, p>>[2] = p
    OBVIOUS
  <2> QED  BY <1>9, <1>10, <2>1, <2>2, <2>3 DEF Proper
<1>13. /\ clients' \in [Names -> Process \cup {None}]
       /\ DOMAIN net' = Addrs \cup {Server} /\ Sequences'
       /\ Processes' /\ Mail' /\ Tables'
  BY <1>10, <1>11, <1>12, NoClient
<1>14. StateTypes'
  BY <1>1, <1>8, <1>13 DEF StateTypes
<1>15. Members'
  BY <1>1, <1>2, <1>8 DEF Members, Beating, Running
<1>16. Tasks'
  BY <1>1, <1>5, <1>8 DEF Tasks
<1>17. ASSUME NEW u \in U
       PROVE  /\ Told(u.name)' => Told(u.name) \/ u = r
              /\ Told(u.name) => Told(u.name)'
  <2>1. u.name \in Running /\ \A x : <<clients[u.name].addr, x>> \notin taken
    BY <1>9
  <2>2. /\ Told(u.name) => Told(u.name)'
        /\ Told(u.name)' => \/ Told(u.name)
                            \/ \E p \in packets : p.to = clients[u.name].addr /\ p.type = "MODE RELAY"
    BY <1>1, <1>11, <2>1, Unmoved
  <2>3. \A p \in packets : p.type = "MODE RELAY" => p.to = r.addr
    BY <1>6 DEF Announces
  <2>4. ASSUME NEW p \in packets, p.to = clients[u.name].addr, p.type = "MODE RELAY"
        PROVE  u = r
    <3>1. p.to = u.addr /\ p.to = r.addr
      BY <1>9, <2>3, <2>4
    <3>2. u.addr = r.addr
      BY <3>1
    <3> QED  BY <1>4, <1>9, <3>2
  <2> QED  BY <2>2, <2>4
<1>18. /\ changed => Told(r.name)'
       /\ \A o : (\E p \in packets : /\ p.to = r.addr /\ p.type = "MODE DIRECT"
                                     /\ p.name = o /\ p.addr = clients[o].addr)
                 => Knows(r.name, o)'
       /\ (\E p \in packets : p.to = r.addr /\ p.type = "MODE SERVER_RELAY" /\ p.name # r.name)
          => WillMirror(r.name)'
  <2>1. r.name \in Running /\ clients[r.name].addr = r.addr /\ \A x : <<clients[r.name].addr, x>> \notin taken
    BY <1>4, <1>9
  <2>2. Told(r.name) \/ \E p \in packets : p.to = r.addr /\ p.type = "MODE RELAY"
    BY <1>1, <1>2, <1>4, <1>6 DEF Announces, Roles
  <2>3. changed => \E p \in packets : p.to = r.addr /\ p.type = "MODE RELAY"
    BY <1>6 DEF Announces
  <2> PICK a : a = r.addr
    OBVIOUS
  <2>4. clients[r.name].addr = a
    BY <2>1
  <2>5. /\ (\E p \in packets : p.to = a /\ p.type = "MODE RELAY") => Told(r.name)'
        /\ \A o : (\E p \in packets : /\ p.to = a /\ p.type = "MODE DIRECT"
                                      /\ p.name = o /\ p.addr = clients[o].addr)
                  => Knows(r.name, o)'
        /\ /\ Told(r.name) \/ \E p \in packets : p.to = a /\ p.type = "MODE RELAY"
           /\ \E p \in packets : p.to = a /\ p.type = "MODE SERVER_RELAY" /\ p.name # r.name
           => WillMirror(r.name)'
    <3> PICK n : n = r.name
      OBVIOUS
    <3>1. n \in Running /\ \A x : <<clients[n].addr, x>> \notin taken
      BY <2>1
    <3>2. (\E p \in packets : p.to = clients[n].addr /\ p.type = "MODE RELAY") => Told(n)'
      BY <1>1, <1>11, <3>1, ServerTells
    <3>3. \A o : (\E p \in packets : /\ p.to = clients[n].addr /\ p.type = "MODE DIRECT"
                                      /\ p.name = o /\ p.addr = clients[o].addr)
                 => Knows(n, o)'
      BY <1>1, <1>11, <3>1, ServerTells
    <3>4. /\ Told(n) \/ \E p \in packets : p.to = clients[n].addr /\ p.type = "MODE RELAY"
          /\ \E p \in packets : p.to = clients[n].addr /\ p.type = "MODE SERVER_RELAY" /\ p.name # n
          => WillMirror(n)'
      <4> SUFFICES ASSUME Told(n) \/ \E p \in packets : p.to = clients[n].addr /\ p.type = "MODE RELAY",
                          NEW p \in packets, p.to = clients[n].addr,
                          p.type = "MODE SERVER_RELAY", p.name # n
                   PROVE  WillMirror(n)'
        OBVIOUS
      <4> QED  BY <1>1, <1>11, <3>1, ServerTellsRelay
    <3> QED  BY <2>4, <3>2, <3>3, <3>4
  <2> QED  BY <2>2, <2>3, <2>5
<1>19. Told(r.name)'
  BY <1>1, <1>2, <1>4, <1>17, <1>18 DEF Roles
<1>20. Roles'
  <2>1. \A u \in U : st[k].relay = u.name => Told(u.name)
    BY <1>1, <1>2 DEF Roles
  <2>2. \A u \in U : Told(u.name) /\ S!Eligible(u) => \A v \in S!EligibleUsers(U) : u.peer_id <= v.peer_id
    BY <1>1, <1>2 DEF Roles
  <2>3. ASSUME NEW u \in U, Told(u.name)', S!Eligible(u)
        PROVE  u = r
    <3>1. CASE Told(u.name)
      <4>1. u.peer_id <= r.peer_id /\ r.peer_id <= u.peer_id
        BY <1>4, <2>2, <2>3, <3>1 DEF S!EligibleUsers
      <4>2. u.peer_id \in Nat /\ r.peer_id \in Nat
        BY <1>3, <1>4 DEF S!User
      <4> QED  BY <1>4, <1>9, <4>1, <4>2
    <3> QED  BY <1>17, <2>3, <3>1
  <2>4. \A u \in U : r.name = u.name => u = r
    BY <1>4, <1>9
  <2> QED  BY <1>2, <1>4, <1>8, <1>19, <2>3, <2>4 DEF Roles, S!Lone
<1>21. ASSUME NEW u \in U, u # r
       PROVE  IF u.needs_server_relay THEN WillMirror(r.name)'
              ELSE Knows(r.name, u.name)' /\ Knows(u.name, r.name)'
  <2>1. u.name # r.name /\ clients[u.name].addr = u.addr /\ clients[r.name].addr = r.addr
    BY <1>4, <1>9, <1>21
  <2>2. IF u.needs_server_relay
        THEN \E p \in packets : p.to = r.addr /\ p.type = "MODE SERVER_RELAY" /\ p.name = u.name
        ELSE /\ \E p \in packets : /\ p.to = r.addr /\ p.type = "MODE DIRECT"
                                   /\ p.name = u.name /\ p.addr = u.addr
             /\ \E p \in packets : /\ p.to = u.addr /\ p.type = "MODE DIRECT"
                                   /\ p.name = r.name /\ p.addr = r.addr
    BY <1>6, <2>1 DEF Announces
  <2>3. CASE u.needs_server_relay
    BY <1>18, <2>1, <2>2, <2>3
  <2>4. CASE ~u.needs_server_relay
    <3>1. Knows(r.name, u.name)'
      <4>1. \E p \in packets : /\ p.to = r.addr /\ p.type = "MODE DIRECT"
                               /\ p.name = u.name /\ p.addr = clients[u.name].addr
        BY <2>1, <2>2, <2>4
      <4> QED  BY <1>18, <4>1
    <3>2. Knows(u.name, r.name)'
      <4>1. \E p \in packets : /\ p.to = clients[u.name].addr /\ p.type = "MODE DIRECT"
                               /\ p.name = r.name /\ p.addr = clients[r.name].addr
        BY <2>1, <2>2, <2>4
      <4>2. u.name \in Running /\ \A x : <<clients[u.name].addr, x>> \notin taken
        BY <1>9
      <4> QED  BY <1>1, <1>11, <4>1, <4>2, ServerTells
    <3> QED  BY <2>4, <3>1, <3>2
  <2> QED  BY <2>3, <2>4
<1>22. Pairs'
  BY <1>2, <1>4, <1>8, <1>9, <1>21 DEF Pairs
<1> QED  BY <1>13, <1>14, <1>15, <1>16, <1>20, <1>22 DEF Calm

LEMMA LeaveRelayCalm ==
    ASSUME Calm, OneChannel, S!LeaveRelayToServer, ServerSends, clients' = clients, starts' = starts
    PROVE  Calm'
<1>1. StateTypes /\ Members /\ Tasks
  BY DEF Calm
<1> PICK k : k = notifyKey
  OBVIOUS
<1> PICK U : U = snapshot
  OBVIOUS
<1>2. /\ main = "notify" /\ k \in DOMAIN st /\ U = st[k].users /\ ~S!Lone(U)
      /\ \A q \in DOMAIN st : q = k
  BY <1>1 DEF Tasks, S!LeaveRelayToServer, OneChannel, StateTypes
<1>3. \A u \in U : ~S!Eligible(u) /\ u.name \in Names
  BY <1>2, NobodySilent DEF S!LeaveRelayToServer, S!EligibleUsers, S!User
<1> PICK packets : packets = out'
  OBVIOUS
<1>4. /\ st' = [st EXCEPT ![k].relay = None]
      /\ packets = {S!ModeServerRelay(p[1].addr, p[2].name) : p \in U \X U}
      /\ main' = "recv" /\ hb' = hb /\ unvisited' = unvisited /\ toCleanup' = toCleanup /\ notes' = notes
  BY <1>2 DEF S!LeaveRelayToServer, S!SetRelay, S!BackToRecv, S!hbVars, S!ServerRelayNotices
<1>5. \A p \in packets : p.type = "MODE SERVER_RELAY"
  <2>1. \A to, name : S!ModeServerRelay(to, name).type = "MODE SERVER_RELAY"
    BY DEF S!ModeServerRelay
  <2> SUFFICES ASSUME NEW p \in U \X U
               PROVE  S!ModeServerRelay(p[1].addr, p[2].name).type = "MODE SERVER_RELAY"
    BY <1>4
  <2> QED  BY <2>1, Zenon
<1>6. /\ DOMAIN st' = DOMAIN st /\ st' \in [DOMAIN st' -> S!Channel]
      /\ st'[k].relay = None /\ st'[k].users = U /\ st'[k].next_peer_id = st[k].next_peer_id
  BY <1>1, <1>2, <1>4, OtherRelay
<1> PICK taken : taken = {}
  OBVIOUS
<1>7. Moved(net, net', taken, Server, packets)
  BY <1>1, CarriedMoves DEF ServerSends, StateTypes
<1>8. \A a : MemberAt(a) => MemberAt(a)'
  BY <1>2, <1>6 DEF MemberAt
<1>9. \A p \in packets : p.to \in DOMAIN net => Proper(p.to, <<Server, p>>)'
  BY <1>5 DEF Proper
<1>10. /\ clients' \in [Names -> Process \cup {None}]
       /\ DOMAIN net' = Addrs \cup {Server} /\ Sequences'
       /\ Processes' /\ Mail' /\ Tables'
  BY <1>7, <1>8, <1>9, NoClient
<1>11. StateTypes'
  BY <1>1, <1>6, <1>10 DEF StateTypes
<1>12. Members'
  BY <1>1, <1>2, <1>6 DEF Members, Beating, Running
<1>13. Tasks'
  BY <1>1, <1>4, <1>6 DEF Tasks
<1>14. \A u \in U : None # u.name
  BY <1>3, PiercerAssumption
<1>15. Roles'
  BY <1>2, <1>3, <1>6, <1>14 DEF Roles, S!Lone
<1>16. Pairs'
  BY <1>2, <1>6, <1>14 DEF Pairs
<1> QED  BY <1>10, <1>11, <1>12, <1>13, <1>15, <1>16 DEF Calm

\* A channel gets other users.
LEMMA OtherUsers ==
    ASSUME StateTypes, NEW k \in DOMAIN st, NEW users \in SUBSET S!User,
           st' = [st EXCEPT ![k].users = users]
    PROVE  /\ DOMAIN st' = DOMAIN st /\ st' \in [DOMAIN st' -> S!Channel]
           /\ st'[k].users = users /\ st'[k].relay = st[k].relay
           /\ st'[k].next_peer_id = st[k].next_peer_id
           /\ \A q \in DOMAIN st : q # k => st'[q] = st[q]
<1>1. st \in [DOMAIN st -> S!Channel] /\ st[k] \in S!Channel
  BY DEF StateTypes
<1> DEFINE d == [st[k] EXCEPT !.users = users]
<1>2. d \in S!Channel /\ d.users = users /\ d.relay = st[k].relay /\ d.next_peer_id = st[k].next_peer_id
  <2>1. \A ch \in S!Channel :
          /\ [ch EXCEPT !.users = users] \in S!Channel /\ [ch EXCEPT !.users = users].users = users
          /\ [ch EXCEPT !.users = users].relay = ch.relay
          /\ [ch EXCEPT !.users = users].next_peer_id = ch.next_peer_id
    BY DEF S!Channel
  <2> QED  BY <1>1, <2>1
<1>3. st' = [st EXCEPT ![k] = d]
  OBVIOUS
<1> HIDE DEF d
<1> QED  BY <1>1, <1>2, <1>3

LEMMA RequestRelayCalm ==
    ASSUME Calm, OneChannel, NEW k \in S!Keys, NEW name, S!RequestRelay(k, name),
           NEW m \in Arriving(Server), net' = Carried(Without(Server, m), Server, out'),
           clients' = clients, starts' = starts
    PROVE  Calm'
<1>1. StateTypes /\ Processes /\ Members /\ Tasks /\ Roles /\ Pairs
  BY DEF Calm
<1> PICK U : U = st[k].users
  OBVIOUS
<1> PICK packets : packets = out'
  OBVIOUS
<1> DEFINE f(u) == IF u.name = name THEN [u EXCEPT !.needs_server_relay = TRUE] ELSE u
<1>2. /\ k \in DOMAIN st /\ main = "recv" /\ main' = "recv" /\ \A q \in DOMAIN st : q = k
      /\ st' = [st EXCEPT ![k].users = {f(u) : u \in U}]
      /\ packets = {S!ModeServerRelay(u.addr, name) : u \in U}
      /\ hb' = hb /\ unvisited' = unvisited /\ toCleanup' = toCleanup /\ notes' = notes
  BY <1>1 DEF S!RequestRelay, S!WithUsers, S!Serve, S!mainVars, S!hbVars, OneChannel, StateTypes
<1>3. U \in SUBSET S!User
  BY <1>2, NobodySilent
<1>4. \A u \in U :
        /\ f(u) \in S!User /\ f(u).name = u.name /\ f(u).addr = u.addr /\ f(u).peer_id = u.peer_id
        /\ f(u).silent = u.silent /\ f(u).nat_kind = u.nat_kind
        /\ f(u).needs_server_relay <=> (u.needs_server_relay \/ u.name = name)
  BY <1>3 DEF S!User
<1> PICK V : V = {f(u) : u \in U}
  OBVIOUS
<1>5. /\ \A v \in V : \E u \in U : v = f(u)
      /\ \A u \in U : f(u) \in V
  OBVIOUS
<1>6. V \in SUBSET S!User
  <2>1. \A u \in U : f(u) \in S!User
    BY <1>4
  <2>2. ASSUME NEW v \in V
        PROVE  v \in S!User
    <3>1. PICK u \in U : v = f(u)
      BY <1>5
    <3> HIDE DEF f
    <3> QED  BY <2>1, <3>1
  <2> QED  BY <2>2
<1>7. /\ DOMAIN st' = DOMAIN st /\ st' \in [DOMAIN st' -> S!Channel]
      /\ st'[k].users = V /\ st'[k].relay = st[k].relay /\ st'[k].next_peer_id = st[k].next_peer_id
  <2>1. st' = [st EXCEPT ![k].users = V]
    BY <1>2
  <2> QED  BY <1>1, <1>2, <1>6, <2>1, OtherUsers
<1> HIDE DEF f
<1>8. \A v \in V : \E u \in U :
        /\ v.name = u.name /\ v.addr = u.addr /\ v.peer_id = u.peer_id
        /\ v.silent = u.silent /\ v.nat_kind = u.nat_kind
        /\ v.needs_server_relay <=> (u.needs_server_relay \/ u.name = name)
  BY <1>4, <1>5
<1>9. /\ \A u \in U : Beating(u) /\ u.name \in Running /\ clients[u.name].addr = u.addr
      /\ \A u, v \in U : u.peer_id = v.peer_id \/ u.name = v.name => u = v
  BY <1>1, <1>2 DEF Members, Beating
<1>10. \A a : MemberAt(a) => MemberAt(a)'
  <2> SUFFICES ASSUME NEW a, NEW u \in U, u.addr = a
               PROVE  \E v \in V : v.addr = a
    BY <1>2, <1>7 DEF MemberAt
  <2> QED  BY <1>4, <1>5
<1> PICK taken : taken = {<<Server, m>>}
  OBVIOUS
<1>11. Moved(net, net', taken, Server, packets)
  <2>1. Server \in DOMAIN net /\ Sequences
    BY <1>1 DEF StateTypes
  <2> QED  BY <2>1, AnswerMoves
<1>12. \A n \in Running : \A x : <<clients[n].addr, x>> \notin taken
  BY TakenAtServer
<1>13. /\ \A p \in packets : p.type = "MODE SERVER_RELAY"
       /\ \A u \in U : \E p \in packets : p.to = u.addr /\ p.type = "MODE SERVER_RELAY" /\ p.name = name
  <2>2. \A u \in U : S!ModeServerRelay(u.addr, name) \in packets
    BY <1>2
  <2>3. \A p \in packets : \E u \in U : p = S!ModeServerRelay(u.addr, name)
    BY <1>2
  <2>4. ASSUME NEW p \in packets
        PROVE  p.type = "MODE SERVER_RELAY"
    <3>1. PICK u \in U : p = S!ModeServerRelay(u.addr, name)
      BY <2>3
    <3> QED  BY <3>1 DEF S!ModeServerRelay
  <2>5. ASSUME NEW u \in U
        PROVE  \E p \in packets : p.to = u.addr /\ p.type = "MODE SERVER_RELAY" /\ p.name = name
    <3> PICK p : p = S!ModeServerRelay(u.addr, name)
      OBVIOUS
    <3>1. p \in packets
      BY <2>2
    <3>2. p.to = u.addr /\ p.type = "MODE SERVER_RELAY" /\ p.name = name
      BY DEF S!ModeServerRelay
    <3> QED  BY <3>1, <3>2
  <2> QED  BY <2>4, <2>5
<1>14. \A p \in packets : p.to \in DOMAIN net => Proper(p.to, <<Server, p>>)'
  BY <1>13 DEF Proper
<1>15. /\ clients' \in [Names -> Process \cup {None}]
       /\ DOMAIN net' = Addrs \cup {Server} /\ Sequences'
       /\ Processes' /\ Mail' /\ Tables'
  BY <1>10, <1>11, <1>14, NoClient
<1>16. StateTypes'
  BY <1>1, <1>7, <1>15 DEF StateTypes
<1>17. Tasks'
  BY <1>1, <1>2, <1>7 DEF Tasks
<1>18. Members'
  <2> SUFFICES /\ V # {}
               /\ \A v \in V :
                    /\ Beating(v)' /\ ~v.silent /\ v.peer_id < st[k].next_peer_id
                    /\ v.nat_kind = "Symmetric" => v.needs_server_relay
               /\ \A v, w \in V : v.peer_id = w.peer_id \/ v.name = w.name => v = w
    BY <1>2, <1>7 DEF Members
  <2>1. V # {}
    BY <1>1, <1>2, <1>5 DEF Members
  <2>2. ASSUME NEW v \in V
        PROVE  /\ Beating(v)' /\ ~v.silent /\ v.peer_id < st[k].next_peer_id
               /\ v.nat_kind = "Symmetric" => v.needs_server_relay
    <3>1. PICK u \in U :
            /\ v.name = u.name /\ v.addr = u.addr /\ v.peer_id = u.peer_id
            /\ v.silent = u.silent /\ v.nat_kind = u.nat_kind
            /\ v.needs_server_relay <=> (u.needs_server_relay \/ u.name = name)
      BY <1>8
    <3>2. /\ Beating(u) /\ ~u.silent /\ u.peer_id < st[k].next_peer_id
          /\ u.nat_kind = "Symmetric" => u.needs_server_relay
      BY <1>1, <1>2 DEF Members
    <3> QED  BY <3>1, <3>2 DEF Beating, Running
  <2>3. ASSUME NEW v \in V, NEW w \in V, v.peer_id = w.peer_id \/ v.name = w.name
        PROVE  v = w
    <3>1. PICK t \in U, u \in U : v = f(t) /\ w = f(u)
      BY <1>5
    <3>2. t.peer_id = u.peer_id \/ t.name = u.name
      BY <1>4, <2>3, <3>1
    <3> QED  BY <1>9, <3>1, <3>2
  <2> QED  BY <2>1, <2>2, <2>3
<1>19. ASSUME NEW u \in U
       PROVE  /\ Told(u.name)' <=> Told(u.name)
              /\ \A v \in U : Knows(u.name, v.name) => Knows(u.name, v.name)'
              /\ WillMirror(u.name) => WillMirror(u.name)'
  <2> PICK n : n = u.name
    OBVIOUS
  <2>1. n \in Running
    BY <1>9
  <2>2. clients'[n] = clients[n] /\ \A x : <<clients[n].addr, x>> \notin taken
    BY <1>12, <2>1
  <2>3. /\ Told(n) => Told(n)'
        /\ Told(n)' => Told(n) \/ \E p \in packets : p.to = clients[n].addr /\ p.type = "MODE RELAY"
        /\ \A o : clients'[o].addr = clients[o].addr /\ Knows(n, o) => Knows(n, o)'
        /\ WillMirror(n) => WillMirror(n)'
    BY <1>1, <1>11, <2>1, <2>2, Unmoved
  <2> QED  BY <1>13, <2>3
<1>20. Roles'
  <2> SUFFICES /\ st[k].relay # None => \E v \in V : st[k].relay = v.name
               /\ \A v \in V :
                    /\ st[k].relay = v.name => Told(v.name)'
                    /\ Told(v.name)' /\ S!Eligible(v) =>
                         /\ st[k].relay = v.name
                         /\ \A w \in V : S!Eligible(w) => v.peer_id <= w.peer_id
                    /\ V = {v} /\ ~v.needs_server_relay => st[k].relay = v.name
    BY <1>2, <1>7 DEF Roles, S!EligibleUsers
  <2>1. st[k].relay # None => \E v \in V : st[k].relay = v.name
    <3> SUFFICES ASSUME NEW u \in U, st[k].relay = u.name
                 PROVE  \E v \in V : st[k].relay = v.name
      BY <1>1, <1>2 DEF Roles
    <3> QED  BY <1>4, <1>5
  <2>2. ASSUME NEW v \in V
        PROVE  /\ st[k].relay = v.name => Told(v.name)'
               /\ Told(v.name)' /\ S!Eligible(v) =>
                    /\ st[k].relay = v.name
                    /\ \A w \in V : S!Eligible(w) => v.peer_id <= w.peer_id
               /\ V = {v} /\ ~v.needs_server_relay => st[k].relay = v.name
    <3>1. PICK u \in U : v = f(u)
      BY <1>5
    <3>2. /\ st[k].relay = u.name => Told(u.name)
          /\ Told(u.name) /\ S!Eligible(u) =>
               /\ st[k].relay = u.name
               /\ \A w \in U : S!Eligible(w) => u.peer_id <= w.peer_id
          /\ U = {u} /\ ~u.needs_server_relay => st[k].relay = u.name
      BY <1>1, <1>2 DEF Roles, S!EligibleUsers
    <3>3. v.name = u.name /\ v.peer_id = u.peer_id /\ (Told(v.name)' <=> Told(u.name))
      BY <1>4, <1>19, <3>1
    <3>4. \A w \in U : S!Eligible(f(w)) => S!Eligible(w)
      BY <1>4 DEF S!Eligible
    <3>5. ASSUME NEW w \in V, S!Eligible(w), \A t \in U : S!Eligible(t) => u.peer_id <= t.peer_id
          PROVE  v.peer_id <= w.peer_id
      <4>1. PICK t \in U : w = f(t)
        BY <1>5
      <4> QED  BY <1>4, <3>3, <3>4, <3>5, <4>1
    <3>6. ASSUME V = {v}
          PROVE  U = {u}
      <4>1. \A t \in U : f(t) = f(u)
        BY <1>5, <3>1, <3>6
      <4>2. \A t \in U : t.name = u.name
        BY <1>4, <4>1
      <4> QED  BY <1>9, <4>2
    <3>7. ~v.needs_server_relay => ~u.needs_server_relay
      BY <1>4, <3>1
    <3>8. S!Eligible(v) => S!Eligible(u)
      BY <3>1, <3>4
    <3> QED  BY <3>2, <3>3, <3>5, <3>6, <3>7, <3>8
  <2> QED  BY <2>1, <2>2
<1>21. Pairs'
  <2> SUFFICES ASSUME NEW v \in V, NEW w \in V, st[k].relay = v.name, w # v
               PROVE  IF w.needs_server_relay THEN WillMirror(v.name)'
                      ELSE Knows(v.name, w.name)' /\ Knows(w.name, v.name)'
    BY <1>2, <1>7 DEF Pairs
  <2>1. PICK r \in U, u \in U : v = f(r) /\ w = f(u)
    BY <1>5
  <2>2. /\ v.name = r.name /\ w.name = u.name /\ u # r /\ u.name # r.name
        /\ w.needs_server_relay <=> (u.needs_server_relay \/ u.name = name)
    BY <1>4, <1>9, <2>1
  <2>3. IF u.needs_server_relay THEN WillMirror(r.name)
        ELSE Knows(r.name, u.name) /\ Knows(u.name, r.name)
    BY <1>1, <1>2, <2>2 DEF Pairs
  <2>4. ASSUME u.name = name
        PROVE  WillMirror(r.name)'
    <3> PICK n : n = r.name
      OBVIOUS
    <3>1. Told(n)
      BY <1>1, <1>2, <2>2 DEF Roles
    <3>2. PICK p \in packets : p.to = r.addr /\ p.type = "MODE SERVER_RELAY" /\ p.name = name
      BY <1>13
    <3>3. p.to = clients[n].addr /\ p.name # n /\ n \in Running
      BY <1>9, <2>2, <2>4, <3>2
    <3>4. \A x : <<clients[n].addr, x>> \notin taken
      BY <1>12, <3>3
    <3>5. WillMirror(n)'
      BY <1>1, <1>11, <3>1, <3>2, <3>3, <3>4, ServerTellsRelay
    <3> QED  BY <3>5
  <2> QED  BY <1>19, <2>2, <2>3, <2>4
<1> QED  BY <1>15, <1>16, <1>17, <1>18, <1>20, <1>21 DEF Calm

\* A user joins a channel of others, or its own.  No user is at its address.
Joins(k, v, U, packets) ==
    /\ U \in SUBSET S!User /\ v \in S!User /\ v \notin U
    /\ \A u \in U : u.peer_id < v.peer_id /\ u.name # v.name /\ u.addr # v.addr
    /\ ~v.silent /\ (v.needs_server_relay <=> v.nat_kind = "Symmetric")
    /\ DOMAIN st' = {k} /\ st' \in [DOMAIN st' -> S!Channel]
    /\ st'[k].users = U \cup {v} /\ st'[k].next_peer_id = v.peer_id + 1
    /\ \A p \in packets :
         /\ p.type \in {"WELCOME", "MODE RELAY", "MODE SERVER_RELAY"}
         /\ p.type = "MODE SERVER_RELAY" => p.name = v.name /\ v.needs_server_relay
    /\ \/ /\ U = {} /\ DOMAIN st = {} /\ main' = main
          /\ \A p \in packets : p.type = "MODE RELAY" => p.to = v.addr
          /\ IF S!Eligible(v)
             THEN /\ st'[k].relay = v.name
                  /\ \E p \in packets : p.type = "MODE RELAY" /\ p.to = v.addr
             ELSE /\ st'[k].relay = None
                  /\ \A p \in packets : p.type # "MODE RELAY"
                  /\ \E p \in packets :
                       p.type = "MODE SERVER_RELAY" /\ p.to = v.addr /\ p.name = v.name
       \/ /\ U # {} /\ DOMAIN st = {k} /\ U = st[k].users /\ st'[k].relay = st[k].relay
          /\ main' = "notify" /\ notifyKey' = k /\ snapshot' = U \cup {v}
          /\ \A p \in packets : p.type # "MODE RELAY"

\* What becomes of the channel: one that was not there, and one that was.
LEMMA AddsUser ==
    ASSUME NEW ch \in S!Channel, NEW name \in Names, NEW addr \in Addrs, NEW nat \in NatKinds,
           \A u \in ch.users : u.name # name
    PROVE  LET v     == S!NewUser(ch.next_peer_id, name, addr, nat)
               added == S!AddUser(ch, name, addr, nat)
           IN  /\ v \in S!User /\ v.peer_id = ch.next_peer_id /\ v.name = name /\ v.addr = addr
               /\ v.nat_kind = nat /\ ~v.silent /\ (v.needs_server_relay <=> nat = "Symmetric")
               /\ added \in S!Channel /\ added.users = ch.users \cup {v}
               /\ added.relay = ch.relay /\ added.next_peer_id = ch.next_peer_id + 1
<1> DEFINE v     == S!NewUser(ch.next_peer_id, name, addr, nat)
           added == S!AddUser(ch, name, addr, nat)
<1>1. ch.next_peer_id \in Nat \ {0} /\ ch.users \in SUBSET S!User
  BY DEF S!Channel
<1>2. /\ v.peer_id = ch.next_peer_id /\ v.name = name /\ v.addr = addr
      /\ v.nat_kind = nat /\ ~v.silent /\ (v.needs_server_relay <=> nat = "Symmetric")
  BY DEF S!NewUser
<1>3. v \in S!User
  <2>1. (nat = "Symmetric") \in BOOLEAN
    OBVIOUS
  <2> QED  BY <1>1, <2>1 DEF S!NewUser, S!User
<1>4. S!RemoveOldSessions(ch.users, name, addr) = ch.users
  BY DEF S!RemoveOldSessions
<1>5. added = [ch EXCEPT !.users = ch.users \cup {v}, !.next_peer_id = ch.next_peer_id + 1]
  BY <1>4 DEF S!AddUser
<1> HIDE DEF v, added
<1> PICK W : W = ch.users \cup {v}
  OBVIOUS
<1>6. W \in SUBSET S!User /\ ch.next_peer_id + 1 \in Nat \ {0}
  BY <1>1, <1>3
<1>7. /\ added \in S!Channel /\ added.users = W
      /\ added.relay = ch.relay /\ added.next_peer_id = ch.next_peer_id + 1
  BY <1>5, <1>6 DEF S!Channel
<1> QED  BY <1>2, <1>3, <1>7 DEF v, added

LEMMA LonelyFirst ==
    ASSUME NEW v \in S!User
    PROVE  S!Lone({v}) /\ S!First({v}) = v
<1>1. v.peer_id <= v.peer_id
  BY DEF S!User
<1> QED  BY <1>1 DEF S!Lone, S!First

LEMMA JoinJoins ==
    ASSUME Calm, OneChannel, NEW k \in S!Keys, NEW name \in Running, NEW addr, NEW nat \in NatKinds,
           clients[name].addr = addr, S!Join(k, name, addr, nat)
    PROVE  /\ \E v, U : Joins(k, v, U, out') /\ v.name = name /\ v.addr = addr
           /\ main = "recv"
           /\ hb' = hb /\ unvisited' = unvisited /\ toCleanup' = toCleanup /\ notes' = notes
<1>1. StateTypes /\ Processes /\ Members
  BY DEF Calm
<1>2. name \in Names /\ addr \in Addrs
  BY <1>1, RunningProcess
<1>3. /\ main = "recv"
      /\ hb' = hb /\ unvisited' = unvisited /\ toCleanup' = toCleanup /\ notes' = notes
  BY DEF S!Join, S!Serve, S!hbVars
<1>4. PICK ch \in IF k \in DOMAIN st THEN {st[k]} ELSE {S!NewChannel(c) : c \in S!FreshChannelIds} :
        LET added == S!AddUser(ch, name, addr, nat)
            full  == [added EXCEPT !.relay = S!LoneUserRelay(added)]
        IN  /\ st' = [q \in DOMAIN st \cup {k} |->
                        IF q = k THEN full ELSE S!Sweep(k, name, addr)[q]]
            /\ out' = {S!Welcome(addr, ch.channel_id, ch.next_peer_id)} \cup S!LoneUserNotices(added)
            /\ IF S!Lone(full.users)
               THEN UNCHANGED S!mainVars
               ELSE main' = "notify" /\ notifyKey' = k /\ snapshot' = full.users
  BY DEF S!Join
<1>5. DOMAIN st \cup {k} = {k} /\ (k \notin DOMAIN st => DOMAIN st = {})
  BY <1>1 DEF OneChannel, StateTypes
<1>6. /\ ch \in S!Channel
      /\ k \in DOMAIN st => ch = st[k] /\ ch.users # {}
      /\ k \notin DOMAIN st => ch.users = {} /\ ch.relay = None
  <2>1. CASE k \in DOMAIN st
    BY <1>1, <1>4, <2>1 DEF StateTypes, Members
  <2>2. CASE k \notin DOMAIN st
    <3>1. PICK c \in S!FreshChannelIds : ch = S!NewChannel(c)
      BY <1>4, <2>2
    <3>2. c \in ChannelIds
      BY <3>1 DEF S!FreshChannelIds
    <3> QED  BY <2>2, <3>1, <3>2 DEF S!NewChannel, S!Channel
  <2> QED  BY <2>1, <2>2
<1> PICK U : U = ch.users
  OBVIOUS
<1>7. U \in SUBSET S!User
  BY <1>6 DEF S!Channel
<1>8. \A u \in U : u.peer_id < ch.next_peer_id /\ u.name # name /\ u.addr # addr
  <2> SUFFICES ASSUME NEW u \in U
               PROVE  u.peer_id < ch.next_peer_id /\ u.name # name /\ u.addr # addr
    OBVIOUS
  <2>1. k \in DOMAIN st /\ ch = st[k]
    BY <1>6
  <2>2. u.peer_id < ch.next_peer_id /\ u.name \in Running /\ clients[u.name].addr = u.addr
    BY <1>1, <2>1 DEF Members, Beating
  <2>3. ~(u.name = name /\ u.addr = addr)
    BY <2>1 DEF S!Join, S!Session
  <2> QED  BY <1>1, <2>2, <2>3 DEF Processes
<1> DEFINE v     == S!NewUser(ch.next_peer_id, name, addr, nat)
           added == S!AddUser(ch, name, addr, nat)
           full  == [added EXCEPT !.relay = S!LoneUserRelay(added)]
<1>9. /\ v \in S!User /\ v.peer_id = ch.next_peer_id /\ v.name = name /\ v.addr = addr
      /\ v.nat_kind = nat /\ ~v.silent /\ (v.needs_server_relay <=> nat = "Symmetric")
      /\ added \in S!Channel /\ added.users = U \cup {v}
      /\ added.relay = ch.relay /\ added.next_peer_id = ch.next_peer_id + 1
  BY <1>2, <1>6, <1>8, AddsUser
<1>10. /\ st' = [q \in {k} |-> full]
       /\ out' = {S!Welcome(addr, ch.channel_id, ch.next_peer_id)} \cup S!LoneUserNotices(added)
       /\ IF S!Lone(full.users)
          THEN UNCHANGED S!mainVars
          ELSE main' = "notify" /\ notifyKey' = k /\ snapshot' = full.users
  BY <1>4, <1>5
<1>11. ASSUME NEW r \in Names \cup {None}, S!LoneUserRelay(added) = r
       PROVE  /\ full \in S!Channel /\ full.users = U \cup {v} /\ full.relay = r
              /\ full.next_peer_id = v.peer_id + 1
  <2> HIDE DEF v, added
  <2> QED  BY <1>9, <1>11 DEF S!Channel
<1> HIDE DEF v, added, full
<1>12. S!Welcome(addr, ch.channel_id, ch.next_peer_id).type = "WELCOME"
  BY DEF S!Welcome
<1> PICK packets : packets = out'
  OBVIOUS
<1>13. v \notin U /\ \A u \in U : u.peer_id < v.peer_id /\ u.name # v.name /\ u.addr # v.addr
  BY <1>8, <1>9
<1>14. CASE k \in DOMAIN st
  <2>1. ~S!Lone(U \cup {v})
    <3> SUFFICES ASSUME NEW u, U \cup {v} = {u}
                 PROVE  FALSE
      BY DEF S!Lone
    <3> QED  BY <1>6, <1>13, <1>14
  <2>2. S!LoneUserRelay(added) = ch.relay /\ S!LoneUserNotices(added) = {}
    BY <1>9, <2>1 DEF S!LoneUserRelay, S!LoneUserNotices
  <2>3. ch.relay \in Names \cup {None}
    BY <1>6 DEF S!Channel
  <2>4. /\ full \in S!Channel /\ full.users = U \cup {v} /\ full.relay = ch.relay
        /\ full.next_peer_id = v.peer_id + 1
    BY <1>11, <2>2, <2>3
  <2>5. \A p \in packets : p.type = "WELCOME"
    BY <1>10, <1>12, <2>2
  <2>6. main' = "notify" /\ notifyKey' = k /\ snapshot' = U \cup {v}
    BY <1>10, <2>1, <2>4
  <2>7. DOMAIN st = {k} /\ U = st[k].users /\ ch = st[k] /\ U # {}
    BY <1>5, <1>6, <1>14
  <2>8. Joins(k, v, U, packets)
    BY <1>7, <1>9, <1>10, <1>13, <2>4, <2>5, <2>6, <2>7 DEF Joins
  <2> QED  BY <1>3, <1>9, <2>8
<1>15. CASE k \notin DOMAIN st
  <2>1. U = {} /\ DOMAIN st = {} /\ ch.relay = None
    BY <1>5, <1>6, <1>15
  <2>2. added.users = {v} /\ added.relay = None
    BY <1>9, <2>1
  <2>3. S!Lone(added.users) /\ S!First(added.users) = v
    BY <1>9, <2>2, LonelyFirst
  <2>4. /\ S!LoneUserRelay(added) = IF nat # "Symmetric" THEN name ELSE None
        /\ S!LoneUserNotices(added) = IF nat = "Symmetric" THEN {S!ModeServerRelay(addr, name)}
                                      ELSE {S!ModeRelay(addr)}
    BY <1>9, <2>2, <2>3 DEF S!LoneUserRelay, S!LoneUserNotices
  <2>5. S!Eligible(v) <=> nat # "Symmetric"
    BY <1>9 DEF S!Eligible
  <2>6. /\ full \in S!Channel /\ full.users = U \cup {v}
        /\ full.relay = IF nat # "Symmetric" THEN name ELSE None
        /\ full.next_peer_id = v.peer_id + 1
    BY <1>2, <1>11, <2>4
  <2>7. main' = main
    BY <1>10, <2>1, <2>3, <2>2, <2>6 DEF S!mainVars
  <2>8. /\ S!ModeServerRelay(addr, name).type = "MODE SERVER_RELAY"
        /\ S!ModeServerRelay(addr, name).to = addr /\ S!ModeServerRelay(addr, name).name = name
        /\ S!ModeRelay(addr).type = "MODE RELAY" /\ S!ModeRelay(addr).to = addr
    BY DEF S!ModeServerRelay, S!ModeRelay
  <2>9. CASE nat = "Symmetric"
    <3> DEFINE q == S!ModeServerRelay(addr, name)
    <3>1. q.type = "MODE SERVER_RELAY" /\ q.to = v.addr /\ q.name = v.name
      BY <1>9, <2>8
    <3>2. packets = {S!Welcome(addr, ch.channel_id, ch.next_peer_id), q}
      BY <1>10, <2>4, <2>9
    <3> HIDE DEF q
    <3>3. /\ \A p \in packets : p.type = "WELCOME" \/ (p.type = "MODE SERVER_RELAY" /\ p.name = v.name)
          /\ \E p \in packets : p.type = "MODE SERVER_RELAY" /\ p.to = v.addr /\ p.name = v.name
      BY <1>12, <3>1, <3>2
    <3>4. v.needs_server_relay
      BY <1>9, <2>9
    <3>5. \A p \in packets :
            /\ p.type \in {"WELCOME", "MODE RELAY", "MODE SERVER_RELAY"}
            /\ p.type = "MODE SERVER_RELAY" => p.name = v.name /\ v.needs_server_relay
            /\ p.type # "MODE RELAY"
      BY <3>3, <3>4
    <3>6. st'[k].relay = None /\ ~S!Eligible(v)
      BY <1>10, <2>5, <2>6, <2>9
    <3>7. /\ DOMAIN st' = {k} /\ st' \in [DOMAIN st' -> S!Channel]
          /\ st'[k].users = U \cup {v} /\ st'[k].next_peer_id = v.peer_id + 1
      BY <1>10, <2>6
    <3>8. ~v.silent /\ (v.needs_server_relay <=> v.nat_kind = "Symmetric")
      BY <1>9
    <3>9. Joins(k, v, U, packets)
      BY <1>7, <1>9, <1>13, <2>1, <2>7, <3>3, <3>5, <3>6, <3>7, <3>8 DEF Joins
    <3> QED  BY <1>3, <1>9, <3>9
  <2>10. CASE nat # "Symmetric"
    <3>1. /\ \A p \in packets : p.type = "WELCOME" \/ (p.type = "MODE RELAY" /\ p.to = addr)
          /\ \E p \in packets : p.type = "MODE RELAY" /\ p.to = addr
      BY <1>10, <1>12, <2>4, <2>8, <2>10
    <3>2. /\ U = {} /\ DOMAIN st = {} /\ main' = main
          /\ \A p \in packets : p.type = "MODE RELAY" => p.to = v.addr
          /\ S!Eligible(v) /\ st'[k].relay = v.name
          /\ \E p \in packets : p.type = "MODE RELAY" /\ p.to = v.addr
      BY <1>9, <1>10, <2>1, <2>5, <2>6, <2>7, <2>10, <3>1
    <3>3. \A p \in packets :
            /\ p.type \in {"WELCOME", "MODE RELAY", "MODE SERVER_RELAY"}
            /\ p.type = "MODE SERVER_RELAY" => p.name = v.name /\ v.needs_server_relay
      BY <3>1
    <3>4. /\ DOMAIN st' = {k} /\ st' \in [DOMAIN st' -> S!Channel]
          /\ st'[k].users = U \cup {v} /\ st'[k].next_peer_id = v.peer_id + 1
      BY <1>10, <2>6
    <3>5. ~v.silent /\ (v.needs_server_relay <=> v.nat_kind = "Symmetric")
      BY <1>9
    <3>6. Joins(k, v, U, packets)
      BY <1>7, <1>9, <1>13, <3>2, <3>3, <3>4, <3>5 DEF Joins
    <3> QED  BY <1>3, <1>9, <3>6
  <2> QED  BY <2>9, <2>10
<1> QED  BY <1>14, <1>15

LEMMA JoinsCalm ==
    ASSUME Calm, NEW k \in S!Keys, NEW v, NEW U, NEW packets, Joins(k, v, U, packets),
           v.name \in Running, clients[v.name].addr = v.addr, main = "recv",
           hb' = hb, unvisited' = unvisited, toCleanup' = toCleanup, notes' = notes,
           NEW m \in Arriving(Server), net' = Carried(Without(Server, m), Server, packets),
           clients' = clients, starts' = starts
    PROVE  Calm'
<1>1. StateTypes /\ Processes /\ Members /\ Tasks /\ Mail /\ Tables /\ Roles /\ Pairs
  BY DEF Calm
<1>2. /\ U \in SUBSET S!User /\ v \in S!User /\ v \notin U
      /\ \A u \in U : u.peer_id < v.peer_id /\ u.name # v.name /\ u.addr # v.addr
      /\ ~v.silent /\ (v.needs_server_relay <=> v.nat_kind = "Symmetric")
      /\ DOMAIN st' = {k} /\ st' \in [DOMAIN st' -> S!Channel]
      /\ st'[k].users = U \cup {v} /\ st'[k].next_peer_id = v.peer_id + 1
      /\ \A p \in packets : p.type \in {"WELCOME", "MODE RELAY", "MODE SERVER_RELAY"}
      /\ \A p \in packets : p.type = "MODE RELAY" => p.to = v.addr /\ U = {} /\ S!Eligible(v)
  BY DEF Joins
<1>3. \/ /\ U = {} /\ DOMAIN st = {} /\ main' = main
         /\ IF S!Eligible(v)
            THEN /\ st'[k].relay = v.name
                 /\ \E p \in packets : p.type = "MODE RELAY" /\ p.to = v.addr
            ELSE st'[k].relay = None
      \/ /\ U # {} /\ DOMAIN st = {k} /\ U = st[k].users /\ st'[k].relay = st[k].relay
         /\ main' = "notify" /\ notifyKey' = k /\ snapshot' = U \cup {v}
  BY DEF Joins
<1>4. \A u \in U : Beating(u) /\ u.name \in Running /\ clients[u.name].addr = u.addr
  <2> SUFFICES ASSUME NEW u \in U
               PROVE  Beating(u)
    BY DEF Beating
  <2>1. k \in DOMAIN st /\ u \in st[k].users
    BY <1>3
  <2> QED  BY <1>1, <2>1 DEF Members
<1> PICK taken : taken = {<<Server, m>>}
  OBVIOUS
<1>5. Moved(net, net', taken, Server, packets)
  <2>1. Server \in DOMAIN net /\ Sequences
    BY <1>1 DEF StateTypes
  <2> QED  BY <2>1, AnswerMoves
<1>6. \A n \in Running : \A x : <<clients[n].addr, x>> \notin taken
  BY TakenAtServer
<1>7. \A a : MemberAt(a) <=> \E u \in U : u.addr = a
  BY <1>3 DEF MemberAt
<1>8. \A a : MemberAt(a)' <=> \E u \in U \cup {v} : u.addr = a
  BY <1>2 DEF MemberAt
<1>9. \A p \in packets : p.to \in DOMAIN net => Proper(p.to, <<Server, p>>)'
  <2> SUFFICES ASSUME NEW p \in packets
               PROVE  Proper(p.to, <<Server, p>>)'
    OBVIOUS
  <2>1. p.type \in {"WELCOME", "MODE RELAY", "MODE SERVER_RELAY"}
    BY <1>2
  <2>2. p.type = "MODE RELAY" => MemberAt(p.to)'
    BY <1>2, <1>8
  <2> QED  BY <2>1, <2>2 DEF Proper
<1>10. /\ clients' \in [Names -> Process \cup {None}]
       /\ DOMAIN net' = Addrs \cup {Server} /\ Sequences'
       /\ Processes' /\ Mail' /\ Tables'
  <2>1. \A a : MemberAt(a) => MemberAt(a)'
    BY <1>7, <1>8
  <2> QED  BY <1>5, <1>9, <2>1, NoClient
<1>11. StateTypes'
  BY <1>2, <1>10 DEF StateTypes
<1>12. Members'
  <2> SUFFICES /\ \A u \in U \cup {v} :
                    /\ Beating(u)' /\ ~u.silent /\ u.peer_id < v.peer_id + 1
                    /\ u.nat_kind = "Symmetric" => u.needs_server_relay
               /\ \A u, w \in U \cup {v} : u.peer_id = w.peer_id \/ u.name = w.name => u = w
    BY <1>2 DEF Members
  <2>1. Beating(v)' /\ \A u \in U : Beating(u)'
    BY <1>4 DEF Beating, Running
  <2>2. \A u \in U : /\ ~u.silent /\ (u.nat_kind = "Symmetric" => u.needs_server_relay)
                     /\ u.peer_id \in Nat /\ v.peer_id \in Nat
                     /\ \A w \in U : u.peer_id = w.peer_id \/ u.name = w.name => u = w
    BY <1>1, <1>2, <1>3 DEF Members, S!User
  <2>3. v.peer_id \in Nat
    BY <1>2 DEF S!User
  <2>4. ASSUME NEW u \in U \cup {v}
        PROVE  /\ Beating(u)' /\ ~u.silent /\ u.peer_id < v.peer_id + 1
               /\ u.nat_kind = "Symmetric" => u.needs_server_relay
    <3>1. CASE u \in U
      <4>1. u.peer_id < v.peer_id /\ u.peer_id \in Nat
        BY <1>2, <2>2, <3>1
      <4>2. u.peer_id < v.peer_id + 1
        BY <2>3, <4>1
      <4> QED  BY <2>1, <2>2, <3>1, <4>2
    <3>2. CASE u = v
      <4>1. v.peer_id < v.peer_id + 1
        BY <2>3
      <4> QED  BY <1>2, <2>1, <3>2, <4>1
    <3> QED  BY <3>1, <3>2
  <2>5. ASSUME NEW u \in U \cup {v}, NEW w \in U \cup {v},
               u.peer_id = w.peer_id \/ u.name = w.name
        PROVE  u = w
    <3>1. \A t \in U : t.peer_id # v.peer_id /\ t.name # v.name
      <4> SUFFICES ASSUME NEW t \in U
                   PROVE  t.peer_id # v.peer_id /\ t.name # v.name
        OBVIOUS
      <4>1. t.peer_id < v.peer_id /\ t.name # v.name
        BY <1>2
      <4>2. t.peer_id \in Nat
        BY <2>2
      <4> QED  BY <2>3, <4>1, <4>2
    <3> QED  BY <2>2, <2>5, <3>1
  <2> QED  BY <2>4, <2>5
<1>13. Tasks'
  <2>1. U # {} => ~S!Lone(U \cup {v})
    BY <1>2 DEF S!Lone
  <2>2. main' \in {"recv", "notify"}
    BY <1>1, <1>3 DEF Tasks
  <2>3. main' = "notify" => notifyKey' = k /\ snapshot' = st'[k].users /\ ~S!Lone(snapshot')
    BY <1>2, <1>3, <2>1
  <2>4. unvisited' \subseteq DOMAIN st'
    BY <1>1, <1>2, <1>3 DEF Tasks
  <2> QED  BY <1>1, <1>2, <2>2, <2>3, <2>4 DEF Tasks, S!Lone
<1>14. ASSUME NEW u \in U \cup {v}
       PROVE  /\ Told(u.name) => Told(u.name)'
              /\ Told(u.name)' => Told(u.name) \/ \E p \in packets : p.to = u.addr /\ p.type = "MODE RELAY"
  <2> PICK n : n = u.name
    OBVIOUS
  <2>1. n \in Running /\ clients[n].addr = u.addr
    BY <1>4
  <2>2. clients'[n] = clients[n] /\ \A x : <<clients[n].addr, x>> \notin taken
    BY <1>6, <2>1
  <2>3. /\ Told(n) => Told(n)'
        /\ Told(n)' => Told(n) \/ \E p \in packets : p.to = clients[n].addr /\ p.type = "MODE RELAY"
    BY <1>1, <1>5, <2>1, <2>2, Unmoved
  <2> QED  BY <2>1, <2>3
<1>15. ~Told(v.name)
  <2>1. ~MemberAt(v.addr)
    BY <1>2, <1>7
  <2>2. v.addr \in DOMAIN net
    BY <1>1, RunningProcess
  <2>3. \A x \in Contents(net[v.addr]) : x[2].type # "MODE RELAY"
    BY <1>1, <2>1, <2>2 DEF Mail, Proper
  <2>4. ~clients[v.name].is_relay
    BY <1>1, <2>1 DEF Tables
  <2> QED  BY <2>3, <2>4 DEF Told
<1>16. (\E p \in packets : p.to = v.addr /\ p.type = "MODE RELAY") => Told(v.name)'
  <2> SUFFICES ASSUME \E p \in packets : p.to = v.addr /\ p.type = "MODE RELAY"
               PROVE  Told(v.name)'
    OBVIOUS
  <2> PICK n : n = v.name
    OBVIOUS
  <2>1. n \in Running /\ \A x : <<clients[n].addr, x>> \notin taken
    BY <1>6
  <2>2. \E p \in packets : p.to = clients[n].addr /\ p.type = "MODE RELAY"
    OBVIOUS
  <2>3. (\E p \in packets : p.to = clients[n].addr /\ p.type = "MODE RELAY") => Told(n)'
    BY <1>1, <1>5, <2>1, ServerTells
  <2> QED  BY <2>2, <2>3
<1>17. Roles'
  <2> SUFFICES /\ st'[k].relay # None => \E u \in U \cup {v} : st'[k].relay = u.name
               /\ \A u \in U \cup {v} :
                    /\ st'[k].relay = u.name => Told(u.name)'
                    /\ Told(u.name)' /\ S!Eligible(u) =>
                         /\ st'[k].relay = u.name
                         /\ \A w \in U \cup {v} : S!Eligible(w) => u.peer_id <= w.peer_id
                    /\ U \cup {v} = {u} /\ ~u.needs_server_relay => st'[k].relay = u.name
    BY <1>2 DEF Roles, S!EligibleUsers
  <2>1. CASE U = {}
    <3>1. IF S!Eligible(v)
          THEN /\ st'[k].relay = v.name
               /\ \E p \in packets : p.to = v.addr /\ p.type = "MODE RELAY"
          ELSE st'[k].relay = None
      BY <1>3, <2>1
    <3>2. ~v.needs_server_relay => S!Eligible(v)
      BY <1>2 DEF S!Eligible
    <3>3. v.name # None /\ v.peer_id <= v.peer_id
      <4>1. v.name \in Names /\ v.peer_id \in Nat
        BY <1>2 DEF S!User
      <4> QED  BY <4>1, PiercerAssumption
    <3>4. U \cup {v} = {v}
      BY <2>1
    <3> QED  BY <1>16, <3>1, <3>2, <3>3, <3>4
  <2>2. CASE U # {}
    <3>1. /\ DOMAIN st = {k} /\ U = st[k].users /\ st'[k].relay = st[k].relay
          /\ \A p \in packets : p.type # "MODE RELAY"
      BY <1>2, <1>3, <2>2
    <3>2. /\ st[k].relay # None => \E u \in U : st[k].relay = u.name
          /\ \A u \in U :
               /\ st[k].relay = u.name => Told(u.name)
               /\ Told(u.name) /\ S!Eligible(u) =>
                    /\ st[k].relay = u.name
                    /\ \A w \in U : S!Eligible(w) => u.peer_id <= w.peer_id
      BY <1>1, <3>1 DEF Roles, S!EligibleUsers
    <3>3. v.name # None /\ st[k].relay # v.name
      <4>1. v.name # None
        BY <1>2, PiercerAssumption DEF S!User
      <4> QED  BY <1>2, <3>2, <4>1
    <3>4. ~Told(v.name)' /\ \A u \in U : Told(u.name)' <=> Told(u.name)
      BY <1>14, <1>15, <3>1
    <3>5. \A u \in U : u.peer_id <= v.peer_id
      <4> SUFFICES ASSUME NEW u \in U
                   PROVE  u.peer_id <= v.peer_id
        OBVIOUS
      <4>1. v.peer_id \in Nat /\ u.peer_id \in Nat
        BY <1>2 DEF S!User
      <4>2. u.peer_id < v.peer_id
        BY <1>2
      <4> QED  BY <4>1, <4>2
    <3>6. \A u : U \cup {v} # {u}
      BY <1>2, <2>2
    <3> QED  BY <3>1, <3>2, <3>3, <3>4, <3>5, <3>6
  <2> QED  BY <2>1, <2>2
<1>18. Pairs'
  <2> SUFFICES ASSUME ~(main' = "notify" /\ notifyKey' = k),
                      NEW r \in U \cup {v}, NEW u \in U \cup {v}, u # r
               PROVE  FALSE
    BY <1>2 DEF Pairs
  <2> QED  BY <1>3
<1> QED  BY <1>10, <1>11, <1>12, <1>13, <1>17, <1>18 DEF Calm

LEMMA JoinCalm ==
    ASSUME Calm, OneChannel, NEW k \in S!Keys, NEW m \in Arriving(Server),
           m[2].type = "CONNECT", S!Join(k, m[2].name, m[1], m[2].nat),
           net' = Carried(Without(Server, m), Server, out'),
           clients' = clients, starts' = starts
    PROVE  Calm'
<1> PICK name : name = m[2].name
  OBVIOUS
<1> PICK nat : nat = m[2].nat
  OBVIOUS
<1> PICK addr : addr = m[1]
  OBVIOUS
<1> PICK packets : packets = out'
  OBVIOUS
<1>1. name \in Running /\ clients[name].addr = addr /\ nat \in NatKinds
  <2>1. Server \in DOMAIN net
    BY DEF Calm, StateTypes
  <2>2. Proper(Server, m)
    BY <2>1, ArrivingIsProper
  <2> QED  BY <2>2 DEF Proper
<1>2. S!Join(k, name, addr, nat)
  OBVIOUS
<1>3. /\ \E v, U : Joins(k, v, U, out') /\ v.name = name /\ v.addr = addr
      /\ main = "recv"
      /\ hb' = hb /\ unvisited' = unvisited /\ toCleanup' = toCleanup /\ notes' = notes
  BY <1>1, <1>2, JoinJoins
<1>4. PICK v, U : Joins(k, v, U, packets) /\ v.name = name /\ v.addr = addr
  BY <1>3
<1>5. v.name \in Running /\ clients[v.name].addr = v.addr
  BY <1>1, <1>4
<1>6. net' = Carried(Without(Server, m), Server, packets)
  OBVIOUS
<1> QED  BY <1>3, <1>4, <1>5, <1>6, JoinsCalm

----------------------------------------------------------------------------
(* Every step *)

LEMMA ServerHearsCalm ==
    ASSUME Calm, OneChannel, ServerHears
    PROVE  Calm'
<1>1. PICK m \in Arriving(Server) :
        LET from == m[1]
            p    == m[2]
        IN  /\ \E k \in S!Keys :
                 \/ /\ p.type = "CONNECT"
                    /\ S!Reconnect(k, p.name, from) \/ S!Join(k, p.name, from, p.nat)
                 \/ p.type = "PEER_TIMEOUT" /\ S!PeerTimeout(k, p.name)
                 \/ p.type = "REQUEST_RELAY" /\ S!RequestRelay(k, p.name)
                 \/ p.type = "PONG" /\ S!Pong(from)
                 \/ p.type = "DATA" /\ S!ForwardData(from, p.name)
            /\ net' = Carried(Without(Server, m), Server, out')
  BY DEF ServerHears
<1>2. PICK k \in S!Keys :
        \/ /\ m[2].type = "CONNECT"
           /\ S!Reconnect(k, m[2].name, m[1]) \/ S!Join(k, m[2].name, m[1], m[2].nat)
        \/ m[2].type = "PEER_TIMEOUT"
        \/ S!RequestRelay(k, m[2].name)
        \/ S!Pong(m[1])
        \/ S!ForwardData(m[1], m[2].name)
  BY <1>1
<1>3. clients' = clients /\ starts' = starts /\ net' = Carried(Without(Server, m), Server, out')
  BY <1>1 DEF ServerHears
<1> PICK name : name = m[2].name
  OBVIOUS
<1> PICK from : from = m[1]
  OBVIOUS
<1> PICK packets : packets = out'
  OBVIOUS
<1>4. ASSUME st' = st, UNCHANGED <<main, notifyKey, snapshot, hb, unvisited, toCleanup, notes>>,
             \A p \in out' : p.type \in Harmless
      PROVE  Calm'
  <2>1. Tasks'
    BY <1>4, SameTasks
  <2>2. main' = main /\ notifyKey' = notifyKey
    BY <1>4
  <2>3. net' = Carried(Without(Server, m), Server, packets) /\ \A p \in packets : p.type \in Harmless
    BY <1>3, <1>4
  <2> QED  BY <1>3, <1>4, <2>1, <2>2, <2>3, ServerIdleCalm
<1>5. CASE S!Reconnect(k, name, from)
  <2>1. /\ st' = st /\ UNCHANGED <<main, notifyKey, snapshot, hb, unvisited, toCleanup, notes>>
        /\ \A p \in out' : p.type \in Harmless
    BY <1>5, ReconnectIdle
  <2> QED  BY <1>4, <2>1
<1>6. CASE m[2].type = "CONNECT" /\ S!Join(k, m[2].name, m[1], m[2].nat)
  BY <1>3, <1>6, JoinCalm
<1>7. CASE m[2].type = "PEER_TIMEOUT"
  <2>1. Server \in DOMAIN net
    BY DEF Calm, StateTypes
  <2>2. Proper(Server, m)
    BY <2>1, ArrivingIsProper
  <2> QED  BY <1>7, <2>2 DEF Proper
<1>8. CASE S!RequestRelay(k, name)
  BY <1>3, <1>8, RequestRelayCalm
<1>9. CASE S!Pong(from)
  <2>1. /\ st' = st /\ UNCHANGED <<main, notifyKey, snapshot, hb, unvisited, toCleanup, notes>>
        /\ \A p \in out' : p.type \in Harmless
    BY <1>9, PongIdle
  <2> QED  BY <1>4, <2>1
<1>10. CASE S!ForwardData(from, name)
  <2>1. /\ st' = st /\ UNCHANGED <<main, notifyKey, snapshot, hb, unvisited, toCleanup, notes>>
        /\ \A p \in out' : p.type \in Harmless
    BY <1>10, ForwardDataIdle
  <2> QED  BY <1>4, <2>1
<1> QED  BY <1>2, <1>5, <1>6, <1>7, <1>8, <1>9, <1>10

LEMMA ServerBeatsCalm ==
    ASSUME Calm, OneChannel, ServerBeats
    PROVE  Calm'
<1>1. ServerSends /\ clients' = clients /\ starts' = starts
  BY DEF ServerBeats
<1>2. CASE S!Tick
  BY <1>1, <1>2, ServerTicks
<1>3. ASSUME NEW k \in S!Keys, S!ExpireUser(k)
      PROVE  Calm'
  BY <1>3, NobodyExpires
<1>4. ASSUME NEW k \in S!Keys, S!SettleChannel(k)
      PROVE  Calm'
  BY <1>1, <1>4, SettleCalm
<1>5. CASE S!SendNotes
  BY <1>1, <1>5, SendNotesCalm
<1>6. CASE S!Cleanup
  BY <1>6, NothingToClean
<1> QED  BY <1>2, <1>3, <1>4, <1>5, <1>6 DEF ServerBeats

\* Every member's client runs, so that nobody falls silent.
LEMMA NobodyFallsSilent ==
    ASSUME Calm, FallSilent
    PROVE  FALSE
BY DEF Calm, Members, FallSilent

\* Every process that was started runs, so that none may crash.
LEMMA NobodyCrashes ==
    ASSUME Calm, CrashLimit = 0, NEW n, Crash(n)
    PROVE  FALSE
<1>1. starts = Cardinality(Running) /\ Cardinality(Running) \in Nat
  BY FS_CardinalityType DEF Calm, Processes
<1> QED  BY <1>1 DEF Crash

LEMMA CalmStutters ==
    ASSUME Calm, UNCHANGED vars
    PROVE  Calm'
<1>1. /\ st' = st /\ main' = main /\ notifyKey' = notifyKey
      /\ UNCHANGED <<main, notifyKey, snapshot, hb, unvisited, toCleanup, notes>>
      /\ clients' = clients /\ starts' = starts /\ net' = net
  BY DEF vars, serverVars
<1> PICK taken : taken = {}
  OBVIOUS
<1> PICK packets : packets = {}
  OBVIOUS
<1>2. Moved(net, net', taken, Server, packets)
  BY <1>1, NothingMoves DEF Calm, StateTypes
<1>3. /\ \A n \in Running : \A x : <<clients[n].addr, x>> \notin taken
      /\ \A p \in packets : p.type \in Harmless
  OBVIOUS
<1>4. Tasks'
  BY <1>1, SameTasks
<1> QED  BY <1>1, <1>2, <1>3, <1>4, IdleCalm

LEMMA CalmInit ==
    ASSUME Init
    PROVE  Calm
<1>1. /\ DOMAIN st = {} /\ st = [k \in {} |-> S!NewChannel(CHOOSE c \in ChannelIds : TRUE)]
      /\ main = "recv" /\ hb = "tick" /\ unvisited = {} /\ toCleanup = {} /\ notes = {}
      /\ clients = [n \in Names |-> None]
      /\ net = [a \in Addrs \cup {Server} |-> <<>>] /\ starts = 0
  BY DEF Init, S!Init
<1>2. Running = {}
  BY <1>1 DEF Running
<1>3. \A a \in DOMAIN net : IsSequence(net[a]) /\ Contents(net[a]) = {}
  BY <1>1 DEF IsSequence, Contents
<1>4. StateTypes
  BY <1>1, <1>3 DEF StateTypes, Sequences
<1>5. Processes
  BY <1>1, <1>2, FS_EmptySet DEF Processes
<1>6. Members /\ Tasks /\ Mail /\ Tables /\ Roles /\ Pairs
  BY <1>1, <1>2, <1>3 DEF Members, Tasks, Mail, Tables, Roles, Pairs
<1> QED  BY <1>4, <1>5, <1>6 DEF Calm

LEMMA CalmNext ==
    ASSUME Calm, Heeded, OneChannel, CrashLimit = 0, [Next]_vars
    PROVE  Calm'
<1>1. CASE ServerBeats
  BY <1>1, ServerBeatsCalm
<1>2. CASE ServerHears
  BY <1>2, ServerHearsCalm
<1>3. CASE ServerIgnores
  BY <1>3, ServerIgnoresCalm
<1>4. CASE ServerNotifies
  <2>1. ServerSends /\ clients' = clients /\ starts' = starts
    BY <1>4 DEF ServerNotifies
  <2>2. CASE S!AppointRelay
    BY <2>1, <2>2, AppointCalm
  <2>3. CASE S!LeaveRelayToServer
    BY <2>1, <2>3, LeaveRelayCalm
  <2> QED  BY <1>4, <2>2, <2>3 DEF ServerNotifies
<1>5. CASE FallSilent
  BY <1>5, NobodyFallsSilent
<1>6. ASSUME NEW e \in Endpoints, Start(e[1], e[2])
      PROVE  Calm'
  <2>1. PICK n \in Names, a \in Addrs : n = e[1] /\ a = e[2]
    BY PiercerAssumption
  <2>2. Start(n, a)
    BY <1>6, <2>1
  <2> QED  BY <2>2, StartCalm
<1>7. ASSUME NEW n \in Names,
             ClientHears(n) \/ Punch(n) \/ KeepAlive(n) \/ Age(n) \/ Speak(n) \/ Crash(n)
      PROVE  Calm'
  BY <1>7, ClientHearsCalm, PunchCalm, KeepAliveCalm, AgeCalm, SpeakCalm, NobodyCrashes
<1>8. ASSUME NEW a \in Addrs, Vanish(a)
      PROVE  Calm'
  BY <1>8, VanishCalm
<1>9. CASE UNCHANGED vars
  BY <1>9, CalmStutters
<1> QED  BY <1>1, <1>2, <1>3, <1>4, <1>5, <1>6, <1>7, <1>8, <1>9 DEF Next, ServerStep

----------------------------------------------------------------------------
(* What the clients and the server agree on *)

\* Nothing is on its way to a client.
LEMMA NothingToHear ==
    ASSUME Calm, Quiet, NEW n \in Running
    PROVE  /\ Told(n) => clients[n].is_relay
           /\ \A o : Knows(n, o) => \E p \in clients[n].peers : p.username = o /\ p.addr = clients[o].addr
           /\ WillMirror(n) => clients[n].channel_has_server_relays
<1>1. net[clients[n].addr] = <<>>
  BY RunningProcess DEF Calm, Quiet
<1>2. Contents(net[clients[n].addr]) = {}
  BY <1>1 DEF Contents
<1> QED  BY <1>2 DEF Told, Knows, WillMirror

LEMMA PresentMembers ==
    ASSUME Calm, NEW k \in DOMAIN st
    PROVE  /\ \A u \in Present(k) :
                u \in st[k].users /\ u.name \in Running /\ clients[u.name].addr = u.addr
           /\ \A r \in RelayOf(k) : r \in Present(k) /\ st[k].relay = r.name
           /\ \A u, v \in Present(k) : u.name = v.name => u = v
BY DEF Calm, Members, Present, RelayOf, Beating

\* Once nothing is on its way, the relay on record takes itself for one, and
\* nobody else who could be one does.  (handle_connect_notifications; MODE RELAY.)
LEMMA CalmRolesAgree ==
    ASSUME Calm
    PROVE  RolesAgree
<1> SUFFICES ASSUME Quiet, NEW k \in DOMAIN st, NEW r \in RelayOf(k)
             PROVE  /\ clients[r.name].is_relay
                    /\ \A u \in Present(k) \ {r} : S!Eligible(u) => ~clients[u.name].is_relay
  BY DEF RolesAgree
<1>1. r \in st[k].users /\ r \in Present(k) /\ st[k].relay = r.name /\ r.name \in Running
  BY PresentMembers
<1>2. clients[r.name].is_relay
  <2> PICK n : n = r.name
    OBVIOUS
  <2>1. Told(n) /\ n \in Running
    BY <1>1 DEF Calm, Roles
  <2> QED  BY <2>1, NothingToHear
<1>3. ASSUME NEW u \in Present(k) \ {r}, S!Eligible(u), clients[u.name].is_relay
      PROVE  FALSE
  <2>1. u \in st[k].users /\ u.name # r.name
    BY <1>1, PresentMembers
  <2>2. Told(u.name)
    BY <1>3 DEF Told
  <2> QED  BY <1>1, <1>3, <2>1, <2>2 DEF Calm, Roles
<1> QED  BY <1>2, <1>3

\* Once nothing is on its way, the relay and each member that the server does
\* not serve have each other in their tables, at their addresses.  (MODE DIRECT.)
LEMMA CalmIntroduced ==
    ASSUME Calm
    PROVE  Introduced
<1> SUFFICES ASSUME Quiet, NEW k \in DOMAIN st, NEW r \in RelayOf(k),
                    NEW u \in Present(k) \ {r}, ~u.needs_server_relay
             PROVE  /\ \E p \in clients[r.name].peers : p.username = u.name /\ p.addr = u.addr
                    /\ \E p \in clients[u.name].peers : p.username = r.name /\ p.addr = r.addr
  BY DEF Introduced
<1> PICK n : n = r.name
  OBVIOUS
<1> PICK o : o = u.name
  OBVIOUS
<1>1. /\ r \in st[k].users /\ u \in st[k].users /\ st[k].relay = r.name
      /\ n \in Running /\ clients[n].addr = r.addr /\ o \in Running /\ clients[o].addr = u.addr
  BY PresentMembers
<1>2. Knows(n, o) /\ Knows(o, n)
  BY <1>1 DEF Calm, Pairs, Quiet
<1>3. /\ \E p \in clients[n].peers : p.username = o /\ p.addr = clients[o].addr
      /\ \E p \in clients[o].peers : p.username = n /\ p.addr = clients[n].addr
  BY <1>1, <1>2, NothingToHear
<1> QED  BY <1>1, <1>3

\* Once nothing is on its way, a relay of members that the server serves
\* mirrors what it hears to the server: MODE SERVER_RELAY sets that only in a
\* client that MODE RELAY has reached, and it comes after it.
LEMMA CalmRelayMirrors ==
    ASSUME Calm
    PROVE  RelayMirrors /\ MirrorsForServed
<1> SUFFICES ASSUME Quiet, NEW k \in DOMAIN st, NEW r \in RelayOf(k),
                    NEW u \in Present(k) \ {r}, u.needs_server_relay
             PROVE  clients[r.name].channel_has_server_relays
  BY DEF RelayMirrors, MirrorsForServed
<1> PICK n : n = r.name
  OBVIOUS
<1>1. r \in st[k].users /\ u \in st[k].users /\ st[k].relay = r.name /\ n \in Running
  BY PresentMembers
<1>2. WillMirror(n)
  BY <1>1 DEF Calm, Pairs, Quiet
<1>3. clients[n].channel_has_server_relays
  BY <1>1, <1>2, NothingToHear
<1> QED  BY <1>3

\* Who is alone in its channel and can be a relay has been told to be one: a
\* restart after a crash is the only thing that leaves it untold.
LEMMA CalmLoneMemberRelays ==
    ASSUME Calm
    PROVE  LoneMemberRelays
<1> SUFFICES ASSUME Quiet, NEW k \in DOMAIN st, NEW u \in Present(k),
                    S!Lone(st[k].users), S!Eligible(u)
             PROVE  clients[u.name].is_relay
  BY DEF LoneMemberRelays
<1> PICK n : n = u.name
  OBVIOUS
<1>1. u \in st[k].users /\ n \in Running
  BY PresentMembers
<1>2. st[k].users = {u} /\ ~u.needs_server_relay
  BY <1>1 DEF S!Lone, S!Eligible
<1>3. Told(n)
  BY <1>1, <1>2 DEF Calm, Roles
<1> QED  BY <1>1, <1>3, NothingToHear
=============================================================================
