----------------------------- MODULE RelayProofs -----------------------------
(***************************************************************************)
(* Who is the relay, for every value of the constants: no join takes the   *)
(* role from an eligible relay, a heartbeat pass settles every channel and *)
(* leaves none with a relay that is gone.  And who hears what a            *)
(* server-relayed user says.                                               *)
(***************************************************************************)
EXTENDS SignalingServerProofs

RelayInv == SnapshotCovers /\ RelayIsSenior

----------------------------------------------------------------------------
(* Seniority *)

\* Eligible users are users, and eligible to the heartbeat too.
LEMMA EligibleFacts ==
    ASSUME NEW users \in SUBSET User
    PROVE  /\ EligibleUsers(users) \in SUBSET users
           /\ \A u \in users : u \in EligibleUsers(users)
                <=> ~u.needs_server_relay /\ u.nat_kind # "Symmetric"
           /\ EligibleUsers(users) \subseteq HeartbeatEligibleUsers(users)
BY DEF EligibleUsers, HeartbeatEligibleUsers, Eligible, HeartbeatEligible

\* A relay stays the senior of the users that are left.
LEMMA SomeOfKeepsSenior ==
    ASSUME NEW ch \in Channel, NEW new \in Channel,
           SomeOf(new.users, ch.users), new.relay = ch.relay, Senior(ch)
    PROVE  Senior(new)
<1>1. ch.users \in SUBSET User /\ new.users \in SUBSET User
  BY DEF Channel
<1>2. \A u \in EligibleUsers(new.users) :
        \E w \in EligibleUsers(ch.users) : w.peer_id = u.peer_id /\ w.name = u.name
  <2> SUFFICES ASSUME NEW u \in EligibleUsers(new.users)
               PROVE  \E w \in EligibleUsers(ch.users) : w.peer_id = u.peer_id /\ w.name = u.name
    OBVIOUS
  <2>1. u \in new.users /\ ~u.needs_server_relay /\ u.nat_kind # "Symmetric"
    BY <1>1, EligibleFacts
  <2>2. PICK w \in ch.users : Same(u, w)
    BY <2>1 DEF SomeOf
  <2>3. w \in EligibleUsers(ch.users)
    BY <1>1, <2>1, <2>2, EligibleFacts DEF Same
  <2> QED  BY <2>2, <2>3 DEF Same
<1> SUFFICES ASSUME NEW u \in EligibleUsers(new.users), u.name = new.relay,
                    NEW v \in EligibleUsers(new.users)
             PROVE  u.peer_id <= v.peer_id
  BY DEF Senior
<1>3. PICK w \in EligibleUsers(ch.users) : w.peer_id = u.peer_id /\ w.name = u.name
  BY <1>2
<1>4. PICK y \in EligibleUsers(ch.users) : y.peer_id = v.peer_id /\ y.name = v.name
  BY <1>2
<1>5. w.peer_id <= y.peer_id
  BY <1>3, <1>4 DEF Senior
<1> QED  BY <1>3, <1>4, <1>5

\* With one user in the channel there is nobody to be junior to.
LEMMA LoneIsSenior ==
    ASSUME NEW ch \in Channel, Lone(ch.users)
    PROVE  Senior(ch)
<1>1. PICK u \in ch.users : ch.users = {u}
  BY DEF Lone
<1>2. u.peer_id \in Nat
  BY DEF Channel, User
<1>3. EligibleUsers(ch.users) \subseteq {u}
  BY <1>1 DEF EligibleUsers
<1> QED  BY <1>2, <1>3 DEF Senior

\* No user is named None.
LEMMA NoRelayIsSenior ==
    ASSUME NEW ch \in Channel, ch.relay = None
    PROVE  Senior(ch)
<1>1. \A u \in EligibleUsers(ch.users) : u.name \in Names
  BY DEF EligibleUsers, Channel, User
<1> QED  BY <1>1, NoneAssumption DEF Senior

\* The relay is senior when it was picked as the first of some of the users,
\* all the eligible ones among them.
LEMMA FirstIsSenior ==
    ASSUME NEW ch \in Channel, NEW some \in SUBSET ch.users, some # {},
           EligibleUsers(ch.users) \subseteq some, ch.relay = First(some).name,
           \A u, v \in ch.users : u.name = v.name => u = v
    PROVE  Senior(ch)
<1>1. some \in SUBSET User
  BY DEF Channel
<1>2. First(some) \in ch.users /\ \A v \in some : First(some).peer_id <= v.peer_id
  BY <1>1, FirstIsLeast
<1>3. \A u \in EligibleUsers(ch.users) : u.name = ch.relay => u = First(some)
  BY <1>2
<1> QED  BY <1>2, <1>3 DEF Senior

----------------------------------------------------------------------------
(* Steps *)

\* A step that brings nobody in keeps the relay of a channel senior unless
\* it appoints another.
LEMMA NobodyNewKeepsSenior ==
    ASSUME TypeOK, TypeOK', NobodyNew, NEW q \in DOMAIN st',
           st'[q].relay = st[q].relay, Senior(st[q])
    PROVE  Senior(st'[q])
<1>1. st[q] \in Channel /\ st'[q] \in Channel /\ SomeOf(st'[q].users, st[q].users)
  BY DEF TypeOK, NobodyNew
<1> QED  BY <1>1, SomeOfKeepsSenior

\* A step that may appoint a relay in channel k only.
LEMMA SeniorElsewhere ==
    ASSUME TypeOK, TypeOK', NobodyNew, RelayIsSenior, notifyKey' = notifyKey,
           NEW k,
           \A q \in DOMAIN st' : q # k => st'[q].relay = st[q].relay,
           k \in DOMAIN st' => Senior(st'[k])
    PROVE  RelayIsSenior'
<1> SUFFICES ASSUME NEW q \in DOMAIN st' \ {notifyKey}
             PROVE  Senior(st'[q])
  BY DEF RelayIsSenior, Senior
<1>1. q \in DOMAIN st
  BY DEF NobodyNew
<1>2. CASE q = k
  BY <1>2
<1>3. CASE q # k
  BY <1>1, <1>3, NobodyNewKeepsSenior DEF RelayIsSenior
<1> QED  BY <1>2, <1>3

\* A step that appoints no relay.
LEMMA SeniorEverywhere ==
    ASSUME TypeOK, TypeOK', NobodyNew, RelayIsSenior, notifyKey' = notifyKey,
           \A q \in DOMAIN st' : st'[q].relay = st[q].relay
    PROVE  RelayIsSenior'
<1> SUFFICES ASSUME NEW q \in DOMAIN st' \ {notifyKey}
             PROVE  Senior(st'[q])
  BY DEF RelayIsSenior, Senior
<1>1. q \in DOMAIN st
  BY DEF NobodyNew
<1> QED  BY <1>1, NobodyNewKeepsSenior DEF RelayIsSenior

\* WithUsers changes no relay.
LEMMA UsersFacts ==
    ASSUME TypeOK, NEW k \in DOMAIN st, NEW users, st' = WithUsers(k, users)
    PROVE  /\ DOMAIN st' = DOMAIN st
           /\ \A q \in DOMAIN st : st'[q].relay = st[q].relay
BY DEF TypeOK, Channel, WithUsers

\* A session that connects again changes no relay, here or elsewhere.
LEMMA SeniorReconnect ==
    ASSUME TypeOK, TypeOK', SessionInv, RelayIsSenior,
           NEW k \in Keys, NEW e \in Endpoints, Reconnect(k, e[1], e[2])
    PROVE  RelayIsSenior'
<1> DEFINE sweep == Sweep(k, e[1], e[2])
<1>1. PICK u \in st[k].users : st' = [sweep EXCEPT ![k].users = Refresh(@, u)]
  BY DEF Reconnect
<1>2. DOMAIN sweep = DOMAIN st /\ k \in DOMAIN st
  BY DEF Sweep, Reconnect
<1>3. \A q \in DOMAIN st : sweep[q].relay = st[q].relay
  BY SweepFacts
<1>4. \A q \in DOMAIN st : sweep[q] \in Channel
  BY SweepType
<1> HIDE DEF sweep
<1>5. \A q \in DOMAIN st' : st'[q].relay = st[q].relay
  BY <1>1, <1>2, <1>3, <1>4 DEF Channel
<1>6. notifyKey' = notifyKey
  BY DEF Reconnect, mainVars
<1> QED  BY <1>5, <1>6, ReconnectNobodyNew, SeniorEverywhere

\* A newcomer with company is announced before its channel counts again.
LEMMA SeniorJoin ==
    ASSUME TypeOK, TypeOK', SessionInv, Control, RelayIsSenior,
           NEW k \in Keys, NEW e \in Endpoints, NEW nat \in NatKinds, Join(k, e[1], e[2], nat)
    PROVE  RelayIsSenior'
<1> DEFINE sweep == Sweep(k, e[1], e[2])
<1>1. PICK full :
        /\ st' = [q \in DOMAIN st \cup {k} |-> IF q = k THEN full ELSE sweep[q]]
        /\ IF Lone(full.users)
           THEN UNCHANGED mainVars
           ELSE main' = "notify" /\ notifyKey' = k /\ snapshot' = full.users
  BY DEF Join
<1>2. notifyKey = None /\ None \notin Keys
  BY NoneAssumption DEF Join, Serve, Control, Keys
<1>3. Lone(full.users) => Senior(st'[k])
  <2>1. st'[k] = full /\ st'[k] \in Channel
    BY <1>1 DEF TypeOK
  <2> QED  BY <2>1, LoneIsSenior
<1>4. \A q \in DOMAIN st' : q # k => Senior(st'[q])
  <2> SUFFICES ASSUME NEW q \in DOMAIN st', q # k
               PROVE  Senior(st'[q])
    OBVIOUS
  <2>1. q \in DOMAIN st /\ st'[q] = sweep[q]
    BY <1>1
  <2>2. sweep[q].relay = st[q].relay /\ sweep[q].users \in SUBSET st[q].users
    BY <2>1, SweepFacts
  <2>3. st[q] \in Channel /\ st'[q] \in Channel /\ st[q].users \in SUBSET User
    BY <2>1 DEF TypeOK, Channel
  <2> HIDE DEF sweep
  <2>4. SomeOf(st'[q].users, st[q].users)
    BY <2>1, <2>2, <2>3, SubsetIsSomeOf, PeerIdsDistinct
  <2>5. Senior(st[q])
    BY <1>2, <2>1 DEF RelayIsSenior, TypeOK
  <2> QED  BY <2>1, <2>2, <2>3, <2>4, <2>5, SomeOfKeepsSenior
<1> SUFFICES ASSUME NEW q \in DOMAIN st' \ {notifyKey'}
             PROVE  Senior(st'[q])
  BY DEF RelayIsSenior, Senior
<1> QED  BY <1>1, <1>3, <1>4

\* The relay appointed after a join is senior, whatever the heartbeat did to
\* the channel in between.
LEMMA SeniorAppointRelay ==
    ASSUME TypeOK, TypeOK', SessionInv, RelayInv, AppointRelay
    PROVE  RelayIsSenior'
<1> DEFINE r  == PickEligible(snapshot)
           k  == notifyKey
<1>1. st' = SetRelay(k, r.name) /\ main = "notify" /\ EligibleUsers(snapshot) # {}
  BY DEF AppointRelay
<1>2. snapshot \in SUBSET User
  BY DEF TypeOK
<1>3. r \in snapshot /\ \A w \in EligibleUsers(snapshot) : r.peer_id <= w.peer_id
  <2>1. EligibleUsers(snapshot) \in SUBSET User
    BY <1>2, EligibleFacts
  <2>2. r \in EligibleUsers(snapshot)
          /\ \A w \in EligibleUsers(snapshot) : r.peer_id <= w.peer_id
    BY <1>1, <2>1, FirstIsLeast DEF PickEligible
  <2> QED  BY <1>2, <2>2, EligibleFacts
<1> HIDE DEF r
<1>4. ASSUME k \in DOMAIN st
      PROVE  Senior(st'[k])
  <2>1. st'[k].users = st[k].users /\ st'[k].relay = r.name /\ st[k].users \in SUBSET User
    BY <1>1, <1>4 DEF SetRelay, TypeOK, Channel
  <2>2. \A u \in EligibleUsers(st[k].users) :
          \E w \in EligibleUsers(snapshot) : w.peer_id = u.peer_id /\ w.name = u.name
    <3> SUFFICES ASSUME NEW u \in EligibleUsers(st[k].users)
                 PROVE  \E w \in EligibleUsers(snapshot) :
                          w.peer_id = u.peer_id /\ w.name = u.name
      OBVIOUS
    <3>1. u \in st[k].users /\ ~u.needs_server_relay /\ u.nat_kind # "Symmetric" /\ u \in User
      BY <2>1, EligibleFacts
    <3>2. PICK w \in snapshot : w = [u EXCEPT !.silent = w.silent]
      BY <1>1, <1>4, <3>1 DEF RelayInv, SnapshotCovers
    <3>3. /\ w.peer_id = u.peer_id /\ w.name = u.name
          /\ ~w.needs_server_relay /\ w.nat_kind # "Symmetric"
      BY <3>1, <3>2 DEF User
    <3> QED  BY <1>2, <3>3, EligibleFacts
  <2> SUFFICES ASSUME NEW u \in EligibleUsers(st[k].users), u.name = r.name,
                      NEW v \in EligibleUsers(st[k].users)
               PROVE  u.peer_id <= v.peer_id
    BY <2>1 DEF Senior
  <2>3. PICK w \in EligibleUsers(snapshot) : w.peer_id = u.peer_id /\ w.name = u.name
    BY <2>2
  <2>4. PICK y \in EligibleUsers(snapshot) : y.peer_id = v.peer_id /\ y.name = v.name
    BY <2>2
  <2>5. w = r
    <3>1. w \in snapshot
      BY <1>2, EligibleFacts
    <3> QED  BY <1>1, <1>3, <2>3, <3>1 DEF RelayInv, SnapshotCovers
  <2> QED  BY <1>3, <2>3, <2>4, <2>5
<1> SUFFICES ASSUME NEW q \in DOMAIN st'
             PROVE  Senior(st'[q])
  BY DEF RelayIsSenior, Senior
<1>5. DOMAIN st' = DOMAIN st /\ (q # k => st'[q] = st[q])
  BY <1>1 DEF SetRelay
<1> QED  BY <1>4, <1>5 DEF RelayInv, RelayIsSenior

\* A channel left to the server has no relay to be junior.
LEMMA SeniorLeaveRelayToServer ==
    ASSUME TypeOK, TypeOK', RelayIsSenior, LeaveRelayToServer
    PROVE  RelayIsSenior'
<1>1. st' = SetRelay(notifyKey, None)
  BY DEF LeaveRelayToServer
<1> SUFFICES ASSUME NEW q \in DOMAIN st'
             PROVE  Senior(st'[q])
  BY DEF RelayIsSenior, Senior
<1>2. DOMAIN st' = DOMAIN st /\ (q # notifyKey => st'[q] = st[q])
  BY <1>1 DEF SetRelay
<1>3. q = notifyKey => st'[q].relay = None
  BY <1>1, <1>2 DEF SetRelay, TypeOK, Channel
<1>4. st'[q] \in Channel
  BY DEF TypeOK
<1> QED  BY <1>2, <1>3, <1>4, NoRelayIsSenior DEF RelayIsSenior

\* DISCONNECT of the relay appoints the first of all the users left.
LEMMA SeniorDisconnect ==
    ASSUME TypeOK, TypeOK', SessionInv, RelayIsSenior,
           NEW k \in Keys, NEW e \in Endpoints, Disconnect(k, e[1], e[2])
    PROVE  RelayIsSenior'
<1> DEFINE present == k \in DOMAIN st /\ \E u \in st[k].users : Session(u, e[1], e[2])
           left    == RemoveSession(st[k].users, e[1], e[2])
           relay   == RelayAfterDeparture(st[k], left, st[k].relay = e[1])
<1>1. NobodyNew /\ notifyKey' = notifyKey
  BY DisconnectNobodyNew DEF Disconnect
<1>2. CASE ~present
  <2>1. st' = st
    BY <1>2 DEF Disconnect
  <2> QED  BY <1>1, <2>1, SeniorEverywhere
<1>3. CASE present
  <2>1. st' = [st EXCEPT ![k].users = left, ![k].relay = relay]
    BY <1>3 DEF Disconnect
  <2>2. left \subseteq st[k].users
    BY DEF RemoveSession
  <2>3. \/ relay = st[k].relay
        \/ left = {} /\ relay = None
        \/ left # {} /\ relay = First(left).name
    BY DEF RelayAfterDeparture
  <2> HIDE DEF left, relay
  <2>4. /\ \A q \in DOMAIN st' : q # k => st'[q] = st[q]
        /\ st'[k].users = left /\ st'[k].relay = relay
    BY <1>3, <2>1 DEF TypeOK, Channel
  <2>5. st'[k] \in Channel /\ k \in DOMAIN st'
    BY <1>3, <2>1 DEF TypeOK
  <2>6. CASE relay = st[k].relay
    <3>1. \A q \in DOMAIN st' : st'[q].relay = st[q].relay
      BY <2>4, <2>6
    <3> QED  BY <1>1, <3>1, SeniorEverywhere
  <2>7. CASE relay = None
    <3>1. Senior(st'[k])
      BY <2>4, <2>5, <2>7, NoRelayIsSenior
    <3> QED  BY <1>1, <2>4, <3>1, SeniorElsewhere
  <2>8. CASE left # {} /\ relay = First(left).name
    <3>1. \A u, v \in left : u.name = v.name => u = v
      BY <1>3, <2>2 DEF SessionInv, NamesUnique
    <3>2. EligibleUsers(left) \subseteq left
      BY DEF EligibleUsers
    <3>3. Senior(st'[k])
      BY <2>4, <2>5, <2>8, <3>1, <3>2, FirstIsSenior
    <3> QED  BY <1>1, <2>4, <3>3, SeniorElsewhere
  <2> QED  BY <2>3, <2>6, <2>7, <2>8
<1> QED  BY <1>2, <1>3

\* PEER_TIMEOUT appoints nobody but a user left alone.
LEMMA SeniorPeerTimeout ==
    ASSUME TypeOK, TypeOK', SessionInv, RelayIsSenior,
           NEW k \in Keys, NEW name \in Names, PeerTimeout(k, name)
    PROVE  RelayIsSenior'
<1> DEFINE left  == {u \in st[k].users : u.name # name}
           relay == IF Lone(left) THEN First(left).name ELSE st[k].relay
<1>1. NobodyNew /\ notifyKey' = notifyKey
  BY PeerTimeoutNobodyNew DEF PeerTimeout, mainVars
<1>2. k \in DOMAIN st /\ st' = [st EXCEPT ![k].users = left, ![k].relay = relay]
  BY DEF PeerTimeout
<1>3. Lone(left) \/ relay = st[k].relay
  OBVIOUS
<1> HIDE DEF left, relay
<1>4. /\ \A q \in DOMAIN st' : q # k => st'[q] = st[q]
      /\ st'[k].users = left /\ st'[k].relay = relay
      /\ k \in DOMAIN st'
  BY <1>2 DEF TypeOK, Channel
<1>5. st'[k] \in Channel
  BY <1>4 DEF TypeOK
<1>6. CASE Lone(left)
  <2>1. Senior(st'[k])
    BY <1>4, <1>5, <1>6, LoneIsSenior
  <2> QED  BY <1>1, <1>4, <2>1, SeniorElsewhere
<1>7. CASE relay = st[k].relay
  <2>1. \A q \in DOMAIN st' : st'[q].relay = st[q].relay
    BY <1>4, <1>7
  <2> QED  BY <1>1, <2>1, SeniorEverywhere
<1> QED  BY <1>3, <1>6, <1>7

\* REQUEST_RELAY, HB, PONG and the passing of time appoint nobody.
LEMMA SeniorSameRelays ==
    ASSUME TypeOK, TypeOK', SessionInv, RelayIsSenior,
           \/ \E k \in Keys, name \in Names : RequestRelay(k, name)
           \/ \E k \in Keys, e \in Endpoints : Heartbeat(k, e[1], e[2])
           \/ \E e \in Endpoints : Pong(e[2])
           \/ \E k \in DOMAIN st : FallSilent(k)
    PROVE  RelayIsSenior'
<1>1. NobodyNew
  BY RequestRelayNobodyNew, HeartbeatNobodyNew, PongNobodyNew, FallSilentNobodyNew
<1>2. notifyKey' = notifyKey
  BY DEF RequestRelay, Heartbeat, Pong, FallSilent, mainVars
<1>3. DOMAIN st' = DOMAIN st /\ \A q \in DOMAIN st : st'[q].relay = st[q].relay
  <2> DEFINE goal == DOMAIN st' = DOMAIN st /\ \A q \in DOMAIN st : st'[q].relay = st[q].relay
  <2>1. ASSUME NEW e \in Endpoints, Pong(e[2])
        PROVE  goal
    BY <2>1 DEF Pong, TypeOK, Channel
  <2>2. ASSUME NEW k \in DOMAIN st, NEW users, st' = WithUsers(k, users)
        PROVE  goal
    BY <2>2, UsersFacts
  <2> QED  BY <2>1, <2>2 DEF RequestRelay, Heartbeat, FallSilent
<1> QED  BY <1>1, <1>2, <1>3, SeniorEverywhere

\* What ExpireUser does to its channel.
LEMMA ExpireFacts ==
    ASSUME TypeOK, NEW k \in Keys, ExpireUser(k)
    PROVE  LET u    == First(Silent(st[k].users))
               left == st[k].users \ {u}
           IN  /\ k \in DOMAIN st /\ DOMAIN st' = DOMAIN st
               /\ \A q \in DOMAIN st : q # k => st'[q] = st[q]
               /\ u \in st[k].users
               /\ st[k].users \in SUBSET User
               /\ st'[k].users = left
               /\ st'[k].relay = RelayAfterTimeout(st[k], u, left)
<1> DEFINE u     == First(Silent(st[k].users))
           left  == st[k].users \ {u}
           relay == RelayAfterTimeout(st[k], u, left)
<1>1. k \in DOMAIN st /\ st' = [st EXCEPT ![k].users = left, ![k].relay = relay]
  BY DEF ExpireUser, TypeOK
<1>2. st[k].users \in SUBSET User
  BY <1>1 DEF TypeOK, Channel
<1>3. u \in st[k].users
  <2>1. Silent(st[k].users) \in SUBSET User /\ Silent(st[k].users) # {}
    BY <1>2 DEF Silent, ExpireUser
  <2>2. u \in Silent(st[k].users)
    BY <2>1, FirstIsLeast
  <2> QED  BY <2>2 DEF Silent
<1> HIDE DEF left, relay, u
<1>4. /\ DOMAIN st' = DOMAIN st
      /\ \A q \in DOMAIN st : q # k => st'[q] = st[q]
      /\ st'[k].users = left
      /\ st'[k].relay = relay
  BY <1>1 DEF TypeOK, Channel
<1> QED  BY <1>1, <1>2, <1>3, <1>4 DEF left, relay, u

\* The successor of a relay that timed out is the first eligible user left.
LEMMA SeniorExpireUser ==
    ASSUME TypeOK, TypeOK', SessionInv, RelayIsSenior, NEW k \in Keys, ExpireUser(k)
    PROVE  RelayIsSenior'
<1> DEFINE u     == First(Silent(st[k].users))
           left  == st[k].users \ {u}
           heirs == HeartbeatEligibleUsers(left)
<1>1. NobodyNew /\ notifyKey' = notifyKey
  BY ExpireUserNobodyNew DEF ExpireUser, mainVars
<1>2. /\ k \in DOMAIN st /\ DOMAIN st' = DOMAIN st
      /\ \A q \in DOMAIN st : q # k => st'[q] = st[q]
      /\ st[k].users \in SUBSET User
      /\ st'[k].users = left
      /\ st'[k].relay = RelayAfterTimeout(st[k], u, left)
  BY ExpireFacts
<1>3. left \in SUBSET User /\ \A v, w \in left : v.name = w.name => v = w
  BY <1>2 DEF SessionInv, NamesUnique
<1>4. \/ heirs = {} /\ st'[k].relay = None
      \/ heirs # {} /\ st'[k].relay = First(heirs).name
      \/ Lone(left)
      \/ st'[k].relay = st[k].relay
  BY <1>2 DEF RelayAfterTimeout
<1>5. EligibleUsers(left) \subseteq heirs /\ heirs \in SUBSET left
  BY <1>3, EligibleFacts DEF HeartbeatEligibleUsers
<1>6. st'[k] \in Channel
  BY <1>2 DEF TypeOK
<1> HIDE DEF left, heirs
<1>7. CASE st'[k].relay = st[k].relay
  <2>1. \A q \in DOMAIN st' : st'[q].relay = st[q].relay
    BY <1>2, <1>7
  <2> QED  BY <1>1, <2>1, SeniorEverywhere
<1>8. CASE st'[k].relay # st[k].relay
  <2>1. Senior(st'[k]) \/ Lone(left)
    BY <1>2, <1>3, <1>4, <1>5, <1>6, <1>8, NoRelayIsSenior, FirstIsSenior
  <2>2. Senior(st'[k])
    BY <1>2, <1>6, <2>1, LoneIsSenior
  <2>3. \A q \in DOMAIN st' : q # k => st'[q].relay = st[q].relay
    BY <1>2
  <2> QED  BY <1>1, <2>2, <2>3, SeniorElsewhere
<1> QED  BY <1>7, <1>8

\* A pass settles the relay of lone users only.
LEMMA SeniorSettleChannel ==
    ASSUME TypeOK, TypeOK', SessionInv, RelayIsSenior, NEW k \in Keys, SettleChannel(k)
    PROVE  RelayIsSenior'
<1>1. NobodyNew /\ notifyKey' = notifyKey
  BY SettleChannelNobodyNew DEF SettleChannel, mainVars
<1>2. k \in DOMAIN st
  BY DEF SettleChannel, TypeOK
<1>3. CASE Lone(st[k].users)
  <2>1. PICK relay : st' = [st EXCEPT ![k].relay = relay]
    BY <1>3 DEF SettleChannel
  <2>2. /\ \A q \in DOMAIN st' : q # k => st'[q] = st[q]
        /\ k \in DOMAIN st' /\ st'[k].users = st[k].users
    BY <1>2, <2>1 DEF TypeOK, Channel
  <2>3. st'[k] \in Channel
    BY <2>2 DEF TypeOK
  <2>4. Senior(st'[k])
    BY <1>3, <2>2, <2>3, LoneIsSenior
  <2> QED  BY <1>1, <2>2, <2>4, SeniorElsewhere
<1>4. CASE ~Lone(st[k].users)
  <2>1. st' = st
    BY <1>4 DEF SettleChannel
  <2> QED  BY <1>1, <2>1, SeniorEverywhere
<1> QED  BY <1>3, <1>4

\* Removing channels changes no other.
LEMMA SeniorCleanup ==
    ASSUME TypeOK, TypeOK', SessionInv, RelayIsSenior, Cleanup
    PROVE  RelayIsSenior'
<1>1. NobodyNew /\ notifyKey' = notifyKey
  BY CleanupNobodyNew DEF Cleanup, mainVars
<1>2. \A q \in DOMAIN st' : st'[q] = st[q]
  BY DEF Cleanup
<1> QED  BY <1>1, <1>2, SeniorEverywhere

----------------------------------------------------------------------------
(* The snapshot *)

\* The main task waits for the mutex: only the heartbeat and the clock step.
LEMMA StepsWhileNotifying ==
    ASSUME main = "notify", main' = "notify", [Next]_vars
    PROVE  HeartbeatStep \/ (\E k \in DOMAIN st : FallSilent(k)) \/ UNCHANGED vars
BY DEF Next, MainStep, HandleMessage, Reconnect, Join, Disconnect, PeerTimeout,
       RequestRelay, Heartbeat, Pong, NatProbe, ForwardData, Serve, AppointRelay,
       LeaveRelayToServer, BackToRecv

\* While a join waits to be announced, only the heartbeat and the clock touch
\* its channel, and they change a user only in its silence.
LEMMA UsersWhileNotifying ==
    ASSUME TypeOK, main = "notify", main' = "notify", [Next]_vars,
           NEW q \in DOMAIN st'
    PROVE  /\ q \in DOMAIN st
           /\ \A u \in st'[q].users : \E w \in st[q].users :
                u \in User /\ w \in User /\ w = [u EXCEPT !.silent = w.silent]
           /\ notifyKey' = notifyKey /\ snapshot' = snapshot
<1> DEFINE Stays == /\ q \in DOMAIN st
                    /\ \A u \in st'[q].users : \E w \in st[q].users :
                         u \in User /\ w \in User /\ w = [u EXCEPT !.silent = w.silent]
                    /\ notifyKey' = notifyKey /\ snapshot' = snapshot
<1>1. ASSUME NEW p \in DOMAIN st
      PROVE  st[p].users \in SUBSET User
  BY DEF TypeOK, Channel
<1>2. \A w \in User : w = [w EXCEPT !.silent = w.silent]
  BY DEF User
<1>3. ASSUME q \in DOMAIN st, st'[q].users \subseteq st[q].users, UNCHANGED mainVars
      PROVE  Stays
  BY <1>1, <1>2, <1>3 DEF mainVars
<1>4. ASSUME NEW k \in Keys, ExpireUser(k)
      PROVE  Stays
  <2>1. q \in DOMAIN st /\ st'[q].users \subseteq st[q].users
    BY <1>4, ExpireFacts
  <2> QED  BY <1>3, <1>4, <2>1 DEF ExpireUser
<1>5. ASSUME NEW k \in Keys, SettleChannel(k)
      PROVE  Stays
  <2>1. st' = st \/ \E relay : st' = [st EXCEPT ![k].relay = relay]
    BY <1>5 DEF SettleChannel
  <2>2. q \in DOMAIN st /\ st'[q].users = st[q].users
    BY <2>1 DEF TypeOK, Channel
  <2> QED  BY <1>3, <1>5, <2>2 DEF SettleChannel
<1>6. CASE Cleanup
  <2>1. q \in DOMAIN st /\ st'[q] = st[q]
    BY <1>6 DEF Cleanup
  <2> QED  BY <1>3, <1>6, <2>1 DEF Cleanup
<1>7. CASE Tick \/ SendNotes \/ UNCHANGED vars
  BY <1>3, <1>7 DEF Tick, SendNotes, vars
<1>8. ASSUME NEW k \in DOMAIN st, FallSilent(k)
      PROVE  Stays
  <2>1. PICK u \in st[k].users :
          st' = WithUsers(k, (st[k].users \ {u}) \cup {[u EXCEPT !.silent = TRUE]})
    BY <1>8 DEF FallSilent
  <2>2. q \in DOMAIN st /\ (q # k => st'[q] = st[q])
    BY <2>1 DEF WithUsers
  <2>3. CASE q # k
    BY <1>3, <1>8, <2>2, <2>3 DEF FallSilent
  <2>4. CASE q = k
    <3> DEFINE w == [u EXCEPT !.silent = TRUE]
    <3>1. st'[q].users = (st[k].users \ {u}) \cup {w}
      BY <2>1, <2>2, <2>4 DEF WithUsers, TypeOK, Channel
    <3>2. u \in User /\ w \in User /\ u = [w EXCEPT !.silent = u.silent]
      BY <1>1 DEF User
    <3> HIDE DEF w
    <3> QED  BY <1>1, <1>2, <1>8, <2>2, <2>4, <3>1, <3>2 DEF FallSilent, mainVars
  <2> QED  BY <2>3, <2>4
<1> QED  BY <1>4, <1>5, <1>6, <1>7, <1>8, StepsWhileNotifying DEF HeartbeatStep

\* A join takes its snapshot from the channel it leaves behind.
LEMMA JoinSnapshot ==
    ASSUME TypeOK, TypeOK', SessionInv',
           NEW k \in Keys, NEW e \in Endpoints, NEW nat \in NatKinds,
           Join(k, e[1], e[2], nat), main' = "notify"
    PROVE  SnapshotCovers'
<1> DEFINE sweep == Sweep(k, e[1], e[2])
<1>1. PICK full :
        /\ st' = [q \in DOMAIN st \cup {k} |-> IF q = k THEN full ELSE sweep[q]]
        /\ IF Lone(full.users)
           THEN UNCHANGED mainVars
           ELSE main' = "notify" /\ notifyKey' = k /\ snapshot' = full.users
  BY DEF Join
<1>2. main = "recv"
  BY DEF Join, Serve
<1>3. notifyKey' = k /\ snapshot' = full.users
  BY <1>1, <1>2 DEF mainVars
<1>4. k \in DOMAIN st' /\ st'[k] = full
  BY <1>1
<1>5. \A w \in full.users : w = [w EXCEPT !.silent = w.silent]
  BY <1>4 DEF TypeOK, Channel, User
<1>6. \A w, v \in full.users : w.name = v.name => w = v
  BY <1>4 DEF SessionInv, NamesUnique
<1> QED  BY <1>3, <1>4, <1>5, <1>6 DEF SnapshotCovers

\* The snapshot covers the channel from the join until the relay is appointed.
LEMMA SnapshotNext ==
    ASSUME TypeOK, TypeOK', SessionInv', SnapshotCovers, [Next]_vars
    PROVE  SnapshotCovers'
<1>1. CASE main' # "notify"
  BY <1>1 DEF SnapshotCovers
<1>2. CASE main' = "notify" /\ main = "notify"
  <2>1. snapshot' = snapshot /\ notifyKey' = notifyKey
    BY <1>2, StepsWhileNotifying
       DEF HeartbeatStep, Tick, ExpireUser, SettleChannel, SendNotes, Cleanup, FallSilent,
           vars, mainVars
  <2>2. ASSUME NEW u \in st'[notifyKey].users, notifyKey \in DOMAIN st'
        PROVE  \E w \in snapshot : w = [u EXCEPT !.silent = w.silent]
    <3>1. notifyKey \in DOMAIN st
      BY <1>2, <2>2, UsersWhileNotifying
    <3>2. PICK v \in st[notifyKey].users :
            u \in User /\ v \in User /\ v = [u EXCEPT !.silent = v.silent]
      BY <1>2, <2>2, UsersWhileNotifying
    <3>3. PICK w \in snapshot : w = [v EXCEPT !.silent = w.silent]
      BY <1>2, <3>1 DEF SnapshotCovers
    <3>4. w = [u EXCEPT !.silent = w.silent]
      BY <3>2, <3>3 DEF User
    <3> QED  BY <3>4
  <2> QED  BY <1>2, <2>1, <2>2 DEF SnapshotCovers
<1>3. CASE main' = "notify" /\ main # "notify"
  <2>1. PICK e \in Endpoints, k \in Keys, nat \in NatKinds : Join(k, e[1], e[2], nat)
    BY <1>3 DEF Next, MainStep, HeartbeatStep, HandleMessage, Reconnect, Disconnect,
                PeerTimeout, RequestRelay, Heartbeat, Pong, NatProbe, ForwardData,
                AppointRelay, LeaveRelayToServer, BackToRecv, Tick, ExpireUser,
                SettleChannel, SendNotes, Cleanup, FallSilent, vars, mainVars
  <2> QED  BY <1>3, <2>1, JoinSnapshot
<1> QED  BY <1>1, <1>2, <1>3

----------------------------------------------------------------------------
(* The invariant *)

\* There are no channels at first.
LEMMA RelayInit == Init => RelayInv
BY DEF Init, RelayInv, SnapshotCovers, RelayIsSenior

\* Every step keeps the relays senior.
LEMMA SeniorNext ==
    ASSUME TypeOK, TypeOK', Control, SessionInv, RelayInv, [Next]_vars
    PROVE  RelayIsSenior'
<1> USE DEF RelayInv
<1>1. ASSUME NEW e \in Endpoints, HandleMessage(e[1], e[2])
      PROVE  RelayIsSenior'
  <2>1. CASE NatProbe(e[2]) \/ \E sender \in Names : ForwardData(e[2], sender)
    <3>1. st' = st /\ notifyKey' = notifyKey
      BY <2>1 DEF NatProbe, ForwardData, mainVars
    <3> QED  BY <3>1 DEF RelayIsSenior
  <2> QED  BY <1>1, <2>1, SeniorReconnect, SeniorJoin, SeniorDisconnect, SeniorSameRelays
           DEF HandleMessage
<1>2. ASSUME NEW k \in Keys, NEW name \in Names, PeerTimeout(k, name) \/ RequestRelay(k, name)
      PROVE  RelayIsSenior'
  BY <1>2, SeniorPeerTimeout, SeniorSameRelays
<1>3. CASE AppointRelay \/ LeaveRelayToServer
  BY <1>3, SeniorAppointRelay, SeniorLeaveRelayToServer
<1>4. ASSUME NEW k \in Keys, ExpireUser(k) \/ SettleChannel(k)
      PROVE  RelayIsSenior'
  BY <1>4, SeniorExpireUser, SeniorSettleChannel
<1>5. CASE Cleanup \/ \E k \in DOMAIN st : FallSilent(k)
  BY <1>5, SeniorCleanup, SeniorSameRelays
<1>6. CASE Tick \/ SendNotes \/ UNCHANGED vars
  <2>1. st' = st /\ notifyKey' = notifyKey
    BY <1>6 DEF Tick, SendNotes, vars, mainVars
  <2> QED  BY <2>1 DEF RelayIsSenior
<1> QED  BY <1>1, <1>2, <1>3, <1>4, <1>5, <1>6 DEF Next, MainStep, HeartbeatStep

\* No join takes the role of relay from an eligible relay, and what a join
\* is announced from covers who is in the channel by then.
THEOREM RelayCorrect == Spec => []RelayInv
<1>1. Init => RelayInv
  BY RelayInit
<1>2. ASSUME TypeOK, TypeOK', Control, SessionInv, SessionInv', RelayInv, [Next]_vars
      PROVE  RelayInv'
  BY <1>2, SeniorNext, SnapshotNext DEF RelayInv
<1> QED  BY <1>1, <1>2, TypeCorrect, SessionsCorrect, PTL DEF Spec, SafetySpec

\* The relay on record, if eligible, has been in its channel longest of all
\* eligible members, except while a join is being announced.
THEOREM RelayIsSeniorHolds == Spec => []RelayIsSenior
<1>1. RelayInv => RelayIsSenior
  BY DEF RelayInv
<1> QED  BY <1>1, RelayCorrect, PTL

\* The snapshot of a join covers who is in the channel.
THEOREM SnapshotCoversHolds == Spec => []SnapshotCovers
<1>1. RelayInv => SnapshotCovers
  BY DEF RelayInv
<1> QED  BY <1>1, RelayCorrect, PTL


----------------------------------------------------------------------------
(* The relay is a member *)

\* The successor of a relay that timed out is one of the users left.
LEMMA SuccessorIsLeft ==
    ASSUME NEW ch \in Channel, NEW u \in ch.users, NEW left, left = ch.users \ {u},
           NEW new \in Channel, new.users = left,
           new.relay = RelayAfterTimeout(ch, u, left), RelayPresent(ch)
    PROVE  RelayPresent(new)
<1> DEFINE heirs == HeartbeatEligibleUsers(left)
<1>1. left \in SUBSET User
  BY DEF Channel
<1>2. heirs \in SUBSET left
  BY DEF HeartbeatEligibleUsers
<1>3. CASE heirs # {} /\ new.relay = First(heirs).name
  <2>1. heirs \in SUBSET User
    BY <1>1, <1>2
  <2>2. First(heirs) \in left
    BY <1>2, <1>3, <2>1, FirstIsLeast
  <2> QED  BY <1>3, <2>2 DEF RelayPresent, RelayUser
<1>4. CASE Lone(left) /\ new.relay = First(left).name
  <2>1. left # {}
    BY <1>4 DEF Lone
  <2>2. First(left) \in left
    BY <1>1, <2>1, FirstIsLeast
  <2> QED  BY <1>4, <2>2 DEF RelayPresent, RelayUser
<1>5. CASE ch.relay # u.name /\ new.relay = ch.relay
  BY <1>5 DEF RelayPresent, RelayUser
<1>6. CASE new.relay = None
  BY <1>6 DEF RelayPresent
<1> QED  BY <1>3, <1>4, <1>5, <1>6 DEF RelayAfterTimeout

\* Every step of the heartbeat keeps a relay that is a member one.
LEMMA RelayStaysPresent ==
    ASSUME TypeOK, TypeOK', HeartbeatStep,
           NEW k \in DOMAIN st \cap DOMAIN st', RelayPresent(st[k])
    PROVE  RelayPresent(st'[k])
<1>1. st[k] \in Channel /\ st'[k] \in Channel
  BY DEF TypeOK
<1>2. ASSUME NEW q \in Keys, ExpireUser(q)
      PROVE  RelayPresent(st'[k])
  <2> DEFINE u    == First(Silent(st[q].users))
             left == st[q].users \ {u}
  <2>1. /\ q # k => st'[k] = st[k]
        /\ u \in st[q].users
        /\ st'[q].users = left
        /\ st'[q].relay = RelayAfterTimeout(st[q], u, left)
    BY <1>2, ExpireFacts
  <2> HIDE DEF u
  <2> QED  BY <1>1, <2>1, SuccessorIsLeft
<1>3. ASSUME NEW q \in Keys, SettleChannel(q)
      PROVE  RelayPresent(st'[k])
  <2>1. q \in DOMAIN st
    BY <1>3 DEF SettleChannel, TypeOK
  <2>2. CASE Lone(st[q].users)
    <3> DEFINE u == First(st[q].users)
    <3>1. PICK relay \in {u.name, None} : st' = [st EXCEPT ![q].relay = relay]
      BY <1>3, <2>2 DEF SettleChannel
    <3>2. u \in st[q].users
      <4>1. st[q].users \in SUBSET User /\ st[q].users # {}
        BY <2>1, <2>2 DEF TypeOK, Channel, Lone
      <4> QED  BY <4>1, FirstIsLeast
    <3> HIDE DEF u
    <3>3. /\ q # k => st'[k] = st[k]
          /\ q = k => st'[k].users = st[q].users /\ st'[k].relay = relay
      BY <1>1, <3>1 DEF TypeOK, Channel
    <3> QED  BY <3>1, <3>2, <3>3 DEF RelayPresent, RelayUser
  <2>3. CASE ~Lone(st[q].users)
    BY <1>3, <2>3 DEF SettleChannel
  <2> QED  BY <2>2, <2>3
<1>4. CASE Tick \/ SendNotes \/ Cleanup
  BY <1>4 DEF Tick, SendNotes, Cleanup
<1> QED  BY <1>2, <1>3, <1>4 DEF HeartbeatStep

\* Timing users out never leaves a channel with a relay that is not a member.
THEOREM HeartbeatKeepsRelayPresentHolds == Spec => HeartbeatKeepsRelayPresent
<1> DEFINE Keeps == HeartbeatStep =>
                     \A k \in DOMAIN st \cap DOMAIN st' :
                        RelayPresent(st[k]) => RelayPresent(st'[k])
<1>1. ASSUME TypeOK, TypeOK', [Next]_vars
      PROVE  [Keeps]_vars
  BY <1>1, RelayStaysPresent
<1> HIDE DEF Keeps
<1>2. Spec => [][Keeps]_vars
  BY <1>1, TypeCorrect, PTL DEF Spec, SafetySpec
<1> QED  BY <1>2 DEF HeartbeatKeepsRelayPresent, Keeps

----------------------------------------------------------------------------
(* A pass settles the channels *)

\* SettleChannel settles its channel and disturbs no other.
LEMMA SettleSettles ==
    ASSUME TypeOK, PassSettles, NEW k \in Keys, SettleChannel(k),
           NEW q \in DOMAIN st' \ unvisited'
    PROVE  Settled(q)'
<1>1. k \in DOMAIN st /\ hb = "collect" /\ Silent(st[k].users) = {}
  BY DEF SettleChannel, TypeOK
<1>2. toCleanup' = FindEmpty(k) /\ unvisited' = unvisited \ {k}
  BY DEF SettleChannel
<1>3. toCleanup \subseteq toCleanup'
  BY <1>2 DEF FindEmpty
<1> DEFINE u == First(st[k].users)
           relay == IF HeartbeatEligible(u) THEN u.name ELSE None
<1>4. st' = IF Lone(st[k].users) THEN [st EXCEPT ![k].relay = relay] ELSE st
  BY DEF SettleChannel
<1> HIDE DEF relay
<1>5. /\ DOMAIN st' = DOMAIN st
      /\ \A p \in DOMAIN st : p # k => st'[p] = st[p]
      /\ st'[k].users = st[k].users
      /\ Lone(st[k].users) => st'[k].relay = relay
  BY <1>1, <1>4 DEF TypeOK, Channel
<1>6. CASE q # k
  <2>1. Settled(q)
    BY <1>1, <1>2, <1>5, <1>6 DEF PassSettles
  <2> QED  BY <1>3, <1>5, <1>6, <2>1 DEF Settled
<1>7. CASE q = k
  <2>1. \A w \in st[k].users : ~w.silent
    BY <1>1 DEF Silent
  <2>2. st[k].users = {} => k \in toCleanup'
    BY <1>2 DEF FindEmpty
  <2>3. ASSUME NEW w \in st[k].users, st[k].users = {w}
        PROVE  st'[k].relay = IF w.needs_server_relay THEN None ELSE w.name
    <3>1. w \in User
      BY <1>1 DEF TypeOK, Channel
    <3>2. u = w
      BY <2>3, <3>1, LoneIsFirst
    <3>3. Lone(st[k].users)
      BY <2>3 DEF Lone
    <3> HIDE DEF u
    <3> QED  BY <1>5, <3>2, <3>3 DEF relay, HeartbeatEligible
  <2> QED  BY <1>5, <1>7, <2>1, <2>2, <2>3 DEF Settled
<1> QED  BY <1>6, <1>7

\* Only the heartbeat task moves itself.
LEMMA HeartbeatUntouched ==
    ASSUME MainStep \/ \E k \in DOMAIN st : FallSilent(k)
    PROVE  UNCHANGED hbVars
<1>1. ASSUME NEW e \in Endpoints, HandleMessage(e[1], e[2])
      PROVE  UNCHANGED hbVars
  BY <1>1 DEF HandleMessage, Reconnect, Join, Disconnect, Heartbeat, Pong, NatProbe, ForwardData
<1> QED  BY <1>1 DEF MainStep, PeerTimeout, RequestRelay, AppointRelay, LeaveRelayToServer,
                     FallSilent

\* While the heartbeat task holds the mutex nobody else changes the map.
LEMMA StepsDuringPass ==
    ASSUME Control, hb = "collect", [Next]_vars
    PROVE  \/ \E k \in Keys : ExpireUser(k) \/ SettleChannel(k)
           \/ SendNotes
           \/ UNCHANGED <<st, hb, unvisited, toCleanup>>
<1>1. lock # "free"
  BY DEF Control
<1>2. ASSUME MainStep
      PROVE  UNCHANGED <<st, hb, unvisited, toCleanup>>
  <2>1. ASSUME NEW e \in Endpoints, HandleMessage(e[1], e[2])
        PROVE  NatProbe(e[2])
    BY <1>1, <2>1 DEF HandleMessage, Reconnect, Join, Disconnect, Heartbeat, Pong,
                      ForwardData, Serve
  <2>2. \E e \in Endpoints : NatProbe(e[2])
    BY <1>1, <1>2, <2>1 DEF MainStep, PeerTimeout, RequestRelay, AppointRelay,
                            LeaveRelayToServer, Serve
  <2> QED  BY <2>2 DEF NatProbe, hbVars
<1>3. ~Tick /\ ~Cleanup /\ ~\E k \in DOMAIN st : FallSilent(k)
  BY DEF Tick, Cleanup, FallSilent
<1> QED  BY <1>2, <1>3 DEF Next, HeartbeatStep, vars, hbVars

\* Every step keeps the channels a pass is done with settled.
LEMMA PassNext ==
    ASSUME TypeOK, Control, PassSettles, [Next]_vars
    PROVE  PassSettles'
<1> SUFFICES ASSUME hb' = "collect", NEW q \in DOMAIN st' \ unvisited'
             PROVE  Settled(q)'
  BY DEF PassSettles, Settled
<1>1. CASE hb # "collect"
  <2>1. Tick
    BY <1>1, HeartbeatUntouched DEF Next, HeartbeatStep, ExpireUser, SettleChannel, SendNotes,
                                    Cleanup, vars, hbVars
  <2> QED  BY <2>1 DEF Tick
<1>2. CASE hb = "collect"
  <2>1. ASSUME NEW k \in Keys, ExpireUser(k)
        PROVE  Settled(q)'
    <3>1. DOMAIN st' = DOMAIN st /\ \A p \in DOMAIN st : p # k => st'[p] = st[p]
      BY <2>1, ExpireFacts
    <3>2. k \in unvisited /\ unvisited' = unvisited /\ toCleanup' = toCleanup
      BY <2>1 DEF ExpireUser
    <3>3. Settled(q) /\ st'[q] = st[q]
      BY <1>2, <3>1, <3>2 DEF PassSettles
    <3> QED  BY <3>2, <3>3 DEF Settled
  <2>2. ASSUME NEW k \in Keys, SettleChannel(k)
        PROVE  Settled(q)'
    BY <2>2, SettleSettles
  <2>3. CASE SendNotes
    BY <2>3 DEF SendNotes
  <2>4. CASE UNCHANGED <<st, hb, unvisited, toCleanup>>
    <3>1. Settled(q)
      BY <1>2, <2>4 DEF PassSettles
    <3> QED  BY <2>4, <3>1 DEF Settled
  <2> QED  BY <1>2, <2>1, <2>2, <2>3, <2>4, StepsDuringPass
<1> QED  BY <1>1, <1>2

\* A channel a pass is done with has no silent user, is down for removal if
\* empty, and its only user is the relay unless the server relays for it.
THEOREM PassSettlesHolds == Spec => []PassSettles
<1>1. Init => PassSettles
  BY DEF Init, PassSettles
<1>2. TypeOK /\ Control /\ PassSettles /\ [Next]_vars => PassSettles'
  BY PassNext
<1> QED  BY <1>1, <1>2, TypeCorrect, PTL DEF Spec, SafetySpec

----------------------------------------------------------------------------
(* Traffic *)

IssuedAtEndpoints == \A i \in issued : <<i.name, i.addr>> \in Endpoints

\* Only a CONNECT is WELCOMEd, and it comes from where the client runs.
LEMMA IssuedNext ==
    ASSUME IssuedAtEndpoints, [Next]_vars
    PROVE  IssuedAtEndpoints'
<1>1. ASSUME NEW e \in Endpoints, HandleMessage(e[1], e[2])
      PROVE  IssuedAtEndpoints'
  <2>1. ASSUME NEW cid, NEW pid,
               issued' = issued \cup {[cid |-> cid, pid |-> pid, name |-> e[1], addr |-> e[2]]}
        PROVE  IssuedAtEndpoints'
    <3>1. <<e[1], e[2]>> \in Endpoints
      <4>1. e = <<e[1], e[2]>>
        BY EndpointsAssumption
      <4> QED  BY <4>1, Zenon
    <3>2. ASSUME NEW i \in issued' PROVE <<i.name, i.addr>> \in Endpoints
      <4>1. CASE i \in issued
        BY <4>1 DEF IssuedAtEndpoints
      <4>2. CASE i \notin issued
        <5>1. i.name = e[1] /\ i.addr = e[2]
          BY <2>1, <4>2
        <5> QED  BY <3>1, <5>1, Zenon
      <4> QED  BY <4>1, <4>2
    <3> QED  BY <3>2 DEF IssuedAtEndpoints
  <2>2. ASSUME NEW k \in Keys, Reconnect(k, e[1], e[2])
        PROVE  IssuedAtEndpoints'
    BY <2>1, <2>2 DEF Reconnect
  <2>3. ASSUME NEW k \in Keys, NEW nat \in NatKinds, Join(k, e[1], e[2], nat)
        PROVE  IssuedAtEndpoints'
    <3>1. PICK ch \in IF k \in DOMAIN st THEN {st[k]} ELSE {NewChannel(c) : c \in FreshChannelIds} :
            issued' = issued \cup {[cid |-> ch.channel_id, pid |-> ch.next_peer_id,
                                    name |-> e[1], addr |-> e[2]]}
      BY <2>3, Zenon DEF Join
    <3> QED  BY <2>1, <3>1
  <2>4. CASE UNCHANGED issued
    BY <2>4 DEF IssuedAtEndpoints
  <2> QED  BY <1>1, <2>2, <2>3, <2>4
           DEF HandleMessage, Disconnect, Heartbeat, Pong, NatProbe, ForwardData
<1>2. CASE UNCHANGED issued
  BY <1>2 DEF IssuedAtEndpoints
<1> QED  BY <1>1, <1>2
         DEF Next, MainStep, HeartbeatStep, PeerTimeout, RequestRelay, AppointRelay,
             LeaveRelayToServer, Tick, ExpireUser, SettleChannel, SendNotes, Cleanup,
             FallSilent, vars

\* One name at one address is one session.
LEMMA AddressTellsChannel ==
    ASSUME SessionInv, IssuedAtEndpoints,
           \A s, t \in ServerIds : s = t, \A d, e \in Endpoints : d[2] = e[2] => d = e,
           DOMAIN st \subseteq Keys,
           NEW k \in DOMAIN st, NEW q \in DOMAIN st,
           NEW u \in st[k].users, NEW v \in st[q].users, u.addr = v.addr
    PROVE  k = q /\ u = v
<1>1. /\ [cid |-> st[k].channel_id, pid |-> u.peer_id, name |-> u.name, addr |-> u.addr] \in issued
      /\ [cid |-> st[q].channel_id, pid |-> v.peer_id, name |-> v.name, addr |-> v.addr] \in issued
  BY DEF SessionInv, PeerIdsFromWelcome
<1>2. <<u.name, u.addr>> \in Endpoints /\ <<v.name, v.addr>> \in Endpoints
  BY <1>1 DEF IssuedAtEndpoints
<1>3. u.name = v.name
  BY <1>2
<1>4. k[1] = q[1]
  BY DEF Keys
<1>5. k = q
  BY <1>3, <1>4 DEF SessionInv, OneChannelPerServer, Session
<1> QED  BY <1>3, <1>5 DEF SessionInv, NamesUnique

\* A packet that is carried for a channel comes from the address of a member.
LEMMA CarriedFromMember ==
    ASSUME NEW ch, NEW src, NEW sender, CarriesData(ch, src, sender)
    PROVE  \E u \in ch.users : u.addr = src
BY DEF CarriesData, RelayUser, Session

LEMMA ServedAreReceivers ==
    ASSUME NEW ch, NEW src, NEW sender, NEW u \in ch.users, NEW v \in ch.users,
           CarriesData(ch, src, sender), u.addr = src,
           \A w \in ch.users : w.addr = src => w = u,
           u.name = ch.relay \/ u.needs_server_relay,
           v.needs_server_relay, v.name # sender, v.addr # src
    PROVE  v \in DataReceivers(ch, src, sender)
<1>1. CASE ch.relay = sender \/ \E r \in RelayUser(ch) : r.addr = src
  BY <1>1 DEF DataReceivers, ServedPeers
<1>2. CASE ~(ch.relay = sender \/ \E r \in RelayUser(ch) : r.addr = src)
  <2>1. u.needs_server_relay
    BY <1>2 DEF RelayUser
  <2>2. Session(u, sender, src)
    BY <1>2 DEF CarriesData, Session
  <2> QED  BY <1>2, <2>1, <2>2 DEF DataReceivers
<1> QED  BY <1>1, <1>2

\* With one server id and no address shared by two names, what a member that
\* the server relays for sends, or the relay mirrors, reaches every other such
\* member of the channel (handle_data_from_client and the forwarding after it):
\* no other channel can be found first.
THEOREM ServerRelayedHearHolds ==
    ASSUME \A s, t \in ServerIds : s = t, \A d, e \in Endpoints : d[2] = e[2] => d = e
    PROVE  Spec => ServerRelayedHear
<1>1. Init => IssuedAtEndpoints
  BY DEF Init, IssuedAtEndpoints
<1>2. IssuedAtEndpoints /\ [Next]_vars => IssuedAtEndpoints'
  BY IssuedNext
<1>3. Spec => []IssuedAtEndpoints
  BY <1>1, <1>2, PTL DEF Spec, SafetySpec
<1>4. ASSUME TypeOK, SessionInv, IssuedAtEndpoints,
             NEW src \in Addrs, NEW sender \in Names, ForwardData(src, sender),
             NEW k \in DOMAIN st, CarriesData(st[k], src, sender),
             \E u \in st[k].users :
                 u.addr = src /\ (u.name = st[k].relay \/ u.needs_server_relay),
             NEW v \in st[k].users, v.needs_server_relay, v.name # sender, v.addr # src
      PROVE  Data(v.addr, sender) \in out'
  <2>1. PICK q \in DOMAIN st :
          /\ CarriesData(st[q], src, sender)
          /\ out' = {Data(u.addr, sender) : u \in DataReceivers(st[q], src, sender)}
    BY <1>4, Zenon DEF ForwardData
  <2>2. PICK u \in st[k].users :
          u.addr = src /\ (u.name = st[k].relay \/ u.needs_server_relay)
    BY <1>4, Zenon
  <2>3. PICK w \in st[q].users : w.addr = src
    BY <2>1, CarriedFromMember, Zenon
  <2>4. DOMAIN st \subseteq Keys
    BY <1>4 DEF TypeOK
  <2>5. k = q
    BY <1>4, <2>2, <2>3, <2>4, AddressTellsChannel
  <2>6. \A y \in st[k].users : y.addr = src => y = u
    BY <1>4, <2>2, <2>4, AddressTellsChannel
  <2>7. v \in DataReceivers(st[k], src, sender)
    BY <1>4, <2>2, <2>6, ServedAreReceivers, Zenon
  <2> QED  BY <2>1, <2>5, <2>7
<1>5. TypeOK /\ SessionInv /\ IssuedAtEndpoints =>
        (\A src \in Addrs, sender \in Names : ForwardData(src, sender) =>
           \A k \in DOMAIN st :
              /\ CarriesData(st[k], src, sender)
              /\ \E u \in st[k].users :
                   u.addr = src /\ (u.name = st[k].relay \/ u.needs_server_relay)
              => \A v \in st[k].users :
                   v.needs_server_relay /\ v.name # sender /\ v.addr # src
                      => Data(v.addr, sender) \in out')
  BY <1>4, Zenon
<1> QED  BY <1>3, <1>5, TypeCorrect, SessionsCorrect, PTL DEF ServerRelayedHear
=============================================================================
