------------------------ MODULE SignalingServerProofs ------------------------
(***************************************************************************)
(* The signalling server for every value of the constants: type            *)
(* correctness, and the facts about channels and packets it rests on; then *)
(* the safety of sessions, and the refinement of Membership.               *)
(***************************************************************************)
EXTENDS ServerMembership, WellFoundedInduction, TLAPS

----------------------------------------------------------------------------
(* Users *)

\* A set of natural numbers that is not empty has a least element.
LEMMA LeastNumber ==
    ASSUME NEW S, S \subseteq Nat, S # {}
    PROVE  \E m \in S : \A n \in S : m <= n
<1> DEFINE R == {p \in Nat \X Nat : p[1] < p[2]}
<1>1. OpToRel(<, Nat) = R
  BY DEF OpToRel
<1>2. IsWellFoundedOn(R, Nat)
  BY <1>1, NatLessThanWellFounded
<1>3. PICK m \in S : \A n \in S : <<n, m>> \notin R
  <2> HIDE DEF R
  <2> QED  BY <1>2, WFMin
<1>4. \A n \in S : ~ (n < m)
  BY <1>3
<1> QED  BY <1>4

\* The first of some users is one of them, and none has a lesser peer id.
LEMMA FirstIsLeast ==
    ASSUME NEW users \in SUBSET User, users # {}
    PROVE  /\ First(users) \in users
           /\ \A v \in users : First(users).peer_id <= v.peer_id
<1> DEFINE ids == {u.peer_id : u \in users}
<1>1. ids \subseteq Nat /\ ids # {}
  BY DEF User
<1>2. PICK m \in ids : \A n \in ids : m <= n
  <2> HIDE DEF ids
  <2> QED  BY <1>1, LeastNumber
<1>3. \E u \in users : \A v \in users : u.peer_id <= v.peer_id
  BY <1>2
<1> QED  BY <1>3 DEF First

\* A user alone in its channel is the first of its users.
LEMMA LoneIsFirst ==
    ASSUME NEW u \in User
    PROVE  First({u}) = u
<1>1. {u} \in SUBSET User /\ {u} # {}
  OBVIOUS
<1>2. First({u}) \in {u}
  BY <1>1, FirstIsLeast
<1> QED  BY <1>2

\* A new user is a user.
LEMMA NewUserType ==
    ASSUME NEW pid \in Nat \ {0}, NEW name \in Names, NEW addr \in Addrs, NEW nat \in NatKinds
    PROVE  NewUser(pid, name, addr, nat) \in User
BY DEF NewUser, User

\* Refreshing a user keeps the set one of users.
LEMMA RefreshType ==
    ASSUME NEW users \in SUBSET User, NEW u \in users
    PROVE  Refresh(users, u) \in SUBSET User
BY DEF Refresh, User

----------------------------------------------------------------------------
(* Channels *)

\* AddUser makes a channel of a channel.
LEMMA AddUserType ==
    ASSUME NEW ch \in Channel, NEW name \in Names, NEW addr \in Addrs, NEW nat \in NatKinds
    PROVE  /\ AddUser(ch, name, addr, nat) \in Channel
           /\ AddUser(ch, name, addr, nat).users # {}
<1> DEFINE new == NewUser(ch.next_peer_id, name, addr, nat)
<1>1. new \in User
  BY NewUserType DEF Channel
<1> HIDE DEF new
<1> DEFINE users == RemoveOldSessions(ch.users, name, addr) \cup {new}
<1>2. users \in SUBSET User /\ users # {}
  BY <1>1 DEF Channel, RemoveOldSessions
<1>3. AddUser(ch, name, addr, nat)
        = [ch EXCEPT !.users = users, !.next_peer_id = ch.next_peer_id + 1]
  BY DEF AddUser, new
<1> HIDE DEF users
<1>4. ch.next_peer_id + 1 \in Nat \ {0}
  BY DEF Channel
<1> QED  BY <1>2, <1>3, <1>4 DEF Channel

\* The relay of a lone user is a user name, or the channel has none.
LEMMA LoneUserRelayType ==
    ASSUME NEW ch \in Channel
    PROVE  LoneUserRelay(ch) \in Names \cup {None}
<1>1. CASE Lone(ch.users)
  <2>1. First(ch.users) \in User
    BY <1>1, FirstIsLeast DEF Channel, Lone
  <2> QED  BY <2>1 DEF LoneUserRelay, Channel, User
<1>2. CASE ~Lone(ch.users)
  BY <1>2 DEF LoneUserRelay, Channel
<1> QED  BY <1>1, <1>2

----------------------------------------------------------------------------
(* Packets *)

\* What the constructors build are packets.
LEMMA PacketTypes ==
    ASSUME NEW to \in Addrs, NEW name \in Names
    PROVE  /\ \A cid \in ChannelIds, pid \in Nat \ {0} : Welcome(to, cid, pid) \in Packet
           /\ ModeRelay(to) \in Packet
           /\ Ping(to) \in Packet
           /\ NatSeen(to) \in Packet
           /\ ModeServerRelay(to, name) \in Packet
           /\ Data(to, name) \in Packet
           /\ \A addr \in Addrs : ModeDirect(to, name, addr) \in Packet
           /\ \A addr \in Addrs \cup {None} : UserLeft(to, name, addr) \in Packet
<1>1. \A cid \in ChannelIds, pid \in Nat \ {0} : Welcome(to, cid, pid) \in Packet
  BY DEF Welcome, Packet
<1>2. ModeRelay(to) \in Packet /\ Ping(to) \in Packet /\ NatSeen(to) \in Packet
  BY DEF ModeRelay, Ping, NatSeen, Packet
<1>3. ModeServerRelay(to, name) \in Packet /\ Data(to, name) \in Packet
  BY DEF ModeServerRelay, Data, Packet
<1>4. \A addr \in Addrs : ModeDirect(to, name, addr) \in Packet
  BY DEF ModeDirect, Packet
<1>5. \A addr \in Addrs \cup {None} : UserLeft(to, name, addr) \in Packet
  BY DEF UserLeft, Packet
<1> QED  BY <1>1, <1>2, <1>3, <1>4, <1>5

\* The server-relay notices are packets.
LEMMA ServerRelayNoticesType ==
    ASSUME NEW users \in SUBSET User
    PROVE  ServerRelayNotices(users) \subseteq Packet
<1>1. \A p \in users \X users : p[1].addr \in Addrs /\ p[2].name \in Names
  BY DEF User
<1> QED  BY <1>1, PacketTypes DEF ServerRelayNotices

\* Introductions are packets.
LEMMA IntroductionsType ==
    ASSUME NEW r \in User, NEW peers \in SUBSET User
    PROVE  Introductions(r, peers) \subseteq Packet
<1>1. \A p \in peers \cup {r} : p.addr \in Addrs /\ p.name \in Names
  BY DEF User
<1> QED  BY <1>1, PacketTypes DEF Introductions

\* What a lone user is told is packets.
LEMMA LoneUserNoticesType ==
    ASSUME NEW ch \in Channel
    PROVE  LoneUserNotices(ch) \subseteq Packet
<1> DEFINE u == First(ch.users)
<1>1. CASE Lone(ch.users)
  <2>1. u \in User
    BY <1>1, FirstIsLeast DEF Channel, Lone
  <2>2. u.addr \in Addrs /\ u.name \in Names
    BY <2>1 DEF User
  <2>3. ModeServerRelay(u.addr, u.name) \in Packet /\ ModeRelay(u.addr) \in Packet
    BY <2>2, PacketTypes
  <2> QED  BY <2>3 DEF LoneUserNotices
<1>2. CASE ~Lone(ch.users)
  BY <1>2 DEF LoneUserNotices
<1> QED  BY <1>1, <1>2

\* What a join tells the channel is packets.
LEMMA JoinNoticesType ==
    ASSUME NEW users \in SUBSET User, NEW r \in User, NEW changed \in BOOLEAN
    PROVE  JoinNotices(users, r, changed) \subseteq Packet
<1> DEFINE others == {u \in users : u.name # r.name}
           served == {u \in others : u.needs_server_relay}
<1>1. Introductions(r, others \ served) \subseteq Packet
  BY IntroductionsType
<1>2. \A s \in users \cup {r} : s.addr \in Addrs /\ s.name \in Names
  BY DEF User
<1>3. \A s \in served : /\ ModeServerRelay(s.addr, s.name) \in Packet
                        /\ ModeServerRelay(r.addr, s.name) \in Packet
  BY <1>2, PacketTypes
<1>4. ModeRelay(r.addr) \in Packet
  BY <1>2, PacketTypes
<1> QED  BY <1>1, <1>3, <1>4 DEF JoinNotices

\* Of some users, those that heartbeat.rs would have for a relay.
LEMMA HeirType ==
    ASSUME NEW users \in SUBSET User, HeartbeatEligibleUsers(users) # {}
    PROVE  /\ First(HeartbeatEligibleUsers(users)) \in users
           /\ HeartbeatEligible(First(HeartbeatEligibleUsers(users)))
           /\ \A v \in HeartbeatEligibleUsers(users) :
                First(HeartbeatEligibleUsers(users)).peer_id <= v.peer_id
<1>1. HeartbeatEligibleUsers(users) \in SUBSET User
  BY DEF HeartbeatEligibleUsers
<1>2. /\ First(HeartbeatEligibleUsers(users)) \in HeartbeatEligibleUsers(users)
      /\ \A v \in HeartbeatEligibleUsers(users) :
            First(HeartbeatEligibleUsers(users)).peer_id <= v.peer_id
  BY <1>1, FirstIsLeast
<1> QED  BY <1>2 DEF HeartbeatEligibleUsers

\* The relay after a timeout is a user name or None.
LEMMA RelayAfterTimeoutType ==
    ASSUME NEW ch \in Channel, NEW u \in User, NEW left \in SUBSET User
    PROVE  RelayAfterTimeout(ch, u, left) \in Names \cup {None}
<1>1. HeartbeatEligibleUsers(left) # {} => First(HeartbeatEligibleUsers(left)) \in User
  BY HeirType
<1>2. Lone(left) => First(left) \in User
  BY FirstIsLeast DEF Lone
<1> QED  BY <1>1, <1>2 DEF RelayAfterTimeout, User, Channel

\* What a timeout tells the channel is packets.
LEMMA TimeoutNoticesType ==
    ASSUME NEW ch \in Channel, NEW u \in ch.users, NEW left \in SUBSET ch.users
    PROVE  TimeoutNotices(ch, u, left) \subseteq Packet
<1> DEFINE heirs == HeartbeatEligibleUsers(left)
           r     == First(heirs)
           peers == {p \in left : p.name # r.name}
<1>1. ch.users \subseteq User /\ left \in SUBSET User
  BY DEF Channel
<1>2. \A p \in ch.users : p.addr \in Addrs /\ p.name \in Names
  BY <1>1 DEF User
<1>3. \A p \in ch.users : UserLeft(p.addr, u.name, u.addr) \in Packet /\ ModeRelay(p.addr) \in Packet
  BY <1>2, PacketTypes
<1>4. ServerRelayNotices(left) \subseteq Packet
  BY <1>1, ServerRelayNoticesType
<1>5. heirs # {} => ModeRelay(r.addr) \in Packet /\ Introductions(r, peers) \subseteq Packet
  <2>1. heirs # {} => r \in left
    BY <1>1, HeirType
  <2> HIDE DEF r, heirs
  <2>2. heirs # {} => r \in User /\ peers \in SUBSET User
    BY <2>1, <1>1
  <2> HIDE DEF peers
  <2> QED  BY <2>1, <2>2, <1>3, IntroductionsType
<1> HIDE DEF r, heirs, peers
<1>6. TimeoutNotices(ch, u, left) =
        {UserLeft(p.addr, u.name, u.addr) : p \in {q \in ch.users : q.addr # u.addr}}
          \cup IF ch.relay = u.name
               THEN IF heirs = {} THEN ServerRelayNotices(left)
                    ELSE {ModeRelay(r.addr)} \cup Introductions(r, peers)
               ELSE {ModeRelay(p.addr) : p \in IF Lone(left) THEN left ELSE {}}
  BY DEF TimeoutNotices, heirs, r, peers
<1> QED  BY <1>3, <1>4, <1>5, <1>6

----------------------------------------------------------------------------
(* The state *)

\* What changes one channel leaves a map of channels.
LEMMA OneChannelChanged ==
    ASSUME NEW k \in DOMAIN st, NEW users \in SUBSET User, NEW relay \in Names \cup {None},
           TypeOK
    PROVE  /\ DOMAIN [st EXCEPT ![k].users = users, ![k].relay = relay] = DOMAIN st
           /\ [st EXCEPT ![k].users = users, ![k].relay = relay] \in [DOMAIN st -> Channel]
<1> DEFINE ch == [[st[k] EXCEPT !.users = users] EXCEPT !.relay = relay]
<1>1. st[k] \in Channel /\ st \in [DOMAIN st -> Channel]
  BY DEF TypeOK
<1>2. ch \in Channel
  BY <1>1 DEF Channel
<1>3. [st EXCEPT ![k].users = users, ![k].relay = relay] = [st EXCEPT ![k] = ch]
  BY <1>1
<1> HIDE DEF ch
<1> QED  BY <1>1, <1>2, <1>3

\* Replacing the users of a channel keeps the map one.
LEMMA UsersChanged ==
    ASSUME NEW k \in DOMAIN st, NEW users \in SUBSET User, TypeOK
    PROVE  /\ DOMAIN WithUsers(k, users) = DOMAIN st
           /\ WithUsers(k, users) \in [DOMAIN st -> Channel]
<1> DEFINE ch == [st[k] EXCEPT !.users = users]
<1>1. st[k] \in Channel /\ st \in [DOMAIN st -> Channel]
  BY DEF TypeOK
<1>2. ch \in Channel
  BY <1>1 DEF Channel
<1>3. WithUsers(k, users) = [st EXCEPT ![k] = ch]
  BY DEF WithUsers
<1> HIDE DEF ch
<1> QED  BY <1>1, <1>2, <1>3

\* So does appointing a relay.
LEMMA RelayChanged ==
    ASSUME NEW k, NEW relay \in Names \cup {None}, TypeOK
    PROVE  /\ DOMAIN SetRelay(k, relay) = DOMAIN st
           /\ SetRelay(k, relay) \in [DOMAIN st -> Channel]
<1>1. st \in [DOMAIN st -> Channel]
  BY DEF TypeOK
<1>2. CASE k \in DOMAIN st
  <2> DEFINE ch == [st[k] EXCEPT !.relay = relay]
  <2>1. ch \in Channel
    BY <1>1, <1>2 DEF Channel
  <2>2. SetRelay(k, relay) = [st EXCEPT ![k] = ch]
    BY <1>2 DEF SetRelay
  <2> HIDE DEF ch
  <2> QED  BY <1>1, <2>1, <2>2
<1>3. CASE k \notin DOMAIN st
  BY <1>1, <1>3 DEF SetRelay
<1> QED  BY <1>2, <1>3

\* So does sweeping a session from the other channels.
LEMMA SweepType ==
    ASSUME NEW k \in Keys, NEW name, NEW addr, TypeOK
    PROVE  /\ DOMAIN Sweep(k, name, addr) = DOMAIN st
           /\ Sweep(k, name, addr) \in [DOMAIN st -> Channel]
<1>1. \A q \in DOMAIN st : [st[q] EXCEPT !.users = RemoveSession(@, name, addr)] \in Channel
  BY DEF TypeOK, Channel, RemoveSession
<1> QED  BY <1>1 DEF Sweep, TypeOK

\* The types hold at first.
LEMMA TypeInit == Init => TypeOK
BY DEF Init, TypeOK

\* The types survive CONNECT of a session the channel has.
LEMMA TypeReconnect ==
    ASSUME TypeOK, NEW k \in Keys, NEW e \in Endpoints, Reconnect(k, e[1], e[2])
    PROVE  TypeOK'
<1>1. e[1] \in Names /\ e[2] \in Addrs
  BY EndpointsAssumption
<1>2. PICK u \in st[k].users :
        /\ Session(u, e[1], e[2])
        /\ st' = [Sweep(k, e[1], e[2]) EXCEPT ![k].users = Refresh(@, u)]
        /\ issued' = issued \cup {[cid |-> st[k].channel_id, pid |-> u.peer_id,
                                   name |-> e[1], addr |-> e[2]]}
        /\ out' = {Welcome(e[2], st[k].channel_id, u.peer_id)}
  BY DEF Reconnect
<1>3. k \in DOMAIN st /\ st[k] \in Channel /\ st[k].users \in SUBSET User /\ u \in User
  BY DEF Reconnect, TypeOK, Channel
<1>4. Sweep(k, e[1], e[2])[k] = st[k]
  BY <1>3 DEF Sweep
<1>5. DOMAIN st' = DOMAIN st /\ st' \in [DOMAIN st -> Channel]
  <2> DEFINE ch == [st[k] EXCEPT !.users = Refresh(st[k].users, u)]
  <2>1. ch \in Channel
    BY <1>3, RefreshType DEF Channel
  <2>2. st' = [Sweep(k, e[1], e[2]) EXCEPT ![k] = ch]
    BY <1>2, <1>4
  <2> HIDE DEF ch
  <2> QED  BY <1>3, <2>1, <2>2, SweepType
<1>6. st[k].channel_id \in ChannelIds /\ u.peer_id \in Nat \ {0}
  BY <1>3 DEF Channel, User
<1>7. out' \subseteq Packet
  BY <1>1, <1>2, <1>6, PacketTypes
<1>8. issued' \subseteq Identity
  BY <1>1, <1>2, <1>6 DEF Identity, TypeOK
<1> QED  BY <1>5, <1>7, <1>8 DEF TypeOK, Reconnect, mainVars, hbVars

\* The types survive CONNECT of a new session.
LEMMA TypeJoin ==
    ASSUME TypeOK, NEW k \in Keys, NEW e \in Endpoints, NEW nat \in NatKinds,
           Join(k, e[1], e[2], nat)
    PROVE  TypeOK'
<1>1. e[1] \in Names /\ e[2] \in Addrs
  BY EndpointsAssumption
<1>2. PICK ch \in IF k \in DOMAIN st THEN {st[k]} ELSE {NewChannel(c) : c \in FreshChannelIds} :
        LET pid   == ch.next_peer_id
            added == AddUser(ch, e[1], e[2], nat)
            full  == [added EXCEPT !.relay = LoneUserRelay(added)]
        IN  /\ st' = [q \in DOMAIN st \cup {k} |->
                        IF q = k THEN full ELSE Sweep(k, e[1], e[2])[q]]
            /\ issued' = issued \cup {[cid |-> ch.channel_id, pid |-> pid,
                                       name |-> e[1], addr |-> e[2]]}
            /\ out' = {Welcome(e[2], ch.channel_id, pid)} \cup LoneUserNotices(added)
            /\ IF Lone(full.users)
               THEN UNCHANGED mainVars
               ELSE main' = "notify" /\ notifyKey' = k /\ snapshot' = full.users
  BY DEF Join
<1> DEFINE added == AddUser(ch, e[1], e[2], nat)
           full  == [added EXCEPT !.relay = LoneUserRelay(added)]
<1>3. ch \in Channel
  BY DEF TypeOK, NewChannel, FreshChannelIds, Channel
<1>4. added \in Channel
  BY <1>1, <1>3, AddUserType
<1>5. full \in Channel
  <2> HIDE DEF added
  <2> QED  BY <1>4, LoneUserRelayType DEF Channel
<1>6. out' \subseteq Packet
  <2>1. LoneUserNotices(added) \subseteq Packet
    BY <1>4, LoneUserNoticesType
  <2>2. ch.channel_id \in ChannelIds /\ ch.next_peer_id \in Nat \ {0}
    BY <1>3 DEF Channel
  <2>3. Welcome(e[2], ch.channel_id, ch.next_peer_id) \in Packet
    BY <1>1, <2>2, PacketTypes
  <2> QED  BY <1>2, <2>1, <2>3
<1>7. issued' \subseteq Identity
  BY <1>1, <1>2, <1>3 DEF Channel, Identity, TypeOK
<1>8. st' = [q \in DOMAIN st \cup {k} |-> IF q = k THEN full ELSE Sweep(k, e[1], e[2])[q]]
  BY <1>2
<1>9. \/ UNCHANGED mainVars
      \/ main' = "notify" /\ notifyKey' = k /\ snapshot' = full.users
  BY <1>2
<1> HIDE DEF full, added
<1>10. DOMAIN st' = DOMAIN st \cup {k} /\ st' \in [DOMAIN st' -> Channel]
  BY <1>5, <1>8, SweepType
<1>11. main' \in {"recv", "notify", "remaining"} /\ notifyKey' \in Keys \cup {None}
         /\ snapshot' \subseteq User
  BY <1>5, <1>9 DEF TypeOK, mainVars, Channel
<1> QED  BY <1>6, <1>7, <1>10, <1>11 DEF TypeOK, Join, hbVars

\* The types survive appointing a relay.
LEMMA TypeAppointRelay ==
    ASSUME TypeOK, AppointRelay
    PROVE  TypeOK'
<1> DEFINE r       == PickEligible(snapshot)
           changed == notifyKey \in DOMAIN st /\ st[notifyKey].relay # r.name
<1>1. /\ st' = SetRelay(notifyKey, r.name)
      /\ out' = JoinNotices(snapshot, r, changed)
  BY DEF AppointRelay
<1>2. r \in User
  <2>1. EligibleUsers(snapshot) \in SUBSET User /\ EligibleUsers(snapshot) # {}
    BY DEF AppointRelay, TypeOK, EligibleUsers
  <2> QED  BY <2>1, FirstIsLeast DEF PickEligible
<1> HIDE DEF r
<1>3. DOMAIN st' = DOMAIN st /\ st' \in [DOMAIN st -> Channel]
  BY <1>1, <1>2, RelayChanged DEF User
<1>4. out' \subseteq Packet
  <2>1. changed \in BOOLEAN
    OBVIOUS
  <2> HIDE DEF changed
  <2> QED  BY <1>1, <1>2, <2>1, JoinNoticesType DEF TypeOK
<1> QED  BY <1>3, <1>4 DEF TypeOK, AppointRelay, BackToRecv, hbVars

\* The types survive leaving the channel to the server.
LEMMA TypeLeaveRelayToServer ==
    ASSUME TypeOK, LeaveRelayToServer
    PROVE  TypeOK'
<1>1. DOMAIN st' = DOMAIN st /\ st' \in [DOMAIN st -> Channel]
  BY RelayChanged DEF LeaveRelayToServer
<1>2. out' \subseteq Packet
  BY ServerRelayNoticesType DEF LeaveRelayToServer, TypeOK
<1> QED  BY <1>1, <1>2 DEF TypeOK, LeaveRelayToServer, BackToRecv, hbVars

\* The types survive DISCONNECT.
LEMMA TypeDisconnect ==
    ASSUME TypeOK, NEW k \in Keys, NEW e \in Endpoints, Disconnect(k, e[1], e[2])
    PROVE  TypeOK'
<1> DEFINE present == k \in DOMAIN st /\ \E u \in st[k].users : Session(u, e[1], e[2])
           left    == RemoveSession(st[k].users, e[1], e[2])
           relay   == RelayAfterDeparture(st[k], left, st[k].relay = e[1])
<1>1. CASE present
  <2>1. st' = [st EXCEPT ![k].users = left, ![k].relay = relay]
    BY <1>1 DEF Disconnect
  <2>2. st[k] \in Channel /\ left \in SUBSET User
    BY <1>1 DEF TypeOK, Channel, RemoveSession
  <2>3. relay \in Names \cup {None}
    <3>1. left # {} => First(left) \in User
      BY <2>2, FirstIsLeast
    <3> HIDE DEF left
    <3> QED  BY <2>2, <3>1 DEF RelayAfterDeparture, Channel, User
  <2> HIDE DEF left, relay
  <2>4. DOMAIN st' = DOMAIN st /\ st' \in [DOMAIN st -> Channel]
    BY <1>1, <2>1, <2>2, <2>3, OneChannelChanged
  <2> QED  BY <2>4 DEF TypeOK, Disconnect, hbVars
<1>2. CASE ~present
  <2>1. st' = st
    BY <1>2 DEF Disconnect
  <2> QED  BY <2>1 DEF TypeOK, Disconnect, hbVars
<1> QED  BY <1>1, <1>2

\* The types survive PEER_TIMEOUT.
LEMMA TypePeerTimeout ==
    ASSUME TypeOK, NEW k \in Keys, NEW name \in Names, PeerTimeout(k, name)
    PROVE  TypeOK'
<1> DEFINE left  == {u \in st[k].users : u.name # name}
           relay == IF Lone(left) THEN First(left).name ELSE st[k].relay
<1>1. /\ k \in DOMAIN st
      /\ st' = [st EXCEPT ![k].users = left, ![k].relay = relay]
      /\ out' = {UserLeft(u.addr, name, None) : u \in left}
  BY DEF PeerTimeout
<1>2. st[k] \in Channel /\ left \in SUBSET User
  BY <1>1 DEF TypeOK, Channel
<1>3. relay \in Names \cup {None}
  <2>1. Lone(left) => First(left) \in User
    <3> HIDE DEF left
    <3> QED  BY <1>2, FirstIsLeast DEF Lone
  <2> QED  BY <1>2, <2>1 DEF Channel, User
<1>4. out' \subseteq Packet
  <2>1. \A u \in left : u.addr \in Addrs
    BY <1>2 DEF User
  <2>2. \A u \in left : UserLeft(u.addr, name, None) \in Packet
    BY <2>1, PacketTypes
  <2> QED  BY <1>1, <2>2
<1> HIDE DEF left, relay
<1>5. DOMAIN st' = DOMAIN st /\ st' \in [DOMAIN st -> Channel]
  BY <1>1, <1>2, <1>3, OneChannelChanged
<1> QED  BY <1>4, <1>5 DEF TypeOK, PeerTimeout, mainVars, hbVars

\* The types survive REQUEST_RELAY.
LEMMA TypeRequestRelay ==
    ASSUME TypeOK, NEW k \in Keys, NEW name \in Names, RequestRelay(k, name)
    PROVE  TypeOK'
<1> DEFINE users == {IF u.name = name THEN [u EXCEPT !.needs_server_relay = TRUE] ELSE u :
                       u \in st[k].users}
<1>1. /\ k \in DOMAIN st
      /\ st' = WithUsers(k, users)
      /\ out' = {ModeServerRelay(u.addr, name) : u \in st[k].users}
  BY DEF RequestRelay
<1>2. st[k].users \in SUBSET User
  BY <1>1 DEF TypeOK, Channel
<1>3. users \in SUBSET User
  BY <1>2 DEF User
<1>4. out' \subseteq Packet
  BY <1>1, <1>2, PacketTypes DEF User
<1> HIDE DEF users
<1> QED  BY <1>1, <1>3, <1>4, UsersChanged DEF TypeOK, RequestRelay, mainVars, hbVars

\* The types survive HB.
LEMMA TypeHeartbeat ==
    ASSUME TypeOK, NEW k \in Keys, NEW e \in Endpoints, Heartbeat(k, e[1], e[2])
    PROVE  TypeOK'
<1>1. PICK u \in st[k].users : st' = WithUsers(k, Refresh(st[k].users, u))
  BY DEF Heartbeat
<1>2. k \in DOMAIN st /\ st[k].users \in SUBSET User
  BY DEF Heartbeat, TypeOK, Channel
<1>3. Refresh(st[k].users, u) \in SUBSET User
  BY <1>2, RefreshType
<1> QED  BY <1>1, <1>2, <1>3, UsersChanged DEF TypeOK, Heartbeat, mainVars, hbVars

\* The types survive PONG.
LEMMA TypePong ==
    ASSUME TypeOK, NEW e \in Endpoints, Pong(e[2])
    PROVE  TypeOK'
<1> DEFINE here(k) == {u \in st[k].users : u.addr = e[2]}
<1>1. \A k \in DOMAIN st : st[k] \in Channel /\ st[k].users \in SUBSET User
  BY DEF TypeOK, Channel
<1>2. \A k \in DOMAIN st : here(k) # {} =>
        [st[k] EXCEPT !.users = Refresh(st[k].users, First(here(k)))] \in Channel
  <2> SUFFICES ASSUME NEW k \in DOMAIN st, here(k) # {}
               PROVE  [st[k] EXCEPT !.users = Refresh(st[k].users, First(here(k)))] \in Channel
    OBVIOUS
  <2>1. First(here(k)) \in st[k].users
    BY <1>1, FirstIsLeast
  <2>2. Refresh(st[k].users, First(here(k))) \in SUBSET User
    BY <1>1, <2>1, RefreshType
  <2> HIDE DEF here
  <2> QED  BY <1>1, <2>2 DEF Channel
<1>3. st' = [k \in DOMAIN st |->
               IF here(k) = {} THEN st[k]
               ELSE [st[k] EXCEPT !.users = Refresh(st[k].users, First(here(k)))]]
  BY DEF Pong
<1> HIDE DEF here
<1>4. DOMAIN st' = DOMAIN st /\ st' \in [DOMAIN st -> Channel]
  BY <1>1, <1>2, <1>3
<1> QED  BY <1>4 DEF TypeOK, Pong, mainVars, hbVars

\* The types survive NAT_PROBE.
LEMMA TypeNatProbe ==
    ASSUME TypeOK, NEW e \in Endpoints, NatProbe(e[2])
    PROVE  TypeOK'
<1>1. out' \subseteq Packet
  <2>1. e[1] \in Names /\ e[2] \in Addrs
    BY EndpointsAssumption
  <2> QED  BY <2>1, PacketTypes DEF NatProbe
<1> QED  BY <1>1 DEF TypeOK, NatProbe, mainVars, hbVars

\* The types survive DATA.
LEMMA TypeForwardData ==
    ASSUME TypeOK, NEW e \in Endpoints, NEW sender \in Names, ForwardData(e[2], sender)
    PROVE  TypeOK'
<1>1. PICK k \in DOMAIN st :
        out' = {Data(u.addr, sender) : u \in DataReceivers(st[k], e[2], sender)}
  BY DEF ForwardData
<1>2. st[k].users \in SUBSET User
  BY DEF TypeOK, Channel
<1>3. DataReceivers(st[k], e[2], sender) \subseteq st[k].users
  BY DEF DataReceivers, ServedPeers, RelayUser
<1>4. \A u \in DataReceivers(st[k], e[2], sender) : u.addr \in Addrs
  BY <1>2, <1>3 DEF User
<1>5. out' \subseteq Packet
  BY <1>1, <1>4, PacketTypes
<1> QED  BY <1>5 DEF TypeOK, ForwardData, mainVars, hbVars

\* The types survive the beginning of a pass.
LEMMA TypeTick ==
    ASSUME TypeOK, Tick
    PROVE  TypeOK'
BY DEF TypeOK, Tick, mainVars

\* The types survive a timeout.
LEMMA TypeExpireUser ==
    ASSUME TypeOK, NEW k \in Keys, ExpireUser(k)
    PROVE  TypeOK'
<1> DEFINE u     == First(Silent(st[k].users))
           left  == st[k].users \ {u}
           relay == RelayAfterTimeout(st[k], u, left)
<1>1. /\ k \in DOMAIN st
      /\ st' = [st EXCEPT ![k].users = left, ![k].relay = relay]
      /\ notes' = notes \cup TimeoutNotices(st[k], u, left)
  BY DEF ExpireUser, TypeOK
<1>2. st[k] \in Channel /\ st[k].users \in SUBSET User
  BY <1>1 DEF TypeOK, Channel
<1>3. u \in st[k].users
  <2>1. Silent(st[k].users) \in SUBSET User /\ Silent(st[k].users) # {}
    BY <1>2 DEF Silent, ExpireUser
  <2>2. u \in Silent(st[k].users)
    BY <2>1, FirstIsLeast
  <2> QED  BY <2>2 DEF Silent
<1> HIDE DEF u
<1>4. left \in SUBSET st[k].users
  OBVIOUS
<1> HIDE DEF left
<1>5. relay \in Names \cup {None}
  BY <1>2, <1>3, <1>4, RelayAfterTimeoutType
<1>6. notes' \subseteq Packet
  BY <1>1, <1>2, <1>3, <1>4, TimeoutNoticesType DEF TypeOK
<1> HIDE DEF relay
<1>7. DOMAIN st' = DOMAIN st /\ st' \in [DOMAIN st -> Channel]
  BY <1>1, <1>2, <1>4, <1>5, OneChannelChanged
<1> QED  BY <1>6, <1>7 DEF TypeOK, ExpireUser, mainVars

\* The types survive the end of a channel's turn.
LEMMA TypeSettleChannel ==
    ASSUME TypeOK, NEW k \in Keys, SettleChannel(k)
    PROVE  TypeOK'
<1> DEFINE u == First(st[k].users)
<1>1. k \in DOMAIN st /\ st[k].users \in SUBSET User
  BY DEF SettleChannel, TypeOK, Channel
<1>2. toCleanup' \subseteq Keys /\ unvisited' \subseteq DOMAIN st
  BY DEF SettleChannel, FindEmpty, TypeOK
<1>3. CASE Lone(st[k].users)
  <2>1. u \in User
    BY <1>1, <1>3, FirstIsLeast DEF Lone
  <2>2. u.addr \in Addrs /\ u.name \in Names
    BY <2>1 DEF User
  <2>3. PICK relay \in {u.name, None} : st' = [st EXCEPT ![k].relay = relay]
    BY <1>3 DEF SettleChannel
  <2>4. DOMAIN st' = DOMAIN st /\ st' \in [DOMAIN st -> Channel]
    BY <1>1, <2>2, <2>3, RelayChanged DEF SetRelay
  <2>5. Ping(u.addr) \in Packet /\ ModeServerRelay(u.addr, u.name) \in Packet
    BY <2>2, PacketTypes
  <2>6. notes' \subseteq Packet
    BY <1>3, <2>5 DEF SettleChannel, TypeOK
  <2> QED  BY <1>2, <2>4, <2>6 DEF TypeOK, SettleChannel, mainVars
<1>4. CASE ~Lone(st[k].users)
  BY <1>2, <1>4 DEF TypeOK, SettleChannel, mainVars
<1> QED  BY <1>3, <1>4

\* The types survive the end of a pass.
LEMMA TypeSendNotes ==
    ASSUME TypeOK, SendNotes
    PROVE  TypeOK'
BY DEF TypeOK, SendNotes, ReleaseLock, mainVars

\* The types survive the cleanup.
LEMMA TypeCleanup ==
    ASSUME TypeOK, Cleanup, hb # "collect" => unvisited = {}
    PROVE  TypeOK'
<1>1. st' = [k \in DOMAIN st \ toCleanup |-> st[k]]
  BY DEF Cleanup
<1>2. DOMAIN st' \subseteq DOMAIN st /\ st' \in [DOMAIN st' -> Channel]
  BY <1>1 DEF TypeOK
<1> QED  BY <1>2 DEF TypeOK, Cleanup, mainVars

\* The types survive the passing of time.
LEMMA TypeFallSilent ==
    ASSUME TypeOK, NEW k \in DOMAIN st, FallSilent(k)
    PROVE  TypeOK'
<1>1. PICK u \in st[k].users :
        st' = WithUsers(k, (st[k].users \ {u}) \cup {[u EXCEPT !.silent = TRUE]})
  BY DEF FallSilent
<1>2. st[k].users \in SUBSET User
  BY DEF TypeOK, Channel
<1>3. (st[k].users \ {u}) \cup {[u EXCEPT !.silent = TRUE]} \in SUBSET User
  BY <1>2 DEF User
<1>4. DOMAIN st' = DOMAIN st /\ st' \in [DOMAIN st -> Channel]
  BY <1>1, <1>3, UsersChanged
<1> QED  BY <1>4 DEF TypeOK, FallSilent, mainVars, hbVars

----------------------------------------------------------------------------
(* The specification *)

\* Both tasks start at their beginning, the mutex free.
LEMMA ControlInit == Init => Control
BY DEF Init, Control

\* Every step keeps the control points and the mutex together.
LEMMA ControlNext ==
    ASSUME TypeOK, Control, [Next]_vars
    PROVE  Control'
<1>1. None \notin Keys
  BY NoneAssumption DEF Keys
<1>2. ASSUME NEW e \in Endpoints, HandleMessage(e[1], e[2])
      PROVE  Control'
  <2>1. ASSUME NEW k \in Keys, Reconnect(k, e[1], e[2])
        PROVE  Control'
    BY <2>1 DEF Control, Reconnect, mainVars, hbVars
  <2>2. ASSUME NEW k \in Keys, NEW nat \in NatKinds, Join(k, e[1], e[2], nat)
        PROVE  Control'
    <3>1. \/ UNCHANGED mainVars
          \/ main' = "notify" /\ notifyKey' = k
      BY <2>2 DEF Join
    <3> QED  BY <1>1, <2>2, <3>1 DEF Control, Join, Serve, mainVars, hbVars
  <2>3. ASSUME NEW k \in Keys, Disconnect(k, e[1], e[2])
        PROVE  Control'
    BY <2>3 DEF Control, Disconnect, Serve, hbVars
  <2>4. ASSUME NEW k \in Keys, Heartbeat(k, e[1], e[2])
        PROVE  Control'
    BY <2>4 DEF Control, Heartbeat, mainVars, hbVars
  <2>5. CASE Pong(e[2])
    BY <2>5 DEF Control, Pong, mainVars, hbVars
  <2>6. CASE NatProbe(e[2])
    BY <2>6 DEF Control, NatProbe, mainVars, hbVars
  <2>7. ASSUME NEW sender \in Names, ForwardData(e[2], sender)
        PROVE  Control'
    BY <2>7 DEF Control, ForwardData, mainVars, hbVars
  <2> QED  BY <1>2, <2>1, <2>2, <2>3, <2>4, <2>5, <2>6, <2>7 DEF HandleMessage
<1>3. ASSUME NEW k \in Keys, NEW name \in Names, PeerTimeout(k, name) \/ RequestRelay(k, name)
      PROVE  Control'
  BY <1>3 DEF Control, PeerTimeout, RequestRelay, mainVars, hbVars
<1>4. CASE AppointRelay \/ LeaveRelayToServer
  BY <1>4 DEF Control, AppointRelay, LeaveRelayToServer, BackToRecv, hbVars
<1>5. CASE Tick
  BY <1>5 DEF Control, Tick, mainVars
<1>6. ASSUME NEW k \in Keys, ExpireUser(k) \/ SettleChannel(k)
      PROVE  Control'
  BY <1>6 DEF Control, ExpireUser, SettleChannel, mainVars
<1>7. CASE SendNotes
  BY <1>7 DEF Control, SendNotes, ReleaseLock, mainVars
<1>8. CASE Cleanup
  BY <1>8 DEF Control, Cleanup, mainVars
<1>9. ASSUME NEW k \in DOMAIN st, FallSilent(k)
      PROVE  Control'
  BY <1>9 DEF Control, FallSilent, mainVars, hbVars
<1>10. CASE UNCHANGED vars
  BY <1>10 DEF Control, vars, mainVars, hbVars
<1> QED  BY <1>2, <1>3, <1>4, <1>5, <1>6, <1>7, <1>8, <1>9, <1>10
           DEF Next, MainStep, HeartbeatStep

\* Every step keeps the types.
LEMMA TypeNext ==
    ASSUME TypeOK, Control, [Next]_vars
    PROVE  TypeOK'
<1>1. ASSUME NEW e \in Endpoints, HandleMessage(e[1], e[2])
      PROVE  TypeOK'
  BY <1>1, TypeReconnect, TypeJoin, TypeDisconnect, TypeHeartbeat, TypePong,
     TypeNatProbe, TypeForwardData DEF HandleMessage
<1>2. ASSUME NEW k \in Keys, NEW name \in Names, PeerTimeout(k, name) \/ RequestRelay(k, name)
      PROVE  TypeOK'
  BY <1>2, TypePeerTimeout, TypeRequestRelay
<1>3. CASE AppointRelay \/ LeaveRelayToServer
  BY <1>3, TypeAppointRelay, TypeLeaveRelayToServer
<1>4. CASE HeartbeatStep
  BY <1>4, TypeTick, TypeExpireUser, TypeSettleChannel, TypeSendNotes, TypeCleanup
     DEF HeartbeatStep, Control
<1>5. ASSUME NEW k \in DOMAIN st, FallSilent(k)
      PROVE  TypeOK'
  BY <1>5, TypeFallSilent
<1>6. CASE UNCHANGED vars
  BY <1>6 DEF TypeOK, vars, mainVars, hbVars
<1> QED  BY <1>1, <1>2, <1>3, <1>4, <1>5, <1>6 DEF Next, MainStep

\* The server's state has its types in every state of every behaviour, and
\* the mutex is held by whom the control points of the tasks say.
THEOREM TypeCorrect == Spec => [](TypeOK /\ Control)
<1>1. Init => TypeOK /\ Control
  BY TypeInit, ControlInit
<1>2. TypeOK /\ Control /\ [Next]_vars => (TypeOK /\ Control)'
  BY TypeNext, ControlNext
<1> QED  BY <1>1, <1>2, PTL DEF Spec, SafetySpec

\* The two tasks and what they hold go together.
THEOREM ControlHolds == Spec => []Control
<1>1. TypeOK /\ Control => Control
  OBVIOUS
<1> QED  BY <1>1, TypeCorrect, PTL
----------------------------------------------------------------------------
(***************************************************************************)
(* Who is in which channel, and under which identity.                      *)
(*                                                                         *)
(* Only Join brings a user in.  Every other step leaves in each channel    *)
(* users that were there before, possibly refreshed, silent or demoted     *)
(* (NobodyNew), and that alone preserves the invariant.  With it the       *)
(* server implements Membership.                                           *)
(***************************************************************************)

\* u is the user w, whatever became of its liveness.
Same(u, w) ==
    /\ u.peer_id = w.peer_id /\ u.name = w.name /\ u.addr = w.addr
    /\ u.nat_kind = w.nat_kind
    /\ w.needs_server_relay => u.needs_server_relay

\* The users are some of the old ones, each at most once.
SomeOf(users, old) ==
    /\ \A u \in users : \E w \in old : Same(u, w)
    /\ \A u, v \in users : u.peer_id = v.peer_id => u = v

NobodyNew ==
    /\ DOMAIN st' \subseteq DOMAIN st
    /\ \A k \in DOMAIN st' :
         /\ st'[k].channel_id = st[k].channel_id
         /\ st'[k].next_peer_id = st[k].next_peer_id
         /\ SomeOf(st'[k].users, st[k].users)

\* Every user behind a symmetric NAT is server-relayed.
SymmetricServed ==
    \A k \in DOMAIN st : \A u \in st[k].users :
        u.nat_kind = "Symmetric" => u.needs_server_relay

SessionInv ==
    /\ NamesUnique
    /\ OneChannelPerServer
    /\ IdentityUnique
    /\ PeerIdsFromWelcome
    /\ IdentitiesSpent
    /\ SymmetricServed

----------------------------------------------------------------------------
(* Sets of users *)

\* Fewer users are some of the users.
LEMMA SubsetIsSomeOf ==
    ASSUME NEW old \in SUBSET User, NEW users \in SUBSET old,
           \A u, v \in old : u.peer_id = v.peer_id => u = v
    PROVE  SomeOf(users, old)
BY DEF SomeOf, Same

\* So are those with one of them replaced by the same session.
LEMMA ReplacedIsSomeOf ==
    ASSUME NEW old \in SUBSET User, NEW u \in old, NEW w \in User, Same(w, u),
           \A a, b \in old : a.peer_id = b.peer_id => a = b
    PROVE  SomeOf((old \ {u}) \cup {w}, old)
BY DEF SomeOf, Same

\* A refreshed user is the same session.
LEMMA RefreshIsSomeOf ==
    ASSUME NEW old \in SUBSET User, NEW u \in old,
           \A a, b \in old : a.peer_id = b.peer_id => a = b
    PROVE  SomeOf(Refresh(old, u), old)
<1> DEFINE w == [u EXCEPT !.silent = FALSE]
<1>1. w \in User /\ Same(w, u)
  BY DEF User, Same
<1>2. Refresh(old, u) = (old \ {u}) \cup {w}
  BY DEF Refresh
<1> HIDE DEF w
<1> QED  BY <1>1, <1>2, ReplacedIsSomeOf

\* A silent user is the same session.
LEMMA SilencedIsSomeOf ==
    ASSUME NEW old \in SUBSET User, NEW u \in old,
           \A a, b \in old : a.peer_id = b.peer_id => a = b
    PROVE  SomeOf((old \ {u}) \cup {[u EXCEPT !.silent = TRUE]}, old)
<1> DEFINE w == [u EXCEPT !.silent = TRUE]
<1>1. w \in User /\ Same(w, u)
  BY DEF User, Same
<1> HIDE DEF w
<1> QED  BY <1>1, ReplacedIsSomeOf DEF w

----------------------------------------------------------------------------
(* Steps that bring nobody in *)

\* A step that brings nobody in and WELCOMEs nobody keeps the invariant.
LEMMA NobodyNewKeepsSessions ==
    ASSUME SessionInv, NobodyNew, issued' = issued
    PROVE  SessionInv'
<1>1. \A k \in DOMAIN st' : \A u \in st'[k].users :
        k \in DOMAIN st /\ \E w \in st[k].users : Same(u, w)
  BY DEF NobodyNew, SomeOf
<1>2. NamesUnique'
  <2> SUFFICES ASSUME NEW k \in DOMAIN st', NEW u \in st'[k].users, NEW v \in st'[k].users,
                      u.name = v.name
               PROVE  u = v
    BY DEF NamesUnique
  <2>1. PICK w \in st[k].users : Same(u, w)
    BY <1>1
  <2>2. PICK y \in st[k].users : Same(v, y)
    BY <1>1
  <2>3. k \in DOMAIN st /\ w.name = y.name
    BY <1>1, <2>1, <2>2 DEF Same
  <2>4. w = y
    BY <2>3 DEF SessionInv, NamesUnique
  <2> QED  BY <2>1, <2>2, <2>4 DEF NobodyNew, SomeOf, Same
<1>3. OneChannelPerServer'
  <2> SUFFICES ASSUME NEW k \in DOMAIN st', NEW q \in DOMAIN st',
                      NEW u \in st'[k].users, NEW v \in st'[q].users,
                      k[1] = q[1], Session(u, v.name, v.addr)
               PROVE  k = q
    BY DEF OneChannelPerServer
  <2>1. PICK w \in st[k].users : Same(u, w)
    BY <1>1
  <2>2. PICK y \in st[q].users : Same(v, y)
    BY <1>1
  <2>3. Session(w, y.name, y.addr)
    BY <2>1, <2>2 DEF Session, Same
  <2> QED  BY <1>1, <2>3 DEF SessionInv, OneChannelPerServer
<1>4. IdentityUnique'
  BY DEF SessionInv, IdentityUnique
<1>5. PeerIdsFromWelcome'
  <2> SUFFICES ASSUME NEW k \in DOMAIN st', NEW u \in st'[k].users
               PROVE  /\ u.peer_id < st'[k].next_peer_id
                      /\ [cid |-> st'[k].channel_id, pid |-> u.peer_id,
                          name |-> u.name, addr |-> u.addr] \in issued
                      /\ \A v \in st'[k].users : v.peer_id = u.peer_id => v = u
    BY DEF PeerIdsFromWelcome
  <2>1. PICK w \in st[k].users : Same(u, w)
    BY <1>1
  <2>2. /\ w.peer_id < st[k].next_peer_id
        /\ [cid |-> st[k].channel_id, pid |-> w.peer_id,
            name |-> w.name, addr |-> w.addr] \in issued
    BY <1>1 DEF SessionInv, PeerIdsFromWelcome
  <2> QED  BY <2>1, <2>2 DEF NobodyNew, SomeOf, Same
<1>6. IdentitiesSpent'
  BY DEF SessionInv, IdentitiesSpent, NobodyNew
<1>7. SymmetricServed'
  BY <1>1 DEF SessionInv, SymmetricServed, Same
<1> QED  BY <1>2, <1>3, <1>4, <1>5, <1>6, <1>7 DEF SessionInv

\* A step that replaces the users of one channel by some of them.
LEMMA OneChannelNobodyNew ==
    ASSUME TypeOK, SessionInv, NEW k \in DOMAIN st, NEW users, NEW relay,
           SomeOf(users, st[k].users),
           \/ st' = [st EXCEPT ![k].users = users, ![k].relay = relay]
           \/ st' = WithUsers(k, users)
    PROVE  NobodyNew
<1>1. \A q \in DOMAIN st : SomeOf(st[q].users, st[q].users)
  BY SubsetIsSomeOf DEF TypeOK, Channel, SessionInv, PeerIdsFromWelcome
<1>2. st[k] \in Channel
  BY DEF TypeOK
<1>3. /\ DOMAIN st' = DOMAIN st
      /\ \A q \in DOMAIN st : q # k => st'[q] = st[q]
      /\ st'[k].users = users
      /\ st'[k].channel_id = st[k].channel_id
      /\ st'[k].next_peer_id = st[k].next_peer_id
  BY <1>2 DEF WithUsers, TypeOK, Channel
<1> QED  BY <1>1, <1>3 DEF NobodyNew

\* A step that changes no users.
LEMMA SameUsersNobodyNew ==
    ASSUME TypeOK, SessionInv, DOMAIN st' \subseteq DOMAIN st,
           \A k \in DOMAIN st' : /\ st'[k].users = st[k].users
                                 /\ st'[k].channel_id = st[k].channel_id
                                 /\ st'[k].next_peer_id = st[k].next_peer_id
    PROVE  NobodyNew
BY SubsetIsSomeOf DEF NobodyNew, TypeOK, Channel, SessionInv, PeerIdsFromWelcome

\* Peer ids are distinct within a channel.
LEMMA PeerIdsDistinct ==
    ASSUME SessionInv, NEW k \in DOMAIN st
    PROVE  \A u, v \in st[k].users : u.peer_id = v.peer_id => u = v
BY DEF SessionInv, PeerIdsFromWelcome

\* DISCONNECT only removes a session.
LEMMA DisconnectNobodyNew ==
    ASSUME TypeOK, SessionInv, NEW k \in Keys, NEW e \in Endpoints,
           Disconnect(k, e[1], e[2])
    PROVE  NobodyNew
<1> DEFINE present == k \in DOMAIN st /\ \E u \in st[k].users : Session(u, e[1], e[2])
           left    == RemoveSession(st[k].users, e[1], e[2])
           relay   == RelayAfterDeparture(st[k], left, st[k].relay = e[1])
<1>1. CASE present
  <2>1. st' = [st EXCEPT ![k].users = left, ![k].relay = relay]
    BY <1>1 DEF Disconnect
  <2>2. st[k].users \in SUBSET User /\ left \in SUBSET st[k].users
    BY <1>1 DEF TypeOK, Channel, RemoveSession
  <2> HIDE DEF left, relay
  <2>3. SomeOf(left, st[k].users)
    BY <1>1, <2>2, SubsetIsSomeOf, PeerIdsDistinct
  <2> QED  BY <1>1, <2>1, <2>3, OneChannelNobodyNew
<1>2. CASE ~present
  <2>1. st' = st
    BY <1>2 DEF Disconnect
  <2> QED  BY <2>1, SameUsersNobodyNew
<1> QED  BY <1>1, <1>2

\* PEER_TIMEOUT only removes users.
LEMMA PeerTimeoutNobodyNew ==
    ASSUME TypeOK, SessionInv, NEW k \in Keys, NEW name \in Names, PeerTimeout(k, name)
    PROVE  NobodyNew
<1> DEFINE left  == {u \in st[k].users : u.name # name}
           relay == IF Lone(left) THEN First(left).name ELSE st[k].relay
<1>1. k \in DOMAIN st /\ st' = [st EXCEPT ![k].users = left, ![k].relay = relay]
  BY DEF PeerTimeout
<1>2. st[k].users \in SUBSET User /\ left \in SUBSET st[k].users
  BY <1>1 DEF TypeOK, Channel
<1> HIDE DEF left, relay
<1>3. SomeOf(left, st[k].users)
  BY <1>1, <1>2, SubsetIsSomeOf, PeerIdsDistinct
<1> QED  BY <1>1, <1>3, OneChannelNobodyNew

\* REQUEST_RELAY changes needs_server_relay and nothing else of a user.
LEMMA RequestRelayNobodyNew ==
    ASSUME TypeOK, SessionInv, NEW k \in Keys, NEW name \in Names, RequestRelay(k, name)
    PROVE  NobodyNew
<1> DEFINE served(u) == IF u.name = name THEN [u EXCEPT !.needs_server_relay = TRUE] ELSE u
           users     == {served(u) : u \in st[k].users}
<1>1. k \in DOMAIN st /\ st' = WithUsers(k, users)
  BY DEF RequestRelay
<1>2. st[k].users \in SUBSET User
  BY <1>1 DEF TypeOK, Channel
<1>3. \A u \in st[k].users : Same(served(u), u)
  BY <1>2 DEF Same, User
<1> HIDE DEF served
<1>4. SomeOf(users, st[k].users)
  BY <1>1, <1>3, PeerIdsDistinct DEF SomeOf, Same
<1> HIDE DEF users
<1> QED  BY <1>1, <1>4, OneChannelNobodyNew

\* HB changes nothing but the silence of a user.
LEMMA HeartbeatNobodyNew ==
    ASSUME TypeOK, SessionInv, NEW k \in Keys, NEW e \in Endpoints, Heartbeat(k, e[1], e[2])
    PROVE  NobodyNew
<1>1. PICK u \in st[k].users : st' = WithUsers(k, Refresh(st[k].users, u))
  BY DEF Heartbeat
<1>2. k \in DOMAIN st /\ st[k].users \in SUBSET User
  BY DEF Heartbeat, TypeOK, Channel
<1>3. SomeOf(Refresh(st[k].users, u), st[k].users)
  BY <1>2, RefreshIsSomeOf, PeerIdsDistinct
<1> QED  BY <1>1, <1>2, <1>3, OneChannelNobodyNew

\* PONG changes nothing but the silence of users.
LEMMA PongNobodyNew ==
    ASSUME TypeOK, SessionInv, NEW e \in Endpoints, Pong(e[2])
    PROVE  NobodyNew
<1> DEFINE here(k) == {u \in st[k].users : u.addr = e[2]}
<1>1. st' = [k \in DOMAIN st |->
               IF here(k) = {} THEN st[k]
               ELSE [st[k] EXCEPT !.users = Refresh(st[k].users, First(here(k)))]]
  BY DEF Pong
<1>2. SUFFICES ASSUME NEW k \in DOMAIN st
               PROVE  /\ st'[k].channel_id = st[k].channel_id
                      /\ st'[k].next_peer_id = st[k].next_peer_id
                      /\ SomeOf(st'[k].users, st[k].users)
  BY <1>1 DEF NobodyNew
<1>3. st[k] \in Channel /\ st[k].users \in SUBSET User
  BY DEF TypeOK, Channel
<1>4. CASE here(k) = {}
  <2>1. st'[k] = st[k]
    BY <1>1, <1>4
  <2> QED  BY <1>3, <2>1, SubsetIsSomeOf, PeerIdsDistinct
<1>5. CASE here(k) # {}
  <2>1. First(here(k)) \in st[k].users
    BY <1>3, <1>5, FirstIsLeast
  <2>2. SomeOf(Refresh(st[k].users, First(here(k))), st[k].users)
    BY <1>3, <2>1, RefreshIsSomeOf, PeerIdsDistinct
  <2>3. st'[k] = [st[k] EXCEPT !.users = Refresh(st[k].users, First(here(k)))]
    BY <1>1, <1>5
  <2> HIDE DEF here
  <2> QED  BY <1>3, <2>2, <2>3 DEF Channel
<1> QED  BY <1>4, <1>5

\* Appointing a relay leaves the users alone.
LEMMA AppointmentNobodyNew ==
    ASSUME TypeOK, SessionInv, AppointRelay \/ LeaveRelayToServer
    PROVE  NobodyNew
<1>1. PICK relay : st' = SetRelay(notifyKey, relay)
  BY DEF AppointRelay, LeaveRelayToServer
<1>2. /\ DOMAIN st' = DOMAIN st
      /\ \A k \in DOMAIN st' : /\ st'[k].users = st[k].users
                               /\ st'[k].channel_id = st[k].channel_id
                               /\ st'[k].next_peer_id = st[k].next_peer_id
  BY <1>1 DEF SetRelay, TypeOK, Channel
<1> QED  BY <1>2, SameUsersNobodyNew

\* A pass removes users.
LEMMA ExpireUserNobodyNew ==
    ASSUME TypeOK, SessionInv, NEW k \in Keys, ExpireUser(k)
    PROVE  NobodyNew
<1> DEFINE u     == First(Silent(st[k].users))
           left  == st[k].users \ {u}
           relay == RelayAfterTimeout(st[k], u, left)
<1>1. k \in DOMAIN st /\ st' = [st EXCEPT ![k].users = left, ![k].relay = relay]
  BY DEF ExpireUser, TypeOK
<1>2. st[k].users \in SUBSET User /\ left \in SUBSET st[k].users
  BY <1>1 DEF TypeOK, Channel
<1> HIDE DEF left, relay
<1>3. SomeOf(left, st[k].users)
  BY <1>1, <1>2, SubsetIsSomeOf, PeerIdsDistinct
<1> QED  BY <1>1, <1>3, OneChannelNobodyNew

\* A pass appoints relays.
LEMMA SettleChannelNobodyNew ==
    ASSUME TypeOK, SessionInv, NEW k \in Keys, SettleChannel(k)
    PROVE  NobodyNew
<1>1. k \in DOMAIN st
  BY DEF SettleChannel, TypeOK
<1>2. st' = st \/ \E relay : st' = [st EXCEPT ![k].relay = relay]
  BY DEF SettleChannel
<1>3. /\ DOMAIN st' = DOMAIN st
      /\ \A q \in DOMAIN st' : /\ st'[q].users = st[q].users
                               /\ st'[q].channel_id = st[q].channel_id
                               /\ st'[q].next_peer_id = st[q].next_peer_id
  BY <1>1, <1>2 DEF TypeOK, Channel
<1> QED  BY <1>3, SameUsersNobodyNew

\* The cleanup removes channels.
LEMMA CleanupNobodyNew ==
    ASSUME TypeOK, SessionInv, Cleanup
    PROVE  NobodyNew
<1>1. st' = [k \in DOMAIN st \ toCleanup |-> st[k]]
  BY DEF Cleanup
<1> QED  BY <1>1, SameUsersNobodyNew

\* A user that falls silent is the same session.
LEMMA FallSilentNobodyNew ==
    ASSUME TypeOK, SessionInv, NEW k \in DOMAIN st, FallSilent(k)
    PROVE  NobodyNew
<1>1. PICK u \in st[k].users :
        st' = WithUsers(k, (st[k].users \ {u}) \cup {[u EXCEPT !.silent = TRUE]})
  BY DEF FallSilent
<1>2. st[k].users \in SUBSET User
  BY DEF TypeOK, Channel
<1>3. SomeOf((st[k].users \ {u}) \cup {[u EXCEPT !.silent = TRUE]}, st[k].users)
  BY <1>2, SilencedIsSomeOf, PeerIdsDistinct
<1> QED  BY <1>1, <1>3, OneChannelNobodyNew

----------------------------------------------------------------------------
(* CONNECT *)

\* What remove_user_from_other_channels does to a channel.
LEMMA SweepFacts ==
    ASSUME TypeOK, NEW k \in Keys, NEW e \in Endpoints, NEW q \in DOMAIN st
    PROVE  /\ Sweep(k, e[1], e[2])[q].channel_id = st[q].channel_id
           /\ Sweep(k, e[1], e[2])[q].next_peer_id = st[q].next_peer_id
           /\ Sweep(k, e[1], e[2])[q].relay = st[q].relay
           /\ Sweep(k, e[1], e[2])[q].users \in SUBSET st[q].users
           /\ q = k => Sweep(k, e[1], e[2])[q] = st[q]
           /\ q # k /\ q[1] = k[1] =>
                \A u \in Sweep(k, e[1], e[2])[q].users : ~Session(u, e[1], e[2])
<1>1. st[q] \in Channel
  BY DEF TypeOK
<1>2. CASE q # k /\ q[1] = k[1]
  <2>1. Sweep(k, e[1], e[2])[q]
          = [st[q] EXCEPT !.users = RemoveSession(st[q].users, e[1], e[2])]
    BY <1>2 DEF Sweep
  <2> QED  BY <1>1, <1>2, <2>1 DEF Channel, RemoveSession
<1>3. CASE ~(q # k /\ q[1] = k[1])
  <2>1. Sweep(k, e[1], e[2])[q] = st[q]
    BY <1>3 DEF Sweep
  <2> QED  BY <1>1, <1>3, <2>1 DEF Channel
<1> QED  BY <1>2, <1>3

\* CONNECT of a session the channel has removes it elsewhere and repeats the ids
\* of its first WELCOME.
LEMMA ReconnectNobodyNew ==
    ASSUME TypeOK, SessionInv, NEW k \in Keys, NEW e \in Endpoints, Reconnect(k, e[1], e[2])
    PROVE  NobodyNew /\ issued' = issued
<1> DEFINE sweep == Sweep(k, e[1], e[2])
<1>1. PICK u \in st[k].users :
        /\ Session(u, e[1], e[2])
        /\ st' = [sweep EXCEPT ![k].users = Refresh(@, u)]
        /\ issued' = issued \cup {[cid |-> st[k].channel_id, pid |-> u.peer_id,
                                   name |-> e[1], addr |-> e[2]]}
  BY DEF Reconnect
<1>2. k \in DOMAIN st
  BY DEF Reconnect
<1>3. \A q \in DOMAIN st : st[q] \in Channel /\ st[q].users \in SUBSET User
  BY DEF TypeOK, Channel
<1>4. DOMAIN sweep = DOMAIN st /\ sweep[k] = st[k]
  BY <1>2 DEF Sweep
<1>5. issued' = issued
  <2>1. [cid |-> st[k].channel_id, pid |-> u.peer_id, name |-> e[1], addr |-> e[2]] \in issued
    BY <1>1, <1>2 DEF SessionInv, PeerIdsFromWelcome, Session
  <2> QED  BY <1>1, <2>1
<1>6. SUFFICES ASSUME NEW q \in DOMAIN st
               PROVE  /\ st'[q].channel_id = st[q].channel_id
                      /\ st'[q].next_peer_id = st[q].next_peer_id
                      /\ SomeOf(st'[q].users, st[q].users)
  BY <1>1, <1>4, <1>5 DEF NobodyNew
<1>7. CASE q = k
  <2>1. st'[k] = [st[k] EXCEPT !.users = Refresh(st[k].users, u)]
    BY <1>1, <1>2, <1>4
  <2>2. SomeOf(Refresh(st[k].users, u), st[k].users)
    BY <1>2, <1>3, RefreshIsSomeOf, PeerIdsDistinct
  <2> QED  BY <1>2, <1>3, <1>7, <2>1, <2>2 DEF Channel
<1>8. CASE q # k
  <2>1. st'[q] = sweep[q]
    BY <1>1, <1>4, <1>8
  <2>2. /\ sweep[q].channel_id = st[q].channel_id
        /\ sweep[q].next_peer_id = st[q].next_peer_id
        /\ sweep[q].users \in SUBSET st[q].users
    BY SweepFacts
  <2> HIDE DEF sweep
  <2>3. SomeOf(sweep[q].users, st[q].users)
    BY <1>3, <2>2, SubsetIsSomeOf, PeerIdsDistinct
  <2> QED  BY <2>1, <2>2, <2>3
<1> QED  BY <1>7, <1>8

\* The one step that brings somebody in.  The newcomer takes the next peer id,
\* replaces the older sessions of its name, and is swept from the other
\* channels of the server id; a new channel has a fresh id.
LEMMA JoinKeepsSessions ==
    ASSUME TypeOK, SessionInv, NEW k \in Keys, NEW e \in Endpoints, NEW nat \in NatKinds,
           Join(k, e[1], e[2], nat)
    PROVE  SessionInv'
<1> DEFINE sweep == Sweep(k, e[1], e[2])
<1>1. PICK ch \in IF k \in DOMAIN st THEN {st[k]} ELSE {NewChannel(c) : c \in FreshChannelIds} :
        LET added == AddUser(ch, e[1], e[2], nat)
            full  == [added EXCEPT !.relay = LoneUserRelay(added)]
        IN  /\ st' = [q \in DOMAIN st \cup {k} |-> IF q = k THEN full ELSE sweep[q]]
            /\ issued' = issued \cup {[cid |-> ch.channel_id, pid |-> ch.next_peer_id,
                                       name |-> e[1], addr |-> e[2]]}
  BY DEF Join
<1> DEFINE new   == NewUser(ch.next_peer_id, e[1], e[2], nat)
           old   == RemoveOldSessions(ch.users, e[1], e[2])
           added == AddUser(ch, e[1], e[2], nat)
           full  == [added EXCEPT !.relay = LoneUserRelay(added)]
           id    == [cid |-> ch.channel_id, pid |-> ch.next_peer_id,
                     name |-> e[1], addr |-> e[2]]
<1>2. e[1] \in Names /\ e[2] \in Addrs
  BY EndpointsAssumption
<1>3. ch \in Channel
  BY DEF TypeOK, NewChannel, FreshChannelIds, Channel
<1>4. /\ full.channel_id = ch.channel_id
      /\ full.next_peer_id = ch.next_peer_id + 1
      /\ full.users = old \cup {new}
  BY <1>3 DEF AddUser, Channel
<1>5. /\ new.peer_id = ch.next_peer_id /\ new.name = e[1] /\ new.addr = e[2]
      /\ nat = "Symmetric" => new.needs_server_relay
      /\ new.nat_kind = nat
  BY DEF NewUser
\* The channel before: a channel of the map, or one without users whose id
\* nobody has had.
<1>6. \/ k \in DOMAIN st /\ ch = st[k]
      \/ /\ k \notin DOMAIN st /\ ch.users = {}
         /\ \A q \in DOMAIN st : st[q].channel_id # ch.channel_id
         /\ \A i \in issued : i.cid # ch.channel_id
  BY <1>1 DEF NewChannel, FreshChannelIds
<1>7. \A u \in ch.users : ~Session(u, e[1], e[2])
  BY <1>6 DEF Join
\* None of the users kept has the newcomer's name.
<1>8. old \subseteq ch.users /\ \A u \in old : u.name # e[1]
  BY <1>7 DEF RemoveOldSessions, Session
<1>9. \A i \in issued : i.cid = ch.channel_id => i.pid < ch.next_peer_id
  BY <1>6 DEF SessionInv, IdentitiesSpent
<1>10. \A q \in DOMAIN st : st[q].channel_id = ch.channel_id => q = k /\ k \in DOMAIN st
  BY <1>6 DEF SessionInv, IdentitiesSpent
<1>11. \A u \in ch.users :
         /\ u.peer_id < ch.next_peer_id
         /\ [cid |-> ch.channel_id, pid |-> u.peer_id, name |-> u.name, addr |-> u.addr] \in issued
         /\ \A v \in ch.users : (v.peer_id = u.peer_id => v = u) /\ (v.name = u.name => v = u)
         /\ u.nat_kind = "Symmetric" => u.needs_server_relay
  BY <1>6 DEF SessionInv, PeerIdsFromWelcome, NamesUnique, SymmetricServed
<1>12. DOMAIN st' = DOMAIN st \cup {k} /\ st'[k] = full /\ issued' = issued \cup {id}
  BY <1>1
<1>13. \A q \in DOMAIN st' : q # k =>
         /\ q \in DOMAIN st
         /\ st'[q].channel_id = st[q].channel_id
         /\ st'[q].next_peer_id = st[q].next_peer_id
         /\ st'[q].users \subseteq st[q].users
         /\ q[1] = k[1] => \A u \in st'[q].users : ~Session(u, e[1], e[2])
  <2> SUFFICES ASSUME NEW q \in DOMAIN st', q # k
               PROVE  /\ q \in DOMAIN st
                      /\ st'[q].channel_id = st[q].channel_id
                      /\ st'[q].next_peer_id = st[q].next_peer_id
                      /\ st'[q].users \subseteq st[q].users
                      /\ q[1] = k[1] => \A u \in st'[q].users : ~Session(u, e[1], e[2])
    OBVIOUS
  <2>1. q \in DOMAIN st /\ st'[q] = sweep[q]
    BY <1>1
  <2>2. /\ sweep[q].channel_id = st[q].channel_id
        /\ sweep[q].next_peer_id = st[q].next_peer_id
        /\ sweep[q].users \in SUBSET st[q].users
        /\ q[1] = k[1] => \A u \in sweep[q].users : ~Session(u, e[1], e[2])
    BY <2>1, SweepFacts
  <2> HIDE DEF sweep
  <2> QED  BY <2>1, <2>2
<1> HIDE DEF sweep, new, old, added, full
<1>14. NamesUnique'
  <2> SUFFICES ASSUME NEW q \in DOMAIN st', NEW u \in st'[q].users, NEW v \in st'[q].users,
                      u.name = v.name
               PROVE  u = v
    BY DEF NamesUnique
  <2>1. CASE q = k
    <3>1. u \in old \cup {new} /\ v \in old \cup {new}
      BY <1>4, <1>12, <2>1
    <3>2. u \in old /\ v \in old => u = v
      BY <1>8, <1>11
    <3> QED  BY <1>5, <1>8, <3>1, <3>2
  <2>2. CASE q # k
    BY <1>13, <2>2 DEF SessionInv, NamesUnique
  <2> QED  BY <2>1, <2>2
<1>15. OneChannelPerServer'
  <2> SUFFICES ASSUME NEW q \in DOMAIN st', NEW p \in DOMAIN st',
                      NEW u \in st'[q].users, NEW v \in st'[p].users,
                      q[1] = p[1], Session(u, v.name, v.addr), q # p
               PROVE  FALSE
    BY DEF OneChannelPerServer
  <2>1. CASE q # k /\ p # k
    BY <1>13, <2>1 DEF SessionInv, OneChannelPerServer
  <2>2. CASE q = k
    <3>1. p # k /\ u \in old \cup {new}
      BY <1>4, <1>12, <2>2
    <3>2. p \in DOMAIN st /\ v \in st[p].users /\ ~Session(v, e[1], e[2])
      BY <1>13, <2>2, <3>1
    <3>3. CASE u = new
      BY <1>5, <3>2, <3>3 DEF Session
    <3>4. CASE u \in old
      BY <1>6, <1>8, <2>2, <3>2, <3>4 DEF SessionInv, OneChannelPerServer
    <3> QED  BY <3>1, <3>3, <3>4
  <2>3. CASE p = k
    <3>1. q # k /\ v \in old \cup {new}
      BY <1>4, <1>12, <2>3
    <3>2. q \in DOMAIN st /\ u \in st[q].users /\ ~Session(u, e[1], e[2])
      BY <1>13, <2>3, <3>1
    <3>3. CASE v = new
      BY <1>5, <3>2, <3>3 DEF Session
    <3>4. CASE v \in old
      BY <1>6, <1>8, <2>3, <3>2, <3>4 DEF SessionInv, OneChannelPerServer
    <3> QED  BY <3>1, <3>3, <3>4
  <2> QED  BY <2>1, <2>2, <2>3
<1>16. IdentityUnique'
  <2>1. \A i \in issued : ~(i.cid = id.cid /\ i.pid = id.pid)
    <3>1. ch.next_peer_id \in Nat
      BY <1>3 DEF Channel
    <3> QED  BY <1>9, <3>1
  <2> HIDE DEF id
  <2> QED  BY <1>12, <2>1 DEF SessionInv, IdentityUnique
<1>17. PeerIdsFromWelcome'
  <2> SUFFICES ASSUME NEW q \in DOMAIN st', NEW u \in st'[q].users
               PROVE  /\ u.peer_id < st'[q].next_peer_id
                      /\ [cid |-> st'[q].channel_id, pid |-> u.peer_id,
                          name |-> u.name, addr |-> u.addr] \in issued'
                      /\ \A v \in st'[q].users : v.peer_id = u.peer_id => v = u
    BY DEF PeerIdsFromWelcome
  <2>1. CASE q # k
    BY <1>12, <1>13, <2>1 DEF SessionInv, PeerIdsFromWelcome
  <2>2. CASE q = k
    <3>1. ch.next_peer_id \in Nat /\ \A v \in ch.users : v.peer_id \in Nat
      BY <1>3 DEF Channel, User
    <3>2. st'[q].channel_id = ch.channel_id /\ st'[q].next_peer_id = ch.next_peer_id + 1
            /\ st'[q].users = old \cup {new}
      BY <1>4, <1>12, <2>2
    <3>3. \A v \in old : v.peer_id < new.peer_id
      BY <1>5, <1>8, <1>11
    <3>4. CASE u = new
      <4>1. u.peer_id < ch.next_peer_id + 1
        BY <1>5, <3>1, <3>4
      <4>2. [cid |-> ch.channel_id, pid |-> u.peer_id, name |-> u.name, addr |-> u.addr] = id
        BY <1>5, <3>4
      <4>3. \A v \in old : v.peer_id # u.peer_id
        BY <1>5, <1>8, <3>1, <3>3, <3>4
      <4> QED  BY <1>12, <3>2, <3>4, <4>1, <4>2, <4>3
    <3>5. CASE u \in old
      <4>1. u.peer_id < ch.next_peer_id + 1
        <5>1. u.peer_id < ch.next_peer_id /\ u.peer_id \in Nat
          BY <1>8, <1>11, <3>1, <3>5
        <5> QED  BY <3>1, <5>1
      <4>2. \A v \in old : v.peer_id = u.peer_id => v = u
        BY <1>8, <1>11, <3>5
      <4>3. new.peer_id # u.peer_id
        BY <1>5, <1>8, <3>1, <3>3, <3>5
      <4> QED  BY <1>8, <1>11, <1>12, <3>2, <3>5, <4>1, <4>2, <4>3
    <3> QED  BY <3>2, <3>4, <3>5
  <2> QED  BY <2>1, <2>2
<1>18. IdentitiesSpent'
  <2>1. ASSUME NEW i \in issued', NEW q \in DOMAIN st', i.cid = st'[q].channel_id
        PROVE  i.pid < st'[q].next_peer_id
    <3>1. ch.next_peer_id \in Nat /\ \A j \in issued : j.pid \in Nat
      BY <1>3 DEF Channel, TypeOK, Identity
    <3>2. CASE q = k
      <4>1. i.cid = ch.channel_id /\ st'[q].next_peer_id = ch.next_peer_id + 1
        BY <1>4, <1>12, <2>1, <3>2
      <4>2. i = id \/ i \in issued
        BY <1>12
      <4> QED  BY <1>9, <3>1, <4>1, <4>2
    <3>3. CASE q # k
      <4>1. q \in DOMAIN st /\ i.cid = st[q].channel_id
              /\ st'[q].next_peer_id = st[q].next_peer_id
        BY <1>13, <2>1, <3>3
      <4>2. i \in issued
        BY <1>10, <1>12, <3>3, <4>1
      <4> QED  BY <4>1, <4>2 DEF SessionInv, IdentitiesSpent
    <3> QED  BY <3>2, <3>3
  <2>2. ASSUME NEW p \in DOMAIN st', NEW q \in DOMAIN st', st'[p].channel_id = st'[q].channel_id
        PROVE  p = q
    <3>1. CASE p # k /\ q # k
      BY <1>13, <2>2, <3>1 DEF SessionInv, IdentitiesSpent
    <3>2. CASE p = k \/ q = k
      BY <1>4, <1>10, <1>12, <1>13, <2>2, <3>2
    <3> QED  BY <3>1, <3>2
  <2> QED  BY <2>1, <2>2 DEF IdentitiesSpent
<1>19. SymmetricServed'
  <2> SUFFICES ASSUME NEW q \in DOMAIN st', NEW u \in st'[q].users, u.nat_kind = "Symmetric"
               PROVE  u.needs_server_relay
    BY DEF SymmetricServed
  <2>1. CASE q = k
    BY <1>4, <1>5, <1>8, <1>11, <1>12, <2>1
  <2>2. CASE q # k
    BY <1>13, <2>2 DEF SessionInv, SymmetricServed
  <2> QED  BY <2>1, <2>2
<1> QED  BY <1>14, <1>15, <1>16, <1>17, <1>18, <1>19 DEF SessionInv

----------------------------------------------------------------------------
(* The specification *)

\* There are no channels at first, and nobody was WELCOMEd.
LEMMA SessionInit == Init => SessionInv
BY DEF Init, SessionInv, NamesUnique, OneChannelPerServer, IdentityUnique,
       PeerIdsFromWelcome, IdentitiesSpent, SymmetricServed

\* Every step keeps the invariant.
LEMMA SessionNext ==
    ASSUME TypeOK, SessionInv, [Next]_vars
    PROVE  SessionInv'
<1>1. ASSUME NEW e \in Endpoints, HandleMessage(e[1], e[2])
      PROVE  SessionInv'
  <2>1. ASSUME NEW k \in Keys, Reconnect(k, e[1], e[2])
        PROVE  SessionInv'
    BY <2>1, ReconnectNobodyNew, NobodyNewKeepsSessions
  <2>2. ASSUME NEW k \in Keys, NEW nat \in NatKinds, Join(k, e[1], e[2], nat)
        PROVE  SessionInv'
    BY <2>2, JoinKeepsSessions
  <2>3. ASSUME NEW k \in Keys, Disconnect(k, e[1], e[2])
        PROVE  SessionInv'
    BY <2>3, DisconnectNobodyNew, NobodyNewKeepsSessions DEF Disconnect
  <2>4. ASSUME NEW k \in Keys, Heartbeat(k, e[1], e[2])
        PROVE  SessionInv'
    BY <2>4, HeartbeatNobodyNew, NobodyNewKeepsSessions DEF Heartbeat
  <2>5. CASE Pong(e[2])
    BY <2>5, PongNobodyNew, NobodyNewKeepsSessions DEF Pong
  <2>6. CASE NatProbe(e[2]) \/ \E sender \in Names : ForwardData(e[2], sender)
    <3>1. st' = st /\ issued' = issued
      BY <2>6 DEF NatProbe, ForwardData
    <3>2. NobodyNew
      BY <3>1, SameUsersNobodyNew
    <3> QED  BY <3>1, <3>2, NobodyNewKeepsSessions
  <2> QED  BY <1>1, <2>1, <2>2, <2>3, <2>4, <2>5, <2>6 DEF HandleMessage
<1>2. ASSUME NEW k \in Keys, NEW name \in Names, PeerTimeout(k, name) \/ RequestRelay(k, name)
      PROVE  SessionInv'
  BY <1>2, PeerTimeoutNobodyNew, RequestRelayNobodyNew, NobodyNewKeepsSessions
     DEF PeerTimeout, RequestRelay
<1>3. CASE AppointRelay \/ LeaveRelayToServer
  BY <1>3, AppointmentNobodyNew, NobodyNewKeepsSessions DEF AppointRelay, LeaveRelayToServer
<1>4. ASSUME NEW k \in Keys, ExpireUser(k) \/ SettleChannel(k)
      PROVE  SessionInv'
  BY <1>4, ExpireUserNobodyNew, SettleChannelNobodyNew, NobodyNewKeepsSessions
     DEF ExpireUser, SettleChannel
<1>5. CASE Cleanup
  BY <1>5, CleanupNobodyNew, NobodyNewKeepsSessions DEF Cleanup
<1>6. ASSUME NEW k \in DOMAIN st, FallSilent(k)
      PROVE  SessionInv'
  BY <1>6, FallSilentNobodyNew, NobodyNewKeepsSessions DEF FallSilent
<1>7. CASE Tick \/ SendNotes \/ UNCHANGED vars
  <2>1. st' = st /\ issued' = issued
    BY <1>7 DEF Tick, SendNotes, vars
  <2>2. NobodyNew
    BY <2>1, SameUsersNobodyNew
  <2> QED  BY <2>1, <2>2, NobodyNewKeepsSessions
<1> QED  BY <1>1, <1>2, <1>3, <1>4, <1>5, <1>6, <1>7 DEF Next, MainStep, HeartbeatStep

\* The sessions of every reachable state satisfy the invariant.
THEOREM SessionsCorrect == Spec => []SessionInv
<1>1. Init => SessionInv
  BY SessionInit
<1>2. TypeOK /\ SessionInv /\ [Next]_vars => SessionInv'
  BY SessionNext
<1> QED  BY <1>1, <1>2, TypeCorrect, PTL DEF Spec, SafetySpec

\* A channel never has two users of one name.
THEOREM NamesUniqueHolds == Spec => []NamesUnique
<1>1. SessionInv => NamesUnique
  BY DEF SessionInv
<1> QED  BY <1>1, SessionsCorrect, PTL

\* A session is in at most one channel of a server id.
THEOREM OneChannelPerServerHolds == Spec => []OneChannelPerServer
<1>1. SessionInv => OneChannelPerServer
  BY DEF SessionInv
<1> QED  BY <1>1, SessionsCorrect, PTL

\* The identity a WELCOME hands out belongs to one session for good.
THEOREM IdentityUniqueHolds == Spec => []IdentityUnique
<1>1. SessionInv => IdentityUnique
  BY DEF SessionInv
<1> QED  BY <1>1, SessionsCorrect, PTL

\* Peer ids are distinct, below the counter, and as WELCOMEd.
THEOREM PeerIdsFromWelcomeHolds == Spec => []PeerIdsFromWelcome
<1>1. SessionInv => PeerIdsFromWelcome
  BY DEF SessionInv
<1> QED  BY <1>1, SessionsCorrect, PTL

\* Every peer id handed out is below the counter of its channel, and no two
\* channels share an id.
THEOREM IdentitiesSpentHolds == Spec => []IdentitiesSpent
<1>1. SessionInv => IdentitiesSpent
  BY DEF SessionInv
<1> QED  BY <1>1, SessionsCorrect, PTL

\* The two eligibility tests agree on every channel: nobody behind a
\* symmetric NAT is ever without needs_server_relay.
THEOREM EligibilityAgreesHolds == Spec => []EligibilityAgrees
<1>1. SymmetricServed => EligibilityAgrees
  BY DEF SymmetricServed, EligibilityAgrees, EligibleUsers, HeartbeatEligibleUsers,
         Eligible, HeartbeatEligible
<1>2. SessionInv => SymmetricServed
  BY DEF SessionInv
<1> QED  BY <1>1, <1>2, SessionsCorrect, PTL

----------------------------------------------------------------------------
(* The server implements Membership.  A join is an entry because of what   *)
(* the session invariant says of identities; every other step brings       *)
(* nobody in (NobodyNew), so it remains to be seen who goes: members of    *)
(* one name, or whole channels.                                            *)

members == [k \in Keys |-> MembersOf(k)]

\* Every one of the old users is among the users, under its identity.
Kept(users, old) ==
    \A w \in old : \E u \in users :
        u.peer_id = w.peer_id /\ u.name = w.name /\ u.addr = w.addr

----------------------------------------------------------------------------
(* Users and members *)

\* Users that are all still there are kept.
LEMMA SupersetKeeps ==
    ASSUME NEW users, NEW old \in SUBSET users
    PROVE  Kept(users, old)
BY DEF Kept

\* A user replaced by the same session is kept.
LEMMA ReplacedIsKept ==
    ASSUME NEW old, NEW u \in old, NEW w, Same(w, u)
    PROVE  Kept((old \ {u}) \cup {w}, old)
BY DEF Kept, Same

\* A refreshed user is kept.
LEMMA RefreshKeeps ==
    ASSUME NEW old \in SUBSET User, NEW u \in old
    PROVE  Kept(Refresh(old, u), old)
<1> DEFINE w == [u EXCEPT !.silent = FALSE]
<1>1. Same(w, u)
  BY DEF User, Same
<1>2. Refresh(old, u) = (old \ {u}) \cup {w}
  BY DEF Refresh
<1> HIDE DEF w
<1> QED  BY <1>1, <1>2, ReplacedIsKept

\* A step that brings nobody in and keeps everybody changes no member.
LEMMA NobodyGone ==
    ASSUME NobodyNew, DOMAIN st' = DOMAIN st,
           \A k \in DOMAIN st : Kept(st'[k].users, st[k].users)
    PROVE  members' = members
<1> SUFFICES ASSUME NEW k \in Keys
             PROVE  MembersOf(k)' = MembersOf(k)
  BY DEF members
<1>1. CASE k \in DOMAIN st
  BY <1>1 DEF MembersOf, IdentityOf, NobodyNew, SomeOf, Same, Kept
<1>2. CASE k \notin DOMAIN st
  BY <1>2 DEF MembersOf
<1> QED  BY <1>1, <1>2

\* A step that brings nobody in and keeps everybody but the users of one name
\* in some channels is a departure.
LEMMA OneNameGone ==
    ASSUME NobodyNew, DOMAIN st' = DOMAIN st, issued' = issued,
           NEW name, NEW places,
           \A k \in DOMAIN st : IF k \in places
             THEN /\ Kept(st'[k].users, {u \in st[k].users : u.name # name})
                  /\ \A u \in st'[k].users : u.name # name
             ELSE Kept(st'[k].users, st[k].users)
    PROVE  Abstract!Leave(name, places)
<1> SUFFICES ASSUME NEW k \in Keys
             PROVE  MembersOf(k)' = IF k \in places THEN {j \in MembersOf(k) : j.name # name}
                                    ELSE MembersOf(k)
  BY DEF Abstract!Leave, Abstract!Places, Keys
<1>1. CASE k \in DOMAIN st
  BY <1>1 DEF MembersOf, IdentityOf, NobodyNew, SomeOf, Same, Kept
<1>2. CASE k \notin DOMAIN st
  BY <1>2 DEF MembersOf
<1> QED  BY <1>1, <1>2

\* The same for a step that replaces the users of one channel.
LEMMA OneChannelNobodyGone ==
    ASSUME TypeOK, NobodyNew, NEW k \in DOMAIN st, NEW users, NEW relay,
           \/ st' = [st EXCEPT ![k].users = users, ![k].relay = relay]
           \/ st' = WithUsers(k, users),
           Kept(users, st[k].users)
    PROVE  members' = members
<1>1. st[k] \in Channel
  BY DEF TypeOK
<1>2. /\ DOMAIN st' = DOMAIN st /\ st'[k].users = users
      /\ \A q \in DOMAIN st : q # k => st'[q] = st[q]
  BY <1>1 DEF WithUsers, TypeOK, Channel
<1>3. \A q \in DOMAIN st : Kept(st'[q].users, st[q].users)
  BY <1>2, SupersetKeeps
<1> QED  BY <1>2, <1>3, NobodyGone

\* The same for a step that drops the users of one name from one channel.
LEMMA OneChannelOneNameGone ==
    ASSUME TypeOK, NobodyNew, issued' = issued,
           NEW k \in DOMAIN st, NEW users, NEW relay, NEW name,
           st' = [st EXCEPT ![k].users = users, ![k].relay = relay],
           {u \in st[k].users : u.name # name} \subseteq users,
           \A u \in users : u.name # name
    PROVE  Abstract!Leave(name, {k})
<1>1. st[k] \in Channel
  BY DEF TypeOK
<1>2. /\ DOMAIN st' = DOMAIN st /\ st'[k].users = users
      /\ \A q \in DOMAIN st : q # k => st'[q] = st[q]
  BY <1>1 DEF TypeOK, Channel
<1>3. Kept(users, {u \in st[k].users : u.name # name})
  BY DEF Kept
<1>4. \A q \in DOMAIN st : q # k => Kept(st'[q].users, st[q].users)
  BY <1>2 DEF Kept
<1> DEFINE places == {k}
<1>5. \A q \in DOMAIN st : IF q \in places
        THEN /\ Kept(st'[q].users, {u \in st[q].users : u.name # name})
             /\ \A u \in st'[q].users : u.name # name
        ELSE Kept(st'[q].users, st[q].users)
  BY <1>2, <1>3, <1>4
<1> HIDE DEF places
<1>6. Abstract!Leave(name, places)
  BY <1>2, <1>5, OneNameGone
<1> QED  BY <1>6 DEF places

----------------------------------------------------------------------------
(* Who goes *)

\* What a sweep leaves of a channel.
LEMMA SweepLeaves ==
    ASSUME TypeOK, NEW k \in Keys, NEW e \in Endpoints, NEW q \in DOMAIN st
    PROVE  /\ DOMAIN Sweep(k, e[1], e[2]) = DOMAIN st
           /\ Sweep(k, e[1], e[2])[q].users =
                IF q # k /\ q[1] = k[1] THEN RemoveSession(st[q].users, e[1], e[2])
                ELSE st[q].users
<1>1. st[q] \in Channel
  BY DEF TypeOK
<1> QED  BY <1>1 DEF Sweep, Channel

\* A session that connects again leaves the other channels.
LEMMA ReconnectLeaves ==
    ASSUME TypeOK, SessionInv, NEW k \in Keys, NEW e \in Endpoints,
           Reconnect(k, e[1], e[2])
    PROVE  \E places \in SUBSET Keys : Abstract!Leave(e[1], places)
<1> DEFINE sweep  == Sweep(k, e[1], e[2])
           places == {q \in DOMAIN st : q # k /\ q[1] = k[1]
                        /\ \E u \in st[q].users : Session(u, e[1], e[2])}
<1>1. PICK u \in st[k].users :
        /\ st' = [sweep EXCEPT ![k].users = Refresh(sweep[k].users, u)]
        /\ issued' = issued \cup {[cid |-> st[k].channel_id, pid |-> u.peer_id,
                                   name |-> e[1], addr |-> e[2]]}
        /\ Session(u, e[1], e[2])
  BY DEF Reconnect
<1>2. k \in DOMAIN st /\ places \in SUBSET Keys
  BY DEF Reconnect, TypeOK
<1>3. issued' = issued /\ NobodyNew
  <2>1. [cid |-> st[k].channel_id, pid |-> u.peer_id, name |-> e[1], addr |-> e[2]] \in issued
    BY <1>1, <1>2 DEF SessionInv, PeerIdsFromWelcome, Session
  <2> QED  BY <1>1, <2>1, ReconnectNobodyNew
<1>4. /\ DOMAIN sweep = DOMAIN st
      /\ \A q \in DOMAIN st : sweep[q].users =
           IF q # k /\ q[1] = k[1] THEN RemoveSession(st[q].users, e[1], e[2])
           ELSE st[q].users
  BY <1>2, SweepLeaves
<1>5. sweep[k] \in Channel
  BY <1>2 DEF Sweep, TypeOK
<1> HIDE DEF sweep
<1>6. /\ DOMAIN st' = DOMAIN st
      /\ st'[k].users = Refresh(st[k].users, u)
      /\ \A q \in DOMAIN st : q # k => st'[q] = sweep[q]
  BY <1>1, <1>2, <1>4, <1>5 DEF Channel
<1>7. ASSUME NEW q \in DOMAIN st
      PROVE  IF q \in places
             THEN /\ Kept(st'[q].users, {w \in st[q].users : w.name # e[1]})
                  /\ \A w \in st'[q].users : w.name # e[1]
             ELSE Kept(st'[q].users, st[q].users)
  <2>1. CASE q = k
    <3>1. st[k].users \in SUBSET User
      BY <1>2 DEF TypeOK, Channel
    <3> QED  BY <1>6, <2>1, <3>1, RefreshKeeps
  <2>2. CASE q \in places
    <3>1. st'[q].users = RemoveSession(st[q].users, e[1], e[2])
      BY <1>4, <1>6, <2>2
    <3>2. \A w \in st[q].users : w.name = e[1] => Session(w, e[1], e[2])
      BY <2>2 DEF SessionInv, NamesUnique, Session
    <3> QED  BY <2>2, <3>1, <3>2, SupersetKeeps DEF RemoveSession, Session
  <2>3. CASE q # k /\ q \notin places
    <3>1. st'[q].users = st[q].users
      BY <1>4, <1>6, <2>3 DEF RemoveSession
    <3> QED  BY <2>3, <3>1, SupersetKeeps
  <2> QED  BY <2>1, <2>2, <2>3
<1> HIDE DEF places
<1>8. Abstract!Leave(e[1], places)
  BY <1>3, <1>6, <1>7, OneNameGone
<1> QED  BY <1>2, <1>8

\* DISCONNECT costs one session its place, or nobody.
LEMMA DisconnectLeaves ==
    ASSUME TypeOK, SessionInv, NEW k \in Keys, NEW e \in Endpoints,
           Disconnect(k, e[1], e[2])
    PROVE  members' = members \/ Abstract!Leave(e[1], {k})
<1> DEFINE present == k \in DOMAIN st /\ \E u \in st[k].users : Session(u, e[1], e[2])
           left    == RemoveSession(st[k].users, e[1], e[2])
           relay   == RelayAfterDeparture(st[k], left, st[k].relay = e[1])
<1>1. NobodyNew /\ issued' = issued
  BY DisconnectNobodyNew DEF Disconnect
<1>2. CASE present
  <2>1. st' = [st EXCEPT ![k].users = left, ![k].relay = relay]
    BY <1>2 DEF Disconnect
  <2>2. \A w \in st[k].users : w.name = e[1] => Session(w, e[1], e[2])
    BY <1>2 DEF SessionInv, NamesUnique, Session
  <2>3. /\ {w \in st[k].users : w.name # e[1]} \subseteq left
        /\ \A w \in left : w.name # e[1]
    BY <2>2 DEF RemoveSession, Session
  <2> HIDE DEF left, relay
  <2> QED  BY <1>1, <1>2, <2>1, <2>3, OneChannelOneNameGone
<1>3. CASE ~present
  <2>1. st' = st
    BY <1>3 DEF Disconnect
  <2> QED  BY <2>1 DEF members, MembersOf, IdentityOf
<1> QED  BY <1>2, <1>3

\* PEER_TIMEOUT costs the name it gives its place.
LEMMA PeerTimeoutLeaves ==
    ASSUME TypeOK, SessionInv, NEW k \in Keys, NEW name \in Names, PeerTimeout(k, name)
    PROVE  Abstract!Leave(name, {k})
<1> DEFINE left  == {u \in st[k].users : u.name # name}
           relay == IF Lone(left) THEN First(left).name ELSE st[k].relay
<1>1. k \in DOMAIN st /\ st' = [st EXCEPT ![k].users = left, ![k].relay = relay]
  BY DEF PeerTimeout
<1>2. NobodyNew /\ issued' = issued
  BY PeerTimeoutNobodyNew DEF PeerTimeout
<1>3. {u \in st[k].users : u.name # name} \subseteq left /\ \A u \in left : u.name # name
  OBVIOUS
<1> HIDE DEF left, relay
<1> QED  BY <1>1, <1>2, <1>3, OneChannelOneNameGone

\* A timeout costs one user its place: nobody else has its name.
LEMMA ExpireUserLeaves ==
    ASSUME TypeOK, SessionInv, NEW k \in Keys, ExpireUser(k)
    PROVE  \E name \in Names : Abstract!Leave(name, {k})
<1> DEFINE u     == First(Silent(st[k].users))
           left  == st[k].users \ {u}
           relay == RelayAfterTimeout(st[k], u, left)
<1>1. k \in DOMAIN st /\ st' = [st EXCEPT ![k].users = left, ![k].relay = relay]
  BY DEF ExpireUser, TypeOK
<1>2. NobodyNew /\ issued' = issued
  BY ExpireUserNobodyNew DEF ExpireUser
<1>3. u \in st[k].users /\ st[k].users \in SUBSET User
  <2>1. st[k].users \in SUBSET User
    BY <1>1 DEF TypeOK, Channel
  <2>2. Silent(st[k].users) \in SUBSET User /\ Silent(st[k].users) # {}
    BY <2>1 DEF ExpireUser, Silent
  <2> QED  BY <2>1, <2>2, FirstIsLeast DEF Silent
<1> HIDE DEF u, relay
<1>4. \A w \in st[k].users : w.name = u.name => w = u
  BY <1>1, <1>3 DEF SessionInv, NamesUnique
<1>5. {w \in st[k].users : w.name # u.name} \subseteq left /\ \A w \in left : w.name # u.name
  BY <1>4
<1> HIDE DEF left
<1>6. Abstract!Leave(u.name, {k})
  BY <1>1, <1>2, <1>5, OneChannelOneNameGone
<1>7. u.name \in Names
  BY <1>3 DEF User
<1> QED  BY <1>6, <1>7

\* REQUEST_RELAY keeps everybody.
LEMMA RequestRelayKeeps ==
    ASSUME TypeOK, SessionInv, NEW k \in Keys, NEW name \in Names, RequestRelay(k, name)
    PROVE  members' = members
<1> DEFINE served(u) == IF u.name = name THEN [u EXCEPT !.needs_server_relay = TRUE] ELSE u
           users     == {served(u) : u \in st[k].users}
<1>1. k \in DOMAIN st /\ st' = WithUsers(k, users)
  BY DEF RequestRelay
<1>2. st[k].users \in SUBSET User
  BY <1>1 DEF TypeOK, Channel
<1>3. \A u \in st[k].users :
        served(u).peer_id = u.peer_id /\ served(u).name = u.name /\ served(u).addr = u.addr
  BY <1>2 DEF User
<1> HIDE DEF served
<1>4. Kept(users, st[k].users)
  BY <1>3 DEF Kept
<1> HIDE DEF users
<1> QED  BY <1>1, <1>4, RequestRelayNobodyNew, OneChannelNobodyGone

\* HB keeps everybody.
LEMMA HeartbeatKeeps ==
    ASSUME TypeOK, SessionInv, NEW k \in Keys, NEW e \in Endpoints, Heartbeat(k, e[1], e[2])
    PROVE  members' = members
<1>1. PICK u \in st[k].users : st' = WithUsers(k, Refresh(st[k].users, u))
  BY DEF Heartbeat
<1>2. k \in DOMAIN st /\ st[k].users \in SUBSET User
  BY DEF Heartbeat, TypeOK, Channel
<1>3. Kept(Refresh(st[k].users, u), st[k].users)
  BY <1>2, RefreshKeeps
<1> QED  BY <1>1, <1>2, <1>3, HeartbeatNobodyNew, OneChannelNobodyGone

\* PONG keeps everybody.
LEMMA PongKeeps ==
    ASSUME TypeOK, SessionInv, NEW e \in Endpoints, Pong(e[2])
    PROVE  members' = members
<1> DEFINE here(k) == {u \in st[k].users : u.addr = e[2]}
<1>1. st' = [k \in DOMAIN st |->
               IF here(k) = {} THEN st[k]
               ELSE [st[k] EXCEPT !.users = Refresh(st[k].users, First(here(k)))]]
  BY DEF Pong
<1>2. ASSUME NEW k \in DOMAIN st
      PROVE  Kept(st'[k].users, st[k].users)
  <2>1. st[k] \in Channel /\ st[k].users \in SUBSET User
    BY DEF TypeOK, Channel
  <2>2. CASE here(k) = {}
    <3>1. st'[k].users = st[k].users
      BY <1>1, <2>2
    <3> QED  BY <3>1 DEF Kept
  <2>3. CASE here(k) # {}
    <3>1. First(here(k)) \in st[k].users
      BY <2>1, <2>3, FirstIsLeast
    <3>2. Kept(Refresh(st[k].users, First(here(k))), st[k].users)
      BY <2>1, <3>1, RefreshKeeps
    <3>3. st'[k] = [st[k] EXCEPT !.users = Refresh(st[k].users, First(here(k)))]
      BY <1>1, <2>3
    <3> HIDE DEF here
    <3> QED  BY <2>1, <3>2, <3>3 DEF Channel
  <2> QED  BY <2>2, <2>3
<1>3. DOMAIN st' = DOMAIN st
  BY <1>1
<1> QED  BY <1>2, <1>3, PongNobodyNew, NobodyGone

\* The announcement of a join, and the pass's choice of a relay, keep everybody.
LEMMA AppointmentKeeps ==
    ASSUME TypeOK, SessionInv,
           AppointRelay \/ LeaveRelayToServer \/ \E k \in Keys : SettleChannel(k)
    PROVE  members' = members
<1>1. st' = st \/ \E k \in DOMAIN st : \E relay : st' = [st EXCEPT ![k].relay = relay]
  BY DEF AppointRelay, LeaveRelayToServer, SetRelay, SettleChannel, TypeOK
<1>2. /\ DOMAIN st' = DOMAIN st
      /\ \A q \in DOMAIN st : st'[q].users = st[q].users
  BY <1>1 DEF TypeOK, Channel
<1>3. NobodyNew
  BY AppointmentNobodyNew, SettleChannelNobodyNew
<1> QED  BY <1>2, <1>3, NobodyGone DEF Kept

\* A user that falls silent is still there.
LEMMA FallSilentKeeps ==
    ASSUME TypeOK, SessionInv, NEW k \in DOMAIN st, FallSilent(k)
    PROVE  members' = members
<1>1. PICK u \in st[k].users :
        st' = WithUsers(k, (st[k].users \ {u}) \cup {[u EXCEPT !.silent = TRUE]})
  BY DEF FallSilent
<1>2. Same([u EXCEPT !.silent = TRUE], u)
  BY DEF TypeOK, Channel, User, Same
<1>3. Kept((st[k].users \ {u}) \cup {[u EXCEPT !.silent = TRUE]}, st[k].users)
  BY <1>2, ReplacedIsKept
<1> QED  BY <1>1, <1>3, FallSilentNobodyNew, OneChannelNobodyGone

\* The cleanup gives up the channels the pass put down, with whoever has
\* joined them since.
LEMMA CleanupForgets ==
    ASSUME TypeOK, Cleanup
    PROVE  Abstract!Forget(toCleanup)
<1>1. st' = [k \in DOMAIN st \ toCleanup |-> st[k]] /\ issued' = issued
  BY DEF Cleanup
<1>2. \A k \in Keys : MembersOf(k)' = IF k \in toCleanup THEN {} ELSE MembersOf(k)
  BY <1>1 DEF MembersOf, IdentityOf
<1> QED  BY <1>1, <1>2 DEF Abstract!Forget, Abstract!Places, Keys

\* A join is an entry: the identity is fresh, the newcomer takes the place of
\* the older sessions of its name, and leaves the other channels.
LEMMA JoinEnters ==
    ASSUME TypeOK, SessionInv, NEW k \in Keys, NEW e \in Endpoints, NEW nat \in NatKinds,
           Join(k, e[1], e[2], nat)
    PROVE  \E i \in Abstract!Identities : Abstract!Enter(k, i)
<1> DEFINE sweep == Sweep(k, e[1], e[2])
<1>1. PICK ch \in IF k \in DOMAIN st THEN {st[k]} ELSE {NewChannel(c) : c \in FreshChannelIds} :
        LET added == AddUser(ch, e[1], e[2], nat)
            full  == [added EXCEPT !.relay = LoneUserRelay(added)]
        IN  /\ ch.next_peer_id < PeerIdLimit
            /\ st' = [q \in DOMAIN st \cup {k} |-> IF q = k THEN full ELSE sweep[q]]
            /\ issued' = issued \cup {[cid |-> ch.channel_id, pid |-> ch.next_peer_id,
                                       name |-> e[1], addr |-> e[2]]}
  BY DEF Join
<1> DEFINE new   == NewUser(ch.next_peer_id, e[1], e[2], nat)
           old   == RemoveOldSessions(ch.users, e[1], e[2])
           added == AddUser(ch, e[1], e[2], nat)
           full  == [added EXCEPT !.relay = LoneUserRelay(added)]
           id    == [cid |-> ch.channel_id, pid |-> ch.next_peer_id,
                     name |-> e[1], addr |-> e[2]]
<1>2. e[1] \in Names /\ e[2] \in Addrs
  BY EndpointsAssumption
<1>3. ch \in Channel
  BY DEF TypeOK, NewChannel, FreshChannelIds, Channel
<1>4. /\ full.channel_id = ch.channel_id
      /\ full.users = old \cup {new}
  BY <1>3 DEF AddUser, Channel
<1>5. new.peer_id = ch.next_peer_id /\ new.name = e[1] /\ new.addr = e[2]
  BY DEF NewUser
<1>6. \/ k \in DOMAIN st /\ ch = st[k]
      \/ k \notin DOMAIN st /\ ch.users = {} /\ \A i \in issued : i.cid # ch.channel_id
  BY <1>1 DEF NewChannel, FreshChannelIds
<1>7. old = {u \in ch.users : u.name # e[1]}
  <2>1. \A u \in ch.users : ~Session(u, e[1], e[2])
    BY <1>6 DEF Join
  <2> QED  BY <2>1 DEF RemoveOldSessions, Session
<1>8. \A i \in issued : ~(i.cid = id.cid /\ i.pid = id.pid)
  <2>1. ch.next_peer_id \in Nat /\ \A i \in issued : i.pid \in Nat
    BY <1>3 DEF Channel, TypeOK, Identity
  <2> QED  BY <1>6, <2>1 DEF SessionInv, IdentitiesSpent
<1>9. DOMAIN st' = DOMAIN st \cup {k} /\ st'[k] = full /\ issued' = issued \cup {id}
  BY <1>1
<1>10. ASSUME NEW q \in DOMAIN st, q # k
       PROVE  /\ st'[q].channel_id = st[q].channel_id
              /\ st'[q].users = IF q[1] = k[1] THEN RemoveSession(st[q].users, e[1], e[2])
                                ELSE st[q].users
  <2>1. st'[q] = sweep[q]
    BY <1>1, <1>10
  <2>2. sweep[q].channel_id = st[q].channel_id
    BY SweepFacts
  <2>3. sweep[q].users = IF q[1] = k[1] THEN RemoveSession(st[q].users, e[1], e[2])
                         ELSE st[q].users
    BY <1>10, SweepLeaves
  <2> HIDE DEF sweep
  <2> QED  BY <2>1, <2>2, <2>3
<1>11. id \in Abstract!Identities
  <2>1. ch.next_peer_id \in 1 .. PeerIdLimit /\ ch.channel_id \in ChannelIds
    BY <1>1, <1>3, PeerIdLimitAssumption DEF Channel
  <2> QED  BY <1>2, <2>1 DEF Abstract!Identities
<1> HIDE DEF sweep, new, old, added, full
<1>12. MembersOf(k)' = {j \in MembersOf(k) : j.name # id.name} \cup {id}
  <2>1. MembersOf(k)' = {IdentityOf(full, u) : u \in old \cup {new}}
    <3>1. k \in DOMAIN st' /\ st'[k].users = old \cup {new} /\ st'[k].channel_id = full.channel_id
      BY <1>4, <1>9
    <3> QED  BY <3>1 DEF MembersOf, IdentityOf
  <2>2. \A u : IdentityOf(full, u) = IdentityOf(ch, u)
    BY <1>4 DEF IdentityOf
  <2>3. IdentityOf(ch, new) = id
    BY <1>5 DEF IdentityOf
  <2>4. MembersOf(k) = {IdentityOf(ch, u) : u \in ch.users}
    BY <1>6 DEF MembersOf, IdentityOf
  <2>5. \A u : IdentityOf(ch, u).name = u.name
    BY DEF IdentityOf
  <2>6. {IdentityOf(ch, u) : u \in old} = {j \in MembersOf(k) : j.name # id.name}
    BY <1>7, <2>4, <2>5
  <2> QED  BY <2>1, <2>2, <2>3, <2>6
<1>13. ASSUME NEW q \in Keys, q # k
       PROVE  MembersOf(q)' = IF q[1] = k[1]
                THEN {j \in MembersOf(q) : ~(j.name = id.name /\ j.addr = id.addr)}
                ELSE MembersOf(q)
  <2>1. CASE q \in DOMAIN st
    <3>1. /\ q \in DOMAIN st' /\ st'[q].channel_id = st[q].channel_id
          /\ st'[q].users = IF q[1] = k[1] THEN RemoveSession(st[q].users, e[1], e[2])
                            ELSE st[q].users
      BY <1>9, <1>10, <1>13, <2>1
    <3>2. MembersOf(q)' = {IdentityOf(st[q], u) : u \in st'[q].users}
      BY <3>1 DEF MembersOf, IdentityOf
    <3>3. MembersOf(q) = {IdentityOf(st[q], u) : u \in st[q].users}
      BY <2>1 DEF MembersOf
    <3>4. \A u : Session(u, e[1], e[2])
                   <=> IdentityOf(st[q], u).name = id.name /\ IdentityOf(st[q], u).addr = id.addr
      BY DEF IdentityOf, Session
    <3> HIDE DEF id
    <3> QED  BY <3>1, <3>2, <3>3, <3>4 DEF RemoveSession
  <2>2. CASE q \notin DOMAIN st
    BY <1>9, <1>13, <2>2 DEF MembersOf
  <2> QED  BY <2>1, <2>2
<1> HIDE DEF id
<1>14. Abstract!Enter(k, id)
  BY <1>8, <1>9, <1>12, <1>13 DEF Abstract!Enter, Abstract!Places, Keys
<1> QED  BY <1>11, <1>14

----------------------------------------------------------------------------
(* The refinement *)

\* Every step of the server is a step of Membership, or none.
LEMMA MembershipNext ==
    ASSUME TypeOK, SessionInv, [Next]_vars
    PROVE  Abstract!Next \/ (members' = members /\ issued' = issued)
<1>1. ASSUME NEW e \in Endpoints, HandleMessage(e[1], e[2])
      PROVE  Abstract!Next \/ (members' = members /\ issued' = issued)
  <2> e[1] \in Names
    BY EndpointsAssumption
  <2>1. ASSUME NEW k \in Keys, Reconnect(k, e[1], e[2])
        PROVE  Abstract!Next
    BY <2>1, ReconnectLeaves DEF Abstract!Next, Abstract!Places, Keys
  <2>2. ASSUME NEW k \in Keys, NEW nat \in NatKinds, Join(k, e[1], e[2], nat)
        PROVE  Abstract!Next
    BY <2>2, JoinEnters DEF Abstract!Next, Abstract!Places, Keys
  <2>3. ASSUME NEW k \in Keys, Disconnect(k, e[1], e[2])
        PROVE  Abstract!Next \/ (members' = members /\ issued' = issued)
    <3>1. {k} \in SUBSET Abstract!Places
      BY DEF Abstract!Places, Keys
    <3> QED  BY <2>3, <3>1, DisconnectLeaves DEF Abstract!Next, Disconnect
  <2>4. ASSUME NEW k \in Keys, Heartbeat(k, e[1], e[2])
        PROVE  members' = members /\ issued' = issued
    BY <2>4, HeartbeatKeeps DEF Heartbeat
  <2>5. ASSUME Pong(e[2])
        PROVE  members' = members /\ issued' = issued
    BY <2>5, PongKeeps DEF Pong
  <2>6. ASSUME NatProbe(e[2]) \/ \E sender \in Names : ForwardData(e[2], sender)
        PROVE  members' = members /\ issued' = issued
    BY <2>6 DEF NatProbe, ForwardData, members, MembersOf, IdentityOf
  <2> QED  BY <1>1, <2>1, <2>2, <2>3, <2>4, <2>5, <2>6 DEF HandleMessage
<1>2. ASSUME NEW k \in Keys, NEW name \in Names, PeerTimeout(k, name)
      PROVE  Abstract!Next
  <2>1. {k} \in SUBSET Abstract!Places
    BY DEF Abstract!Places, Keys
  <2> QED  BY <1>2, <2>1, PeerTimeoutLeaves DEF Abstract!Next
<1>3. ASSUME NEW k \in Keys, NEW name \in Names, RequestRelay(k, name)
      PROVE  members' = members /\ issued' = issued
  BY <1>3, RequestRelayKeeps DEF RequestRelay
<1>4. ASSUME NEW k \in Keys, ExpireUser(k)
      PROVE  Abstract!Next
  <2>1. {k} \in SUBSET Abstract!Places
    BY DEF Abstract!Places, Keys
  <2> QED  BY <1>4, <2>1, ExpireUserLeaves DEF Abstract!Next
<1>5. ASSUME AppointRelay \/ LeaveRelayToServer \/ \E k \in Keys : SettleChannel(k)
      PROVE  members' = members /\ issued' = issued
  BY <1>5, AppointmentKeeps DEF AppointRelay, LeaveRelayToServer, SettleChannel
<1>6. ASSUME NEW k \in DOMAIN st, FallSilent(k)
      PROVE  members' = members /\ issued' = issued
  BY <1>6, FallSilentKeeps DEF FallSilent
<1>7. ASSUME Cleanup
      PROVE  Abstract!Next
  <2>1. toCleanup \in SUBSET Abstract!Places
    BY DEF TypeOK, Abstract!Places, Keys
  <2> QED  BY <1>7, <2>1, CleanupForgets DEF Abstract!Next
<1>8. ASSUME Tick \/ SendNotes \/ UNCHANGED vars
      PROVE  members' = members /\ issued' = issued
  BY <1>8 DEF Tick, SendNotes, vars, members, MembersOf, IdentityOf
<1> QED  BY <1>1, <1>2, <1>3, <1>4, <1>5, <1>6, <1>7, <1>8 DEF Next, MainStep, HeartbeatStep

\* Nobody is a member of anything at first.
LEMMA MembershipInit == Init => Abstract!Init
BY DEF Init, Abstract!Init, Abstract!Places, Keys, MembersOf

\* The signalling server implements Membership.
THEOREM MembershipImplemented == Spec => ImplementsMembership
<1>1. Init => Abstract!Init
  BY MembershipInit
<1>2. TypeOK /\ SessionInv /\ [Next]_vars => [Abstract!Next]_(Abstract!vars)
  BY MembershipNext DEF Abstract!vars, members
<1> QED  BY <1>1, <1>2, TypeCorrect, SessionsCorrect, PTL
            DEF Spec, SafetySpec, ImplementsMembership, Abstract!Spec
=============================================================================
