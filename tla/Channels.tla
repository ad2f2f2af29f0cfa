------------------------------ MODULE Channels ------------------------------
(***************************************************************************)
(* The data of the signalling server: users, channels, the pure functions  *)
(* its handlers apply to a channel, and what a channel is told             *)
(* (src/src/signaling/structures.rs, handlers/utils.rs and the message     *)
(* builders of handlers/notifications.rs and heartbeat.rs).                *)
(*                                                                         *)
(* A channel's Vec<User> is a set of users here.  The vector only grows at *)
(* its end, with the next peer id, and only shrinks by removals that keep  *)
(* the order, so vector order is peer-id order and "the first user that    *)
(* ..." is the one with the least peer id.                                 *)
(***************************************************************************)
EXTENDS Protocol

CONSTANTS
    ServerIds,      \* the <server_id> tokens clients use
    ChannelNames,   \* the <channel> tokens clients use
    NatKinds,       \* the NAT kinds clients report in CONNECT
    ChannelIds      \* the non-zero 64-bit numbers generate_channel_id draws

ASSUME NatKindsAssumption ==
    NatKinds \subseteq {"Unknown", "Public", "Cone", "Symmetric"}

ASSUME NoneAssumption ==
    None \notin Names \cup Addrs \cup (ServerIds \X ChannelNames)

\* ServerMap is keyed by server id, then by channel name.
Keys == ServerIds \X ChannelNames

\* silent stands for last_pong.elapsed() > 40 s, the only thing the server
\* ever asks of last_pong.
User == [ peer_id            : Nat \ {0},
          name               : Names,
          addr               : Addrs,
          silent             : BOOLEAN,
          needs_server_relay : BOOLEAN,
          nat_kind           : NatKinds ]

Channel == [ channel_id   : ChannelIds,
             next_peer_id : Nat \ {0},
             users        : SUBSET User,
             relay        : Names \cup {None} ]

----------------------------------------------------------------------------
(* Users *)

NewUserOpenNat(pid, name, addr, nat) ==        \* mutant of NewUser
    [ peer_id |-> pid, name |-> name, addr |-> addr, silent |-> FALSE,
      needs_server_relay |-> FALSE, nat_kind |-> nat ]

NewUser(pid, name, addr, nat) ==
    [ peer_id |-> pid, name |-> name, addr |-> addr, silent |-> FALSE,
      needs_server_relay |-> (nat = "Symmetric"), nat_kind |-> nat ]

\* A session is a user name bound to the address it was seen from.
Session(u, name, addr) == u.name = name /\ u.addr = addr

First(users) == CHOOSE u \in users : \A v \in users : u.peer_id <= v.peer_id

Lone(users) == \E u \in users : users = {u}

Refresh(users, u) == (users \ {u}) \cup {[u EXCEPT !.silent = FALSE]}

\* The two copies of pick_eligible_relay use different tests.
Eligible(u) == ~u.needs_server_relay /\ u.nat_kind # "Symmetric"
HeartbeatEligible(u) == ~u.needs_server_relay

EligibleUsers(users) == {u \in users : Eligible(u)}
HeartbeatEligibleUsers(users) == {u \in users : HeartbeatEligible(u)}

----------------------------------------------------------------------------
(* Channels *)

NewChannelFromZero(cid) ==                     \* mutant of NewChannel
    [channel_id |-> cid, next_peer_id |-> 0, users |-> {}, relay |-> None]

NewChannel(cid) ==
    [channel_id |-> cid, next_peer_id |-> 1, users |-> {}, relay |-> None]

RemoveSession(users, name, addr) == {u \in users : ~Session(u, name, addr)}

RemoveNoOldSession(users, name, addr) == users \* mutant of RemoveOldSessions

RemoveOldSessions(users, name, addr) ==
    {u \in users : ~(u.name = name /\ u.addr # addr)}

\* The relay after handle_lone_user_scenario, which acts only on a channel
\* that has one user and no relay on record.
LoneUserRelay(ch) ==
    IF ch.relay = None /\ Lone(ch.users) /\ First(ch.users).nat_kind # "Symmetric"
    THEN First(ch.users).name
    ELSE ch.relay

AddUserKeepCounter(ch, name, addr, nat) ==     \* mutant of AddUser
    [ch EXCEPT !.users = RemoveOldSessions(@, name, addr)
                           \cup {NewUser(ch.next_peer_id, name, addr, nat)}]

\* add_new_user up to, and without, handle_lone_user_scenario.
AddUser(ch, name, addr, nat) ==
    [ch EXCEPT !.users = RemoveOldSessions(@, name, addr)
                           \cup {NewUser(ch.next_peer_id, name, addr, nat)},
               !.next_peer_id = @ + 1]

\* The relay once a user has gone (update_relay_after_departure): whoever is
\* first among those left, eligible or not.
RelayAfterDeparture(ch, left, was_relay) ==
    IF ~was_relay THEN ch.relay
    ELSE IF left = {} THEN None
    ELSE First(left).name

----------------------------------------------------------------------------
(* What a channel is told *)

\* The MODE packet a user alone in its channel gets, if it gets one.
LoneUserNotices(ch) ==
    IF ch.relay # None \/ ~Lone(ch.users) THEN {}
    ELSE LET u == First(ch.users)
         IN  IF u.nat_kind = "Symmetric"
             THEN {ModeServerRelay(u.addr, u.name)}
             ELSE {ModeRelay(u.addr)}

\* "The server relays for u", for every user u, to every user.
ServerRelayNotices(users) ==
    {ModeServerRelay(p[1].addr, p[2].name) : p \in users \X users}

IntroduceRelayOnly(r, peers) ==                \* mutant of Introductions
    {ModeDirect(p.addr, r.name, r.addr) : p \in peers}

\* Introduce relay r and the given peers to each other.
Introductions(r, peers) ==
    {ModeDirect(r.addr, p.name, p.addr) : p \in peers}
      \cup {ModeDirect(p.addr, r.name, r.addr) : p \in peers}

\* What a join tells the channel: the relay and its direct peers about each
\* other, the relay that it is one when that is news, and the relay and each
\* server-relayed user that the server carries that user's traffic.
JoinNotices(users, r, changed) ==
    LET others == {u \in users : u.name # r.name}
        served == {u \in others : u.needs_server_relay}
    IN  Introductions(r, others \ served)
          \cup (IF changed THEN {ModeRelay(r.addr)} ELSE {})
          \cup {ModeServerRelay(s.addr, s.name) : s \in served}
          \cup {ModeServerRelay(r.addr, s.name) : s \in served}
=============================================================================
