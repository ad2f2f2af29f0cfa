--------------------------- MODULE ServerProperties ---------------------------
(***************************************************************************)
(* What the signalling server guarantees.                                  *)
(***************************************************************************)
EXTENDS SignalingServer

\* The packets the server sends.
Packet ==
    [to : Addrs, type : {"WELCOME"}, cid : ChannelIds, pid : Nat \ {0}]
      \cup [to : Addrs, type : {"MODE RELAY", "PING", "NAT_SEEN"}]
      \cup [to : Addrs, type : {"MODE SERVER_RELAY", "DATA"}, name : Names]
      \cup [to : Addrs, type : {"MODE DIRECT"}, name : Names, addr : Addrs]
      \cup [to : Addrs, type : {"USER_LEFT"}, name : Names, addr : Addrs \cup {None}]

\* The types of the server's state.
TypeOK ==
    /\ DOMAIN st \subseteq Keys
    /\ st \in [DOMAIN st -> Channel]
    /\ lock \in {"free", "main", "heartbeat"}
    /\ main \in {"recv", "notify", "remaining"}
    /\ notifyKey \in Keys \cup {None}
    /\ snapshot \subseteq User
    /\ hb \in {"tick", "collect", "cleanup"}
    /\ unvisited \subseteq DOMAIN st
    /\ toCleanup \subseteq Keys
    /\ notes \subseteq Packet
    /\ out \subseteq Packet
    /\ issued \subseteq Identity

\* Where the two tasks are and what they hold go together: the heartbeat task
\* holds the mutex exactly during a pass, the main task only once it has
\* locked itself out, and neither leaves anything of its work behind.
Control ==
    /\ (lock = "heartbeat") = (hb = "collect")
    /\ (lock = "main") = (main = "remaining")
    /\ hb # "collect" => unvisited = {} /\ notes = {}
    /\ hb = "tick" => toCleanup = {}
    /\ (notifyKey # None) = (main = "notify")
    /\ main # "notify" => snapshot = {}

----------------------------------------------------------------------------
(* Sessions *)

\* A channel never has two users of one name: every lookup the handlers make
\* by name (the relay, PEER_TIMEOUT, REQUEST_RELAY) has one answer.  It
\* rests on add_new_user dropping the name's older sessions.
NamesUnique ==
    \A k \in DOMAIN st : \A u, v \in st[k].users : u.name = v.name => u = v

\* A session is in at most one channel of a server id, however it moved
\* between them (remove_user_from_other_channels).
OneChannelPerServer ==
    \A k, q \in DOMAIN st : \A u \in st[k].users, v \in st[q].users :
        k[1] = q[1] /\ Session(u, v.name, v.addr) => k = q

\* The pair (channel id, peer id) a WELCOME hands out belongs to one session
\* for good: no later join gets it, not even in a channel that was removed
\* and created again, whose peer ids start over.
IdentityUnique ==
    \A i, j \in issued : i.cid = j.cid /\ i.pid = j.pid => i = j

\* Peer ids within a channel are distinct, below the counter, and are those
\* the users were WELCOMEd with; the order of the users is their order.
PeerIdsFromWelcome ==
    \A k \in DOMAIN st : \A u \in st[k].users :
        /\ u.peer_id < st[k].next_peer_id
        /\ [cid |-> st[k].channel_id, pid |-> u.peer_id,
            name |-> u.name, addr |-> u.addr] \in issued
        /\ \A v \in st[k].users : v.peer_id = u.peer_id => v = u

\* What keeps identities unique: every peer id a channel has handed out is
\* below its counter, and no two channels have one id.
IdentitiesSpent ==
    /\ \A i \in issued, k \in DOMAIN st :
         i.cid = st[k].channel_id => i.pid < st[k].next_peer_id
    /\ \A k, q \in DOMAIN st : st[k].channel_id = st[q].channel_id => k = q

----------------------------------------------------------------------------
(* The relay *)

\* The two copies of pick_eligible_relay, which test different fields
\* (notifications.rs:8, heartbeat.rs:14), agree on every channel.
EligibilityAgrees ==
    \A k \in DOMAIN st :
        EligibleUsers(st[k].users) = HeartbeatEligibleUsers(st[k].users)

\* The relay on record, if it is an eligible member, is the one that has been
\* in the channel longest of all eligible members.
Senior(ch) ==
    \A u \in EligibleUsers(ch.users) :
        u.name = ch.relay => \A v \in EligibleUsers(ch.users) : u.peer_id <= v.peer_id

\* The role of relay is not passed around: no join takes it from an eligible
\* relay, though each one appoints the relay anew, from a snapshot.  The
\* channel whose join is still being announced is the exception.
RelayIsSenior == \A k \in DOMAIN st \ {notifyKey} : Senior(st[k])

\* What the snapshot of a join is good for: names are unique in it, and who
\* is in the channel is in the snapshot, as it was there.
SnapshotCovers ==
    main = "notify" =>
        /\ \A w, y \in snapshot : w.name = y.name => w = y
        /\ notifyKey \in DOMAIN st =>
             \A u \in st[notifyKey].users : \E w \in snapshot : w = [u EXCEPT !.silent = w.silent]

RelayPresent(ch) == ch.relay # None => RelayUser(ch) # {}

\* Timing users out never leaves a channel with a relay that is not a
\* member, whatever the number and order of the users a pass removes.
HeartbeatKeepsRelayPresent ==
    [][HeartbeatStep =>
         \A k \in DOMAIN st \cap DOMAIN st' :
            RelayPresent(st[k]) => RelayPresent(st'[k])]_vars

\* A channel a pass has no more to do for: no silent user stays, an empty
\* channel is put down for removal, and a user left alone is the relay exactly
\* when it is not server-relayed.
Settled(k) ==
    /\ \A u \in st[k].users : ~u.silent
    /\ st[k].users = {} => k \in toCleanup
    /\ \A u \in st[k].users :
         st[k].users = {u} =>
            (st[k].relay = IF u.needs_server_relay THEN None ELSE u.name)

\* A pass settles every channel, whatever REQUEST_RELAY, PEER_TIMEOUT and
\* moves to other channels did to it since the last one.
PassSettles == hb = "collect" => \A k \in DOMAIN st \ unvisited : Settled(k)

----------------------------------------------------------------------------
(* Traffic *)

\* With one server id and no address shared by two names, DATA a
\* server-relayed member sends, or the relay mirrors, reaches every other
\* server-relayed member of that channel and of no other.
ServerRelayedHear ==
    [][\A src \in Addrs, sender \in Names : ForwardData(src, sender) =>
         \A k \in DOMAIN st :
            /\ CarriesData(st[k], src, sender)
            /\ \E u \in st[k].users :
                 u.addr = src /\ (u.name = st[k].relay \/ u.needs_server_relay)
            => \A v \in st[k].users :
                 v.needs_server_relay /\ v.name # sender /\ v.addr # src
                    => Data(v.addr, sender) \in out']_vars

----------------------------------------------------------------------------
(* Liveness *)

\* Every join is announced in the end and the main task reads the next
\* datagram: the heartbeat cannot keep the mutex from it.
ReturnsToListening == (main # "recv") ~> (main = "recv")

\* A user that stays silent is dropped from its channel.
SilentUserDropped ==
    \A k \in Keys, e \in Endpoints :
        (k \in DOMAIN st /\ \E u \in st[k].users : Session(u, e[1], e[2]) /\ u.silent)
          ~> ~(k \in DOMAIN st /\ \E u \in st[k].users : Session(u, e[1], e[2]) /\ u.silent)

\* A channel that is empty and stays so is removed from the map.
EmptyChannelReclaimed ==
    \A k \in Keys : (k \in DOMAIN st /\ st[k].users = {})
                      ~> ~(k \in DOMAIN st /\ st[k].users = {})
=============================================================================
