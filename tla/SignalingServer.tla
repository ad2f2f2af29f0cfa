--------------------------- MODULE SignalingServer ---------------------------
(***************************************************************************)
(* The signalling server (src/src/signaling, src/src/bin/                  *)
(* signaling_server.rs): one ServerMap behind one tokio mutex, and two     *)
(* tasks that lock it.                                                     *)
(*                                                                         *)
(*   - the main task reads one datagram after the other and awaits its     *)
(*     handler; most handlers are one critical section, CONNECT is two     *)
(*     with the mutex free between them;                                   *)
(*   - the heartbeat task runs every 20 s: a pass over every channel under *)
(*     the mutex, the packets of the pass without it, then a second        *)
(*     critical section that removes the channels the pass found empty.    *)
(*                                                                         *)
(* One critical section is one action, except the heartbeat pass (one      *)
(* action per loop iteration, the mutex held across them).                 *)
(***************************************************************************)
EXTENDS Channels

CONSTANTS
    Endpoints,      \* the <<name, addr>> pairs client processes run as
    Commands,       \* the commands the clients of this deployment send
    PeerIdLimit     \* u32::MAX: next_peer_id is not incremented beyond it

ASSUME EndpointsAssumption == Endpoints \subseteq Names \X Addrs
ASSUME CommandsAssumption ==
    Commands \subseteq {"CONNECT", "DISCONNECT", "HB", "PONG", "PEER_TIMEOUT",
                        "REQUEST_RELAY", "DATA", "NAT_PROBE"}
ASSUME PeerIdLimitAssumption == PeerIdLimit \in Nat

VARIABLES
    st,         \* ServerMap: the channels that exist
    lock,       \* the task that holds the mutex, or "free"
    main,       \* where the main task is: "recv", "notify" or "remaining"
    notifyKey,  \* handle_connect_notifications: the channel joined
    snapshot,   \* users_to_notify: its users when the mutex was released
    hb,         \* where the heartbeat task is: "tick", "collect" or "cleanup"
    unvisited,  \* collect_heartbeat_data: the channels the pass has not done
    toCleanup,  \* the channels the pass found empty
    notes,      \* the packets the pass has collected
    out,        \* the packets sent by the last step
    issued      \* history: the identities sent in WELCOME packets

mainVars == <<main, notifyKey, snapshot>>
hbVars == <<hb, unvisited, toCleanup, notes>>
vars == <<st, lock, mainVars, hbVars, out, issued>>

Identity == [cid : ChannelIds, pid : Nat \ {0}, name : Names, addr : Addrs]

Init ==
    /\ st = [k \in {} |-> NewChannel(CHOOSE c \in ChannelIds : TRUE)]
    /\ lock = "free"
    /\ main = "recv" /\ notifyKey = None /\ snapshot = {}
    /\ hb = "tick" /\ unvisited = {} /\ toCleanup = {} /\ notes = {}
    /\ out = {}
    /\ issued = {}

----------------------------------------------------------------------------
(* The main task.  It takes a datagram only in "recv", and every handler   *)
(* begins by locking the map.                                              *)

\* mutant of Serve: a task per datagram, no waiting for the handler before
ServeAnytime(cmd) == cmd \in Commands /\ lock = "free"

Serve(cmd) == cmd \in Commands /\ main = "recv" /\ lock = "free"

\* The map with a user replaced set of users in channel k.
WithUsers(k, users) == [st EXCEPT ![k].users = users]

SweepAll(k, name, addr) == st                       \* mutant of Sweep

\* remove_user_from_other_channels: a session that connects to k is dropped
\* from the other channels of the same server.  Their relay is left alone.
Sweep(k, name, addr) ==
    [q \in DOMAIN st |->
        IF q # k /\ q[1] = k[1]
        THEN [st[q] EXCEPT !.users = RemoveSession(@, name, addr)]
        ELSE st[q]]

AnyChannelIds == {c \in ChannelIds : TRUE}          \* mutant of FreshChannelIds

\* generate_channel_id draws 64 random bits: a number no channel has had.
FreshChannelIds == {c \in ChannelIds :
                      /\ \A k \in DOMAIN st : st[k].channel_id # c
                      /\ \A i \in issued : i.cid # c}

\* CONNECT of a session the channel already has (update_existing_user).
Reconnect(k, name, addr) ==
    /\ Serve("CONNECT")
    /\ k \in DOMAIN st
    /\ \E u \in st[k].users :
         /\ Session(u, name, addr)
         /\ st' = [Sweep(k, name, addr) EXCEPT ![k].users = Refresh(@, u)]
         /\ issued' = issued \cup {[cid |-> st[k].channel_id, pid |-> u.peer_id,
                                    name |-> name, addr |-> addr]}
         /\ out' = {Welcome(addr, st[k].channel_id, u.peer_id)}
    /\ UNCHANGED <<lock, mainVars, hbVars>>

\* CONNECT of a new session: the channel is created if need be, older
\* sessions of the name are dropped, the user is appended and WELCOMEd.  A
\* user with company is announced later, from a snapshot of the channel; a
\* user alone hears at most LoneUserNotices (handle_single_user_scenario
\* has nobody but the user itself to address, and skips it).
Join(k, name, addr, nat) ==
    /\ Serve("CONNECT")
    /\ k \in DOMAIN st => ~ \E u \in st[k].users : Session(u, name, addr)
    /\ \E ch \in IF k \in DOMAIN st THEN {st[k]} ELSE {NewChannel(c) : c \in FreshChannelIds} :
         LET pid   == ch.next_peer_id
             added == AddUser(ch, name, addr, nat)
             full  == [added EXCEPT !.relay = LoneUserRelay(added)]
         IN  /\ pid < PeerIdLimit
             /\ st' = [q \in DOMAIN st \cup {k} |->
                         IF q = k THEN full ELSE Sweep(k, name, addr)[q]]
             /\ issued' = issued \cup {[cid |-> ch.channel_id, pid |-> pid,
                                        name |-> name, addr |-> addr]}
             /\ out' = {Welcome(addr, ch.channel_id, pid)} \cup LoneUserNotices(added)
             /\ IF Lone(full.users)
                THEN UNCHANGED mainVars
                ELSE main' = "notify" /\ notifyKey' = k /\ snapshot' = full.users
    /\ UNCHANGED <<lock, hbVars>>

BackToRecv == main' = "recv" /\ notifyKey' = None /\ snapshot' = {}

\* The role of relay goes to r, in a channel that may have changed or gone
\* since r was picked.
SetRelay(k, r) == IF k \in DOMAIN st THEN [st EXCEPT ![k].relay = r] ELSE st

LastOf(users) == CHOOSE u \in users : \A v \in users : u.peer_id >= v.peer_id
LatestEligible(users) == LastOf(EligibleUsers(users))   \* mutant of PickEligible
PickEligible(users) == First(EligibleUsers(users))

\* handle_multiple_users_scenario, with a relay to appoint.
AppointRelay ==
    /\ main = "notify" /\ lock = "free"
    /\ EligibleUsers(snapshot) # {}
    /\ LET r       == PickEligible(snapshot)
           changed == notifyKey \in DOMAIN st /\ st[notifyKey].relay # r.name
       IN  /\ st' = SetRelay(notifyKey, r.name)
           /\ out' = JoinNotices(snapshot, r, changed)
    /\ BackToRecv
    /\ UNCHANGED <<lock, hbVars, issued>>

\* handle_multiple_users_scenario, with nobody eligible.
LeaveRelayToServer ==
    /\ main = "notify" /\ lock = "free"
    /\ EligibleUsers(snapshot) = {}
    /\ st' = SetRelay(notifyKey, None)
    /\ out' = ServerRelayNotices(snapshot)
    /\ BackToRecv
    /\ UNCHANGED <<lock, hbVars, issued>>

\* DISCONNECT: handle_user_removal locks the map, removes the session if it
\* is there, and then, the guard still alive, calls get_remaining_users,
\* which locks the same mutex.  The task waits for itself in "remaining"
\* and nothing after that point is ever reached.
Disconnect(k, name, addr) ==
    /\ Serve("DISCONNECT")
    /\ st' = IF k \in DOMAIN st /\ \E u \in st[k].users : Session(u, name, addr)
             THEN LET left == RemoveSession(st[k].users, name, addr)
                  IN  [st EXCEPT ![k].users = left,
                                 ![k].relay = RelayAfterDeparture(st[k], left, @ = name)]
             ELSE st
    /\ lock' = "main"
    /\ main' = "remaining"
    /\ out' = {}
    /\ UNCHANGED <<notifyKey, snapshot, hbVars, issued>>

\* PEER_TIMEOUT: the name is removed whoever reports it; the relay on
\* record changes only when one user is left.
PeerTimeout(k, name) ==
    /\ Serve("PEER_TIMEOUT")
    /\ k \in DOMAIN st
    /\ LET left == {u \in st[k].users : u.name # name}
       IN  /\ st' = [st EXCEPT ![k].users = left,
                               ![k].relay = IF Lone(left) THEN First(left).name ELSE @]
           /\ out' = {UserLeft(u.addr, name, None) : u \in left}
    /\ UNCHANGED <<lock, mainVars, hbVars, issued>>

\* REQUEST_RELAY: the user, if it is there, is server-relayed from now on,
\* and everyone is told so, whether it is there or not.
RequestRelay(k, name) ==
    /\ Serve("REQUEST_RELAY")
    /\ k \in DOMAIN st
    /\ st' = WithUsers(k, {IF u.name = name THEN [u EXCEPT !.needs_server_relay = TRUE] ELSE u :
                             u \in st[k].users})
    /\ out' = {ModeServerRelay(u.addr, name) : u \in st[k].users}
    /\ UNCHANGED <<lock, mainVars, hbVars, issued>>

\* HB refreshes one session.
Heartbeat(k, name, addr) ==
    /\ Serve("HB")
    /\ k \in DOMAIN st
    /\ \E u \in st[k].users :
         /\ Session(u, name, addr)
         /\ st' = WithUsers(k, Refresh(st[k].users, u))
    /\ out' = {}
    /\ UNCHANGED <<lock, mainVars, hbVars, issued>>

\* PONG refreshes the first user at that address in every channel.
Pong(addr) ==
    /\ Serve("PONG")
    /\ st' = [k \in DOMAIN st |->
                LET here == {u \in st[k].users : u.addr = addr}
                IN  IF here = {} THEN st[k]
                    ELSE [st[k] EXCEPT !.users = Refresh(@, First(here))]]
    /\ out' = {}
    /\ UNCHANGED <<lock, mainVars, hbVars, issued>>

\* NAT_PROBE echoes the address it came from; it does not touch the map.
NatProbe(addr) ==
    /\ "NAT_PROBE" \in Commands /\ main = "recv"
    /\ out' = {NatSeen(addr)}
    /\ UNCHANGED <<st, lock, mainVars, hbVars, issued>>

RelayUser(ch) == {u \in ch.users : u.name = ch.relay}

\* handle_data_from_client takes the first channel, in hash-map order, where
\* the packet comes from the relay's address or from a session named sender.
CarriesData(ch, src, sender) ==
    \/ \E r \in RelayUser(ch) : r.addr = src
    \/ \E u \in ch.users : Session(u, sender, src)

ServedPeersOnce(ch, sender) ==                      \* mutant of ServedPeers
    LET served == {u \in ch.users : u.name # sender /\ u.needs_server_relay}
    IN  IF served = {} THEN {} ELSE {First(served)}

ServedPeers(ch, sender) ==
    {u \in ch.users : u.name # sender /\ u.needs_server_relay}

\* Whom the server forwards it to: what comes from the relay goes to the
\* server-relayed users, what comes from a server-relayed user goes to
\* everyone else, what comes from any other user goes to the relay.
DataReceivers(ch, src, sender) ==
    IF ch.relay = sender \/ \E r \in RelayUser(ch) : r.addr = src
    THEN ServedPeers(ch, sender)
    ELSE IF \E u \in ch.users : Session(u, sender, src) /\ u.needs_server_relay
    THEN {u \in ch.users : u.addr # src}
    ELSE {r \in RelayUser(ch) : r.addr # src}

\* DATA from address src that names sender as its author.
ForwardData(src, sender) ==
    /\ Serve("DATA")
    /\ \E k \in DOMAIN st :
         /\ CarriesData(st[k], src, sender)
         /\ out' = {Data(u.addr, sender) : u \in DataReceivers(st[k], src, sender)}
    /\ UNCHANGED <<st, lock, mainVars, hbVars, issued>>

----------------------------------------------------------------------------
(* The heartbeat task *)

\* The interval fires and collect_heartbeat_data takes the mutex.
Tick ==
    /\ hb = "tick" /\ lock = "free"
    /\ hb' = "collect" /\ lock' = "heartbeat"
    /\ unvisited' = DOMAIN st
    /\ out' = {}
    /\ UNCHANGED <<st, mainVars, toCleanup, notes, issued>>

SilentInCompany(users) ==                           \* mutant of Silent
    IF Lone(users) THEN {} ELSE {u \in users : u.silent}

Silent(users) == {u \in users : u.silent}

\* mutant of RelayAfterTimeout: the successor is picked before u is removed
RelayBeforeTimeout(ch, u, left) ==
    IF ch.relay = u.name
    THEN IF HeartbeatEligibleUsers(ch.users) = {} THEN None
         ELSE First(HeartbeatEligibleUsers(ch.users)).name
    ELSE IF Lone(left) THEN First(left).name
    ELSE ch.relay

\* The relay of ch once u has timed out and left is what remains: its
\* successor when u was the relay, a user left alone otherwise.
RelayAfterTimeout(ch, u, left) ==
    IF ch.relay = u.name
    THEN IF HeartbeatEligibleUsers(left) = {} THEN None
         ELSE First(HeartbeatEligibleUsers(left)).name
    ELSE IF Lone(left) THEN First(left).name
    ELSE ch.relay

\* The packets that go with it (handle_timed_out_user, handle_relay_timeout).
TimeoutNotices(ch, u, left) ==
    LET heirs == HeartbeatEligibleUsers(left)
        r     == First(heirs)
    IN  {UserLeft(p.addr, u.name, u.addr) : p \in {q \in ch.users : q.addr # u.addr}}
          \cup IF ch.relay = u.name
               THEN IF heirs = {} THEN ServerRelayNotices(left)
                    ELSE {ModeRelay(r.addr)}
                           \cup Introductions(r, {p \in left : p.name # r.name})
               ELSE {ModeRelay(p.addr) : p \in IF Lone(left) THEN left ELSE {}}

\* One removal of the loop of process_channel_heartbeat.
ExpireUser(k) ==
    /\ hb = "collect" /\ k \in unvisited
    /\ Silent(st[k].users) # {}
    /\ LET u    == First(Silent(st[k].users))
           left == st[k].users \ {u}
       IN  /\ st' = [st EXCEPT ![k].users = left,
                               ![k].relay = RelayAfterTimeout(st[k], u, left)]
           /\ notes' = notes \cup TimeoutNotices(st[k], u, left)
    /\ out' = {}
    /\ UNCHANGED <<lock, mainVars, hb, unvisited, toCleanup, issued>>

FindNoEmpty(k) == toCleanup                         \* mutant of FindEmpty
FindEmpty(k) == IF st[k].users = {} THEN toCleanup \cup {k} ELSE toCleanup

\* The rest of process_channel_heartbeat: a lone user is the relay if it can
\* be, and is pinged (the only users the server pings); an empty channel is
\* put down for removal.
SettleChannel(k) ==
    /\ hb = "collect" /\ k \in unvisited
    /\ Silent(st[k].users) = {}
    /\ IF Lone(st[k].users)
       THEN LET u == First(st[k].users)
            IN  IF HeartbeatEligible(u)
                THEN /\ st' = [st EXCEPT ![k].relay = u.name]
                     /\ notes' = notes \cup {Ping(u.addr)}
                ELSE /\ st' = [st EXCEPT ![k].relay = None]
                     /\ notes' = notes \cup {ModeServerRelay(u.addr, u.name)}
       ELSE UNCHANGED <<st, notes>>
    /\ toCleanup' = FindEmpty(k)
    /\ unvisited' = unvisited \ {k}
    /\ out' = {}
    /\ UNCHANGED <<lock, mainVars, hb, issued>>

KeepLock == lock' = lock                            \* mutant of ReleaseLock
ReleaseLock == lock' = "free"

\* The pass is over: the mutex is released, then the packets are sent.
SendNotes ==
    /\ hb = "collect" /\ unvisited = {}
    /\ ReleaseLock
    /\ hb' = IF toCleanup = {} THEN "tick" ELSE "cleanup"
    /\ out' = notes
    /\ notes' = {}
    /\ UNCHANGED <<st, mainVars, unvisited, toCleanup, issued>>

\* cleanup_empty_channels removes what the pass put down, whatever has
\* become of it since.
Cleanup ==
    /\ hb = "cleanup" /\ lock = "free"
    /\ st' = [k \in DOMAIN st \ toCleanup |-> st[k]]
    /\ toCleanup' = {}
    /\ hb' = "tick"
    /\ out' = {}
    /\ UNCHANGED <<lock, mainVars, unvisited, notes, issued>>

----------------------------------------------------------------------------
(* Time *)

\* Forty seconds go by without a sign of life from u.  Not during a pass,
\* which takes no time.
FallSilent(k) ==
    /\ hb # "collect"
    /\ \E u \in st[k].users :
         /\ ~u.silent
         /\ st' = WithUsers(k, (st[k].users \ {u}) \cup {[u EXCEPT !.silent = TRUE]})
    /\ out' = {}
    /\ UNCHANGED <<lock, mainVars, hbVars, issued>>

----------------------------------------------------------------------------

\* handle_message: which handler a packet from (name, addr) is given to.
HandleMessage(name, addr) ==
    \/ \E k \in Keys :
         \/ Reconnect(k, name, addr)
         \/ \E nat \in NatKinds : Join(k, name, addr, nat)
         \/ Disconnect(k, name, addr)
         \/ Heartbeat(k, name, addr)
    \/ Pong(addr)
    \/ NatProbe(addr)
    \/ \E sender \in Names : ForwardData(addr, sender)

MainStep ==
    \/ \E e \in Endpoints : HandleMessage(e[1], e[2])
    \/ \E k \in Keys, name \in Names : PeerTimeout(k, name) \/ RequestRelay(k, name)
    \/ AppointRelay
    \/ LeaveRelayToServer

HeartbeatStep ==
    \/ Tick
    \/ \E k \in Keys : ExpireUser(k) \/ SettleChannel(k)
    \/ SendNotes
    \/ Cleanup

Next ==
    \/ MainStep
    \/ HeartbeatStep
    \/ \E k \in DOMAIN st : FallSilent(k)

\* Both tasks run on the tokio executor and the interval keeps firing.  The
\* tokio mutex queues its waiters, so a pass that takes it again and again
\* cannot keep it from a handler: strong fairness.  Nothing makes a client
\* send.
Fairness ==
    /\ WF_vars(HeartbeatStep)
    /\ SF_vars(AppointRelay \/ LeaveRelayToServer)

SafetySpec == Init /\ [][Next]_vars
Spec == SafetySpec /\ Fairness
=============================================================================
