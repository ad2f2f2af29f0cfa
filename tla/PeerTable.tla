------------------------------ MODULE PeerTable ------------------------------
(***************************************************************************)
(* A client's table of peers (src/src/client/structures.rs), the pure      *)
(* functions its threads apply to it (client/handlers.rs, networking.rs),  *)
(* and the packets clients send.                                           *)
(*                                                                         *)
(* The Vec<PeerInfo> is a set of entries here.  It grows only at its end,  *)
(* so vector order is the order of created_at and "the first entry that    *)
(* ..." is the oldest one.  Of time the client asks two things, whether an *)
(* entry is older than 12 s (late) and whether it was last heard of more   *)
(* than 60 s ago (overdue); an entry starts out as heard of, so one that   *)
(* is overdue is late.                                                     *)
(***************************************************************************)
EXTENDS Protocol

CONSTANTS
    Server,         \* the address of the signalling server
    InstantLimit    \* bound: the instants created_at tells apart

ASSUME ServerAssumption == Server \notin Addrs
ASSUME InstantLimitAssumption == InstantLimit \in Nat

Peer == [ username         : Names,
          addr             : Addrs,
          created_at       : 1 .. InstantLimit,
          connected        : BOOLEAN,
          use_server_relay : BOOLEAN,
          relay_requested  : BOOLEAN,
          late             : BOOLEAN,
          overdue          : BOOLEAN ]

----------------------------------------------------------------------------
(* What clients send.  A client is known by the address it sends from. *)

HolePunch(to)       == [to |-> to, type |-> "HOLE_PUNCH"]
PongTo(to)          == [to |-> to, type |-> "PONG"]
ReportTimeout(name) == [to |-> Server, type |-> "PEER_TIMEOUT", name |-> name]
AskForRelay(name)   == [to |-> Server, type |-> "REQUEST_RELAY", name |-> name]
HeartbeatOf(name)   == [to |-> Server, type |-> "HB", name |-> name]

----------------------------------------------------------------------------
(* Entries *)

\* The instant of the next entry: later than that of any other.
LaterOrNow(peers) ==                                \* mutant of Later
    {n \in 0 .. InstantLimit : \A p \in peers : p.created_at <= n}

Later(peers) == {n \in 1 .. InstantLimit : \A p \in peers : p.created_at < n}
Now(peers) == CHOOSE n \in Later(peers) : TRUE

NewPeer(name, addr, now) ==
    [ username |-> name, addr |-> addr, created_at |-> now, connected |-> FALSE,
      use_server_relay |-> FALSE, relay_requested |-> FALSE,
      late |-> FALSE, overdue |-> FALSE ]

At(peers, addr) == {p \in peers : p.addr = addr}
Called(peers, name) == {p \in peers : p.username = name}

\* The entry find() returns by name: the first, if there is one.
Oldest(found) == {p \in found : \A q \in found : p.created_at <= q.created_at}

\* ensure_connected
Connected(p) == [p EXCEPT !.connected = TRUE, !.overdue = FALSE]

Heard(p) == [p EXCEPT !.overdue = FALSE]

MarkedNotConnected(p) ==                            \* mutant of Served
    [p EXCEPT !.use_server_relay = TRUE, !.relay_requested = TRUE]

\* The server relays for p: no punching, no asking.
Served(p) ==
    [p EXCEPT !.use_server_relay = TRUE, !.connected = TRUE, !.relay_requested = TRUE]

----------------------------------------------------------------------------
(* What a message does to the table *)

AddPeerAgain(peers, me, name, addr) ==              \* mutant of AddPeer
    IF name = me THEN peers ELSE peers \cup {NewPeer(name, addr, Now(peers))}

\* handle_mode_direct: one entry per address, whatever its name; the client
\* never lists its own name.
AddPeer(peers, me, name, addr) ==
    IF name = me \/ At(peers, addr) # {} THEN peers
    ELSE peers \cup {NewPeer(name, addr, Now(peers))}

\* handle_user_left: every entry of the name goes.
DropCalled(peers, name) == peers \ Called(peers, name)

\* handle_peer_message and handle_hole_punch.
MarkAt(peers, addr) ==
    (peers \ At(peers, addr)) \cup {Connected(p) : p \in At(peers, addr)}

\* handle_pong
MarkPong(peers, addr) ==
    (peers \ At(peers, addr)) \cup {Heard(p) : p \in At(peers, addr)}

\* mark_peer_connected_by_name
MarkCalled(peers, name) ==
    LET found == Oldest(Called(peers, name))
    IN  (peers \ found) \cup {Connected(p) : p \in found}

\* The end of MODE SERVER_RELAY <name>.
MarkServed(peers, name) ==
    LET found == Oldest(Called(peers, name))
    IN  (peers \ found) \cup {Served(p) : p \in found}

----------------------------------------------------------------------------
(* Whom the threads send to *)

\* hole_punching_loop
PunchTargets(peers) == {p \in peers : ~p.connected /\ ~p.use_server_relay}

\* handle_user_message: what the user types.
TypedTargets(peers) == {p \in peers : ~p.use_server_relay}

\* handle_relay_message_to_peers: what the relay passes on.
ForwardTargets(peers, sender) == {p \in peers : p.username # sender}

\* One round of relay_main_loop leaves server-relayed peers alone, reports
\* and drops those unheard of, pings the others, and asks the server to relay
\* for those it has failed to reach, once each.
Watched(peers) == {p \in peers : ~p.use_server_relay}

AllOverdue(peers) == {p \in peers : p.overdue}      \* mutant of Expired
NoneOverdue(peers) == {p \in peers : FALSE}         \* mutant of Expired
Expired(peers) == {p \in Watched(peers) : p.overdue}

UnreachedPunched(peers) ==                          \* mutant of Unreached
    {p \in Watched(peers) \ Expired(peers) : p.late /\ p.connected /\ ~p.relay_requested}

Unreached(peers) ==
    {p \in Watched(peers) \ Expired(peers) : p.late /\ ~p.connected /\ ~p.relay_requested}

AfterRound(peers) ==
    (peers \ (Expired(peers) \cup Unreached(peers)))
      \cup {[p EXCEPT !.relay_requested = TRUE] : p \in Unreached(peers)}

RoundPackets(peers) ==
    {ReportTimeout(p.username) : p \in Expired(peers)}
      \cup {Ping(p.addr) : p \in Watched(peers) \ Expired(peers)}
      \cup {AskForRelay(p.username) : p \in Unreached(peers)}
=============================================================================
