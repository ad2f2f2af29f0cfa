--------------------------- MODULE ClientProperties ---------------------------
(***************************************************************************)
(* What a client guarantees of its own state, whatever datagrams reach it  *)
(* in whatever order, and however its threads interleave.                  *)
(***************************************************************************)
EXTENDS Client

\* The types of the client's state.
TypeOK ==
    /\ peers \subseteq Peer
    /\ is_relay \in BOOLEAN /\ channel_has_server_relays \in BOOLEAN
    /\ send_via_server \in BOOLEAN /\ paused \in BOOLEAN /\ is_active \in BOOLEAN
    /\ setup \in BOOLEAN
    /\ main \in {"recv", "greet", "handle", "served", "forward", "respond", "update", "start"}
    /\ current \in Inbox \cup {None}
    /\ punch \in {"off", "check", "waiting", "pass"}
    /\ keepalive \in {"off", "check", "waiting", "active", "round", "nap"}
    /\ input \in {"off", "idle", "typed", "mirror"}
    /\ via \in BOOLEAN

----------------------------------------------------------------------------
(* The peer table *)

\* No two entries share an address, so a datagram from a peer marks the entry
\* of that peer, and none has the client's own name: handle_mode_direct is
\* the only way in, whatever happens between its test and its push.
OneEntryPerAddress ==
    /\ \A p, q \in peers : p.addr = q.addr => p = q
    /\ \A p \in peers : p.username # Me

\* An entry the server relays for is connected and asked for, so no thread
\* punches it or asks for it, though the four fields are written by four
\* handlers and the keepalive thread.
ServedSettled ==
    \A p \in peers : p.use_server_relay => p.connected /\ p.relay_requested

\* A peer the server relays for stays in the table until it leaves the
\* channel: the keepalive round, which hears nothing of it, does not drop it.
ServedStay ==
    [][\A p \in peers : p.use_server_relay =>
         \/ \E q \in peers' : q.addr = p.addr /\ q.username = p.username /\ q.use_server_relay
         \/ main = "handle" /\ packet.type = "USER_LEFT" /\ packet.name = p.username]_vars

----------------------------------------------------------------------------
(* Roles *)

\* Whenever the main thread listens, the relay loop is switched as the role
\* says ("= is_relay || channel_has_server_relays"), and only a relay mirrors.
\* The two are set in steps of their own, and in setup not after every message.
SwitchedAsRole ==
    main = "recv" =>
        /\ is_active <=> is_relay \/ channel_has_server_relays
        /\ channel_has_server_relays => is_relay

----------------------------------------------------------------------------
(* Liveness *)

\* The main thread gets back to its socket: the table's mutex, which the
\* input thread holds while it reads the role, never keeps it.
MainReturns == (main # "recv") ~> (main = "recv")

\* A client that becomes the relay works as one: the keepalive thread hears
\* of it, whether it was started before or after.
RelayKeepsAlive == is_relay ~> (keepalive = "round")

\* The hole punching thread makes one pass after the other unless it is told to
\* rest; one that has rested takes up again when the client is made the relay,
\* wherever that finds it.
PunchingResumes == (punch # "off" /\ ~paused) ~> (punch = "pass" \/ paused)

\* A relay does not go on with a peer it has not heard of for 60 seconds:
\* the peer is reported and dropped, is heard of, or is served by the server.
OverdueDropped ==
    \A a \in Addrs :
        (is_relay /\ \E p \in At(peers, a) : p.overdue /\ ~p.use_server_relay)
          ~> ~ \E p \in At(peers, a) : p.overdue /\ ~p.use_server_relay
=============================================================================
