-------------------------------- MODULE Client --------------------------------
(***************************************************************************)
(* One client process (src/src/bin/client.rs, src/src/client), from the    *)
(* CONNECT it has sent on: the main thread, which reads one datagram after *)
(* the other, and the threads it starts once the server has given it a     *)
(* mode: hole punching, relay keepalive, console input.  The server and    *)
(* the peers are whoever sends the datagrams of Inbox, in any order.       *)
(*                                                                         *)
(* One critical section is one action.  The mutex of the peer table is the *)
(* only one a thread holds while it takes another: the input thread reads  *)
(* the role with the table locked, so the table is locked in "mirror".     *)
(*                                                                         *)
(* The client takes a MODE line from anyone.  Peers run this program too,  *)
(* and send none: in Inbox, MODE lines come from the server.               *)
(***************************************************************************)
EXTENDS PeerTable

CONSTANTS
    Me,             \* the user name of this client
    MyNat,          \* what detect_nat_kind made of its NAT
    Inbox,          \* the datagrams that reach it, as <<source, packet>>
    Typing          \* whether its user types anything

ASSUME MeAssumption == Me \in Names
ASSUME TypingAssumption == Typing \in BOOLEAN
ASSUME InboxAssumption ==
    \A d \in Inbox :
        /\ d[1] \in Addrs \cup {Server}
        /\ d[2].type \in {"WELCOME", "MODE RELAY", "MODE SERVER_RELAY", "MODE DIRECT", "USER_LEFT"}
             => d[1] = Server
        /\ d[2].type \in {"MODE SERVER_RELAY", "MODE DIRECT", "USER_LEFT", "DATA"}
             => d[2].name \in Names
        /\ d[2].type = "MODE DIRECT" => d[2].addr \in Addrs

VARIABLES
    peers,                      \* the peer table
    is_relay,                   \* this client is the relay of its channel
    channel_has_server_relays,  \* as relay, it must mirror to the server
    send_via_server,            \* what it sends goes to the server
    paused,                     \* PunchState: hole punching rests
    is_active,                  \* RelayState: the keepalive loop runs
    setup,                      \* the threads have not been started
    main,                       \* where the main thread is
    current,                    \* the datagram it is handling, or None
    punch,                      \* where the hole punching thread is
    keepalive,                  \* where the relay keepalive thread is
    input,                      \* where the input thread is
    via,                        \* the input thread's copy of send_via_server
    out                         \* the packets sent by the last step

roles == <<is_relay, channel_has_server_relays, send_via_server, paused, is_active>>
mainVars == <<setup, main, current>>
inputVars == <<input, via>>
vars == <<peers, roles, mainVars, punch, keepalive, inputVars, out>>

Init ==
    /\ peers = {}
    /\ is_relay = FALSE /\ channel_has_server_relays = FALSE /\ send_via_server = FALSE
    /\ paused = FALSE /\ is_active = FALSE
    /\ setup = TRUE /\ main = "recv" /\ current = None
    /\ punch = "off" /\ keepalive = "off" /\ input = "off" /\ via = FALSE
    /\ out = {}

\* The table's mutex is free.
TableFree == input # "mirror"

----------------------------------------------------------------------------
(* The main thread *)

from == current[1]
packet == current[2]

\* A datagram.  Traffic of a peer first marks the peer as connected.  The
\* bound on instants keeps new entries out here, not halfway.
Receive(d) ==
    /\ main = "recv"
    /\ d[2].type = "MODE DIRECT" => Later(peers) # {}
    /\ current' = d
    /\ main' = IF d[1] = Server THEN "handle" ELSE "greet"
    /\ out' = {}
    /\ UNCHANGED <<peers, roles, setup, punch, keepalive, inputVars>>

\* handle_peer_message
Greet ==
    /\ main = "greet" /\ TableFree
    /\ peers' = MarkAt(peers, from)
    /\ main' = "handle"
    /\ out' = {}
    /\ UNCHANGED <<roles, setup, current, punch, keepalive, inputVars>>

\* What comes after process_incoming_message.  During setup the traffic of
\* peers leaves the relay loop alone.
Handled ==
    IF from = Server THEN main' = "respond" /\ UNCHANGED current
    ELSE IF setup THEN main' = "recv" /\ current' = None
    ELSE main' = "update" /\ UNCHANGED current

Handling(type) == main = "handle" /\ packet.type = type

HandlePing ==
    /\ Handling("PING")
    /\ out' = {PongTo(from)}
    /\ Handled
    /\ UNCHANGED <<peers, roles, setup, punch, keepalive, inputVars>>

\* The messages whose handling is one change of the table.
HandleTable ==
    /\ main = "handle" /\ TableFree
    /\ \/ packet.type = "PONG" /\ peers' = MarkPong(peers, from)
       \/ packet.type = "HOLE_PUNCH" /\ peers' = MarkAt(peers, from)
       \/ packet.type = "USER_LEFT" /\ peers' = DropCalled(peers, packet.name)
       \/ /\ packet.type = "MODE DIRECT" /\ Later(peers) # {}
          /\ peers' = AddPeer(peers, Me, packet.name, packet.addr)
    /\ out' = {}
    /\ Handled
    /\ UNCHANGED <<roles, setup, punch, keepalive, inputVars>>

\* MODE RELAY (handle_mode_relay)
BecomeRelay ==
    /\ Handling("MODE RELAY")
    /\ is_relay' = TRUE
    /\ out' = {}
    /\ Handled
    /\ UNCHANGED <<peers, channel_has_server_relays, send_via_server, paused, is_active,
                   setup, punch, keepalive, inputVars>>

\* MODE SERVER_RELAY <name>: a relay notes that it must mirror; the table is
\* locked afterwards.
NoteServerRelay ==
    /\ Handling("MODE SERVER_RELAY")
    /\ out' = {}
    /\ IF packet.name = Me
       THEN Handled /\ UNCHANGED channel_has_server_relays
       ELSE /\ channel_has_server_relays' = (channel_has_server_relays \/ is_relay)
            /\ main' = "served" /\ UNCHANGED current
    /\ UNCHANGED <<peers, is_relay, send_via_server, paused, is_active,
                   setup, punch, keepalive, inputVars>>

MarkPeerServed ==
    /\ main = "served" /\ TableFree
    /\ peers' = MarkServed(peers, packet.name)
    /\ out' = {}
    /\ Handled
    /\ UNCHANGED <<roles, setup, punch, keepalive, inputVars>>

\* DATA: its author is there; a relay passes it on (handle_data_message).
HearData ==
    /\ Handling("DATA") /\ TableFree
    /\ peers' = MarkCalled(peers, packet.name)
    /\ main' = "forward"
    /\ out' = {}
    /\ UNCHANGED <<roles, setup, current, punch, keepalive, inputVars>>

PassOn ==
    /\ main = "forward" /\ TableFree
    /\ out' = IF ~is_relay THEN {}
              ELSE {Data(p.addr, packet.name) : p \in ForwardTargets(peers, packet.name)}
                     \cup (IF channel_has_server_relays THEN {Data(Server, packet.name)} ELSE {})
    /\ Handled
    /\ UNCHANGED <<peers, roles, setup, punch, keepalive, inputVars>>

\* WELCOME comes as a framed packet, which changes nothing: the client looks
\* for a WELCOME of three words, and the server sends five.
IgnoreWelcome ==
    /\ Handling("WELCOME")
    /\ main' = "recv" /\ current' = None
    /\ out' = {}
    /\ UNCHANGED <<peers, roles, setup, punch, keepalive, inputVars>>

AsleepStill(pc) == pc                               \* mutant of Woken

\* notify_all: a thread that waits looks at its condition again.
Woken(pc) == IF pc = "waiting" THEN "check" ELSE pc

\* process_server_response: whether hole punching rests from now on.
PauseFor ==
    IF packet.type = "MODE RELAY" THEN FALSE
    ELSE IF packet.type = "MODE SERVER_RELAY" /\ packet.name = Me THEN TRUE
    ELSE paused

ViaServerFor ==
    IF packet.type = "MODE RELAY" THEN FALSE
    ELSE IF packet.type = "MODE SERVER_RELAY" /\ packet.name = Me THEN TRUE
    ELSE send_via_server

\* process_server_response: how what this client says travels, and whether it
\* punches; for others' SERVER_RELAY it repeats what NoteServerRelay did.
Respond ==
    /\ main = "respond"
    /\ send_via_server' = ViaServerFor
    /\ paused' = PauseFor
    /\ punch' = IF PauseFor # paused THEN Woken(punch) ELSE punch
    /\ channel_has_server_relays' =
         (channel_has_server_relays
            \/ (packet.type = "MODE SERVER_RELAY" /\ packet.name # Me /\ is_relay))
    /\ main' = "update"
    /\ out' = {}
    /\ UNCHANGED <<peers, is_relay, is_active, setup, current, keepalive, inputVars>>

\* A MODE line from the server ends the setup.
SawMode == from = Server /\ packet.type \in {"MODE RELAY", "MODE SERVER_RELAY", "MODE DIRECT"}

ActiveSoFar == is_active                            \* mutant of Active
Active == is_relay \/ channel_has_server_relays

\* update_relay_is_active
Update ==
    /\ main = "update"
    /\ is_active' = Active
    /\ keepalive' = IF Active # is_active THEN Woken(keepalive) ELSE keepalive
    /\ main' = IF setup /\ SawMode THEN "start" ELSE "recv"
    /\ current' = None
    /\ out' = {}
    /\ UNCHANGED <<peers, is_relay, channel_has_server_relays, send_via_server, paused,
                   setup, punch, inputVars>>

\* No mode came in the time the setup allows.
GiveUpSetup ==
    /\ main = "recv" /\ setup
    /\ main' = "start"
    /\ out' = {}
    /\ UNCHANGED <<peers, roles, setup, current, punch, keepalive, inputVars>>

\* A client behind a symmetric NAT has no hole punching thread.
StartThreads ==
    /\ main = "start"
    /\ setup' = FALSE
    /\ punch' = IF MyNat = "Symmetric" THEN "off" ELSE "check"
    /\ keepalive' = "check"
    /\ input' = "idle"
    /\ main' = "recv"
    /\ out' = {}
    /\ UNCHANGED <<peers, roles, current, via>>

MainStep ==
    \/ Greet \/ HandlePing \/ HandleTable \/ BecomeRelay \/ NoteServerRelay
    \/ MarkPeerServed \/ HearData \/ PassOn \/ IgnoreWelcome \/ Respond \/ Update
    \/ StartThreads

----------------------------------------------------------------------------
(* The hole punching thread *)

PunchCheck ==
    /\ punch = "check"
    /\ punch' = IF paused THEN "waiting" ELSE "pass"
    /\ out' = {}
    /\ UNCHANGED <<peers, roles, mainVars, keepalive, inputVars>>

PunchPass ==
    /\ punch = "pass" /\ TableFree
    /\ out' = {HolePunch(p.addr) : p \in PunchTargets(peers)}
    /\ punch' = "check"
    /\ UNCHANGED <<peers, roles, mainVars, keepalive, inputVars>>

----------------------------------------------------------------------------
(* The relay keepalive thread *)

KeepaliveCheck ==
    /\ keepalive = "check"
    /\ keepalive' = IF is_active THEN "active" ELSE "waiting"
    /\ out' = {}
    /\ UNCHANGED <<peers, roles, mainVars, punch, inputVars>>

\* The top of relay_main_loop.
KeepaliveTop ==
    /\ keepalive = "active"
    /\ keepalive' = IF is_active THEN "round" ELSE "check"
    /\ out' = {}
    /\ UNCHANGED <<peers, roles, mainVars, punch, inputVars>>

Round ==
    /\ keepalive = "round" /\ TableFree
    /\ peers' = AfterRound(peers)
    /\ out' = RoundPackets(peers)
    /\ keepalive' = "nap"
    /\ UNCHANGED <<roles, mainVars, punch, inputVars>>

\* Fifteen seconds, a notification or nothing at all: wait_timeout returns.
KeepaliveWakes ==
    /\ keepalive = "nap"
    /\ keepalive' = "active"
    /\ out' = {}
    /\ UNCHANGED <<peers, roles, mainVars, punch, inputVars>>

----------------------------------------------------------------------------
(* The input thread *)

\* A line is typed; the flag is read before anything is locked.
TypeLine ==
    /\ Typing /\ input = "idle"
    /\ input' = "typed"
    /\ via' = send_via_server
    /\ out' = {}
    /\ UNCHANGED <<peers, roles, mainVars, punch, keepalive>>

SendViaServer ==
    /\ input = "typed" /\ via
    /\ out' = {Data(Server, Me)}
    /\ input' = "idle" /\ via' = FALSE
    /\ UNCHANGED <<peers, roles, mainVars, punch, keepalive>>

\* The table stays locked until the line has been mirrored.
SendToPeers ==
    /\ input = "typed" /\ ~via
    /\ out' = {Data(p.addr, Me) : p \in TypedTargets(peers)}
    /\ input' = "mirror"
    /\ UNCHANGED <<peers, roles, mainVars, punch, keepalive, via>>

KeepTable == input' = "mirror"                      \* mutant of FreeTable
FreeTable == input' = "idle"

Mirror ==
    /\ input = "mirror"
    /\ out' = IF is_relay /\ channel_has_server_relays THEN {Data(Server, Me)} ELSE {}
    /\ FreeTable
    /\ UNCHANGED <<peers, roles, mainVars, punch, keepalive, via>>

----------------------------------------------------------------------------

\* The heartbeat thread, which shares nothing with the others.
SendHeartbeat ==
    /\ out' = {HeartbeatOf(Me)}
    /\ UNCHANGED <<peers, roles, mainVars, punch, keepalive, inputVars>>

\* Time passes for an entry: twelve seconds since it was made, sixty since it
\* was heard of.
Age ==
    /\ \E p \in peers :
         \/ ~p.late /\ peers' = (peers \ {p}) \cup {[p EXCEPT !.late = TRUE]}
         \/ p.late /\ ~p.overdue /\ peers' = (peers \ {p}) \cup {[p EXCEPT !.overdue = TRUE]}
    /\ out' = {}
    /\ UNCHANGED <<roles, mainVars, punch, keepalive, inputVars>>

PunchStep == PunchCheck \/ PunchPass
KeepaliveStep == KeepaliveCheck \/ KeepaliveTop \/ Round \/ KeepaliveWakes
InputStep == SendViaServer \/ SendToPeers \/ Mirror

Next ==
    \/ \E d \in Inbox : Receive(d)
    \/ MainStep \/ GiveUpSetup
    \/ PunchStep \/ KeepaliveStep
    \/ TypeLine \/ InputStep
    \/ SendHeartbeat
    \/ Age

\* The threads run on, and the deadline of the setup passes.  The table's
\* mutex is held for a few sends at a time, and lines are typed by hand with
\* pauses between them: a thread that wants the table gets it (strong
\* fairness).  The deadline counts however many datagrams come before it.
\* Nothing makes a datagram arrive or a user type.
Fairness ==
    /\ SF_vars(MainStep)
    /\ SF_vars(GiveUpSetup)
    /\ SF_vars(PunchStep)
    /\ SF_vars(KeepaliveStep)
    /\ WF_vars(InputStep)

SafetySpec == Init /\ [][Next]_vars
Spec == SafetySpec /\ Fairness
=============================================================================
