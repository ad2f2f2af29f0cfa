------------------------------- MODULE Piercer -------------------------------
(***************************************************************************)
(* The signalling server, its clients and the network between them: the    *)
(* server of SignalingServer, driven by the datagrams that reach it, and   *)
(* client processes that start, hear, punch, relay, speak and crash.       *)
(*                                                                         *)
(* A client handles a datagram, and makes a pass of one of its threads, in *)
(* one step: what its threads do to each other in between is Client's.     *)
(* Datagrams for one address arrive, and in the order they were sent (in   *)
(* Client they do not).  Heartbeats are left to the guard of FallSilent.   *)
(***************************************************************************)
EXTENDS PeerTable, Sequences, FiniteSets

CONSTANTS
    ServerIds, ChannelNames, NatKinds, ChannelIds,      \* as in Channels
    Endpoints, PeerIdLimit,                             \* as in SignalingServer
    NatOf,          \* the NAT of each user, as its client detects it
    Open,           \* the {address, address} paths hole punching can open
    MayRestart,     \* whether a user may start again after a crash
    StartLimit,     \* bound: the processes that are started
    CrashLimit,     \* bound: the processes that crash
    LineLimit       \* bound: the lines that are typed

ASSUME PiercerAssumption ==
    /\ Endpoints \subseteq Names \X Addrs
    /\ NatOf \in [Names -> NatKinds]
    /\ MayRestart \in BOOLEAN
    /\ StartLimit \in Nat /\ CrashLimit \in Nat /\ LineLimit \in Nat
    /\ None \notin Names

VARIABLES
    st, lock, main, notifyKey, snapshot, hb, unvisited, toCleanup, notes, out, issued,
    clients,        \* the process that runs for each user, or None
    net,            \* what is on its way to each address: sets, one sent after the other
    starts,         \* the processes started so far
    lines,          \* the lines typed so far
    unheard         \* history: the members of then that have not heard the last

Commands == {"CONNECT", "PONG", "PEER_TIMEOUT", "REQUEST_RELAY", "DATA"}

S == INSTANCE SignalingServer

serverVars == <<st, lock, main, notifyKey, snapshot, hb, unvisited, toCleanup, notes, issued>>
lineVars == <<lines, unheard>>
vars == <<serverVars, out, clients, net, starts, lineVars>>

\* What a process keeps: where it is, its table and its flags.
Process == [ addr                      : Addrs,
             peers                     : SUBSET Peer,
             is_relay                  : BOOLEAN,
             channel_has_server_relays : BOOLEAN,
             send_via_server           : BOOLEAN ]

ASSUME ProcessAssumption == None \notin Process

NewProcess(addr) ==
    [ addr |-> addr, peers |-> {}, is_relay |-> FALSE,
      channel_has_server_relays |-> FALSE, send_via_server |-> FALSE ]

Running == {n \in Names : clients[n] # None}

----------------------------------------------------------------------------
(* The network.  What is on its way is a pair of a source and a packet. *)

Connect(name) == [to |-> Server, type |-> "CONNECT", name |-> name, nat |-> NatOf[name]]

\* Between clients a packet gets through on a path that can be opened.
Arrives(from, to) == from = Server \/ to = Server \/ {from, to} \in Open

\* The packets one step sends to one address, first to last: within a kind
\* their order tells nothing.
Others == {"CONNECT", "WELCOME", "DATA", "PING", "PONG", "HOLE_PUNCH",
           "PEER_TIMEOUT", "REQUEST_RELAY"}

Batch(from, to, packets, types) ==
    LET sent == {p \in packets : p.to = to /\ p.type \in types /\ Arrives(from, to)}
    IN  IF sent = {} THEN <<>> ELSE << {from} \X sent >>

Batches(from, to, packets) ==
    Batch(from, to, packets, {"USER_LEFT"})
      \o Batch(from, to, packets, {"MODE DIRECT"})
      \o Batch(from, to, packets, {"MODE RELAY"})
      \o Batch(from, to, packets, {"MODE SERVER_RELAY"})
      \o Batch(from, to, packets, Others)

Carried(n, from, packets) == [a \in DOMAIN n |-> n[a] \o Batches(from, a, packets)]

TakeFirst(s, m) == IF s[1] = {m} THEN Tail(s) ELSE [s EXCEPT ![1] = @ \ {m}]

Without(a, m) == [net EXCEPT ![a] = TakeFirst(@, m)]

OnTheWay(a) == UNION {net[a][i] : i \in DOMAIN net[a]}

\* What may arrive at a next.
Arriving(a) == IF net[a] = <<>> THEN {} ELSE Head(net[a])

\* What a has sent has arrived.
Arrived(a) == \A b \in DOMAIN net : \A m \in OnTheWay(b) : m[1] # a

\* ... and the answers have come back.
Delivered(a) ==
    /\ Arrived(a)
    /\ \A m \in OnTheWay(a) : m[2].type # "PONG"

\* Nobody listens at an address.
Vanish(a) ==
    /\ a # Server
    /\ \A n \in Running : clients[n].addr # a
    /\ \E m \in Arriving(a) : net' = Without(a, m)
    /\ out' = {}
    /\ UNCHANGED <<serverVars, clients, starts, lineVars>>

----------------------------------------------------------------------------
(* The server *)

ServerSends == net' = Carried(net, Server, out')

\* handle_message
ServerHears ==
    \E m \in Arriving(Server) :
      LET from == m[1]
          p    == m[2]
      IN  /\ \E k \in S!Keys :
               \/ /\ p.type = "CONNECT"
                  /\ S!Reconnect(k, p.name, from) \/ S!Join(k, p.name, from, p.nat)
               \/ p.type = "PEER_TIMEOUT" /\ S!PeerTimeout(k, p.name)
               \/ p.type = "REQUEST_RELAY" /\ S!RequestRelay(k, p.name)
               \/ p.type = "PONG" /\ S!Pong(from)
               \/ p.type = "DATA" /\ S!ForwardData(from, p.name)
          /\ net' = Carried(Without(Server, m), Server, out')
    /\ UNCHANGED <<clients, starts, lineVars>>

\* A report for a channel that is gone; DATA of nobody's.
ServerIgnores ==
    /\ main = "recv" /\ lock = "free"
    /\ \E m \in Arriving(Server) :
         /\ \/ m[2].type \in {"PEER_TIMEOUT", "REQUEST_RELAY"} /\ DOMAIN st = {}
            \/ m[2].type = "DATA" /\ \A k \in DOMAIN st : ~S!CarriesData(st[k], m[1], m[2].name)
         /\ net' = Without(Server, m)
    /\ out' = {}
    /\ UNCHANGED <<serverVars, clients, starts, lineVars>>

ServerNotifies ==
    /\ S!AppointRelay \/ S!LeaveRelayToServer
    /\ ServerSends
    /\ UNCHANGED <<clients, starts, lineVars>>

\* The channels where a pass of the heartbeat finds something to do.
Busy == {k \in DOMAIN st :
           st[k].users = {} \/ S!Lone(st[k].users) \/ S!Silent(st[k].users) # {}}

\* Passes are 20 s apart: what the last one sent has arrived.  A pass with
\* nothing to do is left out.
ServerBeats ==
    /\ \/ Busy # {} /\ Delivered(Server) /\ S!Tick
       \/ \E k \in S!Keys : S!ExpireUser(k) \/ S!SettleChannel(k)
       \/ S!SendNotes
       \/ S!Cleanup
    /\ ServerSends
    /\ UNCHANGED <<clients, starts, lineVars>>

\* The client of u runs, and its heartbeats arrive.
Beating(u) == u.name \in Running /\ clients[u.name].addr = u.addr

\* A session falls silent when its process is gone, and what that has sent
\* has long arrived.
FallSilent ==
    /\ hb # "collect"
    /\ \E k \in DOMAIN st : \E u \in st[k].users :
         /\ ~u.silent /\ ~Beating(u) /\ Arrived(u.addr)
         /\ st' = S!WithUsers(k, (st[k].users \ {u}) \cup {[u EXCEPT !.silent = TRUE]})
    /\ out' = {}
    /\ UNCHANGED <<lock, main, notifyKey, snapshot, hb, unvisited, toCleanup, notes, issued,
                   clients, net, starts, lineVars>>

----------------------------------------------------------------------------
(* Client processes *)

\* A process starts at one of its user's addresses and sends CONNECT.  It
\* sends it once.
Start(n, addr) ==
    /\ n \notin Running /\ starts < StartLimit
    /\ \A i \in issued : i.name = n => MayRestart
    /\ \A i \in Running : clients[i].addr # addr
    /\ clients' = [clients EXCEPT ![n] = NewProcess(addr)]
    /\ net' = Carried(net, addr, {Connect(n)})
    /\ starts' = starts + 1
    /\ out' = {}
    /\ UNCHANGED <<serverVars, lineVars>>

\* The process is gone, and says nothing of it.  A line it had to pass on
\* goes with it.
Crash(n) ==
    /\ n \in Running /\ starts - Cardinality(Running) < CrashLimit
    /\ clients' = [clients EXCEPT ![n] = None]
    /\ unheard' = {}
    /\ out' = {}
    /\ UNCHANGED <<serverVars, net, starts, lines>>

\* Client n becomes c and sends packets.
Becomes(n, c, packets) ==
    /\ clients' = [clients EXCEPT ![n] = c]
    /\ out' = packets
    /\ UNCHANGED <<serverVars, starts>>

\* ... on hearing m.
Answers(n, m, c, packets) ==
    /\ Becomes(n, c, packets)
    /\ net' = Carried(Without(clients[n].addr, m), clients[n].addr, packets)

\* The traffic of a peer marks the peer as connected, before anything else.
Greeted(c, from) == IF from = Server THEN c ELSE [c EXCEPT !.peers = MarkAt(@, from)]

HearPing(n, m) ==
    /\ m[2].type = "PING"
    /\ Answers(n, m, Greeted(clients[n], m[1]), {PongTo(m[1])})

\* PONG and HOLE_PUNCH say no more than that a peer is there; WELCOME, whose
\* five words are not the three looked for, says nothing.
HearSign(n, m) ==
    /\ m[2].type \in {"PONG", "HOLE_PUNCH", "WELCOME"}
    /\ Answers(n, m, Greeted(clients[n], m[1]), {})

HearDirect(n, m) ==
    /\ m[2].type = "MODE DIRECT" /\ Later(clients[n].peers) # {}
    /\ Answers(n, m, [clients[n] EXCEPT !.peers = AddPeer(@, n, m[2].name, m[2].addr)], {})

HearUserLeft(n, m) ==
    /\ m[2].type = "USER_LEFT"
    /\ Answers(n, m, [clients[n] EXCEPT !.peers = DropCalled(@, m[2].name)], {})

ForgetsRelays(c) == FALSE                           \* mutant of Mirrors
Mirrors(c) == c.channel_has_server_relays \/ c.is_relay

HearRelay(n, m) ==
    /\ m[2].type = "MODE RELAY"
    /\ Answers(n, m, [clients[n] EXCEPT !.is_relay = TRUE, !.send_via_server = FALSE], {})

HearServerRelay(n, m) ==
    /\ m[2].type = "MODE SERVER_RELAY"
    /\ Answers(n, m, IF m[2].name = n
                     THEN [clients[n] EXCEPT !.send_via_server = TRUE]
                     ELSE [clients[n] EXCEPT !.channel_has_server_relays = Mirrors(clients[n]),
                                             !.peers = MarkServed(@, m[2].name)],
               {})

\* A relay passes DATA on to its peers, and mirrors it to the server for
\* those the server serves.
HearData(n, m) ==
    /\ m[2].type = "DATA"
    /\ LET sender == m[2].name
           c      == [Greeted(clients[n], m[1]) EXCEPT !.peers = MarkCalled(@, sender)]
       IN  Answers(n, m, c,
             IF ~c.is_relay THEN {}
             ELSE {Data(p.addr, sender) : p \in ForwardTargets(c.peers, sender)}
                    \cup (IF c.channel_has_server_relays THEN {Data(Server, sender)} ELSE {}))
    /\ unheard' = unheard \ {n}
    /\ UNCHANGED lines

ClientHears(n) ==
    /\ n \in Running
    /\ \E m \in Arriving(clients[n].addr) :
         \/ /\ \/ HearPing(n, m) \/ HearSign(n, m) \/ HearDirect(n, m)
               \/ HearUserLeft(n, m) \/ HearRelay(n, m) \/ HearServerRelay(n, m)
            /\ UNCHANGED lineVars
         \/ HearData(n, m)

\* A pass of hole punching.  What the last one sent has arrived.
Punch(n) ==
    /\ n \in Running /\ NatOf[n] # "Symmetric" /\ ~clients[n].send_via_server
    /\ Delivered(clients[n].addr)
    /\ PunchTargets(clients[n].peers) # {}
    /\ LET packets == {HolePunch(p.addr) : p \in PunchTargets(clients[n].peers)}
       IN  /\ Becomes(n, clients[n], packets)
           /\ net' = Carried(net, clients[n].addr, packets)
    /\ UNCHANGED lineVars

\* The process of an entry is there, at the address of the entry.
Answering(p) == p.username \in Running /\ clients[p.username].addr = p.addr

\* The peers that n's keepalive has something to find out of, or to tell.
Doubtful(n) ==
    {p \in Watched(clients[n].peers) :
       \/ ~p.connected \/ p.overdue
       \/ Answering(p) /\ \E q \in At(clients[p.username].peers, clients[n].addr) :
                            ~q.connected \/ q.overdue}

\* A round of the relay's keepalive.  Rounds are 15 s apart: what the last
\* one sent has arrived.  A round that would change nothing is left out.
KeepAlive(n) ==
    /\ n \in Running /\ clients[n].is_relay
    /\ Delivered(clients[n].addr)
    /\ Doubtful(n) # {}
    /\ LET packets == RoundPackets(clients[n].peers)
       IN  /\ Becomes(n, [clients[n] EXCEPT !.peers = AfterRound(@)], packets)
           /\ net' = Carried(net, clients[n].addr, packets)
    /\ UNCHANGED lineVars

\* The keepalive of n, if it is a relay, pings address a.
Pings(n, a) == n \in Running /\ clients[n].is_relay /\ At(Watched(clients[n].peers), a) # {}

\* n hears of the peer of entry p again and again: one of the two pings the
\* other, and the path between them is open.
HeardOf(n, p) ==
    /\ Answering(p) /\ {clients[n].addr, p.addr} \in Open
    /\ Pings(n, p.addr) \/ Pings(p.username, clients[n].addr)

\* What n has sent has been answered, and what was sent to n has arrived.
Drained(n) == Arrived(clients[n].addr) /\ net[clients[n].addr] = <<>>

\* Sixty seconds may pass without a sign of the peer of p.  They are longer
\* than the way of a datagram, and than it takes a relay to ask for a peer
\* it has not reached: twelve seconds and a round.
Unheard(n, p) ==
    /\ ~HeardOf(n, p)
    /\ Drained(n)
    /\ clients[n].is_relay => p.connected \/ p.relay_requested

\* Time passes for an entry of n: twelve seconds in which it was not reached,
\* sixty without a sign of it.  Of an entry the server serves nobody asks.
Age(n) ==
    /\ n \in Running
    /\ \E p \in Watched(clients[n].peers) :
         /\ \/ /\ ~p.late /\ ~p.connected
               /\ Becomes(n, [clients[n] EXCEPT
                                !.peers = (@ \ {p}) \cup {[p EXCEPT !.late = TRUE]}], {})
            \/ /\ ~p.overdue /\ Unheard(n, p)
               /\ Becomes(n, [clients[n] EXCEPT
                    !.peers = (@ \ {p}) \cup {[p EXCEPT !.late = TRUE, !.overdue = TRUE]}], {})
         /\ UNCHANGED <<net, lineVars>>

\* Nothing is on its way and the server is idle.
Quiet ==
    /\ \A a \in DOMAIN net : net[a] = <<>>
    /\ main = "recv" /\ hb = "tick"

\* n has reached the peer of its entry p, or left it to the server to serve.
Placed(n, p) ==
    /\ p.connected
    /\ p.use_server_relay \/ {clients[n].addr, p.addr} \in Open

\* The processes that run are the members of the channels, and have reached
\* each of their peers, directly or by the server.
Settled ==
    /\ Quiet
    /\ \A n \in Running : \E k \in DOMAIN st : \E u \in st[k].users :
         u.name = n /\ u.addr = clients[n].addr
    /\ \A k \in DOMAIN st : \A u \in st[k].users : Beating(u)
    /\ \A n \in Running : \A p \in clients[n].peers :
         p.connected /\ (clients[n].is_relay => Placed(n, p))

\* No line is on its way.
Silence == \A a \in DOMAIN net : \A m \in OnTheWay(a) : m[2].type # "DATA"

\* The user of n types a line, the last one having arrived.  Who must hear it
\* is clear once things have settled.
Speak(n) ==
    /\ n \in Running /\ lines < LineLimit /\ Silence
    /\ LET c       == clients[n]
           packets == IF c.send_via_server THEN {Data(Server, n)}
                      ELSE {Data(p.addr, n) : p \in TypedTargets(c.peers)}
                             \cup (IF c.is_relay /\ c.channel_has_server_relays
                                   THEN {Data(Server, n)} ELSE {})
       IN  /\ Becomes(n, c, packets)
           /\ net' = Carried(net, c.addr, packets)
    /\ lines' = lines + 1
    /\ unheard' = IF Settled THEN Running \ {n} ELSE {}

----------------------------------------------------------------------------

Init ==
    /\ S!Init
    /\ clients = [n \in Names |-> None]
    /\ net = [a \in Addrs \cup {Server} |-> <<>>]
    /\ starts = 0
    /\ lines = 0 /\ unheard = {}

ServerStep == ServerHears \/ ServerIgnores \/ ServerNotifies

\* A pass of the heartbeat holds the mutex and sends at its end: nothing can
\* tell what happens during it from what happens before or after.
Next ==
    \/ ServerBeats
    \/ /\ hb # "collect"
       /\ \/ ServerStep \/ FallSilent
          \/ \E e \in Endpoints : Start(e[1], e[2])
          \/ \E n \in Names :
               ClientHears(n) \/ Punch(n) \/ KeepAlive(n) \/ Age(n) \/ Speak(n) \/ Crash(n)
          \/ \E a \in Addrs : Vanish(a)

\* What has been sent arrives, the server's tasks and the clients' threads
\* go on (they wait for nothing but their last packets to arrive), and time
\* passes.  Nothing makes a process start or crash, or a user speak.
Fairness ==
    /\ WF_vars(ServerStep)
    /\ SF_vars(ServerBeats)
    /\ WF_vars(FallSilent)
    /\ \A n \in Names :
         WF_vars(ClientHears(n)) /\ SF_vars(Punch(n)) /\ SF_vars(KeepAlive(n)) /\ SF_vars(Age(n))
    /\ \A a \in Addrs : WF_vars(Vanish(a))

SafetySpec == Init /\ [][Next]_vars
Spec == SafetySpec /\ Fairness
=============================================================================
