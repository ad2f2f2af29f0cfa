----------------------------- MODULE ClientProofs -----------------------------
(***************************************************************************)
(* The safety of a client, for every value of the constants: its types,    *)
(* its peer table, and its roles at the points where the main thread is.   *)
(*                                                                         *)
(* Every operation on the table keeps it sound (TableOK), so it is enough  *)
(* that each step applies one of them or leaves the table alone.           *)
(***************************************************************************)
EXTENDS ClientProperties, TLAPS

\* A sound table.
TableOK(ps) ==
    /\ ps \subseteq Peer
    /\ \A p, q \in ps : p.addr = q.addr => p = q
    /\ \A p \in ps : p.username # Me
    /\ \A p \in ps : p.use_server_relay => p.connected /\ p.relay_requested

\* A served entry of ps is still one in qs.
KeepsServed(ps, qs) ==
    \A p \in ps : p.use_server_relay =>
        \E q \in qs : q.addr = p.addr /\ q.username = p.username /\ q.use_server_relay

\* Where the main thread is says what datagram it has at hand.
AtHand ==
    /\ main \notin {"recv", "start"} => current \in Inbox
    /\ main = "served" => packet.type = "MODE SERVER_RELAY"

\* Where the main thread is says whether the relay loop has been switched as
\* the role says.
RolesFit ==
    /\ main \in {"recv", "start", "greet", "handle", "forward"}
         => (is_active <=> is_relay \/ channel_has_server_relays)
    /\ channel_has_server_relays => is_relay

ClientInv == TypeOK /\ TableOK(peers) /\ AtHand /\ RolesFit

----------------------------------------------------------------------------
(* The operations on the table *)

\* Rewriting an entry's fields.
LEMMA EntryTypes ==
    ASSUME NEW p \in Peer
    PROVE  /\ Connected(p) \in Peer /\ Heard(p) \in Peer /\ Served(p) \in Peer
           /\ [p EXCEPT !.relay_requested = TRUE] \in Peer
           /\ [p EXCEPT !.late = TRUE] \in Peer
           /\ [p EXCEPT !.overdue = TRUE] \in Peer
BY DEF Peer, Connected, Heard, Served

\* Rewriting some entries, each under its name and address and as settled as
\* it must be, keeps the table sound.
LEMMA RewriteKeepsTable ==
    ASSUME NEW ps, TableOK(ps), NEW found \in SUBSET ps, NEW f \in [found -> Peer], NEW qs,
           \A p \in found :
              /\ f[p].addr = p.addr /\ f[p].username = p.username
              /\ p.use_server_relay => f[p].use_server_relay
              /\ f[p].use_server_relay => f[p].connected /\ f[p].relay_requested,
           \A q \in qs : \E p \in found : q = f[p],
           \A p \in found : f[p] \in qs
    PROVE  /\ TableOK((ps \ found) \cup qs)
           /\ KeepsServed(ps, (ps \ found) \cup qs)
<1>1. \A q, r \in qs : q.addr = r.addr => q = r
  <2> SUFFICES ASSUME NEW q \in qs, NEW r \in qs, q.addr = r.addr
               PROVE  q = r
    OBVIOUS
  <2>1. PICK p \in found : q = f[p]
    OBVIOUS
  <2>2. PICK s \in found : r = f[s]
    OBVIOUS
  <2>3. p = s
    BY <2>1, <2>2 DEF TableOK
  <2> QED  BY <2>1, <2>2, <2>3
<1>2. \A p \in ps \ found, q \in qs : p.addr # q.addr
  BY DEF TableOK
<1>3. TableOK((ps \ found) \cup qs)
  <2>1. \A q \in qs : q \in Peer /\ q.username # Me
          /\ (q.use_server_relay => q.connected /\ q.relay_requested)
    BY DEF TableOK
  <2> QED  BY <1>1, <1>2, <2>1 DEF TableOK
<1>4. KeepsServed(ps, (ps \ found) \cup qs)
  BY DEF KeepsServed
<1> QED  BY <1>3, <1>4

\* Marking some entries connected.
LEMMA ConnectedKeepsTable ==
    ASSUME NEW ps, TableOK(ps), NEW found \in SUBSET ps
    PROVE  /\ TableOK((ps \ found) \cup {Connected(p) : p \in found})
           /\ KeepsServed(ps, (ps \ found) \cup {Connected(p) : p \in found})
<1> DEFINE f  == [p \in found |-> Connected(p)]
           qs == {Connected(p) : p \in found}
<1>1. f \in [found -> Peer]
  BY EntryTypes DEF TableOK
<1>2. \A p \in found :
        /\ f[p].addr = p.addr /\ f[p].username = p.username
        /\ p.use_server_relay => f[p].use_server_relay
        /\ f[p].use_server_relay => f[p].connected /\ f[p].relay_requested
  BY DEF TableOK, Peer, Connected
<1>3. (\A q \in qs : \E p \in found : q = f[p]) /\ \A p \in found : f[p] \in qs
  OBVIOUS
<1> HIDE DEF f, qs
<1>4. TableOK((ps \ found) \cup qs) /\ KeepsServed(ps, (ps \ found) \cup qs)
  BY <1>1, <1>2, <1>3, RewriteKeepsTable
<1> QED  BY <1>4 DEF qs

\* Noting that some entries were heard of.
LEMMA HeardKeepsTable ==
    ASSUME NEW ps, TableOK(ps), NEW found \in SUBSET ps
    PROVE  /\ TableOK((ps \ found) \cup {Heard(p) : p \in found})
           /\ KeepsServed(ps, (ps \ found) \cup {Heard(p) : p \in found})
<1> DEFINE f  == [p \in found |-> Heard(p)]
           qs == {Heard(p) : p \in found}
<1>1. f \in [found -> Peer]
  BY EntryTypes DEF TableOK
<1>2. \A p \in found :
        /\ f[p].addr = p.addr /\ f[p].username = p.username
        /\ p.use_server_relay => f[p].use_server_relay
        /\ f[p].use_server_relay => f[p].connected /\ f[p].relay_requested
  BY DEF TableOK, Peer, Heard
<1>3. (\A q \in qs : \E p \in found : q = f[p]) /\ \A p \in found : f[p] \in qs
  OBVIOUS
<1> HIDE DEF f, qs
<1>4. TableOK((ps \ found) \cup qs) /\ KeepsServed(ps, (ps \ found) \cup qs)
  BY <1>1, <1>2, <1>3, RewriteKeepsTable
<1> QED  BY <1>4 DEF qs

\* Marking some entries served by the server.
LEMMA ServedKeepsTable ==
    ASSUME NEW ps, TableOK(ps), NEW found \in SUBSET ps
    PROVE  /\ TableOK((ps \ found) \cup {Served(p) : p \in found})
           /\ KeepsServed(ps, (ps \ found) \cup {Served(p) : p \in found})
<1> DEFINE f  == [p \in found |-> Served(p)]
           qs == {Served(p) : p \in found}
<1>1. f \in [found -> Peer]
  BY EntryTypes DEF TableOK
<1>2. \A p \in found :
        /\ f[p].addr = p.addr /\ f[p].username = p.username
        /\ p.use_server_relay => f[p].use_server_relay
        /\ f[p].use_server_relay => f[p].connected /\ f[p].relay_requested
  BY DEF TableOK, Peer, Served
<1>3. (\A q \in qs : \E p \in found : q = f[p]) /\ \A p \in found : f[p] \in qs
  OBVIOUS
<1> HIDE DEF f, qs
<1>4. TableOK((ps \ found) \cup qs) /\ KeepsServed(ps, (ps \ found) \cup qs)
  BY <1>1, <1>2, <1>3, RewriteKeepsTable
<1> QED  BY <1>4 DEF qs

\* Noting that the server was asked to relay for some entries.
LEMMA RequestedKeepsTable ==
    ASSUME NEW ps, TableOK(ps), NEW found \in SUBSET ps
    PROVE  /\ TableOK((ps \ found) \cup {[p EXCEPT !.relay_requested = TRUE] : p \in found})
           /\ KeepsServed(ps, (ps \ found)
                                \cup {[p EXCEPT !.relay_requested = TRUE] : p \in found})
<1> DEFINE f  == [p \in found |-> [p EXCEPT !.relay_requested = TRUE]]
           qs == {[p EXCEPT !.relay_requested = TRUE] : p \in found}
<1>1. f \in [found -> Peer]
  BY EntryTypes DEF TableOK
<1>2. \A p \in found :
        /\ f[p].addr = p.addr /\ f[p].username = p.username
        /\ p.use_server_relay => f[p].use_server_relay
        /\ f[p].use_server_relay => f[p].connected /\ f[p].relay_requested
  BY DEF TableOK, Peer
<1>3. (\A q \in qs : \E p \in found : q = f[p]) /\ \A p \in found : f[p] \in qs
  OBVIOUS
<1> HIDE DEF f, qs
<1>4. TableOK((ps \ found) \cup qs) /\ KeepsServed(ps, (ps \ found) \cup qs)
  BY <1>1, <1>2, <1>3, RewriteKeepsTable
<1> QED  BY <1>4 DEF qs

\* Dropping entries.
LEMMA SubsetKeepsTable ==
    ASSUME NEW ps, TableOK(ps), NEW qs \in SUBSET ps
    PROVE  TableOK(qs)
BY DEF TableOK

\* A new entry.
LEMMA AddKeepsTable ==
    ASSUME NEW ps, TableOK(ps), Later(ps) # {}, NEW name \in Names, NEW addr \in Addrs
    PROVE  /\ TableOK(AddPeer(ps, Me, name, addr))
           /\ KeepsServed(ps, AddPeer(ps, Me, name, addr))
<1> DEFINE new == NewPeer(name, addr, Now(ps))
<1>1. Now(ps) \in 1 .. InstantLimit
  BY DEF Now, Later
<1>2. /\ new \in Peer /\ new.addr = addr /\ new.username = name
      /\ ~new.use_server_relay
  BY <1>1 DEF NewPeer, Peer
<1> HIDE DEF new
<1>3. CASE name = Me \/ At(ps, addr) # {}
  BY <1>3 DEF AddPeer, KeepsServed
<1>4. CASE name # Me /\ At(ps, addr) = {}
  <2>1. AddPeer(ps, Me, name, addr) = ps \cup {new}
    BY <1>4 DEF AddPeer, new
  <2>2. \A p \in ps : p.addr # addr
    BY <1>4 DEF At
  <2> QED  BY <1>2, <1>4, <2>1, <2>2 DEF TableOK, KeepsServed
<1> QED  BY <1>3, <1>4

\* What the handlers do to the table.
LEMMA MarksKeepTable ==
    ASSUME NEW ps, TableOK(ps), NEW addr, NEW name
    PROVE  /\ TableOK(MarkAt(ps, addr)) /\ KeepsServed(ps, MarkAt(ps, addr))
           /\ TableOK(MarkPong(ps, addr)) /\ KeepsServed(ps, MarkPong(ps, addr))
           /\ TableOK(MarkCalled(ps, name)) /\ KeepsServed(ps, MarkCalled(ps, name))
           /\ TableOK(MarkServed(ps, name)) /\ KeepsServed(ps, MarkServed(ps, name))
<1>1. At(ps, addr) \in SUBSET ps
  BY DEF At
<1>2. Oldest(Called(ps, name)) \in SUBSET ps
  BY DEF Oldest, Called
<1>3. TableOK(MarkAt(ps, addr)) /\ KeepsServed(ps, MarkAt(ps, addr))
  BY <1>1, ConnectedKeepsTable DEF MarkAt
<1>4. TableOK(MarkPong(ps, addr)) /\ KeepsServed(ps, MarkPong(ps, addr))
  BY <1>1, HeardKeepsTable DEF MarkPong
<1>5. TableOK(MarkCalled(ps, name)) /\ KeepsServed(ps, MarkCalled(ps, name))
  BY <1>2, ConnectedKeepsTable DEF MarkCalled
<1>6. TableOK(MarkServed(ps, name)) /\ KeepsServed(ps, MarkServed(ps, name))
  BY <1>2, ServedKeepsTable DEF MarkServed
<1> QED  BY <1>3, <1>4, <1>5, <1>6

\* USER_LEFT removes the entries of one name.
LEMMA DropKeepsTable ==
    ASSUME NEW ps, TableOK(ps), NEW name
    PROVE  /\ TableOK(DropCalled(ps, name))
           /\ \A p \in ps : p.username # name => p \in DropCalled(ps, name)
<1>1. DropCalled(ps, name) \in SUBSET ps
  BY DEF DropCalled
<1>2. TableOK(DropCalled(ps, name))
  BY <1>1, SubsetKeepsTable
<1> QED  BY <1>2 DEF DropCalled, Called

\* A keepalive round drops entries nobody serves, and asks for others.
LEMMA RoundKeepsTable ==
    ASSUME NEW ps, TableOK(ps)
    PROVE  TableOK(AfterRound(ps)) /\ KeepsServed(ps, AfterRound(ps))
<1> DEFINE kept  == ps \ Expired(ps)
           asked == Unreached(ps)
           after == (kept \ asked) \cup {[p EXCEPT !.relay_requested = TRUE] : p \in asked}
<1>1. kept \in SUBSET ps /\ asked \in SUBSET kept
  BY DEF Unreached, Watched
<1>2. \A p \in ps : p.use_server_relay => p \in kept
  BY DEF Expired, Watched
<1>3. AfterRound(ps) = after
  BY DEF AfterRound
<1> HIDE DEF kept, asked
<1>4. TableOK(kept)
  BY <1>1, SubsetKeepsTable
<1>5. TableOK(after) /\ KeepsServed(kept, after)
  BY <1>1, <1>4, RequestedKeepsTable
<1> HIDE DEF after
<1> QED  BY <1>2, <1>3, <1>5 DEF KeepsServed

\* Time changes nothing but late and overdue.
LEMMA AgeKeepsTable ==
    ASSUME TableOK(peers), Age
    PROVE  TableOK(peers') /\ KeepsServed(peers, peers')
<1>0. PICK p \in peers :
        \/ peers' = (peers \ {p}) \cup {[p EXCEPT !.late = TRUE]}
        \/ peers' = (peers \ {p}) \cup {[p EXCEPT !.overdue = TRUE]}
  BY DEF Age
<1>1. PICK r \in {[p EXCEPT !.late = TRUE], [p EXCEPT !.overdue = TRUE]} :
        peers' = (peers \ {p}) \cup {r}
  BY <1>0
<1>2. p \in Peer
  BY DEF TableOK
<1>3. /\ r \in Peer /\ r.addr = p.addr /\ r.username = p.username
      /\ r.use_server_relay = p.use_server_relay
      /\ r.connected = p.connected /\ r.relay_requested = p.relay_requested
  BY <1>1, <1>2 DEF Peer
<1>4. \A q \in peers \ {p} : q.addr # r.addr
  BY <1>3 DEF TableOK
<1>5. TableOK(peers')
  BY <1>1, <1>3, <1>4 DEF TableOK
<1>6. KeepsServed(peers, peers')
  BY <1>1, <1>3 DEF KeepsServed
<1> QED  BY <1>5, <1>6

\* Every step keeps the table sound, and only USER_LEFT drops a served entry.
LEMMA TableNext ==
    ASSUME ClientInv, [Next]_vars
    PROVE  /\ TableOK(peers')
           /\ \/ KeepsServed(peers, peers')
              \/ /\ main = "handle" /\ packet.type = "USER_LEFT"
                 /\ \A p \in peers : p.username # packet.name => p \in peers'
<1> USE DEF ClientInv
<1>0. KeepsServed(peers, peers)
  BY DEF KeepsServed
<1>1. ASSUME peers' = peers
      PROVE  TableOK(peers') /\ KeepsServed(peers, peers')
  BY <1>0, <1>1
<1>2. CASE Greet
  BY <1>2, MarksKeepTable DEF Greet
<1>3. CASE HandleTable
  <2>1. CASE packet.type = "MODE DIRECT"
    <3>1. packet.name \in Names /\ packet.addr \in Addrs
      BY <1>3, <2>1, InboxAssumption DEF HandleTable, AtHand, packet
    <3> QED  BY <1>3, <2>1, <3>1, AddKeepsTable DEF HandleTable
  <2>2. CASE packet.type = "USER_LEFT"
    BY <1>3, <2>2, DropKeepsTable DEF HandleTable
  <2>3. CASE packet.type \in {"PONG", "HOLE_PUNCH"}
    BY <1>3, <2>3, MarksKeepTable DEF HandleTable
  <2> QED  BY <1>3, <2>1, <2>2, <2>3 DEF HandleTable
<1>4. CASE MarkPeerServed \/ HearData
  BY <1>4, MarksKeepTable DEF MarkPeerServed, HearData
<1>5. CASE Round
  BY <1>5, RoundKeepsTable DEF Round
<1>6. CASE Age
  BY <1>6, AgeKeepsTable
<1>7. CASE \/ \E d \in Inbox : Receive(d)
           \/ HandlePing \/ BecomeRelay \/ NoteServerRelay \/ PassOn \/ IgnoreWelcome
           \/ Respond \/ Update \/ StartThreads \/ GiveUpSetup
  <2>1. peers' = peers
    BY <1>7 DEF Receive, HandlePing, BecomeRelay, NoteServerRelay, PassOn, IgnoreWelcome,
                Respond, Update, StartThreads, GiveUpSetup
  <2> QED  BY <1>1, <2>1
<1>8. CASE \/ PunchStep \/ KeepaliveCheck \/ KeepaliveTop \/ KeepaliveWakes
           \/ TypeLine \/ InputStep \/ SendHeartbeat \/ UNCHANGED vars
  <2>1. peers' = peers
    BY <1>8 DEF PunchStep, PunchCheck, PunchPass, KeepaliveCheck, KeepaliveTop, KeepaliveWakes,
                TypeLine, InputStep, SendViaServer, SendToPeers, Mirror, SendHeartbeat, vars
  <2> QED  BY <1>1, <2>1
<1> QED  BY <1>2, <1>3, <1>4, <1>5, <1>6, <1>7, <1>8 DEF Next, MainStep, KeepaliveStep

----------------------------------------------------------------------------
(* The steps *)

\* The flags and the places of the threads: TypeOK but for the table.
Flags ==
    /\ is_relay \in BOOLEAN /\ channel_has_server_relays \in BOOLEAN
    /\ send_via_server \in BOOLEAN /\ paused \in BOOLEAN /\ is_active \in BOOLEAN
    /\ setup \in BOOLEAN /\ via \in BOOLEAN

Places ==
    /\ main \in {"recv", "greet", "handle", "served", "forward", "respond", "update", "start"}
    /\ current \in Inbox \cup {None}
    /\ punch \in {"off", "check", "waiting", "pass"}
    /\ keepalive \in {"off", "check", "waiting", "active", "round", "nap"}
    /\ input \in {"off", "idle", "typed", "mirror"}

\* Every step keeps the types of the flags.
LEMMA FlagsNext ==
    ASSUME Flags, [Next]_vars
    PROVE  Flags'
<1> USE DEF Flags, roles, mainVars, inputVars
<1>1. ASSUME NEW d \in Inbox, Receive(d) PROVE Flags'
  BY <1>1 DEF Receive
<1>2. CASE Greet
  BY <1>2 DEF Greet
<1>3. CASE HandlePing \/ IgnoreWelcome
  BY <1>3 DEF HandlePing, IgnoreWelcome
<1>4. CASE HandleTable
  BY <1>4 DEF HandleTable
<1>5. CASE BecomeRelay
  BY <1>5 DEF BecomeRelay
<1>6. CASE NoteServerRelay
  BY <1>6 DEF NoteServerRelay
<1>7. CASE MarkPeerServed \/ HearData \/ PassOn
  BY <1>7 DEF MarkPeerServed, HearData, PassOn
<1>8. CASE Respond
  BY <1>8 DEF Respond, ViaServerFor, PauseFor
<1>9. CASE Update
  BY <1>9 DEF Update, Active
<1>10. CASE StartThreads \/ GiveUpSetup
  BY <1>10 DEF StartThreads, GiveUpSetup
<1>11. CASE PunchStep
  BY <1>11 DEF PunchStep, PunchCheck, PunchPass
<1>12. CASE KeepaliveStep
  BY <1>12 DEF KeepaliveStep, KeepaliveCheck, KeepaliveTop, Round, KeepaliveWakes
<1>13. CASE TypeLine \/ InputStep
  BY <1>13 DEF TypeLine, InputStep, SendViaServer, SendToPeers, Mirror
<1>14. CASE SendHeartbeat \/ Age \/ UNCHANGED vars
  BY <1>14 DEF SendHeartbeat, Age, vars
<1> QED  BY <1>1, <1>2, <1>3, <1>4, <1>5, <1>6, <1>7, <1>8, <1>9, <1>10, <1>11, <1>12,
            <1>13, <1>14 DEF Next, MainStep

\* Every step leaves the threads at places they have.
LEMMA PlacesNext ==
    ASSUME Places, [Next]_vars
    PROVE  Places'
<1> USE DEF Places, roles, mainVars, inputVars
<1>1. ASSUME NEW d \in Inbox, Receive(d) PROVE Places'
  BY <1>1 DEF Receive
<1>2. CASE Greet \/ HearData
  BY <1>2 DEF Greet, HearData
<1>3. CASE HandlePing \/ IgnoreWelcome
  BY <1>3 DEF HandlePing, IgnoreWelcome, Handled
<1>4. CASE HandleTable
  BY <1>4 DEF HandleTable, Handled
<1>5. CASE BecomeRelay
  BY <1>5 DEF BecomeRelay, Handled
<1>6. CASE NoteServerRelay
  BY <1>6 DEF NoteServerRelay, Handled
<1>7. CASE MarkPeerServed \/ PassOn
  BY <1>7 DEF MarkPeerServed, PassOn, Handled
<1>8. CASE Respond
  BY <1>8 DEF Respond, Woken
<1>9. CASE Update
  BY <1>9 DEF Update, Woken
<1>10. CASE StartThreads \/ GiveUpSetup
  BY <1>10 DEF StartThreads, GiveUpSetup
<1>11. CASE PunchStep
  BY <1>11 DEF PunchStep, PunchCheck, PunchPass
<1>12. CASE KeepaliveStep
  BY <1>12 DEF KeepaliveStep, KeepaliveCheck, KeepaliveTop, Round, KeepaliveWakes
<1>13. CASE TypeLine \/ InputStep
  BY <1>13 DEF TypeLine, InputStep, SendViaServer, SendToPeers, Mirror, FreeTable
<1>14. CASE SendHeartbeat \/ Age \/ UNCHANGED vars
  BY <1>14 DEF SendHeartbeat, Age, vars
<1> QED  BY <1>1, <1>2, <1>3, <1>4, <1>5, <1>6, <1>7, <1>8, <1>9, <1>10, <1>11, <1>12,
            <1>13, <1>14 DEF Next, MainStep

\* The role and the switch of the relay loop stay as they are.
RoleKept ==
    /\ is_relay' = is_relay
    /\ channel_has_server_relays' = channel_has_server_relays
    /\ is_active' = is_active

\* Where the roles are in step, from a place where they are; elsewhere the
\* main thread has still to come by Update.
InStep == {"recv", "start", "greet", "handle", "forward"}

LEMMA RoleKeptSuffices ==
    ASSUME RolesFit, RoleKept, main' \in InStep => main \in InStep
    PROVE  RolesFit'
BY Zenon DEF RolesFit, RoleKept, InStep

\* Every step keeps the roles where they should be.
LEMMA RolesFitNext ==
    ASSUME AtHand, RolesFit, [Next]_vars
    PROVE  RolesFit'
<1> USE DEF roles, mainVars, inputVars
<1>1. ASSUME NEW d \in Inbox, Receive(d) PROVE RolesFit'
  <2>1. RoleKept /\ main \in InStep
    BY <1>1 DEF Receive, RoleKept, InStep
  <2> QED  BY <2>1, RoleKeptSuffices
<1>2. CASE Greet \/ HandlePing \/ IgnoreWelcome \/ HearData
  <2>1. RoleKept /\ main \in InStep
    BY <1>2 DEF Greet, HandlePing, IgnoreWelcome, HearData, Handling, RoleKept, InStep
  <2> QED  BY <2>1, RoleKeptSuffices
<1>3. CASE HandleTable \/ PassOn
  <2>1. RoleKept /\ main \in InStep
    BY <1>3 DEF HandleTable, PassOn, RoleKept, InStep
  <2> QED  BY <2>1, RoleKeptSuffices
<1>4. CASE BecomeRelay
  <2>1. from = Server
    BY <1>4, InboxAssumption DEF BecomeRelay, Handling, AtHand, from, packet
  <2>2. main' = "respond" /\ is_relay' = TRUE
    BY <1>4, <2>1 DEF BecomeRelay, Handled
  <2> QED  BY <2>2 DEF RolesFit, InStep
<1>5. CASE NoteServerRelay
  <2>1. from = Server
    BY <1>5, InboxAssumption DEF NoteServerRelay, Handling, AtHand, from, packet
  <2>2. main' \in {"respond", "served"}
    BY <1>5, <2>1 DEF NoteServerRelay, Handled
  <2>3. is_relay' = is_relay /\ channel_has_server_relays' \in {channel_has_server_relays,
                                       channel_has_server_relays \/ is_relay}
    BY <1>5 DEF NoteServerRelay
  <2>4. channel_has_server_relays' => is_relay'
    BY <2>3 DEF RolesFit
  <2> QED  BY <2>2, <2>4 DEF RolesFit, InStep
<1>6. CASE MarkPeerServed
  <2>1. from = Server
    BY <1>6, InboxAssumption DEF MarkPeerServed, AtHand, from, packet
  <2>2. main' = "respond" /\ RoleKept
    BY <1>6, <2>1 DEF MarkPeerServed, Handled, RoleKept
  <2> QED  BY <2>2, RoleKeptSuffices DEF InStep
<1>7. CASE Respond
  <2>1. main' = "update" /\ is_relay' = is_relay
    BY <1>7 DEF Respond
  <2>2. channel_has_server_relays' =
          (channel_has_server_relays
             \/ (packet.type = "MODE SERVER_RELAY" /\ packet.name # Me /\ is_relay))
    BY <1>7 DEF Respond
  <2>3. channel_has_server_relays' => is_relay'
    BY <2>1, <2>2 DEF RolesFit
  <2> QED  BY <2>1, <2>3 DEF RolesFit, InStep
<1>8. CASE Update
  <2>1. /\ is_relay' = is_relay
        /\ channel_has_server_relays' = channel_has_server_relays
        /\ is_active' = (is_relay \/ channel_has_server_relays)
    BY <1>8 DEF Update, Active
  <2> QED  BY Zenon, <2>1 DEF RolesFit
<1>9. CASE StartThreads \/ GiveUpSetup
  <2>1. RoleKept /\ main \in InStep
    BY <1>9 DEF StartThreads, GiveUpSetup, RoleKept, InStep
  <2> QED  BY <2>1, RoleKeptSuffices
<1>10. CASE PunchStep \/ KeepaliveStep
  <2>1. RoleKept /\ main' = main
    BY <1>10 DEF PunchStep, PunchCheck, PunchPass,
                 KeepaliveStep, KeepaliveCheck, KeepaliveTop, Round, KeepaliveWakes, RoleKept
  <2> QED  BY <2>1, RoleKeptSuffices
<1>11. CASE TypeLine \/ InputStep
  <2>1. RoleKept /\ main' = main
    BY <1>11 DEF TypeLine, InputStep, SendViaServer, SendToPeers, Mirror, RoleKept
  <2> QED  BY <2>1, RoleKeptSuffices
<1>12. CASE SendHeartbeat \/ Age \/ UNCHANGED vars
  <2>1. RoleKept /\ main' = main
    BY <1>12 DEF SendHeartbeat, Age, vars, RoleKept
  <2> QED  BY <2>1, RoleKeptSuffices
<1> QED  BY <1>1, <1>2, <1>3, <1>4, <1>5, <1>6, <1>7, <1>8, <1>9, <1>10, <1>11, <1>12
         DEF Next, MainStep

\* Every step leaves the main thread with what its place says.
LEMMA AtHandNext ==
    ASSUME AtHand, [Next]_vars
    PROVE  AtHand'
<1> USE DEF AtHand, mainVars, packet
<1>1. ASSUME NEW d \in Inbox, Receive(d) PROVE AtHand'
  BY <1>1 DEF Receive
<1>2. CASE Greet \/ HearData
  BY <1>2 DEF Greet, HearData, Handling
<1>3. CASE HandlePing \/ IgnoreWelcome
  BY <1>3 DEF HandlePing, IgnoreWelcome, Handling, Handled
<1>4. CASE HandleTable
  BY <1>4 DEF HandleTable, Handled
<1>5. CASE BecomeRelay
  BY <1>5 DEF BecomeRelay, Handling, Handled
<1>6. CASE NoteServerRelay
  BY <1>6 DEF NoteServerRelay, Handling, Handled
<1>7. CASE MarkPeerServed \/ PassOn
  BY <1>7 DEF MarkPeerServed, PassOn, Handled
<1>8. CASE Respond \/ Update
  BY <1>8 DEF Respond, Update
<1>9. CASE StartThreads \/ GiveUpSetup
  BY <1>9 DEF StartThreads, GiveUpSetup
<1>10. CASE PunchStep \/ KeepaliveStep \/ TypeLine \/ InputStep
            \/ SendHeartbeat \/ Age \/ UNCHANGED vars
  <2>1. main' = main /\ current' = current
    BY <1>10 DEF PunchStep, PunchCheck, PunchPass,
                 KeepaliveStep, KeepaliveCheck, KeepaliveTop, Round, KeepaliveWakes,
                 TypeLine, InputStep, SendViaServer, SendToPeers, Mirror,
                 SendHeartbeat, Age, vars
  <2> QED  BY <2>1
<1> QED  BY <1>1, <1>2, <1>3, <1>4, <1>5, <1>6, <1>7, <1>8, <1>9, <1>10 DEF Next, MainStep

\* The invariant of a client: types, a sound table, roles that fit the main
\* thread's place.
THEOREM ClientCorrect == Spec => []ClientInv
<1>1. Init => ClientInv
  <2>1. Init => TypeOK
    BY DEF Init, TypeOK
  <2>2. Init => TableOK(peers)
    BY DEF Init, TableOK
  <2>3. Init => AtHand /\ RolesFit
    BY DEF Init, AtHand, RolesFit
  <2> QED  BY <2>1, <2>2, <2>3 DEF ClientInv
<1>2. ClientInv /\ [Next]_vars => ClientInv'
  <2> SUFFICES ASSUME ClientInv, [Next]_vars
               PROVE  ClientInv'
    OBVIOUS
  <2>1. TableOK(peers')
    BY TableNext
  <2>2. Flags' /\ Places'
    BY FlagsNext, PlacesNext DEF ClientInv, TypeOK, Flags, Places
  <2>3. TypeOK'
    BY <2>1, <2>2 DEF TableOK, TypeOK, Flags, Places
  <2>4. AtHand' /\ RolesFit'
    BY AtHandNext, RolesFitNext DEF ClientInv
  <2> QED  BY <2>1, <2>3, <2>4 DEF ClientInv
<1>3. QED  BY <1>1, <1>2, PTL DEF Spec, SafetySpec

\* The client's state has its types.
THEOREM ClientTypeCorrect == Spec => []TypeOK
<1>1. ClientInv => TypeOK
  BY DEF ClientInv
<1> QED  BY <1>1, ClientCorrect, PTL

\* No two entries of the peer table share an address, and none is the client's.
THEOREM OneEntryPerAddressHolds == Spec => []OneEntryPerAddress
<1>1. ClientInv => OneEntryPerAddress
  BY DEF ClientInv, TableOK, OneEntryPerAddress
<1> QED  BY <1>1, ClientCorrect, PTL

\* An entry the server relays for is connected and asked for.
THEOREM ServedSettledHolds == Spec => []ServedSettled
<1>1. ClientInv => ServedSettled
  BY DEF ClientInv, TableOK, ServedSettled
<1> QED  BY <1>1, ClientCorrect, PTL

\* Whenever the main thread listens, the relay loop is switched as the role says.
THEOREM SwitchedAsRoleHolds == Spec => []SwitchedAsRole
<1>1. ClientInv => SwitchedAsRole
  BY Zenon DEF ClientInv, RolesFit, SwitchedAsRole
<1> QED  BY <1>1, ClientCorrect, PTL

\* An entry the server relays for stays until USER_LEFT names it.
THEOREM ServedStayHolds == Spec => ServedStay
<1> DEFINE Stay == \A p \in peers : p.use_server_relay =>
             \/ \E q \in peers' : q.addr = p.addr /\ q.username = p.username /\ q.use_server_relay
             \/ main = "handle" /\ packet.type = "USER_LEFT" /\ packet.name = p.username
<1>1. ClientInv /\ [Next]_vars => [Stay]_vars
  BY TableNext DEF KeepsServed
<1>2. ServedStay <=> [][Stay]_vars
  BY DEF ServedStay
<1> HIDE DEF Stay
<1> QED  BY <1>1, <1>2, ClientCorrect, PTL DEF Spec, SafetySpec
=============================================================================
