---------------------------- MODULE HearingProofs ----------------------------
(***************************************************************************)
(* What the server and its clients achieve together: they agree who the    *)
(* relay is, the relay and its peers know each other, the relay mirrors    *)
(* for those the server serves, and what a member says in a channel that   *)
(* has settled every other member hears.  For every number of users in     *)
(* one channel, every NAT, every set of paths that can be opened and       *)
(* every order of everything that happens, as long as no process crashes.  *)
(*                                                                         *)
(* With what is true of the channel (Calm, in PiercerProofs) four things   *)
(* are true at every moment (Attentive).  Nobody believes more of another  *)
(* than the server has decided: what is on its way (GenuineMail) and what  *)
(* tables say (TrueTables) name the relay and the users the server         *)
(* serves, and a peer is marked as reached only over a path that is open,  *)
(* or because the server serves one of the two.  Who is served sends to    *)
(* the server, or is about to be told to (TrueRoles).  The relay learns    *)
(* that the server serves a peer before it would take that peer for lost   *)
(* (Timely).  And until a user has heard the last line, a copy of it is    *)
(* on a path that leads to the user (LineComes).                           *)
(***************************************************************************)
EXTENDS PiercerProofs

----------------------------------------------------------------------------
(* The invariant *)

\* What the server has decided of a user.
MemberName(o) == \E k \in DOMAIN st : \E u \in st[k].users : u.name = o
ServedName(o) == \E k \in DOMAIN st : \E u \in st[k].users : u.name = o /\ u.needs_server_relay
Relays(o) == o # None /\ \E k \in DOMAIN st : st[k].relay = o
RelayAt(a) == \E r \in Running : Relays(r) /\ clients[r].addr = a

\* n and o may take each other for reached.
Clear(n, o) == {clients[n].addr, clients[o].addr} \in Open \/ ServedName(n) \/ ServedName(o)

\* m comes from its author, whom the server serves.
FromServed(m) ==
    /\ m[2].name \in Running /\ clients[m[2].name].addr = m[1]
    /\ ServedName(m[2].name)

\* A line that arrives at n shows that n and its author reach each other, or
\* comes from a relay that is neither.
Reaches(n, author) ==
    /\ n # author
    /\ Clear(n, author) \/ \E r \in Running : Relays(r) /\ r # n /\ r # author

\* What is on its way to a says no more than what the server has decided.
Genuine(a, m) ==
    /\ a # Server /\ m[1] # Server => {m[1], a} \in Open
    /\ m[2].type = "MODE RELAY" => RelayAt(a)
    /\ m[2].type = "MODE DIRECT" => MemberName(m[2].name) /\ (Relays(m[2].name) \/ RelayAt(a))
    /\ m[2].type = "MODE SERVER_RELAY" => ServedName(m[2].name)
    /\ m[2].type = "REQUEST_RELAY" =>
         MemberName(m[2].name) /\ \E r \in Running : Relays(r) /\ r # m[2].name
    /\ m[2].type = "DATA" =>
         /\ m[2].name \in Running
         /\ a = Server => RelayAt(m[1]) \/ FromServed(m)
         /\ a # Server => \E n \in Running : clients[n].addr = a /\ Reaches(n, m[2].name)

GenuineMail == \A a \in DOMAIN net : \A m \in Contents(net[a]) : Genuine(a, m)

\* What n believes, and what it holds of a peer, is so.
TrueEntry(n, p) ==
    /\ p.username # n /\ MemberName(p.username)
    /\ Relays(n) \/ Relays(p.username)
    /\ p.connected => Clear(n, p.username)
    /\ p.use_server_relay => ServedName(p.username)

TrueTable(n, c) ==
    /\ c.is_relay => Relays(n)
    /\ c.send_via_server => ServedName(n)
    /\ \A p \in c.peers : TrueEntry(n, p)

TrueTables == \A n \in Running : TrueTable(n, clients[n])

WillUseServer(n) ==
    \/ clients[n].send_via_server
    \/ \E m \in Contents(net[clients[n].addr]) : m[2].type = "MODE SERVER_RELAY" /\ m[2].name = n

\* A relay is not served.  Who is served will send to the server, once the
\* join of the last member is announced, and in a channel without a relay
\* everyone is served.
TrueRoles ==
    /\ \A o : Relays(o) => ~ServedName(o)
    /\ \A k \in DOMAIN st : ~(main = "notify" /\ notifyKey = k) =>
         \A u \in st[k].users :
            /\ u.needs_server_relay => WillUseServer(u.name)
            /\ st[k].relay = None => u.needs_server_relay

TrueNotes == \A p \in notes : p.type = "MODE SERVER_RELAY" => ServedName(p.name)

\* Of a line m on its way to b, u will get a copy: from the server, which
\* forwards it to u, or from a relay, which passes it on to u or mirrors it.
ByServer(u, m) ==
    m[2].name # u /\ (FromServed(m) \/ (RelayAt(m[1]) /\ ServedName(u)))

ByRelay(r, u, m) ==
    /\ clients[r].is_relay /\ m[2].name # u
    /\ \/ clients[r].channel_has_server_relays /\ ServedName(u)
       \/ \E p \in clients[r].peers : p.username = u /\ {clients[r].addr, p.addr} \in Open

Carries(u, b, m) ==
    /\ m[2].type = "DATA"
    /\ \/ b = clients[u].addr
       \/ b = Server /\ ByServer(u, m)
       \/ \E r \in Running : b = clients[r].addr /\ ByRelay(r, u, m)

Coming(u) == \E b \in DOMAIN net : \E m \in Contents(net[b]) : Carries(u, b, m)

LineComes == \A u \in unheard : u \in Running /\ MemberName(u) /\ Coming(u)

\* What tells the relay of a peer o, and what tells it that the server serves o.
Introduces(m, o) == m[2].type = "MODE DIRECT" /\ m[2].name = o
TakesOver(m, o) == m[2].type = "MODE SERVER_RELAY" /\ m[2].name = o

\* n has asked the server to relay for o.
Asked(n, o) ==
    \E m \in Contents(net[Server]) :
       m[1] = clients[n].addr /\ m[2].type = "REQUEST_RELAY" /\ m[2].name = o

\* An entry of the relay n that it still watches: the server serves its peer
\* before n takes it for lost, and n is about to hear of it.
TimelyEntry(n, p) ==
    ~p.use_server_relay =>
      /\ ~p.overdue
      /\ p.relay_requested => ServedName(p.username) \/ Asked(n, p.username)
      /\ ServedName(p.username) =>
           \E m \in Contents(net[clients[n].addr]) : TakesOver(m, p.username)

\* A peer is in the table once, and who is introduced to the relay before it
\* is served is so to the relay.
TimelyTable(n) ==
    /\ \A p \in clients[n].peers : TimelyEntry(n, p)
    /\ \A p, q \in clients[n].peers : p.username = q.username => p = q
    /\ \A o : ServedName(o) /\ (\A p \in clients[n].peers : p.username # o) =>
         \A x \in Contents(net[clients[n].addr]) : Introduces(x, o) =>
           \E y : TakesOver(y, o) /\ InOrder(net[clients[n].addr], x, y)

Timely == \A n \in Running : Relays(n) => TimelyTable(n)

Attentive == GenuineMail /\ TrueTables /\ TrueRoles /\ TrueNotes /\ LineComes /\ Timely

\* A relay takes no peer that it watches for lost.
LEMMA AttentiveHeeds ==
    ASSUME Attentive
    PROVE  Heeded
<1> SUFFICES ASSUME NEW n \in Running, clients[n].is_relay, NEW p \in Watched(clients[n].peers)
             PROVE  ~p.overdue
  BY DEF Heeded
<1>1. TimelyTable(n)
  BY DEF Attentive, TrueTables, TrueTable, Timely
<1> QED  BY <1>1 DEF TimelyTable, TimelyEntry, Watched

----------------------------------------------------------------------------
(* There is one channel *)

LEMMA OneRelay ==
    ASSUME Calm, OneChannel, NEW r, NEW o, Relays(r), Relays(o)
    PROVE  r = o
BY DEF Calm, StateTypes, OneChannel, Relays

\* The relay is a member, and its client runs.
LEMMA RelayIsMember ==
    ASSUME Calm, NEW r, Relays(r)
    PROVE  /\ r \in Running
           /\ \E k \in DOMAIN st : \E u \in st[k].users :
                u.name = r /\ st[k].relay = r /\ clients[r].addr = u.addr
<1>1. PICK k \in DOMAIN st : st[k].relay = r /\ r # None
  BY DEF Relays
<1>2. PICK u \in st[k].users : st[k].relay = u.name
  BY <1>1 DEF Calm, Roles
<1>3. u.name \in Running /\ clients[u.name].addr = u.addr
  BY DEF Calm, Members, Beating
<1> QED  BY <1>1, <1>2, <1>3

LEMMA MemberRuns ==
    ASSUME Calm, NEW o, MemberName(o)
    PROVE  o \in Running
BY DEF MemberName, Calm, Members, Beating

\* Who is at the relay's address is the relay.
LEMMA RelayThere ==
    ASSUME Calm, NEW n \in Running, RelayAt(clients[n].addr)
    PROVE  Relays(n)
BY DEF RelayAt, Calm, Processes

----------------------------------------------------------------------------
(* What the server has decided it does not take back *)

Grew ==
    /\ Steady
    /\ \A o : /\ MemberName(o) => MemberName(o)'
              /\ ServedName(o) => ServedName(o)'
              /\ Relays(o) => Relays(o)'

LEMMA SameChannelGrows ==
    ASSUME Steady, st' = st
    PROVE  Grew
BY DEF Grew, MemberName, ServedName, Relays

LEMMA ClearStays ==
    ASSUME Grew, NEW n \in Running, NEW o \in Running, Clear(n, o)
    PROVE  Clear(n, o)'
BY DEF Grew, Steady, Clear

LEMMA RelayAtStays ==
    ASSUME Grew, NEW a, RelayAt(a)
    PROVE  RelayAt(a)'
BY DEF Grew, Steady, RelayAt

LEMMA GenuineStays ==
    ASSUME Grew, NEW a, NEW m, Genuine(a, m)
    PROVE  Genuine(a, m)'
<1>1. RelayAt(a) => RelayAt(a)'
  BY RelayAtStays
<1>2. /\ a # Server /\ m[1] # Server => {m[1], a} \in Open
      /\ m[2].type = "MODE RELAY" => RelayAt(a)'
      /\ m[2].type = "MODE DIRECT" => MemberName(m[2].name)' /\ (Relays(m[2].name)' \/ RelayAt(a)')
      /\ m[2].type = "MODE SERVER_RELAY" => ServedName(m[2].name)'
  BY <1>1 DEF Genuine, Grew
<1>3. m[2].type = "REQUEST_RELAY" =>
         MemberName(m[2].name)' /\ \E r \in Running' : Relays(r)' /\ r # m[2].name
  BY DEF Genuine, Grew, Steady
<1>4. ASSUME m[2].type = "DATA"
      PROVE  /\ m[2].name \in Running'
             /\ a = Server => RelayAt(m[1])' \/ FromServed(m)'
             /\ a # Server => \E n \in Running' : clients'[n].addr = a /\ Reaches(n, m[2].name)'
  <2>1. m[2].name \in Running /\ m[2].name \in Running'
    BY <1>4 DEF Genuine, Grew, Steady
  <2>2. ASSUME a = Server
        PROVE  RelayAt(m[1])' \/ FromServed(m)'
    <3>1. RelayAt(m[1]) => RelayAt(m[1])'
      BY RelayAtStays
    <3>2. FromServed(m) => FromServed(m)'
      BY DEF FromServed, Grew, Steady
    <3> QED  BY <1>4, <2>2, <3>1, <3>2 DEF Genuine
  <2>3. ASSUME a # Server
        PROVE  \E n \in Running' : clients'[n].addr = a /\ Reaches(n, m[2].name)'
    <3>1. PICK n \in Running : clients[n].addr = a /\ Reaches(n, m[2].name)
      BY <1>4, <2>3 DEF Genuine
    <3>2. n \in Running' /\ clients'[n].addr = a
      BY <3>1 DEF Grew, Steady
    <3>3. Clear(n, m[2].name) => Clear(n, m[2].name)'
      BY <2>1, ClearStays
    <3>4. Reaches(n, m[2].name)'
      BY <3>1, <3>3 DEF Reaches, Grew, Steady
    <3> QED  BY <3>2, <3>4
  <2> QED  BY <2>1, <2>2, <2>3
<1> QED  BY <1>2, <1>3, <1>4 DEF Genuine

LEMMA TrueTableStays ==
    ASSUME Calm, Grew, NEW n \in Running, NEW c, TrueTable(n, c)
    PROVE  TrueTable(n, c)'
<1>1. ASSUME NEW p \in c.peers
      PROVE  TrueEntry(n, p)'
  <2>1. TrueEntry(n, p) /\ p.username \in Running
    BY MemberRuns DEF TrueTable, TrueEntry
  <2>2. Clear(n, p.username) => Clear(n, p.username)'
    BY <2>1, ClearStays
  <2> QED  BY <2>1, <2>2 DEF TrueEntry, Grew
<1> QED  BY <1>1 DEF TrueTable, Grew

\* What is on its way stays true, if what is sent is.
LEMMA GenuineMailNext ==
    ASSUME GenuineMail, Grew, NEW taken, NEW from, NEW packets,
           Moved(net, net', taken, from, packets),
           \A p \in packets : p.to \in DOMAIN net /\ Arrives(from, p.to) => Genuine(p.to, <<from, p>>)'
    PROVE  GenuineMail'
<1> SUFFICES ASSUME NEW a \in DOMAIN net', NEW m \in Contents(net'[a])
             PROVE  Genuine(a, m)'
  BY DEF GenuineMail
<1>1. a \in DOMAIN net /\ MovedAt(net[a], net'[a], a, {x \in Contents(net[a]) : <<a, x>> \in taken}, from, packets)
  BY DEF Moved
<1>2. m \in Contents(net[a]) \/ \E p \in packets : m = <<from, p>> /\ p.to = a /\ Arrives(from, a)
  BY <1>1 DEF MovedAt
<1>3. CASE m \in Contents(net[a])
  <2>1. Genuine(a, m)
    BY <1>1, <1>3 DEF GenuineMail
  <2> QED  BY <2>1, GenuineStays
<1>4. CASE \E p \in packets : m = <<from, p>> /\ p.to = a /\ Arrives(from, a)
  BY <1>1, <1>4
<1> QED  BY <1>2, <1>3, <1>4

\* A client that goes on does not unlearn that it sends to the server.
LEMMA WillUseServerStays ==
    ASSUME StateTypes, NEW n \in Running, clients'[n].addr = clients[n].addr,
           clients[n].send_via_server => clients'[n].send_via_server,
           NEW taken, NEW from, NEW packets, Moved(net, net', taken, from, packets),
           \A m : <<clients[n].addr, m>> \in taken /\ m[2].type = "MODE SERVER_RELAY" /\ m[2].name = n
                  => clients'[n].send_via_server,
           WillUseServer(n)
    PROVE  WillUseServer(n)'
<1> PICK b : b = clients[n].addr
  OBVIOUS
<1> DEFINE s == net[b]
           t == net'[b]
           gone == {x \in Contents(s) : <<b, x>> \in taken}
<1>1. MovedAt(s, t, b, gone, from, packets)
  BY RunningProcess DEF Moved
<1>2. /\ WillUseServer(n) <=>
           \/ clients[n].send_via_server
           \/ \E m \in Contents(s) : m[2].type = "MODE SERVER_RELAY" /\ m[2].name = n
      /\ WillUseServer(n)' <=>
           \/ clients'[n].send_via_server
           \/ \E m \in Contents(t) : m[2].type = "MODE SERVER_RELAY" /\ m[2].name = n
  BY DEF WillUseServer
<1>3. \A m \in gone : m[2].type = "MODE SERVER_RELAY" /\ m[2].name = n => clients'[n].send_via_server
  OBVIOUS
<1> HIDE DEF s, t, gone
<1>4. \A x \in Contents(s) : x \notin gone => x \in Contents(t)
  BY <1>1 DEF MovedAt
<1> QED  BY <1>2, <1>3, <1>4

\* The roles stay true in a step that leaves the channels alone.
LEMMA TrueRolesStay ==
    ASSUME Calm, TrueRoles, st' = st, main' = main, notifyKey' = notifyKey,
           \A n \in Running : ServedName(n) /\ WillUseServer(n) => WillUseServer(n)'
    PROVE  TrueRoles'
<1>1. \A o : Relays(o)' => ~ServedName(o)'
  BY DEF TrueRoles, Relays, ServedName
<1>2. ASSUME NEW k \in DOMAIN st', ~(main' = "notify" /\ notifyKey' = k), NEW u \in st'[k].users
      PROVE  /\ u.needs_server_relay => WillUseServer(u.name)'
             /\ st'[k].relay = None => u.needs_server_relay
  <2>1. u.name \in Running /\ (u.needs_server_relay => ServedName(u.name))
    BY DEF Calm, Members, Beating, ServedName
  <2>2. /\ u.needs_server_relay => WillUseServer(u.name)
        /\ st[k].relay = None => u.needs_server_relay
    BY <1>2 DEF TrueRoles
  <2> QED  BY <2>1, <2>2
<1> QED  BY <1>1, <1>2 DEF TrueRoles

----------------------------------------------------------------------------
(* A line that is coming *)

\* No client forgets its role or a peer.
Remembers ==
    \A r \in Running :
        /\ clients[r].is_relay => clients'[r].is_relay
        /\ clients[r].channel_has_server_relays => clients'[r].channel_has_server_relays
        /\ \A p \in clients[r].peers :
             \E q \in clients'[r].peers : q.username = p.username /\ q.addr = p.addr

LEMMA CarriesStays ==
    ASSUME Grew, Remembers, NEW u \in Running, NEW b, NEW m, Carries(u, b, m)
    PROVE  Carries(u, b, m)'
<1>1. CASE b = clients[u].addr
  <2>1. b = clients'[u].addr
    BY <1>1 DEF Grew, Steady
  <2> QED  BY <2>1 DEF Carries
<1>2. CASE b = Server /\ ByServer(u, m)
  <2>1. RelayAt(m[1]) => RelayAt(m[1])'
    BY RelayAtStays
  <2>2. FromServed(m) => FromServed(m)'
    BY DEF FromServed, Grew, Steady
  <2>3. ByServer(u, m)'
    BY <1>2, <2>1, <2>2 DEF ByServer, Grew
  <2> QED  BY <1>2, <2>3 DEF Carries
<1>3. CASE \E r \in Running : b = clients[r].addr /\ ByRelay(r, u, m)
  <2>1. PICK r \in Running : b = clients[r].addr /\ ByRelay(r, u, m)
    BY <1>3
  <2>2. r \in Running' /\ clients'[r].addr = b
    BY <2>1 DEF Grew, Steady
  <2>3. clients'[r].is_relay /\ m[2].name # u
    BY <2>1 DEF ByRelay, Remembers
  <2>4. CASE clients[r].channel_has_server_relays /\ ServedName(u)
    <3>1. clients'[r].channel_has_server_relays /\ ServedName(u)'
      BY <2>4 DEF Remembers, Grew
    <3>2. ByRelay(r, u, m)'
      BY <2>3, <3>1 DEF ByRelay
    <3> QED  BY <2>2, <3>2 DEF Carries
  <2>5. CASE \E p \in clients[r].peers : p.username = u /\ {clients[r].addr, p.addr} \in Open
    <3>1. PICK p \in clients[r].peers : p.username = u /\ {clients[r].addr, p.addr} \in Open
      BY <2>5
    <3>2. PICK q \in clients'[r].peers : q.username = p.username /\ q.addr = p.addr
      BY DEF Remembers
    <3>3. q.username = u /\ {clients'[r].addr, q.addr} \in Open
      BY <2>1, <2>2, <3>1, <3>2
    <3>4. ByRelay(r, u, m)'
      BY <2>3, <3>2, <3>3 DEF ByRelay
    <3> QED  BY <2>2, <3>4 DEF Carries
  <2> QED  BY <2>1, <2>4, <2>5 DEF ByRelay
<1> QED  BY <1>1, <1>2, <1>3 DEF Carries

\* What is sent is on its way.
LEMMA SentComes ==
    ASSUME NEW taken, NEW from, NEW packets, Moved(net, net', taken, from, packets),
           NEW u, NEW p \in packets, p.to \in DOMAIN net, p.type = "DATA", Arrives(from, p.to),
           Carries(u, p.to, <<from, p>>)'
    PROVE  Coming(u)'
<1> PICK b : b = p.to
  OBVIOUS
<1>1. MovedAt(net[b], net'[b], b, {x \in Contents(net[b]) : <<b, x>> \in taken}, from, packets)
  BY DEF Moved
<1>2. p.type \in PacketTypes
  BY DEF PacketTypes, Others
<1>3. <<from, p>> \in Contents(net'[b])
  BY <1>1, <1>2 DEF MovedAt
<1>4. b \in DOMAIN net'
  BY DEF Moved
<1> QED  BY <1>3, <1>4 DEF Coming

\* A line that was coming still is, if it is not what has been taken, or if
\* what it was taken for sends it on.
LEMMA ComingStays ==
    ASSUME Grew, Remembers, NEW u \in Running, Coming(u),
           NEW taken, NEW from, NEW packets, Moved(net, net', taken, from, packets),
           \A b \in DOMAIN net : \A m \in Contents(net[b]) :
             <<b, m>> \in taken /\ Carries(u, b, m) => Coming(u)'
    PROVE  Coming(u)'
<1> PICK b \in DOMAIN net : \E m \in Contents(net[b]) : Carries(u, b, m)
  BY DEF Coming
<1>1. PICK m \in Contents(net[b]) : Carries(u, b, m)
  OBVIOUS
<1>2. CASE <<b, m>> \in taken
  BY <1>1, <1>2
<1>3. CASE <<b, m>> \notin taken
  <2>1. b \in DOMAIN net' /\ MovedAt(net[b], net'[b], b, {x \in Contents(net[b]) : <<b, x>> \in taken}, from, packets)
    BY DEF Moved
  <2>2. m \in Contents(net'[b])
    BY <1>3, <2>1 DEF MovedAt
  <2>3. Carries(u, b, m)'
    BY <1>1, CarriesStays
  <2> QED  BY <2>1, <2>2, <2>3 DEF Coming
<1> QED  BY <1>2, <1>3

\* A step in which no line is taken that a client or the server would hear.
LEMMA LineStays ==
    ASSUME Calm, LineComes, Grew, Remembers, unheard' = unheard,
           NEW taken, NEW from, NEW packets, Moved(net, net', taken, from, packets),
           \A b, m : <<b, m>> \in taken =>
             \/ m[2].type # "DATA"
             \/ b # Server /\ \A n \in Running : clients[n].addr # b
    PROVE  LineComes'
<1> SUFFICES ASSUME NEW u \in unheard
             PROVE  u \in Running' /\ MemberName(u)' /\ Coming(u)'
  BY DEF LineComes
<1>1. u \in Running /\ MemberName(u) /\ Coming(u)
  BY DEF LineComes
<1>2. u \in Running' /\ MemberName(u)'
  BY <1>1 DEF Grew, Steady
<1>3. ASSUME NEW b \in DOMAIN net, NEW m \in Contents(net[b]), <<b, m>> \in taken, Carries(u, b, m)
      PROVE  Coming(u)'
  BY <1>1, <1>3 DEF Carries
<1>4. Coming(u)'
  BY <1>1, <1>3, ComingStays
<1> QED  BY <1>2, <1>4

----------------------------------------------------------------------------
(* What the relay is told in time *)

\* What goes on at the server: who was asked for is served, or still asked for.
LEMMA AskedStays ==
    ASSUME StateTypes, NEW n \in Running, clients'[n].addr = clients[n].addr,
           NEW taken, NEW from, NEW packets, Moved(net, net', taken, from, packets),
           \A m : <<Server, m>> \in taken /\ m[2].type = "REQUEST_RELAY" => ServedName(m[2].name)',
           NEW o, Asked(n, o)
    PROVE  ServedName(o)' \/ Asked(n, o)'
<1>1. PICK m \in Contents(net[Server]) :
        m[1] = clients[n].addr /\ m[2].type = "REQUEST_RELAY" /\ m[2].name = o
  BY DEF Asked
<1>2. CASE <<Server, m>> \in taken
  BY <1>1, <1>2
<1>3. CASE <<Server, m>> \notin taken
  <2>1. MovedAt(net[Server], net'[Server], Server,
                {x \in Contents(net[Server]) : <<Server, x>> \in taken}, from, packets)
    BY DEF Moved, StateTypes
  <2>2. m \in Contents(net'[Server])
    BY <1>3, <2>1 DEF MovedAt
  <2> QED  BY <1>1, <2>2 DEF Asked
<1> QED  BY <1>2, <1>3

\* One of the packets tells address a that the server serves o.
Tells(packets, a, o) ==
    \E p \in packets : p.to = a /\ p.type = "MODE SERVER_RELAY" /\ p.name = o

\* A relay that does nothing, and to whom nothing arrives: it is told of whom
\* the server serves from now on, if it knows of it, and is introduced to
\* nobody the server serves.
LEMMA TimelyStays ==
    ASSUME Calm, Attentive, Grew, NEW n \in Running, clients'[n] = clients[n],
           Relays(n) \/ \A o : Relays(o)' => o = n, ~ServedName(n)',
           NEW taken, NEW from, NEW packets, Moved(net, net', taken, from, packets),
           \A x : <<clients[n].addr, x>> \notin taken,
           \A p \in packets : p.type = "MODE DIRECT" => ~ServedName(p.name)',
           \A o : Relays(n) /\ MemberName(o) /\ ServedName(o)' /\ ~ServedName(o) =>
             Tells(packets, clients[n].addr, o) /\ Arrives(from, clients[n].addr),
           \A m : <<Server, m>> \in taken /\ m[2].type = "REQUEST_RELAY" => ServedName(m[2].name)'
    PROVE  TimelyTable(n)'
<1> PICK a : a = clients[n].addr
  OBVIOUS
<1> PICK c : c = clients[n]
  OBVIOUS
<1> DEFINE s == net[a]
           t == net'[a]
<1>1. MovedAt(s, t, a, {}, from, packets)
  <2>1. {x \in Contents(net[a]) : <<a, x>> \in taken} = {}
    OBVIOUS
  <2> QED  BY <2>1, RunningProcess DEF Moved, Calm
<1>2. /\ TimelyTable(n) <=>
           /\ \A p \in c.peers : TimelyEntry(n, p)
           /\ \A p, q \in c.peers : p.username = q.username => p = q
           /\ \A o : ServedName(o) /\ (\A p \in c.peers : p.username # o) =>
                \A x \in Contents(s) : Introduces(x, o) => \E y : TakesOver(y, o) /\ InOrder(s, x, y)
      /\ TimelyTable(n)' <=>
           /\ \A p \in c.peers : TimelyEntry(n, p)'
           /\ \A p, q \in c.peers : p.username = q.username => p = q
           /\ \A o : ServedName(o)' /\ (\A p \in c.peers : p.username # o) =>
                \A x \in Contents(t) : Introduces(x, o) => \E y : TakesOver(y, o) /\ InOrder(t, x, y)
  BY DEF TimelyTable, TakesOver, Introduces
<1>3. \A p : /\ TimelyEntry(n, p) <=>
                  (~p.use_server_relay =>
                    /\ ~p.overdue
                    /\ p.relay_requested => ServedName(p.username) \/ Asked(n, p.username)
                    /\ ServedName(p.username) => \E m \in Contents(s) : TakesOver(m, p.username))
             /\ TimelyEntry(n, p)' <=>
                  (~p.use_server_relay =>
                    /\ ~p.overdue
                    /\ p.relay_requested => ServedName(p.username)' \/ Asked(n, p.username)'
                    /\ ServedName(p.username)' => \E m \in Contents(t) : TakesOver(m, p.username))
  BY DEF TimelyEntry, TakesOver
<1>4. \A m \in Contents(s) : Genuine(a, m)
  BY RunningProcess DEF Calm, Attentive, GenuineMail
<1>5. \A p \in c.peers : TrueEntry(n, p)
  BY DEF Attentive, TrueTables, TrueTable
<1>6. \A o : (ServedName(o) => ServedName(o)') /\ (Relays(o) => Relays(o)')
  BY DEF Grew
<1>7. \A o : Asked(n, o) => ServedName(o)' \/ Asked(n, o)'
  BY AskedStays DEF Calm
<1> HIDE DEF s, t
<1>8. /\ \A x \in Contents(s) : x \in Contents(t)
      /\ \A x \in Contents(t) :
           x \in Contents(s) \/ \E p \in packets : x = <<from, p>> /\ p.to = a /\ Arrives(from, a)
      /\ \A x, y : InOrder(s, x, y) => InOrder(t, x, y)
      /\ \A p \in packets :
           p.to = a /\ p.type \in PacketTypes /\ Arrives(from, a)
           => /\ <<from, p>> \in Contents(t)
              /\ \A x \in Contents(s) : InOrder(t, x, <<from, p>>)
  BY <1>1 DEF MovedAt
\* What introduces who is served has been on its way.
<1>9. ASSUME NEW o, ServedName(o)', NEW x \in Contents(t), Introduces(x, o)
      PROVE  x \in Contents(s) /\ MemberName(o) /\ (Relays(o) \/ RelayAt(a))
  <2>1. x \in Contents(s)
    <3> SUFFICES ASSUME NEW p \in packets, x = <<from, p>>
                 PROVE  FALSE
      BY <1>8
    <3>1. x[2] = p
      OBVIOUS
    <3> QED  BY <1>9, <3>1 DEF Introduces
  <2> QED  BY <1>4, <1>9, <2>1 DEF Genuine, Introduces
\* Who is served from now on is on its way to the relay.
<1>10. ASSUME Relays(n), NEW o, MemberName(o), ServedName(o)', ~ServedName(o)
       PROVE  \E y \in Contents(t) : TakesOver(y, o) /\ \A x \in Contents(s) : InOrder(t, x, y)
  <2>1. PICK p \in packets : /\ p.to = a /\ Arrives(from, a)
                             /\ p.type = "MODE SERVER_RELAY" /\ p.name = o
    <3>1. Tells(packets, a, o) /\ Arrives(from, a)
      BY <1>10
    <3> QED  BY <3>1 DEF Tells
  <2> PICK y : y = <<from, p>>
    OBVIOUS
  <2>2. y[2] = p /\ p.type \in PacketTypes
    BY <2>1 DEF PacketTypes
  <2> QED  BY <1>8, <2>1, <2>2 DEF TakesOver
<1>11. CASE Relays(n)
  <2>1. TimelyTable(n)
    BY <1>11 DEF Attentive, Timely
  <2>2. ASSUME NEW p \in c.peers, ~p.use_server_relay
        PROVE  /\ ~p.overdue
               /\ p.relay_requested => ServedName(p.username)' \/ Asked(n, p.username)'
               /\ ServedName(p.username)' => \E m \in Contents(t) : TakesOver(m, p.username)
    <3>1. /\ ~p.overdue
          /\ p.relay_requested => ServedName(p.username) \/ Asked(n, p.username)
          /\ ServedName(p.username) => \E m \in Contents(s) : TakesOver(m, p.username)
      BY <1>2, <1>3, <2>1, <2>2
    <3>2. ServedName(p.username)' => \E m \in Contents(t) : TakesOver(m, p.username)
      <4>1. MemberName(p.username)
        BY <1>5 DEF TrueEntry
      <4> QED  BY <1>8, <1>10, <1>11, <3>1, <4>1
    <3> QED  BY <1>6, <1>7, <3>1, <3>2
  <2>3. ASSUME NEW o, ServedName(o)', \A p \in c.peers : p.username # o,
               NEW x \in Contents(t), Introduces(x, o)
        PROVE  \E y : TakesOver(y, o) /\ InOrder(t, x, y)
    <3>1. x \in Contents(s) /\ MemberName(o)
      BY <1>9, <2>3
    <3>2. CASE ServedName(o)
      BY <1>2, <1>8, <2>1, <2>3, <3>1, <3>2
    <3>3. CASE ~ServedName(o)
      BY <1>10, <1>11, <2>3, <3>1, <3>3
    <3> QED  BY <3>2, <3>3
  <2> QED  BY <1>2, <1>3, <2>1, <2>2, <2>3
<1>12. CASE ~Relays(n)
  <2>1. \A o : Relays(o) => o = n
    BY <1>6, <1>12
  <2>2. c.peers = {}
    BY <1>5, <1>12, <2>1 DEF TrueEntry
  <2>3. ASSUME NEW o, ServedName(o)', NEW x \in Contents(t), Introduces(x, o)
        PROVE  FALSE
    <3>1. Relays(o) \/ RelayAt(a)
      BY <1>9, <2>3
    <3>2. ~RelayAt(a)
      BY <1>12, RelayThere
    <3> QED  BY <2>1, <2>3, <3>1, <3>2
  <2> QED  BY <1>2, <2>2, <2>3
<1> QED  BY <1>11, <1>12

----------------------------------------------------------------------------
(* Steps of a client *)

\* The entry p is q, or what marking has made of it.
Keeps(p, q) ==
    /\ p.username = q.username
    /\ q.use_server_relay => p.use_server_relay
    /\ ~p.use_server_relay =>
         (p.overdue => q.overdue) /\ (p.relay_requested => q.relay_requested)

\* The relay n becomes d: it takes nobody for lost and nobody in twice, asks
\* before it notes that it has asked, and leaves to the server whom it is
\* told to.
Orderly(n, d, taken, packets) ==
    /\ \A p \in d.peers :
         \/ \E q \in clients[n].peers : Keeps(p, q)
         \/ \E q \in clients[n].peers :
              /\ p.username = q.username /\ ~q.use_server_relay /\ ~p.overdue
              /\ AskForRelay(p.username) \in packets
         \/ /\ ~p.overdue /\ ~p.relay_requested
            /\ \E x \in Contents(net[clients[n].addr]) : Introduces(x, p.username)
                                                         /\ <<clients[n].addr, x>> \in taken
            /\ \A q \in clients[n].peers : q.username # p.username
    /\ \A p, q \in d.peers : p.username = q.username => p = q
    /\ \A x, p : /\ <<clients[n].addr, x>> \in taken /\ p \in d.peers
                 /\ TakesOver(x, p.username)
                 => p.use_server_relay

\* What the relay is told, it has been told in time.
LEMMA ClientTimely ==
    ASSUME Calm, Attentive, NEW n \in Running, NEW d, NEW taken, NEW packets,
           Minds(n, d, taken), ClientMoves(n, d, taken, packets),
           Orderly(n, d, taken, packets), Relays(n),
           \A p \in packets : p.type # "MODE DIRECT"
    PROVE  TimelyTable(n)'
<1> PICK a : a = clients[n].addr
  OBVIOUS
<1> PICK c : c = clients[n]
  OBVIOUS
<1> DEFINE s == net[a]
           t == net'[a]
           gone == {x \in Contents(s) : <<a, x>> \in taken}
<1>1. /\ a \in Addrs /\ a # Server /\ a \in DOMAIN net /\ n \in Names
      /\ clients'[n] = d /\ d.addr = a /\ Server \in DOMAIN net
  BY RunningProcess, ServerAssumption DEF Calm, StateTypes, Minds, ClientMoves
<1>2. MovedAt(s, t, a, gone, a, packets)
  BY <1>1 DEF Moved, ClientMoves
<1>3. /\ TimelyTable(n) <=>
           /\ \A p \in c.peers : TimelyEntry(n, p)
           /\ \A p, q \in c.peers : p.username = q.username => p = q
           /\ \A o : ServedName(o) /\ (\A p \in c.peers : p.username # o) =>
                \A x \in Contents(s) : Introduces(x, o) => \E y : TakesOver(y, o) /\ InOrder(s, x, y)
      /\ TimelyTable(n)' <=>
           /\ \A p \in d.peers : TimelyEntry(n, p)'
           /\ \A p, q \in d.peers : p.username = q.username => p = q
           /\ \A o : ServedName(o)' /\ (\A p \in d.peers : p.username # o) =>
                \A x \in Contents(t) : Introduces(x, o) => \E y : TakesOver(y, o) /\ InOrder(t, x, y)
  BY <1>1 DEF TimelyTable, TakesOver, Introduces
<1>4. \A p : /\ TimelyEntry(n, p) <=>
                  (~p.use_server_relay =>
                    /\ ~p.overdue
                    /\ p.relay_requested => ServedName(p.username) \/ Asked(n, p.username)
                    /\ ServedName(p.username) => \E m \in Contents(s) : TakesOver(m, p.username))
             /\ TimelyEntry(n, p)' <=>
                  (~p.use_server_relay =>
                    /\ ~p.overdue
                    /\ p.relay_requested => ServedName(p.username)' \/ Asked(n, p.username)'
                    /\ ServedName(p.username)' => \E m \in Contents(t) : TakesOver(m, p.username))
  BY <1>1 DEF TimelyEntry, TakesOver
<1>5. TimelyTable(n) /\ ~ServedName(n)
  BY DEF Attentive, Timely, TrueRoles
<1>6. \A o : ServedName(o)' <=> ServedName(o)
  BY DEF ClientMoves, ServedName
<1>7. MovedAt(net[Server], net'[Server], Server, {}, a, packets)
  <2>1. {x \in Contents(net[Server]) : <<Server, x>> \in taken} = {}
    BY <1>1 DEF Minds
  <2> QED  BY <1>1, <2>1 DEF Moved, ClientMoves
<1>8. ASSUME NEW o, Asked(n, o) \/ AskForRelay(o) \in packets
      PROVE  Asked(n, o)'
  <2>1. CASE Asked(n, o)
    BY <1>1, <1>7, <2>1 DEF Asked, MovedAt
  <2>2. CASE AskForRelay(o) \in packets
    <3> PICK p : p = AskForRelay(o)
      OBVIOUS
    <3>1. p \in packets /\ p.to = Server /\ p.type = "REQUEST_RELAY" /\ p.name = o
      BY <2>2 DEF AskForRelay
    <3>2. p.type \in PacketTypes /\ Arrives(a, Server)
      BY <3>1 DEF PacketTypes, Others, Arrives
    <3> PICK x : x = <<a, p>>
      OBVIOUS
    <3>3. x \in Contents(net'[Server])
      BY <1>7, <3>1, <3>2 DEF MovedAt
    <3> QED  BY <1>1, <3>1, <3>3 DEF Asked
  <2> QED  BY <1>8, <2>1, <2>2
<1>9. /\ \A p \in packets : p.type # "MODE DIRECT"
      /\ \A p \in d.peers :
           \/ \E q \in c.peers : Keeps(p, q)
           \/ \E q \in c.peers :
                /\ p.username = q.username /\ ~q.use_server_relay /\ ~p.overdue
                /\ AskForRelay(p.username) \in packets
           \/ /\ ~p.overdue /\ ~p.relay_requested
              /\ \E x \in Contents(s) : Introduces(x, p.username) /\ <<a, x>> \in taken
              /\ \A q \in c.peers : q.username # p.username
      /\ \A p, q \in d.peers : p.username = q.username => p = q
      /\ \A x \in gone, p \in d.peers : TakesOver(x, p.username) => p.use_server_relay
  BY DEF Orderly
<1>10. /\ \A p \in c.peers : \E q \in d.peers : q.username = p.username
       /\ \A x \in gone : \A o : Introduces(x, o) /\ o # n => \E q \in d.peers : q.username = o
  <2>1. \A p \in c.peers : \E q \in d.peers : q.username = p.username
    BY DEF Minds
  <2>2. ASSUME NEW x \in gone, NEW o, Introduces(x, o), o # n
        PROVE  \E q \in d.peers : q.username = o
    <3>1. <<a, x>> \in taken /\ x[2].type = "MODE DIRECT" /\ x[2].name = o
      BY <2>2 DEF Introduces
    <3> QED  BY <2>2, <3>1 DEF Minds
  <2> QED  BY <2>1, <2>2
<1> HIDE DEF s, t, gone
<1>11. /\ \A x \in Contents(s) : x \notin gone => x \in Contents(t)
       /\ \A x, y : InOrder(s, x, y) => y \in Contents(t) /\ (x \notin gone => InOrder(t, x, y))
       /\ \A x \in Contents(t) : x \in Contents(s) \/ \E p \in packets : x = <<a, p>>
  BY <1>2 DEF MovedAt
<1>12. ASSUME NEW p \in d.peers, ~p.use_server_relay
       PROVE  /\ ~p.overdue
              /\ p.relay_requested => ServedName(p.username)' \/ Asked(n, p.username)'
              /\ ServedName(p.username)' => \E m \in Contents(t) : TakesOver(m, p.username)
  <2>1. CASE \E q \in c.peers : p.username = q.username /\ ~q.use_server_relay
                                /\ (p.overdue => q.overdue)
                                /\ (p.relay_requested => q.relay_requested \/ AskForRelay(p.username) \in packets)
    <3>1. PICK q \in c.peers : p.username = q.username /\ ~q.use_server_relay
                               /\ (p.overdue => q.overdue)
                               /\ (p.relay_requested => q.relay_requested \/ AskForRelay(p.username) \in packets)
      BY <2>1
    <3>2. /\ ~q.overdue
          /\ q.relay_requested => ServedName(q.username) \/ Asked(n, q.username)
          /\ ServedName(q.username) => \E m \in Contents(s) : TakesOver(m, q.username)
      BY <1>3, <1>4, <1>5, <3>1
    <3>3. ServedName(p.username) => \E m \in Contents(t) : TakesOver(m, p.username)
      BY <1>9, <1>11, <1>12, <3>1, <3>2
    <3> QED  BY <1>6, <1>8, <3>1, <3>2, <3>3
  <2>2. CASE /\ ~p.overdue /\ ~p.relay_requested
             /\ \E x \in Contents(s) : Introduces(x, p.username) /\ <<a, x>> \in taken
             /\ \A q \in c.peers : q.username # p.username
    <3>1. ASSUME ServedName(p.username)
          PROVE  \E m \in Contents(t) : TakesOver(m, p.username)
      BY <1>3, <1>5, <1>11, <2>2, <3>1
    <3> QED  BY <1>6, <2>2, <3>1
  <2> QED  BY <1>9, <1>12, <2>1, <2>2 DEF Keeps
<1>13. ASSUME NEW o, ServedName(o)', \A p \in d.peers : p.username # o,
              NEW x \in Contents(t), Introduces(x, o)
       PROVE  \E y : TakesOver(y, o) /\ InOrder(t, x, y)
  <2>1. o # n /\ ServedName(o)
    BY <1>5, <1>6, <1>13
  <2>2. x \in Contents(s)
    <3> SUFFICES ASSUME NEW p \in packets, x = <<a, p>>
                 PROVE  FALSE
      BY <1>11
    <3>1. x[2] = p
      OBVIOUS
    <3> QED  BY <1>9, <1>13, <3>1 DEF Introduces
  <2>3. x \notin gone /\ \A p \in c.peers : p.username # o
    BY <1>10, <1>13, <2>1
  <2>4. PICK y : TakesOver(y, o) /\ InOrder(s, x, y)
    BY <1>3, <1>5, <1>13, <2>1, <2>2, <2>3
  <2> QED  BY <1>11, <2>3, <2>4
<1> QED  BY <1>3, <1>4, <1>9, <1>12, <1>13

\* Client n becomes d: what it believes is so, what it says is so, and it
\* does not unlearn that it sends to the server.
Believes(n, d, taken, packets) ==
    /\ TrueTable(n, d)
    /\ Relays(n) => Orderly(n, d, taken, packets)
    /\ \A p \in packets : p.type # "MODE DIRECT"
    /\ \A p \in packets : p.to \in DOMAIN net /\ Arrives(clients[n].addr, p.to)
                          => Genuine(p.to, <<clients[n].addr, p>>)
    /\ ServedName(n) /\ clients[n].send_via_server => d.send_via_server
    /\ \A m : /\ <<clients[n].addr, m>> \in taken
              /\ m[2].type = "MODE SERVER_RELAY" /\ m[2].name = n
              => d.send_via_server

LEMMA ClientChanges ==
    ASSUME Calm, NEW n \in Running, NEW d, NEW taken, NEW packets,
           Minds(n, d, taken), ClientMoves(n, d, taken, packets)
    PROVE  /\ n \in Names /\ clients'[n] = d /\ d.addr = clients[n].addr
           /\ \A j \in Running : j # n => clients'[j] = clients[j]
           /\ Running' = Running /\ Grew /\ Remembers
<1>1. /\ n \in Names /\ clients \in [Names -> Process \cup {None}] /\ d \in Process /\ d # None
      /\ d.addr = clients[n].addr
      /\ \A j \in Names : clients'[j] = IF j = n THEN d ELSE clients[j]
  BY ProcessAssumption DEF Calm, StateTypes, Running, Minds, ClientMoves
<1>2. Running' = Running /\ \A j \in Running : clients'[j].addr = clients[j].addr
  BY <1>1 DEF Running
<1>3. clients'[n] = d /\ \A j \in Running : j # n => clients'[j] = clients[j]
  BY <1>1 DEF Running
<1>4. Grew
  BY <1>2, SameChannelGrows DEF Steady, ClientMoves
<1>5. Remembers
  <2>1. /\ clients[n].is_relay => d.is_relay
        /\ clients[n].channel_has_server_relays => d.channel_has_server_relays
        /\ \A p \in clients[n].peers : \E q \in d.peers : q.username = p.username /\ q.addr = p.addr
    BY DEF Minds
  <2> QED  BY <1>3, <2>1 DEF Remembers
<1> QED  BY <1>1, <1>2, <1>3, <1>4, <1>5

LEMMA ClientBelieves ==
    ASSUME Calm, Attentive, NEW n \in Running, NEW d, NEW taken, NEW packets,
           Minds(n, d, taken), ClientMoves(n, d, taken, packets), Believes(n, d, taken, packets)
    PROVE  GenuineMail' /\ TrueTables' /\ TrueRoles' /\ TrueNotes' /\ Timely'
<1>1. /\ n \in Names /\ clients'[n] = d /\ d.addr = clients[n].addr
      /\ \A j \in Running : j # n => clients'[j] = clients[j]
      /\ Running' = Running /\ Grew
  BY ClientChanges
<1> PICK a : a = clients[n].addr
  OBVIOUS
<1>2. Moved(net, net', taken, a, packets)
  BY DEF ClientMoves
<1>3. GenuineMail'
  <2>1. ASSUME NEW p \in packets, p.to \in DOMAIN net, Arrives(a, p.to)
        PROVE  Genuine(p.to, <<a, p>>)'
    <3>1. Genuine(p.to, <<a, p>>)
      BY <2>1 DEF Believes
    <3> PICK b : b = p.to
      OBVIOUS
    <3> PICK m : m = <<a, p>>
      OBVIOUS
    <3>2. Genuine(b, m)'
      BY <1>1, <3>1, GenuineStays
    <3> QED  BY <3>2
  <2> QED  BY <1>1, <1>2, <2>1, GenuineMailNext DEF Attentive
<1>4. TrueTables'
  <2> SUFFICES ASSUME NEW j \in Running
               PROVE  TrueTable(j, clients[j])'
    BY <1>1 DEF TrueTables
  <2> PICK c : c = clients'[j]
    OBVIOUS
  <2>1. TrueTable(j, c)
    <3>1. CASE j = n
      BY <1>1, <3>1 DEF Believes
    <3>2. CASE j # n
      BY <1>1, <3>2 DEF Attentive, TrueTables
    <3> QED  BY <3>1, <3>2
  <2>2. TrueTable(j, c)'
    BY <1>1, <2>1, TrueTableStays
  <2> QED  BY <2>2 DEF TrueTable, TrueEntry
<1>5. TrueRoles'
  <2>1. ASSUME NEW j \in Running, ServedName(j), WillUseServer(j)
        PROVE  WillUseServer(j)'
    <3>1. clients'[j].addr = clients[j].addr /\ (clients[j].send_via_server => clients'[j].send_via_server)
      BY <1>1, <2>1 DEF Believes
    <3>2. \A m : <<clients[j].addr, m>> \in taken /\ m[2].type = "MODE SERVER_RELAY" /\ m[2].name = j
                 => clients'[j].send_via_server
      <4>1. CASE j = n
        BY <1>1, <4>1 DEF Believes
      <4>2. CASE j # n
        <5>1. clients[j].addr # clients[n].addr
          BY <4>2 DEF Calm, Processes
        <5> QED  BY <5>1 DEF Minds
      <4> QED  BY <4>1, <4>2
    <3> QED  BY <1>2, <2>1, <3>1, <3>2, WillUseServerStays DEF Calm
  <2> QED  BY <2>1, TrueRolesStay DEF ClientMoves, Attentive
<1>6. TrueNotes'
  BY DEF ClientMoves, Attentive, TrueNotes, ServedName
<1>7. Timely'
  <2> SUFFICES ASSUME NEW j \in Running, Relays(j)'
               PROVE  TimelyTable(j)'
    BY <1>1 DEF Timely
  <2>1. Relays(j) /\ \A o : ServedName(o)' <=> ServedName(o)
    BY DEF ClientMoves, Relays, ServedName
  <2>2. CASE j = n
    BY <2>1, <2>2, ClientTimely DEF Believes
  <2>3. CASE j # n
    <3>1. clients'[j] = clients[j] /\ clients[j].addr # a
      BY <1>1, <2>3 DEF Calm, Processes
    <3>2. ~ServedName(j)'
      BY <2>1 DEF Attentive, TrueRoles
    <3>3. \A x : <<clients[j].addr, x>> \notin taken /\ <<Server, x>> \notin taken
      BY <3>1, RunningProcess, ServerAssumption DEF Minds, Calm
    <3>4. \A p \in packets : p.type # "MODE DIRECT"
      BY DEF Believes
    <3> QED  BY <1>1, <1>2, <2>1, <3>1, <3>2, <3>3, <3>4, TimelyStays
  <2> QED  BY <2>2, <2>3
<1> QED  BY <1>3, <1>4, <1>5, <1>6, <1>7

\* Nothing of a line is in a step that neither takes nor types one.
LEMMA ClientAttends ==
    ASSUME Calm, Attentive, NEW n \in Running, NEW d, NEW taken, NEW packets,
           Minds(n, d, taken), ClientMoves(n, d, taken, packets), Believes(n, d, taken, packets),
           \A b, m : <<b, m>> \in taken => m[2].type # "DATA",
           unheard' = unheard
    PROVE  Attentive'
<1>1. Grew /\ Remembers
  BY ClientChanges
<1>2. LineComes'
  <2> PICK a : a = clients[n].addr
    OBVIOUS
  <2>1. Moved(net, net', taken, a, packets)
    BY DEF ClientMoves
  <2> QED  BY <1>1, <2>1, LineStays DEF Attentive
<1>3. GenuineMail' /\ TrueTables' /\ TrueRoles' /\ TrueNotes' /\ Timely'
  BY ClientBelieves
<1> QED  BY <1>2, <1>3 DEF Attentive

\* What has arrived is genuine.
LEMMA ArrivingIsGenuine ==
    ASSUME Calm, Attentive, NEW a \in DOMAIN net, NEW m \in Arriving(a)
    PROVE  Genuine(a, m)
BY ArrivingIsProper DEF Attentive, GenuineMail

\* What a client sends but lines and requests is genuine.
LEMMA SignsAreGenuine ==
    ASSUME NEW n, clients[n].addr \in Addrs, NEW p, Arrives(clients[n].addr, p.to),
           p.type \in {"PING", "PONG", "HOLE_PUNCH"}
    PROVE  Genuine(p.to, <<clients[n].addr, p>>)
<1>1. <<clients[n].addr, p>>[2] = p /\ <<clients[n].addr, p>>[1] = clients[n].addr
  OBVIOUS
<1> QED  BY <1>1, ServerAssumption DEF Genuine, Arrives

\* A step of n on hearing m.
LEMMA AnswerAttends ==
    ASSUME Calm, Attentive, NEW n \in Running, NEW m \in Arriving(clients[n].addr), NEW d, NEW packets,
           Answers(n, m, d, packets), Minds(n, d, {<<clients[n].addr, m>>}),
           Relays(n) => Orderly(n, d, {<<clients[n].addr, m>>}, packets),
           \A p \in packets : p.type # "MODE DIRECT",
           m[2].type # "DATA", unheard' = unheard, TrueTable(n, d),
           \A p \in packets : p.to \in DOMAIN net /\ Arrives(clients[n].addr, p.to)
                          => Genuine(p.to, <<clients[n].addr, p>>),
           ServedName(n) /\ clients[n].send_via_server => d.send_via_server,
           m[2].type = "MODE SERVER_RELAY" /\ m[2].name = n => d.send_via_server
    PROVE  Attentive'
<1> PICK a : a = clients[n].addr
  OBVIOUS
<1> PICK taken : taken = {<<a, m>>}
  OBVIOUS
<1>1. Moved(net, net', taken, a, packets)
  BY RunningProcess, AnswerMoves DEF Answers, Calm, StateTypes
<1>2. ClientMoves(n, d, taken, packets)
  BY <1>1 DEF ClientMoves, Answers, Becomes, serverVars
<1>3. Believes(n, d, taken, packets)
  BY DEF Believes
<1>4. \A b, x : <<b, x>> \in taken => x[2].type # "DATA"
  OBVIOUS
<1>5. Minds(n, d, taken)
  OBVIOUS
<1> QED  BY <1>2, <1>3, <1>4, <1>5, ClientAttends

\* What marking does to an entry: it is the entry it was, reached or served
\* if it is one of those that were meant.
MarkedEntry(p, q, reached, served) ==
    /\ p.username = q.username /\ p.addr = q.addr
    /\ p.connected => q.connected \/ reached
    /\ p.use_server_relay => q.use_server_relay \/ served

LEMMA MarkedEntries ==
    ASSUME NEW peers \in SUBSET Peer, NEW addr, NEW name
    PROVE  /\ \A p \in MarkAt(peers, addr) : \E q \in peers : MarkedEntry(p, q, p.addr = addr, FALSE)
           /\ \A p \in MarkCalled(peers, name) : \E q \in peers : MarkedEntry(p, q, p.username = name, FALSE)
           /\ \A p \in MarkServed(peers, name) :
                \E q \in peers : MarkedEntry(p, q, p.username = name, p.username = name)
<1>1. \A p \in peers :
        /\ Connected(p).username = p.username /\ Connected(p).addr = p.addr
        /\ Connected(p).use_server_relay = p.use_server_relay
        /\ Served(p).username = p.username /\ Served(p).addr = p.addr
  BY DEF Peer, Connected, Served
<1>2. \A p \in MarkAt(peers, addr) : p \in peers \/ \E q \in peers : p = Connected(q) /\ q.addr = addr
  BY DEF MarkAt, At
<1>3. \A p \in MarkCalled(peers, name) : p \in peers \/ \E q \in peers : p = Connected(q) /\ q.username = name
  BY DEF MarkCalled, Oldest, Called
<1>4. \A p \in MarkServed(peers, name) : p \in peers \/ \E q \in peers : p = Served(q) /\ q.username = name
  BY DEF MarkServed, Oldest, Called
<1>5. \A p : MarkedEntry(p, p, FALSE, FALSE)
  BY DEF MarkedEntry
<1>6. ASSUME NEW p \in MarkAt(peers, addr)
      PROVE  \E q \in peers : MarkedEntry(p, q, p.addr = addr, FALSE)
  BY <1>1, <1>2 DEF MarkedEntry
<1>7. ASSUME NEW p \in MarkCalled(peers, name)
      PROVE  \E q \in peers : MarkedEntry(p, q, p.username = name, FALSE)
  BY <1>1, <1>3 DEF MarkedEntry
<1>8. ASSUME NEW p \in MarkServed(peers, name)
      PROVE  \E q \in peers : MarkedEntry(p, q, p.username = name, p.username = name)
  BY <1>1, <1>4 DEF MarkedEntry
<1> QED  BY <1>6, <1>7, <1>8

\* A table of peers of which none is in it twice, and what marking makes of it.
Single(peers) == \A p, q \in peers : p.username = q.username => p = q

Tidied(new, old) ==
    /\ \A p \in new : \E q \in old : Keeps(p, q)
    /\ Single(old) => Single(new)

LEMMA TidiedTwice ==
    ASSUME NEW a, NEW b, NEW c, Tidied(a, b), Tidied(b, c)
    PROVE  Tidied(a, c)
<1>1. ASSUME NEW p \in a
      PROVE  \E q \in c : Keeps(p, q)
  <2>1. PICK q \in b : Keeps(p, q)
    BY DEF Tidied
  <2>2. PICK r \in c : Keeps(q, r)
    BY DEF Tidied
  <2>3. Keeps(p, r)
    BY <2>1, <2>2 DEF Keeps
  <2> QED  BY <2>3
<1> QED  BY <1>1 DEF Tidied

LEMMA ItselfIsTidied ==
    ASSUME NEW peers
    PROVE  Tidied(peers, peers)
BY DEF Tidied, Keeps

LEMMA MarksAreTidied ==
    ASSUME NEW peers \in SUBSET Peer, NEW addr, NEW name
    PROVE  /\ Tidied(MarkAt(peers, addr), peers)
           /\ Tidied(MarkCalled(peers, name), peers)
           /\ Tidied(MarkServed(peers, name), peers)
<1>1. \A p \in peers :
        /\ Connected(p).username = p.username
        /\ Connected(p).use_server_relay = p.use_server_relay
        /\ Connected(p).relay_requested = p.relay_requested /\ ~Connected(p).overdue
        /\ Served(p).username = p.username /\ Served(p).use_server_relay
  BY DEF Peer, Connected, Served
<1>2. ASSUME NEW X \in SUBSET peers
      PROVE  /\ Tidied((peers \ X) \cup {Connected(p) : p \in X}, peers)
             /\ Tidied((peers \ X) \cup {Served(p) : p \in X}, peers)
  <2>1. Tidied((peers \ X) \cup {Connected(p) : p \in X}, peers)
    <3> DEFINE N == (peers \ X) \cup {Connected(p) : p \in X}
    <3>1. \A p \in N : (p \in peers /\ p \notin X) \/ \E q \in X : p = Connected(q)
      OBVIOUS
    <3> HIDE DEF N
    <3>2. \A p \in N : \E q \in peers : Keeps(p, q)
      BY <1>1, <3>1 DEF Keeps
    <3>3. Single(peers) => Single(N)
      BY <1>1, <3>1 DEF Single
    <3> QED  BY <3>2, <3>3 DEF Tidied, N
  <2>2. Tidied((peers \ X) \cup {Served(p) : p \in X}, peers)
    <3> DEFINE N == (peers \ X) \cup {Served(p) : p \in X}
    <3>1. \A p \in N : (p \in peers /\ p \notin X) \/ \E q \in X : p = Served(q)
      OBVIOUS
    <3> HIDE DEF N
    <3>2. \A p \in N : \E q \in peers : Keeps(p, q)
      BY <1>1, <3>1 DEF Keeps
    <3>3. Single(peers) => Single(N)
      BY <1>1, <3>1 DEF Single
    <3> QED  BY <3>2, <3>3 DEF Tidied, N
  <2> QED  BY <2>1, <2>2
<1>3. At(peers, addr) \in SUBSET peers /\ Oldest(Called(peers, name)) \in SUBSET peers
  BY DEF At, Oldest, Called
<1> QED  BY <1>2, <1>3 DEF MarkAt, MarkCalled, MarkServed

\* The first entry found of a name is the only one.
LEMMA ServedIsFound ==
    ASSUME NEW peers \in SUBSET Peer, Single(peers), NEW name,
           NEW p \in MarkServed(peers, name), p.username = name
    PROVE  p.use_server_relay
<1> PICK found : found = Oldest(Called(peers, name))
  OBVIOUS
<1>1. \/ p \in peers /\ p \notin found
      \/ \E q \in found : p = Served(q)
  BY DEF MarkServed
<1>2. CASE p \in peers /\ p \notin found
  <2>1. \A q \in Called(peers, name) : q = p
    BY <1>2 DEF Called, Single
  <2>2. p.created_at <= p.created_at
    BY <1>2, InstantLimitAssumption DEF Peer
  <2>3. p \in found
    BY <1>2, <2>1, <2>2 DEF Oldest, Called
  <2> QED  BY <1>2, <2>3
<1>3. CASE \E q \in found : p = Served(q)
  <2>1. PICK q \in peers : p = Served(q)
    BY <1>3 DEF Oldest, Called
  <2> QED  BY <2>1 DEF Served, Peer
<1> QED  BY <1>1, <1>2, <1>3

LEMMA TidiedIsOrderly ==
    ASSUME Attentive, NEW n \in Running, NEW d, NEW taken, NEW packets,
           Tidied(d.peers, clients[n].peers),
           \A x, p : <<clients[n].addr, x>> \in taken /\ p \in d.peers /\ TakesOver(x, p.username)
                     => p.use_server_relay
    PROVE  Relays(n) => Orderly(n, d, taken, packets)
<1>1. ASSUME Relays(n)
      PROVE  Single(clients[n].peers)
  BY <1>1 DEF Attentive, Timely, TimelyTable, Single
<1> QED  BY <1>1 DEF Orderly, Tidied, Single

LEMMA MarkedEntryIsTrue ==
    ASSUME NEW n, NEW p, NEW q, NEW reached, NEW served,
           TrueEntry(n, q), MarkedEntry(p, q, reached, served),
           reached => Clear(n, p.username), served => ServedName(p.username)
    PROVE  TrueEntry(n, p)
BY DEF TrueEntry, MarkedEntry

\* What reaches n from a peer shows that the path between them is open.
LEMMA GreetedIsTrue ==
    ASSUME Calm, Attentive, NEW n \in Running, NEW m \in Arriving(clients[n].addr)
    PROVE  /\ TrueTable(n, Greeted(clients[n], m[1]))
           /\ Greeted(clients[n], m[1]).is_relay = clients[n].is_relay
           /\ Greeted(clients[n], m[1]).send_via_server = clients[n].send_via_server
           /\ Tidied(Greeted(clients[n], m[1]).peers, clients[n].peers)
<1> PICK c : c = clients[n]
  OBVIOUS
<1> PICK from : from = m[1]
  OBVIOUS
<1>1. c \in Process /\ c.peers \in SUBSET Peer /\ c.addr \in Addrs /\ c.addr \in DOMAIN net
  BY RunningProcess DEF Calm, Process
<1>2. TrueTable(n, c)
  BY DEF Attentive, TrueTables
<1>3. CASE from = Server
  BY <1>2, <1>3, ItselfIsTidied DEF Greeted
<1>4. CASE from # Server
  <2> DEFINE peers == MarkAt(c.peers, from)
             d == [c EXCEPT !.peers = peers]
  <2>1. Greeted(c, from) = d
    BY <1>4 DEF Greeted
  <2>0. Alike(peers, c.peers)
    BY <1>1, MarksAreAlike
  <2>2. peers \in SUBSET Peer
    <3> HIDE DEF peers
    <3> QED  BY <2>0 DEF Alike
  <2>3. {from, c.addr} \in Open
    <3>1. Genuine(c.addr, m)
      BY <1>1, ArrivingIsGenuine
    <3> QED  BY <1>1, <1>4, <3>1, ServerAssumption DEF Genuine
  <2>4. ASSUME NEW p \in peers
        PROVE  TrueEntry(n, p)
    <3>1. PICK q \in c.peers : MarkedEntry(p, q, p.addr = from, FALSE)
      BY <1>1, MarkedEntries
    <3>2. TrueEntry(n, q) /\ q.username = p.username /\ q.addr = p.addr
      BY <1>2, <3>1 DEF TrueTable, MarkedEntry
    <3>3. clients[q.username].addr = q.addr
      BY DEF Calm, Tables, Answering
    <3>4. p.addr = from => Clear(n, p.username)
      BY <2>3, <3>2, <3>3 DEF Clear
    <3> QED  BY <3>1, <3>2, <3>4, MarkedEntryIsTrue
  <2> HIDE DEF peers
  <2>5. d.peers = peers /\ d.is_relay = c.is_relay /\ d.send_via_server = c.send_via_server
    BY <1>1, <2>2, ProcessChanged
  <2> HIDE DEF d
  <2>6. TrueTable(n, d)
    BY <1>2, <2>4, <2>5 DEF TrueTable
  <2>7. Tidied(d.peers, c.peers)
    BY <1>1, <2>5, MarksAreTidied DEF peers
  <2> QED  BY <2>1, <2>5, <2>6, <2>7
<1> QED  BY <1>3, <1>4

LEMMA HearPingAttends ==
    ASSUME Calm, Attentive, NEW n \in Running, NEW m \in Arriving(clients[n].addr),
           HearPing(n, m), unheard' = unheard
    PROVE  Attentive'
<1> PICK d : d = Greeted(clients[n], m[1])
  OBVIOUS
<1> PICK packets : packets = {PongTo(m[1])}
  OBVIOUS
<1>1. Answers(n, m, d, packets) /\ m[2].type = "PING"
  BY DEF HearPing
<1>2. Marked(clients[n], d)
  BY RunningProcess, GreetedMarked DEF Calm
<1>3. Minds(n, d, {<<clients[n].addr, m>>})
  BY <1>1, <1>2, MarkedMinds
<1>4. TrueTable(n, d) /\ d.send_via_server = clients[n].send_via_server
  BY GreetedIsTrue
<1>5. \A p \in packets : p.type = "PONG"
  BY DEF PongTo
<1>7. Relays(n) => Orderly(n, d, {<<clients[n].addr, m>>}, packets)
  BY <1>1, GreetedIsTrue, TidiedIsOrderly DEF TakesOver
<1>6. \A p \in packets : p.to \in DOMAIN net /\ Arrives(clients[n].addr, p.to)
                          => Genuine(p.to, <<clients[n].addr, p>>)
  BY <1>5, RunningProcess, SignsAreGenuine DEF Calm
<1> QED  BY <1>1, <1>3, <1>4, <1>5, <1>6, <1>7, AnswerAttends

LEMMA HearSignAttends ==
    ASSUME Calm, Attentive, NEW n \in Running, NEW m \in Arriving(clients[n].addr),
           HearSign(n, m), unheard' = unheard
    PROVE  Attentive'
<1> PICK d : d = Greeted(clients[n], m[1])
  OBVIOUS
<1> PICK packets : packets = {}
  OBVIOUS
<1>1. Answers(n, m, d, packets) /\ m[2].type \in {"PONG", "HOLE_PUNCH", "WELCOME"}
  BY DEF HearSign
<1>2. Marked(clients[n], d)
  BY RunningProcess, GreetedMarked DEF Calm
<1>3. Minds(n, d, {<<clients[n].addr, m>>})
  BY <1>1, <1>2, MarkedMinds
<1>4. TrueTable(n, d) /\ d.send_via_server = clients[n].send_via_server
  BY GreetedIsTrue
<1>5. \A p \in packets : /\ p.type # "MODE DIRECT"
                         /\ p.to \in DOMAIN net /\ Arrives(clients[n].addr, p.to)
                            => Genuine(p.to, <<clients[n].addr, p>>)
  OBVIOUS
<1>6. Relays(n) => Orderly(n, d, {<<clients[n].addr, m>>}, packets)
  BY <1>1, GreetedIsTrue, TidiedIsOrderly DEF TakesOver
<1> QED  BY <1>1, <1>3, <1>4, <1>5, <1>6, AnswerAttends

\* A client that hears its mode believes what the server has decided.
LEMMA HearDirectAttends ==
    ASSUME Calm, Attentive, NEW n \in Running, NEW m \in Arriving(clients[n].addr),
           HearDirect(n, m), unheard' = unheard
    PROVE  Attentive'
<1>1. PICK d, new :
        /\ Answers(n, m, d, {}) /\ Minds(n, d, {<<clients[n].addr, m>>})
        /\ d.is_relay = clients[n].is_relay
        /\ d.send_via_server = clients[n].send_via_server
        /\ \A p \in d.peers :
             \/ p \in clients[n].peers
             \/ /\ p = new /\ p.username = m[2].name /\ p.username # n
                /\ ~p.connected /\ ~p.use_server_relay
                /\ ~p.relay_requested /\ ~p.overdue
                /\ \A q \in clients[n].peers : q.username # p.username
  BY HearDirectMinds
<1>2. m[2].type = "MODE DIRECT"
  BY DEF HearDirect
<1> PICK a : a = clients[n].addr
  OBVIOUS
<1> PICK taken : taken = {<<a, m>>}
  OBVIOUS
<1> PICK packets : packets = {}
  OBVIOUS
<1>9. ASSUME Relays(n)
      PROVE  Orderly(n, d, taken, packets)
  <2>1. \A p, q \in clients[n].peers : p.username = q.username => p = q
    BY <1>9 DEF Attentive, Timely, TimelyTable
  <2>3. \A p, q \in d.peers : p.username = q.username => p = q
    BY <1>1, <2>1
  <2>4. m \in Contents(net[a])
    BY RunningProcess, ArrivingIsProper DEF Calm
  <2>5. ASSUME NEW p \in d.peers
        PROVE  \/ \E q \in clients[n].peers : Keeps(p, q)
               \/ /\ ~p.overdue /\ ~p.relay_requested
                  /\ \E x \in Contents(net[a]) : Introduces(x, p.username) /\ <<a, x>> \in taken
                  /\ \A q \in clients[n].peers : q.username # p.username
    BY <1>1, <1>2, <2>4 DEF Keeps, Introduces
  <2>6. \A x : <<a, x>> \in taken => x = m
    OBVIOUS
  <2> QED  BY <1>2, <2>3, <2>5, <2>6 DEF Orderly, TakesOver
<1>3. MemberName(m[2].name) /\ (Relays(m[2].name) \/ Relays(n))
  <2>1. Genuine(clients[n].addr, m)
    BY RunningProcess, ArrivingIsGenuine DEF Calm
  <2> QED  BY <1>2, <2>1, RelayThere DEF Genuine
<1>4. TrueTable(n, clients[n])
  BY DEF Attentive, TrueTables
<1>5. \A p \in d.peers : TrueEntry(n, p)
  BY <1>1, <1>3, <1>4 DEF TrueTable, TrueEntry
<1>6. TrueTable(n, d)
  BY <1>1, <1>4, <1>5 DEF TrueTable
<1>7. Answers(n, m, d, packets)
  BY <1>1
<1>8. \A p \in packets : /\ p.type # "MODE DIRECT"
                         /\ p.to \in DOMAIN net /\ Arrives(clients[n].addr, p.to)
                            => Genuine(p.to, <<clients[n].addr, p>>)
  OBVIOUS
<1> QED  BY <1>1, <1>2, <1>6, <1>7, <1>8, <1>9, AnswerAttends

LEMMA HearRelayAttends ==
    ASSUME Calm, OneChannel, Attentive, NEW n \in Running, NEW m \in Arriving(clients[n].addr),
           HearRelay(n, m), unheard' = unheard
    PROVE  Attentive'
<1>1. PICK d : /\ Answers(n, m, d, {}) /\ Minds(n, d, {<<clients[n].addr, m>>})
               /\ d.peers = clients[n].peers /\ ~d.send_via_server
  BY HearRelayMinds
<1>2. m[2].type = "MODE RELAY"
  BY DEF HearRelay
<1>3. Relays(n) /\ ~ServedName(n)
  <2>1. Genuine(clients[n].addr, m)
    BY RunningProcess, ArrivingIsGenuine DEF Calm
  <2> QED  BY <1>2, <2>1, RelayThere DEF Genuine, Attentive, TrueRoles
<1>4. TrueTable(n, d)
  BY <1>1, <1>3 DEF Attentive, TrueTables, TrueTable
<1> PICK packets : packets = {}
  OBVIOUS
<1>5. Answers(n, m, d, packets)
  BY <1>1
<1>6. \A p \in packets : /\ p.type # "MODE DIRECT"
                         /\ p.to \in DOMAIN net /\ Arrives(clients[n].addr, p.to)
                            => Genuine(p.to, <<clients[n].addr, p>>)
  OBVIOUS
<1>7. Relays(n) => Orderly(n, d, {<<clients[n].addr, m>>}, packets)
  BY <1>1, <1>2, ItselfIsTidied, TidiedIsOrderly DEF TakesOver
<1> QED  BY <1>1, <1>2, <1>3, <1>4, <1>5, <1>6, <1>7, AnswerAttends

LEMMA HearServerRelayAttends ==
    ASSUME Calm, Attentive, NEW n \in Running, NEW m \in Arriving(clients[n].addr),
           HearServerRelay(n, m), unheard' = unheard
    PROVE  Attentive'
<1>1. PICK d : /\ Answers(n, m, d, {}) /\ Minds(n, d, {<<clients[n].addr, m>>})
               /\ d.is_relay = clients[n].is_relay
               /\ IF m[2].name = n
                  THEN d.peers = clients[n].peers /\ d.send_via_server
                  ELSE /\ d.peers = MarkServed(clients[n].peers, m[2].name)
                       /\ d.send_via_server = clients[n].send_via_server
  BY HearServerRelayMinds
<1>2. m[2].type = "MODE SERVER_RELAY"
  BY DEF HearServerRelay
<1>3. ServedName(m[2].name)
  <2>1. Genuine(clients[n].addr, m)
    BY RunningProcess, ArrivingIsGenuine DEF Calm
  <2> QED  BY <1>2, <2>1 DEF Genuine
<1>4. TrueTable(n, clients[n]) /\ clients[n].peers \in SUBSET Peer
  BY RunningProcess DEF Calm, Attentive, TrueTables, Process
<1>5. ASSUME NEW p \in MarkServed(clients[n].peers, m[2].name)
      PROVE  TrueEntry(n, p)
  <2>1. PICK q \in clients[n].peers : MarkedEntry(p, q, p.username = m[2].name, p.username = m[2].name)
    BY <1>4, MarkedEntries
  <2>2. TrueEntry(n, q)
    BY <1>4 DEF TrueTable
  <2>3. p.username = m[2].name => Clear(n, p.username) /\ ServedName(p.username)
    BY <1>3 DEF Clear
  <2> QED  BY <2>1, <2>2, <2>3, MarkedEntryIsTrue
<1>6. TrueTable(n, d)
  BY <1>1, <1>3, <1>4, <1>5 DEF TrueTable
<1> PICK packets : packets = {}
  OBVIOUS
<1>7. Answers(n, m, d, packets)
  BY <1>1
<1>8. \A p \in packets : /\ p.type # "MODE DIRECT"
                         /\ p.to \in DOMAIN net /\ Arrives(clients[n].addr, p.to)
                            => Genuine(p.to, <<clients[n].addr, p>>)
  OBVIOUS
<1>9. /\ ServedName(n) /\ clients[n].send_via_server => d.send_via_server
      /\ m[2].type = "MODE SERVER_RELAY" /\ m[2].name = n => d.send_via_server
  BY <1>1
<1>10. Tidied(d.peers, clients[n].peers)
  BY <1>1, <1>4, ItselfIsTidied, MarksAreTidied
<1>11. ASSUME Relays(n)
       PROVE  Orderly(n, d, {<<clients[n].addr, m>>}, packets)
  <2>1. Single(clients[n].peers)
    BY <1>11 DEF Attentive, Timely, TimelyTable, Single
  <2>2. ASSUME NEW p \in d.peers, p.username = m[2].name
        PROVE  p.use_server_relay
    <3>1. p.username # n
      BY <1>6 DEF TrueTable, TrueEntry
    <3> QED  BY <1>1, <1>4, <2>1, <2>2, <3>1, ServedIsFound
  <2>3. \A x, p : <<clients[n].addr, x>> \in {<<clients[n].addr, m>>} /\ p \in d.peers
                    /\ TakesOver(x, p.username) => p.use_server_relay
    BY <2>2 DEF TakesOver
  <2> QED  BY <1>10, <1>11, <2>3, TidiedIsOrderly
<1> QED  BY <1>1, <1>2, <1>6, <1>7, <1>8, <1>9, <1>11, AnswerAttends

\* A step of n in which it sends and hears nothing.
LEMMA SendAttends ==
    ASSUME Calm, Attentive, NEW n \in Running, NEW d, NEW packets,
           Becomes(n, d, packets), Moved(net, net', {}, clients[n].addr, packets),
           Marked(clients[n], d), d.send_via_server = clients[n].send_via_server,
           TrueTable(n, d), unheard' = unheard,
           Relays(n) => Orderly(n, d, {}, packets),
           \A p \in packets : p.type # "MODE DIRECT",
           \A p \in packets : p.to \in DOMAIN net /\ Arrives(clients[n].addr, p.to)
                          => Genuine(p.to, <<clients[n].addr, p>>)
    PROVE  Attentive'
<1> PICK taken : taken = {}
  OBVIOUS
<1>1. Minds(n, d, taken)
  BY MarkedMinds
<1>2. ClientMoves(n, d, taken, packets)
  BY DEF ClientMoves, Becomes, serverVars
<1>3. Believes(n, d, taken, packets)
  BY DEF Believes
<1>4. \A b, m : <<b, m>> \in taken => m[2].type # "DATA"
  OBVIOUS
<1> QED  BY <1>1, <1>2, <1>3, <1>4, ClientAttends

LEMMA PunchAttends ==
    ASSUME Calm, Attentive, NEW n \in Names, Punch(n)
    PROVE  Attentive'
<1> DEFINE sent == {HolePunch(p.addr) : p \in PunchTargets(clients[n].peers)}
<1> PICK packets : packets = sent
  OBVIOUS
<1>1. /\ n \in Running /\ Becomes(n, clients[n], packets) /\ unheard' = unheard
      /\ net' = Carried(net, clients[n].addr, packets)
  BY DEF Punch, lineVars
<1>2. \A p \in packets : p.type = "HOLE_PUNCH"
  BY DEF HolePunch
<1>3. Moved(net, net', {}, clients[n].addr, packets)
  BY <1>1, CarriedMoves DEF Calm, StateTypes
<1>4. Marked(clients[n], clients[n])
  BY <1>1, RunningProcess, AlikeItself DEF Calm, Marked, Process
<1>5. \A p \in packets : p.to \in DOMAIN net /\ Arrives(clients[n].addr, p.to)
                          => Genuine(p.to, <<clients[n].addr, p>>)
  BY <1>1, <1>2, RunningProcess, SignsAreGenuine DEF Calm
<1>6. TrueTable(n, clients[n])
  BY <1>1 DEF Attentive, TrueTables
<1>7. Relays(n) => Orderly(n, clients[n], {}, packets)
  BY <1>1, ItselfIsTidied, TidiedIsOrderly
<1> QED  BY <1>1, <1>2, <1>3, <1>4, <1>5, <1>6, <1>7, SendAttends

LEMMA KeepAliveAttends ==
    ASSUME Calm, Attentive, NEW n \in Names, KeepAlive(n)
    PROVE  Attentive'
<1> PICK c : c = clients[n]
  OBVIOUS
<1> PICK packets : packets = RoundPackets(c.peers)
  OBVIOUS
<1> PICK peers : peers = AfterRound(c.peers)
  OBVIOUS
<1> PICK d : d = [c EXCEPT !.peers = peers]
  OBVIOUS
<1>1. /\ n \in Running /\ Becomes(n, d, packets) /\ unheard' = unheard
      /\ net' = Carried(net, clients[n].addr, packets) /\ c.is_relay
  BY DEF KeepAlive, lineVars
<1>2. c \in Process /\ c.peers \in SUBSET Peer /\ c.addr \in Addrs
  BY <1>1, RunningProcess DEF Calm, Process
<1>3. \A p \in Watched(c.peers) : ~p.overdue
  BY <1>1, AttentiveHeeds DEF Heeded
<1>4. Alike(peers, c.peers)
  BY <1>2, <1>3, RoundIsAlike
<1>5. Marked(c, d) /\ d.send_via_server = c.send_via_server /\ d.peers = peers
  <2>1. peers \in SUBSET Peer
    BY <1>4 DEF Alike
  <2> QED  BY <1>2, <1>4, <2>1, PeersMarked, ProcessChanged
<1>6. TrueTable(n, c) /\ Relays(n)
  BY <1>1 DEF Attentive, TrueTables, TrueTable
<1>7. Expired(c.peers) = {} /\ Unreached(c.peers) \subseteq Watched(c.peers)
  BY <1>3 DEF Expired, Unreached
<1>12. \A q \in Watched(c.peers) : q \in c.peers /\ ~q.use_server_relay
  BY DEF Watched
<1>8. ASSUME NEW p \in peers
      PROVE  TrueEntry(n, p)
  <2>1. PICK q \in c.peers : p = q \/ p = [q EXCEPT !.relay_requested = TRUE]
    BY <1>7, <1>12 DEF AfterRound
  <2>2. /\ p.username = q.username /\ p.connected = q.connected
        /\ p.use_server_relay = q.use_server_relay
    BY <1>2, <2>1 DEF Peer
  <2> QED  BY <1>6, <2>2 DEF TrueTable, TrueEntry
<1>9. TrueTable(n, d)
  BY <1>5, <1>6, <1>8 DEF TrueTable, Marked
<1>10. ASSUME NEW p \in packets, p.to \in DOMAIN net, Arrives(clients[n].addr, p.to)
       PROVE  Genuine(p.to, <<clients[n].addr, p>>)
  <2>1. \/ p.type = "PING"
        \/ p.type = "REQUEST_RELAY" /\ p.to = Server /\ \E q \in c.peers : p.name = q.username
    BY <1>7, <1>12 DEF RoundPackets, Ping, AskForRelay
  <2>2. CASE p.type = "PING"
    BY <1>2, <1>10, <2>2, SignsAreGenuine
  <2>3. CASE p.type = "REQUEST_RELAY" /\ p.to = Server /\ \E q \in c.peers : p.name = q.username
    <3> PICK m : m = <<clients[n].addr, p>>
      OBVIOUS
    <3>1. m[2] = p
      OBVIOUS
    <3>2. MemberName(p.name) /\ p.name # n
      BY <1>6, <2>3 DEF TrueTable, TrueEntry
    <3>3. Genuine(Server, m)
      BY <1>1, <1>6, <2>3, <3>1, <3>2 DEF Genuine
    <3> QED  BY <2>3, <3>3
  <2> QED  BY <2>1, <2>2, <2>3
<1>11. Moved(net, net', {}, clients[n].addr, packets)
  BY <1>1, CarriedMoves DEF Calm, StateTypes
<1>13. \A p \in packets : p.type # "MODE DIRECT"
  <2>1. ASSUME NEW p \in packets
        PROVE  p.type \in {"PEER_TIMEOUT", "PING", "REQUEST_RELAY"}
    BY DEF RoundPackets, ReportTimeout, Ping, AskForRelay
  <2> QED  BY <2>1
<1>14. ASSUME NEW p \in peers
       PROVE  \/ p \in c.peers /\ p \notin Unreached(c.peers)
              \/ \E q \in Unreached(c.peers) : p = [q EXCEPT !.relay_requested = TRUE]
  BY <1>14 DEF AfterRound
<1>15. \A q \in c.peers :
         /\ [q EXCEPT !.relay_requested = TRUE].username = q.username
         /\ [q EXCEPT !.relay_requested = TRUE].overdue = q.overdue
         /\ [q EXCEPT !.relay_requested = TRUE].use_server_relay = q.use_server_relay
  BY <1>2 DEF Peer
<1>16. ASSUME Relays(n)
       PROVE  Orderly(n, d, {}, packets)
  <2>1. Single(c.peers)
    BY <1>1, <1>16 DEF Attentive, Timely, TimelyTable, Single
  <2>2. \A p, q \in d.peers : p.username = q.username => p = q
    <3> SUFFICES ASSUME NEW p \in peers, NEW q \in peers, p.username = q.username
                 PROVE  p = q
      BY <1>5
    <3>1. PICK x \in c.peers : \/ p = x /\ x \notin Unreached(c.peers)
                              \/ /\ p = [x EXCEPT !.relay_requested = TRUE]
                                 /\ x \in Unreached(c.peers)
      BY <1>7, <1>12, <1>14
    <3>2. PICK y \in c.peers : \/ q = y /\ y \notin Unreached(c.peers)
                              \/ /\ q = [y EXCEPT !.relay_requested = TRUE]
                                 /\ y \in Unreached(c.peers)
      BY <1>7, <1>12, <1>14
    <3>3. x.username = y.username
      BY <1>15, <3>1, <3>2
    <3>4. x = y
      BY <2>1, <3>3 DEF Single
    <3> QED  BY <3>1, <3>2, <3>4
  <2>3. ASSUME NEW p \in d.peers
        PROVE  \/ \E q \in c.peers : Keeps(p, q)
               \/ \E q \in c.peers :
                    /\ p.username = q.username /\ ~q.use_server_relay /\ ~p.overdue
                    /\ AskForRelay(p.username) \in packets
    <3>1. CASE p \in c.peers
      BY <3>1 DEF Keeps
    <3>2. CASE \E q \in Unreached(c.peers) : p = [q EXCEPT !.relay_requested = TRUE]
      <4>1. PICK q \in Unreached(c.peers) : p = [q EXCEPT !.relay_requested = TRUE]
        BY <3>2
      <4>2. q \in c.peers /\ ~q.use_server_relay /\ ~q.overdue
        BY <1>3, <1>7, <1>12
      <4>3. AskForRelay(q.username) \in packets
        BY DEF RoundPackets
      <4> QED  BY <1>15, <4>1, <4>2, <4>3
    <3> QED  BY <1>5, <1>14, <3>1, <3>2
  <2> QED  BY <2>2, <2>3 DEF Orderly
<1> QED  BY <1>1, <1>5, <1>9, <1>10, <1>11, <1>13, <1>16, SendAttends

\* The relay hears of every peer that it watches, or is about to be told that
\* the server serves it.
LEMMA RelayHearsOfAll ==
    ASSUME Calm, Attentive, NEW n \in Running, Relays(n),
           NEW p \in Watched(clients[n].peers), Unheard(n, p)
    PROVE  FALSE
<1> PICK a : a = clients[n].addr
  OBVIOUS
<1>1. p \in clients[n].peers /\ ~p.use_server_relay
  BY DEF Watched
<1>2. Answering(p) /\ TrueEntry(n, p) /\ TimelyEntry(n, p) /\ ~ServedName(n)
  BY <1>1 DEF Calm, Tables, Attentive, TrueTables, TrueTable, Timely, TimelyTable, TrueRoles
<1>3. Contents(net[a]) = {}
  <2>1. net[a] = <<>>
    BY DEF Unheard, Drained
  <2> QED  BY <2>1 DEF Contents
<1>4. ~Asked(n, p.username)
  <2>1. \A m \in Contents(net[Server]) : m[1] # a
    BY DEF Unheard, Drained, Arrived, OnTheWay, Contents, Calm, StateTypes
  <2> QED  BY <2>1 DEF Asked
<1>5. clients[n].is_relay
  <2>1. Told(n)
    BY RelayIsMember DEF Calm, Roles
  <2> QED  BY <1>3, <2>1 DEF Told
<1>6. {a, p.addr} \notin Open
  <2>1. Pings(n, p.addr)
    BY <1>5 DEF Pings, At
  <2> QED  BY <1>2, <2>1 DEF Unheard, HeardOf
<1>7. p.connected \/ p.relay_requested
  BY <1>5 DEF Unheard
<1>8. ServedName(p.username)
  <2>1. ~({a, clients[p.username].addr} \in Open)
    BY <1>2, <1>6 DEF Answering
  <2> QED  BY <1>1, <1>2, <1>4, <1>7, <2>1 DEF TrueEntry, TimelyEntry, Clear
<1> QED  BY <1>1, <1>2, <1>3, <1>8 DEF TimelyEntry

LEMMA AgeAttends ==
    ASSUME Calm, Attentive, NEW n \in Names, Age(n)
    PROVE  Attentive'
<1> PICK c : c = clients[n]
  OBVIOUS
<1>1. n \in Running
  BY DEF Age
<1>2. c \in Process /\ c.peers \in SUBSET Peer
  BY <1>1, RunningProcess DEF Calm, Process
<1>3. PICK p \in Watched(c.peers) :
        \E o \in {[p EXCEPT !.late = TRUE], [p EXCEPT !.late = TRUE, !.overdue = TRUE]} :
          /\ Becomes(n, [c EXCEPT !.peers = (@ \ {p}) \cup {o}], {})
          /\ o = [p EXCEPT !.late = TRUE] \/ Unheard(n, p)
  BY DEF Age
<1>4. p \in c.peers /\ ~p.use_server_relay
  BY DEF Watched
<1> PICK o \in {[p EXCEPT !.late = TRUE], [p EXCEPT !.late = TRUE, !.overdue = TRUE]} :
          /\ Becomes(n, [c EXCEPT !.peers = (@ \ {p}) \cup {o}], {})
          /\ o = [p EXCEPT !.late = TRUE] \/ Unheard(n, p)
  BY <1>3
<1>5. net' = net /\ unheard' = unheard
  BY DEF Age, lineVars
<1> PICK peers : peers = (c.peers \ {p}) \cup {o}
  OBVIOUS
<1> PICK d : d = [c EXCEPT !.peers = peers]
  OBVIOUS
<1>6. /\ o \in Peer /\ o.username = p.username /\ o.addr = p.addr
      /\ o.connected = p.connected /\ o.relay_requested = p.relay_requested
      /\ o.use_server_relay = p.use_server_relay
  BY <1>2, <1>4 DEF Peer
<1>7. Relays(n) => o.overdue = p.overdue
  BY <1>1, <1>2, <1>4, RelayHearsOfAll DEF Peer
<1>8. Alike(peers, c.peers)
  BY <1>2, <1>4, <1>6 DEF Alike
<1>9. Marked(c, d) /\ d.send_via_server = c.send_via_server /\ d.peers = peers
  <2>1. peers \in SUBSET Peer
    BY <1>8 DEF Alike
  <2>2. Marked(c, d)
    BY <1>2, <1>8, PeersMarked
  <2>3. d.send_via_server = c.send_via_server /\ d.peers = peers
    BY <1>2, <2>1, ProcessChanged
  <2> QED  BY <2>2, <2>3
<1>10. TrueTable(n, c)
  BY <1>1 DEF Attentive, TrueTables
<1>11. \A q \in peers : TrueEntry(n, q)
  BY <1>4, <1>6, <1>10 DEF TrueTable, TrueEntry
<1>12. TrueTable(n, d)
  BY <1>9, <1>10, <1>11 DEF TrueTable, Marked
<1> PICK packets : packets = {}
  OBVIOUS
<1>13. Moved(net, net', {}, clients[n].addr, packets)
  BY <1>5, NothingMoves DEF Calm, StateTypes
<1>14. Becomes(n, d, packets)
  OBVIOUS
<1>15. \A q \in packets : /\ q.type # "MODE DIRECT"
                          /\ q.to \in DOMAIN net /\ Arrives(clients[n].addr, q.to)
                             => Genuine(q.to, <<clients[n].addr, q>>)
  OBVIOUS
<1>16. ASSUME Relays(n)
       PROVE  Orderly(n, d, {}, packets)
  <2>1. Tidied(peers, c.peers)
    BY <1>4, <1>6, <1>7, <1>16 DEF Tidied, Single, Keeps
  <2> QED  BY <1>1, <1>9, <1>16, <2>1, TidiedIsOrderly
<1> QED  BY <1>1, <1>5, <1>9, <1>12, <1>13, <1>14, <1>15, <1>16, SendAttends

----------------------------------------------------------------------------
(* A line is heard, and typed *)

\* What d sends on hearing a line of sender.
PassedOn(d, sender) ==
    IF ~d.is_relay THEN {}
    ELSE {Data(p.addr, sender) : p \in ForwardTargets(d.peers, sender)}
           \cup (IF d.channel_has_server_relays THEN {Data(Server, sender)} ELSE {})

\* What n makes of a line it hears is so: it reaches the author, or has no
\* entry of it, neither of the two being the relay.
LEMMA HeardLine ==
    ASSUME Calm, OneChannel, Attentive, NEW n \in Running, NEW m \in Arriving(clients[n].addr),
           HearData(n, m)
    PROVE  /\ m[2].type = "DATA" /\ m[2].name \in Running /\ m[2].name # n
           /\ \E d : /\ Answers(n, m, d, PassedOn(d, m[2].name))
                     /\ Marked(clients[n], d) /\ TrueTable(n, d)
                     /\ d.send_via_server = clients[n].send_via_server
                     /\ Tidied(d.peers, clients[n].peers)
<1> PICK c : c = clients[n]
  OBVIOUS
<1> PICK sender : sender = m[2].name
  OBVIOUS
<1> PICK g : g = Greeted(c, m[1])
  OBVIOUS
<1> PICK peers : peers = MarkCalled(g.peers, sender)
  OBVIOUS
<1> PICK d : d = [g EXCEPT !.peers = peers]
  OBVIOUS
<1>1. Answers(n, m, d, PassedOn(d, sender)) /\ m[2].type = "DATA"
  BY DEF HearData, PassedOn
<1>2. sender \in Running /\ Reaches(n, sender)
  <2>1. Genuine(c.addr, m) /\ c.addr \in Addrs
    BY RunningProcess, ArrivingIsGenuine DEF Calm
  <2>2. PICK j \in Running : clients[j].addr = c.addr /\ Reaches(j, sender)
    BY <1>1, <2>1, ServerAssumption DEF Genuine
  <2>3. j = n
    BY <2>2 DEF Calm, Processes
  <2> QED  BY <1>1, <2>1, <2>2, <2>3 DEF Genuine
<1>3. Marked(c, g) /\ TrueTable(n, g) /\ g.send_via_server = c.send_via_server /\ Tidied(g.peers, c.peers)
  BY RunningProcess, GreetedMarked, GreetedIsTrue DEF Calm
<1>4. g \in Process /\ g.peers \in SUBSET Peer
  BY <1>3 DEF Marked, Process
<1>5. Alike(peers, g.peers)
  BY <1>4, MarksAreAlike
<1>6. Marked(g, d)
  BY <1>4, <1>5, PeersMarked
<1>7. peers \in SUBSET Peer
  BY <1>5 DEF Alike
<1>8. d.peers = peers /\ d.is_relay = g.is_relay /\ d.send_via_server = g.send_via_server
  BY <1>4, <1>7, ProcessChanged
<1>9. Marked(c, d)
  BY <1>3, <1>6, MarkedTwice
<1>10. ASSUME NEW p \in peers
       PROVE  TrueEntry(n, p)
  <2>1. PICK q \in g.peers : MarkedEntry(p, q, p.username = sender, FALSE)
    BY <1>4, MarkedEntries
  <2>2. TrueEntry(n, q) /\ p.username = q.username
    BY <1>3, <2>1 DEF TrueTable, MarkedEntry
  <2>3. ASSUME p.username = sender
        PROVE  Clear(n, p.username)
    <3>1. Relays(n) \/ Relays(sender)
      BY <2>2, <2>3 DEF TrueEntry
    <3>2. \A r : Relays(r) => r = n \/ r = sender
      BY <3>1, OneRelay
    <3> QED  BY <1>2, <2>3, <3>2 DEF Reaches
  <2> QED  BY <2>1, <2>2, <2>3, MarkedEntryIsTrue
<1>11. TrueTable(n, d)
  BY <1>3, <1>8, <1>10 DEF TrueTable
<1>12. Tidied(d.peers, c.peers)
  BY <1>3, <1>4, <1>8, MarksAreTidied, TidiedTwice
<1> QED  BY <1>1, <1>2, <1>3, <1>8, <1>9, <1>11, <1>12 DEF Reaches

LEMMA PassedIsGenuine ==
    ASSUME Calm, NEW n \in Running, NEW d, TrueTable(n, d), \A p \in d.peers : Answering(p),
           NEW author \in Running, author # n,
           NEW p \in PassedOn(d, author), Arrives(clients[n].addr, p.to)
    PROVE  Genuine(p.to, <<clients[n].addr, p>>)
<1> PICK a : a = clients[n].addr
  OBVIOUS
<1> PICK m : m = <<a, p>>
  OBVIOUS
<1>1. m[1] = a /\ m[2] = p /\ a # Server
  BY RunningProcess, ServerAssumption DEF Calm
<1>2. Relays(n) /\ RelayAt(a)
  BY DEF TrueTable, PassedOn, RelayAt
<1>3. p.type = "DATA" /\ p.name = author
  BY DEF PassedOn, Data
<1>4. p.to = Server \/ \E q \in d.peers : p.to = q.addr /\ q.username # author
  BY DEF PassedOn, Data, ForwardTargets
<1>5. CASE p.to = Server
  BY <1>1, <1>2, <1>3, <1>5 DEF Genuine
<1>6. CASE \E q \in d.peers : p.to = q.addr /\ q.username # author
  <2>1. PICK q \in d.peers : p.to = q.addr /\ q.username # author
    BY <1>6
  <2>2. q.username \in Running /\ clients[q.username].addr = p.to /\ q.username # n
    BY <2>1 DEF Answering, TrueTable, TrueEntry
  <2>3. p.to # Server /\ {a, p.to} \in Open
    BY <1>1, <2>2, RunningProcess, ServerAssumption DEF Calm, Arrives
  <2>4. Reaches(q.username, author)
    BY <1>2, <2>1, <2>2 DEF Reaches
  <2> QED  BY <1>1, <1>3, <2>2, <2>3, <2>4 DEF Genuine
<1> QED  BY <1>4, <1>5, <1>6

\* Whom the line comes to through n, it comes to when n has heard it.
LEMMA PassedComes ==
    ASSUME Calm, NEW n \in Running, NEW d, NEW m, NEW author, Marked(clients[n], d), TrueTable(n, d),
           Minds(n, d, {<<clients[n].addr, m>>}), m[2].type = "DATA", m[2].name = author,
           ClientMoves(n, d, {<<clients[n].addr, m>>}, PassedOn(d, author)),
           NEW u \in Running, u # n, Carries(u, clients[n].addr, m)
    PROVE  Coming(u)'
<1> PICK a : a = clients[n].addr
  OBVIOUS
<1> PICK packets : packets = PassedOn(d, author)
  OBVIOUS
<1> PICK taken : taken = {<<a, m>>}
  OBVIOUS
<1>1. Moved(net, net', taken, a, packets) /\ Minds(n, d, taken) /\ ClientMoves(n, d, taken, packets)
  BY DEF ClientMoves
<1>2. Grew /\ Remembers
  BY <1>1, ClientChanges
<1>3. a # Server /\ a # clients[u].addr /\ a \in Addrs
  BY RunningProcess, ServerAssumption DEF Calm, Processes
<1>4. PICK r \in Running : a = clients[r].addr /\ ByRelay(r, u, m)
  BY <1>3 DEF Carries
<1>5. ByRelay(n, u, m)
  BY <1>4 DEF Calm, Processes
<1>6. d.is_relay /\ author # u /\ Relays(n)
  BY <1>5 DEF ByRelay, Marked, TrueTable
<1>7. CASE clients[n].channel_has_server_relays /\ ServedName(u)
  <2> PICK p : p = Data(Server, author)
    OBVIOUS
  <2>1. p \in packets /\ p.to = Server /\ p.type = "DATA" /\ p.name = author
    BY <1>6, <1>7 DEF PassedOn, Marked, Data
  <2> PICK x : x = <<a, p>>
    OBVIOUS
  <2>2. ByServer(u, x)
    BY <1>6, <1>7, <2>1 DEF ByServer, RelayAt
  <2>3. Carries(u, Server, x)
    BY <2>1, <2>2 DEF Carries
  <2>4. Carries(u, Server, x)'
    BY <1>2, <2>3, CarriesStays
  <2>5. Server \in DOMAIN net /\ Arrives(a, Server)
    BY DEF Calm, StateTypes, Arrives
  <2>6. Carries(u, p.to, <<a, p>>)'
    BY <2>1, <2>4
  <2> QED  BY <1>1, <2>1, <2>5, <2>6, SentComes
<1>8. CASE \E p \in clients[n].peers : p.username = u /\ {a, p.addr} \in Open
  <2>1. PICK q \in clients[n].peers : q.username = u /\ {a, q.addr} \in Open
    BY <1>8
  <2>2. q.addr = clients[u].addr /\ q.addr \in DOMAIN net
    BY <2>1, RunningProcess DEF Calm, Tables, Answering
  <2>3. PICK e \in d.peers : e.username = u /\ e.addr = q.addr
    BY <2>1 DEF Marked, Alike
  <2> PICK p : p = Data(q.addr, author)
    OBVIOUS
  <2>4. p \in packets
    BY <1>6, <2>3 DEF PassedOn, ForwardTargets
  <2>5. p.to = q.addr /\ p.type = "DATA" /\ p.name = author /\ Arrives(a, p.to)
    BY <2>1 DEF Data, Arrives
  <2> PICK x : x = <<a, p>>
    OBVIOUS
  <2>6. Carries(u, q.addr, x)
    BY <2>2, <2>5 DEF Carries
  <2>7. Carries(u, q.addr, x)'
    BY <1>2, <2>6, CarriesStays
  <2>8. Carries(u, p.to, <<a, p>>)'
    BY <2>5, <2>7
  <2> QED  BY <1>1, <2>2, <2>4, <2>5, <2>8, SentComes
<1> QED  BY <1>5, <1>7, <1>8 DEF ByRelay

LEMMA HearDataAttends ==
    ASSUME Calm, OneChannel, Attentive, NEW n \in Running, NEW m \in Arriving(clients[n].addr),
           HearData(n, m)
    PROVE  Attentive'
<1> PICK a : a = clients[n].addr
  OBVIOUS
<1> PICK author : author = m[2].name
  OBVIOUS
<1>1. m[2].type = "DATA" /\ author \in Running /\ author # n
  BY HeardLine
<1>2. PICK d : /\ Answers(n, m, d, PassedOn(d, author))
               /\ Marked(clients[n], d) /\ TrueTable(n, d)
               /\ d.send_via_server = clients[n].send_via_server
               /\ Tidied(d.peers, clients[n].peers)
  BY HeardLine
<1> PICK packets : packets = PassedOn(d, author)
  OBVIOUS
<1> PICK taken : taken = {<<a, m>>}
  OBVIOUS
<1>3. Minds(n, d, taken)
  BY <1>1, <1>2, MarkedMinds
<1>4. Moved(net, net', taken, a, packets)
  BY <1>2, RunningProcess, AnswerMoves DEF Answers, Calm, StateTypes
<1>5. ClientMoves(n, d, taken, packets)
  BY <1>2, <1>4 DEF ClientMoves, Answers, Becomes, serverVars
<1>6. Believes(n, d, taken, packets)
  <2>1. \A p \in packets : p.to \in DOMAIN net /\ Arrives(clients[n].addr, p.to)
                          => Genuine(p.to, <<clients[n].addr, p>>)
    <3>1. \A p \in d.peers : Answering(p)
      BY <1>3 DEF Minds
    <3> QED  BY <1>1, <1>2, <3>1, PassedIsGenuine
  <2>2. Relays(n) => Orderly(n, d, taken, packets)
    BY <1>1, <1>2, TidiedIsOrderly DEF TakesOver
  <2>3. \A p \in packets : p.type # "MODE DIRECT"
    <3>1. \A p \in packets : p.type = "DATA"
      BY DEF PassedOn, Data
    <3> QED  BY <3>1
  <2> QED  BY <1>1, <1>2, <2>1, <2>2, <2>3 DEF Believes
<1>7. GenuineMail' /\ TrueTables' /\ TrueRoles' /\ TrueNotes' /\ Timely'
  BY <1>3, <1>5, <1>6, ClientBelieves
<1>8. Grew /\ Remembers
  BY <1>3, <1>5, ClientChanges
<1>9. LineComes'
  <2>0. unheard' = unheard \ {n}
    BY DEF HearData
  <2> SUFFICES ASSUME NEW u \in unheard, u # n
               PROVE  u \in Running' /\ MemberName(u)' /\ Coming(u)'
    BY <2>0 DEF LineComes
  <2>1. u \in Running /\ MemberName(u) /\ Coming(u)
    BY DEF Attentive, LineComes
  <2>2. u \in Running' /\ MemberName(u)'
    BY <1>8, <2>1 DEF Grew, Steady
  <2>3. ASSUME NEW b \in DOMAIN net, NEW x \in Contents(net[b]), <<b, x>> \in taken, Carries(u, b, x)
        PROVE  Coming(u)'
    <3>1. b = a /\ x = m
      BY <2>3
    <3> QED  BY <1>1, <1>2, <1>3, <1>5, <2>1, <2>3, <3>1, PassedComes
  <2>4. Coming(u)'
    BY <1>4, <1>8, <2>1, <2>3, ComingStays
  <2> QED  BY <2>2, <2>4
<1> QED  BY <1>7, <1>9 DEF Attentive

LEMMA ClientHearsAttends ==
    ASSUME Calm, OneChannel, Attentive, NEW n \in Names, ClientHears(n)
    PROVE  Attentive'
<1>1. n \in Running
  BY DEF ClientHears
<1>2. PICK m \in Arriving(clients[n].addr) :
         \/ /\ \/ HearPing(n, m) \/ HearSign(n, m) \/ HearDirect(n, m)
               \/ HearUserLeft(n, m) \/ HearRelay(n, m) \/ HearServerRelay(n, m)
            /\ unheard' = unheard
         \/ HearData(n, m)
  BY DEF ClientHears, lineVars
<1> QED
  BY <1>1, <1>2, HearPingAttends, HearSignAttends, HearUserLeftCalm, HearDirectAttends,
     HearRelayAttends, HearServerRelayAttends, HearDataAttends

\* n has o in its table, where o is, and reaches it there.
Linked(n, o) ==
    \E p \in clients[n].peers :
       /\ p.username = o /\ p.addr = clients[o].addr
       /\ {clients[n].addr, p.addr} \in Open /\ ~p.use_server_relay

LEMMA ReachedIsLinked ==
    ASSUME Calm, Attentive, Settled, NEW n \in Running, NEW o \in Running, Knows(n, o),
           ~ServedName(n), ~ServedName(o)
    PROVE  Linked(n, o)
<1>1. PICK p \in clients[n].peers : p.username = o /\ p.addr = clients[o].addr
  BY NothingToHear DEF Settled
<1>2. p.connected
  BY DEF Settled
<1>3. TrueEntry(n, p)
  BY DEF Attentive, TrueTables, TrueTable
<1> QED  BY <1>1, <1>2, <1>3 DEF Linked, TrueEntry, Clear

\* In a channel that has settled, who is served sends to the server, and
\* everyone else and the relay have reached each other.
LEMMA SettledChannel ==
    ASSUME Calm, OneChannel, Attentive, Settled
    PROVE  /\ \A n \in Running :
                IF ServedName(n) THEN clients[n].send_via_server ELSE \E r \in Running : Relays(r)
           /\ \A r \in Running : Relays(r) =>
                /\ clients[r].is_relay
                /\ \A u \in Running : u # r =>
                     IF ServedName(u) THEN clients[r].channel_has_server_relays
                     ELSE Linked(r, u) /\ Linked(u, r)
<1>0. Quiet /\ main = "recv"
  BY DEF Settled, Quiet
<1>1. ASSUME NEW n \in Running
      PROVE  \E k \in DOMAIN st : \E v \in st[k].users :
               v.name = n /\ (ServedName(n) <=> v.needs_server_relay)
  <2>1. PICK k \in DOMAIN st : \E v \in st[k].users : v.name = n
    BY DEF Settled
  <2>2. PICK v \in st[k].users : v.name = n
    BY <2>1
  <2>3. ASSUME ServedName(n)
        PROVE  v.needs_server_relay
    <3>1. PICK q \in DOMAIN st : \E w \in st[q].users : w.name = n /\ w.needs_server_relay
      BY <2>3 DEF ServedName
    <3>2. PICK w \in st[q].users : w.name = n /\ w.needs_server_relay
      BY <3>1
    <3>3. k = q
      BY DEF Calm, StateTypes, OneChannel
    <3>4. w = v
      BY <2>2, <3>2, <3>3 DEF Calm, Members
    <3> QED  BY <3>2, <3>4
  <2>4. v.needs_server_relay => ServedName(n)
    BY <2>2 DEF ServedName
  <2> QED  BY <2>2, <2>3, <2>4
<1>2. ASSUME NEW n \in Running
      PROVE  IF ServedName(n) THEN clients[n].send_via_server ELSE \E r \in Running : Relays(r)
  <2>1. PICK k \in DOMAIN st : \E v \in st[k].users :
               v.name = n /\ (ServedName(n) <=> v.needs_server_relay)
    BY <1>1
  <2>2. PICK v \in st[k].users : v.name = n /\ (ServedName(n) <=> v.needs_server_relay)
    BY <2>1
  <2>3. /\ v.needs_server_relay => WillUseServer(n)
        /\ st[k].relay = None => v.needs_server_relay
    BY <1>0, <2>2 DEF Attentive, TrueRoles
  <2>4. WillUseServer(n) => clients[n].send_via_server
    <3>1. net[clients[n].addr] = <<>>
      BY <1>0, RunningProcess DEF Calm, Quiet
    <3> QED  BY <3>1 DEF WillUseServer, Contents
  <2>5. ASSUME st[k].relay # None
        PROVE  \E r \in Running : Relays(r)
    <3>1. Relays(st[k].relay)
      BY <2>5 DEF Relays
    <3> QED  BY <3>1, RelayIsMember
  <2> QED  BY <2>2, <2>3, <2>4, <2>5
<1>3. ASSUME NEW r \in Running, Relays(r)
      PROVE  /\ clients[r].is_relay
             /\ \A u \in Running : u # r =>
                  IF ServedName(u) THEN clients[r].channel_has_server_relays
                  ELSE Linked(r, u) /\ Linked(u, r)
  <2>1. PICK k \in DOMAIN st : \E v \in st[k].users : v.name = r /\ st[k].relay = r
    BY <1>3, RelayIsMember
  <2>2. PICK v \in st[k].users : v.name = r /\ st[k].relay = r
    BY <2>1
  <2>3. Told(r)
    BY <2>2 DEF Calm, Roles
  <2>4. clients[r].is_relay
    BY <1>0, <2>3, NothingToHear
  <2>5. ASSUME NEW u \in Running, u # r
        PROVE  IF ServedName(u) THEN clients[r].channel_has_server_relays
               ELSE Linked(r, u) /\ Linked(u, r)
    <3>1. PICK q \in DOMAIN st : \E w \in st[q].users :
               w.name = u /\ (ServedName(u) <=> w.needs_server_relay)
      BY <1>1
    <3>2. PICK w \in st[q].users : w.name = u /\ (ServedName(u) <=> w.needs_server_relay)
      BY <3>1
    <3>3. q = k
      BY DEF Calm, StateTypes, OneChannel
    <3>4. IF w.needs_server_relay THEN WillMirror(r) ELSE Knows(r, u) /\ Knows(u, r)
      BY <1>0, <2>2, <2>5, <3>2, <3>3 DEF Calm, Pairs
    <3>5. WillMirror(r) => clients[r].channel_has_server_relays
      BY <1>0, NothingToHear
    <3>6. ~ServedName(r)
      BY <1>3 DEF Attentive, TrueRoles
    <3>7. ~ServedName(u) => Linked(r, u) /\ Linked(u, r)
      BY <3>2, <3>4, <3>6, ReachedIsLinked
    <3> QED  BY <3>2, <3>4, <3>5, <3>7
  <2> QED  BY <2>4, <2>5
<1> QED  BY <1>2, <1>3

\* What n sends of a line it types.
Typed(n) ==
    IF clients[n].send_via_server THEN {Data(Server, n)}
    ELSE {Data(p.addr, n) : p \in TypedTargets(clients[n].peers)}
           \cup (IF clients[n].is_relay /\ clients[n].channel_has_server_relays
                 THEN {Data(Server, n)} ELSE {})

LEMMA TypedIsGenuine ==
    ASSUME Calm, Attentive, NEW n \in Running, NEW p \in Typed(n), Arrives(clients[n].addr, p.to)
    PROVE  Genuine(p.to, <<clients[n].addr, p>>)
<1> PICK a : a = clients[n].addr
  OBVIOUS
<1> PICK m : m = <<a, p>>
  OBVIOUS
<1>1. m[1] = a /\ m[2] = p /\ a # Server
  BY RunningProcess, ServerAssumption DEF Calm
<1>2. TrueTable(n, clients[n])
  BY DEF Attentive, TrueTables
<1>3. p.type = "DATA" /\ p.name = n
  BY DEF Typed, Data
<1>4. \/ p.to = Server /\ (clients[n].send_via_server \/ clients[n].is_relay)
      \/ \E q \in clients[n].peers : p.to = q.addr
  BY DEF Typed, Data, TypedTargets
<1>5. CASE p.to = Server /\ (clients[n].send_via_server \/ clients[n].is_relay)
  <2>1. FromServed(m) \/ RelayAt(m[1])
    BY <1>1, <1>2, <1>3, <1>5 DEF TrueTable, FromServed, RelayAt
  <2> QED  BY <1>1, <1>3, <1>5, <2>1 DEF Genuine
<1>6. CASE \E q \in clients[n].peers : p.to = q.addr
  <2>1. PICK q \in clients[n].peers : p.to = q.addr
    BY <1>6
  <2>2. q.username \in Running /\ clients[q.username].addr = p.to /\ q.username # n
    BY <1>2, <2>1 DEF Calm, Tables, Answering, TrueTable, TrueEntry
  <2>3. p.to # Server /\ {a, p.to} \in Open
    BY <1>1, <2>2, RunningProcess, ServerAssumption DEF Calm, Arrives
  <2>4. Reaches(q.username, n)
    <3>1. {clients[q.username].addr, clients[n].addr} = {a, p.to}
      BY <2>2
    <3> QED  BY <2>2, <2>3, <3>1 DEF Reaches, Clear
  <2> QED  BY <1>1, <1>3, <2>2, <2>3, <2>4 DEF Genuine
<1> QED  BY <1>4, <1>5, <1>6

\* A line that n sends comes to u.
LEMMA TypedComes ==
    ASSUME Grew, Remembers, NEW n \in Running, NEW packets, NEW p \in packets,
           Moved(net, net', {}, clients[n].addr, packets),
           p.to \in DOMAIN net, p.type = "DATA", Arrives(clients[n].addr, p.to),
           NEW u \in Running, Carries(u, p.to, <<clients[n].addr, p>>)
    PROVE  Coming(u)'
<1> PICK a : a = clients[n].addr
  OBVIOUS
<1> PICK b : b = p.to
  OBVIOUS
<1> PICK m : m = <<a, p>>
  OBVIOUS
<1> PICK taken : taken = {}
  OBVIOUS
<1>1. Carries(u, b, m)'
  BY CarriesStays
<1>2. Carries(u, p.to, <<a, p>>)'
  BY <1>1
<1>3. Moved(net, net', taken, a, packets) /\ Arrives(a, p.to)
  OBVIOUS
<1> QED  BY <1>2, <1>3, SentComes

\* In a channel that has settled every other member is sent a line that leads
\* to it.
LEMMA SettledTyped ==
    ASSUME Calm, OneChannel, Attentive, Settled, NEW n \in Running, NEW u \in Running, u # n
    PROVE  \E p \in Typed(n) :
             /\ p.to \in DOMAIN net /\ p.type = "DATA" /\ Arrives(clients[n].addr, p.to)
             /\ Carries(u, p.to, <<clients[n].addr, p>>)
<1> PICK a : a = clients[n].addr
  OBVIOUS
<1>1. Server \in DOMAIN net /\ Arrives(a, Server)
  BY DEF Calm, StateTypes, Arrives
<1>2. ASSUME Data(Server, n) \in Typed(n), ByServer(u, <<a, Data(Server, n)>>)
      PROVE  \E p \in Typed(n) :
               /\ p.to \in DOMAIN net /\ p.type = "DATA" /\ Arrives(a, p.to)
               /\ Carries(u, p.to, <<a, p>>)
  <2> PICK p : p = Data(Server, n)
    OBVIOUS
  <2> PICK m : m = <<a, p>>
    OBVIOUS
  <2>1. p.to = Server /\ p.type = "DATA" /\ m[2] = p
    BY DEF Data
  <2>2. Carries(u, Server, m)
    BY <1>2, <2>1 DEF Carries
  <2> QED  BY <1>1, <1>2, <2>1, <2>2
<1>3. ASSUME NEW o \in Running, Linked(n, o), ~clients[n].send_via_server,
             o = u \/ \A m : m[2].name = n => ByRelay(o, u, m)
      PROVE  \E p \in Typed(n) :
               /\ p.to \in DOMAIN net /\ p.type = "DATA" /\ Arrives(a, p.to)
               /\ Carries(u, p.to, <<a, p>>)
  <2>1. PICK q \in clients[n].peers :
          /\ q.username = o /\ q.addr = clients[o].addr
          /\ {a, q.addr} \in Open /\ ~q.use_server_relay
    BY <1>3 DEF Linked
  <2> PICK p : p = Data(q.addr, n)
    OBVIOUS
  <2> PICK m : m = <<a, p>>
    OBVIOUS
  <2>2. p \in Typed(n)
    BY <1>3, <2>1 DEF Typed, TypedTargets
  <2>3. p.to = clients[o].addr /\ p.type = "DATA" /\ p.name = n /\ m[2] = p /\ Arrives(a, p.to)
    BY <2>1 DEF Data, Arrives
  <2>4. p.to \in DOMAIN net
    BY <2>3, RunningProcess DEF Calm
  <2>5. Carries(u, p.to, m)
    BY <1>3, <2>3 DEF Carries
  <2> QED  BY <2>2, <2>3, <2>4, <2>5
<1>4. Data(Server, n).name = n /\ <<a, Data(Server, n)>>[2] = Data(Server, n)
      /\ <<a, Data(Server, n)>>[1] = a
  BY DEF Data
<1>5. CASE ServedName(n)
  <2>1. clients[n].send_via_server
    BY <1>5, SettledChannel
  <2>2. Data(Server, n) \in Typed(n)
    BY <2>1 DEF Typed
  <2>3. ByServer(u, <<a, Data(Server, n)>>)
    <3> PICK m : m = <<a, Data(Server, n)>>
      OBVIOUS
    <3>1. ByServer(u, m)
      BY <1>4, <1>5 DEF ByServer, FromServed
    <3> QED  BY <3>1
  <2> QED  BY <1>2, <2>2, <2>3
<1>6. CASE ~ServedName(n)
  <2>1. ~clients[n].send_via_server
    BY <1>6 DEF Attentive, TrueTables, TrueTable
  <2>2. PICK r \in Running : Relays(r)
    BY <1>6, SettledChannel
  <2>3. /\ clients[r].is_relay
        /\ \A o \in Running : o # r =>
             IF ServedName(o) THEN clients[r].channel_has_server_relays
             ELSE Linked(r, o) /\ Linked(o, r)
    BY <2>2, SettledChannel
  <2>4. CASE r = n /\ ServedName(u)
    <3>1. Data(Server, n) \in Typed(n)
      BY <2>1, <2>3, <2>4 DEF Typed
    <3>2. ByServer(u, <<a, Data(Server, n)>>)
      <4> PICK m : m = <<a, Data(Server, n)>>
        OBVIOUS
      <4>1. ByServer(u, m)
        BY <1>4, <2>2, <2>4 DEF ByServer, RelayAt
      <4> QED  BY <4>1
    <3> QED  BY <1>2, <3>1, <3>2
  <2>5. CASE r = n /\ ~ServedName(u)
    BY <1>3, <2>1, <2>3, <2>5
  <2>6. CASE r # n
    <3>1. Linked(n, r)
      BY <1>6, <2>3, <2>6
    <3>2. ASSUME u # r, NEW m, m[2].name = n
          PROVE  ByRelay(r, u, m)
      BY <2>3, <3>2 DEF ByRelay, Linked
    <3> QED  BY <1>3, <2>1, <3>1, <3>2
  <2> QED  BY <2>4, <2>5, <2>6
<1> QED  BY <1>5, <1>6

LEMMA SpeakAttends ==
    ASSUME Calm, OneChannel, Attentive, NEW n \in Names, Speak(n)
    PROVE  Attentive'
<1> PICK a : a = clients[n].addr
  OBVIOUS
<1> PICK packets : packets = Typed(n)
  OBVIOUS
<1> PICK d : d = clients[n]
  OBVIOUS
<1> PICK taken : taken = {}
  OBVIOUS
<1>1. /\ n \in Running /\ Becomes(n, d, packets) /\ net' = Carried(net, a, packets)
      /\ unheard' = IF Settled THEN Running \ {n} ELSE {}
  BY DEF Speak, Typed
<1>2. Moved(net, net', taken, a, packets)
  BY <1>1, CarriedMoves DEF Calm, StateTypes
<1>3. Marked(clients[n], d)
  BY <1>1, RunningProcess, AlikeItself DEF Calm, Marked, Process
<1>4. Minds(n, d, taken)
  BY <1>1, <1>3, MarkedMinds
<1>5. ClientMoves(n, d, taken, packets)
  BY <1>1, <1>2 DEF ClientMoves, Becomes, serverVars
<1>6. Believes(n, d, taken, packets)
  <2>1. TrueTable(n, d)
    BY <1>1 DEF Attentive, TrueTables
  <2>2. \A p \in packets : p.to \in DOMAIN net /\ Arrives(clients[n].addr, p.to)
                          => Genuine(p.to, <<clients[n].addr, p>>)
    BY <1>1, TypedIsGenuine
  <2>3. Relays(n) => Orderly(n, d, taken, packets)
    BY <1>1, ItselfIsTidied, TidiedIsOrderly
  <2>4. \A p \in packets : p.type # "MODE DIRECT"
    <3>1. \A p \in packets : p.type = "DATA"
      BY DEF Typed, Data
    <3> QED  BY <3>1
  <2> QED  BY <2>1, <2>2, <2>3, <2>4 DEF Believes
<1>7. GenuineMail' /\ TrueTables' /\ TrueRoles' /\ TrueNotes' /\ Timely'
  BY <1>1, <1>4, <1>5, <1>6, ClientBelieves
<1>8. Grew /\ Remembers /\ Running' = Running
  BY <1>1, <1>4, <1>5, ClientChanges
<1>9. LineComes'
  <2>1. CASE ~Settled
    BY <1>1, <2>1 DEF LineComes
  <2>2. CASE Settled
    <3> SUFFICES ASSUME NEW u \in Running, u # n
                 PROVE  MemberName(u)' /\ Coming(u)'
      BY <1>1, <1>8, <2>2 DEF LineComes
    <3>1. MemberName(u)'
      <4>1. MemberName(u)
        BY <2>2 DEF Settled, MemberName
      <4> QED  BY <1>8, <4>1 DEF Grew
    <3>2. PICK p \in packets :
             /\ p.to \in DOMAIN net /\ p.type = "DATA" /\ Arrives(clients[n].addr, p.to)
             /\ Carries(u, p.to, <<clients[n].addr, p>>)
      BY <1>1, <2>2, SettledTyped
    <3>3. Coming(u)'
      BY <1>1, <1>2, <1>8, <3>2, TypedComes
    <3> QED  BY <3>1, <3>3
  <2> QED  BY <2>1, <2>2
<1> QED  BY <1>7, <1>9 DEF Attentive

----------------------------------------------------------------------------
(* Steps that leave the channels alone *)

LEMMA SameClients ==
    ASSUME Calm, Attentive, Grew, clients' = clients
    PROVE  Running' = Running /\ Remembers /\ TrueTables'
<1>1. Running' = Running
  BY DEF Running
<1>2. Remembers
  BY DEF Remembers
<1>3. TrueTables'
  <2> SUFFICES ASSUME NEW j \in Running
               PROVE  TrueTable(j, clients[j])'
    BY <1>1 DEF TrueTables
  <2> PICK c : c = clients[j]
    OBVIOUS
  <2>1. TrueTable(j, c)
    BY DEF Attentive, TrueTables
  <2>2. TrueTable(j, c)'
    BY <2>1, TrueTableStays
  <2> QED  BY <2>2 DEF TrueTable, TrueEntry
<1> QED  BY <1>1, <1>2, <1>3

\* A client that does nothing, and to whom nothing arrives, will still use the
\* server.
LEMMA UseStays ==
    ASSUME Calm, NEW n \in Running, clients'[n] = clients[n],
           NEW taken, NEW from, NEW packets, Moved(net, net', taken, from, packets),
           \A x : <<clients[n].addr, x>> \notin taken, WillUseServer(n)
    PROVE  WillUseServer(n)'
BY WillUseServerStays DEF Calm

\* Nothing happens to the relay.
LEMMA TimelyIdles ==
    ASSUME Calm, Attentive, Grew, st' = st, \A n \in Running : clients'[n] = clients[n],
           NEW taken, NEW from, NEW packets, Moved(net, net', taken, from, packets),
           \A n \in Running : \A x : <<clients[n].addr, x>> \notin taken,
           \A m : <<Server, m>> \in taken => m[2].type # "REQUEST_RELAY",
           \A p \in packets : p.type # "MODE DIRECT"
    PROVE  Timely'
<1> SUFFICES ASSUME NEW n, Relays(n)'
             PROVE  TimelyTable(n)'
  BY DEF Timely
<1>1. Relays(n) /\ \A o : ServedName(o)' <=> ServedName(o)
  BY DEF Relays, ServedName
<1>2. n \in Running /\ ~ServedName(n)'
  BY <1>1, RelayIsMember DEF Attentive, TrueRoles
<1> QED  BY <1>1, <1>2, TimelyStays

LEMMA IdleAttends ==
    ASSUME Calm, Attentive, st' = st, main' = main, notifyKey' = notifyKey,
           TrueNotes', clients' = clients,
           NEW taken, NEW from, NEW packets, Moved(net, net', taken, from, packets),
           \A n \in Running : \A x : <<clients[n].addr, x>> \notin taken,
           \A m : <<Server, m>> \in taken => m[2].type # "REQUEST_RELAY",
           \A p \in packets : p.type # "MODE DIRECT",
           \A p \in packets : p.to \in DOMAIN net /\ Arrives(from, p.to) => Genuine(p.to, <<from, p>>)
    PROVE  /\ Grew /\ Remembers
           /\ GenuineMail' /\ TrueTables' /\ TrueRoles' /\ TrueNotes' /\ Timely'
<1>1. Grew
  BY SameChannelGrows DEF Steady, Running
<1>2. Remembers /\ TrueTables'
  BY <1>1, SameClients
<1>3. GenuineMail'
  <2>1. ASSUME NEW p \in packets, p.to \in DOMAIN net, Arrives(from, p.to)
        PROVE  Genuine(p.to, <<from, p>>)'
    <3> PICK b : b = p.to
      OBVIOUS
    <3> PICK m : m = <<from, p>>
      OBVIOUS
    <3>1. Genuine(b, m)
      BY <2>1
    <3>2. Genuine(b, m)'
      BY <1>1, <3>1, GenuineStays
    <3> QED  BY <3>2
  <2> QED  BY <1>1, <2>1, GenuineMailNext DEF Attentive
<1>4. TrueRoles'
  <2>1. ASSUME NEW n \in Running, WillUseServer(n)
        PROVE  WillUseServer(n)'
    BY <2>1, UseStays
  <2> QED  BY <2>1, TrueRolesStay DEF Attentive
<1>5. Timely'
  BY <1>1, TimelyIdles
<1> QED  BY <1>1, <1>2, <1>3, <1>4, <1>5

LEMMA VanishAttends ==
    ASSUME Calm, Attentive, NEW a \in Addrs, Vanish(a)
    PROVE  Attentive'
<1>1. PICK m \in Arriving(a) : net' = Without(a, m)
  BY DEF Vanish
<1>2. a \in DOMAIN net /\ Sequences
  BY DEF Calm, StateTypes
<1>3. /\ st' = st /\ main' = main /\ notifyKey' = notifyKey /\ notes' = notes
      /\ clients' = clients /\ unheard' = unheard
      /\ a # Server /\ \A n \in Running : clients[n].addr # a
  BY DEF Vanish, serverVars, lineVars
<1> PICK taken : taken = {<<a, m>>}
  OBVIOUS
<1> PICK packets : packets = {}
  OBVIOUS
<1>4. Moved(net, net', taken, Server, packets)
  BY <1>1, <1>2, WithoutMoves
<1>5. TrueNotes'
  BY <1>3 DEF Attentive, TrueNotes, ServedName
<1>6. /\ Grew /\ Remembers
      /\ GenuineMail' /\ TrueTables' /\ TrueRoles' /\ TrueNotes' /\ Timely'
  <2>1. /\ \A n \in Running : \A x : <<clients[n].addr, x>> \notin taken
        /\ \A x : <<Server, x>> \notin taken
    BY <1>3
  <2>2. \A p \in packets : /\ p.type # "MODE DIRECT"
                           /\ p.to \in DOMAIN net /\ Arrives(Server, p.to) => Genuine(p.to, <<Server, p>>)
    OBVIOUS
  <2> QED  BY <1>3, <1>4, <1>5, <2>1, <2>2, IdleAttends
<1>7. LineComes'
  <2>1. \A b, x : <<b, x>> \in taken => b # Server /\ \A n \in Running : clients[n].addr # b
    BY <1>3
  <2> QED  BY <1>3, <1>4, <1>6, <2>1, LineStays DEF Attentive
<1> QED  BY <1>6, <1>7 DEF Attentive

\* A process starts.
LEMMA StartAttends ==
    ASSUME Calm, Attentive, NEW n \in Names, NEW addr \in Addrs, Start(n, addr)
    PROVE  Attentive'
<1>1. /\ n \notin Running
      /\ clients' = [clients EXCEPT ![n] = NewProcess(addr)]
      /\ net' = Carried(net, addr, {Connect(n)})
      /\ st' = st /\ main' = main /\ notifyKey' = notifyKey /\ notes' = notes /\ unheard' = unheard
  BY DEF Start, serverVars, lineVars
<1> PICK c : c = NewProcess(addr)
  OBVIOUS
<1>2. c \in Process /\ c # None /\ c.peers = {} /\ ~c.is_relay /\ ~c.send_via_server
  <2>1. NewProcess(addr) \in Process
    BY DEF NewProcess, Process
  <2>2. c.peers = {} /\ ~c.is_relay /\ ~c.send_via_server
    BY DEF NewProcess
  <2> QED  BY <2>1, <2>2, ProcessAssumption
<1>3. clients'[n] = c /\ \A j \in Names : j # n => clients'[j] = clients[j]
  BY <1>1 DEF Calm, StateTypes
<1>4. Running' = Running \cup {n} /\ \A j \in Running : clients'[j] = clients[j]
  BY <1>1, <1>2, <1>3 DEF Running
<1>5. Grew /\ Remembers
  <2>1. Steady
    BY <1>4 DEF Steady
  <2>2. Grew
    BY <1>1, <2>1, SameChannelGrows
  <2>3. Remembers
    BY <1>4 DEF Remembers
  <2> QED  BY <2>2, <2>3
<1> PICK packets : packets = {Connect(n)}
  OBVIOUS
<1> PICK taken : taken = {}
  OBVIOUS
<1>6. Moved(net, net', taken, addr, packets)
  BY <1>1, CarriedMoves DEF Calm, StateTypes
<1>7. GenuineMail'
  <2>1. ASSUME NEW p \in packets
        PROVE  Genuine(p.to, <<addr, p>>)'
    <3>1. p.to = Server /\ p.type = "CONNECT"
      BY DEF Connect
    <3> PICK m : m = <<addr, p>>
      OBVIOUS
    <3>2. m[2] = p
      OBVIOUS
    <3>3. Genuine(Server, m)'
      BY <3>1, <3>2 DEF Genuine
    <3> QED  BY <3>1, <3>3
  <2> QED  BY <1>5, <1>6, <2>1, GenuineMailNext DEF Attentive
<1>8. TrueTables'
  <2> SUFFICES ASSUME NEW j \in Running'
               PROVE  TrueTable(j, clients[j])'
    BY DEF TrueTables
  <2>1. CASE j = n
    BY <1>2, <1>3, <2>1 DEF TrueTable
  <2>2. CASE j # n
    <3> PICK e : e = clients[j]
      OBVIOUS
    <3>1. j \in Running /\ clients'[j] = e
      BY <1>4, <2>2
    <3>2. TrueTable(j, e)
      BY <3>1 DEF Attentive, TrueTables
    <3>3. TrueTable(j, e)'
      BY <1>5, <3>1, <3>2, TrueTableStays
    <3> QED  BY <3>1, <3>3 DEF TrueTable, TrueEntry
  <2> QED  BY <2>1, <2>2
<1>9. TrueRoles'
  <2>1. ASSUME NEW j \in Running, WillUseServer(j)
        PROVE  WillUseServer(j)'
    <3>1. clients'[j] = clients[j] /\ \A x : <<clients[j].addr, x>> \notin taken
      BY <1>4
    <3> QED  BY <1>6, <2>1, <3>1, UseStays
  <2> QED  BY <1>1, <2>1, TrueRolesStay DEF Attentive
<1>10. TrueNotes'
  BY <1>1 DEF Attentive, TrueNotes, ServedName
<1>11. LineComes'
  <2>1. \A b, x : <<b, x>> \in taken => x[2].type # "DATA"
    OBVIOUS
  <2> QED  BY <1>1, <1>5, <1>6, <2>1, LineStays DEF Attentive
<1>12. Timely'
  <2>1. \A p \in packets : p.type # "MODE DIRECT"
    <3>1. \A p \in packets : p.type = "CONNECT"
      BY DEF Connect
    <3> QED  BY <3>1
  <2>2. \A b, x : <<b, x>> \notin taken
    OBVIOUS
  <2> QED  BY <1>1, <1>4, <1>5, <1>6, <2>1, <2>2, TimelyIdles
<1> QED  BY <1>7, <1>8, <1>9, <1>10, <1>11, <1>12 DEF Attentive

----------------------------------------------------------------------------
(* Steps of the server that come to nothing, or only send *)

LEMMA ServerGreets ==
    ASSUME NEW p, p.type \in {"WELCOME", "PING"}
    PROVE  Genuine(p.to, <<Server, p>>)
<1>1. <<Server, p>>[1] = Server /\ <<Server, p>>[2] = p
  OBVIOUS
<1> QED  BY <1>1 DEF Genuine

LEMMA SameNotes ==
    ASSUME Attentive, st' = st, notes' = notes
    PROVE  TrueNotes'
BY DEF Attentive, TrueNotes, ServedName

\* On hearing what is no line.
LEMMA ServerHearsNothing ==
    ASSUME Calm, Attentive, st' = st, main' = main, notifyKey' = notifyKey, notes' = notes,
           clients' = clients, unheard' = unheard,
           NEW m \in Arriving(Server), NEW packets, net' = Carried(Without(Server, m), Server, packets),
           m[2].type \notin {"DATA", "REQUEST_RELAY"},
           \A p \in packets : p.type \in {"WELCOME", "PING"}
    PROVE  Attentive'
<1> PICK taken : taken = {<<Server, m>>}
  OBVIOUS
<1>1. Moved(net, net', taken, Server, packets)
  BY AnswerMoves DEF Calm, StateTypes
<1>2. \A n \in Running : \A x : <<clients[n].addr, x>> \notin taken
  BY TakenAtServer
<1>3. \A p \in packets : p.to \in DOMAIN net /\ Arrives(Server, p.to) => Genuine(p.to, <<Server, p>>)
  BY ServerGreets
<1>4. TrueNotes'
  BY SameNotes
<1>5. /\ Grew /\ Remembers
      /\ GenuineMail' /\ TrueTables' /\ TrueRoles' /\ TrueNotes' /\ Timely'
  <2>1. \A x : <<Server, x>> \in taken => x[2].type # "REQUEST_RELAY"
    OBVIOUS
  <2>2. \A p \in packets : p.type # "MODE DIRECT"
    OBVIOUS
  <2> QED  BY <1>1, <1>2, <1>3, <1>4, <2>1, <2>2, IdleAttends
<1>6. LineComes'
  <2>1. \A b, x : <<b, x>> \in taken => x[2].type # "DATA"
    OBVIOUS
  <2> QED  BY <1>1, <1>5, <2>1, LineStays DEF Attentive
<1> QED  BY <1>5, <1>6 DEF Attentive

\* On sending what it has collected.
LEMMA ServerSendsAttends ==
    ASSUME Calm, Attentive, st' = st, main' = main, notifyKey' = notifyKey,
           clients' = clients, unheard' = unheard, TrueNotes',
           NEW packets, net' = Carried(net, Server, packets),
           \A p \in packets : Genuine(p.to, <<Server, p>>) /\ p.type # "MODE DIRECT"
    PROVE  Attentive'
<1> PICK taken : taken = {}
  OBVIOUS
<1>1. Moved(net, net', taken, Server, packets)
  BY CarriedMoves DEF Calm, StateTypes
<1>2. /\ \A n \in Running : \A x : <<clients[n].addr, x>> \notin taken
      /\ \A b, x : <<b, x>> \in taken => x[2].type # "DATA"
      /\ \A x : <<Server, x>> \notin taken
      /\ \A p \in packets : p.to \in DOMAIN net /\ Arrives(Server, p.to) => Genuine(p.to, <<Server, p>>)
  OBVIOUS
<1>3. /\ Grew /\ Remembers
      /\ GenuineMail' /\ TrueTables' /\ TrueRoles' /\ TrueNotes' /\ Timely'
  BY <1>1, <1>2, IdleAttends
<1>4. LineComes'
  BY <1>1, <1>2, <1>3, LineStays DEF Attentive
<1> QED  BY <1>3, <1>4 DEF Attentive

LEMMA TicksAttend ==
    ASSUME Calm, Attentive, S!Tick, ServerSends, UNCHANGED <<clients, starts, lineVars>>
    PROVE  Attentive'
<1>1. /\ st' = st /\ main' = main /\ notifyKey' = notifyKey /\ out' = {} /\ notes' = notes
      /\ clients' = clients /\ unheard' = unheard
  BY DEF S!Tick, S!mainVars, lineVars
<1> PICK packets : packets = out'
  OBVIOUS
<1>2. /\ net' = Carried(net, Server, packets)
      /\ \A p \in packets : Genuine(p.to, <<Server, p>>) /\ p.type # "MODE DIRECT"
  BY <1>1 DEF ServerSends
<1>3. TrueNotes'
  BY <1>1, SameNotes
<1> QED  BY <1>1, <1>2, <1>3, ServerSendsAttends

LEMMA SendNotesAttends ==
    ASSUME Calm, Attentive, S!SendNotes, ServerSends, UNCHANGED <<clients, starts, lineVars>>
    PROVE  Attentive'
<1>1. /\ st' = st /\ main' = main /\ notifyKey' = notifyKey /\ out' = notes /\ notes' = {}
      /\ clients' = clients /\ unheard' = unheard
  BY DEF S!SendNotes, S!mainVars, lineVars
<1> PICK packets : packets = notes
  OBVIOUS
<1>2. net' = Carried(net, Server, packets)
  BY <1>1 DEF ServerSends
<1>3. ASSUME NEW p \in packets
      PROVE  Genuine(p.to, <<Server, p>>) /\ p.type # "MODE DIRECT"
  <2>1. p.type \in {"PING", "MODE SERVER_RELAY"}
    BY DEF Calm, Tasks
  <2>2. p.type = "MODE SERVER_RELAY" => ServedName(p.name)
    BY DEF Attentive, TrueNotes
  <2>3. <<Server, p>>[1] = Server /\ <<Server, p>>[2] = p
    OBVIOUS
  <2> QED  BY <2>1, <2>2, <2>3 DEF Genuine
<1>4. TrueNotes'
  BY <1>1 DEF TrueNotes
<1> QED  BY <1>1, <1>2, <1>3, <1>4, ServerSendsAttends

\* A pass of the heartbeat finds a channel as it should be: who is alone in it
\* is its relay, or is served and the channel has no relay.
LEMMA SettleAttends ==
    ASSUME Calm, Attentive, NEW k \in S!Keys, S!SettleChannel(k), ServerSends,
           UNCHANGED <<clients, starts, lineVars>>
    PROVE  Attentive'
<1>1. /\ k \in DOMAIN st /\ out' = {} /\ main' = main /\ notifyKey' = notifyKey
      /\ clients' = clients /\ unheard' = unheard
  BY DEF S!SettleChannel, S!mainVars, Calm, Tasks, lineVars
<1>2. st[k] \in S!Channel /\ st \in [DOMAIN st -> S!Channel]
  BY <1>1 DEF Calm, StateTypes
<1>3. st' = st /\ TrueNotes'
  <2>1. CASE ~S!Lone(st[k].users)
    BY <1>1, <2>1, SameNotes DEF S!SettleChannel
  <2>2. CASE S!Lone(st[k].users)
    <3>1. PICK u : u \in st[k].users /\ st[k].users = {u}
      BY <2>2 DEF S!Lone
    <3>2. S!First(st[k].users) = u
      BY <3>1 DEF S!First
    <3>3. CASE S!HeartbeatEligible(u)
      <4>1. st' = [st EXCEPT ![k].relay = u.name] /\ notes' = notes \cup {S!Ping(u.addr)}
        BY <2>2, <3>2, <3>3 DEF S!SettleChannel
      <4>2. st[k].relay = u.name
        BY <1>1, <3>1, <3>3 DEF Calm, Roles, S!HeartbeatEligible
      <4>3. st' = st
        BY <1>1, <1>2, <4>1, <4>2 DEF S!Channel
      <4>4. S!Ping(u.addr).type = "PING"
        BY DEF S!Ping
      <4>5. TrueNotes'
        BY <4>1, <4>3, <4>4 DEF Attentive, TrueNotes, ServedName
      <4> QED  BY <4>3, <4>5
    <3>4. CASE ~S!HeartbeatEligible(u)
      <4>1. /\ st' = [st EXCEPT ![k].relay = None]
            /\ notes' = notes \cup {S!ModeServerRelay(u.addr, u.name)}
        BY <2>2, <3>2, <3>4 DEF S!SettleChannel
      <4>2. u.needs_server_relay
        BY <1>1, <3>1, <3>4 DEF Calm, Members, S!HeartbeatEligible
      <4>3. st[k].relay = None
        <5>1. ASSUME st[k].relay # None
              PROVE  FALSE
          <6>1. st[k].relay = u.name
            BY <1>1, <3>1, <5>1 DEF Calm, Roles
          <6>2. Relays(u.name) /\ ServedName(u.name)
            BY <1>1, <3>1, <4>2, <5>1, <6>1 DEF Relays, ServedName
          <6> QED  BY <6>2 DEF Attentive, TrueRoles
        <5> QED  BY <5>1
      <4>4. st' = st
        BY <1>1, <1>2, <4>1, <4>3 DEF S!Channel
      <4>5. S!ModeServerRelay(u.addr, u.name).name = u.name
        BY DEF S!ModeServerRelay
      <4>6. ServedName(u.name)
        BY <1>1, <3>1, <4>2 DEF ServedName
      <4>7. TrueNotes'
        BY <4>1, <4>4, <4>5, <4>6 DEF Attentive, TrueNotes, ServedName
      <4> QED  BY <4>4, <4>7
    <3> QED  BY <3>3, <3>4
  <2> QED  BY <2>1, <2>2
<1> PICK packets : packets = out'
  OBVIOUS
<1>4. /\ net' = Carried(net, Server, packets)
      /\ \A p \in packets : Genuine(p.to, <<Server, p>>) /\ p.type # "MODE DIRECT"
  BY <1>1 DEF ServerSends
<1> QED  BY <1>1, <1>3, <1>4, ServerSendsAttends

\* The server forwards what has arrived to everyone it was coming to.
LEMMA ForwardsToAll ==
    ASSUME Calm, OneChannel, Attentive, NEW m \in Arriving(Server), m[2].type = "DATA",
           NEW k \in DOMAIN st, NEW u \in Running, MemberName(u), ByServer(u, m)
    PROVE  /\ S!CarriesData(st[k], m[1], m[2].name)
           /\ \E v \in S!DataReceivers(st[k], m[1], m[2].name) : v.name = u /\ v.addr = clients[u].addr
<1> PICK src : src = m[1]
  OBVIOUS
<1> PICK author : author = m[2].name
  OBVIOUS
<1>1. \A q \in DOMAIN st : q = k
  BY DEF Calm, StateTypes, OneChannel
<1>2. PICK v \in st[k].users : v.name = u /\ v.addr = clients[u].addr
  BY <1>1 DEF MemberName, Calm, Members, Beating
<1>3. \A o : ServedName(o) => \E w \in st[k].users : w.name = o /\ w.needs_server_relay
  BY <1>1 DEF ServedName
<1>4. author # u
  BY DEF ByServer
<1>5. CASE RelayAt(src) /\ ServedName(u)
  <2>1. PICK r \in Running : Relays(r) /\ clients[r].addr = src
    BY <1>5 DEF RelayAt
  <2>2. PICK w \in st[k].users : w.name = r /\ st[k].relay = r /\ w.addr = src
    BY <1>1, <2>1, RelayIsMember
  <2>3. w \in S!RelayUser(st[k])
    BY <2>2 DEF S!RelayUser
  <2>4. v.needs_server_relay
    BY <1>2, <1>3, <1>5 DEF Calm, Members
  <2>5. v \in S!ServedPeers(st[k], author)
    BY <1>2, <1>4, <2>4 DEF S!ServedPeers
  <2> QED  BY <1>2, <2>2, <2>3, <2>5 DEF S!CarriesData, S!DataReceivers
<1>6. CASE FromServed(m)
  <2>1. author \in Running /\ clients[author].addr = src /\ ServedName(author)
    BY <1>6 DEF FromServed
  <2>2. PICK w \in st[k].users : w.name = author /\ w.needs_server_relay
    BY <1>3, <2>1
  <2>3. w.addr = src
    BY <2>1, <2>2 DEF Calm, Members, Beating
  <2>4. st[k].relay # author
    <3>1. ASSUME st[k].relay = author
          PROVE  FALSE
      <4>1. author # None
        BY <2>1, PiercerAssumption DEF Running
      <4>2. Relays(author)
        BY <3>1, <4>1 DEF Relays
      <4> QED  BY <2>1, <4>2 DEF Attentive, TrueRoles
    <3> QED  BY <3>1
  <2>5. \A r \in S!RelayUser(st[k]) : r.addr # src
    <3> TAKE r \in S!RelayUser(st[k])
    <3>1. r \in st[k].users /\ r.name = st[k].relay
      BY DEF S!RelayUser
    <3>2. r.name \in Running /\ clients[r.name].addr = r.addr
      BY <3>1 DEF Calm, Members, Beating
    <3> QED  BY <2>1, <2>4, <3>1, <3>2 DEF Calm, Processes
  <2>6. S!Session(w, author, src)
    BY <2>2, <2>3 DEF S!Session
  <2>7. v.addr # src
    BY <1>2, <1>4, <2>1 DEF Calm, Processes
  <2>8. v \in S!DataReceivers(st[k], src, author)
    BY <2>2, <2>4, <2>5, <2>6, <2>7 DEF S!DataReceivers
  <2> QED  BY <1>2, <2>2, <2>6, <2>8 DEF S!CarriesData
<1> QED  BY <1>5, <1>6 DEF ByServer

\* ... and what it forwards is genuine.
LEMMA ForwardedIsGenuine ==
    ASSUME Calm, OneChannel, Attentive, NEW m \in Arriving(Server), m[2].type = "DATA",
           NEW k \in DOMAIN st, NEW v \in S!DataReceivers(st[k], m[1], m[2].name)
    PROVE  Genuine(v.addr, <<Server, Data(v.addr, m[2].name)>>)
<1> PICK src : src = m[1]
  OBVIOUS
<1> PICK author : author = m[2].name
  OBVIOUS
<1> PICK p : p = Data(v.addr, author)
  OBVIOUS
<1> PICK x : x = <<Server, p>>
  OBVIOUS
<1>1. x[1] = Server /\ x[2] = p /\ p.type = "DATA" /\ p.name = author
  BY DEF Data
<1>2. \A q \in DOMAIN st : q = k
  BY DEF Calm, StateTypes, OneChannel
<1>3. v \in st[k].users
  BY DEF S!DataReceivers, S!ServedPeers, S!RelayUser
<1>4. v.name \in Running /\ clients[v.name].addr = v.addr
  BY <1>3 DEF Calm, Members, Beating
<1>5. author \in Running /\ (RelayAt(src) \/ FromServed(m))
  <2>1. Genuine(Server, m)
    BY ArrivingIsGenuine DEF Calm, StateTypes
  <2> QED  BY <2>1 DEF Genuine
<1>6. v.name # author /\ Clear(v.name, author)
  <2>1. CASE st[k].relay = author \/ \E r \in S!RelayUser(st[k]) : r.addr = src
    <3>1. v.name # author /\ v.needs_server_relay
      BY <2>1 DEF S!DataReceivers, S!ServedPeers
    <3>2. ServedName(v.name)
      BY <1>3, <3>1 DEF ServedName
    <3> QED  BY <3>1, <3>2 DEF Clear
  <2>2. CASE ~(st[k].relay = author \/ \E r \in S!RelayUser(st[k]) : r.addr = src)
    <3>1. ~RelayAt(src)
      <4>1. ASSUME NEW r \in Running, Relays(r), clients[r].addr = src
            PROVE  FALSE
        <5>1. PICK w \in st[k].users : w.name = r /\ st[k].relay = r /\ w.addr = src
          BY <1>2, <4>1, RelayIsMember
        <5> QED  BY <2>2, <5>1 DEF S!RelayUser
      <4> QED  BY <4>1 DEF RelayAt
    <3>2. author \in Running /\ clients[author].addr = src /\ ServedName(author)
      BY <1>5, <3>1 DEF FromServed
    <3>3. PICK w \in st[k].users : w.name = author /\ w.needs_server_relay
      BY <1>2, <3>2 DEF ServedName
    <3>4. S!Session(w, author, src)
      BY <3>2, <3>3 DEF Calm, Members, Beating, S!Session
    <3>5. v.addr # src
      BY <2>2, <3>3, <3>4 DEF S!DataReceivers
    <3> QED  BY <1>4, <3>2, <3>5 DEF Clear
  <2> QED  BY <2>1, <2>2
<1>7. Reaches(v.name, author)
  BY <1>6 DEF Reaches
<1>8. v.addr # Server
  BY <1>4, RunningProcess, ServerAssumption DEF Calm
<1>9. Genuine(v.addr, x)
  BY <1>1, <1>4, <1>5, <1>7, <1>8 DEF Genuine
<1> QED  BY <1>9

\* The step of the server on a line: who it was coming to it comes to still.
LEMMA ServerHearsLine ==
    ASSUME Calm, OneChannel, Attentive, st' = st, main' = main, notifyKey' = notifyKey,
           notes' = notes, clients' = clients, unheard' = unheard,
           NEW m \in Arriving(Server), NEW packets, Moved(net, net', {<<Server, m>>}, Server, packets),
           m[2].type # "REQUEST_RELAY",
           \A p \in packets : Genuine(p.to, <<Server, p>>) /\ p.type # "MODE DIRECT",
           \A u \in Running : m[2].type = "DATA" /\ MemberName(u) /\ ByServer(u, m) =>
             \E p \in packets : p.to = clients[u].addr /\ p.type = "DATA"
    PROVE  Attentive'
<1> PICK taken : taken = {<<Server, m>>}
  OBVIOUS
<1>1. /\ Grew /\ Remembers
      /\ GenuineMail' /\ TrueTables' /\ TrueRoles' /\ TrueNotes' /\ Timely'
  <2>1. \A n \in Running : \A x : <<clients[n].addr, x>> \notin taken
    BY TakenAtServer
  <2>2. TrueNotes'
    BY SameNotes
  <2>3. \A x : <<Server, x>> \in taken => x[2].type # "REQUEST_RELAY"
    OBVIOUS
  <2> QED  BY <2>1, <2>2, <2>3, IdleAttends
<1>2. LineComes'
  <2> SUFFICES ASSUME NEW u \in unheard
               PROVE  u \in Running' /\ MemberName(u)' /\ Coming(u)'
    BY DEF LineComes
  <2>1. u \in Running /\ MemberName(u) /\ Coming(u)
    BY DEF Attentive, LineComes
  <2>2. u \in Running' /\ MemberName(u)'
    BY <1>1, <2>1 DEF Grew, Steady
  <2>3. ASSUME NEW b \in DOMAIN net, NEW x \in Contents(net[b]), <<b, x>> \in taken, Carries(u, b, x)
        PROVE  Coming(u)'
    <3>1. b = Server /\ x = m
      BY <2>3
    <3>2. m[2].type = "DATA" /\ ByServer(u, m)
      <4>1. \A r \in Running : clients[r].addr # Server
        BY RunningProcess, ServerAssumption DEF Calm
      <4> QED  BY <2>1, <2>3, <3>1, <4>1 DEF Carries
    <3>3. PICK p \in packets : p.to = clients[u].addr /\ p.type = "DATA"
      BY <2>1, <3>2
    <3>4. p.to \in DOMAIN net /\ Arrives(Server, p.to)
      BY <2>1, <3>3, RunningProcess DEF Calm, Arrives
    <3> PICK y : y = <<Server, p>>
      OBVIOUS
    <3> PICK e : e = p.to
      OBVIOUS
    <3>5. Carries(u, e, y)
      BY <3>3 DEF Carries
    <3>6. Carries(u, e, y)'
      BY <1>1, <2>1, <3>5, CarriesStays
    <3>7. Carries(u, p.to, <<Server, p>>)'
      BY <3>6
    <3> QED  BY <3>3, <3>4, <3>7, SentComes
  <2>4. Coming(u)'
    BY <1>1, <2>1, <2>3, ComingStays
  <2> QED  BY <2>2, <2>4
<1> QED  BY <1>1, <1>2 DEF Attentive

LEMMA ForwardDataAttends ==
    ASSUME Calm, OneChannel, Attentive, NEW m \in Arriving(Server), m[2].type = "DATA",
           S!ForwardData(m[1], m[2].name), net' = Carried(Without(Server, m), Server, out'),
           UNCHANGED <<clients, starts, lineVars>>
    PROVE  Attentive'
<1> PICK author : author = m[2].name
  OBVIOUS
<1>1. PICK k \in DOMAIN st :
        out' = {S!Data(v.addr, author) : v \in S!DataReceivers(st[k], m[1], author)}
  BY DEF S!ForwardData
<1>2. /\ st' = st /\ main' = main /\ notifyKey' = notifyKey /\ notes' = notes
      /\ clients' = clients /\ unheard' = unheard
  BY DEF S!ForwardData, S!mainVars, S!hbVars, lineVars
<1> PICK packets : packets = out'
  OBVIOUS
<1>3. Moved(net, net', {<<Server, m>>}, Server, packets)
  BY AnswerMoves DEF Calm, StateTypes
<1>4. \A v : S!Data(v.addr, author) = Data(v.addr, author)
  BY DEF S!Data, Data
<1>5. \A p \in packets : Genuine(p.to, <<Server, p>>) /\ p.type # "MODE DIRECT"
  <2> SUFFICES ASSUME NEW v \in S!DataReceivers(st[k], m[1], author)
               PROVE  Genuine(Data(v.addr, author).to, <<Server, Data(v.addr, author)>>)
    <3>1. ASSUME NEW p \in packets
          PROVE  \E v \in S!DataReceivers(st[k], m[1], author) : p = Data(v.addr, author)
      BY <1>1, <1>4
    <3>2. \A v : Data(v.addr, author).type = "DATA"
      BY DEF Data
    <3> QED  BY <3>1, <3>2
  <2>1. Data(v.addr, author).to = v.addr
    BY DEF Data
  <2> QED  BY <2>1, ForwardedIsGenuine
<1>6. ASSUME NEW u \in Running, MemberName(u), ByServer(u, m)
      PROVE  \E p \in packets : p.to = clients[u].addr /\ p.type = "DATA"
  <2>1. PICK v \in S!DataReceivers(st[k], m[1], author) : v.addr = clients[u].addr
    BY <1>6, ForwardsToAll
  <2>2. Data(v.addr, author) \in packets
    BY <1>1, <1>4
  <2>3. Data(v.addr, author).to = clients[u].addr /\ Data(v.addr, author).type = "DATA"
    BY <2>1 DEF Data
  <2> QED  BY <2>2, <2>3
<1> QED  BY <1>2, <1>3, <1>5, <1>6, ServerHearsLine

\* No line that is coming to anybody is ignored.
LEMMA ServerIgnoresAttends ==
    ASSUME Calm, OneChannel, Attentive, ServerIgnores
    PROVE  Attentive'
<1>1. PICK m \in Arriving(Server) :
         /\ \/ m[2].type \in {"PEER_TIMEOUT", "REQUEST_RELAY"} /\ DOMAIN st = {}
            \/ m[2].type = "DATA" /\ \A k \in DOMAIN st : ~S!CarriesData(st[k], m[1], m[2].name)
         /\ net' = Without(Server, m)
  BY DEF ServerIgnores
<1>2. /\ st' = st /\ main' = main /\ notifyKey' = notifyKey /\ notes' = notes
      /\ clients' = clients /\ unheard' = unheard
  BY DEF ServerIgnores, serverVars, lineVars
<1> PICK packets : packets = {}
  OBVIOUS
<1>3. Moved(net, net', {<<Server, m>>}, Server, packets)
  BY <1>1, WithoutMoves DEF Calm, StateTypes
<1>4. \A p \in packets : Genuine(p.to, <<Server, p>>) /\ p.type # "MODE DIRECT"
  OBVIOUS
<1>6. m[2].type # "REQUEST_RELAY"
  <2>1. Genuine(Server, m)
    BY ArrivingIsGenuine DEF Calm, StateTypes
  <2> QED  BY <1>1, <2>1 DEF Genuine, MemberName
<1>5. ASSUME NEW u \in Running, m[2].type = "DATA", MemberName(u), ByServer(u, m)
      PROVE  \E p \in packets : p.to = clients[u].addr /\ p.type = "DATA"
  <2>1. PICK k \in DOMAIN st : TRUE
    BY <1>5 DEF MemberName
  <2>2. S!CarriesData(st[k], m[1], m[2].name)
    BY <1>5, ForwardsToAll
  <2> QED  BY <1>1, <1>5, <2>2
<1> QED  BY <1>2, <1>3, <1>4, <1>5, <1>6, ServerHearsLine

----------------------------------------------------------------------------
(* Steps of the server that decide something *)

\* What the server tells, p, is what it has decided.
Decided(p) ==
    /\ p.type \in {"WELCOME", "MODE RELAY", "MODE DIRECT", "MODE SERVER_RELAY"}
    /\ p.type = "MODE RELAY" => RelayAt(p.to)
    /\ p.type = "MODE DIRECT" =>
         MemberName(p.name) /\ ~ServedName(p.name) /\ (Relays(p.name) \/ RelayAt(p.to))
    /\ p.type = "MODE SERVER_RELAY" => ServedName(p.name)

\* The channel keeps its users, what the server does for them, and its relay.
LEMMA ChannelGrows ==
    ASSUME Steady, NEW k \in DOMAIN st, \A q \in DOMAIN st : q = k, k \in DOMAIN st',
           \A u \in st[k].users : \E v \in st'[k].users :
             v.name = u.name /\ (u.needs_server_relay => v.needs_server_relay),
           st[k].relay # None => st'[k].relay = st[k].relay
    PROVE  Grew
<1>1. \A o : MemberName(o) => MemberName(o)'
  BY DEF MemberName
<1>2. \A o : ServedName(o) => ServedName(o)'
  BY DEF ServedName
<1>3. \A o : Relays(o) => Relays(o)'
  BY DEF Relays
<1> QED  BY <1>1, <1>2, <1>3 DEF Grew

\* Who is told that the server serves it will send to the server.
LEMMA ToldToUse ==
    ASSUME Calm, clients' = clients, NEW n \in Running,
           NEW taken, NEW packets, Moved(net, net', taken, Server, packets),
           NEW p \in packets, p.to = clients[n].addr, p.type = "MODE SERVER_RELAY", p.name = n
    PROVE  WillUseServer(n)'
<1> PICK b : b = clients[n].addr
  OBVIOUS
<1>1. b \in Addrs /\ p.type \in PacketTypes
  BY RunningProcess DEF Calm, PacketTypes
<1>2. <<Server, p>> \in Contents(net'[b])
  BY <1>1, SentByServer DEF Calm
<1>3. <<Server, p>>[2] = p
  OBVIOUS
<1> QED  BY <1>2, <1>3 DEF WillUseServer

\* From a relay nothing is kept: it is told of whom the server serves from
\* now on, and a request for a user has the server serve it.
RelayIsTold(packets) ==
    \A r, o : Relays(r) /\ MemberName(o) /\ ServedName(o)' /\ ~ServedName(o) =>
      Tells(packets, clients[r].addr, o)

RequestsAreMet(taken) ==
    \A m : <<Server, m>> \in taken /\ m[2].type = "REQUEST_RELAY" => ServedName(m[2].name)'

LEMMA ServerDecides ==
    ASSUME Calm, Attentive, Grew, clients' = clients, unheard' = unheard, notes' = notes,
           NEW taken, NEW packets, Moved(net, net', taken, Server, packets),
           \A b, m : <<b, m>> \in taken => b = Server /\ m[2].type # "DATA",
           TrueRoles', NEW k, \A q \in DOMAIN st' : q = k,
           \A p \in packets : Decided(p)',
           RelayIsTold(packets), RequestsAreMet(taken)
    PROVE  Attentive'
<1>1. Remembers /\ TrueTables'
  BY SameClients
<1>2. GenuineMail'
  <2>1. ASSUME NEW p \in packets
        PROVE  Genuine(p.to, <<Server, p>>)'
    <3>1. Decided(p)'
      OBVIOUS
    <3>2. <<Server, p>>[1] = Server /\ <<Server, p>>[2] = p
      OBVIOUS
    <3> QED  BY <3>1, <3>2 DEF Genuine, Decided
  <2> QED  BY <2>1, GenuineMailNext DEF Attentive
<1>3. TrueNotes'
  BY DEF Attentive, TrueNotes, Grew
<1>4. LineComes'
  BY <1>1, LineStays DEF Attentive
<1>5. Timely'
  <2> SUFFICES ASSUME NEW n \in Running, Relays(n)'
               PROVE  TimelyTable(n)'
    BY DEF Timely, Running
  <2>1. ~ServedName(n)' /\ \A o : Relays(o)' => o = n
    BY DEF TrueRoles, Relays
  <2>2. clients'[n] = clients[n] /\ \A x : <<clients[n].addr, x>> \notin taken
    BY RunningProcess, ServerAssumption DEF Calm
  <2>3. \A p \in packets : p.type = "MODE DIRECT" => ~ServedName(p.name)'
    BY DEF Decided
  <2>4. \A o : Relays(n) /\ MemberName(o) /\ ServedName(o)' /\ ~ServedName(o) =>
          Tells(packets, clients[n].addr, o) /\ Arrives(Server, clients[n].addr)
    BY DEF RelayIsTold, Arrives
  <2>5. \A m : <<Server, m>> \in taken /\ m[2].type = "REQUEST_RELAY" => ServedName(m[2].name)'
    BY DEF RequestsAreMet
  <2> QED  BY <2>1, <2>2, <2>3, <2>4, <2>5, TimelyStays
<1> QED  BY <1>1, <1>2, <1>3, <1>4, <1>5 DEF Attentive

\* The users of the channel, as the invariant sees them.
LEMMA ChannelUsers ==
    ASSUME Calm, OneChannel, Attentive, NEW k \in DOMAIN st, NEW u \in st[k].users
    PROVE  /\ u.name \in Running /\ clients[u.name].addr = u.addr
           /\ u.name # None
           /\ S!Eligible(u) <=> ~u.needs_server_relay
           /\ ServedName(u.name) <=> u.needs_server_relay
           /\ st[k].relay = u.name => S!Eligible(u)
<1>1. u.name \in Running /\ clients[u.name].addr = u.addr
  BY DEF Calm, Members, Beating
<1>2. u.name # None
  BY <1>1, RunningProcess, PiercerAssumption DEF Calm
<1>3. S!Eligible(u) <=> ~u.needs_server_relay
  BY DEF Calm, Members, S!Eligible
<1>4. ServedName(u.name) <=> u.needs_server_relay
  <2>1. \A q \in DOMAIN st : q = k
    BY DEF Calm, StateTypes, OneChannel
  <2>2. \A v \in st[k].users : v.name = u.name => v = u
    BY DEF Calm, Members
  <2> QED  BY <2>1, <2>2 DEF ServedName
<1>5. st[k].relay = u.name => ~ServedName(u.name)
  BY <1>2 DEF Attentive, TrueRoles, Relays
<1> QED  BY <1>1, <1>2, <1>3, <1>4, <1>5

\* Nobody can be a relay: the server serves everyone.
LEMMA LeaveRelayAttends ==
    ASSUME Calm, OneChannel, Attentive, S!LeaveRelayToServer, ServerSends,
           UNCHANGED <<clients, starts, lineVars>>
    PROVE  Attentive'
<1>1. StateTypes /\ Members /\ Tasks /\ Roles
  BY DEF Calm
<1> PICK k : k = notifyKey
  OBVIOUS
<1> PICK U : U = snapshot
  OBVIOUS
<1>2. /\ main = "notify" /\ k \in DOMAIN st /\ U = st[k].users
      /\ \A q \in DOMAIN st : q = k
  BY <1>1 DEF Tasks, S!LeaveRelayToServer, OneChannel, StateTypes
<1>3. \A u \in U : /\ u.name \in Running /\ clients[u.name].addr = u.addr
                   /\ u.needs_server_relay /\ st[k].relay # u.name
  <2>1. \A u \in U : ~S!Eligible(u)
    BY <1>2 DEF S!LeaveRelayToServer, S!EligibleUsers
  <2> QED  BY <1>2, <2>1, ChannelUsers
<1> PICK packets : packets = out'
  OBVIOUS
<1>4. /\ st' = [st EXCEPT ![k].relay = None]
      /\ packets = {S!ModeServerRelay(p[1].addr, p[2].name) : p \in U \X U}
      /\ main' = "recv" /\ notes' = notes /\ clients' = clients /\ unheard' = unheard
  BY <1>2 DEF S!LeaveRelayToServer, S!SetRelay, S!BackToRecv, S!hbVars, S!ServerRelayNotices, lineVars
<1>5. st[k].relay = None
  BY <1>1, <1>2, <1>3 DEF Roles
<1>6. st' = st
  BY <1>1, <1>2, <1>4, <1>5, SameRelay
<1> PICK taken : taken = {}
  OBVIOUS
<1>7. Moved(net, net', taken, Server, packets)
  BY <1>1, CarriedMoves DEF ServerSends, StateTypes
<1>8. Grew
  BY <1>4, <1>6, SameChannelGrows DEF Steady, Running
<1>9. ASSUME NEW p \in packets
      PROVE  Decided(p)'
  <2>1. PICK x \in U \X U : p = S!ModeServerRelay(x[1].addr, x[2].name)
    BY <1>4
  <2>2. PICK u \in U : u = x[2]
    BY <2>1
  <2>3. p.type = "MODE SERVER_RELAY" /\ p.name = u.name
    BY <2>1, <2>2 DEF S!ModeServerRelay
  <2>4. ServedName(p.name)'
    BY <1>2, <1>3, <1>6, <2>3 DEF ServedName
  <2> QED  BY <2>3, <2>4 DEF Decided
<1>10. ASSUME NEW u \in U
       PROVE  WillUseServer(u.name)'
  <2> PICK n : n = u.name
    OBVIOUS
  <2> PICK p : p = S!ModeServerRelay(u.addr, n)
    OBVIOUS
  <2>1. p.to = clients[n].addr /\ p.type = "MODE SERVER_RELAY" /\ p.name = n /\ n \in Running
    BY <1>3 DEF S!ModeServerRelay
  <2>2. p \in packets
    <3>1. <<u, u>> \in U \X U /\ <<u, u>>[1] = u /\ <<u, u>>[2] = u
      OBVIOUS
    <3> QED  BY <1>4, <3>1
  <2>3. WillUseServer(n)'
    BY <1>4, <1>7, <2>1, <2>2, ToldToUse
  <2> QED  BY <2>3
<1>11. TrueRoles'
  <2>1. \A o : Relays(o)' => ~ServedName(o)'
    BY <1>6 DEF Attentive, TrueRoles, Relays, ServedName
  <2>2. ASSUME NEW q \in DOMAIN st', NEW u \in st'[q].users
        PROVE  u.needs_server_relay /\ WillUseServer(u.name)'
    <3>1. u \in U
      BY <1>2, <1>6
    <3> QED  BY <1>3, <1>10, <3>1
  <2> QED  BY <2>1, <2>2 DEF TrueRoles
<1>12. \A b, m : <<b, m>> \in taken => b = Server /\ m[2].type # "DATA"
  OBVIOUS
<1>13. RelayIsTold(packets) /\ RequestsAreMet(taken)
  BY <1>6 DEF RelayIsTold, RequestsAreMet, ServedName
<1>14. \A q \in DOMAIN st' : q = k
  BY <1>2, <1>6
<1> QED  BY <1>4, <1>7, <1>8, <1>9, <1>11, <1>12, <1>13, <1>14, ServerDecides

\* A relay is appointed: the one there is, if there is one.
LEMMA AppointAttends ==
    ASSUME Calm, OneChannel, Attentive, S!AppointRelay, ServerSends,
           UNCHANGED <<clients, starts, lineVars>>
    PROVE  Attentive'
<1>1. StateTypes /\ Members /\ Tasks /\ Roles
  BY DEF Calm
<1> PICK k : k = notifyKey
  OBVIOUS
<1> PICK U : U = snapshot
  OBVIOUS
<1>2. /\ main = "notify" /\ k \in DOMAIN st /\ U = st[k].users
      /\ \A q \in DOMAIN st : q = k
  BY <1>1 DEF Tasks, S!AppointRelay, OneChannel, StateTypes
<1>3. U \in SUBSET S!User
  BY <1>2, NobodySilent
<1> PICK r : r = S!First(S!EligibleUsers(U))
  OBVIOUS
<1>4. r \in U /\ S!Eligible(r) /\ \A v \in S!EligibleUsers(U) : r.peer_id <= v.peer_id
  <2>1. S!EligibleUsers(U) \in SUBSET S!User /\ S!EligibleUsers(U) # {}
    BY <1>3 DEF S!AppointRelay, S!EligibleUsers
  <2>2. r \in S!EligibleUsers(U) /\ \A v \in S!EligibleUsers(U) : r.peer_id <= v.peer_id
    BY <2>1, FirstIsLeast
  <2> QED  BY <2>2 DEF S!EligibleUsers
<1> PICK changed \in BOOLEAN : changed = (st[k].relay # r.name)
  OBVIOUS
<1> PICK packets : packets = out'
  OBVIOUS
<1>5. /\ st' = [st EXCEPT ![k].relay = r.name]
      /\ packets = S!JoinNotices(U, r, changed)
      /\ main' = "recv" /\ notes' = notes /\ clients' = clients /\ unheard' = unheard
  BY <1>2 DEF S!AppointRelay, S!PickEligible, S!SetRelay, S!BackToRecv, S!hbVars, lineVars
<1>6. Announces(packets, U, r, changed)
  BY <1>4, <1>5, JoinAnnounces
<1>7. \A u \in U : /\ u.name \in Running /\ clients[u.name].addr = u.addr /\ u.name # None
                   /\ S!Eligible(u) <=> ~u.needs_server_relay
                   /\ st[k].relay = u.name => S!Eligible(u)
  BY <1>2, ChannelUsers
<1>8. /\ DOMAIN st' = DOMAIN st /\ st'[k].relay = r.name /\ st'[k].users = U
  <2>1. r.name \in Names \cup {None}
    BY <1>3, <1>4 DEF S!User
  <2> QED  BY <1>1, <1>2, <1>5, <2>1, OtherRelay
<1>9. st[k].relay # None => r.name = st[k].relay
  <2> SUFFICES ASSUME NEW u \in U, st[k].relay = u.name
               PROVE  r = u
    BY <1>1, <1>2 DEF Roles
  <2>1. S!Eligible(u) /\ Told(u.name)
    BY <1>1, <1>2, <1>7 DEF Roles
  <2>2. u.peer_id <= r.peer_id /\ r.peer_id <= u.peer_id
    BY <1>1, <1>2, <1>4, <2>1 DEF Roles, S!EligibleUsers
  <2>3. u.peer_id \in Nat /\ r.peer_id \in Nat
    BY <1>3, <1>4 DEF S!User
  <2> QED  BY <1>1, <1>2, <1>4, <2>2, <2>3 DEF Members
<1>10. Grew
  <2>1. Steady
    BY <1>5 DEF Steady, Running
  <2> QED  BY <1>2, <1>8, <1>9, <2>1, ChannelGrows
<1> PICK taken : taken = {}
  OBVIOUS
<1>11. Moved(net, net', taken, Server, packets)
  BY <1>1, CarriedMoves DEF ServerSends, StateTypes
<1>12. Relays(r.name)' /\ RelayAt(r.addr)'
  <2>1. Relays(r.name)'
    BY <1>2, <1>4, <1>7, <1>8 DEF Relays
  <2>2. r.name \in Running' /\ clients'[r.name].addr = r.addr
    BY <1>4, <1>5, <1>7 DEF Running
  <2> QED  BY <2>1, <2>2 DEF RelayAt
<1>13. ASSUME NEW p \in packets
       PROVE  Decided(p)'
  <2>1. \/ /\ p.type = "MODE DIRECT" /\ \E u \in U : p.name = u.name /\ ~u.needs_server_relay
           /\ p.to = r.addr \/ p.name = r.name
        \/ p.type = "MODE RELAY" /\ p.to = r.addr
        \/ p.type = "MODE SERVER_RELAY" /\ \E u \in U : p.name = u.name /\ u.needs_server_relay
    <3>1. \/ /\ p.type = "MODE DIRECT"
             /\ \E u \in U : /\ p.name = u.name /\ p.addr = u.addr
                             /\ u = r \/ ~u.needs_server_relay
             /\ p.to = r.addr \/ p.name = r.name
          \/ p.type = "MODE RELAY" /\ p.to = r.addr
          \/ p.type = "MODE SERVER_RELAY" /\ \E u \in U : p.name = u.name /\ u.needs_server_relay
      BY <1>6 DEF Announces
    <3> QED  BY <1>4, <1>7, <3>1
  <2>2. CASE /\ p.type = "MODE DIRECT" /\ \E u \in U : p.name = u.name /\ ~u.needs_server_relay
             /\ p.to = r.addr \/ p.name = r.name
    <3>1. MemberName(p.name)'
      BY <1>2, <1>8, <2>2 DEF MemberName
    <3>3. ~ServedName(p.name)'
      <4>1. \A u, w \in U : u.name = w.name => u = w
        BY <1>1, <1>2 DEF Members
      <4> QED  BY <1>2, <1>8, <2>2, <4>1 DEF ServedName
    <3>2. Relays(p.name)' \/ RelayAt(p.to)'
      <4>1. CASE p.to = r.addr
        BY <1>12, <4>1 DEF RelayAt
      <4>2. CASE p.name = r.name
        BY <1>12, <4>2 DEF Relays
      <4> QED  BY <2>2, <4>1, <4>2
    <3> QED  BY <2>2, <3>1, <3>2, <3>3 DEF Decided
  <2>3. CASE p.type = "MODE RELAY" /\ p.to = r.addr
    <3>1. RelayAt(p.to)'
      BY <1>12, <2>3 DEF RelayAt
    <3> QED  BY <2>3, <3>1 DEF Decided
  <2>4. CASE p.type = "MODE SERVER_RELAY" /\ \E u \in U : p.name = u.name /\ u.needs_server_relay
    <3>1. ServedName(p.name)'
      BY <1>2, <1>8, <2>4 DEF ServedName
    <3> QED  BY <2>4, <3>1 DEF Decided
  <2> QED  BY <2>1, <2>2, <2>3, <2>4
<1>14. ASSUME NEW u \in U, u.needs_server_relay
       PROVE  WillUseServer(u.name)'
  <2>1. u.name # r.name
    BY <1>1, <1>2, <1>4, <1>7, <1>14 DEF Members
  <2>2. PICK p \in packets : p.to = u.addr /\ p.type = "MODE SERVER_RELAY" /\ p.name = u.name
    BY <1>6, <1>14, <2>1 DEF Announces
  <2> PICK n : n = u.name
    OBVIOUS
  <2>3. n \in Running /\ p.to = clients[n].addr /\ p.name = n
    BY <1>7, <2>2
  <2>4. WillUseServer(n)'
    BY <1>5, <1>11, <2>2, <2>3, ToldToUse
  <2> QED  BY <2>4
<1>15. TrueRoles'
  <2>1. ASSUME NEW o, Relays(o)', ServedName(o)'
        PROVE  FALSE
    <3>1. o = r.name
      BY <1>2, <1>8, <2>1 DEF Relays
    <3>2. PICK u \in U : u.name = o /\ u.needs_server_relay
      BY <1>2, <1>8, <2>1 DEF ServedName
    <3>3. u = r
      BY <1>1, <1>2, <1>4, <3>1, <3>2 DEF Members
    <3> QED  BY <1>4, <1>7, <3>2, <3>3
  <2>2. ASSUME NEW q \in DOMAIN st', NEW u \in st'[q].users
        PROVE  /\ u.needs_server_relay => WillUseServer(u.name)'
               /\ st'[q].relay # None
    <3>1. q = k /\ u \in U
      BY <1>2, <1>8
    <3> QED  BY <1>4, <1>7, <1>8, <1>14, <3>1
  <2> QED  BY <2>1, <2>2 DEF TrueRoles
<1>16. \A b, m : <<b, m>> \in taken => b = Server /\ m[2].type # "DATA"
  OBVIOUS
<1>17. RelayIsTold(packets) /\ RequestsAreMet(taken)
  <2>1. \A o : ServedName(o)' => ServedName(o)
    BY <1>2, <1>8 DEF ServedName
  <2> QED  BY <2>1 DEF RelayIsTold, RequestsAreMet
<1>18. \A q \in DOMAIN st' : q = k
  BY <1>2, <1>8
<1> QED  BY <1>5, <1>10, <1>11, <1>13, <1>15, <1>16, <1>17, <1>18, ServerDecides

\* The server serves a user from now on, at the request of the relay, which
\* asks it of others only.
LEMMA RequestRelayAttends ==
    ASSUME Calm, OneChannel, Attentive, NEW k \in S!Keys, NEW m \in Arriving(Server),
           m[2].type = "REQUEST_RELAY", S!RequestRelay(k, m[2].name),
           net' = Carried(Without(Server, m), Server, out'),
           UNCHANGED <<clients, starts, lineVars>>
    PROVE  Attentive'
<1>1. StateTypes /\ Members /\ Tasks
  BY DEF Calm
<1> PICK name : name = m[2].name
  OBVIOUS
<1> PICK U : U = st[k].users
  OBVIOUS
<1> PICK packets : packets = out'
  OBVIOUS
<1> DEFINE f(u) == IF u.name = name THEN [u EXCEPT !.needs_server_relay = TRUE] ELSE u
<1>2. /\ k \in DOMAIN st /\ main = "recv" /\ main' = "recv" /\ \A q \in DOMAIN st : q = k
      /\ st' = [st EXCEPT ![k].users = {f(u) : u \in U}]
      /\ packets = {S!ModeServerRelay(u.addr, name) : u \in U}
      /\ notifyKey' = notifyKey /\ notes' = notes /\ clients' = clients /\ unheard' = unheard
  BY <1>1 DEF S!RequestRelay, S!WithUsers, S!Serve, S!mainVars, S!hbVars, OneChannel, StateTypes,
             lineVars
<1>3. U \in SUBSET S!User
  BY <1>2, NobodySilent
<1>4. \A u \in U :
        /\ f(u) \in S!User /\ f(u).name = u.name
        /\ f(u).needs_server_relay <=> (u.needs_server_relay \/ u.name = name)
  BY <1>3 DEF S!User
<1> PICK V : V = {f(u) : u \in U}
  OBVIOUS
<1>5. /\ \A v \in V : \E u \in U : v = f(u)
      /\ \A u \in U : f(u) \in V
  OBVIOUS
<1>6. V \in SUBSET S!User
  <2>1. \A u \in U : f(u) \in S!User
    BY <1>4
  <2>2. ASSUME NEW v \in V
        PROVE  v \in S!User
    <3>1. PICK u \in U : v = f(u)
      BY <1>5
    <3> HIDE DEF f
    <3> QED  BY <2>1, <3>1
  <2> QED  BY <2>2
<1>7. DOMAIN st' = DOMAIN st /\ st'[k].users = V /\ st'[k].relay = st[k].relay
  <2>1. st' = [st EXCEPT ![k].users = V]
    BY <1>2
  <2> QED  BY <1>1, <1>2, <1>6, <2>1, OtherUsers
<1> HIDE DEF f
<1>8. /\ \A v \in V : \E u \in U :
           v.name = u.name /\ (v.needs_server_relay <=> (u.needs_server_relay \/ u.name = name))
      /\ \A u \in U : \E v \in V :
           v.name = u.name /\ (v.needs_server_relay <=> (u.needs_server_relay \/ u.name = name))
  BY <1>4, <1>5
<1>9. \A u \in U : u.name \in Running /\ clients[u.name].addr = u.addr
  BY <1>2, ChannelUsers
<1>10. MemberName(name) /\ \E r : Relays(r) /\ r # name
  <2>1. Genuine(Server, m)
    BY <1>1, ArrivingIsGenuine DEF StateTypes
  <2> QED  BY <2>1 DEF Genuine
<1>11. Grew
  <2>1. Steady
    BY <1>2 DEF Steady, Running
  <2> QED  BY <1>2, <1>7, <1>8, <2>1, ChannelGrows
<1> PICK taken : taken = {<<Server, m>>}
  OBVIOUS
<1>12. Moved(net, net', taken, Server, packets)
  BY <1>1, AnswerMoves DEF StateTypes
<1>13. \A u \in U : \E p \in packets : p.to = u.addr /\ p.type = "MODE SERVER_RELAY" /\ p.name = name
  <2> SUFFICES ASSUME NEW u \in U
               PROVE  \E p \in packets : p.to = u.addr /\ p.type = "MODE SERVER_RELAY" /\ p.name = name
    OBVIOUS
  <2> PICK p : p = S!ModeServerRelay(u.addr, name)
    OBVIOUS
  <2>1. p \in packets
    BY <1>2
  <2>2. p.to = u.addr /\ p.type = "MODE SERVER_RELAY" /\ p.name = name
    BY DEF S!ModeServerRelay
  <2> QED  BY <2>1, <2>2
<1>14. ASSUME NEW p \in packets
       PROVE  Decided(p)'
  <2>1. PICK u \in U : p = S!ModeServerRelay(u.addr, name)
    BY <1>2
  <2>2. p.type = "MODE SERVER_RELAY" /\ p.name = name
    BY <2>1 DEF S!ModeServerRelay
  <2>3. PICK w \in U : w.name = name
    BY <1>2, <1>10 DEF MemberName
  <2>4. PICK v \in V : v.name = name /\ v.needs_server_relay
    BY <1>8, <2>3
  <2>5. ServedName(p.name)'
    BY <1>2, <1>7, <2>2, <2>4 DEF ServedName
  <2> QED  BY <2>2, <2>5 DEF Decided
<1>15. ASSUME NEW u \in U, u.needs_server_relay \/ u.name = name
       PROVE  WillUseServer(u.name)'
  <2> PICK n : n = u.name
    OBVIOUS
  <2>1. n \in Running /\ clients'[n] = clients[n] /\ \A x : <<clients[n].addr, x>> \notin taken
    BY <1>2, <1>9, TakenAtServer
  <2>2. CASE u.needs_server_relay
    <3>1. WillUseServer(n)
      BY <1>2, <2>2 DEF Attentive, TrueRoles
    <3>2. WillUseServer(n)'
      BY <1>12, <2>1, <3>1, UseStays
    <3> QED  BY <3>2
  <2>3. CASE u.name = name
    <3>1. PICK p \in packets : p.to = u.addr /\ p.type = "MODE SERVER_RELAY" /\ p.name = name
      BY <1>13
    <3>2. p.to = clients[n].addr /\ p.name = n
      BY <1>9, <2>3, <3>1
    <3>3. WillUseServer(n)'
      BY <1>2, <1>12, <2>1, <3>1, <3>2, ToldToUse
    <3> QED  BY <3>3
  <2> QED  BY <1>15, <2>2, <2>3
<1>16. TrueRoles'
  <2>1. PICK r : Relays(r) /\ r # name
    BY <1>10
  <2>2. st[k].relay = r /\ r # None
    BY <1>2, <2>1 DEF Relays
  <2>3. ASSUME NEW o, Relays(o)', ServedName(o)'
        PROVE  FALSE
    <3>1. o = r
      BY <1>2, <1>7, <2>2, <2>3 DEF Relays
    <3>2. PICK v \in V : v.name = o /\ v.needs_server_relay
      BY <1>2, <1>7, <2>3 DEF ServedName
    <3>3. PICK u \in U : u.name = o /\ u.needs_server_relay
      BY <1>8, <2>1, <3>1, <3>2
    <3>4. ServedName(r)
      BY <1>2, <3>1, <3>3 DEF ServedName
    <3> QED  BY <2>1, <3>4 DEF Attentive, TrueRoles
  <2>4. ASSUME NEW q \in DOMAIN st', NEW v \in st'[q].users
        PROVE  /\ v.needs_server_relay => WillUseServer(v.name)'
               /\ st'[q].relay # None
    <3>1. q = k /\ v \in V
      BY <1>2, <1>7
    <3>2. PICK u \in U :
            v.name = u.name /\ (v.needs_server_relay <=> (u.needs_server_relay \/ u.name = name))
      BY <1>8, <3>1
    <3>3. v.needs_server_relay => WillUseServer(u.name)'
      BY <1>15, <3>2
    <3>4. v.needs_server_relay => WillUseServer(v.name)'
      BY <3>2, <3>3 DEF WillUseServer
    <3> QED  BY <1>7, <2>2, <3>1, <3>4
  <2> QED  BY <2>3, <2>4 DEF TrueRoles
<1>17. \A b, x : <<b, x>> \in taken => b = Server /\ x[2].type # "DATA"
  OBVIOUS
<1>18. RelayIsTold(packets)
  <2> SUFFICES ASSUME NEW r, NEW o, Relays(r), ServedName(o)', ~ServedName(o)
               PROVE  Tells(packets, clients[r].addr, o)
    BY DEF RelayIsTold
  <2>1. o = name
    <3>1. PICK v \in V : v.name = o /\ v.needs_server_relay
      BY <1>2, <1>7 DEF ServedName
    <3>2. PICK u \in U :
            v.name = u.name /\ (v.needs_server_relay <=> (u.needs_server_relay \/ u.name = name))
      BY <1>8
    <3> QED  BY <1>2, <3>1, <3>2 DEF ServedName
  <2>2. PICK u \in U : clients[r].addr = u.addr
    BY <1>2, RelayIsMember
  <2> QED  BY <1>13, <2>1, <2>2 DEF Tells
<1>19. RequestsAreMet(taken)
  <2>1. PICK w \in U : w.name = name
    BY <1>2, <1>10 DEF MemberName
  <2>2. PICK v \in V : v.name = name /\ v.needs_server_relay
    BY <1>8, <2>1
  <2>3. ServedName(name)'
    BY <1>2, <1>7, <2>2 DEF ServedName
  <2>4. \A x : <<Server, x>> \in taken => x[2].name = name
    OBVIOUS
  <2> QED  BY <2>3, <2>4 DEF RequestsAreMet, ServedName
<1>20. \A q \in DOMAIN st' : q = k
  BY <1>2, <1>7
<1> QED  BY <1>2, <1>11, <1>12, <1>14, <1>16, <1>17, <1>18, <1>19, <1>20, ServerDecides

\* A user joins: alone, it is the relay or is served, and told so; the others
\* stay what they are until the join is announced.
LEMMA JoinsAttends ==
    ASSUME Calm, OneChannel, Attentive, NEW k, NEW v, NEW U, NEW packets, Joins(k, v, U, packets),
           v.name \in Running, clients[v.name].addr = v.addr,
           NEW m \in Arriving(Server), m[2].type = "CONNECT",
           net' = Carried(Without(Server, m), Server, packets), notes' = notes,
           UNCHANGED <<clients, starts, lineVars>>
    PROVE  Attentive'
<1>1. StateTypes /\ clients' = clients /\ unheard' = unheard
  BY DEF Calm, lineVars
<1>2. /\ \A u \in U : u.name # v.name
      /\ v.needs_server_relay <=> v.nat_kind = "Symmetric"
      /\ DOMAIN st' = {k} /\ st'[k].users = U \cup {v}
      /\ \A p \in packets :
           /\ p.type \in {"WELCOME", "MODE RELAY", "MODE SERVER_RELAY"}
           /\ p.type = "MODE SERVER_RELAY" => p.name = v.name /\ v.needs_server_relay
  BY DEF Joins
<1>3. \/ /\ U = {} /\ DOMAIN st = {}
         /\ \A p \in packets : p.type = "MODE RELAY" => p.to = v.addr
         /\ IF S!Eligible(v)
            THEN st'[k].relay = v.name
            ELSE /\ st'[k].relay = None
                 /\ \A p \in packets : p.type # "MODE RELAY"
                 /\ \E p \in packets :
                      p.type = "MODE SERVER_RELAY" /\ p.to = v.addr /\ p.name = v.name
      \/ /\ DOMAIN st = {k} /\ U = st[k].users /\ st'[k].relay = st[k].relay
         /\ main' = "notify" /\ notifyKey' = k
         /\ \A p \in packets : p.type # "MODE RELAY"
  BY DEF Joins
<1>4. (S!Eligible(v) <=> ~v.needs_server_relay) /\ v.name # None
  BY <1>1, <1>2, RunningProcess, PiercerAssumption DEF S!Eligible
<1>5. Grew
  <2>1. Steady
    BY <1>1 DEF Steady, Running
  <2>2. CASE DOMAIN st = {}
    BY <2>1, <2>2 DEF Grew, MemberName, ServedName, Relays
  <2>3. CASE DOMAIN st = {k} /\ U = st[k].users /\ st'[k].relay = st[k].relay
    <3>1. \A u \in st[k].users : u \in st'[k].users
      BY <1>2, <2>3
    <3> QED  BY <1>2, <2>1, <2>3, <3>1, ChannelGrows
  <2> QED  BY <1>3, <2>2, <2>3
<1> PICK taken : taken = {<<Server, m>>}
  OBVIOUS
<1>6. Moved(net, net', taken, Server, packets)
  BY <1>1, AnswerMoves DEF StateTypes
<1>7. ASSUME NEW p \in packets
      PROVE  Decided(p)'
  <2>1. p.type = "MODE RELAY" => RelayAt(p.to)'
    <3> SUFFICES ASSUME p.type = "MODE RELAY"
                 PROVE  RelayAt(p.to)'
      OBVIOUS
    <3>1. p.to = v.addr /\ st'[k].relay = v.name
      BY <1>3
    <3>2. Relays(v.name)'
      BY <1>2, <1>4, <3>1 DEF Relays
    <3>3. v.name \in Running' /\ clients'[v.name].addr = p.to
      BY <1>1, <3>1 DEF Running
    <3> QED  BY <3>2, <3>3 DEF RelayAt
  <2>2. p.type = "MODE SERVER_RELAY" => ServedName(p.name)'
    BY <1>2 DEF ServedName
  <2> QED  BY <1>2, <2>1, <2>2 DEF Decided
<1>8. TrueRoles'
  <2>1. CASE /\ U = {} /\ DOMAIN st = {}
             /\ IF S!Eligible(v)
                THEN st'[k].relay = v.name
                ELSE /\ st'[k].relay = None
                     /\ \E p \in packets :
                          p.type = "MODE SERVER_RELAY" /\ p.to = v.addr /\ p.name = v.name
    <3>1. \A q \in DOMAIN st' : q = k /\ st'[q].users = {v}
      BY <1>2, <2>1
    <3>2. \A o : Relays(o)' => ~ServedName(o)'
      BY <1>4, <2>1, <3>1 DEF Relays, ServedName
    <3>3. v.needs_server_relay => WillUseServer(v.name)'
      <4> SUFFICES ASSUME v.needs_server_relay
                   PROVE  WillUseServer(v.name)'
        OBVIOUS
      <4> PICK n : n = v.name
        OBVIOUS
      <4>1. PICK p \in packets : p.type = "MODE SERVER_RELAY" /\ p.to = v.addr /\ p.name = v.name
        BY <1>4, <2>1
      <4>2. n \in Running /\ p.to = clients[n].addr /\ p.name = n
        BY <4>1
      <4>3. WillUseServer(n)'
        BY <1>1, <1>6, <4>1, <4>2, ToldToUse
      <4> QED  BY <4>3
    <3>4. ASSUME NEW q \in DOMAIN st', NEW u \in st'[q].users
          PROVE  /\ u.needs_server_relay => WillUseServer(u.name)'
                 /\ st'[q].relay = None => u.needs_server_relay
      BY <1>4, <2>1, <3>1, <3>3
    <3> QED  BY <3>2, <3>4 DEF TrueRoles
  <2>2. CASE /\ DOMAIN st = {k} /\ U = st[k].users /\ st'[k].relay = st[k].relay
             /\ main' = "notify" /\ notifyKey' = k
    <3>1. ASSUME NEW o, Relays(o)', ServedName(o)'
          PROVE  FALSE
      <4>1. Relays(o) /\ st[k].relay = o
        BY <1>2, <2>2, <3>1 DEF Relays
      <4>2. \E u \in U : u.name = o
        BY <2>2, <4>1 DEF Calm, Roles, Relays
      <4>3. PICK u \in U \cup {v} : u.name = o /\ u.needs_server_relay
        BY <1>2, <3>1 DEF ServedName
      <4>4. ServedName(o)
        BY <1>2, <2>2, <4>2, <4>3 DEF ServedName
      <4> QED  BY <4>1, <4>4 DEF Attentive, TrueRoles
    <3> QED  BY <1>2, <2>2, <3>1 DEF TrueRoles
  <2> QED  BY <1>3, <2>1, <2>2
<1>9. \A b, x : <<b, x>> \in taken => b = Server /\ x[2].type # "DATA"
  OBVIOUS
<1>10. RelayIsTold(packets)
  <2> SUFFICES ASSUME NEW o, MemberName(o), ServedName(o)', ~ServedName(o)
               PROVE  FALSE
    BY DEF RelayIsTold
  <2>1. DOMAIN st = {k} /\ U = st[k].users
    BY <1>3 DEF MemberName
  <2>2. PICK u \in U \cup {v} : u.name = o /\ u.needs_server_relay
    BY <1>2 DEF ServedName
  <2>3. u = v
    BY <2>1, <2>2 DEF ServedName
  <2> QED  BY <1>2, <2>1, <2>2, <2>3 DEF MemberName
<1>11. RequestsAreMet(taken)
  <2>1. \A x : <<Server, x>> \in taken => x[2].type = "CONNECT"
    OBVIOUS
  <2> QED  BY <2>1 DEF RequestsAreMet
<1>12. \A q \in DOMAIN st' : q = k
  BY <1>2
<1> QED  BY <1>1, <1>5, <1>6, <1>7, <1>8, <1>9, <1>10, <1>11, <1>12, ServerDecides

LEMMA JoinAttends ==
    ASSUME Calm, OneChannel, Attentive, NEW k \in S!Keys, NEW m \in Arriving(Server),
           m[2].type = "CONNECT", S!Join(k, m[2].name, m[1], m[2].nat),
           net' = Carried(Without(Server, m), Server, out'),
           UNCHANGED <<clients, starts, lineVars>>
    PROVE  Attentive'
<1> PICK name : name = m[2].name
  OBVIOUS
<1> PICK nat : nat = m[2].nat
  OBVIOUS
<1> PICK addr : addr = m[1]
  OBVIOUS
<1> PICK packets : packets = out'
  OBVIOUS
<1>1. name \in Running /\ clients[name].addr = addr /\ nat \in NatKinds
  <2>1. Proper(Server, m)
    BY ArrivingIsProper DEF Calm, StateTypes
  <2> QED  BY <2>1 DEF Proper
<1>2. S!Join(k, name, addr, nat)
  OBVIOUS
<1>3. (\E v, U : Joins(k, v, U, out') /\ v.name = name /\ v.addr = addr) /\ notes' = notes
  BY <1>1, <1>2, JoinJoins
<1>4. PICK v, U : Joins(k, v, U, packets) /\ v.name = name /\ v.addr = addr
  BY <1>3
<1>5. v.name \in Running /\ clients[v.name].addr = v.addr
  BY <1>1, <1>4
<1>6. net' = Carried(Without(Server, m), Server, packets)
  OBVIOUS
<1> QED  BY <1>3, <1>4, <1>5, <1>6, JoinsAttends

----------------------------------------------------------------------------
(* Every step *)

LEMMA ServerHearsAttends ==
    ASSUME Calm, OneChannel, Attentive, ServerHears
    PROVE  Attentive'
<1>1. PICK m \in Arriving(Server) :
        LET from == m[1]
            p    == m[2]
        IN  /\ \E k \in S!Keys :
                 \/ /\ p.type = "CONNECT"
                    /\ S!Reconnect(k, p.name, from) \/ S!Join(k, p.name, from, p.nat)
                 \/ p.type = "PEER_TIMEOUT" /\ S!PeerTimeout(k, p.name)
                 \/ p.type = "REQUEST_RELAY" /\ S!RequestRelay(k, p.name)
                 \/ p.type = "PONG" /\ S!Pong(from)
                 \/ p.type = "DATA" /\ S!ForwardData(from, p.name)
            /\ net' = Carried(Without(Server, m), Server, out')
  BY DEF ServerHears
<1>2. PICK k \in S!Keys :
        \/ m[2].type = "CONNECT" /\ S!Reconnect(k, m[2].name, m[1])
        \/ m[2].type = "CONNECT" /\ S!Join(k, m[2].name, m[1], m[2].nat)
        \/ m[2].type = "PEER_TIMEOUT"
        \/ m[2].type = "REQUEST_RELAY" /\ S!RequestRelay(k, m[2].name)
        \/ m[2].type = "PONG" /\ S!Pong(m[1])
        \/ m[2].type = "DATA" /\ S!ForwardData(m[1], m[2].name)
  BY <1>1
<1>3. /\ net' = Carried(Without(Server, m), Server, out')
      /\ UNCHANGED <<clients, starts, lineVars>> /\ clients' = clients /\ unheard' = unheard
  BY <1>1 DEF ServerHears, lineVars
<1> PICK name : name = m[2].name
  OBVIOUS
<1> PICK from : from = m[1]
  OBVIOUS
<1> PICK packets : packets = out'
  OBVIOUS
<1>4. ASSUME st' = st, UNCHANGED <<main, notifyKey, snapshot, hb, unvisited, toCleanup, notes>>,
             m[2].type \notin {"DATA", "REQUEST_RELAY"},
             \A p \in packets : p.type \in {"WELCOME", "PING"}
      PROVE  Attentive'
  <2>1. /\ st' = st /\ main' = main /\ notifyKey' = notifyKey /\ notes' = notes
        /\ net' = Carried(Without(Server, m), Server, packets)
    BY <1>3, <1>4
  <2> QED  BY <1>3, <1>4, <2>1, ServerHearsNothing
<1>5. CASE m[2].type = "CONNECT" /\ S!Reconnect(k, name, from)
  <2>1. st' = st /\ UNCHANGED <<main, notifyKey, snapshot, hb, unvisited, toCleanup, notes>>
    BY <1>5, ReconnectIdle
  <2>2. PICK u : out' = {S!Welcome(from, st[k].channel_id, u.peer_id)}
    BY <1>5 DEF S!Reconnect
  <2>3. \A p \in packets : p.type = "WELCOME"
    BY <2>2 DEF S!Welcome
  <2> QED  BY <1>4, <1>5, <2>1, <2>3
<1>6. CASE m[2].type = "CONNECT" /\ S!Join(k, m[2].name, m[1], m[2].nat)
  BY <1>3, <1>6, JoinAttends
<1>7. CASE m[2].type = "PEER_TIMEOUT"
  <2>1. Proper(Server, m)
    BY ArrivingIsProper DEF Calm, StateTypes
  <2> QED  BY <1>7, <2>1 DEF Proper
<1>8. CASE m[2].type = "REQUEST_RELAY" /\ S!RequestRelay(k, m[2].name)
  BY <1>3, <1>8, RequestRelayAttends
<1>9. CASE m[2].type = "PONG" /\ S!Pong(from)
  <2>1. st' = st /\ UNCHANGED <<main, notifyKey, snapshot, hb, unvisited, toCleanup, notes>>
    BY <1>9, PongIdle
  <2>2. \A p \in packets : p.type = "WELCOME"
    BY <1>9 DEF S!Pong
  <2> QED  BY <1>4, <1>9, <2>1, <2>2
<1>10. CASE m[2].type = "DATA" /\ S!ForwardData(m[1], m[2].name)
  BY <1>3, <1>10, ForwardDataAttends
<1> QED  BY <1>2, <1>5, <1>6, <1>7, <1>8, <1>9, <1>10

LEMMA ServerBeatsAttends ==
    ASSUME Calm, OneChannel, Attentive, ServerBeats
    PROVE  Attentive'
<1>1. ServerSends /\ UNCHANGED <<clients, starts, lineVars>>
  BY DEF ServerBeats
<1>2. CASE S!Tick
  BY <1>1, <1>2, TicksAttend
<1>3. ASSUME NEW k \in S!Keys, S!ExpireUser(k)
      PROVE  Attentive'
  BY <1>3, NobodyExpires
<1>4. ASSUME NEW k \in S!Keys, S!SettleChannel(k)
      PROVE  Attentive'
  BY <1>1, <1>4, SettleAttends
<1>5. CASE S!SendNotes
  BY <1>1, <1>5, SendNotesAttends
<1>6. CASE S!Cleanup
  BY <1>6, NothingToClean
<1> QED  BY <1>2, <1>3, <1>4, <1>5, <1>6 DEF ServerBeats

LEMMA AttentiveStutters ==
    ASSUME Calm, Attentive, UNCHANGED vars
    PROVE  Attentive'
<1>1. /\ st' = st /\ main' = main /\ notifyKey' = notifyKey /\ notes' = notes
      /\ clients' = clients /\ net' = net /\ unheard' = unheard
  BY DEF vars, serverVars, lineVars
<1> PICK taken : taken = {}
  OBVIOUS
<1> PICK packets : packets = {}
  OBVIOUS
<1>2. Moved(net, net', taken, Server, packets)
  BY <1>1, NothingMoves DEF Calm, StateTypes
<1>3. /\ \A n \in Running : \A x : <<clients[n].addr, x>> \notin taken
      /\ \A x : <<Server, x>> \notin taken
      /\ \A b, x : <<b, x>> \in taken => x[2].type # "DATA"
  OBVIOUS
<1>4. \A p \in packets : /\ p.type # "MODE DIRECT"
                         /\ p.to \in DOMAIN net /\ Arrives(Server, p.to) => Genuine(p.to, <<Server, p>>)
  OBVIOUS
<1>5. TrueNotes'
  BY <1>1, SameNotes
<1>6. /\ Grew /\ Remembers
      /\ GenuineMail' /\ TrueTables' /\ TrueRoles' /\ TrueNotes' /\ Timely'
  BY <1>1, <1>2, <1>3, <1>4, <1>5, IdleAttends
<1>7. LineComes'
  BY <1>1, <1>2, <1>3, <1>6, LineStays DEF Attentive
<1> QED  BY <1>6, <1>7 DEF Attentive

LEMMA AttentiveInit ==
    ASSUME Init
    PROVE  Attentive
<1>1. /\ DOMAIN st = {} /\ notes = {} /\ unheard = {}
      /\ clients = [n \in Names |-> None] /\ net = [a \in Addrs \cup {Server} |-> <<>>]
  BY DEF Init, S!Init
<1>2. Running = {}
  BY <1>1 DEF Running
<1>3. \A a \in DOMAIN net : Contents(net[a]) = {}
  BY <1>1 DEF Contents
<1>4. GenuineMail /\ TrueTables
  BY <1>2, <1>3 DEF GenuineMail, TrueTables
<1>5. TrueRoles /\ TrueNotes /\ LineComes /\ Timely
  BY <1>1 DEF TrueRoles, TrueNotes, LineComes, Timely, Relays
<1> QED  BY <1>4, <1>5 DEF Attentive

LEMMA AttentiveNext ==
    ASSUME Calm, Attentive, OneChannel, CrashLimit = 0, [Next]_vars
    PROVE  Attentive'
<1>1. CASE ServerBeats
  BY <1>1, ServerBeatsAttends
<1>2. CASE ServerHears
  BY <1>2, ServerHearsAttends
<1>3. CASE ServerIgnores
  BY <1>3, ServerIgnoresAttends
<1>4. CASE ServerNotifies
  <2>1. ServerSends /\ UNCHANGED <<clients, starts, lineVars>>
    BY <1>4 DEF ServerNotifies
  <2>2. CASE S!AppointRelay
    BY <2>1, <2>2, AppointAttends
  <2>3. CASE S!LeaveRelayToServer
    BY <2>1, <2>3, LeaveRelayAttends
  <2> QED  BY <1>4, <2>2, <2>3 DEF ServerNotifies
<1>5. CASE FallSilent
  BY <1>5, NobodyFallsSilent
<1>6. ASSUME NEW e \in Endpoints, Start(e[1], e[2])
      PROVE  Attentive'
  <2>1. PICK n \in Names, a \in Addrs : n = e[1] /\ a = e[2]
    BY PiercerAssumption
  <2>2. Start(n, a)
    BY <1>6, <2>1
  <2> QED  BY <2>2, StartAttends
<1>7. ASSUME NEW n \in Names,
             ClientHears(n) \/ Punch(n) \/ KeepAlive(n) \/ Age(n) \/ Speak(n) \/ Crash(n)
      PROVE  Attentive'
  <2>1. CASE ClientHears(n)
    BY <2>1, ClientHearsAttends
  <2>2. CASE Punch(n)
    BY <2>2, PunchAttends
  <2>3. CASE KeepAlive(n)
    BY <2>3, KeepAliveAttends
  <2>4. CASE Age(n)
    BY <2>4, AgeAttends
  <2>5. CASE Speak(n)
    BY <2>5, SpeakAttends
  <2>6. CASE Crash(n)
    BY <2>6, NobodyCrashes
  <2> QED  BY <1>7, <2>1, <2>2, <2>3, <2>4, <2>5, <2>6
<1>8. ASSUME NEW a \in Addrs, Vanish(a)
      PROVE  Attentive'
  BY <1>8, VanishAttends
<1>9. CASE UNCHANGED vars
  BY <1>9, AttentiveStutters
<1> QED  BY <1>1, <1>2, <1>3, <1>4, <1>5, <1>6, <1>7, <1>8, <1>9 DEF Next, ServerStep

----------------------------------------------------------------------------
(* What the clients and the server agree on *)

\* As long as no process crashes, what is on its way is true, tables hold
\* nobody who has gone, and the relay on record has been told, or is about
\* to be, of its role and of each member (Calm); and nobody believes more than
\* the server has decided, who is served sends to the server, the relay learns
\* in time whom the server serves, and a copy of the last line is on a path to
\* each member that has not heard it (Attentive).  (handle_mode_line,
\* ensure_connected, check_keepalives, handle_user_message,
\* handle_data_message, handle_data_from_client.)
THEOREM AttentiveHolds ==
    ASSUME OneChannel, CrashLimit = 0
    PROVE  SafetySpec => [](Calm /\ Attentive)
<1>1. Init => Calm /\ Attentive
  BY CalmInit, AttentiveInit
<1>2. (Calm /\ Attentive) /\ [Next]_vars => (Calm /\ Attentive)'
  BY AttentiveHeeds, CalmNext, AttentiveNext
<1> QED  BY <1>1, <1>2, PTL DEF SafetySpec

\* Once nothing is on its way, the relay on record takes itself for one, and
\* nobody else who could be one does.  (handle_connect_notifications; MODE RELAY.)
THEOREM RolesAgreeHolds ==
    ASSUME OneChannel, CrashLimit = 0
    PROVE  SafetySpec => []RolesAgree
<1>1. Calm => RolesAgree
  BY CalmRolesAgree
<1> QED  BY <1>1, AttentiveHolds, PTL

\* Once nothing is on its way, the relay and each member that the server does
\* not serve have each other in their tables, at their addresses: both are
\* sent a MODE DIRECT, and neither times the other out before it is served.
THEOREM IntroducedHolds ==
    ASSUME OneChannel, CrashLimit = 0
    PROVE  SafetySpec => []Introduced
<1>1. Calm => Introduced
  BY CalmIntroduced
<1> QED  BY <1>1, AttentiveHolds, PTL

\* Once nothing is on its way, a relay of members that the server serves
\* mirrors what it hears to the server: MODE SERVER_RELAY sets that only in a
\* client that MODE RELAY has reached, and it comes after it.
THEOREM RelayMirrorsHolds ==
    ASSUME OneChannel, CrashLimit = 0
    PROVE  SafetySpec => []RelayMirrors
<1>1. Calm => RelayMirrors
  BY CalmRelayMirrors
<1> QED  BY <1>1, AttentiveHolds, PTL

\* The comment in the code ("mirror to server, otherwise symmetric users can
\* not receive my message") says so of every relay whose peers count as
\* connected: it takes a crash and a successor for that to fail.
THEOREM MirrorsForServedWithoutCrashes ==
    ASSUME OneChannel, CrashLimit = 0
    PROVE  SafetySpec => []MirrorsForServed
<1>1. Calm => MirrorsForServed
  BY CalmRelayMirrors
<1> QED  BY <1>1, AttentiveHolds, PTL

\* Who is alone in its channel and can be a relay has been told to be one: a
\* restart after a crash is the only thing that leaves it untold.
THEOREM LoneMemberRelaysWithoutCrashes ==
    ASSUME OneChannel, CrashLimit = 0
    PROVE  SafetySpec => []LoneMemberRelays
<1>1. Calm => LoneMemberRelays
  BY CalmLoneMemberRelays
<1> QED  BY <1>1, AttentiveHolds, PTL

\* A line typed once the channel has settled has been heard by every other
\* member when nothing is on its way any more, whatever path it takes: from
\* peer to peer, over the relay, mirrored to the server, or from the server
\* (handle_user_message, handle_relay_message_to_peers,
\* handle_data_from_client).
THEOREM EveryoneHearsHolds ==
    ASSUME OneChannel, CrashLimit = 0
    PROVE  SafetySpec => []EveryoneHears
<1>1. ASSUME Attentive
      PROVE  EveryoneHears
  <2> SUFFICES ASSUME Quiet, NEW u \in unheard
               PROVE  FALSE
    BY DEF EveryoneHears
  <2>1. PICK b \in DOMAIN net : \E m \in Contents(net[b]) : Carries(u, b, m)
    BY <1>1 DEF Attentive, LineComes, Coming
  <2>2. Contents(net[b]) = {}
    BY DEF Quiet, Contents
  <2> QED  BY <2>1, <2>2
<1> QED  BY <1>1, AttentiveHolds, PTL
=============================================================================
