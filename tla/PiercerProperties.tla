-------------------------- MODULE PiercerProperties --------------------------
(***************************************************************************)
(* What the server and its clients achieve together.  Most of it is said   *)
(* of the moments when nothing is on its way (Quiet): the server and the   *)
(* clients decide separately, and agree once they have heard each other.   *)
(***************************************************************************)
EXTENDS Piercer

\* The members of k whose clients run, and its relay if it is one of them.
Present(k) == {u \in st[k].users : Beating(u)}
RelayOf(k) == {u \in Present(k) : u.name = st[k].relay}

----------------------------------------------------------------------------
(* Once they have heard each other *)

\* The relay on record knows that it is the relay, and while it is there no
\* other member that could be one thinks so: is_relay is set by MODE RELAY
\* and never reset.
RolesAgree ==
    Quiet => \A k \in DOMAIN st : \A r \in RelayOf(k) :
        /\ clients[r.name].is_relay
        /\ \A u \in Present(k) \ {r} : S!Eligible(u) => ~clients[u.name].is_relay

\* A relay and every member the server does not serve are in each other's
\* tables at the addresses they are at, whoever joined first and whatever
\* happened between the halves of a CONNECT.
Introduced ==
    Quiet => \A k \in DOMAIN st : \A r \in RelayOf(k) :
        \A u \in Present(k) \ {r} :
            ~u.needs_server_relay =>
              /\ \E p \in clients[r.name].peers : p.username = u.name /\ p.addr = u.addr
              /\ \E p \in clients[u.name].peers : p.username = r.name /\ p.addr = r.addr

\* A relay that has reached its peers and has members that the server serves
\* mirrors what it says and hears to the server ("otherwise symmetric users
\* can not receive my message").  MODE RELAY must come first for that.
RelayMirrors ==
    Quiet => \A k \in DOMAIN st : \A r \in RelayOf(k) :
        /\ \A p \in clients[r.name].peers : Placed(r.name, p)
        /\ \E u \in Present(k) \ {r} : u.needs_server_relay
        => clients[r.name].channel_has_server_relays

\* What a member says in a channel that has settled, every other member
\* hears: directly, through the relay, through the server, or through both.
EveryoneHears ==
    Quiet => unheard \cap Running = {}

----------------------------------------------------------------------------
(* In the end *)

\* A relay reaches each peer, or has the server serve it, or loses it: it
\* does not punch at one that cannot be reached for ever.
ReachedOrServed ==
    \A n \in Names, a \in Addrs :
        (n \in Running /\ clients[n].is_relay /\ \E p \in At(clients[n].peers, a) : ~p.connected)
          ~> (n \notin Running \/ ~ \E p \in At(clients[n].peers, a) : ~p.connected)

----------------------------------------------------------------------------
(* What the documentation says and the code does not do *)

\* Who is alone in a channel is set to relay mode.  (A process that restarts
\* at the address it had is the user the channel already has, and is told
\* nothing.)
LoneMemberRelays ==
    Quiet => \A k \in DOMAIN st : \A u \in Present(k) :
        S!Lone(st[k].users) /\ S!Eligible(u) => clients[u.name].is_relay

\* A relay all of whose peers count as connected mirrors to the server when
\* the server serves a member ("if i am relay and channel has server relayed
\* peers, mirror to server / otherwise symmetric users can not receive my
\* message").  (A successor that has once heard a line of such a member takes
\* it for connected, never asks the server for it, and is not told.)
MirrorsForServed ==
    Quiet => \A k \in DOMAIN st : \A r \in RelayOf(k) :
        /\ \A p \in clients[r.name].peers : p.connected
        /\ \E u \in Present(k) \ {r} : u.needs_server_relay
        => clients[r.name].channel_has_server_relays
=============================================================================
