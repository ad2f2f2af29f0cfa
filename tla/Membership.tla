------------------------------ MODULE Membership ------------------------------
(***************************************************************************)
(* What the signalling server promises about who is in which channel, with *)
(* nothing said of packets, relays, locks, time or the order of users.     *)
(*                                                                         *)
(* A member is an identity: the (channel id, peer id) pair a WELCOME hands *)
(* out, with the session it was handed to.  The detailed specification     *)
(* implements this one (ServerMembership).                                 *)
(***************************************************************************)
CONSTANTS ServerIds, ChannelNames, Names, Addrs, ChannelIds, PeerIds

VARIABLES
    members,    \* the members of each channel
    granted     \* every identity ever handed out

vars == <<members, granted>>

Places == ServerIds \X ChannelNames
Identities == [cid : ChannelIds, pid : PeerIds, name : Names, addr : Addrs]

Init ==
    /\ members = [k \in Places |-> {}]
    /\ granted = {}

\* Member i enters channel k under an identity nobody has had.  It replaces
\* the earlier sessions of its name there and leaves the other channels of
\* the server id.  Nobody else loses or gains a place by it.
Enter(k, i) ==
    /\ granted' = granted \cup {i}
    /\ \A j \in granted : ~(j.cid = i.cid /\ j.pid = i.pid)
    /\ members' = [q \in Places |->
                     IF q = k THEN {j \in members[q] : j.name # i.name} \cup {i}
                     ELSE IF q[1] = k[1]
                     THEN {j \in members[q] : ~(j.name = i.name /\ j.addr = i.addr)}
                     ELSE members[q]]

\* One name leaves some channels.
Leave(name, places) ==
    /\ UNCHANGED granted
    /\ members' = [q \in Places |->
                     IF q \in places THEN {j \in members[q] : j.name # name} ELSE members[q]]

\* Some channels are given up, and whoever is in them loses its place.
Forget(places) ==
    /\ UNCHANGED granted
    /\ members' = [q \in Places |-> IF q \in places THEN {} ELSE members[q]]

Next ==
    \/ \E places \in SUBSET Places : Forget(places)
    \/ \E name \in Names, places \in SUBSET Places : Leave(name, places)
    \/ \E k \in Places, i \in Identities : Enter(k, i)

Spec == Init /\ [][Next]_vars
=============================================================================
