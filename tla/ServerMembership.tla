--------------------------- MODULE ServerMembership ---------------------------
(***************************************************************************)
(* The signalling server implements Membership: seen through the           *)
(* identities of its users, every step of every handler and of the         *)
(* heartbeat is an entry, a departure of one name, the removal of whole    *)
(* channels, or nothing at all.                                            *)
(***************************************************************************)
EXTENDS ServerProperties

\* The identity of user u of channel ch.
IdentityOf(ch, u) ==
    [cid |-> ch.channel_id, pid |-> u.peer_id, name |-> u.name, addr |-> u.addr]

\* The members of channel k: a channel that is not in the map has none.
MembersOf(k) == IF k \in DOMAIN st THEN {IdentityOf(st[k], u) : u \in st[k].users} ELSE {}

Abstract == INSTANCE Membership WITH
    members <- [k \in Keys |-> MembersOf(k)],
    granted <- issued,
    PeerIds <- 1 .. PeerIdLimit

\* The server implements Membership.  A join that reused an identity or threw
\* out anybody but the joiner's own sessions, and a timeout, DISCONNECT or
\* PEER_TIMEOUT that cost more than one name its place, would not.
ImplementsMembership == Abstract!Spec
=============================================================================
