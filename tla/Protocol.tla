------------------------------ MODULE Protocol ------------------------------
(***************************************************************************)
(* What the server and the clients have in common: who there is, and the   *)
(* packets the server sends (src/src/proto/control_text.rs and the message *)
(* builders of src/src/signaling).                                         *)
(***************************************************************************)
EXTENDS Naturals

CONSTANTS
    Names,          \* user names
    Addrs,          \* socket addresses (ip:port) packets come from
    None            \* Option::None, and the address 0.0.0.0:0

----------------------------------------------------------------------------
(* Packets.  Each is addressed to one socket address. *)

Welcome(to, cid, pid)      == [to |-> to, type |-> "WELCOME", cid |-> cid, pid |-> pid]
ModeRelay(to)              == [to |-> to, type |-> "MODE RELAY"]
ModeDirect(to, name, addr) == [to |-> to, type |-> "MODE DIRECT", name |-> name, addr |-> addr]
ModeServerRelay(to, name)  == [to |-> to, type |-> "MODE SERVER_RELAY", name |-> name]
UserLeft(to, name, addr)   == [to |-> to, type |-> "USER_LEFT", name |-> name, addr |-> addr]
Ping(to)                   == [to |-> to, type |-> "PING"]
NatSeen(to)                == [to |-> to, type |-> "NAT_SEEN"]
Data(to, sender)           == [to |-> to, type |-> "DATA", name |-> sender]
=============================================================================
