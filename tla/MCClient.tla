------------------------------- MODULE MCClient -------------------------------
(* Instances of one client for TLC. *)
EXTENDS ClientProperties

CONSTANTS me, ann,      \* user names; this client is me's
          x             \* the address of a peer

By(a, p) == <<a, p>>

\* Everything that can be said to this client or of a peer, and all modes.
Anything ==
    { By(Server, Welcome(x, "cid", 1)),
      By(Server, ModeRelay(x)),
      By(Server, ModeServerRelay(x, me)), By(Server, ModeServerRelay(x, ann)),
      By(Server, ModeDirect(x, ann, x)), By(Server, ModeDirect(x, me, x)),
      By(Server, UserLeft(x, ann, x)), By(x, Data(x, ann)),
      By(x, HolePunch(x)), By(x, Ping(x)), By(x, PongTo(x)) }
=============================================================================
