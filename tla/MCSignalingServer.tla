--------------------------- MODULE MCSignalingServer ---------------------------
(* Instances of the signalling server for TLC. *)
EXTENDS ServerMembership, TLC

CONSTANTS ann, bob, cat,    \* users
          x, y, z,          \* addresses
          c1, c2,           \* channel names
          id1, id2          \* channel ids

\* ann runs at x and restarts at y, where bob may be too (a port used again).
Restarting == {<<ann, x>>, <<ann, y>>, <<bob, y>>}

\* Everyone at an address of its own.
AtHome == {<<ann, x>>, <<bob, y>>, <<cat, z>>}

\* Two users.
Apart == {<<ann, x>>, <<bob, y>>}

\* In AtHome the users are alike: renaming them, each with its address,
\* maps behaviours to behaviours.
HomeOf == (ann :> x) @@ (bob :> y) @@ (cat :> z)
Renamings ==
    {f @@ [a \in {x, y, z} |->
             HomeOf[f[CHOOSE n \in {ann, bob, cat} : HomeOf[n] = a]]] :
       f \in Permutations({ann, bob, cat})}

\* So are channels and ids, whoever the users are.
Relabellings == Permutations({c1, c2}) \cup Permutations({id1, id2})

\* The packets in flight decide nothing the server does: states that differ
\* only in them are one state.  Properties of packets are action properties,
\* which TLC evaluates on every step it generates.
WithoutPackets == <<st, lock, mainVars, hb, unvisited, toCleanup, issued>>
=============================================================================
