------------------------------- MODULE MCPiercer -------------------------------
(* Instances of the whole system for TLC. *)
EXTENDS PiercerProperties, TLC

CONSTANTS ann, bob, sam,    \* users; sam is behind a symmetric NAT when there is one
          x, y, z,          \* addresses
          c1, s1, id1, id2  \* one channel, and its ids

AllCone == [n \in Names |-> "Cone"]
SamSymmetric == (ann :> "Cone") @@ (bob :> "Cone") @@ (sam :> "Symmetric")

\* Everyone at an address of its own.
AtHome == {<<ann, x>>, <<bob, y>>, <<sam, z>>}

Couple == {<<ann, x>>, <<bob, y>>}
JustAnn == {<<ann, x>>}

\* The paths between cone NATs can be opened, or none can.
ConesOpen == {{x, y}}

\* ann and bob, and where they are, are told apart by nothing but their names.
Alike ==
    {p \in Permutations({ann, bob, x, y}) :
       \/ p[ann] = ann /\ p[bob] = bob /\ p[x] = x
       \/ p[ann] = bob /\ p[bob] = ann /\ p[x] = y /\ p[y] = x}

\* The packets of the last step decide nothing.
WithoutPackets == <<serverVars, clients, net, starts, lineVars>>
=============================================================================
