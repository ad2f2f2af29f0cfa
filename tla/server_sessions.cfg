\* Two channels of one server id; ann restarts at bob's address; the server
\* seen as a membership service too.
SPECIFICATION SafetySpec
VIEW WithoutPackets
SYMMETRY Relabellings
CONSTANTS
    ann = ann  bob = bob  cat = cat
    x = x  y = y  z = z
    c1 = c1  c2 = c2  id1 = id1  id2 = id2
    None = None
    ServerIds = {s1}
    ChannelNames = {c1, c2}
    Names = {ann, bob}
    Addrs = {x, y}
    NatKinds = {"Cone"}
    ChannelIds = {id1, id2}
    Endpoints <- Restarting
    Commands = {"CONNECT", "DISCONNECT", "PEER_TIMEOUT", "HB", "PONG", "NAT_PROBE"}
    PeerIdLimit = 4
INVARIANTS
    TypeOK
    Control
    NamesUnique
    OneChannelPerServer
    IdentityUnique
    PeerIdsFromWelcome
    IdentitiesSpent
PROPERTIES
    ImplementsMembership
CHECK_DEADLOCK FALSE
