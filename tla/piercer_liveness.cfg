\* A relay and a peer it cannot reach; one of the two crashes.
SPECIFICATION Spec
CONSTANTS
    ann = ann  bob = bob  sam = sam  x = x  y = y  z = z
    c1 = c1  s1 = s1  id1 = id1  id2 = id2
    None = None
    Server = srv
    Names = {ann, bob}
    Addrs = {x, y}
    InstantLimit = 2
    ServerIds = {s1}
    ChannelNames = {c1}
    NatKinds = {"Cone", "Symmetric"}
    ChannelIds = {id1, id2}
    PeerIdLimit = 4
    Endpoints <- Couple
    NatOf <- AllCone
    Open = {}
    MayRestart = FALSE
    CrashLimit = 1
    StartLimit = 2
    LineLimit = 0
PROPERTIES
    ReachedOrServed
CHECK_DEADLOCK FALSE
