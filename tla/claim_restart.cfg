\* A user alone in its channel restarts at the address it had.
SPECIFICATION SafetySpec
VIEW WithoutPackets
CONSTANTS
    ann = ann  bob = bob  sam = sam  x = x  y = y  z = z
    c1 = c1  s1 = s1  id1 = id1  id2 = id2
    None = None
    Server = srv
    Names = {ann}
    Addrs = {x}
    InstantLimit = 2
    ServerIds = {s1}
    ChannelNames = {c1}
    NatKinds = {"Cone", "Symmetric"}
    ChannelIds = {id1}
    PeerIdLimit = 4
    Endpoints <- JustAnn
    NatOf <- AllCone
    Open <- ConesOpen
    MayRestart = TRUE
    CrashLimit = 1
    StartLimit = 2
    LineLimit = 0
INVARIANT
    LoneMemberRelays
CHECK_DEADLOCK FALSE
