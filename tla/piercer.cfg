\* Three users join one channel, speak, and one of the processes crashes;
\* sam is behind a symmetric NAT.
SPECIFICATION SafetySpec
SYMMETRY Alike
VIEW WithoutPackets
CONSTANTS
    ann = ann  bob = bob  sam = sam  x = x  y = y  z = z
    c1 = c1  s1 = s1  id1 = id1  id2 = id2
    None = None
    Server = srv
    Names = {ann, bob, sam}
    Addrs = {x, y, z}
    InstantLimit = 2
    ServerIds = {s1}
    ChannelNames = {c1}
    NatKinds = {"Cone", "Symmetric"}
    ChannelIds = {id1}
    PeerIdLimit = 4
    Endpoints <- AtHome
    NatOf <- SamSymmetric
    Open <- ConesOpen
    MayRestart = FALSE
    CrashLimit = 1
    StartLimit = 3
    LineLimit = 1
INVARIANTS
    RolesAgree
    Introduced
    RelayMirrors
    EveryoneHears
CHECK_DEADLOCK FALSE
