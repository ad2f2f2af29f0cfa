\* One channel; users of both kinds come, go, restart and are demoted.
SPECIFICATION SafetySpec
VIEW WithoutPackets
SYMMETRY Renamings
CONSTANTS
    ann = ann  bob = bob  cat = cat
    x = x  y = y  z = z
    c1 = c1  c2 = c2  id1 = id1  id2 = id2
    None = None
    ServerIds = {s1}
    ChannelNames = {c1}
    Names = {ann, bob, cat}
    Addrs = {x, y, z}
    NatKinds = {"Cone", "Symmetric"}
    ChannelIds = {id1}
    Endpoints <- AtHome
    Commands = {"CONNECT", "PEER_TIMEOUT", "REQUEST_RELAY", "DATA"}
    PeerIdLimit = 6
INVARIANTS
    EligibilityAgrees
    RelayIsSenior
    PassSettles
    SnapshotCovers
PROPERTIES
    HeartbeatKeepsRelayPresent
    ServerRelayedHear
CHECK_DEADLOCK FALSE
