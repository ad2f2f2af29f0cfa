\* Two users come, go, move and fall silent, for ever.
SPECIFICATION Spec
CONSTANTS
    ann = ann  bob = bob  cat = cat
    x = x  y = y  z = z
    c1 = c1  c2 = c2  id1 = id1  id2 = id2
    None = None
    ServerIds = {s1}
    ChannelNames = {c1, c2}
    Names = {ann, bob}
    Addrs = {x, y}
    NatKinds = {"Cone", "Symmetric"}
    ChannelIds = {id1, id2}
    Endpoints <- Apart
    Commands = {"CONNECT", "HB", "PEER_TIMEOUT", "DATA"}
    PeerIdLimit = 3
PROPERTIES
    ServerRelayedHear
    ReturnsToListening
    SilentUserDropped
    EmptyChannelReclaimed
CHECK_DEADLOCK FALSE
