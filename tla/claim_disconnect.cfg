\* A client sends DISCONNECT.
SPECIFICATION Spec
CONSTANTS
    ann = ann  bob = bob  cat = cat
    x = x  y = y  z = z
    c1 = c1  c2 = c2  id1 = id1  id2 = id2
    None = None
    ServerIds = {s1}
    ChannelNames = {c1}
    Names = {ann, bob}
    Addrs = {x, y}
    NatKinds = {"Cone"}
    ChannelIds = {id1}
    Endpoints <- Apart
    Commands = {"CONNECT", "DISCONNECT"}
    PeerIdLimit = 3
PROPERTIES
    ReturnsToListening
CHECK_DEADLOCK FALSE
