\* Frames and texts at both ports: for whom is a message handled?
SPECIFICATION Spec
CONSTANTS
    ann = ann  bob = bob
    connect = connect  heartbeat = heartbeat  probe = probe  bytes = bytes
    MainDatagrams <- AnyForm
    ProbeDatagrams <- AnyProbe
    QueueLimit = 2
    None = None
INVARIANTS
    SourceIsItsOwn
