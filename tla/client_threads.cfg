\* A peer that comes and goes, every kind of datagram at any time, all threads.
SPECIFICATION Spec
CONSTANTS
    me = me  ann = ann  x = x
    None = None
    Server = srv
    Names = {me, ann}
    Addrs = {x}
    InstantLimit = 2
    Me = me
    MyNat = "Cone"
    Inbox <- Anything
    Typing = TRUE
INVARIANTS
    TypeOK
    SwitchedAsRole
    OneEntryPerAddress
    ServedSettled
PROPERTIES
    ServedStay
    MainReturns
    RelayKeepsAlive
    PunchingResumes
    OverdueDropped
CHECK_DEADLOCK FALSE
