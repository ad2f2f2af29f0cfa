\* Probes and answers are lost, copied and overtake each other.
SPECIFICATION Spec
CONSTANTS
    Ips = {i1, i2}
    PublicPorts = {p1, p2}
    CopyLimit = 1
    Undecided = Undecided
INVARIANTS
    SymmetricIsSo
    ConeIsSo
PROPERTIES
    Decides
CHECK_DEADLOCK FALSE
