CONSTANTS
    Node = {n1, n2}
    None = none
    Dialers = {n1, n2}
    Addr = {"a"}
    MaxConn = 2
    MaxQueue = 1
    MaxSent = 1
SYMMETRY NodeSymmetry
SPECIFICATION Spec
CHECK_DEADLOCK FALSE
INVARIANT UpIsKnown
INVARIANT EntryIsWatched
