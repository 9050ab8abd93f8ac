CONSTANTS
    n1 = n1
    n2 = n2
    p1 = p1
    p2 = p2
    Node = {n1, n2}
    Proc = {p1, p2}
    Home <- HomeOfTwo
    None = none
    Dialers = {n1}
    Users = {p1}
    Mortal = {p2}
    Trapping = {p1}
    Reason = {"Error"}
    MaxConn = 2
    MaxRef = 1
    Ops = {"monitor", "demonitor", "link", "unlink", "disconnect"}
SPECIFICATION FairSpec
CHECK_DEADLOCK FALSE
INVARIANT DownOncePerCause
PROPERTY DownArrives
 
