CONSTANTS
    Pid = {p1, p2}
    Name = {n1}
    None = none
    Reason = {"Error"}
    MaxRef = 1
    MaxMail = 0
    Ops = {"monitor"}
SPECIFICATION Spec
CHECK_DEADLOCK FALSE
SYMMETRY PidSymmetry
INVARIANT EndIsReported
