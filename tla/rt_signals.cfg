CONSTANTS
    Pid = {p1, p2}
    Name = {n1}
    None = none
    Reason = {"Normal", "Killed"}
    MaxRef = 1
    MaxMail = 1
    Ops = {"link", "exit", "trap", "monitor", "register_self", "runtime_exit"}
SPECIFICATION Spec
CHECK_DEADLOCK FALSE
SYMMETRY PidSymmetry
INVARIANT TypeOK
INVARIANT NoFalseDown
INVARIANT LinkedPeerKnows
