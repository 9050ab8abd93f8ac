CONSTANTS
    Pid = {p1, p2, p3}
    Name = {n1}
    None = none
    Reason = {"Killed"}
    MaxRef = 2
    MaxMail = 1
    Ops = {"monitor", "demonitor", "spawn_monitor", "exit"}
SPECIFICATION Spec
CHECK_DEADLOCK FALSE
SYMMETRY PidSymmetry
INVARIANT DownAtMostOnce
INVARIANT HeldMonitorIsKnown
PROPERTY DemonitorIsFinal
