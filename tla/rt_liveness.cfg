CONSTANTS
    Pid = {p1, p2}
    Name = {n1}
    None = none
    Reason = {"Error"}
    MaxRef = 1
    MaxMail = 1
    Ops = {"monitor", "spawn_link", "unlink", "trap", "panic", "register_other", "unregister"}
SPECIFICATION FairSpec
CHECK_DEADLOCK FALSE
PROPERTY SnapshotMonitorsFire
PROPERTY TrappingLinksAreTold
