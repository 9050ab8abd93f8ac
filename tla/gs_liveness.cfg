CONSTANTS
    Proc = {p1, p2}
    None = none
    MaxRef = 2
    MaxMail = 1
    MaxTimer = 1
    ReasonRef = {0}
    ShortRef = 1
    Ops = {"call", "loop", "timeout", "continue", "return_stop"}
SPECIFICATION FairSpec
CHECK_DEADLOCK FALSE
PROPERTY CallReturns
PROPERTY AcceptedIsServed
