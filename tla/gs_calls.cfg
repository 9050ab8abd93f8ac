CONSTANTS
    Proc = {p1, p2}
    None = none
    MaxRef = 2
    MaxMail = 1
    MaxTimer = 0
    ReasonRef = {0}
    ShortRef = 1
    Ops = {"call", "stop", "loop", "exit", "down", "cast"}
SPECIFICATION Spec
CHECK_DEADLOCK FALSE
SYMMETRY ProcSymmetry
INVARIANT AnswerIsOwn
PROPERTY ReceivesSelectively
