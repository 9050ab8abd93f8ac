CONSTANTS
    Parts = {"atoms", "timers", "owners", "data", "registry", "applications", "peers", "fsm", "dynsup", "channels"}
    Proc = {p1, p2}
    Owners = {p1, p2, p3}
    NoOne = noone
    Timer = {t1, t2}
    TimerKinds = {"send", "sendInterval", "apply", "applyInterval", "exit"}
    MaxTicks = 3
    Store = {s1}
    StoreName = {a}
    OwnersGive = TRUE
    StoreKinds = {"hash", "ordered"}
    Accesses = {"Public", "Private"}
    Keys = {1, 2}
    MaxValue = 2
    Key = {"k", "l"}
    RegistryTypes = {"Unique", "Duplicate"}
    App = {a1, a2, a3}
    a1 = a1
    a2 = a2
    a3 = a3
    Caller = {c1, c2}
    MaxStarts = 2
    GenericName = {"g"}
    MaxEvents = 1
    MaxCalls = 2
    MaxTimers = 2
    MaxVisits = 2
    MaxPostponed = 1
    RestartKinds = {"Permanent", "Transient", "Temporary"}
    MaxChildren = 2
    MaxIntensity = 1
    Forwarding = TRUE
    Session = {"s1", "s2"}
    Topic = {"t"}
    NoTopic = notopic
    MaxFrames = 3
    MaxBroadcasts = 2
    Thread = {t1, t2, t3}
    Name = {x, y}
    NoName = noname
    None = none
SPECIFICATION ServicesSpec
CHECK_DEADLOCK FALSE
INVARIANT ServicesTypeOK
INVARIANT Invertible
PROPERTY ImplementsInterning
 
 
INVARIANT StoreAgrees
INVARIANT EntryIsIndexed
INVARIANT StartsInOrder
INVARIANT TimeoutIsOfVisit
INVARIANT ChildIsClaimedOnce
 
