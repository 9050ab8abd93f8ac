CONSTANTS
    NumChildren = 2
    MaxPid = 4
    Strategies = {"OneForOne", "OneForAll", "RestForOne"}
    RestartTypes = {"Permanent", "Transient", "Temporary"}
    MaxRestarts = 1
    MaxSeconds = 1
    MaxTime = 1
SPECIFICATION FairSpec
CHECK_DEADLOCK FALSE
INVARIANT RestartIntensity
INVARIANT NoLiveChildIsLost
PROPERTY TakenDownByStrategy
PROPERTY PermanentIsReplaced
