CONSTANTS
    Parts = {"groups", "names", "monitors", "pubsub", "presence", "rooms", "chat"}
    Node = {"n1", "n2"}
    Pid = {"p1", "p2"}
    Home <- ClusterHome
    Group = {"g"}
    OneThread = TRUE
    MaxQueue = 3
    MaxConn = 2
    MaxCalls = 2
    GlobalName = {"x"}
    Nobody = nobody
    Proc = {"p1", "p2"}
    Peer = {"m1"}
    Loop = {"l1", "l2"}
    RemoteProc = {"q"}
    MaxRefs = 2
    MaxDowns = 2
    Topic = {"t"}
    MaxSubscribes = 3
    MaxServerBroadcasts = 1
    Slot = {"s", "t"}
    MaxMetas = 3
    MaxLosses = 1
    User = {"s1", "s2"}
    MaxHistory = 2
    MaxRooms = 2
    MaxMessages = 3
    MaxVisits = 3
    Session = {"s1", "s2"}
    Watching = {"s1"}
    Room = {"r"}
    MaxJoins = 2
    MaxLeaves = 1
    MaxTimeouts = 1
SPECIFICATION ClusterSpec
CHECK_DEADLOCK FALSE
CONSTRAINT NoFault
INVARIANT ClusterTypeOK
 
INVARIANT NameIsKnown
INVARIANT MonitorIsAccountedFor
INVARIANT SubscribedGetsAll
INVARIANT ReplicaFollows
 
 
