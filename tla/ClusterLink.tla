---------------------------- MODULE ClusterLink -----------------------------
(***************************************************************************)
(* The connection between two nodes as the replicated registries see it:   *)
(* an entry in the table of each end (distribution/manager.rs), a queue of *)
(* messages each way, and one message that was read and is not yet handled.*)
(* How the tables come to agree is NodeConnections; here a connection is   *)
(* made, ends, is noticed or replaced.                                     *)
(***************************************************************************)
EXTENDS Nodes, Naturals, Sequences

CONSTANTS
    MaxQueue,   \* capacity of the queue of an entry (1024 in the code)
    MaxConn,    \* bound: connections ever dialled
    MaxCalls    \* bound: calls of a registry ever made

ASSUME LinkAssumption == MaxQueue \in Nat

VARIABLES
    dials,      \* number of the last connection
    dialled,    \* how far it is: "none", "hello", "open", "closed"
    acceptor,   \* the node that accepts it
    pending,    \* the nodes that have not inserted its entry yet
    up,         \* the nodes whose table has an entry for the other
    wire,       \* messages on their way to each node
    inHand,     \* the messages that each node has read: at most one per connection
    faults      \* history: "full" a message dropped, "late" one handled after its connection

linkVars == <<dials, dialled, acceptor, pending, up, wire, inHand, faults>>

LinkInit ==
    /\ dials = 0
    /\ dialled = "none"
    /\ acceptor = CHOOSE n \in Node : TRUE
    /\ pending = {}
    /\ up = {}
    /\ wire = [n \in Node |-> <<>>]
    /\ inHand = [n \in Node |-> {}]
    /\ faults = {}

LinkTypeOK ==
    /\ dials \in 0 .. MaxConn
    /\ dialled \in {"none", "hello", "open", "closed"}
    /\ acceptor \in Node
    /\ pending \subseteq Node
    /\ up \subseteq Node
    /\ \A n \in Node : Len(wire[n]) <= MaxQueue /\ \A h \in inHand[n] : h.conn \in 1 .. dials
    /\ faults \subseteq {"full", "late"}

-----------------------------------------------------------------------------
\* try_send of n to the other node, when the table has it; the queue drops what exceeds it.
Reaches(n) == n \in up' /\ dialled' = "open"
Queued(n, msgs) == wire[Other(n)] \o msgs

Post(n, msgs) ==
    /\ wire' = IF Reaches(n) /\ msgs # <<>>
               THEN [wire EXCEPT ![Other(n)] =
                         SubSeq(Queued(n, msgs), 1,
                                IF Len(Queued(n, msgs)) < MaxQueue
                                THEN Len(Queued(n, msgs)) ELSE MaxQueue)]
               ELSE wire
    /\ faults' = IF Reaches(n) /\ Len(Queued(n, msgs)) > MaxQueue
                 THEN faults \cup {"full"} ELSE faults

LinkStays == UNCHANGED <<dials, dialled, acceptor, pending, up, inHand>>

\* connect_to of the other node towards n, which has no entry.
Dial(n) ==
    /\ dialled \in {"none", "closed"}
    /\ pending = {}
    /\ Other(n) \notin up
    /\ dials < MaxConn
    /\ dials' = dials + 1
    /\ dialled' = "hello"
    /\ acceptor' = n
    /\ pending' = Node
    /\ wire' = [m \in Node |-> <<>>]
    /\ UNCHANGED <<up, inHand, faults>>

\* The Hello is accepted: an entry of an older connection is replaced.
LinkAccept(n) ==
    /\ dialled = "hello"
    /\ n = acceptor
    /\ dialled' = "open"
    /\ up' = up \ {n}
    /\ UNCHANGED <<dials, acceptor, pending, wire, inHand, faults>>

\* The entry is inserted and the messages of request_sync are queued.
LinkInsert(n, msgs) ==
    /\ dialled \in {"open", "closed"}
    /\ n \in pending
    /\ pending' = pending \ {n}
    /\ up' = up \cup {n}
    /\ UNCHANGED <<dials, dialled, acceptor, inHand>>
    /\ Post(n, msgs)

\* The connection is lost, with what is on its way.
LinkLost ==
    /\ dialled = "open"
    /\ dialled' = "closed"
    /\ wire' = [m \in Node |-> <<>>]
    /\ UNCHANGED <<dials, acceptor, pending, up, inHand, faults>>

\* A loop of n notices, or n disconnects: the entry goes.
LinkDown(n) ==
    /\ n \in up
    /\ n \notin pending
    /\ dialled' = IF dialled = "open" THEN "closed" ELSE dialled
    /\ wire' = [m \in Node |-> <<>>]
    /\ up' = up \ {n}
    /\ UNCHANGED <<dials, acceptor, pending, inHand, faults>>

\* The receiver loop reads a message of the connection.
LinkRead(n) ==
    /\ n \in up
    /\ n \notin pending
    /\ wire[n] # <<>>
    /\ \A h \in inHand[n] : h.conn # dials
    /\ inHand' = [inHand EXCEPT ![n] = @ \cup {[conn |-> dials, msg |-> Head(wire[n])]}]
    /\ wire' = [wire EXCEPT ![n] = Tail(@)]
    /\ UNCHANGED <<dials, dialled, acceptor, pending, up, faults>>

\* It handles the message, msgs being the answer; by then the connection may be over.
IsLate(n, h) == n \notin up \/ h.conn # dials

LinkHandle(n, h, msgs) ==
    /\ inHand' = [inHand EXCEPT ![n] = @ \ {h}]
    /\ UNCHANGED <<dials, dialled, acceptor, pending, up>>
    /\ wire' = IF Reaches(n) /\ msgs # <<>> /\ Len(wire[Other(n)]) < MaxQueue
               THEN [wire EXCEPT ![Other(n)] = @ \o msgs] ELSE wire
    /\ faults' = faults
          \cup (IF IsLate(n, h) THEN {"late"} ELSE {})
          \cup (IF Reaches(n) /\ msgs # <<>> /\ Len(wire[Other(n)]) >= MaxQueue
                THEN {"full"} ELSE {})

\* Both tables have the connection, nothing is on its way and nothing went wrong.
LinkSettled ==
    /\ dialled = "open"
    /\ pending = {}
    /\ up = Node
    /\ faults = {}
    /\ \A n \in Node : wire[n] = <<>> /\ inHand[n] = {}
=============================================================================
