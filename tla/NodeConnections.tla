--------------------------- MODULE NodeConnections --------------------------
(***************************************************************************)
(* Connections between nodes: distribution/manager.rs.                     *)
(*                                                                         *)
(* Each node keeps one entry per peer in `nodes`.  A connection is dialled *)
(* by connect_to and accepted by handle_incoming_connection; at each end   *)
(* that has it in the table a sender loop moves messages from the queue of *)
(* the entry to the connection, and a receiver loop hands what arrives to  *)
(* handle_incoming_message.  The loops find their connection through the   *)
(* table each time, and tell it from another one of the same peer by its   *)
(* address.  Messages are only counted: RemoteMonitors has what they mean.  *)
(***************************************************************************)
EXTENDS Naturals

CONSTANTS
    Node,       \* the nodes
    None,       \* "no node", "no address"
    Dialers,    \* the nodes that dial
    Addr,       \* the socket addresses over which a peer can be reached
    MaxConn,    \* bound: connections ever dialled
    MaxQueue,   \* capacity of the queue of an entry (1024 in the code)
    MaxSent     \* bound: messages sent

ASSUME NoneAssumption == None \notin Node \cup Addr
ASSUME BoundAssumption == MaxConn \in Nat /\ MaxQueue \in Nat /\ MaxSent \in Nat
ASSUME DialersAssumption == Dialers \subseteq Node

Conn == 1 .. MaxConn

VARIABLES
    conn,       \* who dialled each connection, to whom, at which address
    up,         \* the connections that are not closed
    nodes,      \* the table of each node: the connection per peer, 0 if none
    addrs,      \* addr_to_node of each node: pairs of address and peer
    dialer,     \* where connect_to is with a connection
    acceptor,   \* where handle_incoming_connection is with it
    sender,     \* the message_sender_loop of each end
    receiver,   \* the message_receiver_loop of each end
    queue,      \* how many messages are in the queue of each end (mpsc)
    wire,       \* how many are on the connection to each end
    sent        \* how many messages were sent

vars == <<conn, up, nodes, addrs, dialer, acceptor, sender, receiver, queue,
              wire, sent>>

NoConn == [from |-> None, to |-> None, addr |-> None]

Peer(n, c) == IF conn[c].from = n THEN conn[c].to ELSE conn[c].from

Init ==
    /\ conn = [c \in Conn |-> NoConn]
    /\ up = {}
    /\ nodes = [n \in Node |-> [m \in Node |-> 0]]
    /\ addrs = [n \in Node |-> {}]
    /\ dialer = [c \in Conn |-> "none"]
    /\ acceptor = [c \in Conn |-> "none"]
    /\ sender = [n \in Node |-> [c \in Conn |-> "none"]]
    /\ receiver = [n \in Node |-> [c \in Conn |-> "none"]]
    /\ queue = [n \in Node |-> [c \in Conn |-> 0]]
    /\ wire = [n \in Node |-> [c \in Conn |-> 0]]
    /\ sent = 0

DialerStep == {"none", "hello", "insert", "done"}
AcceptorStep == {"none", "hello", "welcome", "insert", "done"}
SenderStep == {"none", "run", "cleanup", "remove"}
ReceiverStep == {"none", "start", "accept", "read", "cleanup", "remove"}

TypeOK ==
    /\ conn \in [Conn -> [from : Node \cup {None}, to : Node \cup {None},
                          addr : Addr \cup {None}]]
    /\ up \subseteq Conn
    /\ nodes \in [Node -> [Node -> 0 .. MaxConn]]
    /\ addrs \in [Node -> SUBSET (Addr \X Node)]
    /\ dialer \in [Conn -> DialerStep]
    /\ acceptor \in [Conn -> AcceptorStep]
    /\ sender \in [Node -> [Conn -> SenderStep]]
    /\ receiver \in [Node -> [Conn -> ReceiverStep]]
    /\ queue \in [Node -> [Conn -> 0 .. MaxQueue]]
    /\ wire \in [Node -> [Conn -> 0 .. MaxSent]]
    /\ sent \in 0 .. MaxSent

-----------------------------------------------------------------------------
(***************************************************************************)
(* The table.  A receiver loop that waits in accept_stream holds the entry *)
(* it reads from, so nobody can change it.                                 *)
(***************************************************************************)
Writable(n, m) ==
    \A c \in Conn : receiver[n][c] = "accept" => Peer(n, c) # m

\* A dropped entry closes its connection: n reads no more from it.
Drop(n, m) ==
    /\ Writable(n, m)
    /\ up' = up \ {nodes[n][m]}
    /\ wire' = [wire EXCEPT ![n] = [c \in Conn |-> IF c = nodes[n][m] THEN 0
                                                  ELSE @[c]]]

RemoveEntry(n, m) ==
    /\ Drop(n, m)
    /\ nodes' = [nodes EXCEPT ![n][m] = 0]
    /\ addrs' = [addrs EXCEPT ![n] = @ \ {<<conn[nodes[n][m]].addr, m>>}]

RemoveIfAny(n, m) ==
    IF nodes[n][m] # 0 THEN RemoveEntry(n, m) ELSE UNCHANGED <<up, nodes, addrs, wire>>

\* An entry that is overwritten is dropped as well; its address stays.
InsertEntry(n, c) ==
    LET m == Peer(n, c)
    IN /\ Drop(n, m)
       /\ nodes' = [nodes EXCEPT ![n][m] = c]
       /\ addrs' = [addrs EXCEPT ![n] = @ \cup {<<conn[c].addr, m>>}]
       /\ sender' = [sender EXCEPT ![n][c] = "run"]
       /\ receiver' = [receiver EXCEPT ![n][c] = "start"]

HasRoom(n, c) == queue[n][c] < MaxQueue

\* get_node_tx and try_send: dropped when the queue is full or closed.
Send(n, m) ==
    LET c == nodes[n][m]
    IN /\ c # 0
       /\ sent < MaxSent
       /\ sent' = sent + 1
       /\ queue' = IF sender[n][c] = "run" /\ HasRoom(n, c)
                   THEN [queue EXCEPT ![n][c] = @ + 1] ELSE queue
       /\ UNCHANGED <<conn, up, nodes, addrs, dialer, acceptor, sender, receiver,
                      wire>>

-----------------------------------------------------------------------------
(***************************************************************************)
(* connect_to.                                                             *)
(***************************************************************************)
Dial(n, m, a, c) ==
    /\ n # m
    /\ n \in Dialers
    /\ conn[c] = NoConn
    /\ \A b \in Conn : b < c => conn[b] # NoConn
    /\ <<a, m>> \notin addrs[n]
    /\ conn' = [conn EXCEPT ![c] = [from |-> n, to |-> m, addr |-> a]]
    /\ up' = up \cup {c}
    /\ dialer' = [dialer EXCEPT ![c] = "hello"]
    /\ acceptor' = [acceptor EXCEPT ![c] = "hello"]
    /\ UNCHANGED <<nodes, addrs, sender, receiver, queue, wire>>

\* The Welcome arrives; a second connection to the peer is closed.
\* Variant: it is only given up.
GiveUp(c) == up
CloseDuplicate(c) == up \ {c}

Welcomed(c) ==
    /\ dialer[c] = "hello"
    /\ acceptor[c] \in {"insert", "done"}
    /\ IF nodes[conn[c].from][conn[c].to] # 0
       THEN /\ up' = CloseDuplicate(c)
            /\ dialer' = [dialer EXCEPT ![c] = "done"]
       ELSE /\ dialer' = [dialer EXCEPT ![c] = "insert"]
            /\ UNCHANGED up
    /\ UNCHANGED <<conn, nodes, addrs, acceptor, sender, receiver, queue, wire>>

DialerInsert(c) ==
    /\ dialer[c] = "insert"
    /\ InsertEntry(conn[c].from, c)
    /\ dialer' = [dialer EXCEPT ![c] = "done"]
    /\ UNCHANGED <<conn, acceptor, queue>>

DialFails(c) ==
    /\ dialer[c] = "hello"
    /\ c \notin up
    /\ dialer' = [dialer EXCEPT ![c] = "done"]
    /\ UNCHANGED <<conn, up, nodes, addrs, acceptor, sender, receiver, queue,
                   wire>>

-----------------------------------------------------------------------------
(***************************************************************************)
(* handle_incoming_connection.  An entry of the peer is replaced, without  *)
(* a node down.                                                            *)
(***************************************************************************)
AcceptHello(c) ==
    LET n == conn[c].to
        m == conn[c].from
    IN /\ acceptor[c] = "hello"
       /\ RemoveIfAny(n, m)
       /\ acceptor' = [acceptor EXCEPT ![c] = "welcome"]
       /\ UNCHANGED <<conn, dialer, sender, receiver, queue>>

SendWelcome(c) ==
    /\ acceptor[c] = "welcome"
    /\ acceptor' = [acceptor EXCEPT ![c] = IF c \in up THEN "insert" ELSE "done"]
    /\ UNCHANGED <<conn, up, nodes, addrs, dialer, sender, receiver, queue, wire>>

AcceptorInsert(c) ==
    /\ acceptor[c] = "insert"
    /\ InsertEntry(conn[c].to, c)
    /\ acceptor' = [acceptor EXCEPT ![c] = "done"]
    /\ UNCHANGED <<conn, dialer, queue>>

-----------------------------------------------------------------------------
(***************************************************************************)
(* message_sender_loop of connection c at node n.                          *)
(***************************************************************************)
\* The entry that n has for the peer of c, and whether it counts as c's.
Entry(n, c) == nodes[n][Peer(n, c)]
SameAddr(n, c) == Entry(n, c) # 0 /\ conn[Entry(n, c)].addr = conn[c].addr

\* One message: sent over whatever connection the entry now has.
Received(n, c) == [queue EXCEPT ![n][c] = @ - 1]

SenderSends(n, c) ==
    /\ sender[n][c] = "run"
    /\ queue[n][c] > 0
    /\ SameAddr(n, c)
    /\ Entry(n, c) \in up
    /\ queue' = Received(n, c)
    /\ wire' = [wire EXCEPT ![Peer(n, c)][Entry(n, c)] = @ + 1]
    /\ UNCHANGED <<conn, up, nodes, addrs, dialer, acceptor, sender, receiver>>

(***************************************************************************)
(* The loop is over: the queue was closed with its entry, or a message     *)
(* finds the entry gone, replaced by one of another address (no cleanup    *)
(* then), or its connection closed.                                        *)
(***************************************************************************)
SenderBreaks(n, c) ==
    /\ sender[n][c] = "run"
    /\ \/ /\ queue[n][c] = 0
          /\ Entry(n, c) # c
          /\ sender' = [sender EXCEPT ![n][c] = "cleanup"]
       \/ /\ queue[n][c] > 0
          /\ ~(SameAddr(n, c) /\ Entry(n, c) \in up)
          /\ sender' = [sender EXCEPT ![n][c] =
                            IF SameAddr(n, c) \/ Entry(n, c) = 0 THEN "cleanup"
                            ELSE "none"]
    /\ queue' = [queue EXCEPT ![n][c] = 0]
    /\ UNCHANGED <<conn, up, nodes, addrs, dialer, acceptor, receiver, wire>>

-----------------------------------------------------------------------------
(***************************************************************************)
(* message_receiver_loop of connection c at node n.                        *)
(***************************************************************************)
\* Where the loop goes from its top.
AtTop(n, c) ==
    IF SameAddr(n, c) THEN "accept" ELSE IF Entry(n, c) = 0 THEN "cleanup" ELSE "none"

ReceiverStarts(n, c) ==
    /\ receiver[n][c] = "start"
    /\ receiver' = [receiver EXCEPT ![n][c] = AtTop(n, c)]
    /\ UNCHANGED <<conn, up, nodes, addrs, dialer, acceptor, sender, queue, wire>>

\* A message that was sent before the connection closed may still arrive.
ReceiverTakes(n, c) ==
    LET e == Entry(n, c)
    IN /\ receiver[n][c] = "accept"
       /\ wire[n][e] > 0
       /\ wire' = [wire EXCEPT ![n][e] = @ - 1]
       /\ receiver' = [receiver EXCEPT ![n][c] = "read"]
       /\ UNCHANGED <<conn, up, nodes, addrs, dialer, acceptor, sender, queue>>

ReceiverBreaks(n, c) ==
    /\ receiver[n][c] = "accept"
    /\ Entry(n, c) \notin up
    /\ receiver' = [receiver EXCEPT ![n][c] = "cleanup"]
    /\ UNCHANGED <<conn, up, nodes, addrs, dialer, acceptor, sender, queue, wire>>

\* recv_message fails: the stream ended with its connection, or is no message.
ReadFails(n, c) ==
    /\ receiver[n][c] = "read"
    /\ receiver' = [receiver EXCEPT ![n][c] = "cleanup"]
    /\ UNCHANGED <<conn, up, nodes, addrs, dialer, acceptor, sender, queue, wire>>

\* It succeeds, and handle_incoming_message returns.
Handled(n, c) ==
    /\ receiver[n][c] = "read"
    /\ receiver' = [receiver EXCEPT ![n][c] = AtTop(n, c)]
    /\ UNCHANGED <<conn, up, nodes, addrs, dialer, acceptor, sender, queue, wire>>

-----------------------------------------------------------------------------
(***************************************************************************)
(* The end of a loop, and disconnect_from.  A loop looks at the entry, and *)
(* then removes what the table has; whatever is removed is reported as a   *)
(* node down (RemoteMonitors has that).                                    *)
(***************************************************************************)
\* should_cleanup.  Variant: the addresses never match.
NeverCleanup(n, c) == FALSE
ShouldCleanup(n, c) == SameAddr(n, c)

AtEnd(n, c) == IF ShouldCleanup(n, c) THEN "remove" ELSE "none"

SenderCleanup(n, c) ==
    /\ \/ /\ sender[n][c] = "cleanup"
          /\ sender' = [sender EXCEPT ![n][c] = AtEnd(n, c)]
          /\ UNCHANGED <<up, nodes, addrs, wire>>
       \/ /\ sender[n][c] = "remove"
          /\ RemoveIfAny(n, Peer(n, c))
          /\ sender' = [sender EXCEPT ![n][c] = "none"]
    /\ UNCHANGED <<conn, dialer, acceptor, receiver, queue>>

ReceiverCleanup(n, c) ==
    /\ \/ /\ receiver[n][c] = "cleanup"
          /\ receiver' = [receiver EXCEPT ![n][c] = AtEnd(n, c)]
          /\ UNCHANGED <<up, nodes, addrs, wire>>
       \/ /\ receiver[n][c] = "remove"
          /\ RemoveIfAny(n, Peer(n, c))
          /\ receiver' = [receiver EXCEPT ![n][c] = "none"]
    /\ UNCHANGED <<conn, dialer, acceptor, sender, queue>>

Disconnect(n, m) ==
    /\ nodes[n][m] # 0
    /\ RemoveEntry(n, m)
    /\ UNCHANGED <<conn, dialer, acceptor, sender, receiver, queue>>

\* The network fails, or a connection idles out.
ConnectionLost(c) ==
    /\ c \in up
    /\ up' = up \ {c}
    /\ UNCHANGED <<conn, nodes, addrs, dialer, acceptor, sender, receiver, queue,
                   wire>>

-----------------------------------------------------------------------------
SenderLoop(n, c) ==
    \/ SenderSends(n, c)
    \/ SenderBreaks(n, c)
    \/ SenderCleanup(n, c)

ReceiverLoop(n, c) ==
    \/ ReceiverStarts(n, c)
    \/ ReceiverTakes(n, c)
    \/ ReceiverBreaks(n, c)
    \/ ReadFails(n, c)
    \/ Handled(n, c)
    \/ ReceiverCleanup(n, c)

Handshake(c) ==
    \/ Welcomed(c)
    \/ DialerInsert(c)
    \/ DialFails(c)
    \/ AcceptHello(c)
    \/ SendWelcome(c)
    \/ AcceptorInsert(c)

Next ==
    \/ /\ \/ \E n \in Node, c \in Conn : SenderLoop(n, c) \/ ReceiverLoop(n, c)
          \/ \E n, m \in Node, a \in Addr, c \in Conn : Dial(n, m, a, c)
          \/ \E n, m \in Node : Disconnect(n, m)
          \/ \E c \in Conn : Handshake(c) \/ ConnectionLost(c)
       /\ UNCHANGED sent
    \/ \E n, m \in Node : Send(n, m)

Spec == Init /\ [][Next]_vars

-----------------------------------------------------------------------------
(***************************************************************************)
(* Properties.                                                             *)
(***************************************************************************)

(***************************************************************************)
(* A connection that is open when both ends are done with its handshake is *)
(* the one that both tables have: whatever was dialled from both ends at   *)
(* once, replaced, overwritten or cleaned up, no half-open connection is   *)
(* left and the ends never use different ones.                             *)
(***************************************************************************)
UpIsKnown ==
    \A c \in up : dialer[c] = "done" /\ acceptor[c] = "done" =>
        /\ nodes[conn[c].from][conn[c].to] = c
        /\ nodes[conn[c].to][conn[c].from] = c

(***************************************************************************)
(* The receiver loop of an entry has not ended: somebody will notice the   *)
(* end of the connection, also after loops of older connections with the   *)
(* same address have removed or served the entry.                          *)
(***************************************************************************)
EntryIsWatched ==
    \A n, m \in Node : nodes[n][m] # 0 => receiver[n][nodes[n][m]] # "none"
=============================================================================
