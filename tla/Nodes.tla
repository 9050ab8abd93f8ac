------------------------------- MODULE Nodes --------------------------------
(***************************************************************************)
(* What the services of a cluster take from it: two nodes, and the         *)
(* processes of each.                                                      *)
(***************************************************************************)
CONSTANTS
    Node,       \* two nodes
    Pid, Home,  \* the processes that call the services, and the node of each
    Nobody      \* no process

ASSUME NodesAssumption ==
    /\ \E a, b \in Node : a # b /\ Node = {a, b}
    /\ Home \in [Pid -> Node]
    /\ Nobody \notin Pid

Other(n) == CHOOSE m \in Node : m # n
=============================================================================
