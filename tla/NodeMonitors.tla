---------------------------- MODULE NodeMonitors -----------------------------
(***************************************************************************)
(* Monitors of nodes: distribution/monitor.rs, the registry of one node.   *)
(* Processes add and remove monitors on one thread while the loops of the  *)
(* connections report nodes down on others; each step is one access of one *)
(* of the three concurrent maps.                                           *)
(***************************************************************************)
EXTENDS Naturals

CONSTANTS
    Proc,       \* the monitoring processes of this node
    Peer,       \* the monitored nodes
    Loop,       \* the tasks that may report a node down
    RemoteProc, \* processes of a peer that monitor this node
    MaxRefs,    \* bound: monitors ever made
    MaxDowns    \* bound: reports ever made

ASSUME MonitorsAssumption == MaxRefs \in Nat /\ Proc # {} /\ Peer # {}

Ref == 1 .. MaxRefs

VARIABLES
    nextRef,    \* MONITOR_REF_COUNTER, the references given out so far
    refOf,      \* the process and the node of each
    localMonitors, monitorRefs, remoteMonitors,
    monCall,    \* the call that each process is in
    notifying,  \* each loop: the node it reports, and the monitors it took and has still to notify
    nodeDowns,  \* how many NodeDown messages each monitor was sent
    cancelled,  \* history: the monitors that demonitor_node returned for
    reports     \* how many reports were made

monVars == <<nextRef, refOf, localMonitors, monitorRefs, remoteMonitors, monCall, notifying,
             nodeDowns, cancelled, reports>>

Free == [step |-> "none", ref |-> 0]
NoReport == [step |-> "none", node |-> CHOOSE m \in Peer : TRUE, rest |-> {}, ref |-> 0]

MonInit ==
    /\ nextRef = 0
    /\ refOf = [r \in Ref |-> [pid |-> CHOOSE p \in Proc : TRUE, node |-> NoReport.node]]
    /\ localMonitors = [m \in Peer |-> {}]
    /\ monitorRefs = {}
    /\ remoteMonitors = [m \in Peer |-> {}]
    /\ monCall = [p \in Proc |-> Free]
    /\ notifying = [l \in Loop |-> NoReport]
    /\ nodeDowns = [r \in Ref |-> 0]
    /\ cancelled = {}
    /\ reports = 0

MonTypeOK ==
    /\ nextRef \in 0 .. MaxRefs
    /\ refOf \in [Ref -> [pid : Proc, node : Peer]]
    /\ localMonitors \in [Peer -> SUBSET (1 .. nextRef)]
    /\ monitorRefs \subseteq 1 .. nextRef
    /\ remoteMonitors \in [Peer -> SUBSET RemoteProc]
    /\ monCall \in [Proc -> [step : {"none", "insert", "index", "unref", "remove"}, ref : 0 .. nextRef]]
    /\ notifying \in [Loop -> [step : {"none", "unref", "send", "clean"}, node : Peer,
                               rest : SUBSET Ref, ref : 0 .. nextRef]]
    /\ cancelled \subseteq 1 .. nextRef

-----------------------------------------------------------------------------
(***************************************************************************)
(* monitor_node and demonitor_node.                                        *)
(***************************************************************************)
Steps(p, step, r) == monCall' = [monCall EXCEPT ![p] = [step |-> step, ref |-> r]]

MonitorNode(p, m) ==
    /\ monCall[p] = Free
    /\ nextRef < MaxRefs
    /\ nextRef' = nextRef + 1
    /\ refOf' = [refOf EXCEPT ![nextRef + 1] = [pid |-> p, node |-> m]]
    /\ Steps(p, "insert", nextRef + 1)
    /\ UNCHANGED <<localMonitors, monitorRefs, remoteMonitors, notifying, nodeDowns, cancelled, reports>>

InsertMonitor(p) ==
    LET r == monCall[p].ref
    IN /\ monCall[p].step = "insert"
       /\ localMonitors' = [localMonitors EXCEPT ![refOf[r].node] = @ \cup {r}]
       /\ Steps(p, "index", r)
       /\ UNCHANGED <<nextRef, refOf, monitorRefs, remoteMonitors, notifying, nodeDowns, cancelled, reports>>

IndexMonitor(p) ==
    /\ monCall[p].step = "index"
    /\ monitorRefs' = monitorRefs \cup {monCall[p].ref}
    /\ monCall' = [monCall EXCEPT ![p] = Free]
    /\ UNCHANGED <<nextRef, refOf, localMonitors, remoteMonitors, notifying, nodeDowns, cancelled, reports>>

\* The node is looked up first, for the message to it; the result decides nothing here.
DemonitorNode(p, r) ==
    /\ monCall[p] = Free
    /\ r \in 1 .. nextRef
    /\ refOf[r].pid = p
    /\ Steps(p, "unref", r)
    /\ UNCHANGED <<nextRef, refOf, localMonitors, monitorRefs, remoteMonitors, notifying, nodeDowns,
                   cancelled, reports>>

UnrefMonitor(p) ==
    LET r == monCall[p].ref
    IN /\ monCall[p].step = "unref"
       /\ monitorRefs' = monitorRefs \ {r}
       /\ IF r \in monitorRefs THEN Steps(p, "remove", r) /\ UNCHANGED cancelled
          ELSE Steps(p, "none", 0) /\ cancelled' = cancelled \cup {r}
       /\ UNCHANGED <<nextRef, refOf, localMonitors, remoteMonitors, notifying, nodeDowns, reports>>

RemoveMonitor(p) ==
    LET r == monCall[p].ref
    IN /\ monCall[p].step = "remove"
       /\ localMonitors' = [localMonitors EXCEPT ![refOf[r].node] = @ \ {r}]
       /\ Steps(p, "none", 0)
       /\ cancelled' = cancelled \cup {r}
       /\ UNCHANGED <<nextRef, refOf, monitorRefs, remoteMonitors, notifying, nodeDowns, reports>>

-----------------------------------------------------------------------------
(***************************************************************************)
(* notify_node_down, and the requests of the other node.                   *)
(***************************************************************************)
\* The set of the node is taken out.  Variant: it is only read.
Kept(m) == localMonitors
TakenOut(m) == [localMonitors EXCEPT ![m] = {}]

NotifyNodeDown(l, m) ==
    /\ notifying[l] = NoReport
    /\ reports < MaxDowns
    /\ reports' = reports + 1
    /\ localMonitors' = TakenOut(m)
    /\ notifying' = [notifying EXCEPT ![l] = [step |-> "unref", node |-> m, rest |-> localMonitors[m],
                                              ref |-> 0]]
    /\ UNCHANGED <<nextRef, refOf, monitorRefs, remoteMonitors, monCall, nodeDowns, cancelled>>

NotifyNext(l) ==
    /\ notifying[l].step = "unref"
    /\ \/ \E r \in notifying[l].rest :
             /\ monitorRefs' = monitorRefs \ {r}
             /\ notifying' = [notifying EXCEPT ![l].step = "send", ![l].ref = r, ![l].rest = @ \ {r}]
       \/ /\ notifying[l].rest = {}
          /\ notifying' = [notifying EXCEPT ![l].step = "clean", ![l].ref = 0]
          /\ UNCHANGED monitorRefs
    /\ UNCHANGED <<nextRef, refOf, localMonitors, remoteMonitors, monCall, nodeDowns, cancelled, reports>>

SendNodeDown(l) ==
    /\ notifying[l].step = "send"
    /\ nodeDowns' = [nodeDowns EXCEPT ![notifying[l].ref] = @ + 1]
    /\ notifying' = [notifying EXCEPT ![l].step = "unref"]
    /\ UNCHANGED <<nextRef, refOf, localMonitors, monitorRefs, remoteMonitors, monCall, cancelled, reports>>

CleanRemote(l) ==
    /\ notifying[l].step = "clean"
    /\ remoteMonitors' = [remoteMonitors EXCEPT ![notifying[l].node] = {}]
    /\ notifying' = [notifying EXCEPT ![l] = NoReport]
    /\ UNCHANGED <<nextRef, refOf, localMonitors, monitorRefs, monCall, nodeDowns, cancelled, reports>>

\* MonitorNode and DemonitorNode of a peer: nothing reads what they keep.
RemoteRequest(m, q) ==
    /\ \/ remoteMonitors' = [remoteMonitors EXCEPT ![m] = @ \cup {q}]
       \/ remoteMonitors' = [remoteMonitors EXCEPT ![m] = @ \ {q}]
    /\ UNCHANGED <<nextRef, refOf, localMonitors, monitorRefs, monCall, notifying, nodeDowns, cancelled,
                   reports>>

MonNext ==
    \/ \E p \in Proc :
          \/ \E m \in Peer : MonitorNode(p, m)
          \/ \E r \in Ref : DemonitorNode(p, r)
          \/ InsertMonitor(p)
          \/ IndexMonitor(p)
          \/ UnrefMonitor(p)
          \/ RemoveMonitor(p)
    \/ \E l \in Loop :
          \/ \E m \in Peer : NotifyNodeDown(l, m)
          \/ NotifyNext(l)
          \/ SendNodeDown(l)
          \/ CleanRemote(l)
    \/ \E m \in Peer, q \in RemoteProc : RemoteRequest(m, q)

-----------------------------------------------------------------------------
(***************************************************************************)
(* No monitor is lost or fires twice, however adding, removing and two     *)
(* reports of one node meet: a monitor is sent at most one NodeDown, and   *)
(* when no call and no report is under way each one was cancelled, was     *)
(* fired, or is in both maps and will fire.                                *)
(***************************************************************************)
Quiet == (\A p \in Proc : monCall[p] = Free) /\ (\A l \in Loop : notifying[l] = NoReport)

MonitorIsAccountedFor ==
    \A r \in 1 .. nextRef :
        /\ nodeDowns[r] <= 1
        /\ Quiet => \/ r \in cancelled \/ nodeDowns[r] = 1
                    \/ r \in localMonitors[refOf[r].node] /\ r \in monitorRefs
        /\ Quiet /\ r \in localMonitors[refOf[r].node] => r \notin cancelled /\ nodeDowns[r] = 0
=============================================================================
