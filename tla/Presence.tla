------------------------------ MODULE Presence -------------------------------
(***************************************************************************)
(* Presence on two nodes: presence/server.rs.  Each node runs a server     *)
(* that keeps the presences of its own processes and a copy of those of    *)
(* the other node, which it follows by the deltas the other sends.  The    *)
(* calls are handled whole: nothing they await gives way to another.       *)
(***************************************************************************)
EXTENDS Nodes, Naturals, Sequences, FiniteSets, Functions

CONSTANTS
    Slot,           \* pairs of topic and key
    MaxMetas,       \* bound: metas ever made
    MaxLosses       \* bound: connections lost

\* The metas of a slot are in the order of since, the reference of the track behind each.
Meta == [ref : 1 .. MaxMetas, prev : 0 .. MaxMetas, pid : Pid, since : 1 .. MaxMetas]

VARIABLES
    members,        \* pg: the nodes that know the server of the other
    serving,        \* the nodes whose server has not stopped
    presences,      \* state: the metas of each slot, at each server
    pidToPresence,  \* pid_to_presence of each server
    lastRef,        \* references made so far
    deltas,         \* deltas on their way to each server
    missed,         \* history: references in deltas that were not sent, lost or not applied
    losses

presenceVars == <<members, serving, presences, pidToPresence, lastRef, deltas, missed, losses>>

PresenceInit ==
    /\ members = {}
    /\ serving = Node
    /\ presences = [n \in Node |-> [s \in Slot |-> {}]]
    /\ pidToPresence = [n \in Node |-> {}]
    /\ lastRef = 0
    /\ deltas = [n \in Node |-> <<>>]
    /\ missed = {}
    /\ losses = 0

PresenceTypeOK ==
    /\ members \subseteq Node /\ serving \subseteq Node
    /\ \A n \in Node : \A s \in Slot : presences[n][s] \subseteq Meta
    /\ pidToPresence \in [Node -> SUBSET (Pid \X Slot)]
    /\ lastRef \in 0 .. MaxMetas
    /\ missed \subseteq 1 .. MaxMetas

-----------------------------------------------------------------------------
OfPid(metas, p) == {m \in metas : m.pid = p}
NotOfPid(metas, p) == {m \in metas : m.pid # p}
RefsIn(metas) == {m.ref : m \in metas}
RefsOf(diff) == RefsIn(diff.joins) \cup RefsIn(diff.leaves)
                    \cup ({m.prev : m \in diff.joins} \ {0})

\* broadcast_delta, of a diff for each slot it concerns, to the member of the other node.
Diff(s, joins, leaves) == [slot |-> s, joins |-> joins, leaves |-> leaves]

BroadcastDeltas(n, diffs) ==
    IF n \in members
    THEN /\ deltas' = [deltas EXCEPT ![Other(n)] = @ \o diffs]
         /\ UNCHANGED missed
    ELSE /\ missed' = missed \cup UNION {RefsOf(d) : d \in Range(diffs)}
         /\ UNCHANGED deltas

Track(p, s) ==
    LET n == Home[p]
        meta == [ref |-> lastRef + 1, prev |-> 0, pid |-> p, since |-> lastRef + 1]
    IN /\ n \in serving
       /\ lastRef < MaxMetas
       /\ lastRef' = lastRef + 1
       /\ presences' = [presences EXCEPT ![n][s] = @ \cup {meta}]
       /\ pidToPresence' = [pidToPresence EXCEPT ![n] = @ \cup {<<p, s>>}]
       /\ BroadcastDeltas(n, <<Diff(s, {meta}, {})>>)
       /\ UNCHANGED <<members, serving, losses>>

Untrack(p, s) ==
    LET n == Home[p]
        removed == OfPid(presences[n][s], p)
    IN /\ n \in serving
       /\ presences' = [presences EXCEPT ![n][s] = NotOfPid(@, p)]
       /\ pidToPresence' = [pidToPresence EXCEPT ![n] = @ \ {<<p, s>>}]
       /\ BroadcastDeltas(n, IF removed = {} THEN <<>> ELSE <<Diff(s, {}, removed)>>)
       /\ UNCHANGED <<members, serving, lastRef, losses>>

\* The slots of the pid in an order of the hash maps.
UntrackAll(p) ==
    LET n == Home[p]
        mine == {s \in Slot : <<p, s>> \in pidToPresence[n]}
        removed(s) == OfPid(presences[n][s], p)
        told == {s \in mine : removed(s) # {}}
    IN /\ n \in serving
       /\ mine # {}
       /\ presences' = [presences EXCEPT ![n] = [s \in Slot |->
              IF s \in mine THEN NotOfPid(@[s], p) ELSE @[s]]]
       /\ pidToPresence' = [pidToPresence EXCEPT ![n] = {e \in @ : e[1] # p}]
       /\ \E order \in [1 .. Cardinality(told) -> told] :
             /\ Range(order) = told
             /\ BroadcastDeltas(n, [i \in DOMAIN order |-> Diff(order[i], {}, removed(order[i]))])
       /\ UNCHANGED <<members, serving, lastRef, losses>>

\* Update replaces the first meta of the pid.
Update(p, s) ==
    LET n == Home[p]
    IN \E old \in OfPid(presences[n][s], p) :
          LET meta == [ref |-> lastRef + 1, prev |-> old.ref, pid |-> p, since |-> old.since]
          IN /\ n \in serving
             /\ \A m \in OfPid(presences[n][s], p) : old.since <= m.since
             /\ lastRef < MaxMetas
             /\ lastRef' = lastRef + 1
             /\ presences' = [presences EXCEPT ![n][s] = (@ \ {old}) \cup {meta}]
             /\ BroadcastDeltas(n, <<Diff(s, {meta}, {})>>)
             /\ UNCHANGED <<members, serving, pidToPresence, losses>>

-----------------------------------------------------------------------------
(***************************************************************************)
(* The delta of the other server.  It comes as bare bytes, which the loop  *)
(* of the GenServer tries to read as one of its own messages first: they   *)
(* may pass for a Call, which is dropped, or for an exit signal, which     *)
(* ends the server; else handle_info applies them.                         *)
(***************************************************************************)
\* A join drops the meta it updates.  Variant: it is only added.
WithPrevious(metas, joins) == metas
WithoutPrevious(metas, joins) == {m \in metas : \A j \in joins : m.ref # j.prev}

\* The leaves first; a diff has one join at most.
ApplyDelta(metas, diff) ==
    LET left == {m \in metas : m.ref \notin RefsIn(diff.leaves)}
        kept == WithoutPrevious(left, diff.joins)
    IN kept \cup {j \in diff.joins : j.ref \notin RefsIn(kept)}

TakeDelta(n) ==
    /\ n \in serving
    /\ deltas[n] # <<>>
    /\ deltas' = [deltas EXCEPT ![n] = Tail(@)]
    /\ UNCHANGED <<members, pidToPresence, lastRef, losses>>

HandleDelta(n) ==
    LET diff == Head(deltas[n])
    IN /\ TakeDelta(n)
       /\ presences' = [presences EXCEPT ![n][diff.slot] = ApplyDelta(@, diff)]
       /\ UNCHANGED <<serving, missed>>

MisreadDelta(n, as) ==
    /\ TakeDelta(n)
    /\ missed' = missed \cup RefsOf(Head(deltas[n]))
    /\ serving' = IF as = "exit" THEN serving \ {n} ELSE serving
    /\ UNCHANGED presences

\* pg learns of the other server when it joins or when the nodes connect.
LearnServer(n) ==
    /\ n \notin members
    /\ Other(n) \in serving
    /\ members' = members \cup {n}
    /\ UNCHANGED <<serving, presences, pidToPresence, lastRef, deltas, missed, losses>>

\* The connection ends: pg forgets the other server, and nothing else changes.
LoseConnection ==
    /\ losses < MaxLosses
    /\ losses' = losses + 1
    /\ members' = {}
    /\ deltas' = [n \in Node |-> <<>>]
    /\ missed' = missed \cup UNION {UNION {RefsOf(d) : d \in Range(deltas[n])} : n \in Node}
    /\ UNCHANGED <<serving, presences, pidToPresence, lastRef>>

PresenceNext ==
    \/ \E p \in Pid :
          \/ UntrackAll(p)
          \/ \E s \in Slot : Track(p, s) \/ Untrack(p, s) \/ Update(p, s)
    \/ \E n \in Node :
          \/ HandleDelta(n)
          \/ \E as \in {"call", "exit"} : MisreadDelta(n, as)
          \/ LearnServer(n)
    \/ LoseConnection

-----------------------------------------------------------------------------
(***************************************************************************)
(* The copy at the other node follows: once the deltas are handled, it has *)
(* exactly the presences of the node's processes, but for those whose      *)
(* delta never came, in whatever order tracking, updating and untracking   *)
(* went; and what a process tracks is indexed, so untrack_all finds it.    *)
(***************************************************************************)
RefsOfNode(n, at, s) == {m.ref : m \in {x \in presences[at][s] : Home[x.pid] = n}}

ReplicaFollows ==
    \A n \in Node, s \in Slot :
        /\ Other(n) \in serving /\ deltas[Other(n)] = <<>> =>
              LET own == RefsOfNode(n, n, s)
                  copy == RefsOfNode(n, Other(n), s)
              IN (own \ copy) \cup (copy \ own) \subseteq missed
        /\ \A m \in presences[n][s] : Home[m.pid] = n => <<m.pid, s>> \in pidToPresence[n]
=============================================================================
