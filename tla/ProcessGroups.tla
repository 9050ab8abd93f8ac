--------------------------- MODULE ProcessGroups ----------------------------
(***************************************************************************)
(* Process groups of two nodes: distribution/pg.rs.                        *)
(*                                                                         *)
(* Each node keeps the members of each group, of both nodes, and the       *)
(* groups of each pid.  A call changes the two maps one access after the   *)
(* other and then tells the other node; a new connection exchanges the     *)
(* local members, and the end of one drops the members of the other node.  *)
(* No call awaits: on a current-thread runtime (OneThread) a call is not   *)
(* interrupted by another task of its node.                                *)
(***************************************************************************)
EXTENDS ClusterLink, FiniteSets

CONSTANTS
    Group,
    OneThread   \* whether the runtime of a node has one thread

VARIABLES
    groups,     \* each node: the pairs of group and member
    pidToGroups,\* each node: the same pairs, by pid
    pgCall,     \* the call that each process is in
    isIn,       \* history: the memberships that returned calls promise
    calls       \* how many calls were made

groupVars == <<groups, pidToGroups, pgCall, isIn, calls>>

NoCall == [op |-> "none", group |-> "none", rest |-> {}, step |-> "none"]

GroupsInit ==
    /\ LinkInit
    /\ groups = [n \in Node |-> {}]
    /\ pidToGroups = [n \in Node |-> {}]
    /\ pgCall = [p \in Pid |-> NoCall]
    /\ isIn = {}
    /\ calls = 0

GroupsTypeOK ==
    /\ LinkTypeOK
    /\ groups \in [Node -> SUBSET (Group \X Pid)]
    /\ pidToGroups \in [Node -> SUBSET (Group \X Pid)]
    /\ isIn \subseteq Group \X Pid
    /\ calls \in 0 .. MaxCalls

-----------------------------------------------------------------------------
Of(pairs, p) == {e \in pairs : e[2] = p}
In(pairs, g) == {e \in pairs : e[1] = g}
OfNode(pairs, n) == {e \in pairs : Home[e[2]] = n}
GroupsOf(pairs, p) == {e[1] : e \in Of(pairs, p)}

\* No call is between two accesses when one thread runs something else.
Calm(n) == OneThread => \A p \in Pid : Home[p] = n => pgCall[p].step = "none"

GoesTo(p, step) == pgCall' = [pgCall EXCEPT ![p].step = step]

StartCall(p, op, g, step) ==
    /\ calls < MaxCalls
    /\ Calm(Home[p])
    /\ pgCall[p] = NoCall
    /\ calls' = calls + 1
    /\ pgCall' = [pgCall EXCEPT ![p] = [op |-> op, group |-> g, rest |-> {}, step |-> step]]
    /\ UNCHANGED <<linkVars, groups, pidToGroups>>

Join(p, g) == StartCall(p, "join", g, "insert") /\ UNCHANGED isIn
\* What the caller leaves it may no longer count on.
Leave(p, g) == StartCall(p, "leave", g, "remove") /\ isIn' = isIn \ {<<g, p>>}
LeaveAll(p) == \E g \in Group : StartCall(p, "leave_all", g, "take") /\ isIn' = isIn \ Of(isIn, p)

Insert(p) ==
    LET c == pgCall[p] n == Home[p]
    IN /\ c.step = "insert"
       /\ groups' = [groups EXCEPT ![n] = @ \cup {<<c.group, p>>}]
       /\ GoesTo(p, "index")
       /\ UNCHANGED <<linkVars, pidToGroups, isIn, calls>>

Index(p) ==
    LET c == pgCall[p] n == Home[p]
    IN /\ c.step = "index"
       /\ pidToGroups' = [pidToGroups EXCEPT ![n] = @ \cup {<<c.group, p>>}]
       /\ GoesTo(p, "tell")
       /\ UNCHANGED <<linkVars, groups, isIn, calls>>

\* leave_all takes the groups of the pid first, and does nothing when it has none.
Take(p) ==
    LET c == pgCall[p] n == Home[p] rest == GroupsOf(pidToGroups[n], p)
    IN /\ c.step = "take"
       /\ pidToGroups' = [pidToGroups EXCEPT ![n] = @ \ Of(@, p)]
       /\ IF rest = {} THEN pgCall' = [pgCall EXCEPT ![p] = NoCall]
          ELSE \E g \in rest :
                  pgCall' = [pgCall EXCEPT ![p].rest = rest \ {g}, ![p].group = g,
                                           ![p].step = "remove"]
       /\ UNCHANGED <<linkVars, groups, isIn, calls>>

\* The member is removed; a group that is then empty is dropped in an access of its own.
NextGroup(p) ==
    LET c == pgCall[p]
    IN IF c.op = "leave" THEN GoesTo(p, "unindex")
       ELSE IF c.rest = {} THEN GoesTo(p, "tell")
       ELSE \E g \in c.rest : pgCall' = [pgCall EXCEPT ![p].group = g, ![p].rest = @ \ {g},
                                                       ![p].step = "remove"]

Remove(p) ==
    LET c == pgCall[p] n == Home[p] left == groups[n] \ {<<c.group, p>>}
    IN /\ c.step = "remove"
       /\ groups' = [groups EXCEPT ![n] = left]
       /\ IF In(groups[n], c.group) # {} /\ In(left, c.group) = {} THEN GoesTo(p, "drop")
          ELSE NextGroup(p)
       /\ UNCHANGED <<linkVars, pidToGroups, isIn, calls>>

Drop(p) ==
    LET c == pgCall[p] n == Home[p]
    IN /\ c.step = "drop"
       /\ groups' = [groups EXCEPT ![n] = @ \ In(@, c.group)]
       /\ NextGroup(p)
       /\ UNCHANGED <<linkVars, pidToGroups, isIn, calls>>

Unindex(p) ==
    LET c == pgCall[p] n == Home[p]
    IN /\ c.step = "unindex"
       /\ pidToGroups' = [pidToGroups EXCEPT ![n] = @ \ {<<c.group, p>>}]
       /\ GoesTo(p, "tell")
       /\ UNCHANGED <<linkVars, groups, isIn, calls>>

\* The broadcast, and the return of the call.
Tell(p) ==
    LET c == pgCall[p]
    IN /\ c.step = "tell"
       /\ LinkStays
       /\ Post(Home[p], <<[kind |-> c.op, group |-> c.group, pid |-> p, all |-> {}]>>)
       /\ pgCall' = [pgCall EXCEPT ![p] = NoCall]
       /\ isIn' = IF c.op = "join" THEN isIn \cup {<<c.group, p>>} ELSE isIn
       /\ UNCHANGED <<groups, pidToGroups, calls>>

-----------------------------------------------------------------------------
(***************************************************************************)
(* The connection, and the messages of the other node.                     *)
(***************************************************************************)
NoPid == CHOOSE p \in Pid : TRUE
Sync(kind, pairs) == [kind |-> kind, group |-> "none", pid |-> NoPid, all |-> pairs]

\* remove_node_members goes by pid_to_groups.
WithoutNode(pairs, n, m) == pairs \ {e \in pairs : e \in OfNode(pidToGroups[n], m)}

Forget(n) ==
    /\ groups' = [groups EXCEPT ![n] = WithoutNode(@, n, Other(n))]
    /\ pidToGroups' = [pidToGroups EXCEPT ![n] = WithoutNode(@, n, Other(n))]

\* request_sync: a SyncRequest, and the local members if there are any.
RequestSync(n) ==
    LET local == OfNode(groups[n], n)
    IN <<Sync("request", {})>> \o (IF local = {} THEN <<>> ELSE <<Sync("response", local)>>)

Accept(n) == Calm(n) /\ LinkAccept(n) /\ (IF n \in up THEN Forget(n) ELSE UNCHANGED <<groups, pidToGroups>>)
Attach(n) == Calm(n) /\ LinkInsert(n, RequestSync(n)) /\ UNCHANGED <<groups, pidToGroups>>
Detach(n) == Calm(n) /\ LinkDown(n) /\ Forget(n)

\* A SyncResponse replaces what was known of the sender.  Variant: all that was known.
Replaced(pairs, n, all) == all
Refreshed(pairs, n, all) == WithoutNode(pairs, n, Other(n)) \cup all

Handle(n, h) ==
    LET m == h.msg
        Change(f) == groups' = [groups EXCEPT ![n] = f[1]] /\ pidToGroups' = [pidToGroups EXCEPT ![n] = f[2]]
    IN /\ Calm(n)
       /\ LinkHandle(n, h, IF m.kind = "request" THEN <<Sync("response", OfNode(groups[n], n))>>
                           ELSE <<>>)
       /\ \/ m.kind = "join" /\ Change(<<groups[n] \cup {<<m.group, m.pid>>},
                                         pidToGroups[n] \cup {<<m.group, m.pid>>}>>)
          \/ m.kind = "leave" /\ Change(<<groups[n] \ {<<m.group, m.pid>>},
                                          pidToGroups[n] \ {<<m.group, m.pid>>}>>)
          \/ m.kind = "leave_all"
             /\ Change(<<groups[n] \ Of(pidToGroups[n], m.pid),
                         pidToGroups[n] \ Of(pidToGroups[n], m.pid)>>)
          \/ m.kind = "request" /\ UNCHANGED <<groups, pidToGroups>>
          \/ m.kind = "response" /\ Change(<<Refreshed(groups[n], n, m.all),
                                             Refreshed(pidToGroups[n], n, m.all)>>)

GroupsNext ==
    \/ \E p \in Pid :
          \/ \E g \in Group : Join(p, g) \/ Leave(p, g)
          \/ LeaveAll(p)
          \/ Insert(p)
          \/ Index(p)
          \/ Take(p)
          \/ Remove(p)
          \/ Drop(p)
          \/ Unindex(p)
          \/ Tell(p)
    \/ /\ \E n \in Node : Accept(n) \/ Attach(n) \/ Detach(n) \/ \E h \in inHand[n] : Handle(n, h)
       /\ UNCHANGED <<pgCall, isIn, calls>>
    \/ /\ LinkLost \/ \E n \in Node : Dial(n) \/ LinkRead(n)
       /\ UNCHANGED groupVars

-----------------------------------------------------------------------------
(***************************************************************************)
(* Once the connection has settled, both nodes know the same members: the  *)
(* processes whose join has returned and that have not left since, whatever*)
(* joins and leaves met the exchange of members, the end of the connection *)
(* or its replacement; unless a message met a full queue or was handled    *)
(* after its connection had ended.                                         *)
(***************************************************************************)
MembersAgree ==
    LinkSettled /\ (\A p \in Pid : pgCall[p] = NoCall) =>
        \A n \in Node : groups[n] = isIn /\ pidToGroups[n] = isIn
=============================================================================
