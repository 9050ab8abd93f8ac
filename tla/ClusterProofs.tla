---------------------------- MODULE ClusterProofs ----------------------------
(***************************************************************************)
(* Proofs about what a node keeps of the others, NodeMonitors, GlobalNames *)
(* and ProcessGroups, about PubSub and Presence, and about the rooms of    *)
(* the chat server, ChatRooms.  MCCluster runs them on a small instance.   *)
(***************************************************************************)
EXTENDS ProcessGroups, GlobalNames, NodeMonitors, PubSub, Presence, ChatRooms,
        FiniteSetTheorems, TLAPS

PubSubSpec == PubSubInit /\ [][PubSubNext]_pubsubVars
PresenceSpec == PresenceInit /\ [][PresenceNext]_presenceVars
RoomSpec == RoomInit /\ [][RoomNext]_roomVars
MonSpec == MonInit /\ [][MonNext]_monVars

-----------------------------------------------------------------------------
(***************************************************************************)
(* NodeMonitors.  A reference is in one place at a time: with the call     *)
(* that made it, in the set of its node, with one report, or gone.  The    *)
(* second map lags behind the first by the calls that owe it a step.       *)
(***************************************************************************)
MonSteps == {"none", "insert", "index", "unref", "remove"}
ReportSteps == {"none", "unref", "send", "clean"}

MonTypes ==
    /\ nextRef \in 0 .. MaxRefs
    /\ refOf \in [Ref -> [pid : Proc, node : Peer]]
    /\ localMonitors \in [Peer -> SUBSET Ref]
    /\ monitorRefs \subseteq Ref
    /\ monCall \in [Proc -> [step : MonSteps, ref : 0 .. MaxRefs]]
    /\ notifying \in [Loop -> [step : ReportSteps, node : Peer, rest : SUBSET Ref, ref : 0 .. MaxRefs]]
    /\ nodeDowns \in [Ref -> Nat]
    /\ cancelled \subseteq Ref

CallAt(p, step, r) == monCall[p].step = step /\ monCall[p].ref = r
Inserting(r) == \E p \in Proc : CallAt(p, "insert", r)
Owing(r) == \E p \in Proc : CallAt(p, "index", r) \/ CallAt(p, "remove", r)

Listed(m, r) == r \in localMonitors[m]
Taken(l, r) == r \in notifying[l].rest
Sending(l, r) == notifying[l].step = "send" /\ notifying[l].ref = r

Unlisted(r) == \A m \in Peer : ~Listed(m, r)
Unreported(r) == \A l \in Loop : ~Taken(l, r) /\ ~Sending(l, r)
Fresh(r) == r \notin monitorRefs /\ r \notin cancelled /\ nodeDowns[r] = 0 /\ Unlisted(r) /\ Unreported(r)

\* A process works on references of its own.
CallIsOwn(p) ==
    monCall[p].step # "none" =>
        /\ monCall[p].ref \in Ref /\ monCall[p].ref <= nextRef
        /\ refOf[monCall[p].ref].pid = p

ReportSound(l) ==
    /\ notifying[l].step \in {"none", "clean"} => notifying[l].rest = {}
    /\ notifying[l].step = "send" => notifying[l].ref \in Ref

FreshSound(r) == (r > nextRef \/ Inserting(r)) => Fresh(r)
FiredSound(r) == nodeDowns[r] = 0 \/ (nodeDowns[r] = 1 /\ Unlisted(r) /\ Unreported(r))
ListedSound(r) ==
    \A m \in Peer : Listed(m, r) =>
        m = refOf[r].node /\ r \notin cancelled /\ Unreported(r) /\ (r \in monitorRefs \/ Owing(r))
ReportedSound(r) ==
    \A l \in Loop :
        /\ ~(Taken(l, r) /\ Sending(l, r))
        /\ \A k \in Loop : (Taken(l, r) \/ Sending(l, r)) /\ (Taken(k, r) \/ Sending(k, r)) => k = l
AccountSound(r) ==
    \/ r > nextRef \/ Inserting(r) \/ r \in cancelled \/ nodeDowns[r] = 1
    \/ ~Unlisted(r) \/ ~Unreported(r)

RefSound(r) ==
    FreshSound(r) /\ FiredSound(r) /\ ListedSound(r) /\ ReportedSound(r) /\ AccountSound(r)

MonInv ==
    /\ MonTypes
    /\ \A p \in Proc : CallIsOwn(p)
    /\ \A l \in Loop : ReportSound(l)
    /\ \A r \in Ref : RefSound(r)

USE MonitorsAssumption

LEMMA MonInitInv == MonInit => MonInv
  <1> SUFFICES ASSUME MonInit PROVE MonInv
    OBVIOUS
  <1>1. NoReport.node \in Peer /\ (CHOOSE p \in Proc : TRUE) \in Proc
    BY DEF NoReport
  <1>2. MonTypes
    BY <1>1 DEF MonInit, MonTypes, Free, NoReport, MonSteps, ReportSteps
  <1>3. \A p \in Proc : monCall[p].step = "none"
    BY DEF MonInit, Free
  <1>4. \A l \in Loop : notifying[l].step = "none" /\ notifying[l].rest = {}
    BY DEF MonInit, NoReport
  <1>5. ASSUME NEW r \in Ref PROVE Fresh(r) /\ r > nextRef
    BY <1>4 DEF MonInit, Fresh, Unlisted, Unreported, Listed, Taken, Sending, Ref
  <1>6. \A r \in Ref : RefSound(r)
    BY <1>5 DEF RefSound, FreshSound, FiredSound, ListedSound, ReportedSound, AccountSound, Fresh,
                Unlisted, Unreported
  <1>7. QED
    BY <1>2, <1>3, <1>4, <1>6 DEF MonInv, CallIsOwn, ReportSound

-----------------------------------------------------------------------------
(***************************************************************************)
(* A step moves one reference, or those of one node; the others are where  *)
(* they were.                                                              *)
(***************************************************************************)
SameCalls(r) ==
    /\ Inserting(r)' <=> Inserting(r)
    /\ Owing(r) => Owing(r)'
SamePlaces(r) ==
    /\ \A m \in Peer : Listed(m, r)' <=> Listed(m, r)
    /\ \A l \in Loop : (Taken(l, r)' <=> Taken(l, r)) /\ (Sending(l, r)' <=> Sending(l, r))
SameMarks(r) ==
    /\ r \in monitorRefs' <=> r \in monitorRefs
    /\ r \in cancelled' <=> r \in cancelled
    /\ nodeDowns'[r] = nodeDowns[r]
    /\ refOf'[r].node = refOf[r].node
    /\ r > nextRef' <=> r > nextRef

LEMMA Untouched ==
    ASSUME NEW r \in Ref, RefSound(r), SameCalls(r), SamePlaces(r), SameMarks(r)
    PROVE  RefSound(r)'
  <1>1. (Unlisted(r)' <=> Unlisted(r)) /\ (Unreported(r)' <=> Unreported(r))
    BY DEF SamePlaces, Unlisted, Unreported
  <1>2. Fresh(r)' <=> Fresh(r)
    BY <1>1 DEF SameMarks, Fresh
  <1>3. FreshSound(r)'
    BY <1>2 DEF RefSound, FreshSound, SameCalls, SameMarks
  <1>4. FiredSound(r)'
    BY <1>1 DEF RefSound, FiredSound, SameMarks
  <1>5. ListedSound(r)'
    BY <1>1 DEF RefSound, ListedSound, SameCalls, SamePlaces, SameMarks
  <1>6. ReportedSound(r)'
    BY DEF RefSound, ReportedSound, SamePlaces
  <1>7. AccountSound(r)'
    BY <1>1 DEF RefSound, AccountSound, SameCalls, SameMarks
  <1>8. QED
    BY <1>3, <1>4, <1>5, <1>6, <1>7 DEF RefSound

\* The calls after process p goes on to another step, of another reference or none.
LEMMA CallsAfter ==
    ASSUME MonTypes, NEW p \in Proc, NEW c \in [step : MonSteps, ref : 0 .. MaxRefs],
           monCall' = [monCall EXCEPT ![p] = c]
    PROVE  /\ monCall' \in [Proc -> [step : MonSteps, ref : 0 .. MaxRefs]]
           /\ monCall'[p] = c
           /\ \A q \in Proc : q # p => monCall'[q] = monCall[q]
  BY DEF MonTypes

LEMMA OthersCalls ==
    ASSUME NEW p \in Proc, \A q \in Proc : q # p => monCall'[q] = monCall[q],
           NEW r, monCall'[p].ref # r \/ monCall'[p].step \in {"none", "unref"},
           monCall[p].ref # r \/ monCall[p].step \in {"none", "unref"}
    PROVE  SameCalls(r)
  <1>1. \A q \in Proc, s \in {"insert", "index", "remove"} : CallAt(q, s, r)' <=> CallAt(q, s, r)
    BY DEF CallAt
  <1>2. QED
    BY <1>1 DEF SameCalls, Inserting, Owing

\* Only the process of a reference is in a call about it.
LEMMA OwnerCalls ==
    ASSUME MonInv, NEW p \in Proc, NEW step \in MonSteps \ {"none"}, NEW r, CallAt(p, step, r)
    PROVE  r \in Ref /\ r <= nextRef /\ refOf[r].pid = p
  BY DEF MonInv, CallIsOwn, CallAt

LEMMA CallsStayOwn ==
    ASSUME MonInv, NEW p \in Proc, \A q \in Proc : q # p => monCall'[q] = monCall[q],
           UNCHANGED <<nextRef, refOf>>,
           \/ monCall'[p].step = "none"
           \/ /\ monCall'[p].ref \in Ref /\ monCall'[p].ref <= nextRef
              /\ refOf[monCall'[p].ref].pid = p
    PROVE  \A q \in Proc : CallIsOwn(q)'
  <1>1. ASSUME NEW q \in Proc PROVE CallIsOwn(q)'
    <2>1. CASE q = p
      BY <2>1 DEF CallIsOwn
    <2>2. CASE q # p
      BY <2>2 DEF MonInv, CallIsOwn
    <2>3. QED
      BY <2>1, <2>2
  <1>2. QED
    BY <1>1

LEMMA MonitorNodeInv ==
    ASSUME MonInv, NEW p \in Proc, NEW m \in Peer, MonitorNode(p, m)
    PROVE  MonInv'
  <1> DEFINE new == nextRef + 1
             c == [step |-> "insert", ref |-> new]
  <1>1. /\ nextRef \in Nat /\ new \in Ref /\ new \in 0 .. MaxRefs /\ nextRef' = new
        /\ c \in [step : MonSteps, ref : 0 .. MaxRefs]
    BY DEF MonitorNode, MonInv, MonTypes, Ref, MonSteps
  <1>2. /\ monCall' \in [Proc -> [step : MonSteps, ref : 0 .. MaxRefs]]
        /\ monCall'[p] = c
        /\ \A q \in Proc : q # p => monCall'[q] = monCall[q]
    BY <1>1, CallsAfter DEF MonitorNode, Steps, MonInv
  <1>3. /\ refOf' \in [Ref -> [pid : Proc, node : Peer]]
        /\ refOf'[new].pid = p
        /\ \A r \in Ref : r # new => refOf'[r] = refOf[r]
    BY <1>1 DEF MonitorNode, MonInv, MonTypes
  <1>4. /\ UNCHANGED <<localMonitors, monitorRefs, notifying, nodeDowns, cancelled>>
        /\ monCall[p].step = "none"
    BY DEF MonitorNode, Free
  <1> HIDE DEF c
  <1>5. c.step = "insert" /\ c.ref = new
    BY DEF c
  <1> HIDE DEF new
  <1>6. MonTypes'
    BY <1>1, <1>2, <1>3, <1>4 DEF MonInv, MonTypes
  <1>7. \A r \in Ref : (r > new <=> r > nextRef /\ r # new) /\ (r <= nextRef => r # new /\ r <= new)
        /\ new > nextRef
    BY <1>1 DEF new, Ref
  <1>8. ASSUME NEW q \in Proc PROVE CallIsOwn(q)'
    <2>1. CASE q = p
      BY <1>1, <1>2, <1>3, <1>5, <2>1 DEF CallIsOwn, Ref
    <2>2. CASE q # p
      BY <1>1, <1>2, <1>3, <1>7, <2>2 DEF MonInv, CallIsOwn
    <2>3. QED
      BY <2>1, <2>2
  <1>9. \A l \in Loop : ReportSound(l)'
    BY <1>4 DEF MonInv, ReportSound
  <1>10. ASSUME NEW r \in Ref, r # new PROVE RefSound(r)'
    <2>1. SameCalls(r)
      BY <1>2, <1>4, <1>5, <1>10, OthersCalls
    <2>2. SamePlaces(r) /\ SameMarks(r)
      BY <1>1, <1>3, <1>4, <1>7, <1>10 DEF SamePlaces, SameMarks, Listed, Taken, Sending
    <2>3. QED
      BY <2>1, <2>2, Untouched DEF MonInv
  <1>11. ASSUME NEW r \in Ref, r = new PROVE RefSound(r)'
    <2>1. Fresh(r)
      BY <1>7, <1>11 DEF MonInv, RefSound, FreshSound
    <2>2. Fresh(r)'
      BY <1>4, <2>1 DEF Fresh, Unlisted, Unreported, Listed, Taken, Sending
    <2>3. Inserting(r)'
      BY <1>2, <1>5, <1>11 DEF Inserting, CallAt
    <2>4. QED
      BY <2>2, <2>3 DEF RefSound, FreshSound, FiredSound, ListedSound, ReportedSound,
                        AccountSound, Fresh, Unlisted, Unreported
  <1>12. QED
    BY <1>6, <1>8, <1>9, <1>10, <1>11 DEF MonInv

LEMMA InsertMonitorInv ==
    ASSUME MonInv, NEW p \in Proc, InsertMonitor(p)
    PROVE  MonInv'
  <1>1. PICK r : CallAt(p, "insert", r)
    BY DEF InsertMonitor, CallAt
  <1>2. r \in Ref /\ r <= nextRef /\ refOf[r].pid = p
    BY <1>1, OwnerCalls DEF MonSteps
  <1> DEFINE c == [step |-> "index", ref |-> r]
             m == refOf[r].node
  <1>3. /\ localMonitors' = [localMonitors EXCEPT ![m] = @ \cup {r}]
        /\ monCall' = [monCall EXCEPT ![p] = c]
        /\ UNCHANGED <<nextRef, refOf, monitorRefs, notifying, nodeDowns, cancelled>>
    BY <1>1 DEF InsertMonitor, Steps, CallAt
  <1>4. /\ c \in [step : MonSteps, ref : 0 .. MaxRefs] /\ c.step = "index" /\ c.ref = r
        /\ m \in Peer
    BY <1>2 DEF MonInv, MonTypes, MonSteps, Ref
  <1> HIDE DEF c
  <1>5. /\ monCall' \in [Proc -> [step : MonSteps, ref : 0 .. MaxRefs]]
        /\ monCall'[p] = c
        /\ \A q \in Proc : q # p => monCall'[q] = monCall[q]
    BY <1>3, <1>4, CallsAfter DEF MonInv
  <1>6. /\ localMonitors' \in [Peer -> SUBSET Ref]
        /\ localMonitors'[m] = localMonitors[m] \cup {r}
        /\ \A n \in Peer : n # m => localMonitors'[n] = localMonitors[n]
    BY <1>2, <1>3, <1>4 DEF MonInv, MonTypes
  <1> HIDE DEF m
  <1>7. MonTypes'
    BY <1>3, <1>5, <1>6 DEF MonInv, MonTypes
  <1>8. \A q \in Proc : CallIsOwn(q)'
    BY <1>2, <1>3, <1>4, <1>5, CallsStayOwn
  <1>9. \A l \in Loop : ReportSound(l)'
    BY <1>3 DEF MonInv, ReportSound
  <1>10. ASSUME NEW s \in Ref, s # r PROVE RefSound(s)'
    <2>1. SameCalls(s)
      BY <1>1, <1>4, <1>5, <1>10, OthersCalls DEF CallAt
    <2>2. SamePlaces(s) /\ SameMarks(s)
      BY <1>3, <1>6, <1>10 DEF SamePlaces, SameMarks, Listed, Taken, Sending
    <2>3. QED
      BY <2>1, <2>2, Untouched DEF MonInv
  <1>11. RefSound(r)'
    <2>1. Fresh(r) /\ ~(r > nextRef)
      BY <1>1, <1>2 DEF MonInv, MonTypes, RefSound, FreshSound, Inserting, Ref
    <2>2. ~Inserting(r)'
      <3>1. ASSUME NEW q \in Proc, CallAt(q, "insert", r)' PROVE FALSE
        <4>1. q # p
          BY <1>4, <1>5, <3>1 DEF CallAt
        <4>2. CallAt(q, "insert", r)
          BY <1>5, <3>1, <4>1 DEF CallAt
        <4>3. QED
          BY <1>2, <4>1, <4>2, OwnerCalls DEF MonSteps
      <3>2. QED
        BY <3>1 DEF Inserting
    <2>3. Owing(r)'
      BY <1>4, <1>5 DEF Owing, CallAt
    <2>4. Unreported(r)' /\ ~Unlisted(r)'
      BY <1>3, <1>4, <1>6, <2>1 DEF Fresh, Unreported, Unlisted, Taken, Sending, Listed, m
    <2>5. \A n \in Peer : Listed(n, r)' => n = m
      BY <1>6, <2>1 DEF Fresh, Unlisted, Listed
    <2>6. FreshSound(r)' /\ FiredSound(r)' /\ AccountSound(r)'
      BY <1>3, <2>1, <2>2, <2>4 DEF FreshSound, FiredSound, AccountSound, Fresh
    <2>7. ListedSound(r)'
      BY <1>3, <2>1, <2>3, <2>4, <2>5 DEF ListedSound, Fresh, m
    <2>8. ReportedSound(r)'
      BY <2>4 DEF ReportedSound, Unreported
    <2>9. QED
      BY <2>6, <2>7, <2>8 DEF RefSound
  <1>12. QED
    BY <1>7, <1>8, <1>9, <1>10, <1>11 DEF MonInv

LEMMA IndexMonitorInv ==
    ASSUME MonInv, NEW p \in Proc, IndexMonitor(p)
    PROVE  MonInv'
  <1>1. PICK r : CallAt(p, "index", r)
    BY DEF IndexMonitor, CallAt
  <1>2. r \in Ref /\ r <= nextRef /\ refOf[r].pid = p
    BY <1>1, OwnerCalls DEF MonSteps
  <1>3. /\ monitorRefs' = monitorRefs \cup {r}
        /\ monCall' = [monCall EXCEPT ![p] = Free]
        /\ UNCHANGED <<nextRef, refOf, localMonitors, notifying, nodeDowns, cancelled>>
    BY <1>1 DEF IndexMonitor, CallAt
  <1>4. Free \in [step : MonSteps, ref : 0 .. MaxRefs] /\ Free.step = "none"
    BY DEF Free, MonSteps
  <1>5. /\ monCall' \in [Proc -> [step : MonSteps, ref : 0 .. MaxRefs]]
        /\ monCall'[p] = Free
        /\ \A q \in Proc : q # p => monCall'[q] = monCall[q]
    BY <1>3, <1>4, CallsAfter DEF MonInv
  <1>6. MonTypes'
    BY <1>2, <1>3, <1>5 DEF MonInv, MonTypes
  <1>7. \A q \in Proc : CallIsOwn(q)'
    BY <1>3, <1>4, <1>5, CallsStayOwn
  <1>8. \A l \in Loop : ReportSound(l)'
    BY <1>3 DEF MonInv, ReportSound
  <1>9. ASSUME NEW s \in Ref, s # r PROVE RefSound(s)'
    <2>1. SameCalls(s)
      BY <1>1, <1>4, <1>5, <1>9, OthersCalls DEF CallAt
    <2>2. SamePlaces(s) /\ SameMarks(s)
      BY <1>3, <1>9 DEF SamePlaces, SameMarks, Listed, Taken, Sending
    <2>3. QED
      BY <2>1, <2>2, Untouched DEF MonInv
  <1>10. RefSound(r)'
    <2>1. ~(r > nextRef) /\ RefSound(r)
      BY <1>2 DEF MonInv, MonTypes, Ref
    <2>2. ~Inserting(r) /\ ~Inserting(r)'
      <3>1. ASSUME NEW q \in Proc, CallAt(q, "insert", r) PROVE FALSE
        <4>1. q = p
          BY <1>2, <3>1, OwnerCalls DEF MonSteps
        <4>2. QED
          BY <1>1, <3>1, <4>1 DEF CallAt
      <3>2. ASSUME NEW q \in Proc, CallAt(q, "insert", r)' PROVE CallAt(q, "insert", r)
        BY <1>4, <1>5, <3>2, q = p \/ q # p DEF CallAt
      <3>3. QED
        BY <3>1, <3>2 DEF Inserting
    <2>3. SamePlaces(r)
      BY <1>3 DEF SamePlaces, Listed, Taken, Sending
    <2>4. (Unlisted(r)' <=> Unlisted(r)) /\ (Unreported(r)' <=> Unreported(r))
      BY <2>3 DEF SamePlaces, Unlisted, Unreported
    <2>5. FreshSound(r)' /\ FiredSound(r)' /\ AccountSound(r)'
      BY <1>3, <2>1, <2>2, <2>4 DEF RefSound, FreshSound, FiredSound, AccountSound
    <2>6. ListedSound(r)'
      BY <1>3, <2>1, <2>3, <2>4 DEF RefSound, ListedSound, SamePlaces
    <2>7. ReportedSound(r)'
      BY <2>1, <2>3 DEF RefSound, ReportedSound, SamePlaces
    <2>8. QED
      BY <2>5, <2>6, <2>7 DEF RefSound
  <1>11. QED
    BY <1>6, <1>7, <1>8, <1>9, <1>10 DEF MonInv

\* demonitor_node begins: nothing is changed yet, and nobody waits for the call of p.
LEMMA DemonitorNodeInv ==
    ASSUME MonInv, NEW p \in Proc, NEW r \in Ref, DemonitorNode(p, r)
    PROVE  MonInv'
  <1> DEFINE c == [step |-> "unref", ref |-> r]
  <1>1. c \in [step : MonSteps, ref : 0 .. MaxRefs] /\ c.step = "unref" /\ c.ref = r
    BY DEF MonSteps, Ref
  <1>2. /\ monCall' = [monCall EXCEPT ![p] = c]
        /\ monCall[p].step = "none" /\ r <= nextRef /\ refOf[r].pid = p
        /\ UNCHANGED <<nextRef, refOf, localMonitors, monitorRefs, notifying, nodeDowns, cancelled>>
    BY DEF DemonitorNode, Steps, Free, MonInv, MonTypes, Ref
  <1> HIDE DEF c
  <1>3. /\ monCall' \in [Proc -> [step : MonSteps, ref : 0 .. MaxRefs]]
        /\ monCall'[p] = c
        /\ \A q \in Proc : q # p => monCall'[q] = monCall[q]
    BY <1>1, <1>2, CallsAfter DEF MonInv
  <1>4. MonTypes'
    BY <1>2, <1>3 DEF MonInv, MonTypes
  <1>5. \A q \in Proc : CallIsOwn(q)'
    BY <1>1, <1>2, <1>3, CallsStayOwn
  <1>6. \A l \in Loop : ReportSound(l)'
    BY <1>2 DEF MonInv, ReportSound
  <1>7. ASSUME NEW s \in Ref PROVE RefSound(s)'
    <2>1. SameCalls(s)
      BY <1>1, <1>2, <1>3, OthersCalls
    <2>2. SamePlaces(s) /\ SameMarks(s)
      BY <1>2 DEF SamePlaces, SameMarks, Listed, Taken, Sending
    <2>3. QED
      BY <2>1, <2>2, Untouched DEF MonInv
  <1>8. QED
    BY <1>4, <1>5, <1>6, <1>7 DEF MonInv

\* A reference its process demonitors has been inserted.
LEMMA NotInserting ==
    ASSUME MonInv, NEW p \in Proc, NEW step \in MonSteps \ {"none", "insert"}, NEW r, CallAt(p, step, r),
           \A q \in Proc : q # p => monCall'[q] = monCall[q], monCall'[p].step # "insert"
    PROVE  ~Inserting(r) /\ ~Inserting(r)'
  <1>1. ASSUME NEW q \in Proc, CallAt(q, "insert", r) PROVE FALSE
    <2>1. q = p
      BY <1>1, OwnerCalls DEF MonSteps
    <2>2. QED
      BY <1>1, <2>1 DEF CallAt
  <1>2. ASSUME NEW q \in Proc, CallAt(q, "insert", r)' PROVE CallAt(q, "insert", r)
    BY <1>2, q = p \/ q # p DEF CallAt
  <1>3. QED
    BY <1>1, <1>2 DEF Inserting

LEMMA UnrefMonitorInv ==
    ASSUME MonInv, NEW p \in Proc, UnrefMonitor(p)
    PROVE  MonInv'
  <1>1. PICK r : CallAt(p, "unref", r)
    BY DEF UnrefMonitor, CallAt
  <1>2. r \in Ref /\ r <= nextRef /\ refOf[r].pid = p
    BY <1>1, OwnerCalls DEF MonSteps
  <1> DEFINE c == IF r \in monitorRefs THEN [step |-> "remove", ref |-> r]
                  ELSE [step |-> "none", ref |-> 0]
  <1>3. /\ monitorRefs' = monitorRefs \ {r}
        /\ monCall' = [monCall EXCEPT ![p] = c]
        /\ cancelled' = IF r \in monitorRefs THEN cancelled ELSE cancelled \cup {r}
        /\ UNCHANGED <<nextRef, refOf, localMonitors, notifying, nodeDowns>>
    BY <1>1 DEF UnrefMonitor, Steps, CallAt
  <1>4. /\ c \in [step : MonSteps, ref : 0 .. MaxRefs]
        /\ c.step = IF r \in monitorRefs THEN "remove" ELSE "none"
        /\ r \in monitorRefs => c.ref = r
    BY <1>2 DEF MonSteps, Ref
  <1> HIDE DEF c
  <1>5. /\ monCall' \in [Proc -> [step : MonSteps, ref : 0 .. MaxRefs]]
        /\ monCall'[p] = c
        /\ \A q \in Proc : q # p => monCall'[q] = monCall[q]
    BY <1>3, <1>4, CallsAfter DEF MonInv
  <1>6. MonTypes'
    BY <1>2, <1>3, <1>5 DEF MonInv, MonTypes
  <1>7. \A q \in Proc : CallIsOwn(q)'
    BY <1>2, <1>3, <1>4, <1>5, CallsStayOwn
  <1>8. \A l \in Loop : ReportSound(l)'
    BY <1>3 DEF MonInv, ReportSound
  <1>9. ASSUME NEW s \in Ref, s # r PROVE RefSound(s)'
    <2>1. SameCalls(s)
      BY <1>1, <1>4, <1>5, <1>9, OthersCalls DEF CallAt
    <2>2. SamePlaces(s) /\ SameMarks(s)
      BY <1>3, <1>9 DEF SamePlaces, SameMarks, Listed, Taken, Sending
    <2>3. QED
      BY <2>1, <2>2, Untouched DEF MonInv
  <1>10. RefSound(r)'
    <2>1. ~(r > nextRef) /\ RefSound(r)
      BY <1>2 DEF MonInv, MonTypes, Ref
    <2>2. ~Inserting(r) /\ ~Inserting(r)'
      BY <1>1, <1>4, <1>5, NotInserting DEF MonSteps
    <2>3. SamePlaces(r)
      BY <1>3 DEF SamePlaces, Listed, Taken, Sending
    <2>4. (Unlisted(r)' <=> Unlisted(r)) /\ (Unreported(r)' <=> Unreported(r))
      BY <2>3 DEF SamePlaces, Unlisted, Unreported
    <2>5. FreshSound(r)' /\ FiredSound(r)' /\ AccountSound(r)'
      BY <1>3, <2>1, <2>2, <2>4 DEF RefSound, FreshSound, FiredSound, AccountSound
    <2>6. ListedSound(r)'
      <3>1. CASE r \in monitorRefs
        <4>1. Owing(r)'
          BY <1>4, <1>5, <3>1 DEF Owing, CallAt
        <4>2. QED
          BY <1>3, <2>1, <2>3, <2>4, <3>1, <4>1 DEF RefSound, ListedSound, SamePlaces
      <3>2. CASE r \notin monitorRefs
        <4>1. ASSUME NEW q \in Proc, CallAt(q, "index", r) \/ CallAt(q, "remove", r) PROVE FALSE
          <5>1. q = p
            BY <1>2, <4>1, OwnerCalls DEF MonSteps
          <5>2. QED
            BY <1>1, <4>1, <5>1 DEF CallAt
        <4>2. ~Owing(r)
          BY <4>1 DEF Owing
        <4>3. QED
          BY <2>1, <2>3, <3>2, <4>2 DEF RefSound, ListedSound, SamePlaces
      <3>3. QED
        BY <3>1, <3>2
    <2>7. ReportedSound(r)'
      BY <2>1, <2>3 DEF RefSound, ReportedSound, SamePlaces
    <2>8. QED
      BY <2>5, <2>6, <2>7 DEF RefSound
  <1>11. QED
    BY <1>6, <1>7, <1>8, <1>9, <1>10 DEF MonInv

LEMMA RemoveMonitorInv ==
    ASSUME MonInv, NEW p \in Proc, RemoveMonitor(p)
    PROVE  MonInv'
  <1>1. PICK r : CallAt(p, "remove", r)
    BY DEF RemoveMonitor, CallAt
  <1>2. r \in Ref /\ r <= nextRef /\ refOf[r].pid = p
    BY <1>1, OwnerCalls DEF MonSteps
  <1>3. /\ localMonitors' = [localMonitors EXCEPT ![refOf[r].node] = @ \ {r}]
        /\ monCall' = [monCall EXCEPT ![p] = [step |-> "none", ref |-> 0]]
        /\ cancelled' = cancelled \cup {r}
        /\ UNCHANGED <<nextRef, refOf, monitorRefs, notifying, nodeDowns>>
    BY <1>1 DEF RemoveMonitor, Steps, CallAt
  <1>4. [step |-> "none", ref |-> 0] \in [step : MonSteps, ref : 0 .. MaxRefs] /\ refOf[r].node \in Peer
    BY <1>2 DEF MonSteps, MonInv, MonTypes
  <1>5. /\ monCall' \in [Proc -> [step : MonSteps, ref : 0 .. MaxRefs]]
        /\ monCall'[p].step = "none"
        /\ \A q \in Proc : q # p => monCall'[q] = monCall[q]
    BY <1>3, <1>4, CallsAfter DEF MonInv
  <1>6. /\ localMonitors' \in [Peer -> SUBSET Ref]
        /\ localMonitors'[refOf[r].node] = localMonitors[refOf[r].node] \ {r}
        /\ \A n \in Peer : n # refOf[r].node => localMonitors'[n] = localMonitors[n]
    BY <1>2, <1>3, <1>4 DEF MonInv, MonTypes
  <1>7. MonTypes'
    BY <1>2, <1>3, <1>5, <1>6 DEF MonInv, MonTypes
  <1>8. \A q \in Proc : CallIsOwn(q)'
    BY <1>3, <1>5, CallsStayOwn
  <1>9. \A l \in Loop : ReportSound(l)'
    BY <1>3 DEF MonInv, ReportSound
  <1>10. ASSUME NEW s \in Ref, s # r PROVE RefSound(s)'
    <2>1. SameCalls(s)
      BY <1>1, <1>5, <1>10, OthersCalls DEF CallAt
    <2>2. \A n \in Peer : Listed(n, s)' <=> Listed(n, s)
      BY <1>6, <1>10 DEF Listed
    <2>3. SamePlaces(s) /\ SameMarks(s)
      BY <1>3, <1>10, <2>2 DEF SamePlaces, SameMarks, Taken, Sending
    <2>4. QED
      BY <2>1, <2>3, Untouched DEF MonInv
  <1>11. RefSound(r)'
    <2>1. ~(r > nextRef) /\ RefSound(r)
      BY <1>2 DEF MonInv, MonTypes, Ref
    <2>2. ~Inserting(r)'
      BY <1>1, <1>5, NotInserting DEF MonSteps
    <2>3. Unlisted(r)'
      BY <1>6, <2>1 DEF RefSound, ListedSound, Unlisted, Listed
    <2>4. \A l \in Loop : (Taken(l, r)' <=> Taken(l, r)) /\ (Sending(l, r)' <=> Sending(l, r))
      BY <1>3 DEF Taken, Sending
    <2>5. Unreported(r)' <=> Unreported(r)
      BY <2>4 DEF Unreported
    <2>6. FreshSound(r)' /\ FiredSound(r)' /\ AccountSound(r)'
      BY <1>3, <2>1, <2>2, <2>3, <2>5 DEF RefSound, FreshSound, FiredSound, AccountSound
    <2>7. ListedSound(r)' /\ ReportedSound(r)'
      BY <2>1, <2>3, <2>4 DEF RefSound, ListedSound, ReportedSound, Unlisted
    <2>8. QED
      BY <2>6, <2>7 DEF RefSound
  <1>12. QED
    BY <1>7, <1>8, <1>9, <1>10, <1>11 DEF MonInv

-----------------------------------------------------------------------------
(***************************************************************************)
(* The reports: the calls are where they were.                             *)
(***************************************************************************)
Reports == [step : ReportSteps, node : Peer, rest : SUBSET Ref, ref : 0 .. MaxRefs]

LEMMA CallsUntouched ==
    ASSUME MonInv, UNCHANGED <<monCall, nextRef, refOf>>
    PROVE  (\A p \in Proc : CallIsOwn(p)') /\ (\A r : SameCalls(r))
  BY DEF MonInv, CallIsOwn, SameCalls, Inserting, Owing, CallAt

LEMMA ReportsStaySound ==
    ASSUME MonInv, NEW l \in Loop, \A k \in Loop : k # l => notifying'[k] = notifying[k],
           notifying'[l].step \in {"none", "clean"} => notifying'[l].rest = {},
           notifying'[l].step = "send" => notifying'[l].ref \in Ref
    PROVE  \A k \in Loop : ReportSound(k)'
  <1>1. ASSUME NEW k \in Loop PROVE ReportSound(k)'
    BY k = l \/ k # l DEF MonInv, ReportSound
  <1>2. QED
    BY <1>1

LEMMA ReportsAfter ==
    ASSUME MonInv, NEW l \in Loop, NEW n \in Reports, notifying' = [notifying EXCEPT ![l] = n],
           n.step \in {"none", "clean"} => n.rest = {},
           n.step = "send" => n.ref \in Ref
    PROVE  /\ notifying' \in [Loop -> Reports]
           /\ notifying'[l] = n
           /\ \A k \in Loop : k # l => notifying'[k] = notifying[k]
           /\ \A k \in Loop : ReportSound(k)'
  <1>1. /\ notifying' \in [Loop -> Reports]
        /\ notifying'[l] = n
        /\ \A k \in Loop : k # l => notifying'[k] = notifying[k]
    BY DEF MonInv, MonTypes, Reports
  <1>2. QED
    BY <1>1, ReportsStaySound

LEMMA NotifyNodeDownInv ==
    ASSUME MonInv, NEW l \in Loop, NEW m \in Peer, NotifyNodeDown(l, m)
    PROVE  MonInv'
  <1> DEFINE n == [step |-> "unref", node |-> m, rest |-> localMonitors[m], ref |-> 0]
  <1>1. n \in Reports /\ n.step = "unref" /\ n.rest = localMonitors[m]
    BY DEF MonInv, MonTypes, Reports, ReportSteps
  <1>2. /\ notifying[l].step = "none" /\ notifying[l].rest = {}
        /\ localMonitors' = [localMonitors EXCEPT ![m] = {}]
        /\ notifying' = [notifying EXCEPT ![l] = n]
        /\ UNCHANGED <<nextRef, refOf, monitorRefs, monCall, nodeDowns, cancelled>>
    BY DEF NotifyNodeDown, NoReport, TakenOut
  <1> HIDE DEF n
  <1>3. /\ notifying' \in [Loop -> Reports]
        /\ notifying'[l] = n
        /\ \A k \in Loop : k # l => notifying'[k] = notifying[k]
        /\ \A k \in Loop : ReportSound(k)'
    BY <1>1, <1>2, ReportsAfter
  <1>4. /\ localMonitors' \in [Peer -> SUBSET Ref]
        /\ localMonitors'[m] = {}
        /\ \A k \in Peer : k # m => localMonitors'[k] = localMonitors[k]
    BY <1>2 DEF MonInv, MonTypes
  <1>5. MonTypes'
    BY <1>2, <1>3, <1>4 DEF MonInv, MonTypes, Reports
  <1>6. (\A p \in Proc : CallIsOwn(p)') /\ (\A r : SameCalls(r))
    BY <1>2, CallsUntouched
  <1>7. ASSUME NEW r \in Ref, ~Listed(m, r) PROVE RefSound(r)'
    <2>1. \A k \in Peer : Listed(k, r)' <=> Listed(k, r)
      BY <1>4, <1>7 DEF Listed
    <2>2. \A k \in Loop : (Taken(k, r)' <=> Taken(k, r)) /\ (Sending(k, r)' <=> Sending(k, r))
      BY <1>1, <1>2, <1>3, <1>7 DEF Taken, Sending, Listed
    <2>3. SamePlaces(r) /\ SameMarks(r)
      BY <1>2, <2>1, <2>2 DEF SamePlaces, SameMarks
    <2>4. QED
      BY <1>6, <2>3, Untouched DEF MonInv
  <1>8. ASSUME NEW r \in Ref, Listed(m, r) PROVE RefSound(r)'
    <2>1. RefSound(r) /\ ~Unlisted(r) /\ Unreported(r)
      BY <1>8 DEF MonInv, RefSound, ListedSound, Unlisted
    <2>2. ~(r > nextRef) /\ ~Inserting(r) /\ nodeDowns[r] = 0
      BY <2>1 DEF RefSound, FreshSound, FiredSound, Fresh
    <2>3. ~(r > nextRef)' /\ ~Inserting(r)' /\ nodeDowns'[r] = 0
      BY <1>2, <1>6, <2>2 DEF SameCalls
    <2>4. \A k \in Peer : ~Listed(k, r)'
      BY <1>4, <1>8, <2>1 DEF RefSound, ListedSound, Listed
    <2>5. Taken(l, r)' /\ ~Sending(l, r)'
      BY <1>1, <1>3, <1>8 DEF Taken, Sending, Listed
    <2>6. \A k \in Loop : k # l => ~Taken(k, r)' /\ ~Sending(k, r)'
      BY <1>3, <2>1 DEF Unreported, Taken, Sending
    <2>7. FreshSound(r)' /\ FiredSound(r)'
      BY <2>3 DEF FreshSound, FiredSound
    <2>8. ListedSound(r)'
      BY <2>4 DEF ListedSound
    <2>9. ReportedSound(r)'
      BY <2>5, <2>6 DEF ReportedSound
    <2>10. AccountSound(r)'
      BY <2>5 DEF AccountSound, Unreported
    <2>11. QED
      BY <2>7, <2>8, <2>9, <2>10 DEF RefSound
  <1>9. QED
    BY <1>3, <1>5, <1>6, <1>7, <1>8 DEF MonInv

LEMMA NotifyNextInv ==
    ASSUME MonInv, NEW l \in Loop, NotifyNext(l)
    PROVE  MonInv'
  <1>1. /\ notifying[l].step = "unref" /\ notifying \in [Loop -> Reports]
        /\ UNCHANGED <<nextRef, refOf, localMonitors, monCall, nodeDowns, cancelled>>
    BY DEF NotifyNext, MonInv, MonTypes, Reports
  <1>2. (\A p \in Proc : CallIsOwn(p)') /\ (\A r : SameCalls(r))
    BY <1>1, CallsUntouched
  <1>3. ASSUME NEW s \in notifying[l].rest,
               monitorRefs' = monitorRefs \ {s},
               notifying' = [notifying EXCEPT ![l].step = "send", ![l].ref = s, ![l].rest = @ \ {s}]
        PROVE  MonInv'
    <2>1. s \in Ref /\ Taken(l, s)
      BY <1>1 DEF Reports, Taken
    <2>2. /\ notifying' \in [Loop -> Reports]
          /\ notifying'[l].step = "send" /\ notifying'[l].ref = s
          /\ notifying'[l].rest = notifying[l].rest \ {s}
          /\ \A k \in Loop : k # l => notifying'[k] = notifying[k]
      <3>1. notifying' \in [Loop -> Reports]
        BY <1>1, <1>3, <2>1 DEF Reports, ReportSteps, Ref
      <3>2. notifying'[l].step = "send" /\ notifying'[l].ref = s
        BY <1>1, <1>3 DEF Reports
      <3>3. notifying'[l].rest = notifying[l].rest \ {s}
        BY <1>1, <1>3 DEF Reports
      <3>4. \A k \in Loop : k # l => notifying'[k] = notifying[k]
        BY <1>1, <1>3 DEF Reports
      <3>5. QED
        BY <3>1, <3>2, <3>3, <3>4
    <2>4. \A k \in Loop : ReportSound(k)'
      BY <2>1, <2>2, ReportsStaySound
    <2>5. MonTypes'
      BY <1>1, <1>3, <2>2 DEF MonInv, MonTypes, Reports
    <2>6. ASSUME NEW r \in Ref, r # s PROVE RefSound(r)'
      <3>1. \A k \in Loop : (Taken(k, r)' <=> Taken(k, r)) /\ (Sending(k, r)' <=> Sending(k, r))
        BY <1>1, <2>2, <2>6 DEF Taken, Sending
      <3>2. SamePlaces(r) /\ SameMarks(r)
        BY <1>1, <1>3, <2>6, <3>1 DEF SamePlaces, SameMarks, Listed
      <3>3. QED
        BY <1>2, <3>2, Untouched DEF MonInv
    <2>7. RefSound(s)'
      <3>1. RefSound(s) /\ ~Unreported(s)
        BY <2>1 DEF MonInv, Unreported
      <3>2. ~(s > nextRef) /\ ~Inserting(s) /\ nodeDowns[s] = 0 /\ Unlisted(s)
        BY <3>1 DEF RefSound, FreshSound, FiredSound, ListedSound, Fresh, Unlisted
      <3>3. ~(s > nextRef)' /\ ~Inserting(s)' /\ nodeDowns'[s] = 0 /\ Unlisted(s)'
        BY <1>1, <1>2, <3>2 DEF SameCalls, Unlisted, Listed
      <3>4. Sending(l, s)' /\ ~Taken(l, s)'
        BY <2>2 DEF Sending, Taken
      <3>5. \A k \in Loop : k # l => ~Taken(k, s)' /\ ~Sending(k, s)'
        BY <2>1, <2>2, <3>1 DEF RefSound, ReportedSound, Taken, Sending
      <3>6. FreshSound(s)' /\ FiredSound(s)'
        BY <3>3 DEF FreshSound, FiredSound
      <3>7. ListedSound(s)'
        BY <3>3 DEF ListedSound, Unlisted
      <3>8. ReportedSound(s)'
        BY <3>4, <3>5 DEF ReportedSound
      <3>9. AccountSound(s)'
        BY <3>4 DEF AccountSound, Unreported
      <3>10. QED
        BY <3>6, <3>7, <3>8, <3>9 DEF RefSound
    <2>8. QED
      BY <1>2, <2>4, <2>5, <2>6, <2>7 DEF MonInv
  <1>4. ASSUME notifying[l].rest = {}, UNCHANGED monitorRefs,
               notifying' = [notifying EXCEPT ![l].step = "clean", ![l].ref = 0]
        PROVE  MonInv'
    <2>1. /\ notifying' \in [Loop -> Reports]
          /\ notifying'[l].step = "clean" /\ notifying'[l].rest = {}
          /\ \A k \in Loop : k # l => notifying'[k] = notifying[k]
      <3>1. notifying' \in [Loop -> Reports]
        <4>1. 0 \in 0 .. MaxRefs /\ "clean" \in ReportSteps
          BY DEF ReportSteps
        <4>2. QED
          BY <1>1, <1>4, <4>1 DEF Reports
      <3>2. notifying'[l].step = "clean" /\ notifying'[l].rest = {}
        BY <1>1, <1>4 DEF Reports
      <3>3. \A k \in Loop : k # l => notifying'[k] = notifying[k]
        BY <1>1, <1>4 DEF Reports
      <3>4. QED
        BY <3>1, <3>2, <3>3
    <2>3. \A k \in Loop : ReportSound(k)'
      BY <2>1, ReportsStaySound
    <2>4. MonTypes'
      BY <1>1, <1>4, <2>1 DEF MonInv, MonTypes, Reports
    <2>5. ASSUME NEW r \in Ref PROVE RefSound(r)'
      <3>1. \A k \in Loop : (Taken(k, r)' <=> Taken(k, r)) /\ (Sending(k, r)' <=> Sending(k, r))
        BY <1>1, <1>4, <2>1 DEF Taken, Sending
      <3>2. SamePlaces(r) /\ SameMarks(r)
        BY <1>1, <1>4, <3>1 DEF SamePlaces, SameMarks, Listed
      <3>3. QED
        BY <1>2, <3>2, Untouched DEF MonInv
    <2>6. QED
      BY <1>2, <2>3, <2>4, <2>5 DEF MonInv
  <1>5. QED
    BY <1>3, <1>4 DEF NotifyNext

LEMMA SendNodeDownInv ==
    ASSUME MonInv, NEW l \in Loop, SendNodeDown(l)
    PROVE  MonInv'
  <1>1. PICK s : s = notifying[l].ref
    OBVIOUS
  <1> DEFINE n == [notifying[l] EXCEPT !.step = "unref"]
  <1>2. /\ notifying[l].step = "send" /\ notifying[l] \in Reports
        /\ nodeDowns' = [nodeDowns EXCEPT ![s] = @ + 1]
        /\ notifying' = [notifying EXCEPT ![l] = n]
        /\ UNCHANGED <<nextRef, refOf, localMonitors, monitorRefs, monCall, cancelled>>
    BY <1>1 DEF SendNodeDown, MonInv, MonTypes, Reports
  <1>3. s \in Ref /\ Sending(l, s) /\ \A r : Sending(l, r) => r = s
    BY <1>1, <1>2 DEF MonInv, ReportSound, Sending
  <1>4. n \in Reports /\ n.step = "unref" /\ n.rest = notifying[l].rest
    BY <1>2 DEF Reports, ReportSteps
  <1> HIDE DEF n
  <1>5. /\ notifying' \in [Loop -> Reports]
        /\ notifying'[l] = n
        /\ \A k \in Loop : k # l => notifying'[k] = notifying[k]
        /\ \A k \in Loop : ReportSound(k)'
    BY <1>2, <1>4, ReportsAfter
  <1>6. /\ nodeDowns' \in [Ref -> Nat]
        /\ nodeDowns'[s] = nodeDowns[s] + 1
        /\ \A r \in Ref : r # s => nodeDowns'[r] = nodeDowns[r]
    BY <1>2, <1>3 DEF MonInv, MonTypes
  <1>7. MonTypes'
    BY <1>2, <1>5, <1>6 DEF MonInv, MonTypes, Reports
  <1>8. (\A p \in Proc : CallIsOwn(p)') /\ (\A r : SameCalls(r))
    BY <1>2, CallsUntouched
  <1>9. ASSUME NEW r \in Ref, r # s PROVE RefSound(r)'
    <2>1. \A k \in Loop : (Taken(k, r)' <=> Taken(k, r)) /\ (Sending(k, r)' <=> Sending(k, r))
      BY <1>3, <1>4, <1>5, <1>9 DEF Taken, Sending
    <2>2. SamePlaces(r) /\ SameMarks(r)
      BY <1>2, <1>6, <1>9, <2>1 DEF SamePlaces, SameMarks, Listed
    <2>3. QED
      BY <1>8, <2>2, Untouched DEF MonInv
  <1>10. RefSound(s)'
    <2>1. RefSound(s) /\ ~Unreported(s)
      BY <1>3 DEF MonInv, Unreported
    <2>2. ~(s > nextRef) /\ ~Inserting(s) /\ nodeDowns[s] = 0 /\ Unlisted(s)
      BY <2>1 DEF RefSound, FreshSound, FiredSound, ListedSound, Fresh, Unlisted
    <2>3. ~(s > nextRef)' /\ ~Inserting(s)' /\ nodeDowns'[s] = 1 /\ Unlisted(s)'
      BY <1>2, <1>6, <1>8, <2>2 DEF SameCalls, Unlisted, Listed
    <2>4. ASSUME NEW k \in Loop PROVE ~Taken(k, s)' /\ ~Sending(k, s)'
      <3>1. CASE k = l
        BY <1>3, <1>4, <1>5, <2>1, <3>1 DEF RefSound, ReportedSound, Taken, Sending
      <3>2. CASE k # l
        BY <1>3, <1>5, <2>1, <3>2 DEF RefSound, ReportedSound, Taken, Sending
      <3>3. QED
        BY <3>1, <3>2
    <2>5. FreshSound(s)' /\ FiredSound(s)' /\ AccountSound(s)'
      BY <2>3, <2>4 DEF FreshSound, FiredSound, AccountSound, Unreported
    <2>6. ListedSound(s)' /\ ReportedSound(s)'
      BY <2>3, <2>4 DEF ListedSound, ReportedSound, Unlisted
    <2>7. QED
      BY <2>5, <2>6 DEF RefSound
  <1>11. QED
    BY <1>5, <1>7, <1>8, <1>9, <1>10 DEF MonInv

LEMMA CleanRemoteInv ==
    ASSUME MonInv, NEW l \in Loop, CleanRemote(l)
    PROVE  MonInv'
  <1>1. /\ notifying[l].step = "clean" /\ notifying[l].rest = {} /\ notifying[l].node \in Peer
        /\ notifying' = [notifying EXCEPT ![l] = NoReport]
        /\ UNCHANGED <<nextRef, refOf, localMonitors, monitorRefs, monCall, nodeDowns, cancelled>>
    BY DEF CleanRemote, MonInv, MonTypes, ReportSound
  <1>2. NoReport \in Reports /\ NoReport.step = "none" /\ NoReport.rest = {}
    <2>1. (CHOOSE m \in Peer : TRUE) \in Peer
      BY <1>1
    <2>2. QED
      BY <2>1 DEF NoReport, Reports, ReportSteps
  <1>3. /\ notifying' \in [Loop -> Reports]
        /\ notifying'[l] = NoReport
        /\ \A k \in Loop : k # l => notifying'[k] = notifying[k]
        /\ \A k \in Loop : ReportSound(k)'
    BY <1>1, <1>2, ReportsAfter
  <1>4. MonTypes'
    BY <1>1, <1>3 DEF MonInv, MonTypes, Reports
  <1>5. (\A p \in Proc : CallIsOwn(p)') /\ (\A r : SameCalls(r))
    BY <1>1, CallsUntouched
  <1>6. ASSUME NEW r \in Ref PROVE RefSound(r)'
    <2>1. \A k \in Loop : (Taken(k, r)' <=> Taken(k, r)) /\ (Sending(k, r)' <=> Sending(k, r))
      BY <1>1, <1>2, <1>3 DEF Taken, Sending
    <2>2. SamePlaces(r) /\ SameMarks(r)
      BY <1>1, <2>1 DEF SamePlaces, SameMarks, Listed
    <2>3. QED
      BY <1>5, <2>2, Untouched DEF MonInv
  <1>7. QED
    BY <1>3, <1>4, <1>5, <1>6 DEF MonInv

LEMMA RestUntouched ==
    ASSUME MonInv,
           UNCHANGED <<nextRef, refOf, localMonitors, monitorRefs, monCall, notifying, nodeDowns,
                       cancelled>>
    PROVE  MonInv'
  <1>1. MonTypes'
    BY DEF MonInv, MonTypes
  <1>2. (\A p \in Proc : CallIsOwn(p)') /\ (\A r : SameCalls(r))
    BY CallsUntouched
  <1>3. \A l \in Loop : ReportSound(l)'
    BY DEF MonInv, ReportSound
  <1>4. ASSUME NEW r \in Ref PROVE RefSound(r)'
    <2>1. SamePlaces(r) /\ SameMarks(r)
      BY DEF SamePlaces, SameMarks, Listed, Taken, Sending
    <2>2. QED
      BY <1>2, <2>1, Untouched DEF MonInv
  <1>5. QED
    BY <1>1, <1>2, <1>3, <1>4 DEF MonInv

LEMMA NobodyWorks ==
    ASSUME Quiet
    PROVE  /\ \A p \in Proc : monCall[p].step = "none"
           /\ \A l \in Loop : notifying[l].step = "none" /\ notifying[l].rest = {}
  <1>1. Free.step = "none" /\ NoReport.step = "none" /\ NoReport.rest = {}
    BY DEF Free, NoReport
  <1>2. QED
    BY <1>1 DEF Quiet

LEMMA MonNextInv == MonInv /\ [MonNext]_monVars => MonInv'
  <1> SUFFICES ASSUME MonInv, [MonNext]_monVars
               PROVE  MonInv'
    OBVIOUS
  <1>1. ASSUME NEW m \in Peer, NEW q \in RemoteProc, RemoteRequest(m, q) PROVE MonInv'
    BY <1>1, RestUntouched DEF RemoteRequest
  <1>2. CASE UNCHANGED monVars
    BY <1>2, RestUntouched DEF monVars
  <1>3. QED
    BY <1>1, <1>2, MonitorNodeInv, InsertMonitorInv, IndexMonitorInv, DemonitorNodeInv,
       UnrefMonitorInv, RemoveMonitorInv, NotifyNodeDownInv, NotifyNextInv, SendNodeDownInv,
       CleanRemoteInv DEF MonNext

(***************************************************************************)
(* MonitorIsAccountedFor, for every number of processes, nodes and loops:  *)
(* a monitor of a node is sent at most one NodeDown, and one that nobody   *)
(* works on was cancelled, was fired or will fire.                         *)
(***************************************************************************)
THEOREM MonitorsAreAccountedFor == MonSpec => []MonitorIsAccountedFor
  <1>1. ASSUME MonInv PROVE MonitorIsAccountedFor
    <2>1. ASSUME NEW r \in 1 .. nextRef PROVE r \in Ref /\ ~(r > nextRef) /\ RefSound(r)
      BY <1>1 DEF MonInv, MonTypes, Ref
    <2>2. ASSUME NEW r \in 1 .. nextRef PROVE nodeDowns[r] <= 1
      BY <2>1 DEF RefSound, FiredSound
    <2>3. ASSUME Quiet, NEW r \in Ref
          PROVE  /\ Unreported(r) /\ ~Inserting(r) /\ ~Owing(r)
                 /\ Listed(refOf[r].node, r) \/ Unlisted(r) \/ ~RefSound(r)
      <3>1. \A p \in Proc : monCall[p].step = "none"
        BY <2>3, NobodyWorks
      <3>2. \A l \in Loop : notifying[l].step = "none" /\ notifying[l].rest = {}
        BY <2>3, NobodyWorks
      <3>3. Listed(refOf[r].node, r) \/ Unlisted(r) \/ ~RefSound(r)
        BY DEF RefSound, ListedSound, Unlisted
      <3>4. QED
        BY <3>1, <3>2, <3>3 DEF Unreported, Inserting, Owing, CallAt, Taken, Sending
    <2>4. ASSUME Quiet, NEW r \in 1 .. nextRef
          PROVE  \/ r \in cancelled \/ nodeDowns[r] = 1
                 \/ r \in localMonitors[refOf[r].node] /\ r \in monitorRefs
      <3>1. refOf[r].node \in Peer
        BY <1>1, <2>1 DEF MonInv, MonTypes
      <3>2. QED
        BY <2>1, <2>3, <2>4, <3>1 DEF RefSound, AccountSound, ListedSound, Listed
    <2>5. ASSUME Quiet, NEW r \in 1 .. nextRef, r \in localMonitors[refOf[r].node]
          PROVE  r \notin cancelled /\ nodeDowns[r] = 0
      <3>1. refOf[r].node \in Peer /\ Listed(refOf[r].node, r)
        BY <1>1, <2>1, <2>5 DEF MonInv, MonTypes, Listed
      <3>2. QED
        BY <2>1, <3>1 DEF RefSound, ListedSound, FiredSound, Unlisted
    <2>6. QED
      BY <2>2, <2>4, <2>5 DEF MonitorIsAccountedFor
  <1>2. MonInit => MonInv
    BY MonInitInv
  <1>3. MonInv /\ [MonNext]_monVars => MonInv'
    BY MonNextInv
  <1>4. QED
    BY <1>1, <1>2, <1>3, PTL DEF MonSpec

HIDE MonitorsAssumption

-----------------------------------------------------------------------------
(***************************************************************************)
(* GlobalNames.  A name that nobody unregisters is never lost by a table,  *)
(* so the sender of a message that tells of it knows it still; and as long *)
(* as no message is dropped, an end that knows a name has told the other,  *)
(* or is about to: by the broadcast of register, or by the table it queues *)
(* when it inserts the entry of the connection.                            *)
(***************************************************************************)
NamesSpec == GlobalInit /\ [][GlobalNext]_<<linkVars, globalVars>>

NameMessage ==
    [kind : {"register", "unregister", "request", "response"}, name : GlobalName,
     pid : Pid \cup {Nobody}, all : {<<>>} \cup [GlobalName -> Pid \cup {Nobody}]]

LinkTypes ==
    /\ dials \in Nat
    /\ pending \subseteq Node /\ up \subseteq Node
    /\ wire \in [Node -> Seq(NameMessage)]
    /\ inHand \in [Node -> SUBSET [conn : Nat, msg : NameMessage]]

NameTypes ==
    /\ globalNames \in [Node -> [GlobalName -> Pid \cup {Nobody}]]
    /\ nameCall \in [Pid -> [name : GlobalName, step : {"none", "insert", "tell", "told"}]]
    /\ registrants \in [GlobalName -> SUBSET Pid]
    /\ dropped \subseteq GlobalName

\* An end of an open connection that has inserted its entry still has it.
LinkSound ==
    /\ dialled = "hello" => pending = Node
    /\ dialled = "open" => Node \ pending \subseteq up

\* The messages that n has not handled yet.
OnTheWay(n) == {wire[n][i] : i \in 1 .. Len(wire[n])} \cup {h.msg : h \in inHand[n]}

Knows(n, x) == globalNames[n][x] # Nobody

TellsOf(m, x) ==
    \/ m.kind = "register" /\ m.name = x
    \/ m.kind = "response" /\ m.all[x] # Nobody

\* What m says on its way to n is what some process registered, and its sender knows it still.
Holds(m, n) ==
    /\ m.kind = "register" => m.pid \in registrants[m.name]
    /\ m.kind = "unregister" => m.name \in dropped
    /\ m.kind = "response" =>
          /\ m.all \in [GlobalName -> Pid \cup {Nobody}]
          /\ \A x \in GlobalName : m.all[x] # Nobody => m.all[x] \in registrants[x]
    /\ \A x \in GlobalName \ dropped : TellsOf(m, x) => Knows(Other(n), x)

AllHold(n) == \A m \in OnTheWay(n) : Holds(m, n)

CallSound(p) ==
    LET c == nameCall[p] IN
    /\ c.step = "tell" => p \in registrants[c.name] /\ (c.name \in dropped \/ Knows(Home[p], c.name))
    /\ c.step = "told" => c.name \in dropped

EntrySound(n, x) == Knows(n, x) => globalNames[n][x] \in registrants[x]

SomeoneKnows(x) == x \notin dropped /\ registrants[x] # {} => \E n \in Node : Knows(n, x)

\* The other end of n knows x, or will be told.
Telling(p, n, x) == Home[p] = n /\ nameCall[p].step = "tell" /\ nameCall[p].name = x
WillKnow(n, x) ==
    \/ Knows(Other(n), x)
    \/ \E p \in Pid : Telling(p, n, x)
    \/ \E m \in OnTheWay(Other(n)) : TellsOf(m, x)

Told(n, x) ==
    faults = {} /\ dialled = "open" /\ n \notin pending /\ x \notin dropped /\ Knows(n, x) =>
        WillKnow(n, x)

NamesInv ==
    /\ LinkTypes /\ NameTypes /\ LinkSound
    /\ \A p \in Pid : CallSound(p)
    /\ \A x \in GlobalName : SomeoneKnows(x)
    /\ \A n \in Node : AllHold(n)
    /\ \A n \in Node, x \in GlobalName : EntrySound(n, x) /\ Told(n, x)

LEMMA OtherNode ==
    ASSUME NEW n \in Node
    PROVE  /\ Other(n) \in Node /\ Other(n) # n /\ Other(Other(n)) = n
           /\ \A m \in Node : m = n \/ m = Other(n)
  <1>1. PICK a, b : a # b /\ Node = {a, b}
    BY LinkAssumption, NodesAssumption, NamesAssumption
  <1>2. \E m \in Node : m # n
    BY <1>1
  <1>3. Other(n) \in Node /\ Other(n) # n
    BY <1>2 DEF Other
  <1>4. \A m \in Node : m = n \/ m = Other(n)
    BY <1>1, <1>3
  <1>5. \E m \in Node : m # Other(n)
    BY <1>3
  <1>6. Other(Other(n)) \in Node /\ Other(Other(n)) # Other(n)
    BY <1>5 DEF Other
  <1>7. QED
    BY <1>3, <1>4, <1>6

-----------------------------------------------------------------------------
(***************************************************************************)
(* What the steps of the link do to the messages on their way.             *)
(***************************************************************************)
\* The queue drops what exceeds it, from its end, and this is noted.
LEMMA PostEffect ==
    ASSUME LinkTypes, NEW n \in Node, NEW msgs \in Seq(NameMessage), Post(n, msgs),
           inHand' = inHand
    PROVE  /\ wire' \in [Node -> Seq(NameMessage)]
           /\ \A k \in Node : k # Other(n) => OnTheWay(k)' = OnTheWay(k)
           /\ OnTheWay(Other(n))' \subseteq OnTheWay(Other(n)) \cup {msgs[i] : i \in 1 .. Len(msgs)}
           /\ faults' = {} =>
                 /\ faults = {}
                 /\ OnTheWay(Other(n)) \subseteq OnTheWay(Other(n))'
                 /\ Reaches(n) => {msgs[i] : i \in 1 .. Len(msgs)} \subseteq OnTheWay(Other(n))'
  <1>1. PICK o : o = Other(n)
    OBVIOUS
  <1>2. o \in Node
    BY <1>1, OtherNode
  <1>3. PICK q : q = wire[o] \o msgs
    OBVIOUS
  <1>4. wire[o] \in Seq(NameMessage)
    BY <1>2 DEF LinkTypes
  <1>5. /\ q \in Seq(NameMessage) /\ Len(q) = Len(wire[o]) + Len(msgs)
        /\ \A i \in 1 .. Len(wire[o]) : q[i] = wire[o][i]
        /\ \A i \in 1 .. Len(msgs) : q[Len(wire[o]) + i] = msgs[i]
    BY <1>3, <1>4
  <1>6. Len(wire[o]) \in Nat /\ Len(msgs) \in Nat /\ Len(q) \in Nat
    BY <1>4, <1>5
  <1>7. CASE ~(Reaches(n) /\ msgs # <<>>)
    <2>1. wire' = wire
      BY <1>7 DEF Post
    <2>2. faults' = {} => faults = {}
      BY DEF Post
    <2>3. Reaches(n) => {msgs[i] : i \in 1 .. Len(msgs)} = {}
      BY <1>7
    <2>4. QED
      BY <2>1, <2>2, <2>3 DEF OnTheWay, LinkTypes
  <1>8. CASE Reaches(n) /\ msgs # <<>>
    <2>1. PICK l : l = IF Len(q) < MaxQueue THEN Len(q) ELSE MaxQueue
      OBVIOUS
    <2>2. l \in 0 .. Len(q) /\ (Len(q) <= MaxQueue => l = Len(q))
      BY <1>6, <2>1, LinkAssumption, NodesAssumption, NamesAssumption
    <2>3. wire' = [wire EXCEPT ![o] = SubSeq(q, 1, l)]
      BY <1>1, <1>3, <1>8, <2>1 DEF Post, Queued
    <2>4. faults' = {} => faults = {} /\ l = Len(q)
      <3>1. faults' = IF Len(q) > MaxQueue THEN faults \cup {"full"} ELSE faults
        BY <1>1, <1>3, <1>8 DEF Post, Queued
      <3>2. MaxQueue \in Nat /\ Len(q) \in Nat
        BY <1>6, LinkAssumption, NodesAssumption, NamesAssumption
      <3>3. CASE Len(q) <= MaxQueue
        BY <2>2, <3>1, <3>2, <3>3
      <3>4. CASE Len(q) > MaxQueue
        BY <3>1, <3>4
      <3>5. QED
        BY <3>2, <3>3, <3>4
    <2>5. /\ SubSeq(q, 1, l) \in Seq(NameMessage) /\ Len(SubSeq(q, 1, l)) = l
          /\ \A i \in 1 .. l : SubSeq(q, 1, l)[i] = q[i]
      BY <1>5, <2>2
    <2>6. wire' \in [Node -> Seq(NameMessage)] /\ wire'[o] = SubSeq(q, 1, l)
          /\ \A k \in Node : k # o => wire'[k] = wire[k]
      BY <1>2, <2>3, <2>5 DEF LinkTypes
    <2>7. \A k \in Node : k # o => OnTheWay(k)' = OnTheWay(k)
      BY <2>6 DEF OnTheWay
    <2>8. \A i \in 1 .. l : q[i] \in {wire[o][j] : j \in 1 .. Len(wire[o])} \cup {msgs[j] : j \in 1 .. Len(msgs)}
      <3>1. ASSUME NEW i \in 1 .. l, i > Len(wire[o])
            PROVE  q[i] \in {msgs[j] : j \in 1 .. Len(msgs)}
        <4>1. i - Len(wire[o]) \in 1 .. Len(msgs) /\ i = Len(wire[o]) + (i - Len(wire[o]))
          BY <1>5, <1>6, <2>2, <3>1
        <4>2. q[i] = msgs[i - Len(wire[o])]
          BY <1>5, <4>1
        <4>3. QED
          BY <4>1, <4>2
      <3>2. ASSUME NEW i \in 1 .. l, i <= Len(wire[o])
            PROVE  q[i] \in {wire[o][j] : j \in 1 .. Len(wire[o])}
        <4>1. i \in 1 .. Len(wire[o])
          BY <1>6, <2>2, <3>2
        <4>2. q[i] = wire[o][i]
          BY <1>5, <4>1
        <4>3. QED
          BY <4>1, <4>2
      <3>3. \A i \in 1 .. l : i > Len(wire[o]) \/ i <= Len(wire[o])
        BY <1>6, <2>2
      <3>4. QED
        BY <3>1, <3>2, <3>3
    <2>9. OnTheWay(o)' \subseteq OnTheWay(o) \cup {msgs[j] : j \in 1 .. Len(msgs)}
      <3>1. Len(wire'[o]) = l /\ \A i \in 1 .. l : wire'[o][i] = q[i]
        BY <2>5, <2>6
      <3>2. {wire'[o][i] : i \in 1 .. Len(wire'[o])}
                \subseteq {wire[o][j] : j \in 1 .. Len(wire[o])} \cup {msgs[j] : j \in 1 .. Len(msgs)}
        BY <2>8, <3>1
      <3>3. QED
        BY <3>2 DEF OnTheWay
    <2>10. ASSUME l = Len(q)
           PROVE  /\ OnTheWay(o) \subseteq OnTheWay(o)'
                  /\ {msgs[j] : j \in 1 .. Len(msgs)} \subseteq OnTheWay(o)'
      <3>1. \A i \in 1 .. Len(wire[o]) : i \in 1 .. l /\ wire'[o][i] = wire[o][i]
        BY <1>5, <1>6, <2>5, <2>6, <2>10
      <3>2. \A i \in 1 .. Len(msgs) : Len(wire[o]) + i \in 1 .. l /\ wire'[o][Len(wire[o]) + i] = msgs[i]
        BY <1>5, <1>6, <2>5, <2>6, <2>10
      <3>3. Len(wire'[o]) = l
        BY <2>5, <2>6
      <3>4. QED
        BY <3>1, <3>2, <3>3 DEF OnTheWay
    <2>11. QED
      BY <1>1, <2>4, <2>6, <2>7, <2>9, <2>10
  <1>9. QED
    BY <1>7, <1>8

\* The receiver loop has the message in hand, which was first on the wire.
LEMMA ReadEffect ==
    ASSUME LinkTypes, NEW n \in Node, LinkRead(n)
    PROVE  LinkTypes' /\ \A k \in Node : OnTheWay(k)' = OnTheWay(k)
  <1>1. wire[n] \in Seq(NameMessage) /\ wire[n] # <<>>
    BY DEF LinkTypes, LinkRead
  <1>2. /\ Len(wire[n]) \in Nat /\ Len(wire[n]) >= 1
        /\ Head(wire[n]) = wire[n][1] /\ Head(wire[n]) \in NameMessage
        /\ Tail(wire[n]) \in Seq(NameMessage) /\ Len(Tail(wire[n])) = Len(wire[n]) - 1
        /\ \A i \in 1 .. Len(wire[n]) - 1 : Tail(wire[n])[i] = wire[n][i + 1]
    BY <1>1
  <1>3. PICK h : h = [conn |-> dials, msg |-> Head(wire[n])]
    OBVIOUS
  <1>4. h \in [conn : Nat, msg : NameMessage] /\ h.msg = wire[n][1]
    BY <1>2, <1>3 DEF LinkTypes
  <1>5. /\ inHand' = [inHand EXCEPT ![n] = @ \cup {h}]
        /\ wire' = [wire EXCEPT ![n] = Tail(@)]
        /\ UNCHANGED <<dials, pending, up>>
    BY <1>3 DEF LinkRead
  <1>6. LinkTypes'
    BY <1>2, <1>4, <1>5 DEF LinkTypes
  <1>7. ASSUME NEW k \in Node, k # n PROVE OnTheWay(k)' = OnTheWay(k)
    <2>1. wire'[k] = wire[k] /\ inHand'[k] = inHand[k]
      BY <1>5, <1>7 DEF LinkTypes
    <2>2. QED
      BY <2>1 DEF OnTheWay
  <1>8. OnTheWay(n)' = OnTheWay(n)
    <2>1. wire'[n] = Tail(wire[n]) /\ inHand'[n] = inHand[n] \cup {h}
      BY <1>5 DEF LinkTypes
    <2>2. {wire[n][i] : i \in 1 .. Len(wire[n])} = {wire'[n][i] : i \in 1 .. Len(wire'[n])} \cup {wire[n][1]}
      <3>1. ASSUME NEW i \in 1 .. Len(wire[n]), i # 1
            PROVE  wire[n][i] \in {wire'[n][j] : j \in 1 .. Len(wire'[n])}
        <4>1. i - 1 \in 1 .. Len(wire'[n]) /\ wire'[n][i - 1] = wire[n][(i - 1) + 1] /\ (i - 1) + 1 = i
          BY <1>2, <2>1, <3>1
        <4>2. QED
          BY <4>1
      <3>2. ASSUME NEW i \in 1 .. Len(wire'[n])
            PROVE  wire'[n][i] \in {wire[n][j] : j \in 1 .. Len(wire[n])}
        <4>1. i + 1 \in 1 .. Len(wire[n]) /\ wire'[n][i] = wire[n][i + 1]
          BY <1>2, <2>1, <3>2
        <4>2. QED
          BY <4>1
      <3>3. 1 \in 1 .. Len(wire[n])
        BY <1>2
      <3>4. QED
        BY <3>1, <3>2, <3>3
    <2>3. {g.msg : g \in inHand'[n]} = {g.msg : g \in inHand[n]} \cup {wire[n][1]}
      BY <1>4, <2>1
    <2>4. QED
      BY <2>2, <2>3 DEF OnTheWay
  <1>9. QED
    BY <1>6, <1>7, <1>8

\* What was in hand is handled; the answer is queued if there is room.
LEMMA HandleEffect ==
    ASSUME LinkTypes, NEW n \in Node, NEW h \in inHand[n],
           NEW msgs \in Seq(NameMessage), LinkHandle(n, h, msgs)
    PROVE  /\ LinkTypes'
           /\ OnTheWay(n)' \subseteq OnTheWay(n) /\ OnTheWay(n) \subseteq OnTheWay(n)' \cup {h.msg}
           /\ OnTheWay(Other(n)) \subseteq OnTheWay(Other(n))'
           /\ OnTheWay(Other(n))' \subseteq OnTheWay(Other(n)) \cup {msgs[i] : i \in 1 .. Len(msgs)}
           /\ faults' = {} => faults = {}
  <1>1. PICK o : o = Other(n)
    OBVIOUS
  <1>2. o \in Node /\ o # n
    BY <1>1, OtherNode
  <1>3. /\ inHand' = [inHand EXCEPT ![n] = @ \ {h}]
        /\ UNCHANGED <<dials, dialled, acceptor, pending, up>>
        /\ wire' = wire \/ wire' = [wire EXCEPT ![o] = @ \o msgs]
        /\ faults' = {} => faults = {}
    BY <1>1 DEF LinkHandle
  <1>4. wire[o] \in Seq(NameMessage)
    BY <1>2 DEF LinkTypes
  <1>5. /\ wire[o] \o msgs \in Seq(NameMessage) /\ Len(wire[o] \o msgs) = Len(wire[o]) + Len(msgs)
        /\ \A i \in 1 .. Len(wire[o]) : (wire[o] \o msgs)[i] = wire[o][i]
        /\ \A i \in 1 .. Len(msgs) : (wire[o] \o msgs)[Len(wire[o]) + i] = msgs[i]
        /\ Len(wire[o]) \in Nat /\ Len(msgs) \in Nat
    BY <1>4
  <1>6. LinkTypes'
    BY <1>2, <1>3, <1>5 DEF LinkTypes
  <1>7. /\ inHand'[n] = inHand[n] \ {h} /\ inHand'[o] = inHand[o] /\ wire'[n] = wire[n]
        /\ wire'[o] = wire[o] \/ wire'[o] = wire[o] \o msgs
    BY <1>2, <1>3 DEF LinkTypes
  <1>8. OnTheWay(n)' \subseteq OnTheWay(n) /\ OnTheWay(n) \subseteq OnTheWay(n)' \cup {h.msg}
    BY <1>7 DEF OnTheWay
  <1>9. OnTheWay(o) \subseteq OnTheWay(o)'
    <2>1. ASSUME NEW i \in 1 .. Len(wire[o])
          PROVE  wire[o][i] \in {wire'[o][j] : j \in 1 .. Len(wire'[o])}
      <3>1. i \in 1 .. Len(wire'[o]) /\ wire'[o][i] = wire[o][i]
        BY <1>5, <1>7
      <3>2. QED
        BY <3>1
    <2>2. QED
      BY <1>7, <2>1 DEF OnTheWay
  <1>10. OnTheWay(o)' \subseteq OnTheWay(o) \cup {msgs[i] : i \in 1 .. Len(msgs)}
    <2>1. ASSUME NEW i \in 1 .. Len(wire'[o])
          PROVE  wire'[o][i] \in {wire[o][j] : j \in 1 .. Len(wire[o])} \cup {msgs[j] : j \in 1 .. Len(msgs)}
      <3>1. CASE i \in 1 .. Len(wire[o])
        <4>1. wire'[o][i] = wire[o][i]
          BY <1>5, <1>7, <3>1
        <4>2. QED
          BY <3>1, <4>1
      <3>2. CASE i \notin 1 .. Len(wire[o])
        <4>1. /\ i - Len(wire[o]) \in 1 .. Len(msgs) /\ i = Len(wire[o]) + (i - Len(wire[o]))
              /\ wire'[o] = wire[o] \o msgs
          BY <1>5, <1>7, <3>2
        <4>2. wire'[o][i] = msgs[i - Len(wire[o])]
          BY <1>5, <4>1
        <4>3. QED
          BY <4>1, <4>2
      <3>3. QED
        BY <3>1, <3>2
    <2>2. QED
      BY <1>7, <2>1 DEF OnTheWay
  <1>11. QED
    BY <1>1, <1>3, <1>6, <1>8, <1>9, <1>10

-----------------------------------------------------------------------------
(***************************************************************************)
(* What was said of a name stays true: registrants and dropped only grow,  *)
(* and a table forgets nothing that was not dropped.                       *)
(***************************************************************************)
Grows == dropped \subseteq dropped' /\ \A x \in GlobalName : registrants[x] \subseteq registrants'[x]
Remembered == \A n \in Node, x \in GlobalName : x \notin dropped' /\ Knows(n, x) => Knows(n, x)'

LEMMA OnTheWayTypes ==
    ASSUME LinkTypes, NEW n \in Node, NEW m \in OnTheWay(n)
    PROVE  m \in NameMessage
  BY DEF OnTheWay, LinkTypes

LEMMA HoldsStays ==
    ASSUME Grows, Remembered, NEW n \in Node, NEW m \in NameMessage, Holds(m, n)
    PROVE  Holds(m, n)'
  <1>1. Other(n) \in Node /\ m.name \in GlobalName
    BY OtherNode DEF NameMessage
  <1>2. ASSUME NEW x \in GlobalName \ dropped', TellsOf(m, x) PROVE Knows(Other(n), x)'
    BY <1>1, <1>2 DEF Holds, Grows, Remembered
  <1>3. m.kind = "register" => m.pid \in registrants'[m.name]
    BY <1>1 DEF Holds, Grows
  <1>4. m.kind = "unregister" => m.name \in dropped'
    BY DEF Holds, Grows
  <1>5. ASSUME m.kind = "response", NEW x \in GlobalName, m.all[x] # Nobody
        PROVE  m.all[x] \in registrants'[x]
    BY <1>5 DEF Holds, Grows
  <1>6. m.kind = "response" => m.all \in [GlobalName -> Pid \cup {Nobody}]
    BY DEF Holds
  <1>7. QED
    BY <1>2, <1>3, <1>4, <1>5, <1>6 DEF Holds, TellsOf

LEMMA AllHoldStays ==
    ASSUME NamesInv, Grows, Remembered, NEW n \in Node,
           \A m \in OnTheWay(n)' : m \in OnTheWay(n) \/ Holds(m, n)'
    PROVE  AllHold(n)'
  <1>1. ASSUME NEW m \in OnTheWay(n) PROVE Holds(m, n)'
    BY OnTheWayTypes, HoldsStays DEF NamesInv, AllHold
  <1>2. QED
    BY <1>1 DEF AllHold

LEMMA CallStays ==
    ASSUME NameTypes, Grows, Remembered, NEW p \in Pid, CallSound(p),
           nameCall'[p] = nameCall[p]
    PROVE  CallSound(p)'
  <1>1. Home[p] \in Node /\ nameCall[p].name \in GlobalName
    BY LinkAssumption, NodesAssumption, NamesAssumption DEF NameTypes
  <1>2. QED
    BY <1>1 DEF CallSound, Grows, Remembered

LEMMA SomeoneStays ==
    ASSUME Grows, Remembered, NEW x \in GlobalName, SomeoneKnows(x), registrants'[x] = registrants[x]
    PROVE  SomeoneKnows(x)'
  BY DEF SomeoneKnows, Grows, Remembered

LEMMA WillKnowStays ==
    ASSUME Remembered, NEW n \in Node, NEW x \in GlobalName \ dropped', WillKnow(n, x),
           \A p \in Pid : Telling(p, n, x) => Telling(p, n, x)' \/ WillKnow(n, x)',
           \A m \in OnTheWay(Other(n)) :
               TellsOf(m, x) => m \in OnTheWay(Other(n))' \/ WillKnow(n, x)'
    PROVE  WillKnow(n, x)'
  <1>1. CASE Knows(Other(n), x)
    BY <1>1, OtherNode DEF Remembered, WillKnow
  <1>2. ASSUME NEW p \in Pid, Telling(p, n, x) PROVE WillKnow(n, x)'
    BY <1>2 DEF WillKnow
  <1>3. ASSUME NEW m \in OnTheWay(Other(n)), TellsOf(m, x) PROVE WillKnow(n, x)'
    BY <1>3 DEF WillKnow, TellsOf
  <1>4. QED
    BY <1>1, <1>2, <1>3 DEF WillKnow

\* A step that changes no table and makes no name known.
LEMMA TablesUntouched ==
    ASSUME NamesInv, UNCHANGED <<globalNames, registrants, dropped>>
    PROVE  /\ Grows /\ Remembered
           /\ \A n \in Node, x \in GlobalName : EntrySound(n, x)' /\ (Knows(n, x)' <=> Knows(n, x))
           /\ \A x \in GlobalName : SomeoneKnows(x)'
  BY DEF NamesInv, Grows, Remembered, EntrySound, Knows, SomeoneKnows

LEMMA CallsAfterGoes ==
    ASSUME NameTypes, NEW p \in Pid, NEW x \in GlobalName,
           NEW step \in {"none", "insert", "tell", "told"}, Goes(p, x, step)
    PROVE  /\ nameCall' \in [Pid -> [name : GlobalName, step : {"none", "insert", "tell", "told"}]]
           /\ nameCall'[p].name = x /\ nameCall'[p].step = step
           /\ \A q \in Pid : q # p => nameCall'[q] = nameCall[q]
  BY DEF NameTypes, Goes

LEMMA LinkUntouched ==
    ASSUME LinkTypes, LinkSound, UNCHANGED linkVars
    PROVE  LinkTypes' /\ LinkSound' /\ \A n \in Node : OnTheWay(n)' = OnTheWay(n)
  BY DEF LinkTypes, LinkSound, OnTheWay, linkVars

LEMMA SetEffect ==
    ASSUME NameTypes, NEW n \in Node, NEW x \in GlobalName, NEW p \in Pid \cup {Nobody}, Set(n, x, p)
    PROVE  /\ globalNames' \in [Node -> [GlobalName -> Pid \cup {Nobody}]]
           /\ globalNames'[n][x] = p
           /\ \A k \in Node, y \in GlobalName : k # n \/ y # x => globalNames'[k][y] = globalNames[k][y]
  <1>1. globalNames[n] \in [GlobalName -> Pid \cup {Nobody}]
    BY DEF NameTypes
  <1>2. [globalNames[n] EXCEPT ![x] = p] \in [GlobalName -> Pid \cup {Nobody}]
    BY <1>1
  <1>3. globalNames' = [globalNames EXCEPT ![n] = [globalNames[n] EXCEPT ![x] = p]]
    BY DEF Set, NameTypes
  <1>4. globalNames'[n] = [globalNames[n] EXCEPT ![x] = p] /\ \A k \in Node : k # n => globalNames'[k] = globalNames[k]
    BY <1>3 DEF NameTypes
  <1>5. QED
    BY <1>1, <1>2, <1>3, <1>4 DEF NameTypes

-----------------------------------------------------------------------------
(***************************************************************************)
(* The steps of the processes.                                             *)
(***************************************************************************)
LEMMA RegisterInv ==
    ASSUME NamesInv, NEW p \in Pid, NEW x \in GlobalName, Register(p, x)
    PROVE  NamesInv'
  <1>1. /\ UNCHANGED <<globalNames, registrants, dropped>> /\ UNCHANGED linkVars
        /\ nameCall[p].step = "none"
        /\ nameCall' = nameCall \/ Goes(p, x, "insert")
    BY DEF Register, Started, Idle
  <1>2. /\ LinkTypes' /\ LinkSound' /\ \A n \in Node : OnTheWay(n)' = OnTheWay(n)
        /\ faults' = faults /\ dialled' = dialled /\ pending' = pending
    BY <1>1, LinkUntouched DEF NamesInv, linkVars
  <1>3. /\ Grows /\ Remembered
        /\ \A n \in Node, y \in GlobalName : EntrySound(n, y)' /\ (Knows(n, y)' <=> Knows(n, y))
        /\ \A y \in GlobalName : SomeoneKnows(y)'
    BY <1>1, TablesUntouched
  <1>4. /\ nameCall' \in [Pid -> [name : GlobalName, step : {"none", "insert", "tell", "told"}]]
        /\ nameCall'[p].step \in {"none", "insert"}
        /\ \A q \in Pid : q # p => nameCall'[q] = nameCall[q]
    BY <1>1, CallsAfterGoes DEF NamesInv, NameTypes
  <1>5. NameTypes'
    BY <1>1, <1>4 DEF NamesInv, NameTypes
  <1>6. ASSUME NEW q \in Pid PROVE CallSound(q)'
    <2>1. CASE q = p
      BY <1>4, <2>1 DEF CallSound
    <2>2. CASE q # p
      BY <1>3, <1>4, <2>2, CallStays DEF NamesInv
    <2>3. QED
      BY <2>1, <2>2
  <1>7. \A n \in Node : AllHold(n)'
    BY <1>2, <1>3, AllHoldStays
  <1>8. ASSUME NEW n \in Node, NEW y \in GlobalName PROVE Told(n, y)'
    <2>1. SUFFICES ASSUME (faults = {} /\ dialled = "open" /\ n \notin pending /\ y \notin dropped
                             /\ Knows(n, y))'
                   PROVE  WillKnow(n, y)'
      BY DEF Told
    <2>2. WillKnow(n, y)
      BY <1>1, <1>2, <1>3, <2>1 DEF NamesInv, Told
    <2>3. \A q \in Pid : Telling(q, n, y) => Telling(q, n, y)'
      BY <1>1, <1>4 DEF Telling
    <2>4. \A m \in OnTheWay(Other(n)) : m \in OnTheWay(Other(n))'
      BY <1>2, OtherNode
    <2>5. QED
      BY <1>3, <2>1, <2>2, <2>3, <2>4, WillKnowStays
  <1>9. QED
    BY <1>2, <1>3, <1>5, <1>6, <1>7, <1>8 DEF NamesInv

LEMMA InsertNameInv ==
    ASSUME NamesInv, NEW p \in Pid, InsertName(p)
    PROVE  NamesInv'
  <1>1. PICK x : x = nameCall[p].name
    OBVIOUS
  <1>2. PICK o : o = Home[p]
    OBVIOUS
  <1>3. x \in GlobalName /\ o \in Node /\ p \in Pid \cup {Nobody} /\ p # Nobody
    BY <1>1, <1>2, LinkAssumption, NodesAssumption, NamesAssumption DEF NamesInv, NameTypes
  <1>4. /\ nameCall[p].step = "insert" /\ Set(o, x, p) /\ Goes(p, x, "tell")
        /\ registrants' = [registrants EXCEPT ![x] = @ \cup {p}]
        /\ UNCHANGED linkVars /\ dropped' = dropped
    BY <1>1, <1>2 DEF InsertName
  <1>5. /\ LinkTypes' /\ LinkSound' /\ \A n \in Node : OnTheWay(n)' = OnTheWay(n)
        /\ faults' = faults /\ dialled' = dialled /\ pending' = pending
    BY <1>4, LinkUntouched DEF NamesInv, linkVars
  <1>6. /\ globalNames' \in [Node -> [GlobalName -> Pid \cup {Nobody}]]
        /\ globalNames'[o][x] = p
        /\ \A k \in Node, y \in GlobalName : k # o \/ y # x => globalNames'[k][y] = globalNames[k][y]
    BY <1>3, <1>4, SetEffect DEF NamesInv
  <1>7. /\ registrants' \in [GlobalName -> SUBSET Pid]
        /\ registrants'[x] = registrants[x] \cup {p}
        /\ \A y \in GlobalName : y # x => registrants'[y] = registrants[y]
    BY <1>3, <1>4 DEF NamesInv, NameTypes
  <1>8. /\ nameCall' \in [Pid -> [name : GlobalName, step : {"none", "insert", "tell", "told"}]]
        /\ nameCall'[p].name = x /\ nameCall'[p].step = "tell"
        /\ \A q \in Pid : q # p => nameCall'[q] = nameCall[q]
    BY <1>3, <1>4, CallsAfterGoes DEF NamesInv
  <1>9. Grows /\ Knows(o, x)' /\ \A k \in Node, y \in GlobalName :
                                   k # o \/ y # x => (Knows(k, y)' <=> Knows(k, y))
    BY <1>3, <1>4, <1>6, <1>7 DEF Grows, Knows
  <1>10. Remembered
    BY <1>9 DEF Remembered
  <1>11. NameTypes'
    BY <1>4, <1>6, <1>7, <1>8 DEF NamesInv, NameTypes
  <1>12. ASSUME NEW q \in Pid PROVE CallSound(q)'
    <2>1. CASE q = p
      BY <1>2, <1>7, <1>8, <1>9, <2>1 DEF CallSound
    <2>2. CASE q # p
      BY <1>8, <1>9, <1>10, <2>2, CallStays DEF NamesInv
    <2>3. QED
      BY <2>1, <2>2
  <1>13. ASSUME NEW y \in GlobalName PROVE SomeoneKnows(y)'
    <2>1. CASE y = x
      BY <1>3, <1>9, <2>1 DEF SomeoneKnows
    <2>2. CASE y # x
      BY <1>7, <1>9, <1>10, <2>2, SomeoneStays DEF NamesInv
    <2>3. QED
      BY <2>1, <2>2
  <1>14. \A n \in Node : AllHold(n)'
    BY <1>5, <1>9, <1>10, AllHoldStays
  <1>15. ASSUME NEW n \in Node, NEW y \in GlobalName PROVE EntrySound(n, y)'
    <2>1. CASE n = o /\ y = x
      BY <1>6, <1>7, <2>1 DEF EntrySound
    <2>2. CASE n # o \/ y # x
      <3>1. globalNames'[n][y] = globalNames[n][y] /\ registrants[y] \subseteq registrants'[y]
        BY <1>6, <1>9, <2>2 DEF Grows
      <3>2. EntrySound(n, y)
        BY DEF NamesInv
      <3>3. QED
        BY <3>1, <3>2 DEF EntrySound, Knows
    <2>3. QED
      BY <2>1, <2>2
  <1>16. ASSUME NEW n \in Node, NEW y \in GlobalName PROVE Told(n, y)'
    <2>1. SUFFICES ASSUME (faults = {} /\ dialled = "open" /\ n \notin pending /\ y \notin dropped
                             /\ Knows(n, y))'
                   PROVE  WillKnow(n, y)'
      BY DEF Told
    <2>2. CASE n = o /\ y = x
      BY <1>2, <1>8, <2>2 DEF WillKnow, Telling
    <2>3. CASE n # o \/ y # x
      <3>1. WillKnow(n, y)
        BY <1>4, <1>5, <1>9, <2>1, <2>3 DEF NamesInv, Told
      <3>2. \A q \in Pid : Telling(q, n, y) => Telling(q, n, y)'
        BY <1>4, <1>8 DEF Telling
      <3>3. \A m \in OnTheWay(Other(n)) : m \in OnTheWay(Other(n))'
        BY <1>5, OtherNode
      <3>4. QED
        BY <1>10, <2>1, <3>1, <3>2, <3>3, WillKnowStays
    <2>4. QED
      BY <2>2, <2>3
  <1>17. QED
    BY <1>5, <1>11, <1>12, <1>13, <1>14, <1>15, <1>16 DEF NamesInv

LEMMA UnregisterInv ==
    ASSUME NamesInv, NEW p \in Pid, NEW x \in GlobalName, Unregister(p, x)
    PROVE  NamesInv'
  <1>1. PICK o : o = Home[p]
    OBVIOUS
  <1>2. o \in Node /\ Nobody \in Pid \cup {Nobody}
    BY <1>1, LinkAssumption, NodesAssumption, NamesAssumption
  <1>3. /\ dropped' = dropped \cup {x} /\ Set(o, x, Nobody) /\ UNCHANGED linkVars
        /\ registrants' = registrants /\ nameCall[p].step = "none"
        /\ nameCall' = nameCall \/ Goes(p, x, "told")
    BY <1>1 DEF Unregister, Started, Idle
  <1>4. /\ LinkTypes' /\ LinkSound' /\ \A n \in Node : OnTheWay(n)' = OnTheWay(n)
        /\ faults' = faults /\ dialled' = dialled /\ pending' = pending
    BY <1>3, LinkUntouched DEF NamesInv, linkVars
  <1>5. /\ globalNames' \in [Node -> [GlobalName -> Pid \cup {Nobody}]]
        /\ globalNames'[o][x] = Nobody
        /\ \A k \in Node, y \in GlobalName : k # o \/ y # x => globalNames'[k][y] = globalNames[k][y]
    BY <1>2, <1>3, SetEffect DEF NamesInv
  <1>6. /\ nameCall' \in [Pid -> [name : GlobalName, step : {"none", "insert", "tell", "told"}]]
        /\ nameCall'[p].step = "none" \/ (nameCall'[p].step = "told" /\ nameCall'[p].name = x)
        /\ \A q \in Pid : q # p => nameCall'[q] = nameCall[q]
    BY <1>3, CallsAfterGoes DEF NamesInv, NameTypes
  <1>7. Grows /\ \A k \in Node, y \in GlobalName : y # x => (Knows(k, y)' <=> Knows(k, y))
    BY <1>3, <1>5 DEF Grows, Knows
  <1>8. Remembered
    BY <1>3, <1>7 DEF Remembered
  <1>9. NameTypes'
    BY <1>3, <1>5, <1>6 DEF NamesInv, NameTypes
  <1>10. ASSUME NEW q \in Pid PROVE CallSound(q)'
    <2>1. CASE q = p
      BY <1>3, <1>6, <2>1 DEF CallSound
    <2>2. CASE q # p
      BY <1>6, <1>7, <1>8, <2>2, CallStays DEF NamesInv
    <2>3. QED
      BY <2>1, <2>2
  <1>11. \A y \in GlobalName : SomeoneKnows(y)'
    BY <1>3, <1>7, <1>8, SomeoneStays DEF NamesInv
  <1>12. \A n \in Node : AllHold(n)'
    BY <1>4, <1>7, <1>8, AllHoldStays
  <1>13. ASSUME NEW n \in Node, NEW y \in GlobalName PROVE EntrySound(n, y)'
    <2>1. CASE n = o /\ y = x
      BY <1>5, <2>1 DEF EntrySound, Knows
    <2>2. CASE n # o \/ y # x
      BY <1>3, <1>5, <2>2 DEF NamesInv, EntrySound, Knows
    <2>3. QED
      BY <2>1, <2>2
  <1>14. ASSUME NEW n \in Node, NEW y \in GlobalName PROVE Told(n, y)'
    <2>1. SUFFICES ASSUME (faults = {} /\ dialled = "open" /\ n \notin pending /\ y \notin dropped
                             /\ Knows(n, y))'
                   PROVE  WillKnow(n, y)'
      BY DEF Told
    <2>2. WillKnow(n, y)
      BY <1>3, <1>4, <1>7, <2>1 DEF NamesInv, Told
    <2>3. \A q \in Pid : Telling(q, n, y) => Telling(q, n, y)'
      BY <1>3, <1>6 DEF Telling
    <2>4. \A m \in OnTheWay(Other(n)) : m \in OnTheWay(Other(n))'
      BY <1>4, OtherNode
    <2>5. QED
      BY <1>8, <2>1, <2>2, <2>3, <2>4, WillKnowStays
  <1>15. QED
    BY <1>4, <1>9, <1>10, <1>11, <1>12, <1>13, <1>14 DEF NamesInv

\* The messages of one call or of one exchange.
LEMMA Posted ==
    ASSUME NEW m \in NameMessage
    PROVE  <<m>> \in Seq(NameMessage) /\ {<<m>>[i] : i \in 1 .. Len(<<m>>)} = {m}
  <1>1. <<m>> \in Seq(NameMessage) /\ Len(<<m>>) = 1 /\ <<m>>[1] = m
    OBVIOUS
  <1>2. \A i : i \in 1 .. Len(<<m>>) <=> i = 1
    BY <1>1
  <1>3. QED
    BY <1>1, <1>2

LEMMA ConcatIs ==
    ASSUME NEW S, NEW a \in Seq(S), NEW b \in Seq(S)
    PROVE  /\ a \o b \in Seq(S) /\ Len(a \o b) = Len(a) + Len(b)
           /\ \A i \in 1 .. Len(a) : (a \o b)[i] = a[i]
           /\ \A i \in 1 .. Len(b) : (a \o b)[Len(a) + i] = b[i]
  OBVIOUS

LEMMA TwoPosted ==
    ASSUME NEW m \in NameMessage, NEW k \in NameMessage
    PROVE  /\ <<m>> \o <<k>> \in Seq(NameMessage) /\ Len(<<m>> \o <<k>>) = 2
           /\ (<<m>> \o <<k>>)[1] = m /\ (<<m>> \o <<k>>)[2] = k
  <1>1. PICK a : a = <<m>>
    OBVIOUS
  <1>2. PICK b : b = <<k>>
    OBVIOUS
  <1>3. a \in Seq(NameMessage) /\ Len(a) = 1 /\ a[1] = m
    BY <1>1
  <1>4. b \in Seq(NameMessage) /\ Len(b) = 1 /\ b[1] = k
    BY <1>2
  <1>5. a \o b \in Seq(NameMessage) /\ Len(a \o b) = 2 /\ (a \o b)[1] = m /\ (a \o b)[2] = k
    BY <1>3, <1>4, ConcatIs
  <1>6. QED
    BY <1>1, <1>2, <1>5

LEMMA TellNameInv ==
    ASSUME NamesInv, NEW p \in Pid, TellName(p)
    PROVE  NamesInv'
  <1>1. PICK o : o = Home[p]
    OBVIOUS
  <1>2. PICK c : c = nameCall[p]
    OBVIOUS
  <1>3. PICK m : m = IF c.step = "tell" THEN Registers(c.name, p) ELSE Unregisters(c.name)
    OBVIOUS
  <1>4. o \in Node /\ c.step \in {"tell", "told"} /\ c.name \in GlobalName
    BY <1>1, <1>2, LinkAssumption, NodesAssumption, NamesAssumption DEF NamesInv, NameTypes, TellName
  <1>5. m \in NameMessage /\ m.name = c.name
    BY <1>3, <1>4 DEF NameMessage, Registers, Unregisters
  <1>6. /\ Post(o, <<m>>) /\ UNCHANGED <<globalNames, registrants, dropped>>
        /\ nameCall' = [nameCall EXCEPT ![p] = NoNameCall]
        /\ UNCHANGED <<dials, dialled, pending, up, inHand>>
    BY <1>1, <1>2, <1>3 DEF TellName, LinkStays
  <1>7. /\ wire' \in [Node -> Seq(NameMessage)]
        /\ \A k \in Node : k # Other(o) => OnTheWay(k)' = OnTheWay(k)
        /\ OnTheWay(Other(o))' \subseteq OnTheWay(Other(o)) \cup {m}
        /\ faults' = {} =>
              /\ faults = {}
              /\ OnTheWay(Other(o)) \subseteq OnTheWay(Other(o))'
              /\ Reaches(o) => m \in OnTheWay(Other(o))'
    BY <1>4, <1>5, <1>6, PostEffect, Posted DEF NamesInv
  <1>8. LinkTypes' /\ LinkSound'
    BY <1>6, <1>7 DEF NamesInv, LinkTypes, LinkSound
  <1>9. NoNameCall.name \in GlobalName /\ NoNameCall.step = "none"
    BY <1>4 DEF NoNameCall
  <1>10. /\ nameCall' \in [Pid -> [name : GlobalName, step : {"none", "insert", "tell", "told"}]]
         /\ nameCall'[p].step = "none"
         /\ \A q \in Pid : q # p => nameCall'[q] = nameCall[q]
    <2>1. NoNameCall \in [name : GlobalName, step : {"none", "insert", "tell", "told"}]
      BY <1>4 DEF NoNameCall
    <2>2. QED
      BY <1>6, <1>9, <2>1 DEF NamesInv, NameTypes
  <1>11. /\ Grows /\ Remembered
         /\ \A n \in Node, y \in GlobalName : EntrySound(n, y)' /\ (Knows(n, y)' <=> Knows(n, y))
         /\ \A y \in GlobalName : SomeoneKnows(y)'
    BY <1>6, TablesUntouched
  <1>12. NameTypes'
    BY <1>6, <1>10 DEF NamesInv, NameTypes
  <1>13. ASSUME NEW q \in Pid PROVE CallSound(q)'
    <2>1. CASE q = p
      BY <1>10, <2>1 DEF CallSound
    <2>2. CASE q # p
      BY <1>10, <1>11, <2>2, CallStays DEF NamesInv
    <2>3. QED
      BY <2>1, <2>2
  <1>14. Holds(m, Other(o))'
    <2>1. /\ c.step = "tell" => p \in registrants[c.name] /\ (c.name \in dropped \/ Knows(o, c.name))
          /\ c.step = "told" => c.name \in dropped
      BY <1>1, <1>2 DEF NamesInv, CallSound
    <2>2. Other(Other(o)) = o
      BY <1>4, OtherNode
    <2>3. Holds(m, Other(o))
      <3>1. CASE c.step = "tell"
        BY <1>3, <2>1, <2>2, <3>1 DEF Holds, Registers, TellsOf
      <3>2. CASE c.step = "told"
        BY <1>3, <2>1, <3>2 DEF Holds, Unregisters, TellsOf
      <3>3. QED
        BY <1>4, <3>1, <3>2
    <2>4. QED
      BY <1>4, <1>5, <1>11, <2>3, OtherNode, HoldsStays
  <1>15. ASSUME NEW n \in Node PROVE AllHold(n)'
    <2>1. ASSUME NEW k \in OnTheWay(n)' PROVE k \in OnTheWay(n) \/ Holds(k, n)'
      BY <1>7, <1>14, <2>1
    <2>2. QED
      BY <1>11, <2>1, AllHoldStays
  <1>16. ASSUME NEW n \in Node, NEW y \in GlobalName PROVE Told(n, y)'
    <2>1. SUFFICES ASSUME (faults = {} /\ dialled = "open" /\ n \notin pending /\ y \notin dropped
                             /\ Knows(n, y))'
                   PROVE  WillKnow(n, y)'
      BY DEF Told
    <2>2. WillKnow(n, y)
      BY <1>6, <1>7, <1>11, <2>1 DEF NamesInv, Told
    <2>3. ASSUME NEW q \in Pid, Telling(q, n, y) PROVE Telling(q, n, y)' \/ WillKnow(n, y)'
      <3>1. CASE q # p
        BY <1>10, <2>3, <3>1 DEF Telling
      <3>2. CASE q = p
        <4>1. n = o /\ c.step = "tell" /\ c.name = y
          BY <1>1, <1>2, <2>3, <3>2 DEF Telling
        <4>2. Reaches(o)
          BY <1>6, <2>1, <4>1 DEF NamesInv, LinkSound, Reaches
        <4>3. m \in OnTheWay(Other(o))'
          BY <1>7, <2>1, <4>2
        <4>4. m.kind = "register" /\ m.name = y
          BY <1>3, <4>1 DEF Registers
        <4>5. QED
          BY <4>1, <4>3, <4>4 DEF WillKnow, TellsOf
      <3>3. QED
        BY <3>1, <3>2
    <2>4. \A k \in OnTheWay(Other(n)) : k \in OnTheWay(Other(n))'
      BY <1>7, <2>1, OtherNode
    <2>5. QED
      BY <1>11, <2>1, <2>2, <2>3, <2>4, WillKnowStays
  <1>17. QED
    BY <1>8, <1>11, <1>12, <1>13, <1>15, <1>16 DEF NamesInv

-----------------------------------------------------------------------------
(***************************************************************************)
(* The steps of the connection.                                            *)
(***************************************************************************)
\* A step of the connection after which no end is bound to have told.
LEMMA LinkOverInv ==
    ASSUME NamesInv, UNCHANGED globalVars, LinkTypes', LinkSound',
           \A n \in Node : OnTheWay(n)' \subseteq OnTheWay(n),
           dialled' # "open" \/ pending' = Node
    PROVE  NamesInv'
  <1>1. UNCHANGED <<globalNames, nameCall, registrants, dropped>>
    BY DEF globalVars
  <1>2. /\ Grows /\ Remembered
        /\ \A n \in Node, y \in GlobalName : EntrySound(n, y)' /\ (Knows(n, y)' <=> Knows(n, y))
        /\ \A y \in GlobalName : SomeoneKnows(y)'
    BY <1>1, TablesUntouched
  <1>3. NameTypes'
    BY <1>1 DEF NamesInv, NameTypes
  <1>4. \A p \in Pid : CallSound(p)'
    BY <1>1, <1>2, CallStays DEF NamesInv
  <1>5. ASSUME NEW n \in Node PROVE AllHold(n)'
    <2>1. \A m \in OnTheWay(n)' : m \in OnTheWay(n) \/ Holds(m, n)'
      OBVIOUS
    <2>2. QED
      BY <1>2, <2>1, AllHoldStays
  <1>6. \A n \in Node, y \in GlobalName : Told(n, y)'
    BY DEF Told
  <1>7. QED
    BY <1>2, <1>3, <1>4, <1>5, <1>6 DEF NamesInv

LEMMA NoneOnTheWire ==
    ASSUME LinkTypes, wire' = [m \in Node |-> <<>>], inHand' = inHand
    PROVE  /\ wire' \in [Node -> Seq(NameMessage)]
           /\ \A n \in Node : OnTheWay(n)' \subseteq OnTheWay(n)
  <1>1. <<>> \in Seq(NameMessage) /\ Len(<<>>) = 0
    OBVIOUS
  <1>2. wire' \in [Node -> Seq(NameMessage)] /\ \A n \in Node : wire'[n] = <<>>
    BY <1>1
  <1>3. ASSUME NEW n \in Node PROVE {wire'[n][i] : i \in 1 .. Len(wire'[n])} = {}
    BY <1>1, <1>2
  <1>4. QED
    BY <1>2, <1>3 DEF OnTheWay

LEMMA DialInv ==
    ASSUME NamesInv, NEW n \in Node, Dial(n), UNCHANGED globalVars
    PROVE  NamesInv'
  <1>1. /\ dials' = dials + 1 /\ dialled' = "hello" /\ pending' = Node /\ up' = up
        /\ wire' = [m \in Node |-> <<>>] /\ inHand' = inHand
    BY DEF Dial
  <1>2. LinkTypes' /\ LinkSound'
    BY <1>1, NoneOnTheWire DEF NamesInv, LinkTypes, LinkSound
  <1>3. QED
    BY <1>1, <1>2, NoneOnTheWire, LinkOverInv DEF NamesInv

LEMMA LinkAcceptInv ==
    ASSUME NamesInv, NEW n \in Node, LinkAccept(n), UNCHANGED globalVars
    PROVE  NamesInv'
  <1>1. /\ dialled = "hello" /\ dialled' = "open" /\ up' = up \ {n}
        /\ UNCHANGED <<dials, pending, wire, inHand>>
    BY DEF LinkAccept
  <1>2. pending' = Node
    BY <1>1 DEF NamesInv, LinkSound
  <1>3. LinkTypes' /\ LinkSound'
    BY <1>1, <1>2 DEF NamesInv, LinkTypes, LinkSound
  <1>4. \A k \in Node : OnTheWay(k)' = OnTheWay(k)
    BY <1>1 DEF OnTheWay
  <1>5. QED
    BY <1>2, <1>3, <1>4, LinkOverInv

LEMMA LinkLostInv ==
    ASSUME NamesInv, LinkLost, UNCHANGED globalVars
    PROVE  NamesInv'
  <1>1. /\ dialled' = "closed" /\ UNCHANGED <<dials, pending, up, inHand>>
        /\ wire' = [m \in Node |-> <<>>]
    BY DEF LinkLost
  <1>2. LinkTypes' /\ LinkSound'
    BY <1>1, NoneOnTheWire DEF NamesInv, LinkTypes, LinkSound
  <1>3. QED
    BY <1>1, <1>2, NoneOnTheWire, LinkOverInv DEF NamesInv

LEMMA LinkDownInv ==
    ASSUME NamesInv, NEW n \in Node, LinkDown(n), UNCHANGED globalVars
    PROVE  NamesInv'
  <1>1. /\ n \notin pending /\ dialled' = (IF dialled = "open" THEN "closed" ELSE dialled)
        /\ up' = up \ {n} /\ UNCHANGED <<dials, pending, inHand>>
        /\ wire' = [m \in Node |-> <<>>]
    BY DEF LinkDown
  <1>2. LinkTypes' /\ LinkSound' /\ dialled' # "open"
    BY <1>1, NoneOnTheWire DEF NamesInv, LinkTypes, LinkSound
  <1>3. QED
    BY <1>1, <1>2, NoneOnTheWire, LinkOverInv DEF NamesInv

LEMMA LinkReadInv ==
    ASSUME NamesInv, NEW n \in Node, LinkRead(n), UNCHANGED globalVars
    PROVE  NamesInv'
  <1>1. /\ UNCHANGED <<globalNames, nameCall, registrants, dropped>>
        /\ UNCHANGED <<dialled, pending, up, faults>>
    BY DEF globalVars, LinkRead
  <1>2. LinkTypes' /\ \A k \in Node : OnTheWay(k)' = OnTheWay(k)
    BY ReadEffect DEF NamesInv
  <1>3. LinkSound'
    BY <1>1 DEF NamesInv, LinkSound
  <1>4. /\ Grows /\ Remembered
        /\ \A k \in Node, y \in GlobalName : EntrySound(k, y)' /\ (Knows(k, y)' <=> Knows(k, y))
        /\ \A y \in GlobalName : SomeoneKnows(y)'
    BY <1>1, TablesUntouched
  <1>5. NameTypes'
    BY <1>1 DEF NamesInv, NameTypes
  <1>6. \A p \in Pid : CallSound(p)'
    BY <1>1, <1>4, CallStays DEF NamesInv
  <1>7. \A k \in Node : AllHold(k)'
    BY <1>2, <1>4, AllHoldStays
  <1>8. ASSUME NEW k \in Node, NEW y \in GlobalName PROVE Told(k, y)'
    <2>1. SUFFICES ASSUME (faults = {} /\ dialled = "open" /\ k \notin pending /\ y \notin dropped
                             /\ Knows(k, y))'
                   PROVE  WillKnow(k, y)'
      BY DEF Told
    <2>2. WillKnow(k, y)
      BY <1>1, <1>4, <2>1 DEF NamesInv, Told
    <2>3. \A q \in Pid : Telling(q, k, y) => Telling(q, k, y)'
      BY <1>1 DEF Telling
    <2>4. \A m \in OnTheWay(Other(k)) : m \in OnTheWay(Other(k))'
      BY <1>2, OtherNode
    <2>5. QED
      BY <1>4, <2>1, <2>2, <2>3, <2>4, WillKnowStays
  <1>9. QED
    BY <1>2, <1>3, <1>4, <1>5, <1>6, <1>7, <1>8 DEF NamesInv

LEMMA ExchangedMessages ==
    ASSUME NamesInv, NEW n \in Node
    PROVE  /\ Request \in NameMessage /\ Response(globalNames[n]) \in NameMessage
           /\ Holds(Request, Other(n)) /\ Holds(Response(globalNames[n]), Other(n))
  <1>1. NoNameCall.name \in GlobalName /\ globalNames[n] \in [GlobalName -> Pid \cup {Nobody}]
    BY LinkAssumption, NodesAssumption, NamesAssumption DEF NamesInv, NameTypes, NoNameCall
  <1>2. Request \in NameMessage /\ Response(globalNames[n]) \in NameMessage
    BY <1>1 DEF Request, Response, NameMessage
  <1>3. Holds(Request, Other(n))
    BY DEF Holds, Request, TellsOf
  <1>4. ASSUME NEW x \in GlobalName, globalNames[n][x] # Nobody
        PROVE  globalNames[n][x] \in registrants[x] /\ Knows(Other(Other(n)), x)
    BY <1>4, OtherNode DEF NamesInv, EntrySound, Knows
  <1>5. Holds(Response(globalNames[n]), Other(n))
    BY <1>1, <1>4 DEF Holds, Response, TellsOf
  <1>6. QED
    BY <1>2, <1>3, <1>5

LEMMA AttachNamesInv ==
    ASSUME NamesInv, NEW n \in Node, AttachNames(n), UNCHANGED globalVars
    PROVE  NamesInv'
  <1>1. PICK r : r = Response(globalNames[n])
    OBVIOUS
  <1>2. PICK msgs : msgs = <<Request>> \o (IF Empty(n) THEN <<>> ELSE <<r>>)
    OBVIOUS
  <1>3. Request \in NameMessage /\ r \in NameMessage /\ Holds(Request, Other(n)) /\ Holds(r, Other(n))
    BY <1>1, ExchangedMessages
  <1>4. /\ msgs \in Seq(NameMessage)
        /\ {msgs[i] : i \in 1 .. Len(msgs)} \subseteq {Request, r}
        /\ ~Empty(n) => r \in {msgs[i] : i \in 1 .. Len(msgs)}
    <2>1. CASE Empty(n)
      <3>1. msgs = <<Request>>
        BY <1>2, <2>1
      <3>2. QED
        BY <1>3, <2>1, <3>1, Posted
    <2>2. CASE ~Empty(n)
      <3>1. msgs = <<Request>> \o <<r>>
        BY <1>2, <2>2
      <3>2. msgs \in Seq(NameMessage) /\ Len(msgs) = 2 /\ msgs[1] = Request /\ msgs[2] = r
        BY <1>3, <3>1, TwoPosted
      <3>3. \A i \in 1 .. Len(msgs) : i = 1 \/ i = 2
        BY <3>2
      <3>4. 2 \in 1 .. Len(msgs)
        BY <3>2
      <3>5. QED
        BY <3>2, <3>3, <3>4
    <2>3. QED
      BY <2>1, <2>2
  <1>5. /\ n \in pending /\ pending' = pending \ {n} /\ up' = up \cup {n} /\ Post(n, msgs)
        /\ dialled \in {"open", "closed"} /\ UNCHANGED <<dials, dialled, inHand>>
        /\ UNCHANGED <<globalNames, nameCall, registrants, dropped>>
    BY <1>1, <1>2 DEF AttachNames, LinkInsert, globalVars
  <1>6. /\ wire' \in [Node -> Seq(NameMessage)]
        /\ \A k \in Node : k # Other(n) => OnTheWay(k)' = OnTheWay(k)
        /\ OnTheWay(Other(n))' \subseteq OnTheWay(Other(n)) \cup {Request, r}
        /\ faults' = {} =>
              /\ faults = {}
              /\ OnTheWay(Other(n)) \subseteq OnTheWay(Other(n))'
              /\ Reaches(n) /\ ~Empty(n) => r \in OnTheWay(Other(n))'
    <2>1. /\ wire' \in [Node -> Seq(NameMessage)]
          /\ \A k \in Node : k # Other(n) => OnTheWay(k)' = OnTheWay(k)
          /\ OnTheWay(Other(n))' \subseteq OnTheWay(Other(n)) \cup {msgs[i] : i \in 1 .. Len(msgs)}
          /\ faults' = {} =>
                /\ faults = {}
                /\ OnTheWay(Other(n)) \subseteq OnTheWay(Other(n))'
                /\ Reaches(n) => {msgs[i] : i \in 1 .. Len(msgs)} \subseteq OnTheWay(Other(n))'
      BY <1>4, <1>5, PostEffect DEF NamesInv
    <2>2. QED
      BY <1>4, <2>1
  <1>7. LinkTypes' /\ LinkSound'
    BY <1>5, <1>6 DEF NamesInv, LinkTypes, LinkSound
  <1>8. /\ Grows /\ Remembered
        /\ \A k \in Node, y \in GlobalName : EntrySound(k, y)' /\ (Knows(k, y)' <=> Knows(k, y))
        /\ \A y \in GlobalName : SomeoneKnows(y)'
    BY <1>5, TablesUntouched
  <1>9. NameTypes'
    BY <1>5 DEF NamesInv, NameTypes
  <1>10. \A p \in Pid : CallSound(p)'
    BY <1>5, <1>8, CallStays DEF NamesInv
  <1>11. ASSUME NEW k \in Node PROVE AllHold(k)'
    <2>1. Holds(Request, Other(n))' /\ Holds(r, Other(n))'
      <3>1. \A m \in NameMessage : Holds(m, Other(n)) => Holds(m, Other(n))'
        BY <1>8, OtherNode, HoldsStays
      <3>2. /\ Request \in NameMessage => (Holds(Request, Other(n)) => Holds(Request, Other(n))')
            /\ r \in NameMessage => (Holds(r, Other(n)) => Holds(r, Other(n))')
        BY <3>1 DEF Holds, TellsOf, Request
      <3>3. QED
        BY <1>3, <3>2
    <2>2. ASSUME NEW m \in OnTheWay(k)' PROVE m \in OnTheWay(k) \/ Holds(m, k)'
      <3>1. CASE k # Other(n)
        BY <1>6, <2>2, <3>1
      <3>2. CASE k = Other(n)
        BY <1>6, <2>1, <2>2, <3>2 DEF Holds, TellsOf, Request
      <3>3. QED
        BY <3>1, <3>2
    <2>3. QED
      BY <1>8, <2>2, AllHoldStays
  <1>12. ASSUME NEW k \in Node, NEW y \in GlobalName PROVE Told(k, y)'
    <2>1. SUFFICES ASSUME (faults = {} /\ dialled = "open" /\ k \notin pending /\ y \notin dropped
                             /\ Knows(k, y))'
                   PROVE  WillKnow(k, y)'
      BY DEF Told
    <2>2. CASE k = n
      <3>1. Knows(n, y) /\ ~Empty(n)
        BY <1>8, <2>1, <2>2 DEF Empty, Knows
      <3>2. Reaches(n)
        BY <1>5, <2>1 DEF Reaches
      <3>3. r \in OnTheWay(Other(n))'
        BY <1>6, <2>1, <3>1, <3>2
      <3>4. r.kind = "response" /\ r.all[y] # Nobody
        BY <1>1, <3>1 DEF Response, Knows
      <3>5. QED
        BY <2>2, <3>3, <3>4 DEF WillKnow, TellsOf
    <2>3. CASE k # n
      <3>1. WillKnow(k, y)
        BY <1>5, <1>6, <1>8, <2>1, <2>3 DEF NamesInv, Told
      <3>2. \A q \in Pid : Telling(q, k, y) => Telling(q, k, y)'
        BY <1>5 DEF Telling
      <3>3. \A m \in OnTheWay(Other(k)) : m \in OnTheWay(Other(k))'
        BY <1>6, <2>1, OtherNode
      <3>4. QED
        BY <1>8, <2>1, <3>1, <3>2, <3>3, WillKnowStays
    <2>4. QED
      BY <2>2, <2>3
  <1>13. QED
    BY <1>7, <1>8, <1>9, <1>10, <1>11, <1>12 DEF NamesInv

-----------------------------------------------------------------------------
(***************************************************************************)
(* The messages of the other node.                                         *)
(***************************************************************************)
\* The table of n after a message: what it had, what the message brings, or what was dropped.
LEMMA TableEffect ==
    ASSUME NamesInv, NEW n \in Node, NEW h \in inHand[n], HandleName(n, h)
    PROVE  /\ globalNames' \in [Node -> [GlobalName -> Pid \cup {Nobody}]]
           /\ \A k \in Node : k # n => globalNames'[k] = globalNames[k]
           /\ \A x \in GlobalName :
                 \/ globalNames'[n][x] = globalNames[n][x] /\ (TellsOf(h.msg, x) => Knows(n, x))
                 \/ /\ globalNames'[n][x] = Nobody /\ x \in dropped /\ ~TellsOf(h.msg, x)
                 \/ /\ globalNames'[n][x] \in registrants[x] /\ TellsOf(h.msg, x)
  <1>1. PICK m : m = h.msg
    OBVIOUS
  <1>2. m \in OnTheWay(n) /\ m \in NameMessage /\ Holds(m, n)
    <2>1. m \in OnTheWay(n)
      BY <1>1 DEF OnTheWay
    <2>2. QED
      BY <2>1, OnTheWayTypes DEF NamesInv, AllHold
  <1>3. PICK table : table = globalNames[n]
    OBVIOUS
  <1>4. table \in [GlobalName -> Pid \cup {Nobody}] /\ globalNames \in [Node -> [GlobalName -> Pid \cup {Nobody}]]
    BY <1>3 DEF NamesInv, NameTypes
  <1>5. m.name \in GlobalName /\ m.kind \in {"register", "unregister", "request", "response"}
        /\ m.pid \in Pid \cup {Nobody}
    BY <1>2 DEF NameMessage
  <1>6. CASE m.kind = "request"
    <2>1. globalNames' = globalNames
      BY <1>1, <1>6 DEF HandleName
    <2>2. \A x : ~TellsOf(m, x)
      BY <1>6 DEF TellsOf
    <2>3. QED
      BY <1>1, <1>4, <2>1, <2>2
  <1>7. CASE m.kind = "unregister"
    <2>1. Set(n, m.name, Nobody)
      BY <1>1, <1>7 DEF HandleName
    <2>2. \A x : ~TellsOf(m, x)
      BY <1>7 DEF TellsOf
    <2>3. m.name \in dropped
      BY <1>2, <1>7 DEF Holds
    <2>4. /\ globalNames' \in [Node -> [GlobalName -> Pid \cup {Nobody}]]
          /\ globalNames'[n][m.name] = Nobody
          /\ \A k \in Node, y \in GlobalName : k # n \/ y # m.name => globalNames'[k][y] = globalNames[k][y]
      BY <1>5, <2>1, SetEffect DEF NamesInv
    <2>5. \A k \in Node : k # n => globalNames'[k] = globalNames[k]
      BY <1>4, <2>1 DEF Set
    <2>6. QED
      BY <1>1, <2>2, <2>3, <2>4, <2>5
  <1>8. ASSUME NEW others \in [GlobalName -> Pid \cup {Nobody}],
               globalNames' = [globalNames EXCEPT ![n] = OrInsert(table, others)],
               \A x \in GlobalName : TellsOf(m, x) <=> others[x] # Nobody,
               \A x \in GlobalName : TellsOf(m, x) => others[x] \in registrants[x]
        PROVE  /\ globalNames' \in [Node -> [GlobalName -> Pid \cup {Nobody}]]
               /\ \A k \in Node : k # n => globalNames'[k] = globalNames[k]
               /\ \A x \in GlobalName :
                     \/ globalNames'[n][x] = globalNames[n][x] /\ (TellsOf(m, x) => Knows(n, x))
                     \/ globalNames'[n][x] \in registrants[x] /\ TellsOf(m, x)
    <2>1. PICK t : t = OrInsert(table, others)
      OBVIOUS
    <2>2. /\ t \in [GlobalName -> Pid \cup {Nobody}]
          /\ \A x \in GlobalName : t[x] = IF table[x] = Nobody THEN others[x] ELSE table[x]
      BY <1>4, <1>8, <2>1 DEF OrInsert
    <2>3. /\ globalNames'[n] = t /\ globalNames' \in [Node -> [GlobalName -> Pid \cup {Nobody}]]
          /\ \A k \in Node : k # n => globalNames'[k] = globalNames[k]
      BY <1>4, <1>8, <2>1, <2>2
    <2>4. ASSUME NEW x \in GlobalName
          PROVE  \/ globalNames'[n][x] = globalNames[n][x] /\ (TellsOf(m, x) => Knows(n, x))
                 \/ globalNames'[n][x] \in registrants[x] /\ TellsOf(m, x)
      <3>1. CASE table[x] # Nobody
        BY <1>3, <2>2, <2>3, <3>1 DEF Knows
      <3>2. CASE table[x] = Nobody /\ TellsOf(m, x)
        BY <1>8, <2>2, <2>3, <3>2
      <3>3. CASE table[x] = Nobody /\ ~TellsOf(m, x)
        BY <1>3, <1>8, <2>2, <2>3, <3>3
      <3>4. QED
        BY <3>1, <3>2, <3>3
    <2>5. QED
      BY <2>3, <2>4
  <1>9. CASE m.kind = "register"
    <2>1. PICK only : only = [x \in GlobalName |-> IF x = m.name THEN m.pid ELSE Nobody]
      OBVIOUS
    <2>2. only \in [GlobalName -> Pid \cup {Nobody}]
      BY <1>5, <2>1
    <2>3. globalNames' = [globalNames EXCEPT ![n] = OrInsert(table, only)]
      BY <1>1, <1>3, <1>9, <2>1 DEF HandleName
    <2>4. m.pid \in registrants[m.name] /\ m.pid # Nobody
      BY <1>2, <1>5, <1>9, LinkAssumption, NodesAssumption, NamesAssumption DEF Holds, NamesInv, NameTypes
    <2>5. \A x \in GlobalName : TellsOf(m, x) <=> x = m.name
      BY <1>9 DEF TellsOf
    <2>6. \A x \in GlobalName : only[x] = IF x = m.name THEN m.pid ELSE Nobody
      BY <2>1
    <2>7. \A x \in GlobalName : TellsOf(m, x) <=> only[x] # Nobody
      BY <2>4, <2>5, <2>6
    <2>8. \A x \in GlobalName : TellsOf(m, x) => only[x] \in registrants[x]
      BY <2>4, <2>5, <2>6
    <2>9. QED
      BY <1>1, <1>8, <2>2, <2>3, <2>7, <2>8
  <1>10. CASE m.kind = "response"
    <2>1. globalNames' = [globalNames EXCEPT ![n] = OrInsert(table, m.all)]
      BY <1>1, <1>3, <1>10 DEF HandleName, MergedNames
    <2>2. /\ m.all \in [GlobalName -> Pid \cup {Nobody}]
          /\ \A x \in GlobalName : m.all[x] # Nobody => m.all[x] \in registrants[x]
      BY <1>2, <1>10 DEF Holds
    <2>3. \A x \in GlobalName : TellsOf(m, x) <=> m.all[x] # Nobody
      BY <1>10 DEF TellsOf
    <2>4. QED
      BY <1>1, <1>8, <2>1, <2>2, <2>3
  <1>11. QED
    BY <1>5, <1>6, <1>7, <1>9, <1>10

LEMMA HandleNameInv ==
    ASSUME NamesInv, NEW n \in Node, NEW h \in inHand[n], HandleName(n, h),
           UNCHANGED <<nameCall, registrants, dropped>>
    PROVE  NamesInv'
  <1>1. PICK m : m = h.msg
    OBVIOUS
  <1>2. PICK r : r = Response(globalNames[n])
    OBVIOUS
  <1>3. m \in OnTheWay(n) /\ m \in NameMessage /\ Holds(m, n)
    <2>1. m \in OnTheWay(n)
      BY <1>1 DEF OnTheWay
    <2>2. QED
      BY <2>1, OnTheWayTypes DEF NamesInv, AllHold
  <1>4. r \in NameMessage /\ Holds(r, Other(n))
    BY <1>2, ExchangedMessages
  <1>5. PICK msgs : msgs = IF m.kind = "request" THEN <<r>> ELSE <<>>
    OBVIOUS
  <1>6. msgs \in Seq(NameMessage) /\ {msgs[i] : i \in 1 .. Len(msgs)} \subseteq {r}
    <2>1. CASE m.kind = "request"
      BY <1>4, <1>5, <2>1, Posted
    <2>2. CASE m.kind # "request"
      <3>1. msgs = <<>> /\ msgs \in Seq(NameMessage) /\ Len(msgs) = 0
        BY <1>5, <2>2
      <3>2. QED
        BY <3>1
    <2>3. QED
      BY <2>1, <2>2
  <1>7. LinkHandle(n, h, msgs)
    BY <1>1, <1>2, <1>5 DEF HandleName
  <1>8. /\ LinkTypes'
        /\ OnTheWay(n)' \subseteq OnTheWay(n) /\ OnTheWay(n) \subseteq OnTheWay(n)' \cup {m}
        /\ OnTheWay(Other(n)) \subseteq OnTheWay(Other(n))'
        /\ OnTheWay(Other(n))' \subseteq OnTheWay(Other(n)) \cup {r}
        /\ faults' = {} => faults = {}
    <2>1. /\ LinkTypes'
          /\ OnTheWay(n)' \subseteq OnTheWay(n) /\ OnTheWay(n) \subseteq OnTheWay(n)' \cup {h.msg}
          /\ OnTheWay(Other(n)) \subseteq OnTheWay(Other(n))'
          /\ OnTheWay(Other(n))' \subseteq OnTheWay(Other(n)) \cup {msgs[i] : i \in 1 .. Len(msgs)}
          /\ faults' = {} => faults = {}
      BY <1>6, <1>7, HandleEffect DEF NamesInv
    <2>2. QED
      BY <1>1, <1>6, <2>1
  <1>9. UNCHANGED <<dialled, pending, up>>
    BY <1>7 DEF LinkHandle
  <1>10. LinkSound'
    BY <1>9 DEF NamesInv, LinkSound
  <1>11. /\ globalNames' \in [Node -> [GlobalName -> Pid \cup {Nobody}]]
         /\ \A k \in Node : k # n => globalNames'[k] = globalNames[k]
         /\ \A x \in GlobalName :
               \/ globalNames'[n][x] = globalNames[n][x] /\ (TellsOf(m, x) => Knows(n, x))
               \/ globalNames'[n][x] = Nobody /\ x \in dropped /\ ~TellsOf(m, x)
               \/ globalNames'[n][x] \in registrants[x] /\ TellsOf(m, x)
    BY <1>1, TableEffect
  <1>12. NameTypes'
    BY <1>11 DEF NamesInv, NameTypes
  <1>13. \A x \in GlobalName : Nobody \notin registrants[x]
    BY LinkAssumption, NodesAssumption, NamesAssumption DEF NamesInv, NameTypes
  <1>14. Grows
    BY DEF Grows
  <1>15. ASSUME NEW x \in GlobalName PROVE TellsOf(m, x) => Knows(n, x)'
    BY <1>11, <1>13 DEF Knows
  <1>16. ASSUME NEW x \in GlobalName \ dropped
         PROVE  /\ Knows(n, x) => Knows(n, x)'
                /\ Knows(n, x)' => Knows(n, x) \/ TellsOf(m, x)
    BY <1>11, <1>13 DEF Knows
  <1>17. \A k \in Node, x \in GlobalName : k # n => (Knows(k, x)' <=> Knows(k, x))
    BY <1>11 DEF Knows
  <1>18. Remembered
    BY <1>16, <1>17 DEF Remembered
  <1>19. \A p \in Pid : CallSound(p)'
    BY <1>14, <1>18, CallStays DEF NamesInv
  <1>20. \A x \in GlobalName : SomeoneKnows(x)'
    BY <1>14, <1>18, SomeoneStays DEF NamesInv
  <1>21. ASSUME NEW k \in Node PROVE AllHold(k)'
    <2>1. Holds(r, Other(n))'
      BY <1>4, <1>14, <1>18, OtherNode, HoldsStays
    <2>2. ASSUME NEW g \in OnTheWay(k)' PROVE g \in OnTheWay(k) \/ Holds(g, k)'
      BY <1>8, <2>1, <2>2, OtherNode
    <2>3. QED
      BY <1>14, <1>18, <2>2, AllHoldStays
  <1>22. ASSUME NEW k \in Node, NEW x \in GlobalName PROVE EntrySound(k, x)'
    <2>1. EntrySound(k, x)
      BY DEF NamesInv
    <2>2. CASE k # n
      BY <1>11, <2>1, <2>2 DEF EntrySound, Knows
    <2>3. CASE k = n
      BY <1>11, <2>1, <2>3 DEF EntrySound, Knows
    <2>4. QED
      BY <2>2, <2>3
  <1>23. ASSUME NEW k \in Node, NEW x \in GlobalName PROVE Told(k, x)'
    <2>1. SUFFICES ASSUME (faults = {} /\ dialled = "open" /\ k \notin pending /\ x \notin dropped
                             /\ Knows(k, x))'
                   PROVE  WillKnow(k, x)'
      BY DEF Told
    <2>2. CASE ~Knows(k, x)
      <3>1. k = n /\ TellsOf(m, x)
        BY <1>16, <1>17, <2>1, <2>2
      <3>2. Knows(Other(n), x)
        BY <1>3, <2>1, <3>1 DEF Holds
      <3>3. Knows(Other(n), x)'
        BY <1>18, <2>1, <3>2, OtherNode DEF Remembered
      <3>4. QED
        BY <3>1, <3>3 DEF WillKnow
    <2>3. CASE Knows(k, x)
      <3>1. WillKnow(k, x)
        BY <1>8, <1>9, <2>1, <2>3 DEF NamesInv, Told
      <3>2. \A q \in Pid : Telling(q, k, x) => Telling(q, k, x)'
        BY DEF Telling
      <3>3. ASSUME NEW g \in OnTheWay(Other(k)), TellsOf(g, x), g \notin OnTheWay(Other(k))'
            PROVE  WillKnow(k, x)'
        <4>1. Other(k) = n /\ g = m
          BY <1>8, <3>3, OtherNode
        <4>2. Knows(Other(k), x)'
          BY <1>15, <3>3, <4>1
        <4>3. QED
          BY <4>2 DEF WillKnow
      <3>4. QED
        BY <1>18, <2>1, <3>1, <3>2, <3>3, WillKnowStays
    <2>4. QED
      BY <2>2, <2>3
  <1>24. QED
    BY <1>8, <1>10, <1>12, <1>19, <1>20, <1>21, <1>22, <1>23 DEF NamesInv

-----------------------------------------------------------------------------
LEMMA NothingOnTheWay ==
    ASSUME NEW n \in Node, Len(wire[n]) = 0, inHand[n] = {}
    PROVE  OnTheWay(n) = {}
  <1>1. \A i : i \notin 1 .. Len(wire[n])
    OBVIOUS
  <1>2. QED
    BY <1>1 DEF OnTheWay

LEMMA NamesInitInv == GlobalInit => NamesInv
  <1> SUFFICES ASSUME GlobalInit PROVE NamesInv
    OBVIOUS
  <1>1. /\ dials = 0 /\ dialled = "none" /\ pending = {} /\ up = {}
        /\ wire = [n \in Node |-> <<>>] /\ inHand = [n \in Node |-> {}]
        /\ globalNames = [n \in Node |-> [x \in GlobalName |-> Nobody]]
        /\ nameCall = [p \in Pid |-> NoNameCall]
        /\ registrants = [x \in GlobalName |-> {}] /\ dropped = {}
    BY DEF GlobalInit, LinkInit
  <1>2. <<>> \in Seq(NameMessage) /\ Len(<<>>) = 0
    OBVIOUS
  <1>3. wire \in [Node -> Seq(NameMessage)]
    BY <1>1, <1>2
  <1>4. LinkTypes /\ LinkSound
    BY <1>1, <1>3 DEF LinkTypes, LinkSound
  <1>5. NoNameCall \in [name : GlobalName, step : {"none", "insert", "tell", "told"}]
        /\ NoNameCall.step = "none"
    BY LinkAssumption, NodesAssumption, NamesAssumption DEF NoNameCall
  <1>6. NameTypes
    BY <1>1, <1>5 DEF NameTypes
  <1>7. \A p \in Pid : CallSound(p)
    BY <1>1, <1>5 DEF CallSound
  <1>8. \A n \in Node : OnTheWay(n) = {}
    <2>1. \A n \in Node : Len(wire[n]) = 0 /\ inHand[n] = {}
      BY <1>1, <1>2
    <2>2. QED
      BY <2>1, NothingOnTheWay
  <1>9. \A n \in Node, x \in GlobalName : ~Knows(n, x)
    BY <1>1 DEF Knows
  <1>10. QED
    BY <1>1, <1>4, <1>6, <1>7, <1>8, <1>9
       DEF NamesInv, SomeoneKnows, AllHold, EntrySound, Told

LEMMA NamesRestUntouched ==
    ASSUME NamesInv, UNCHANGED <<linkVars, globalVars>>
    PROVE  NamesInv'
  <1>1. UNCHANGED <<dials, dialled, acceptor, pending, up, wire, inHand, faults>>
    BY DEF linkVars
  <1>2. UNCHANGED <<globalNames, nameCall, registrants, dropped>>
    BY DEF globalVars
  <1>3. LinkTypes' /\ NameTypes' /\ LinkSound'
    BY <1>1, <1>2 DEF NamesInv, LinkTypes, NameTypes, LinkSound
  <1>4. /\ Grows /\ Remembered
        /\ \A k \in Node, y \in GlobalName : EntrySound(k, y)' /\ (Knows(k, y)' <=> Knows(k, y))
        /\ \A y \in GlobalName : SomeoneKnows(y)'
    BY <1>2, TablesUntouched
  <1>5. \A p \in Pid : CallSound(p)'
    BY <1>2, <1>4, CallStays DEF NamesInv
  <1>6. \A n \in Node : OnTheWay(n)' = OnTheWay(n)
    BY <1>1 DEF OnTheWay
  <1>7. \A k \in Node : AllHold(k)'
    BY <1>4, <1>6, AllHoldStays
  <1>8. ASSUME NEW k \in Node, NEW y \in GlobalName PROVE Told(k, y)'
    <2>1. SUFFICES ASSUME (faults = {} /\ dialled = "open" /\ k \notin pending /\ y \notin dropped
                             /\ Knows(k, y))'
                   PROVE  WillKnow(k, y)'
      BY DEF Told
    <2>2. WillKnow(k, y)
      BY <1>1, <1>2, <1>4, <2>1 DEF NamesInv, Told
    <2>3. \A q \in Pid : Telling(q, k, y) => Telling(q, k, y)'
      BY <1>2 DEF Telling
    <2>4. \A m \in OnTheWay(Other(k)) : m \in OnTheWay(Other(k))'
      BY <1>6, OtherNode
    <2>5. QED
      BY <1>4, <2>1, <2>2, <2>3, <2>4, WillKnowStays
  <1>9. QED
    BY <1>3, <1>4, <1>5, <1>7, <1>8 DEF NamesInv

LEMMA NamesNextInv == NamesInv /\ [GlobalNext]_<<linkVars, globalVars>> => NamesInv'
  <1> SUFFICES ASSUME NamesInv, [GlobalNext]_<<linkVars, globalVars>>
               PROVE  NamesInv'
    OBVIOUS
  <1>1. CASE UNCHANGED <<linkVars, globalVars>>
    BY <1>1, NamesRestUntouched
  <1>2. QED
    BY <1>1, RegisterInv, UnregisterInv, InsertNameInv, TellNameInv, HandleNameInv, DialInv,
       LinkAcceptInv, AttachNamesInv, LinkLostInv, LinkDownInv, LinkReadInv DEF GlobalNext

(***************************************************************************)
(* NameIsKnown, for every number of processes, names, connections and      *)
(* calls: once the connection has settled, a name that someone registered  *)
(* and no one unregistered is known to both nodes, each time as a process  *)
(* that registered it.                                                     *)
(***************************************************************************)
THEOREM NamesAreKnown == NamesSpec => []NameIsKnown
  <1>1. ASSUME NamesInv PROVE NameIsKnown
    <2>1. SUFFICES ASSUME LinkSettled, \A p \in Pid : Idle(p),
                          NEW x \in GlobalName \ dropped, NEW n \in Node
                   PROVE  globalNames[n][x] \in (IF registrants[x] = {} THEN {Nobody} ELSE registrants[x])
      BY DEF NameIsKnown
    <2>2. \A k \in Node : OnTheWay(k) = {}
      <3>1. \A k \in Node : Len(wire[k]) = 0 /\ inHand[k] = {}
        BY <2>1 DEF LinkSettled
      <3>2. QED
        BY <3>1, NothingOnTheWay
    <2>3. \A k \in Node : Knows(k, x) => Knows(Other(k), x)
      BY <1>1, <2>1, <2>2, OtherNode DEF NamesInv, Told, WillKnow, LinkSettled, Telling, Idle
    <2>4. registrants[x] # {} => Knows(n, x)
      BY <1>1, <2>1, <2>3, OtherNode DEF NamesInv, SomeoneKnows
    <2>5. Knows(n, x) => globalNames[n][x] \in registrants[x]
      BY <1>1 DEF NamesInv, EntrySound
    <2>6. QED
      BY <2>4, <2>5 DEF Knows
  <1>2. GlobalInit => NamesInv
    BY NamesInitInv
  <1>3. NamesInv /\ [GlobalNext]_<<linkVars, globalVars>> => NamesInv'
    BY NamesNextInv
  <1>4. QED
    BY <1>1, <1>2, <1>3, PTL DEF NamesSpec

-----------------------------------------------------------------------------
(***************************************************************************)
(* ProcessGroups, on one thread per node.  What a node will know of the    *)
(* other is what the last message on its way that decides a membership     *)
(* says, or what it knows; and this is what the other knows of itself,     *)
(* but for what a call is about to tell.                                   *)
(***************************************************************************)
GroupsSpec == GroupsInit /\ [][GroupsNext]_<<linkVars, groupVars>>

Pair == Group \X Pid
Far(n) == {e \in Pair : Home[e[2]] # n}

CallOps == {"none", "join", "leave", "leave_all"}
CallSteps == {"none", "insert", "index", "take", "remove", "drop", "unindex", "tell"}
PgCall == [op : CallOps, group : Group \cup {"none"}, rest : SUBSET Group, step : CallSteps]

GroupMessage ==
    [kind : {"join", "leave", "leave_all", "request", "response"}, group : Group \cup {"none"},
     pid : Pid \cup {NoPid}, all : SUBSET Pair]

\* A message on its way to n speaks of processes of the other node.
Fits(m, n) ==
    /\ m.kind \in {"join", "leave", "leave_all"} => m.pid \in Pid /\ Home[m.pid] # n
    /\ m.kind = "join" => m.group \in Group
    /\ m.all \subseteq Far(n)

GroupLinkTypes ==
    /\ dials \in Nat /\ acceptor \in Node
    /\ pending \subseteq Node /\ up \subseteq Node
    /\ wire \in [Node -> Seq(GroupMessage)]
    /\ inHand \in [Node -> SUBSET [conn : Nat, msg : GroupMessage]]

GroupTypes ==
    /\ groups \in [Node -> SUBSET Pair]
    /\ pidToGroups \in [Node -> SUBSET Pair]
    /\ pgCall \in [Pid -> PgCall]
    /\ isIn \subseteq Pair

AllFit(n) ==
    /\ \A i \in 1 .. Len(wire[n]) : Fits(wire[n][i], n)
    /\ \A h \in inHand[n] : Fits(h.msg, n) /\ h.conn <= dials
    /\ \A h, k \in inHand[n] : h.conn = k.conn => h = k

GroupLinkSound ==
    /\ dialled = "hello" =>
          /\ pending = Node /\ Other(acceptor) \notin up
          /\ \A n \in Node : wire[n] = <<>> /\ \A h \in inHand[n] : h.conn # dials
    /\ dialled = "open" => up = Node \ pending

\* A call is at a step of its function.
CallIsSound(p) ==
    LET c == pgCall[p] IN
    /\ c.step = "none" <=> c = NoCall
    /\ c.step # "none" => c.group \in Group /\ c.op # "none"
    /\ c.op = "join" => c.step \in {"insert", "index", "tell"}
    /\ c.op = "leave" => c.step \in {"remove", "drop", "unindex", "tell"}
    /\ c.op = "leave_all" => c.step \in {"take", "remove", "drop", "tell"}
    /\ c.op = "leave_all" /\ c.step = "tell" => c.rest = {}
    /\ c.step = "drop" => In(groups[Home[p]], c.group) = {}

\* What the tables of its node have of a process, by the step its call is at.
EntryIsSound(e) ==
    LET c == pgCall[e[2]]
        listed == e \in groups[Home[e[2]]]
        indexed == e \in pidToGroups[Home[e[2]]]
        sworn == e \in isIn
        its == c.group = e[1]
    IN /\ c.step = "none" \/ (c.op # "leave_all" /\ ~its) => (listed <=> sworn) /\ (indexed <=> sworn)
       /\ c.op = "join" /\ its =>
             /\ c.step \in {"index", "tell"} => listed
             /\ c.step = "tell" => indexed
       /\ c.op = "leave" /\ its =>
             /\ ~sworn
             /\ c.step # "remove" => ~listed
             /\ c.step = "tell" => ~indexed
       /\ c.op = "leave_all" =>
             /\ ~sworn
             /\ c.step = "take" => (listed <=> indexed)
             /\ c.step # "take" => ~indexed /\ (listed => e[1] \in c.rest \/ (c.step = "remove" /\ its))

OneCall == \A p, q \in Pid : Home[p] = Home[q] /\ pgCall[p].step # "none" /\ pgCall[q].step # "none" => p = q

\* What n has of the other node is in both maps or in neither.
FarAgrees(n) == \A e \in Far(n) : e \in groups[n] <=> e \in pidToGroups[n]

\* Every message that n has read is of this connection.
Clean(n) == faults = {} /\ \A h \in inHand[n] : h.conn = dials

Ignorant(n) == \A e \in Far(n) : e \notin groups[n]
DownIsEmpty(n) == faults = {} /\ n \notin up => Ignorant(n)
NothingSent(n) ==
    Clean(n) /\ dialled = "open" /\ Other(n) \in pending =>
        wire[n] = <<>> /\ inHand[n] = {} /\ Ignorant(n)

Decides(m, e) ==
    \/ m.kind \in {"join", "leave"} /\ m.group = e[1] /\ m.pid = e[2]
    \/ m.kind = "leave_all" /\ m.pid = e[2]
    \/ m.kind = "response"
Says(m, e) ==
    \/ m.kind = "join" /\ m.group = e[1] /\ m.pid = e[2]
    \/ m.kind = "response" /\ e \in m.all

\* The last message that decides does, or else what was known before.
LastSays(s, e) ==
    \E i \in 1 .. Len(s) : Says(s[i], e) /\ \A j \in 1 .. Len(s) : j > i => ~Decides(s[j], e)
Undecided(s, e) == \A i \in 1 .. Len(s) : ~Decides(s[i], e)
After(s, e, before) == LastSays(s, e) \/ (Undecided(s, e) /\ e \in before)

\* What n knows when it has handled what it has in hand.
Base(n) ==
    {e \in Far(n) : \/ \E h \in inHand[n] : Says(h.msg, e)
                    \/ (\A h \in inHand[n] : ~Decides(h.msg, e)) /\ e \in groups[n]}

\* A call is about to tell of this membership.
InFlux(e) ==
    LET c == pgCall[e[2]]
    IN c.step \notin {"none", "take"} /\ (c.op = "leave_all" \/ c.group = e[1])

WillAgree(n) ==
    Clean(n) /\ dialled = "open" /\ Other(n) \notin pending =>
        \A e \in Far(n) : ~InFlux(e) => (After(wire[n], e, Base(n)) <=> e \in groups[Other(n)])

FarSound(n) == FarAgrees(n) /\ DownIsEmpty(n) /\ NothingSent(n) /\ WillAgree(n)

GroupsInv ==
    /\ GroupLinkTypes /\ GroupTypes /\ GroupLinkSound /\ OneCall
    /\ \A p \in Pid : CallIsSound(p)
    /\ \A e \in Pair : EntryIsSound(e)
    /\ \A n \in Node : AllFit(n) /\ FarSound(n)

-----------------------------------------------------------------------------
(***************************************************************************)
(* Pairs, and what a sequence of messages says.                            *)
(***************************************************************************)
LEMMA PairIs ==
    ASSUME NEW e \in Pair
    PROVE  /\ e[1] \in Group /\ e[2] \in Pid /\ Home[e[2]] \in Node /\ e = <<e[1], e[2]>>
           /\ \A n \in Node : e \in Far(n) <=> Home[e[2]] # n
  <1>1. e[1] \in Group /\ e[2] \in Pid /\ e = <<e[1], e[2]>>
    BY DEF Pair
  <1>2. Home[e[2]] \in Node
    BY <1>1, LinkAssumption, NodesAssumption
  <1>3. QED
    BY <1>1, <1>2 DEF Far

LEMMA FarIs ==
    ASSUME NEW n \in Node, NEW e \in Far(n)
    PROVE  e \in Pair /\ e[2] \in Pid /\ Home[e[2]] = Other(n)
  <1>1. e \in Pair /\ Home[e[2]] # n
    BY DEF Far
  <1>2. QED
    BY <1>1, PairIs, OtherNode

LEMMA SaysDecides ==
    ASSUME NEW m, NEW e, Says(m, e)
    PROVE  Decides(m, e)
  BY DEF Says, Decides

LEMMA AfterNothing ==
    ASSUME NEW e, NEW before
    PROVE  After(<<>>, e, before) <=> e \in before
  BY DEF After, LastSays, Undecided

LEMMA AfterOne ==
    ASSUME NEW s, NEW m, NEW e, NEW before, Len(s) = 1, s[1] = m
    PROVE  After(s, e, before) <=> Says(m, e) \/ (~Decides(m, e) /\ e \in before)
  <1>1. \A i : i \in 1 .. Len(s) <=> i = 1
    OBVIOUS
  <1>2. LastSays(s, e) <=> Says(m, e)
    BY <1>1 DEF LastSays
  <1>3. Undecided(s, e) <=> ~Decides(m, e)
    BY <1>1 DEF Undecided
  <1>4. QED
    BY <1>2, <1>3, SaysDecides DEF After

\* A message more at the end has the last word.
LEMMA AfterMore ==
    ASSUME NEW s, NEW t, NEW m, NEW e, NEW before,
           Len(s) \in Nat, Len(t) = Len(s) + 1, t[Len(s) + 1] = m,
           \A i \in 1 .. Len(s) : t[i] = s[i]
    PROVE  After(t, e, before) <=> Says(m, e) \/ (~Decides(m, e) /\ After(s, e, before))
  <1>1. \A i : i \in 1 .. Len(t) <=> i \in 1 .. Len(s) \/ i = Len(s) + 1
    OBVIOUS
  <1>2. Undecided(t, e) <=> Undecided(s, e) /\ ~Decides(m, e)
    BY <1>1 DEF Undecided
  <1>3. ASSUME Says(m, e) PROVE LastSays(t, e)
    <2>1. Len(s) + 1 \in 1 .. Len(t) /\ \A j \in 1 .. Len(t) : ~(j > Len(s) + 1)
      OBVIOUS
    <2>2. QED
      BY <1>3, <2>1 DEF LastSays
  <1>4. ASSUME LastSays(t, e) PROVE Says(m, e) \/ (~Decides(m, e) /\ LastSays(s, e))
    <2>1. PICK i \in 1 .. Len(t) : Says(t[i], e) /\ \A j \in 1 .. Len(t) : j > i => ~Decides(t[j], e)
      BY <1>4 DEF LastSays
    <2>2. CASE i = Len(s) + 1
      BY <2>1, <2>2
    <2>3. CASE i \in 1 .. Len(s)
      <3>1. Says(s[i], e)
        BY <2>1, <2>3
      <3>2. ~Decides(m, e)
        BY <1>1, <2>1, <2>3
      <3>3. ASSUME NEW j \in 1 .. Len(s), j > i PROVE ~Decides(s[j], e)
        BY <1>1, <2>1, <3>3
      <3>4. QED
        BY <2>3, <3>1, <3>2, <3>3 DEF LastSays
    <2>4. QED
      BY <1>1, <2>2, <2>3
  <1>5. ASSUME ~Decides(m, e), LastSays(s, e) PROVE LastSays(t, e)
    <2>1. PICK i \in 1 .. Len(s) : Says(s[i], e) /\ \A j \in 1 .. Len(s) : j > i => ~Decides(s[j], e)
      BY <1>5 DEF LastSays
    <2>2. i \in 1 .. Len(t) /\ Says(t[i], e)
      BY <2>1
    <2>3. ASSUME NEW j \in 1 .. Len(t), j > i PROVE ~Decides(t[j], e)
      BY <1>1, <1>5, <2>1, <2>3
    <2>4. QED
      BY <2>2, <2>3 DEF LastSays
  <1>6. QED
    BY <1>2, <1>3, <1>4, <1>5, SaysDecides DEF After

\* The first message decides before the others.
LEMMA AfterFirst ==
    ASSUME NEW s, NEW t, NEW e, NEW before, NEW then,
           Len(s) \in Nat, Len(s) > 0, Len(t) = Len(s) - 1,
           \A i \in 1 .. Len(t) : t[i] = s[i + 1],
           e \in then <=> Says(s[1], e) \/ (~Decides(s[1], e) /\ e \in before)
    PROVE  After(s, e, before) <=> After(t, e, then)
  <1>1. \A i \in 1 .. Len(t) : i + 1 \in 1 .. Len(s)
    OBVIOUS
  <1>2. ASSUME NEW i \in 1 .. Len(s), i # 1 PROVE i - 1 \in 1 .. Len(t) /\ t[i - 1] = s[i]
    BY <1>2
  <1>3. Undecided(s, e) <=> Undecided(t, e) /\ ~Decides(s[1], e)
    <2>1. Undecided(s, e) => Undecided(t, e)
      BY <1>1 DEF Undecided
    <2>2. 1 \in 1 .. Len(s)
      OBVIOUS
    <2>3. Undecided(t, e) /\ ~Decides(s[1], e) => Undecided(s, e)
      BY <1>2 DEF Undecided
    <2>4. QED
      BY <2>1, <2>2, <2>3 DEF Undecided
  <1>4. ASSUME LastSays(t, e) PROVE LastSays(s, e)
    <2>1. PICK i \in 1 .. Len(t) : Says(t[i], e) /\ \A j \in 1 .. Len(t) : j > i => ~Decides(t[j], e)
      BY <1>4 DEF LastSays
    <2>2. i + 1 \in 1 .. Len(s) /\ Says(s[i + 1], e)
      BY <1>1, <2>1
    <2>3. ASSUME NEW j \in 1 .. Len(s), j > i + 1 PROVE ~Decides(s[j], e)
      <3>1. j # 1 /\ j - 1 > i
        BY <2>3
      <3>2. QED
        BY <1>2, <2>1, <3>1
    <2>4. QED
      BY <2>2, <2>3 DEF LastSays
  <1>5. ASSUME LastSays(s, e) PROVE LastSays(t, e) \/ (Says(s[1], e) /\ Undecided(t, e))
    <2>1. PICK i \in 1 .. Len(s) : Says(s[i], e) /\ \A j \in 1 .. Len(s) : j > i => ~Decides(s[j], e)
      BY <1>5 DEF LastSays
    <2>2. CASE i = 1
      <3>1. ASSUME NEW j \in 1 .. Len(t) PROVE ~Decides(t[j], e)
        <4>1. j + 1 \in 1 .. Len(s) /\ j + 1 > i /\ t[j] = s[j + 1]
          BY <2>2
        <4>2. QED
          BY <2>1, <4>1
      <3>2. QED
        BY <2>1, <2>2, <3>1 DEF Undecided
    <2>3. CASE i # 1
      <3>1. i - 1 \in 1 .. Len(t) /\ Says(t[i - 1], e)
        BY <1>2, <2>1, <2>3
      <3>2. ASSUME NEW j \in 1 .. Len(t), j > i - 1 PROVE ~Decides(t[j], e)
        <4>1. j + 1 \in 1 .. Len(s) /\ j + 1 > i /\ t[j] = s[j + 1]
          BY <3>2
        <4>2. QED
          BY <2>1, <4>1
      <3>3. QED
        BY <3>1, <3>2 DEF LastSays
    <2>4. QED
      BY <2>2, <2>3
  <1>6. ASSUME Says(s[1], e), Undecided(t, e) PROVE LastSays(s, e)
    <2>1. 1 \in 1 .. Len(s)
      OBVIOUS
    <2>2. ASSUME NEW j \in 1 .. Len(s), j > 1 PROVE ~Decides(s[j], e)
      BY <1>2, <1>6, <2>2 DEF Undecided
    <2>3. QED
      BY <1>6, <2>1, <2>2 DEF LastSays
  <1>7. QED
    BY <1>3, <1>4, <1>5, <1>6, SaysDecides DEF After

-----------------------------------------------------------------------------
(***************************************************************************)
(* What a step leaves alone.                                               *)
(***************************************************************************)
SameTables(n) ==
    \A e \in Far(n) : (e \in groups'[n] <=> e \in groups[n]) /\ (e \in pidToGroups'[n] <=> e \in pidToGroups[n])
\* The other node changes only what it is about to tell.
OnlyInFlux(n) ==
    \A e \in Far(n) : ~InFlux(e)' => ~InFlux(e) /\ (e \in groups'[Other(n)] <=> e \in groups[Other(n)])

LEMMA SameBase ==
    ASSUME NEW n \in Node, inHand'[n] = inHand[n], SameTables(n)
    PROVE  Base(n)' = Base(n) /\ (FarAgrees(n)' <=> FarAgrees(n)) /\ (Ignorant(n)' <=> Ignorant(n))
  <1>1. Base(n)' = Base(n)
    BY DEF Base, SameTables
  <1>2. QED
    BY <1>1 DEF FarAgrees, Ignorant, SameTables

LEMMA FarUntouched ==
    ASSUME NEW n \in Node, FarSound(n), SameTables(n), OnlyInFlux(n),
           wire'[n] = wire[n], inHand'[n] = inHand[n], UNCHANGED <<dials, dialled>>,
           faults' = {} => faults = {}, n \notin up' => n \notin up,
           Other(n) \in pending' <=> Other(n) \in pending
    PROVE  FarSound(n)'
  <1>1. Base(n)' = Base(n) /\ (FarAgrees(n)' <=> FarAgrees(n)) /\ (Ignorant(n)' <=> Ignorant(n))
    BY SameBase
  <1>2. Clean(n)' => Clean(n)
    BY DEF Clean
  <1>3. DownIsEmpty(n)' /\ NothingSent(n)'
    BY <1>1, <1>2 DEF FarSound, DownIsEmpty, NothingSent
  <1>4. WillAgree(n)'
    <2>1. SUFFICES ASSUME Clean(n)', dialled' = "open", Other(n) \notin pending',
                          NEW e \in Far(n), ~InFlux(e)'
                   PROVE  After(wire'[n], e, Base(n)') <=> e \in groups'[Other(n)]
      BY DEF WillAgree
    <2>2. ~InFlux(e) /\ (e \in groups'[Other(n)] <=> e \in groups[Other(n)])
      BY <2>1 DEF OnlyInFlux
    <2>3. After(wire[n], e, Base(n)) <=> e \in groups[Other(n)]
      BY <1>2, <2>1, <2>2 DEF FarSound, WillAgree
    <2>4. QED
      BY <1>1, <2>2, <2>3
  <1>5. QED
    BY <1>1, <1>3, <1>4 DEF FarSound

\* A step of process p in its call: of the tables only what they have of p changes.
Alone(p) == \A q \in Pid : Home[q] = Home[p] /\ q # p => pgCall[q].step = "none"
OnlyOf(p) ==
    /\ \A q \in Pid : q # p => pgCall'[q] = pgCall[q]
    /\ \A k \in Node : k # Home[p] => groups'[k] = groups[k] /\ pidToGroups'[k] = pidToGroups[k]
    /\ \A e \in Pair : e[2] # p =>
          /\ e \in groups'[Home[p]] <=> e \in groups[Home[p]]
          /\ e \in pidToGroups'[Home[p]] <=> e \in pidToGroups[Home[p]]
          /\ e \in isIn' <=> e \in isIn

OthersSame(n, p) ==
    \A e \in Far(n) : e[2] # p =>
        (InFlux(e)' <=> InFlux(e)) /\ (e \in groups'[Other(n)] <=> e \in groups[Other(n)])

LEMMA OthersStaySound ==
    ASSUME GroupsInv, NEW p \in Pid, Alone(p), OnlyOf(p), GroupTypes'
    PROVE  /\ OneCall'
           /\ \A q \in Pid : q # p => CallIsSound(q)'
           /\ \A e \in Pair : e[2] # p => EntryIsSound(e)'
           /\ \A n \in Node : SameTables(n)
           /\ \A n \in Node : OthersSame(n, p)
  <1>1. OneCall'
    BY DEF GroupsInv, OneCall, Alone, OnlyOf
  <1>2. ASSUME NEW q \in Pid, q # p PROVE CallIsSound(q)'
    <2>1. pgCall'[q] = pgCall[q] /\ CallIsSound(q) /\ Home[q] \in Node
      BY <1>2, LinkAssumption, NodesAssumption DEF OnlyOf, GroupsInv
    <2>2. CASE Home[q] = Home[p]
      <3>1. pgCall[q].step = "none"
        BY <1>2, <2>2 DEF Alone
      <3>2. QED
        BY <2>1, <3>1 DEF CallIsSound
    <2>3. CASE Home[q] # Home[p]
      <3>1. groups'[Home[q]] = groups[Home[q]]
        BY <2>1, <2>3 DEF OnlyOf
      <3>2. QED
        BY <2>1, <3>1 DEF CallIsSound
    <2>4. QED
      BY <2>2, <2>3
  <1>3. ASSUME NEW e \in Pair, e[2] # p PROVE EntryIsSound(e)'
    <2>1. EntryIsSound(e) /\ e[2] \in Pid /\ Home[e[2]] \in Node
      BY PairIs DEF GroupsInv
    <2>2. pgCall'[e[2]] = pgCall[e[2]] /\ (e \in isIn' <=> e \in isIn)
      BY <1>3, <2>1 DEF OnlyOf
    <2>3. /\ e \in groups'[Home[e[2]]] <=> e \in groups[Home[e[2]]]
          /\ e \in pidToGroups'[Home[e[2]]] <=> e \in pidToGroups[Home[e[2]]]
      BY <1>3, <2>1 DEF OnlyOf
    <2>4. QED
      BY <2>1, <2>2, <2>3 DEF EntryIsSound
  <1>4. ASSUME NEW n \in Node PROVE SameTables(n)
    <2>1. ASSUME NEW e \in Far(n)
          PROVE  (e \in groups'[n] <=> e \in groups[n]) /\ (e \in pidToGroups'[n] <=> e \in pidToGroups[n])
      <3>1. e \in Pair /\ Home[e[2]] # n
        BY DEF Far
      <3>2. QED
        BY <3>1 DEF OnlyOf
    <2>2. QED
      BY <2>1 DEF SameTables
  <1>5. ASSUME NEW n \in Node, NEW e \in Far(n), e[2] # p
        PROVE  (InFlux(e)' <=> InFlux(e)) /\ (e \in groups'[Other(n)] <=> e \in groups[Other(n)])
    <2>1. e \in Pair /\ e[2] \in Pid /\ Other(n) \in Node
      BY FarIs, OtherNode
    <2>2. QED
      BY <1>5, <2>1 DEF InFlux, OnlyOf
  <1>6. \A n \in Node : OthersSame(n, p)
    BY <1>5 DEF OthersSame
  <1>7. QED
    BY <1>1, <1>2, <1>3, <1>4, <1>6

\* A step of a call that sends nothing.
LEMMA CallStepInv ==
    ASSUME GroupsInv, NEW p \in Pid, Alone(p), OnlyOf(p), GroupTypes', UNCHANGED linkVars,
           CallIsSound(p)',
           \A e \in Pair : e[2] = p =>
               /\ EntryIsSound(e)'
               /\ ~InFlux(e)' => ~InFlux(e) /\ (e \in groups'[Home[p]] <=> e \in groups[Home[p]])
    PROVE  GroupsInv'
  <1>1. UNCHANGED <<dials, dialled, acceptor, pending, up, wire, inHand, faults>>
    BY DEF linkVars
  <1>2. GroupLinkTypes' /\ GroupLinkSound' /\ \A n \in Node : AllFit(n)'
    BY <1>1 DEF GroupsInv, GroupLinkTypes, GroupLinkSound, AllFit
  <1>3. /\ OneCall'
        /\ \A q \in Pid : q # p => CallIsSound(q)'
        /\ \A e \in Pair : e[2] # p => EntryIsSound(e)'
        /\ \A n \in Node : SameTables(n)
        /\ \A n \in Node : OthersSame(n, p)
    BY OthersStaySound
  <1>4. ASSUME NEW n \in Node PROVE FarSound(n)'
    <2>1. ASSUME NEW e \in Far(n), ~InFlux(e)'
          PROVE  ~InFlux(e) /\ (e \in groups'[Other(n)] <=> e \in groups[Other(n)])
      <3>1. e \in Pair /\ e[2] \in Pid /\ Home[e[2]] = Other(n)
        BY FarIs
      <3>2. CASE e[2] = p
        BY <2>1, <3>1, <3>2
      <3>3. CASE e[2] # p
        BY <1>3, <2>1, <3>3 DEF OthersSame
      <3>4. QED
        BY <3>2, <3>3
    <2>2. OnlyInFlux(n)
      BY <2>1 DEF OnlyInFlux
    <2>3. QED
      BY <1>1, <1>3, <2>2, FarUntouched DEF GroupsInv
  <1>5. \A q \in Pid : CallIsSound(q)'
    BY <1>3
  <1>6. \A e \in Pair : EntryIsSound(e)'
    BY <1>3
  <1>7. QED
    BY <1>2, <1>3, <1>4, <1>5, <1>6 DEF GroupsInv

-----------------------------------------------------------------------------
(***************************************************************************)
(* The steps of the calls.                                                 *)
(***************************************************************************)
LEMMA CallEffect ==
    ASSUME GroupTypes, NEW p \in Pid, NEW c \in PgCall, pgCall' = [pgCall EXCEPT ![p] = c]
    PROVE  pgCall' \in [Pid -> PgCall] /\ pgCall'[p] = c /\ \A q \in Pid : q # p => pgCall'[q] = pgCall[q]
  BY DEF GroupTypes

LEMMA GoesToEffect ==
    ASSUME GroupTypes, NEW p \in Pid, NEW step \in CallSteps, GoesTo(p, step)
    PROVE  /\ pgCall' \in [Pid -> PgCall] /\ pgCall'[p] = [pgCall[p] EXCEPT !.step = step]
           /\ \A q \in Pid : q # p => pgCall'[q] = pgCall[q]
  <1>1. pgCall[p] \in PgCall
    BY DEF GroupTypes
  <1>2. [pgCall[p] EXCEPT !.step = step] \in PgCall
    BY <1>1 DEF PgCall
  <1>3. QED
    BY <1>2 DEF GroupTypes, GoesTo

\* Who is in a call is alone at its node, and so is who starts one.
LEMMA CallerIsAlone ==
    ASSUME GroupsInv, NEW p \in Pid, OneThread, pgCall[p].step # "none" \/ Calm(Home[p])
    PROVE  Alone(p)
  BY DEF GroupsInv, OneCall, Alone, Calm

LEMMA StartCallInv ==
    ASSUME GroupsInv, OneThread, NEW p \in Pid, NEW op \in {"join", "leave", "leave_all"}, NEW g \in Group,
           NEW step \in {"insert", "remove", "take"},
           step = (IF op = "join" THEN "insert" ELSE IF op = "leave" THEN "remove" ELSE "take"),
           StartCall(p, op, g, step), isIn' \subseteq isIn,
           \A e \in Pair : e \in isIn' <=>
               e \in isIn /\ ~(op = "leave" /\ e = <<g, p>>) /\ ~(op = "leave_all" /\ e[2] = p)
    PROVE  GroupsInv'
  <1>1. PICK c : c = [op |-> op, group |-> g, rest |-> {}, step |-> step]
    OBVIOUS
  <1>2. /\ Calm(Home[p]) /\ pgCall[p] = NoCall /\ UNCHANGED <<linkVars, groups, pidToGroups>>
        /\ pgCall' = [pgCall EXCEPT ![p] = c]
    BY <1>1 DEF StartCall
  <1>3. c \in PgCall /\ c.op = op /\ c.group = g /\ c.step = step /\ c # NoCall
    BY <1>1 DEF PgCall, CallOps, CallSteps, NoCall
  <1>4. pgCall' \in [Pid -> PgCall] /\ pgCall'[p] = c /\ \A q \in Pid : q # p => pgCall'[q] = pgCall[q]
    BY <1>2, <1>3, CallEffect DEF GroupsInv
  <1>5. GroupTypes'
    BY <1>2, <1>4 DEF GroupsInv, GroupTypes
  <1>6. Alone(p)
    BY <1>2, CallerIsAlone
  <1>7. \A e \in Pair : e[2] # p => (e \in isIn' <=> e \in isIn)
    OBVIOUS
  <1>8. OnlyOf(p)
    BY <1>2, <1>4, <1>7 DEF OnlyOf
  <1>9. CallIsSound(p)'
    BY <1>3, <1>4 DEF CallIsSound
  <1>10. ASSUME NEW e \in Pair, e[2] = p
         PROVE  /\ EntryIsSound(e)'
                /\ ~InFlux(e)' => ~InFlux(e) /\ (e \in groups'[Home[p]] <=> e \in groups[Home[p]])
    <2>1. e = <<e[1], p>>
      BY <1>10, PairIs
    <2>2. pgCall[p].step = "none"
      BY <1>2 DEF NoCall
    <2>3. /\ e \in groups[Home[p]] <=> e \in isIn
          /\ e \in pidToGroups[Home[p]] <=> e \in isIn
      BY <1>10, <2>2 DEF GroupsInv, EntryIsSound
    <2>4. EntryIsSound(e)'
      BY <1>2, <1>3, <1>4, <1>10, <2>1, <2>3 DEF EntryIsSound
    <2>5. ~InFlux(e)
      BY <1>10, <2>2 DEF InFlux
    <2>6. QED
      BY <1>2, <2>4, <2>5
  <1>11. QED
    BY <1>2, <1>5, <1>6, <1>8, <1>9, <1>10, CallStepInv

LEMMA JoinInv ==
    ASSUME GroupsInv, OneThread, NEW p \in Pid, NEW g \in Group, Join(p, g)
    PROVE  GroupsInv'
  BY StartCallInv DEF Join

LEMMA LeaveInv ==
    ASSUME GroupsInv, OneThread, NEW p \in Pid, NEW g \in Group, Leave(p, g)
    PROVE  GroupsInv'
  BY StartCallInv DEF Leave

LEMMA LeaveAllInv ==
    ASSUME GroupsInv, OneThread, NEW p \in Pid, LeaveAll(p)
    PROVE  GroupsInv'
  <1>1. PICK g \in Group : StartCall(p, "leave_all", g, "take") /\ isIn' = isIn \ Of(isIn, p)
    BY DEF LeaveAll
  <1>2. /\ isIn' \subseteq isIn
        /\ \A e \in Pair : e \in isIn' <=> e \in isIn /\ ~(e[2] = p)
    BY <1>1 DEF Of
  <1>3. QED
    BY <1>1, <1>2, StartCallInv

\* A table of the node of p, when what changes of it is of p.
LEMMA PairsAfter ==
    ASSUME NEW table \in [Node -> SUBSET Pair], NEW after, NEW n \in Node, NEW t \in SUBSET Pair,
           after = [table EXCEPT ![n] = t]
    PROVE  /\ after \in [Node -> SUBSET Pair] /\ after[n] = t
           /\ \A k \in Node : k # n => after[k] = table[k]
  OBVIOUS

LEMMA InsertInv ==
    ASSUME GroupsInv, OneThread, NEW p \in Pid, Insert(p)
    PROVE  GroupsInv'
  <1>1. PICK c : c = pgCall[p]
    OBVIOUS
  <1>2. PICK t : t = groups[Home[p]] \cup {<<c.group, p>>}
    OBVIOUS
  <1>3. Home[p] \in Node /\ c \in PgCall /\ CallIsSound(p)
    BY <1>1, LinkAssumption, NodesAssumption DEF GroupsInv, GroupTypes
  <1>4. /\ c.step = "insert" /\ groups' = [groups EXCEPT ![Home[p]] = t] /\ GoesTo(p, "index")
        /\ UNCHANGED <<linkVars, pidToGroups, isIn>>
    BY <1>1, <1>2 DEF Insert
  <1>5. c.op = "join" /\ c.group \in Group
    BY <1>1, <1>3, <1>4 DEF CallIsSound, PgCall, CallOps
  <1>6. t \in SUBSET Pair
    BY <1>2, <1>3, <1>5 DEF GroupsInv, GroupTypes, Pair
  <1>7. /\ groups' \in [Node -> SUBSET Pair] /\ groups'[Home[p]] = t
        /\ \A k \in Node : k # Home[p] => groups'[k] = groups[k]
    BY <1>3, <1>4, <1>6, PairsAfter DEF GroupsInv, GroupTypes
  <1>8. /\ pgCall' \in [Pid -> PgCall] /\ pgCall'[p] = [c EXCEPT !.step = "index"]
        /\ \A q \in Pid : q # p => pgCall'[q] = pgCall[q]
    BY <1>1, <1>4, GoesToEffect DEF GroupsInv, CallSteps
  <1>9. pgCall'[p].op = c.op /\ pgCall'[p].group = c.group /\ pgCall'[p].step = "index"
    BY <1>3, <1>8 DEF PgCall
  <1>10. GroupTypes'
    BY <1>4, <1>7, <1>8 DEF GroupsInv, GroupTypes
  <1>11. Alone(p)
    BY <1>1, <1>4, CallerIsAlone
  <1>12. \A e \in Pair : e \in t <=> e \in groups[Home[p]] \/ e = <<c.group, p>>
    BY <1>2
  <1>13. OnlyOf(p)
    BY <1>4, <1>7, <1>8, <1>12 DEF OnlyOf
  <1>14. CallIsSound(p)'
    BY <1>5, <1>9 DEF CallIsSound, NoCall
  <1>15. ASSUME NEW e \in Pair, e[2] = p
         PROVE  /\ EntryIsSound(e)'
                /\ ~InFlux(e)' => ~InFlux(e) /\ (e \in groups'[Home[p]] <=> e \in groups[Home[p]])
    <2>1. e = <<e[1], p>> /\ EntryIsSound(e)
      BY <1>15, PairIs DEF GroupsInv
    <2>2. e \in groups'[Home[p]] <=> e \in groups[Home[p]] \/ e[1] = c.group
      BY <1>7, <1>12, <2>1
    <2>3. EntryIsSound(e)'
      BY <1>1, <1>4, <1>5, <1>9, <1>15, <2>1, <2>2 DEF EntryIsSound
    <2>4. QED
      BY <1>1, <1>4, <1>5, <1>9, <1>15, <2>2, <2>3 DEF InFlux
  <1>16. QED
    BY <1>4, <1>10, <1>11, <1>13, <1>14, <1>15, CallStepInv

LEMMA IndexInv ==
    ASSUME GroupsInv, OneThread, NEW p \in Pid, Index(p)
    PROVE  GroupsInv'
  <1>1. PICK c : c = pgCall[p]
    OBVIOUS
  <1>2. PICK t : t = pidToGroups[Home[p]] \cup {<<c.group, p>>}
    OBVIOUS
  <1>3. Home[p] \in Node /\ c \in PgCall /\ CallIsSound(p)
    BY <1>1, LinkAssumption, NodesAssumption DEF GroupsInv, GroupTypes
  <1>4. /\ c.step = "index" /\ pidToGroups' = [pidToGroups EXCEPT ![Home[p]] = t] /\ GoesTo(p, "tell")
        /\ UNCHANGED <<linkVars, groups, isIn>>
    BY <1>1, <1>2 DEF Index
  <1>5. c.op = "join" /\ c.group \in Group
    BY <1>1, <1>3, <1>4 DEF CallIsSound, PgCall, CallOps
  <1>6. t \in SUBSET Pair
    BY <1>2, <1>3, <1>5 DEF GroupsInv, GroupTypes, Pair
  <1>7. /\ pidToGroups' \in [Node -> SUBSET Pair] /\ pidToGroups'[Home[p]] = t
        /\ \A k \in Node : k # Home[p] => pidToGroups'[k] = pidToGroups[k]
    BY <1>3, <1>4, <1>6, PairsAfter DEF GroupsInv, GroupTypes
  <1>8. /\ pgCall' \in [Pid -> PgCall] /\ pgCall'[p] = [c EXCEPT !.step = "tell"]
        /\ \A q \in Pid : q # p => pgCall'[q] = pgCall[q]
    BY <1>1, <1>4, GoesToEffect DEF GroupsInv, CallSteps
  <1>9. pgCall'[p].op = c.op /\ pgCall'[p].group = c.group /\ pgCall'[p].step = "tell"
    BY <1>3, <1>8 DEF PgCall
  <1>10. GroupTypes'
    BY <1>4, <1>7, <1>8 DEF GroupsInv, GroupTypes
  <1>11. Alone(p)
    BY <1>1, <1>4, CallerIsAlone
  <1>12. \A e \in Pair : e \in t <=> e \in pidToGroups[Home[p]] \/ e = <<c.group, p>>
    BY <1>2
  <1>13. OnlyOf(p)
    BY <1>4, <1>7, <1>8, <1>12 DEF OnlyOf
  <1>14. CallIsSound(p)'
    BY <1>5, <1>9 DEF CallIsSound, NoCall
  <1>15. ASSUME NEW e \in Pair, e[2] = p
         PROVE  /\ EntryIsSound(e)'
                /\ ~InFlux(e)' => ~InFlux(e) /\ (e \in groups'[Home[p]] <=> e \in groups[Home[p]])
    <2>1. e = <<e[1], p>> /\ EntryIsSound(e)
      BY <1>15, PairIs DEF GroupsInv
    <2>2. e \in pidToGroups'[Home[p]] <=> e \in pidToGroups[Home[p]] \/ e[1] = c.group
      BY <1>7, <1>12, <2>1
    <2>3. EntryIsSound(e)'
      BY <1>1, <1>4, <1>5, <1>9, <1>15, <2>1, <2>2 DEF EntryIsSound
    <2>4. QED
      BY <1>1, <1>4, <1>5, <1>9, <1>15, <2>3 DEF InFlux
  <1>16. QED
    BY <1>4, <1>10, <1>11, <1>13, <1>14, <1>15, CallStepInv

LEMMA UnindexInv ==
    ASSUME GroupsInv, OneThread, NEW p \in Pid, Unindex(p)
    PROVE  GroupsInv'
  <1>1. PICK c : c = pgCall[p]
    OBVIOUS
  <1>2. PICK t : t = pidToGroups[Home[p]] \ {<<c.group, p>>}
    OBVIOUS
  <1>3. Home[p] \in Node /\ c \in PgCall /\ CallIsSound(p)
    BY <1>1, LinkAssumption, NodesAssumption DEF GroupsInv, GroupTypes
  <1>4. /\ c.step = "unindex" /\ pidToGroups' = [pidToGroups EXCEPT ![Home[p]] = t] /\ GoesTo(p, "tell")
        /\ UNCHANGED <<linkVars, groups, isIn>>
    <2>1. pidToGroups' = [pidToGroups EXCEPT ![Home[p]] = pidToGroups[Home[p]] \ {<<c.group, p>>}]
      BY <1>1, <1>3 DEF Unindex, GroupsInv, GroupTypes
    <2>2. QED
      BY <1>1, <1>2, <2>1 DEF Unindex
  <1>5. c.op = "leave" /\ c.group \in Group
    BY <1>1, <1>3, <1>4 DEF CallIsSound, PgCall, CallOps
  <1>6. t \in SUBSET Pair
    BY <1>2, <1>3 DEF GroupsInv, GroupTypes
  <1>7. /\ pidToGroups' \in [Node -> SUBSET Pair] /\ pidToGroups'[Home[p]] = t
        /\ \A k \in Node : k # Home[p] => pidToGroups'[k] = pidToGroups[k]
    BY <1>3, <1>4, <1>6, PairsAfter DEF GroupsInv, GroupTypes
  <1>8. /\ pgCall' \in [Pid -> PgCall] /\ pgCall'[p] = [c EXCEPT !.step = "tell"]
        /\ \A q \in Pid : q # p => pgCall'[q] = pgCall[q]
    BY <1>1, <1>4, GoesToEffect DEF GroupsInv, CallSteps
  <1>9. pgCall'[p].op = c.op /\ pgCall'[p].group = c.group /\ pgCall'[p].step = "tell"
    BY <1>3, <1>8 DEF PgCall
  <1>10. GroupTypes'
    BY <1>4, <1>7, <1>8 DEF GroupsInv, GroupTypes
  <1>11. Alone(p)
    BY <1>1, <1>4, CallerIsAlone
  <1>12. \A e \in Pair : e \in t <=> e \in pidToGroups[Home[p]] /\ e # <<c.group, p>>
    BY <1>2
  <1>13. OnlyOf(p)
    BY <1>4, <1>7, <1>8, <1>12 DEF OnlyOf
  <1>14. CallIsSound(p)'
    BY <1>5, <1>9 DEF CallIsSound, NoCall
  <1>15. ASSUME NEW e \in Pair, e[2] = p
         PROVE  /\ EntryIsSound(e)'
                /\ ~InFlux(e)' => ~InFlux(e) /\ (e \in groups'[Home[p]] <=> e \in groups[Home[p]])
    <2>1. e = <<e[1], p>> /\ EntryIsSound(e)
      BY <1>15, PairIs DEF GroupsInv
    <2>2. e \in pidToGroups'[Home[p]] <=> e \in pidToGroups[Home[p]] /\ e[1] # c.group
      BY <1>7, <1>12, <2>1
    <2>3. EntryIsSound(e)'
      BY <1>1, <1>4, <1>5, <1>9, <1>15, <2>1, <2>2 DEF EntryIsSound
    <2>4. QED
      BY <1>1, <1>4, <1>5, <1>9, <1>15, <2>3 DEF InFlux
  <1>16. QED
    BY <1>4, <1>10, <1>11, <1>13, <1>14, <1>15, CallStepInv

LEMMA TakeInv ==
    ASSUME GroupsInv, OneThread, NEW p \in Pid, Take(p)
    PROVE  GroupsInv'
  <1>1. PICK c : c = pgCall[p]
    OBVIOUS
  <1>2. PICK t : t = pidToGroups[Home[p]] \ Of(pidToGroups[Home[p]], p)
    OBVIOUS
  <1>3. PICK rest : rest = GroupsOf(pidToGroups[Home[p]], p)
    OBVIOUS
  <1>4. Home[p] \in Node /\ c \in PgCall /\ CallIsSound(p)
    BY <1>1, LinkAssumption, NodesAssumption DEF GroupsInv, GroupTypes
  <1>5. /\ c.step = "take" /\ UNCHANGED <<linkVars, groups, isIn>>
        /\ pidToGroups' = [pidToGroups EXCEPT ![Home[p]] = t]
    <2>1. pidToGroups' = [pidToGroups EXCEPT ![Home[p]] = pidToGroups[Home[p]] \ Of(pidToGroups[Home[p]], p)]
      BY <1>1, <1>4 DEF Take, GroupsInv, GroupTypes
    <2>2. QED
      BY <1>1, <1>2, <2>1 DEF Take
  <1>6. c.op = "leave_all"
    BY <1>1, <1>4, <1>5 DEF CallIsSound, PgCall, CallOps
  <1>7. pidToGroups[Home[p]] \in SUBSET Pair /\ t \in SUBSET Pair
    BY <1>2, <1>4 DEF GroupsInv, GroupTypes
  <1>8. /\ rest \subseteq Group
        /\ \A e \in Pair : e[2] = p /\ e \in pidToGroups[Home[p]] => e[1] \in rest
    <2>1. \A e \in pidToGroups[Home[p]] : e[1] \in Group
      BY <1>7, PairIs
    <2>2. QED
      BY <1>3, <2>1 DEF GroupsOf, Of
  <1>9. /\ pidToGroups' \in [Node -> SUBSET Pair] /\ pidToGroups'[Home[p]] = t
        /\ \A k \in Node : k # Home[p] => pidToGroups'[k] = pidToGroups[k]
    BY <1>4, <1>5, <1>7, PairsAfter DEF GroupsInv, GroupTypes
  <1>10. \A e \in Pair : e \in t <=> e \in pidToGroups[Home[p]] /\ e[2] # p
    BY <1>2 DEF Of
  <1>11. PICK d \in PgCall : /\ pgCall' = [pgCall EXCEPT ![p] = d]
                             /\ \/ d = NoCall /\ rest = {}
                                \/ /\ d.op = "leave_all" /\ d.step = "remove" /\ d.group \in rest
                                   /\ d.rest = rest \ {d.group}
    <2>1. CASE rest = {}
      <3>1. pgCall' = [pgCall EXCEPT ![p] = NoCall]
        BY <1>3, <2>1 DEF Take
      <3>2. NoCall \in PgCall
        BY DEF NoCall, PgCall, CallOps, CallSteps
      <3>3. QED
        BY <2>1, <3>1, <3>2
    <2>2. CASE rest # {}
      <3>1. PICK g \in rest : pgCall' = [pgCall EXCEPT ![p].rest = rest \ {g}, ![p].group = g, ![p].step = "remove"]
        BY <1>3, <2>2 DEF Take
      <3>2. PICK d : d = [c EXCEPT !.rest = rest \ {g}, !.group = g, !.step = "remove"]
        OBVIOUS
      <3>3. /\ d \in PgCall /\ d.op = "leave_all" /\ d.step = "remove" /\ d.group = g
            /\ d.rest = rest \ {g}
        BY <1>4, <1>6, <1>8, <3>2 DEF PgCall, CallSteps
      <3>4. pgCall' = [pgCall EXCEPT ![p] = d]
        BY <1>1, <1>4, <3>1, <3>2 DEF GroupsInv, GroupTypes, PgCall
      <3>5. QED
        BY <3>3, <3>4
    <2>3. QED
      BY <2>1, <2>2
  <1>12. pgCall' \in [Pid -> PgCall] /\ pgCall'[p] = d /\ \A q \in Pid : q # p => pgCall'[q] = pgCall[q]
    BY <1>11, CallEffect DEF GroupsInv
  <1>13. GroupTypes'
    BY <1>5, <1>9, <1>12 DEF GroupsInv, GroupTypes
  <1>14. Alone(p)
    BY <1>1, <1>5, CallerIsAlone
  <1>15. OnlyOf(p)
    BY <1>5, <1>9, <1>10, <1>12 DEF OnlyOf
  <1>16. CallIsSound(p)'
    BY <1>8, <1>11, <1>12 DEF CallIsSound, NoCall
  <1>17. ASSUME NEW e \in Pair, e[2] = p
         PROVE  /\ EntryIsSound(e)'
                /\ ~InFlux(e)' => ~InFlux(e) /\ (e \in groups'[Home[p]] <=> e \in groups[Home[p]])
    <2>1. EntryIsSound(e)
      BY DEF GroupsInv
    <2>2. e \notin isIn /\ (e \in groups[Home[p]] <=> e \in pidToGroups[Home[p]])
      BY <1>1, <1>5, <1>6, <1>17, <2>1 DEF EntryIsSound
    <2>3. /\ e \notin pidToGroups'[Home[p]] /\ e \notin isIn'
          /\ e \in groups'[Home[p]] <=> e \in groups[Home[p]]
          /\ e \in groups[Home[p]] => e[1] \in rest
      BY <1>5, <1>8, <1>9, <1>10, <1>17, <2>2
    <2>4. EntryIsSound(e)'
      BY <1>11, <1>12, <1>17, <2>3 DEF EntryIsSound, NoCall
    <2>5. ~InFlux(e)
      BY <1>1, <1>5, <1>17 DEF InFlux
    <2>6. QED
      BY <2>3, <2>4, <2>5
  <1>18. QED
    BY <1>5, <1>13, <1>14, <1>15, <1>16, <1>17, CallStepInv

\* The call goes on to unindex, to the next group or to the broadcast.
NextGroupIs(c, d) ==
    /\ d.op = c.op
    /\ c.op = "leave" => d.step = "unindex" /\ d.group = c.group /\ d.rest = c.rest
    /\ c.op = "leave_all" =>
          \/ c.rest = {} /\ d.rest = {} /\ d.step = "tell" /\ d.group = c.group
          \/ d.step = "remove" /\ d.group \in c.rest /\ d.rest = c.rest \ {d.group}

LEMMA NextGroupEffect ==
    ASSUME GroupTypes, NEW p \in Pid, pgCall[p].op \in {"leave", "leave_all"}, NextGroup(p)
    PROVE  /\ pgCall' \in [Pid -> PgCall] /\ NextGroupIs(pgCall[p], pgCall'[p])
           /\ \A q \in Pid : q # p => pgCall'[q] = pgCall[q]
  <1>1. PICK c : c = pgCall[p]
    OBVIOUS
  <1>2. c \in PgCall
    BY <1>1 DEF GroupTypes
  <1>3. CASE c.op = "leave"
    <2>1. GoesTo(p, "unindex")
      BY <1>1, <1>3 DEF NextGroup
    <2>2. /\ pgCall' \in [Pid -> PgCall] /\ pgCall'[p] = [c EXCEPT !.step = "unindex"]
          /\ \A q \in Pid : q # p => pgCall'[q] = pgCall[q]
      BY <1>1, <2>1, GoesToEffect DEF CallSteps
    <2>3. QED
      BY <1>1, <1>2, <1>3, <2>2 DEF NextGroupIs, PgCall
  <1>4. CASE c.op = "leave_all" /\ c.rest = {}
    <2>1. GoesTo(p, "tell")
      BY <1>1, <1>4 DEF NextGroup
    <2>2. /\ pgCall' \in [Pid -> PgCall] /\ pgCall'[p] = [c EXCEPT !.step = "tell"]
          /\ \A q \in Pid : q # p => pgCall'[q] = pgCall[q]
      BY <1>1, <2>1, GoesToEffect DEF CallSteps
    <2>3. QED
      BY <1>1, <1>2, <1>4, <2>2 DEF NextGroupIs, PgCall
  <1>5. CASE c.op = "leave_all" /\ c.rest # {}
    <2>1. PICK g \in c.rest : pgCall' = [pgCall EXCEPT ![p].group = g, ![p].rest = @ \ {g}, ![p].step = "remove"]
      BY <1>1, <1>5 DEF NextGroup
    <2>2. PICK d : d = [c EXCEPT !.group = g, !.rest = c.rest \ {g}, !.step = "remove"]
      OBVIOUS
    <2>3. /\ d \in PgCall /\ d.op = c.op /\ d.step = "remove" /\ d.group = g /\ d.rest = c.rest \ {g}
      BY <1>2, <2>2 DEF PgCall, CallSteps
    <2>4. pgCall' = [pgCall EXCEPT ![p] = d]
      BY <1>1, <1>2, <2>1, <2>2 DEF GroupTypes, PgCall
    <2>5. pgCall' \in [Pid -> PgCall] /\ pgCall'[p] = d /\ \A q \in Pid : q # p => pgCall'[q] = pgCall[q]
      BY <2>3, <2>4, CallEffect
    <2>6. QED
      BY <1>1, <1>5, <2>3, <2>5 DEF NextGroupIs
  <1>6. QED
    BY <1>1, <1>3, <1>4, <1>5

\* A member is removed from the first map, and the call goes on.
LEMMA RemovedInv ==
    ASSUME GroupsInv, NEW p \in Pid, Alone(p), GroupTypes', UNCHANGED <<linkVars, pidToGroups, isIn>>,
           pgCall[p].step \in {"remove", "drop"},
           \A q \in Pid : q # p => pgCall'[q] = pgCall[q],
           \/ NextGroupIs(pgCall[p], pgCall'[p])
           \/ /\ pgCall'[p] = [pgCall[p] EXCEPT !.step = "drop"]
              /\ In(groups'[Home[p]], pgCall[p].group) = {},
           \A k \in Node : k # Home[p] => groups'[k] = groups[k],
           \A e \in Pair : e \in groups'[Home[p]] <=> e \in groups[Home[p]] /\ e # <<pgCall[p].group, p>>
    PROVE  GroupsInv'
  <1>1. PICK c : c = pgCall[p]
    OBVIOUS
  <1>2. PICK d : d = pgCall'[p]
    OBVIOUS
  <1>3. c \in PgCall /\ d \in PgCall /\ CallIsSound(p)
    BY <1>1, <1>2 DEF GroupsInv, GroupTypes
  <1>4. c.op \in {"leave", "leave_all"} /\ c.group \in Group /\ c.step \in {"remove", "drop"}
    BY <1>1, <1>3 DEF CallIsSound, PgCall, CallOps
  <1>5. OnlyOf(p)
    BY DEF OnlyOf
  <1>6. \/ NextGroupIs(c, d)
        \/ /\ d.step = "drop" /\ d.op = c.op /\ d.group = c.group /\ d.rest = c.rest
           /\ In(groups'[Home[p]], c.group) = {}
    BY <1>1, <1>2, <1>3 DEF PgCall
  <1>7. d.op = c.op /\ d.group \in Group /\ d.step \in {"remove", "drop", "unindex", "tell"}
    BY <1>3, <1>4, <1>6 DEF NextGroupIs, PgCall
  <1>8. CallIsSound(p)'
    <2>1. d # NoCall
      BY <1>7 DEF NoCall
    <2>2. d.op = "leave" => d.step \in {"remove", "drop", "unindex", "tell"}
      BY <1>7
    <2>3. d.op = "leave_all" => d.step \in {"take", "remove", "drop", "tell"} /\ (d.step = "tell" => d.rest = {})
      BY <1>6, <1>7 DEF NextGroupIs
    <2>4. d.step = "drop" => In(groups'[Home[p]], d.group) = {}
      BY <1>4, <1>6 DEF NextGroupIs
    <2>5. QED
      BY <1>2, <1>4, <1>7, <2>1, <2>2, <2>3, <2>4 DEF CallIsSound
  <1>9. ASSUME NEW e \in Pair, e[2] = p
        PROVE  /\ EntryIsSound(e)'
               /\ ~InFlux(e)' => ~InFlux(e) /\ (e \in groups'[Home[p]] <=> e \in groups[Home[p]])
    <2>1. e = <<e[1], p>> /\ EntryIsSound(e)
      BY <1>9, PairIs DEF GroupsInv
    <2>2. e \in groups'[Home[p]] <=> e \in groups[Home[p]] /\ e[1] # c.group
      BY <1>1, <2>1
    <2>3. CASE c.op = "leave"
      <3>1. d.group = c.group /\ d.step \in {"drop", "unindex"}
        BY <1>6, <2>3 DEF NextGroupIs
      <3>2. QED
        BY <1>1, <1>2, <1>4, <1>7, <1>9, <2>1, <2>2, <2>3, <3>1 DEF EntryIsSound, InFlux
    <2>4. CASE c.op = "leave_all"
      <3>1. e \notin isIn /\ e \notin pidToGroups[Home[p]]
        BY <1>1, <1>4, <1>9, <2>1, <2>4 DEF EntryIsSound
      <3>2. e \in groups[Home[p]] => e[1] \in c.rest \/ e[1] = c.group
        BY <1>1, <1>4, <1>9, <2>1, <2>4 DEF EntryIsSound
      <3>3. e \in groups'[Home[p]] => e[1] \in d.rest \/ (d.step = "remove" /\ d.group = e[1])
        BY <1>6, <2>2, <2>4, <3>2 DEF NextGroupIs
      <3>4. EntryIsSound(e)'
        BY <1>2, <1>7, <1>9, <2>4, <3>1, <3>3 DEF EntryIsSound
      <3>5. InFlux(e)'
        BY <1>2, <1>7, <1>9, <2>4 DEF InFlux
      <3>6. QED
        BY <3>4, <3>5
    <2>5. QED
      BY <1>4, <2>3, <2>4
  <1>10. UNCHANGED linkVars
    OBVIOUS
  <1>11. QED
    BY <1>5, <1>8, <1>9, <1>10, CallStepInv

LEMMA RemoveInv ==
    ASSUME GroupsInv, OneThread, NEW p \in Pid, Remove(p)
    PROVE  GroupsInv'
  <1>1. PICK c : c = pgCall[p]
    OBVIOUS
  <1>2. PICK t : t = groups[Home[p]] \ {<<c.group, p>>}
    OBVIOUS
  <1>3. Home[p] \in Node /\ c \in PgCall /\ CallIsSound(p)
    BY <1>1, LinkAssumption, NodesAssumption DEF GroupsInv, GroupTypes
  <1>4. /\ c.step = "remove" /\ groups' = [groups EXCEPT ![Home[p]] = t]
        /\ UNCHANGED <<linkVars, pidToGroups, isIn>>
        /\ (In(t, c.group) = {} /\ GoesTo(p, "drop")) \/ NextGroup(p)
    BY <1>1, <1>2 DEF Remove
  <1>5. c.op \in {"leave", "leave_all"}
    BY <1>1, <1>3, <1>4 DEF CallIsSound, PgCall, CallOps
  <1>6. t \in SUBSET Pair
    BY <1>2, <1>3 DEF GroupsInv, GroupTypes
  <1>7. /\ groups' \in [Node -> SUBSET Pair] /\ groups'[Home[p]] = t
        /\ \A k \in Node : k # Home[p] => groups'[k] = groups[k]
    BY <1>3, <1>4, <1>6, PairsAfter DEF GroupsInv, GroupTypes
  <1>8. /\ pgCall' \in [Pid -> PgCall] /\ \A q \in Pid : q # p => pgCall'[q] = pgCall[q]
        /\ \/ NextGroupIs(c, pgCall'[p])
           \/ pgCall'[p] = [c EXCEPT !.step = "drop"] /\ In(t, c.group) = {}
    <2>1. ASSUME NextGroup(p)
          PROVE  /\ pgCall' \in [Pid -> PgCall] /\ NextGroupIs(c, pgCall'[p])
                 /\ \A q \in Pid : q # p => pgCall'[q] = pgCall[q]
      BY <1>1, <1>5, <2>1, NextGroupEffect DEF GroupsInv
    <2>2. ASSUME GoesTo(p, "drop")
          PROVE  /\ pgCall' \in [Pid -> PgCall] /\ pgCall'[p] = [c EXCEPT !.step = "drop"]
                 /\ \A q \in Pid : q # p => pgCall'[q] = pgCall[q]
      BY <1>1, <2>2, GoesToEffect DEF GroupsInv, CallSteps
    <2>3. QED
      BY <1>4, <2>1, <2>2
  <1>9. GroupTypes'
    BY <1>4, <1>7, <1>8 DEF GroupsInv, GroupTypes
  <1>10. Alone(p)
    BY <1>1, <1>4, CallerIsAlone
  <1>11. \A e \in Pair : e \in groups'[Home[p]] <=> e \in groups[Home[p]] /\ e # <<c.group, p>>
    BY <1>2, <1>7
  <1>12. QED
    BY <1>1, <1>4, <1>7, <1>8, <1>9, <1>10, <1>11, RemovedInv

LEMMA DropInv ==
    ASSUME GroupsInv, OneThread, NEW p \in Pid, Drop(p)
    PROVE  GroupsInv'
  <1>1. PICK c : c = pgCall[p]
    OBVIOUS
  <1>2. Home[p] \in Node /\ c \in PgCall /\ CallIsSound(p)
    BY <1>1, LinkAssumption, NodesAssumption DEF GroupsInv, GroupTypes
  <1>3. /\ c.step = "drop" /\ UNCHANGED <<linkVars, pidToGroups, isIn>> /\ NextGroup(p)
        /\ groups' = [groups EXCEPT ![Home[p]] = @ \ In(@, c.group)]
    BY <1>1 DEF Drop
  <1>4. c.op \in {"leave", "leave_all"} /\ In(groups[Home[p]], c.group) = {}
    BY <1>1, <1>2, <1>3 DEF CallIsSound, PgCall, CallOps
  <1>5. groups' = groups
    BY <1>2, <1>3, <1>4 DEF GroupsInv, GroupTypes
  <1>6. /\ pgCall' \in [Pid -> PgCall] /\ NextGroupIs(c, pgCall'[p])
        /\ \A q \in Pid : q # p => pgCall'[q] = pgCall[q]
    BY <1>1, <1>3, <1>4, NextGroupEffect DEF GroupsInv
  <1>7. GroupTypes'
    BY <1>3, <1>5, <1>6 DEF GroupsInv, GroupTypes
  <1>8. Alone(p)
    BY <1>1, <1>3, CallerIsAlone
  <1>9. \A e \in Pair : e \in groups'[Home[p]] <=> e \in groups[Home[p]] /\ e # <<c.group, p>>
    <2>1. ASSUME NEW e \in groups[Home[p]], e = <<c.group, p>> PROVE FALSE
      <3>1. e[1] = c.group
        BY <2>1
      <3>2. e \in In(groups[Home[p]], c.group)
        BY <3>1 DEF In
      <3>3. QED
        BY <1>4, <3>2
    <2>2. QED
      BY <1>5, <2>1
  <1>10. QED
    BY <1>1, <1>3, <1>5, <1>6, <1>7, <1>8, <1>9, RemovedInv

-----------------------------------------------------------------------------
(***************************************************************************)
(* What is sent is last on the wire.                                       *)
(***************************************************************************)
LEMMA OneSent ==
    ASSUME NEW m \in GroupMessage
    PROVE  <<m>> \in Seq(GroupMessage) /\ Len(<<m>>) = 1 /\ <<m>>[1] = m /\ <<m>> # <<>>
  OBVIOUS

LEMMA OneMore ==
    ASSUME NEW s \in Seq(GroupMessage), NEW m \in GroupMessage
    PROVE  /\ s \o <<m>> \in Seq(GroupMessage) /\ Len(s \o <<m>>) = Len(s) + 1 /\ Len(s) \in Nat
           /\ (s \o <<m>>)[Len(s) + 1] = m
           /\ \A i \in 1 .. Len(s) : (s \o <<m>>)[i] = s[i]
  OBVIOUS

LEMMA TwoSent ==
    ASSUME NEW m \in GroupMessage, NEW k \in GroupMessage
    PROVE  /\ <<m>> \o <<k>> \in Seq(GroupMessage) /\ Len(<<m>> \o <<k>>) = 2
           /\ (<<m>> \o <<k>>)[1] = m /\ (<<m>> \o <<k>>)[2] = k
  <1>1. PICK a : a = <<m>>
    OBVIOUS
  <1>2. a \in Seq(GroupMessage) /\ Len(a) = 1 /\ a[1] = m
    BY <1>1
  <1>3. /\ a \o <<k>> \in Seq(GroupMessage) /\ Len(a \o <<k>>) = Len(a) + 1
        /\ (a \o <<k>>)[Len(a) + 1] = k
        /\ \A i \in 1 .. Len(a) : (a \o <<k>>)[i] = a[i]
    BY <1>2, OneMore
  <1>4. Len(a \o <<k>>) = 2 /\ (a \o <<k>>)[1] = m /\ (a \o <<k>>)[2] = k
    BY <1>2, <1>3
  <1>5. QED
    BY <1>1, <1>3, <1>4

LEMMA AfterSent ==
    ASSUME NEW s \in Seq(GroupMessage), NEW m \in GroupMessage, NEW e, NEW before
    PROVE  After(s \o <<m>>, e, before) <=> Says(m, e) \/ (~Decides(m, e) /\ After(s, e, before))
  <1>1. PICK t : t = s \o <<m>>
    OBVIOUS
  <1>2. Len(t) = Len(s) + 1 /\ Len(s) \in Nat /\ t[Len(s) + 1] = m /\ \A i \in 1 .. Len(s) : t[i] = s[i]
    BY <1>1, OneMore
  <1>3. After(t, e, before) <=> Says(m, e) \/ (~Decides(m, e) /\ After(s, e, before))
    BY <1>2, AfterMore
  <1>4. QED
    BY <1>1, <1>3

LEMMA PostIs ==
    ASSUME GroupLinkTypes, NEW n \in Node, AllFit(Other(n)), NEW msgs \in Seq(GroupMessage), msgs # <<>>,
           \A i \in 1 .. Len(msgs) : Fits(msgs[i], Other(n)), Post(n, msgs)
    PROVE  /\ wire' \in [Node -> Seq(GroupMessage)]
           /\ \A k \in Node : k # Other(n) => wire'[k] = wire[k]
           /\ \A i \in 1 .. Len(wire'[Other(n)]) : Fits(wire'[Other(n)][i], Other(n))
           /\ ~Reaches(n) => wire' = wire
           /\ faults' = {} => faults = {} /\ (Reaches(n) => wire'[Other(n)] = wire[Other(n)] \o msgs)
  <1>1. PICK o : o = Other(n)
    OBVIOUS
  <1>2. o \in Node
    BY <1>1, OtherNode
  <1>3. PICK q : q = wire[o] \o msgs
    OBVIOUS
  <1>4. wire[o] \in Seq(GroupMessage) /\ wire \in [Node -> Seq(GroupMessage)]
    BY <1>2 DEF GroupLinkTypes
  <1>5. /\ q \in Seq(GroupMessage) /\ Len(q) = Len(wire[o]) + Len(msgs)
        /\ \A i \in 1 .. Len(wire[o]) : q[i] = wire[o][i]
        /\ \A i \in 1 .. Len(msgs) : q[Len(wire[o]) + i] = msgs[i]
    BY <1>3, <1>4, ConcatIs
  <1>6. Len(wire[o]) \in Nat /\ Len(msgs) \in Nat /\ Len(q) \in Nat /\ MaxQueue \in Nat
    BY <1>4, <1>5, LinkAssumption, NodesAssumption
  <1>7. \A i \in 1 .. Len(wire[o]) : Fits(wire[o][i], o)
    BY <1>1 DEF AllFit
  <1>8. CASE ~Reaches(n)
    <2>1. wire' = wire /\ (faults' = {} => faults = {})
      BY <1>8 DEF Post
    <2>2. QED
      BY <1>1, <1>4, <1>7, <1>8, <2>1
  <1>9. CASE Reaches(n)
    <2>1. PICK l : l = IF Len(q) < MaxQueue THEN Len(q) ELSE MaxQueue
      OBVIOUS
    <2>2. l \in 0 .. Len(q) /\ (Len(q) <= MaxQueue => l = Len(q))
      BY <1>6, <2>1
    <2>3. wire' = [wire EXCEPT ![o] = SubSeq(q, 1, l)]
      BY <1>1, <1>3, <1>9, <2>1 DEF Post, Queued
    <2>4. faults' = {} => faults = {} /\ l = Len(q)
      <3>1. faults' = IF Len(q) > MaxQueue THEN faults \cup {"full"} ELSE faults
        BY <1>1, <1>3, <1>9 DEF Post, Queued
      <3>2. CASE Len(q) <= MaxQueue
        BY <1>6, <2>2, <3>1, <3>2
      <3>3. CASE Len(q) > MaxQueue
        BY <3>1, <3>3
      <3>4. QED
        BY <1>6, <3>2, <3>3
    <2>5. /\ SubSeq(q, 1, l) \in Seq(GroupMessage) /\ Len(SubSeq(q, 1, l)) = l
          /\ \A i \in 1 .. l : SubSeq(q, 1, l)[i] = q[i]
          /\ l = Len(q) => SubSeq(q, 1, l) = q
      BY <1>5, <2>2
    <2>6. wire' \in [Node -> Seq(GroupMessage)] /\ wire'[o] = SubSeq(q, 1, l)
          /\ \A k \in Node : k # o => wire'[k] = wire[k]
      BY <1>2, <1>4, <2>3, <2>5
    <2>7. ASSUME NEW i \in 1 .. Len(q) PROVE Fits(q[i], o)
      <3>1. CASE i \in 1 .. Len(wire[o])
        BY <1>5, <1>7, <3>1
      <3>2. CASE i \notin 1 .. Len(wire[o])
        <4>1. i - Len(wire[o]) \in 1 .. Len(msgs) /\ i = Len(wire[o]) + (i - Len(wire[o]))
          BY <1>5, <1>6, <3>2
        <4>2. q[i] = msgs[i - Len(wire[o])]
          BY <1>5, <4>1
        <4>3. QED
          BY <1>1, <4>1, <4>2
      <3>3. QED
        BY <3>1, <3>2
    <2>8. \A i \in 1 .. Len(wire'[o]) : Fits(wire'[o][i], o)
      BY <1>6, <2>2, <2>5, <2>6, <2>7
    <2>9. QED
      BY <1>1, <1>3, <1>9, <2>4, <2>5, <2>6, <2>8
  <1>10. QED
    BY <1>8, <1>9

LEMMA TellInv ==
    ASSUME GroupsInv, OneThread, NEW p \in Pid, Tell(p)
    PROVE  GroupsInv'
  <1>1. PICK c : c = pgCall[p]
    OBVIOUS
  <1>2. PICK m : m = [kind |-> c.op, group |-> c.group, pid |-> p, all |-> {}]
    OBVIOUS
  <1>3. PICK o : o = Home[p]
    OBVIOUS
  <1>4. PICK k : k = Other(o)
    OBVIOUS
  <1>5. o \in Node /\ k \in Node /\ k # o /\ Other(k) = o /\ \A n \in Node : n = o \/ n = k
    BY <1>3, <1>4, LinkAssumption, NodesAssumption, OtherNode
  <1>6. c \in PgCall /\ CallIsSound(p)
    BY <1>1 DEF GroupsInv, GroupTypes
  <1>7. /\ c.step = "tell" /\ Post(o, <<m>>) /\ pgCall' = [pgCall EXCEPT ![p] = NoCall]
        /\ isIn' = IF c.op = "join" THEN isIn \cup {<<c.group, p>>} ELSE isIn
        /\ UNCHANGED <<groups, pidToGroups, dials, dialled, acceptor, pending, up, inHand>>
    BY <1>1, <1>2, <1>3 DEF Tell, LinkStays
  <1>8. c.op \in {"join", "leave", "leave_all"} /\ c.group \in Group /\ (c.op = "leave_all" => c.rest = {})
    BY <1>1, <1>6, <1>7 DEF CallIsSound, PgCall, CallOps
  <1>9. m \in GroupMessage /\ m.kind = c.op /\ m.group = c.group /\ m.pid = p /\ m.all = {}
    BY <1>2, <1>8 DEF GroupMessage
  <1>10. Fits(m, k)
    BY <1>3, <1>5, <1>8, <1>9 DEF Fits
  <1>11. /\ wire' \in [Node -> Seq(GroupMessage)] /\ wire'[o] = wire[o]
         /\ \A i \in 1 .. Len(wire'[k]) : Fits(wire'[k][i], k)
         /\ ~Reaches(o) => wire' = wire
         /\ faults' = {} => faults = {} /\ (Reaches(o) => wire'[k] = wire[k] \o <<m>>)
    <2>1. <<m>> \in Seq(GroupMessage) /\ <<m>> # <<>> /\ \A i \in 1 .. Len(<<m>>) : Fits(<<m>>[i], k)
      BY <1>9, <1>10, OneSent
    <2>2. GroupLinkTypes /\ AllFit(k)
      BY <1>5 DEF GroupsInv
    <2>3. QED
      BY <1>4, <1>5, <1>7, <2>1, <2>2, PostIs
  <1>12. GroupLinkTypes'
    BY <1>7, <1>11 DEF GroupsInv, GroupLinkTypes
  <1>13. GroupLinkSound'
    <2>1. ASSUME dialled' = "hello" PROVE wire' = wire
      BY <1>7, <1>11, <2>1 DEF Reaches
    <2>2. QED
      BY <1>7, <2>1 DEF GroupsInv, GroupLinkSound
  <1>14. AllFit(o)' /\ AllFit(k)'
    BY <1>5, <1>7, <1>11 DEF GroupsInv, AllFit
  <1>15. NoCall \in PgCall /\ NoCall.op = "none" /\ NoCall.step = "none"
    BY DEF NoCall, PgCall, CallOps, CallSteps
  <1>16. pgCall' \in [Pid -> PgCall] /\ pgCall'[p] = NoCall /\ \A q \in Pid : q # p => pgCall'[q] = pgCall[q]
    BY <1>7, <1>15, CallEffect DEF GroupsInv
  <1>17. /\ isIn' \subseteq Pair
         /\ \A e \in Pair : e \in isIn' <=> e \in isIn \/ (c.op = "join" /\ e = <<c.group, p>>)
    BY <1>7, <1>8 DEF GroupsInv, GroupTypes, Pair
  <1>18. GroupTypes'
    BY <1>7, <1>16, <1>17 DEF GroupsInv, GroupTypes
  <1>19. Alone(p)
    BY <1>1, <1>7, CallerIsAlone
  <1>20. OnlyOf(p)
    BY <1>7, <1>16, <1>17 DEF OnlyOf
  <1>21. /\ OneCall'
         /\ \A q \in Pid : q # p => CallIsSound(q)'
         /\ \A e \in Pair : e[2] # p => EntryIsSound(e)'
         /\ \A n \in Node : SameTables(n)
         /\ \A n \in Node : OthersSame(n, p)
    BY <1>18, <1>19, <1>20, OthersStaySound
  <1>22. CallIsSound(p)'
    BY <1>15, <1>16 DEF CallIsSound
  <1>23. ASSUME NEW e \in Pair, e[2] = p
         PROVE  /\ e \in groups[o] <=> e \in isIn'
                /\ e \in pidToGroups[o] <=> e \in isIn'
    <2>1. e = <<e[1], p>> /\ EntryIsSound(e)
      BY <1>23, PairIs DEF GroupsInv
    <2>2. e \in isIn' <=> e \in isIn \/ (c.op = "join" /\ e[1] = c.group)
      BY <1>17, <2>1
    <2>3. QED
      BY <1>1, <1>3, <1>7, <1>8, <1>23, <2>1, <2>2 DEF EntryIsSound
  <1>24. ASSUME NEW e \in Pair, e[2] = p PROVE EntryIsSound(e)'
    BY <1>3, <1>7, <1>15, <1>16, <1>23, <1>24 DEF EntryIsSound
  <1>25. FarSound(o)'
    <2>1. ASSUME NEW e \in Far(o), ~InFlux(e)'
          PROVE  ~InFlux(e) /\ (e \in groups'[Other(o)] <=> e \in groups[Other(o)])
      <3>1. e[2] # p
        BY <1>3, <1>5, FarIs, OtherNode
      <3>2. QED
        BY <1>5, <1>21, <2>1, <3>1 DEF OthersSame
    <2>2. OnlyInFlux(o)
      BY <2>1 DEF OnlyInFlux
    <2>3. QED
      BY <1>5, <1>7, <1>11, <1>21, <2>2, FarUntouched DEF GroupsInv
  <1>26. FarSound(k)'
    <2>1. FarSound(k) /\ GroupLinkSound /\ wire[k] \in Seq(GroupMessage)
      BY <1>5 DEF GroupsInv, GroupLinkTypes
    <2>2. Base(k)' = Base(k) /\ (FarAgrees(k)' <=> FarAgrees(k)) /\ (Ignorant(k)' <=> Ignorant(k))
      BY <1>5, <1>7, <1>21, SameBase
    <2>3. Clean(k)' => Clean(k)
      BY <1>7, <1>11 DEF Clean
    <2>4. dialled = "open" => (Reaches(o) <=> o \notin pending)
      BY <1>5, <1>7, <2>1 DEF GroupLinkSound, Reaches
    <2>5. DownIsEmpty(k)'
      BY <1>7, <1>11, <2>1, <2>2 DEF FarSound, DownIsEmpty
    <2>6. NothingSent(k)'
      <3>1. SUFFICES ASSUME Clean(k)', dialled' = "open", Other(k) \in pending'
                     PROVE  wire'[k] = <<>> /\ inHand'[k] = {} /\ Ignorant(k)'
        BY DEF NothingSent
      <3>2. wire[k] = <<>> /\ inHand[k] = {} /\ Ignorant(k)
        BY <1>7, <2>1, <2>3, <3>1 DEF FarSound, NothingSent
      <3>3. wire' = wire
        BY <1>5, <1>7, <1>11, <2>4, <3>1
      <3>4. QED
        BY <1>7, <2>2, <3>2, <3>3
    <2>7. WillAgree(k)'
      <3>1. SUFFICES ASSUME Clean(k)', dialled' = "open", Other(k) \notin pending',
                            NEW e \in Far(k), ~InFlux(e)'
                     PROVE  After(wire'[k], e, Base(k)') <=> e \in groups'[Other(k)]
        BY DEF WillAgree
      <3>2. wire'[k] = wire[k] \o <<m>>
        BY <1>5, <1>7, <1>11, <2>4, <3>1 DEF Clean
      <3>3. After(wire'[k], e, Base(k)') <=> Says(m, e) \/ (~Decides(m, e) /\ After(wire[k], e, Base(k)))
        BY <1>9, <2>1, <2>2, <3>2, AfterSent
      <3>4. ~InFlux(e) => (After(wire[k], e, Base(k)) <=> e \in groups[o])
        BY <1>5, <1>7, <2>1, <2>3, <3>1 DEF FarSound, WillAgree
      <3>5. e \in Pair /\ e[2] \in Pid
        BY <1>5, FarIs
      <3>6. CASE e[2] # p
        <4>1. ~Says(m, e) /\ ~Decides(m, e)
          BY <1>8, <1>9, <3>6 DEF Says, Decides
        <4>2. ~InFlux(e)
          BY <1>5, <1>21, <3>1, <3>6 DEF OthersSame
        <4>3. QED
          BY <1>5, <1>7, <3>3, <3>4, <4>1, <4>2
      <3>7. CASE e[2] = p /\ InFlux(e)
        <4>1. c.op = "leave_all" \/ c.group = e[1]
          BY <1>1, <3>7 DEF InFlux
        <4>2. Decides(m, e) /\ (Says(m, e) <=> c.op = "join")
          BY <1>8, <1>9, <3>7, <4>1 DEF Says, Decides
        <4>3. e \in groups[o] <=> c.op = "join"
          <5>1. e = <<e[1], p>> /\ EntryIsSound(e)
            BY <3>5, <3>7, PairIs DEF GroupsInv
          <5>2. QED
            BY <1>1, <1>3, <1>7, <1>8, <3>7, <4>1, <5>1 DEF EntryIsSound
        <4>4. QED
          BY <1>5, <1>7, <3>3, <4>2, <4>3
      <3>8. CASE e[2] = p /\ ~InFlux(e)
        <4>1. c.op # "leave_all" /\ c.group # e[1]
          BY <1>1, <1>7, <3>8 DEF InFlux
        <4>2. ~Says(m, e) /\ ~Decides(m, e)
          BY <1>8, <1>9, <4>1 DEF Says, Decides
        <4>3. QED
          BY <1>5, <1>7, <3>3, <3>4, <3>8, <4>2
      <3>9. QED
        BY <3>6, <3>7, <3>8
    <2>8. QED
      BY <2>1, <2>2, <2>5, <2>6, <2>7 DEF FarSound
  <1>27. QED
    BY <1>5, <1>12, <1>13, <1>14, <1>18, <1>21, <1>22, <1>24, <1>25, <1>26 DEF GroupsInv

-----------------------------------------------------------------------------
(***************************************************************************)
(* The steps of the connection.                                            *)
(***************************************************************************)
NearSame(n) ==
    \A e \in Pair : Home[e[2]] = n =>
        (e \in groups'[n] <=> e \in groups[n]) /\ (e \in pidToGroups'[n] <=> e \in pidToGroups[n])
NoneCalls(n) == \A p \in Pid : Home[p] = n => pgCall[p].step = "none"

LEMMA NearUntouched ==
    ASSUME GroupsInv, UNCHANGED <<pgCall, isIn>>,
           \A n \in Node : NearSame(n) /\ (groups'[n] = groups[n] \/ NoneCalls(n))
    PROVE  /\ OneCall'
           /\ \A p \in Pid : CallIsSound(p)'
           /\ \A e \in Pair : EntryIsSound(e)' /\ (InFlux(e)' <=> InFlux(e))
  <1>1. OneCall'
    BY DEF GroupsInv, OneCall
  <1>2. ASSUME NEW p \in Pid PROVE CallIsSound(p)'
    <2>1. CallIsSound(p) /\ Home[p] \in Node
      BY LinkAssumption, NodesAssumption DEF GroupsInv
    <2>2. CASE groups'[Home[p]] = groups[Home[p]]
      BY <2>1, <2>2 DEF CallIsSound
    <2>3. CASE NoneCalls(Home[p])
      <3>1. pgCall[p].step = "none"
        BY <2>3 DEF NoneCalls
      <3>2. QED
        BY <2>1, <3>1 DEF CallIsSound
    <2>4. QED
      BY <2>1, <2>2, <2>3
  <1>3. ASSUME NEW e \in Pair PROVE EntryIsSound(e)' /\ (InFlux(e)' <=> InFlux(e))
    <2>1. EntryIsSound(e) /\ Home[e[2]] \in Node
      BY PairIs DEF GroupsInv
    <2>2. /\ e \in groups'[Home[e[2]]] <=> e \in groups[Home[e[2]]]
          /\ e \in pidToGroups'[Home[e[2]]] <=> e \in pidToGroups[Home[e[2]]]
      BY <2>1 DEF NearSame
    <2>3. QED
      BY <2>1, <2>2 DEF EntryIsSound, InFlux
  <1>4. QED
    BY <1>1, <1>2, <1>3

\* Without an open connection little is claimed.
LEMMA FarWhenOver ==
    ASSUME NEW n \in Node, dialled' # "open", FarAgrees(n)', DownIsEmpty(n)'
    PROVE  FarSound(n)'
  BY DEF FarSound, NothingSent, WillAgree

LEMMA NothingOnWires ==
    ASSUME GroupLinkTypes, wire' = [m \in Node |-> <<>>]
    PROVE  wire' \in [Node -> Seq(GroupMessage)] /\ \A n \in Node : wire'[n] = <<>> /\ Len(wire'[n]) = 0
  <1>1. <<>> \in Seq(GroupMessage) /\ Len(<<>>) = 0
    OBVIOUS
  <1>2. QED
    BY <1>1

\* A step of the connection that changes no table.
LEMMA TablesStay ==
    ASSUME GroupsInv, UNCHANGED groupVars
    PROVE  /\ GroupTypes' /\ OneCall'
           /\ \A p \in Pid : CallIsSound(p)'
           /\ \A e \in Pair : EntryIsSound(e)' /\ (InFlux(e)' <=> InFlux(e))
           /\ \A n \in Node : FarAgrees(n)' /\ (Ignorant(n)' <=> Ignorant(n))
  <1>1. UNCHANGED <<groups, pidToGroups, pgCall, isIn>>
    BY DEF groupVars
  <1>2. \A n \in Node : NearSame(n) /\ groups'[n] = groups[n]
    BY <1>1 DEF NearSame
  <1>3. GroupTypes' /\ \A n \in Node : FarAgrees(n)' /\ (Ignorant(n)' <=> Ignorant(n))
    BY <1>1 DEF GroupsInv, GroupTypes, FarSound, FarAgrees, Ignorant
  <1>4. QED
    BY <1>1, <1>2, <1>3, NearUntouched

LEMMA DialGroupsInv ==
    ASSUME GroupsInv, NEW n \in Node, Dial(n), UNCHANGED groupVars
    PROVE  GroupsInv'
  <1>1. /\ Other(n) \notin up /\ dials' = dials + 1 /\ dialled' = "hello" /\ acceptor' = n
        /\ pending' = Node /\ wire' = [m \in Node |-> <<>>] /\ UNCHANGED <<up, inHand, faults>>
    BY DEF Dial
  <1>2. wire' \in [Node -> Seq(GroupMessage)] /\ \A k \in Node : wire'[k] = <<>> /\ Len(wire'[k]) = 0
    BY <1>1, NothingOnWires DEF GroupsInv
  <1>3. GroupLinkTypes'
    BY <1>1, <1>2 DEF GroupsInv, GroupLinkTypes
  <1>4. dials \in Nat /\ \A k \in Node : \A h \in inHand[k] : h.conn \in Nat /\ h.conn <= dials
    BY DEF GroupsInv, GroupLinkTypes, AllFit
  <1>5. GroupLinkSound'
    BY <1>1, <1>2, <1>4 DEF GroupLinkSound
  <1>6. \A k \in Node : AllFit(k)'
    BY <1>1, <1>2, <1>4 DEF GroupsInv, AllFit
  <1>7. /\ GroupTypes' /\ OneCall'
        /\ \A p \in Pid : CallIsSound(p)'
        /\ \A e \in Pair : EntryIsSound(e)'
        /\ \A k \in Node : FarAgrees(k)' /\ (Ignorant(k)' <=> Ignorant(k))
    BY TablesStay
  <1>8. \A k \in Node : DownIsEmpty(k)'
    BY <1>1, <1>7 DEF GroupsInv, FarSound, DownIsEmpty
  <1>9. \A k \in Node : FarSound(k)'
    BY <1>1, <1>7, <1>8, FarWhenOver
  <1>10. QED
    BY <1>3, <1>5, <1>6, <1>7, <1>9 DEF GroupsInv

LEMMA LinkLostGroupsInv ==
    ASSUME GroupsInv, LinkLost, UNCHANGED groupVars
    PROVE  GroupsInv'
  <1>1. /\ dialled' = "closed" /\ wire' = [m \in Node |-> <<>>]
        /\ UNCHANGED <<dials, acceptor, pending, up, inHand, faults>>
    BY DEF LinkLost
  <1>2. wire' \in [Node -> Seq(GroupMessage)] /\ \A k \in Node : wire'[k] = <<>> /\ Len(wire'[k]) = 0
    BY <1>1, NothingOnWires DEF GroupsInv
  <1>3. GroupLinkTypes' /\ GroupLinkSound'
    BY <1>1, <1>2 DEF GroupsInv, GroupLinkTypes, GroupLinkSound
  <1>4. \A k \in Node : AllFit(k)'
    BY <1>1, <1>2 DEF GroupsInv, AllFit
  <1>5. /\ GroupTypes' /\ OneCall'
        /\ \A p \in Pid : CallIsSound(p)'
        /\ \A e \in Pair : EntryIsSound(e)'
        /\ \A k \in Node : FarAgrees(k)' /\ (Ignorant(k)' <=> Ignorant(k))
    BY TablesStay
  <1>6. \A k \in Node : DownIsEmpty(k)'
    BY <1>1, <1>5 DEF GroupsInv, FarSound, DownIsEmpty
  <1>7. \A k \in Node : FarSound(k)'
    BY <1>1, <1>5, <1>6, FarWhenOver
  <1>8. QED
    BY <1>3, <1>4, <1>5, <1>7 DEF GroupsInv

\* The members of the other node go from both maps, and no others.
LEMMA ForgetEffect ==
    ASSUME GroupTypes, NEW n \in Node, FarAgrees(n), Forget(n)
    PROVE  /\ groups' \in [Node -> SUBSET Pair] /\ pidToGroups' \in [Node -> SUBSET Pair]
           /\ \A k \in Node : k # n => groups'[k] = groups[k] /\ pidToGroups'[k] = pidToGroups[k]
           /\ \A e \in Far(n) : e \notin groups'[n] /\ e \notin pidToGroups'[n]
           /\ \A k \in Node : NearSame(k)
  <1>1. PICK a : a = WithoutNode(groups[n], n, Other(n))
    OBVIOUS
  <1>2. PICK b : b = WithoutNode(pidToGroups[n], n, Other(n))
    OBVIOUS
  <1>3. groups[n] \in SUBSET Pair /\ pidToGroups[n] \in SUBSET Pair
    BY DEF GroupTypes
  <1>4. a \in SUBSET Pair /\ b \in SUBSET Pair
    BY <1>1, <1>2, <1>3 DEF WithoutNode
  <1>5. groups' = [groups EXCEPT ![n] = a] /\ pidToGroups' = [pidToGroups EXCEPT ![n] = b]
    BY <1>1, <1>2 DEF Forget, GroupTypes
  <1>6. /\ groups' \in [Node -> SUBSET Pair] /\ groups'[n] = a
        /\ \A k \in Node : k # n => groups'[k] = groups[k]
    BY <1>4, <1>5, PairsAfter DEF GroupTypes
  <1>7. /\ pidToGroups' \in [Node -> SUBSET Pair] /\ pidToGroups'[n] = b
        /\ \A k \in Node : k # n => pidToGroups'[k] = pidToGroups[k]
    BY <1>4, <1>5, PairsAfter DEF GroupTypes
  <1>8. ASSUME NEW e \in Pair
        PROVE  /\ e \in a <=> e \in groups[n] /\ ~(e \in pidToGroups[n] /\ Home[e[2]] = Other(n))
               /\ e \in b <=> e \in pidToGroups[n] /\ Home[e[2]] # Other(n)
    BY <1>1, <1>2 DEF WithoutNode, OfNode
  <1>9. ASSUME NEW e \in Far(n) PROVE e \notin groups'[n] /\ e \notin pidToGroups'[n]
    <2>1. e \in Pair /\ Home[e[2]] = Other(n) /\ (e \in groups[n] <=> e \in pidToGroups[n])
      BY FarIs DEF FarAgrees
    <2>2. QED
      BY <1>6, <1>7, <1>8, <2>1
  <1>10. NearSame(n)
    BY <1>6, <1>7, <1>8, OtherNode DEF NearSame
  <1>11. \A k \in Node : k # n => NearSame(k)
    BY <1>6, <1>7 DEF NearSame
  <1>12. QED
    BY <1>6, <1>7, <1>9, <1>10, <1>11

LEMMA DetachInv ==
    ASSUME GroupsInv, OneThread, NEW n \in Node, Detach(n), UNCHANGED <<pgCall, isIn>>
    PROVE  GroupsInv'
  <1>1. /\ n \in up /\ n \notin pending /\ dialled' = (IF dialled = "open" THEN "closed" ELSE dialled)
        /\ wire' = [m \in Node |-> <<>>] /\ up' = up \ {n}
        /\ UNCHANGED <<dials, acceptor, pending, inHand, faults>>
        /\ Forget(n) /\ NoneCalls(n)
    BY DEF Detach, LinkDown, Calm, NoneCalls
  <1>2. wire' \in [Node -> Seq(GroupMessage)] /\ \A k \in Node : wire'[k] = <<>> /\ Len(wire'[k]) = 0
    BY <1>1, NothingOnWires DEF GroupsInv
  <1>3. dialled' # "open" /\ dialled' # "hello"
    BY <1>1 DEF GroupsInv, GroupLinkSound
  <1>4. GroupLinkTypes' /\ GroupLinkSound'
    BY <1>1, <1>2, <1>3 DEF GroupsInv, GroupLinkTypes, GroupLinkSound
  <1>5. \A k \in Node : AllFit(k)'
    BY <1>1, <1>2 DEF GroupsInv, AllFit
  <1>6. /\ groups' \in [Node -> SUBSET Pair] /\ pidToGroups' \in [Node -> SUBSET Pair]
        /\ \A k \in Node : k # n => groups'[k] = groups[k] /\ pidToGroups'[k] = pidToGroups[k]
        /\ \A e \in Far(n) : e \notin groups'[n] /\ e \notin pidToGroups'[n]
        /\ \A k \in Node : NearSame(k)
    BY <1>1, ForgetEffect DEF GroupsInv, FarSound
  <1>7. GroupTypes'
    BY <1>6 DEF GroupsInv, GroupTypes
  <1>8. /\ OneCall'
        /\ \A p \in Pid : CallIsSound(p)'
        /\ \A e \in Pair : EntryIsSound(e)' /\ (InFlux(e)' <=> InFlux(e))
    BY <1>1, <1>6, NearUntouched
  <1>9. ASSUME NEW k \in Node PROVE FarAgrees(k)' /\ DownIsEmpty(k)'
    <2>1. CASE k = n
      BY <1>6, <2>1 DEF FarAgrees, DownIsEmpty, Ignorant
    <2>2. CASE k # n
      BY <1>1, <1>6, <2>2 DEF GroupsInv, FarSound, FarAgrees, DownIsEmpty, Ignorant
    <2>3. QED
      BY <2>1, <2>2
  <1>10. \A k \in Node : FarSound(k)'
    BY <1>3, <1>9, FarWhenOver
  <1>11. QED
    BY <1>4, <1>5, <1>7, <1>8, <1>10 DEF GroupsInv

LEMMA AcceptInv ==
    ASSUME GroupsInv, OneThread, NEW n \in Node, Accept(n), UNCHANGED <<pgCall, isIn>>
    PROVE  GroupsInv'
  <1>1. /\ dialled = "hello" /\ n = acceptor /\ dialled' = "open" /\ up' = up \ {n}
        /\ UNCHANGED <<dials, acceptor, pending, wire, inHand, faults>>
        /\ IF n \in up THEN Forget(n) ELSE UNCHANGED <<groups, pidToGroups>>
        /\ NoneCalls(n)
    BY DEF Accept, LinkAccept, Calm, NoneCalls
  <1>2. /\ pending = Node /\ Other(n) \notin up
        /\ \A k \in Node : wire[k] = <<>> /\ \A h \in inHand[k] : h.conn # dials
    BY <1>1 DEF GroupsInv, GroupLinkSound
  <1>3. up' = {}
    BY <1>1, <1>2, OtherNode DEF GroupsInv, GroupLinkTypes
  <1>4. GroupLinkTypes' /\ GroupLinkSound'
    BY <1>1, <1>2, <1>3 DEF GroupsInv, GroupLinkTypes, GroupLinkSound
  <1>5. \A k \in Node : AllFit(k)'
    BY <1>1 DEF GroupsInv, AllFit
  <1>6. /\ groups' \in [Node -> SUBSET Pair] /\ pidToGroups' \in [Node -> SUBSET Pair]
        /\ \A k \in Node : k # n => groups'[k] = groups[k] /\ pidToGroups'[k] = pidToGroups[k]
        /\ FarAgrees(n)' /\ (faults = {} => Ignorant(n)')
        /\ \A k \in Node : NearSame(k)
    <2>1. CASE n \in up
      <3>1. Forget(n)
        BY <1>1, <2>1
      <3>2. /\ groups' \in [Node -> SUBSET Pair] /\ pidToGroups' \in [Node -> SUBSET Pair]
            /\ \A k \in Node : k # n => groups'[k] = groups[k] /\ pidToGroups'[k] = pidToGroups[k]
            /\ \A e \in Far(n) : e \notin groups'[n] /\ e \notin pidToGroups'[n]
            /\ \A k \in Node : NearSame(k)
        BY <3>1, ForgetEffect DEF GroupsInv, FarSound
      <3>3. QED
        BY <3>2 DEF FarAgrees, Ignorant
    <2>2. CASE n \notin up
      <3>1. UNCHANGED <<groups, pidToGroups>>
        BY <1>1, <2>2
      <3>2. FarAgrees(n) /\ DownIsEmpty(n) /\ GroupTypes
        BY DEF GroupsInv, FarSound
      <3>3. QED
        BY <2>2, <3>1, <3>2 DEF FarAgrees, DownIsEmpty, Ignorant, GroupTypes, NearSame
    <2>3. QED
      BY <2>1, <2>2
  <1>7. GroupTypes'
    BY <1>6 DEF GroupsInv, GroupTypes
  <1>8. /\ OneCall'
        /\ \A p \in Pid : CallIsSound(p)'
        /\ \A e \in Pair : EntryIsSound(e)' /\ (InFlux(e)' <=> InFlux(e))
    BY <1>1, <1>6, NearUntouched
  <1>9. ASSUME NEW k \in Node PROVE FarAgrees(k)' /\ (faults = {} => Ignorant(k)')
    <2>1. CASE k = n
      BY <1>6, <2>1
    <2>2. CASE k # n
      <3>1. k \notin up
        BY <1>2, <2>2, OtherNode
      <3>2. FarAgrees(k) /\ (faults = {} => Ignorant(k))
        BY <3>1 DEF GroupsInv, FarSound, DownIsEmpty
      <3>3. QED
        BY <1>6, <2>2, <3>2 DEF FarAgrees, Ignorant
    <2>3. QED
      BY <2>1, <2>2
  <1>10. ASSUME NEW k \in Node PROVE FarSound(k)'
    <2>1. DownIsEmpty(k)'
      BY <1>1, <1>9 DEF DownIsEmpty
    <2>2. NothingSent(k)'
      <3>1. SUFFICES ASSUME Clean(k)' PROVE wire'[k] = <<>> /\ inHand'[k] = {} /\ Ignorant(k)'
        BY DEF NothingSent
      <3>2. faults = {} /\ inHand[k] = {}
        BY <1>1, <1>2, <3>1 DEF Clean
      <3>3. QED
        BY <1>1, <1>2, <1>9, <3>2
    <2>3. WillAgree(k)'
      BY <1>1, <1>2, OtherNode DEF WillAgree
    <2>4. QED
      BY <1>9, <2>1, <2>2, <2>3 DEF FarSound
  <1>11. QED
    BY <1>4, <1>5, <1>7, <1>8, <1>10 DEF GroupsInv

LEMMA ReadInv ==
    ASSUME GroupsInv, NEW n \in Node, LinkRead(n), UNCHANGED groupVars
    PROVE  GroupsInv'
  <1>1. PICK m : m = Head(wire[n])
    OBVIOUS
  <1>2. PICK h : h = [conn |-> dials, msg |-> m]
    OBVIOUS
  <1>3. PICK t : t = Tail(wire[n])
    OBVIOUS
  <1>4. /\ wire[n] # <<>> /\ \A g \in inHand[n] : g.conn # dials
        /\ inHand' = [inHand EXCEPT ![n] = @ \cup {h}] /\ wire' = [wire EXCEPT ![n] = t]
        /\ UNCHANGED <<dials, dialled, acceptor, pending, up, faults>>
    BY <1>1, <1>2, <1>3 DEF LinkRead, GroupsInv, GroupLinkTypes
  <1>5. wire[n] \in Seq(GroupMessage) /\ dials \in Nat
    BY DEF GroupsInv, GroupLinkTypes
  <1>6. /\ Len(wire[n]) \in Nat /\ Len(wire[n]) > 0 /\ m = wire[n][1] /\ m \in GroupMessage
        /\ t \in Seq(GroupMessage) /\ Len(t) = Len(wire[n]) - 1
        /\ \A i \in 1 .. Len(t) : t[i] = wire[n][i + 1]
    BY <1>1, <1>3, <1>4, <1>5
  <1>7. h \in [conn : Nat, msg : GroupMessage] /\ h.conn = dials /\ h.msg = m
    BY <1>2, <1>5, <1>6
  <1>8. /\ wire' \in [Node -> Seq(GroupMessage)] /\ wire'[n] = t
        /\ \A k \in Node : k # n => wire'[k] = wire[k]
    BY <1>4, <1>6 DEF GroupsInv, GroupLinkTypes
  <1>9. /\ inHand' \in [Node -> SUBSET [conn : Nat, msg : GroupMessage]] /\ inHand'[n] = inHand[n] \cup {h}
        /\ \A k \in Node : k # n => inHand'[k] = inHand[k]
    BY <1>4, <1>7 DEF GroupsInv, GroupLinkTypes
  <1>10. GroupLinkTypes'
    BY <1>4, <1>8, <1>9 DEF GroupsInv, GroupLinkTypes
  <1>11. GroupLinkSound'
    BY <1>4 DEF GroupsInv, GroupLinkSound
  <1>12. ASSUME NEW k \in Node PROVE AllFit(k)'
    <2>1. AllFit(k)
      BY DEF GroupsInv
    <2>2. CASE k # n
      BY <1>4, <1>8, <1>9, <2>1, <2>2 DEF AllFit
    <2>3. CASE k = n
      <3>1. \A i \in 1 .. Len(wire[n]) : Fits(wire[n][i], n)
        BY <2>1, <2>3 DEF AllFit
      <3>2. \A i \in 1 .. Len(t) : i + 1 \in 1 .. Len(wire[n])
        BY <1>6
      <3>3. \A i \in 1 .. Len(t) : Fits(t[i], n)
        BY <1>6, <3>1, <3>2
      <3>4. Fits(m, n)
        BY <1>6, <3>1
      <3>5. \A g \in inHand'[n] : Fits(g.msg, n) /\ g.conn <= dials
        BY <1>5, <1>7, <1>9, <2>1, <2>3, <3>4 DEF AllFit
      <3>6. \A g, j \in inHand'[n] : g.conn = j.conn => g = j
        BY <1>4, <1>7, <1>9, <2>1, <2>3 DEF AllFit
      <3>7. QED
        BY <1>4, <1>8, <2>3, <3>3, <3>5, <3>6 DEF AllFit
    <2>4. QED
      BY <2>2, <2>3
  <1>13. /\ GroupTypes' /\ OneCall'
         /\ \A p \in Pid : CallIsSound(p)'
         /\ \A e \in Pair : EntryIsSound(e)' /\ (InFlux(e)' <=> InFlux(e))
         /\ \A k \in Node : FarAgrees(k)' /\ (Ignorant(k)' <=> Ignorant(k))
    BY TablesStay
  <1>14. UNCHANGED <<groups, pidToGroups, pgCall>>
    BY DEF groupVars
  <1>15. ASSUME NEW k \in Node, k # n PROVE FarSound(k)'
    <2>1. SameTables(k) /\ OnlyInFlux(k)
      BY <1>14 DEF SameTables, OnlyInFlux, InFlux
    <2>2. QED
      BY <1>4, <1>8, <1>9, <1>15, <2>1, FarUntouched DEF GroupsInv
  <1>16. FarSound(n)'
    <2>1. FarSound(n)
      BY DEF GroupsInv
    <2>2. Clean(n)' => Clean(n) /\ inHand[n] = {}
      BY <1>4, <1>9 DEF Clean
    <2>3. DownIsEmpty(n)'
      BY <1>4, <1>13, <2>1 DEF FarSound, DownIsEmpty
    <2>4. NothingSent(n)'
      BY <1>4, <2>1, <2>2 DEF FarSound, NothingSent
    <2>5. WillAgree(n)'
      <3>1. SUFFICES ASSUME Clean(n)', dialled' = "open", Other(n) \notin pending',
                            NEW e \in Far(n), ~InFlux(e)'
                     PROVE  After(wire'[n], e, Base(n)') <=> e \in groups'[Other(n)]
        BY DEF WillAgree
      <3>2. inHand[n] = {} /\ inHand'[n] = {h}
        BY <1>9, <2>2, <3>1
      <3>3. e \in Base(n) <=> e \in groups[n]
        BY <3>2 DEF Base
      <3>4. PICK then : then = Base(n)'
        OBVIOUS
      <3>5. e \in then <=> Says(m, e) \/ (~Decides(m, e) /\ e \in groups[n])
        BY <1>7, <1>14, <3>2, <3>4 DEF Base
      <3>6. PICK before : before = Base(n)
        OBVIOUS
      <3>7. e \in then <=> Says(wire[n][1], e) \/ (~Decides(wire[n][1], e) /\ e \in before)
        BY <1>6, <3>3, <3>5, <3>6
      <3>8. After(wire[n], e, before) <=> After(t, e, then)
        BY <1>6, <3>7, AfterFirst
      <3>9. ~InFlux(e)
        BY <1>14, <3>1 DEF InFlux
      <3>10. After(wire[n], e, before) <=> e \in groups[Other(n)]
        BY <1>4, <2>1, <2>2, <3>1, <3>6, <3>9 DEF FarSound, WillAgree
      <3>11. QED
        BY <1>8, <1>14, <3>4, <3>8, <3>10
    <2>6. QED
      BY <1>13, <2>3, <2>4, <2>5 DEF FarSound
  <1>17. QED
    BY <1>10, <1>11, <1>12, <1>13, <1>15, <1>16 DEF GroupsInv

\* What a node has of itself, as it tells the other.
LEMMA LocalIs ==
    ASSUME GroupTypes, NEW n \in Node, NEW e \in Far(Other(n))
    PROVE  e \in OfNode(groups[n], n) <=> e \in groups[n]
  <1>1. Home[e[2]] = n
    BY FarIs, OtherNode
  <1>2. QED
    BY <1>1 DEF OfNode

LEMMA SyncIs ==
    ASSUME GroupTypes, NEW n \in Node
    PROVE  /\ Sync("request", {}) \in GroupMessage /\ Fits(Sync("request", {}), Other(n))
           /\ Sync("response", OfNode(groups[n], n)) \in GroupMessage
           /\ Fits(Sync("response", OfNode(groups[n], n)), Other(n))
           /\ \A e : ~Says(Sync("request", {}), e) /\ ~Decides(Sync("request", {}), e)
           /\ \A e \in Far(Other(n)) :
                 /\ Says(Sync("response", OfNode(groups[n], n)), e) <=> e \in groups[n]
                 /\ Decides(Sync("response", OfNode(groups[n], n)), e)
  <1>1. PICK local : local = OfNode(groups[n], n)
    OBVIOUS
  <1>2. groups[n] \in SUBSET Pair /\ Other(n) # n
    BY OtherNode DEF GroupTypes
  <1>3. local \subseteq Pair /\ local \subseteq Far(Other(n))
    BY <1>1, <1>2 DEF OfNode, Far
  <1>4. Sync("request", {}) \in GroupMessage /\ Fits(Sync("request", {}), Other(n))
    BY DEF Sync, GroupMessage, Fits
  <1>5. Sync("response", local) \in GroupMessage /\ Fits(Sync("response", local), Other(n))
    BY <1>3 DEF Sync, GroupMessage, Fits
  <1>6. \A e : ~Says(Sync("request", {}), e) /\ ~Decides(Sync("request", {}), e)
    BY DEF Sync, Says, Decides
  <1>7. \A e : Decides(Sync("response", local), e) /\ (Says(Sync("response", local), e) <=> e \in local)
    BY DEF Sync, Says, Decides
  <1>8. QED
    BY <1>1, <1>4, <1>5, <1>6, <1>7, LocalIs

LEMMA NothingBefore ==
    ASSUME NEW s \in Seq(GroupMessage)
    PROVE  <<>> \o s = s /\ s \o <<>> = s
  OBVIOUS

\* What request_sync sends is all that the other end has to know.
LEMMA RequestSyncIs ==
    ASSUME GroupTypes, NEW n \in Node
    PROVE  /\ RequestSync(n) \in Seq(GroupMessage) /\ RequestSync(n) # <<>>
           /\ \A i \in 1 .. Len(RequestSync(n)) : Fits(RequestSync(n)[i], Other(n))
           /\ \A e \in Far(Other(n)) : \A before : e \notin before =>
                 (After(RequestSync(n), e, before) <=> e \in groups[n])
  <1>1. PICK o : o = Other(n)
    OBVIOUS
  <1>2. PICK r : r = Sync("request", {})
    OBVIOUS
  <1>3. PICK a : a = Sync("response", OfNode(groups[n], n))
    OBVIOUS
  <1>4. PICK msgs : msgs = RequestSync(n)
    OBVIOUS
  <1>5. /\ r \in GroupMessage /\ Fits(r, o) /\ a \in GroupMessage /\ Fits(a, o)
        /\ \A e : ~Says(r, e) /\ ~Decides(r, e)
        /\ \A e \in Far(o) : (Says(a, e) <=> e \in groups[n]) /\ Decides(a, e)
    BY <1>1, <1>2, <1>3, SyncIs
  <1>6. <<r>> \in Seq(GroupMessage) /\ Len(<<r>>) = 1 /\ <<r>>[1] = r /\ <<r>> # <<>>
    BY <1>5, OneSent
  <1>7. \A e, before : After(<<r>>, e, before) <=> e \in before
    BY <1>5, <1>6, AfterOne
  <1>8. CASE OfNode(groups[n], n) = {}
    <2>1. msgs = <<r>>
      <3>1. msgs = <<r>> \o <<>>
        BY <1>2, <1>4, <1>8 DEF RequestSync
      <3>2. QED
        BY <1>6, <3>1, NothingBefore
    <2>2. \A e \in Far(o) : e \notin groups[n]
      BY <1>1, <1>8, LocalIs
    <2>3. \A i \in 1 .. Len(msgs) : msgs[i] = r
      BY <1>6, <2>1
    <2>4. QED
      BY <1>1, <1>4, <1>5, <1>6, <1>7, <2>1, <2>2, <2>3
  <1>9. CASE OfNode(groups[n], n) # {}
    <2>1. msgs = <<r>> \o <<a>>
      BY <1>2, <1>3, <1>4, <1>9 DEF RequestSync
    <2>2. msgs \in Seq(GroupMessage) /\ Len(msgs) = 2 /\ msgs[1] = r /\ msgs[2] = a
      BY <1>5, <2>1, TwoSent
    <2>3. \A i \in 1 .. Len(msgs) : i = 1 \/ i = 2
      BY <2>2
    <2>4. \A i \in 1 .. Len(msgs) : Fits(msgs[i], o)
      BY <1>5, <2>2, <2>3
    <2>5. msgs # <<>>
      BY <2>2
    <2>6. ASSUME NEW e \in Far(o), NEW before PROVE After(msgs, e, before) <=> e \in groups[n]
      <3>1. After(msgs, e, before) <=> Says(a, e) \/ (~Decides(a, e) /\ After(<<r>>, e, before))
        BY <1>5, <1>6, <2>1, AfterSent
      <3>2. QED
        BY <1>5, <3>1
    <2>7. QED
      BY <1>1, <1>4, <2>2, <2>4, <2>5, <2>6
  <1>10. QED
    BY <1>8, <1>9

LEMMA AttachInv ==
    ASSUME GroupsInv, OneThread, NEW n \in Node, Attach(n), UNCHANGED <<pgCall, isIn>>
    PROVE  GroupsInv'
  <1>1. PICK o : o = Other(n)
    OBVIOUS
  <1>2. o \in Node /\ o # n /\ Other(o) = n /\ \A k \in Node : k = n \/ k = o
    BY <1>1, OtherNode
  <1>3. PICK msgs : msgs = RequestSync(n)
    OBVIOUS
  <1>4. /\ msgs \in Seq(GroupMessage) /\ msgs # <<>>
        /\ \A i \in 1 .. Len(msgs) : Fits(msgs[i], o)
        /\ \A e \in Far(o) : \A before : e \notin before => (After(msgs, e, before) <=> e \in groups[n])
    BY <1>1, <1>3, RequestSyncIs DEF GroupsInv
  <1>5. /\ dialled \in {"open", "closed"} /\ n \in pending /\ pending' = pending \ {n} /\ up' = up \cup {n}
        /\ Post(n, msgs) /\ UNCHANGED <<dials, dialled, acceptor, inHand, groups, pidToGroups>>
    BY <1>3 DEF Attach, LinkInsert
  <1>6. /\ wire' \in [Node -> Seq(GroupMessage)] /\ wire'[n] = wire[n]
        /\ \A i \in 1 .. Len(wire'[o]) : Fits(wire'[o][i], o)
        /\ faults' = {} => faults = {} /\ (Reaches(n) => wire'[o] = wire[o] \o msgs)
    <2>1. GroupLinkTypes /\ AllFit(o)
      BY <1>2 DEF GroupsInv
    <2>2. QED
      BY <1>1, <1>2, <1>4, <1>5, <2>1, PostIs
  <1>7. GroupLinkTypes'
    BY <1>5, <1>6 DEF GroupsInv, GroupLinkTypes
  <1>8. GroupLinkSound'
    BY <1>5 DEF GroupsInv, GroupLinkSound
  <1>9. AllFit(n)' /\ AllFit(o)'
    BY <1>2, <1>5, <1>6 DEF GroupsInv, AllFit
  <1>10. UNCHANGED <<groups, pidToGroups, pgCall, isIn>>
    BY <1>5
  <1>11. \A k \in Node : NearSame(k) /\ SameTables(k) /\ OnlyInFlux(k)
    BY <1>10 DEF NearSame, SameTables, OnlyInFlux, InFlux
  <1>12. /\ OneCall'
         /\ \A p \in Pid : CallIsSound(p)'
         /\ \A e \in Pair : EntryIsSound(e)' /\ (InFlux(e)' <=> InFlux(e))
    BY <1>10, <1>11, NearUntouched
  <1>13. GroupTypes'
    BY <1>10 DEF GroupsInv, GroupTypes
  <1>14. FarSound(n)'
    <2>1. Other(n) \in pending' <=> Other(n) \in pending
      BY <1>1, <1>2, <1>5
    <2>2. QED
      BY <1>5, <1>6, <1>11, <2>1, FarUntouched DEF GroupsInv
  <1>15. FarSound(o)'
    <2>1. FarSound(o)
      BY <1>2 DEF GroupsInv
    <2>2. Base(o)' = Base(o) /\ (FarAgrees(o)' <=> FarAgrees(o)) /\ (Ignorant(o)' <=> Ignorant(o))
      BY <1>2, <1>5, <1>11, SameBase
    <2>3. Clean(o)' => Clean(o)
      BY <1>5, <1>6 DEF Clean
    <2>4. DownIsEmpty(o)'
      BY <1>5, <1>6, <2>1, <2>2 DEF FarSound, DownIsEmpty
    <2>5. NothingSent(o)'
      BY <1>2, <1>5 DEF NothingSent
    <2>6. WillAgree(o)'
      <3>1. SUFFICES ASSUME Clean(o)', dialled' = "open", NEW e \in Far(o)
                     PROVE  After(wire'[o], e, Base(o)') <=> e \in groups'[Other(o)]
        BY DEF WillAgree
      <3>2. wire[o] = <<>> /\ inHand[o] = {} /\ Ignorant(o)
        BY <1>2, <1>5, <2>1, <2>3, <3>1 DEF FarSound, NothingSent
      <3>3. wire'[o] = wire[o] \o msgs
        BY <1>5, <1>6, <3>1 DEF Clean, Reaches
      <3>4. wire'[o] = msgs
        BY <1>4, <3>2, <3>3, NothingBefore
      <3>5. PICK before : before = Base(o)'
        OBVIOUS
      <3>6. e \notin before
        BY <2>2, <3>2, <3>5 DEF Base, Ignorant
      <3>7. QED
        BY <1>2, <1>4, <1>10, <3>4, <3>5, <3>6
    <2>7. QED
      BY <2>1, <2>2, <2>4, <2>5, <2>6 DEF FarSound
  <1>16. \A k \in Node : AllFit(k)' /\ FarSound(k)'
    BY <1>2, <1>9, <1>14, <1>15
  <1>17. QED
    BY <1>7, <1>8, <1>12, <1>13, <1>16 DEF GroupsInv

\* A message sets what the node knows of the memberships that it decides.
LEMMA ChangeEffect ==
    ASSUME GroupTypes, NEW n \in Node, NEW a \in SUBSET Pair, NEW b \in SUBSET Pair,
           groups' = [groups EXCEPT ![n] = a], pidToGroups' = [pidToGroups EXCEPT ![n] = b]
    PROVE  /\ groups' \in [Node -> SUBSET Pair] /\ pidToGroups' \in [Node -> SUBSET Pair]
           /\ groups'[n] = a /\ pidToGroups'[n] = b
           /\ \A k \in Node : k # n => groups'[k] = groups[k] /\ pidToGroups'[k] = pidToGroups[k]
  BY PairsAfter DEF GroupTypes

Changes(m, n, e) == Says(m, e) \/ (~Decides(m, e) /\ e \in groups[n])

LEMMA HandleTables ==
    ASSUME GroupsInv, NEW n \in Node, NEW h \in inHand[n], Handle(n, h)
    PROVE  /\ groups' \in [Node -> SUBSET Pair] /\ pidToGroups' \in [Node -> SUBSET Pair]
           /\ \A k \in Node : k # n => groups'[k] = groups[k] /\ pidToGroups'[k] = pidToGroups[k]
           /\ \A e \in Far(n) : /\ e \in groups'[n] <=> Changes(h.msg, n, e)
                                /\ e \in pidToGroups'[n] <=> Changes(h.msg, n, e)
           /\ \A k \in Node : NearSame(k)
  <1>1. PICK m : m = h.msg
    OBVIOUS
  <1>2. m \in GroupMessage /\ Fits(m, n)
    BY <1>1 DEF GroupsInv, GroupLinkTypes, AllFit
  <1>3. PICK g : g = groups[n]
    OBVIOUS
  <1>4. PICK i : i = pidToGroups[n]
    OBVIOUS
  <1>5. g \in SUBSET Pair /\ i \in SUBSET Pair
    BY <1>3, <1>4 DEF GroupsInv, GroupTypes
  <1>6. PICK x : x = <<m.group, m.pid>>
    OBVIOUS
  <1>7. PICK a, b : /\ groups' = [groups EXCEPT ![n] = a] /\ pidToGroups' = [pidToGroups EXCEPT ![n] = b]
                    /\ \/ m.kind = "join" /\ a = g \cup {x} /\ b = i \cup {x}
                       \/ m.kind = "leave" /\ a = g \ {x} /\ b = i \ {x}
                       \/ m.kind = "leave_all" /\ a = g \ Of(i, m.pid) /\ b = i \ Of(i, m.pid)
                       \/ m.kind = "request" /\ a = g /\ b = i
                       \/ m.kind = "response" /\ a = Refreshed(g, n, m.all) /\ b = Refreshed(i, n, m.all)
    <2>1. CASE m.kind = "request"
      <3>1. groups' = groups /\ pidToGroups' = pidToGroups
        BY <1>1, <2>1 DEF Handle
      <3>2. groups' = [groups EXCEPT ![n] = g] /\ pidToGroups' = [pidToGroups EXCEPT ![n] = i]
        BY <1>3, <1>4, <3>1 DEF GroupsInv, GroupTypes
      <3>3. QED
        BY <2>1, <3>2
    <2>2. CASE m.kind # "request"
      BY <1>1, <1>3, <1>4, <1>6, <2>2 DEF Handle
    <2>3. QED
      BY <2>1, <2>2
  <1>8. \A e \in Pair : e = x <=> e[1] = m.group /\ e[2] = m.pid
    BY <1>6, PairIs
  <1>9. m.kind \in {"join", "leave", "leave_all"} => m.pid \in Pid /\ Home[m.pid] # n
    BY <1>2 DEF Fits
  <1>10. m.all \subseteq Far(n) /\ m.all \subseteq Pair
    BY <1>2 DEF Fits, Far
  <1>11. \A e \in Pair : e \in i /\ Home[e[2]] = Other(n) => e \in Far(n)
    BY OtherNode DEF Far
  <1>12. ASSUME NEW s \in {g, i}, m.kind = "response", NEW e \in Pair
         PROVE  e \in Refreshed(s, n, m.all) <=> e \in m.all \/ (e \in s /\ ~(e \in i /\ Home[e[2]] = Other(n)))
    BY <1>4, <1>10, <1>12 DEF Refreshed, WithoutNode, OfNode
  <1>13. a \in SUBSET Pair /\ b \in SUBSET Pair
    <2>1. m.kind = "join" => x \in Pair
      BY <1>2, <1>6, <1>9 DEF Fits, Pair
    <2>2. Refreshed(g, n, m.all) \subseteq Pair /\ Refreshed(i, n, m.all) \subseteq Pair
      BY <1>5, <1>10 DEF Refreshed, WithoutNode
    <2>3. QED
      BY <1>5, <1>7, <2>1, <2>2
  <1>14. /\ groups' \in [Node -> SUBSET Pair] /\ pidToGroups' \in [Node -> SUBSET Pair]
         /\ groups'[n] = a /\ pidToGroups'[n] = b
         /\ \A k \in Node : k # n => groups'[k] = groups[k] /\ pidToGroups'[k] = pidToGroups[k]
    BY <1>7, <1>13, ChangeEffect DEF GroupsInv
  <1>15. ASSUME NEW e \in Far(n)
         PROVE  (e \in a <=> Changes(m, n, e)) /\ (e \in b <=> Changes(m, n, e))
    <2>1. e \in Pair /\ Home[e[2]] = Other(n) /\ (e \in g <=> e \in i)
      BY <1>3, <1>4, FarIs DEF GroupsInv, FarSound, FarAgrees
    <2>2. CASE m.kind \in {"join", "leave"}
      BY <1>3, <1>7, <1>8, <2>1, <2>2 DEF Changes, Says, Decides
    <2>3. CASE m.kind = "leave_all"
      <3>1. e \in Of(i, m.pid) <=> e \in i /\ e[2] = m.pid
        BY DEF Of
      <3>2. QED
        BY <1>3, <1>7, <2>1, <2>3, <3>1 DEF Changes, Says, Decides
    <2>4. CASE m.kind = "request"
      BY <1>3, <1>7, <2>1, <2>4 DEF Changes, Says, Decides
    <2>5. CASE m.kind = "response"
      BY <1>3, <1>7, <1>12, <2>1, <2>5 DEF Changes, Says, Decides
    <2>6. QED
      BY <1>7, <2>2, <2>3, <2>4, <2>5
  <1>16. ASSUME NEW e \in Pair, Home[e[2]] = n
         PROVE  (e \in a <=> e \in g) /\ (e \in b <=> e \in i)
    <2>1. CASE m.kind \in {"join", "leave"}
      <3>1. e # x
        BY <1>8, <1>9, <1>16, <2>1
      <3>2. QED
        BY <1>7, <2>1, <3>1
    <2>2. CASE m.kind = "leave_all"
      <3>1. e \notin Of(i, m.pid)
        BY <1>9, <1>16, <2>2 DEF Of
      <3>2. QED
        BY <1>7, <2>2, <3>1
    <2>3. CASE m.kind = "request"
      BY <1>7, <2>3
    <2>4. CASE m.kind = "response"
      <3>1. e \notin m.all /\ Home[e[2]] # Other(n)
        BY <1>10, <1>16, OtherNode DEF Far
      <3>2. QED
        BY <1>7, <1>12, <2>4, <3>1
    <2>5. QED
      BY <1>7, <2>1, <2>2, <2>3, <2>4
  <1>17. NearSame(n)
    BY <1>3, <1>4, <1>14, <1>16 DEF NearSame
  <1>18. \A k \in Node : k # n => NearSame(k)
    BY <1>14 DEF NearSame
  <1>19. QED
    BY <1>1, <1>14, <1>15, <1>17, <1>18

LEMMA HandleIs ==
    ASSUME GroupsInv, NEW n \in Node, NEW h \in inHand[n], NEW msgs \in Seq(GroupMessage),
           \A i \in 1 .. Len(msgs) : Fits(msgs[i], Other(n)), LinkHandle(n, h, msgs)
    PROVE  /\ GroupLinkTypes' /\ GroupLinkSound' /\ \A k \in Node : AllFit(k)'
           /\ wire'[n] = wire[n] /\ inHand'[Other(n)] = inHand[Other(n)]
           /\ wire'[Other(n)] \in {wire[Other(n)], wire[Other(n)] \o msgs}
           /\ faults' = {} =>
                 /\ faults = {} /\ n \in up /\ h.conn = dials
                 /\ dialled = "open" => wire'[Other(n)] = wire[Other(n)] \o msgs
  <1>1. PICK o : o = Other(n)
    OBVIOUS
  <1>2. o \in Node /\ o # n /\ \A k \in Node : k = n \/ k = o
    BY <1>1, OtherNode
  <1>3. PICK q : q = wire[o] \o msgs
    OBVIOUS
  <1>4. wire[o] \in Seq(GroupMessage) /\ wire \in [Node -> Seq(GroupMessage)]
    BY <1>2 DEF GroupsInv, GroupLinkTypes
  <1>5. /\ q \in Seq(GroupMessage) /\ Len(q) = Len(wire[o]) + Len(msgs)
        /\ \A i \in 1 .. Len(wire[o]) : q[i] = wire[o][i]
        /\ \A i \in 1 .. Len(msgs) : q[Len(wire[o]) + i] = msgs[i]
    BY <1>3, <1>4, ConcatIs
  <1>6. Len(wire[o]) \in Nat /\ Len(msgs) \in Nat /\ Len(q) \in Nat /\ MaxQueue \in Nat
    BY <1>4, <1>5, LinkAssumption, NodesAssumption
  <1>7. \A i \in 1 .. Len(wire[o]) : Fits(wire[o][i], o)
    BY <1>2 DEF GroupsInv, AllFit
  <1>8. ASSUME NEW i \in 1 .. Len(q) PROVE Fits(q[i], o)
    <2>1. CASE i \in 1 .. Len(wire[o])
      BY <1>5, <1>7, <2>1
    <2>2. CASE i \notin 1 .. Len(wire[o])
      <3>1. i - Len(wire[o]) \in 1 .. Len(msgs) /\ i = Len(wire[o]) + (i - Len(wire[o]))
        BY <1>5, <1>6, <2>2
      <3>2. q[i] = msgs[i - Len(wire[o])]
        BY <1>5, <3>1
      <3>3. QED
        BY <1>1, <3>1, <3>2
    <2>3. QED
      BY <2>1, <2>2
  <1>9. /\ inHand' = [inHand EXCEPT ![n] = @ \ {h}]
        /\ UNCHANGED <<dials, dialled, acceptor, pending, up>>
        /\ wire' = IF Reaches(n) /\ msgs # <<>> /\ Len(wire[o]) < MaxQueue THEN [wire EXCEPT ![o] = q] ELSE wire
        /\ faults' = faults \cup (IF IsLate(n, h) THEN {"late"} ELSE {})
               \cup (IF Reaches(n) /\ msgs # <<>> /\ Len(wire[o]) >= MaxQueue THEN {"full"} ELSE {})
    BY <1>1, <1>2, <1>3, <1>4 DEF LinkHandle
  <1>10. wire' = wire \/ wire' = [wire EXCEPT ![o] = q]
    BY <1>9
  <1>11. /\ wire' \in [Node -> Seq(GroupMessage)] /\ wire'[n] = wire[n] /\ wire'[o] \in {wire[o], q}
    BY <1>2, <1>4, <1>5, <1>10
  <1>12. /\ inHand' \in [Node -> SUBSET [conn : Nat, msg : GroupMessage]]
         /\ inHand'[n] = inHand[n] \ {h} /\ inHand'[o] = inHand[o]
    BY <1>2, <1>9 DEF GroupsInv, GroupLinkTypes
  <1>13. GroupLinkTypes'
    BY <1>9, <1>11, <1>12 DEF GroupsInv, GroupLinkTypes
  <1>14. GroupLinkSound'
    <2>1. ASSUME dialled = "hello" PROVE wire' = wire
      BY <1>9, <2>1 DEF Reaches
    <2>2. \A k \in Node : inHand'[k] \subseteq inHand[k]
      BY <1>2, <1>12
    <2>3. QED
      BY <1>9, <2>1, <2>2 DEF GroupsInv, GroupLinkSound
  <1>15. AllFit(n)'
    BY <1>9, <1>11, <1>12 DEF GroupsInv, AllFit
  <1>16. AllFit(o)'
    BY <1>2, <1>7, <1>8, <1>9, <1>11, <1>12 DEF GroupsInv, AllFit
  <1>17. ASSUME faults' = {}
         PROVE  /\ faults = {} /\ n \in up /\ h.conn = dials
                /\ dialled = "open" => wire'[o] = q
    <2>1. faults = {} /\ ~IsLate(n, h) /\ ~(Reaches(n) /\ msgs # <<>> /\ Len(wire[o]) >= MaxQueue)
      BY <1>9, <1>17
    <2>2. n \in up /\ h.conn = dials
      BY <2>1 DEF IsLate
    <2>3. ASSUME dialled = "open" PROVE wire'[o] = q
      <3>1. Reaches(n)
        BY <1>9, <2>2, <2>3 DEF Reaches
      <3>2. CASE msgs = <<>>
        <4>1. q = wire[o]
          BY <1>3, <1>4, <3>2, NothingBefore
        <4>2. QED
          BY <1>11, <4>1
      <3>3. CASE msgs # <<>>
        <4>1. Len(wire[o]) < MaxQueue
          BY <1>6, <2>1, <3>1, <3>3
        <4>2. wire' = [wire EXCEPT ![o] = q]
          BY <1>9, <3>1, <3>3, <4>1
        <4>3. QED
          BY <1>2, <1>4, <4>2
      <3>4. QED
        BY <3>2, <3>3
    <2>4. QED
      BY <2>1, <2>2, <2>3
  <1>18. QED
    BY <1>1, <1>2, <1>3, <1>11, <1>12, <1>13, <1>14, <1>15, <1>16, <1>17

LEMMA HandleInv ==
    ASSUME GroupsInv, OneThread, NEW n \in Node, NEW h \in inHand[n], Handle(n, h), UNCHANGED <<pgCall, isIn>>
    PROVE  GroupsInv'
  <1>1. PICK o : o = Other(n)
    OBVIOUS
  <1>2. o \in Node /\ o # n /\ Other(o) = n /\ \A k \in Node : k = n \/ k = o
    BY <1>1, OtherNode
  <1>3. PICK m : m = h.msg
    OBVIOUS
  <1>4. PICK a : a = Sync("response", OfNode(groups[n], n))
    OBVIOUS
  <1>5. /\ a \in GroupMessage /\ Fits(a, o)
        /\ \A e \in Far(o) : (Says(a, e) <=> e \in groups[n]) /\ Decides(a, e)
    BY <1>1, <1>4, SyncIs DEF GroupsInv
  <1>6. PICK msgs : msgs = IF m.kind = "request" THEN <<a>> ELSE <<>>
    OBVIOUS
  <1>7. /\ msgs \in Seq(GroupMessage) /\ msgs \in {<<>>, <<a>>}
        /\ \A i \in 1 .. Len(msgs) : Fits(msgs[i], o)
    <2>1. <<a>> \in Seq(GroupMessage) /\ Len(<<a>>) = 1 /\ <<a>>[1] = a
      BY <1>5, OneSent
    <2>2. <<>> \in Seq(GroupMessage) /\ Len(<<>>) = 0
      OBVIOUS
    <2>3. CASE msgs = <<a>>
      BY <1>5, <2>1, <2>3
    <2>4. CASE msgs = <<>>
      BY <2>2, <2>4
    <2>5. QED
      BY <1>6, <2>3, <2>4
  <1>8. LinkHandle(n, h, msgs) /\ NoneCalls(n)
    BY <1>3, <1>4, <1>6 DEF Handle, Calm, NoneCalls
  <1>9. UNCHANGED <<dials, dialled, acceptor, pending, up>> /\ inHand' = [inHand EXCEPT ![n] = @ \ {h}]
    BY <1>8 DEF LinkHandle
  <1>10. /\ GroupLinkTypes' /\ GroupLinkSound' /\ \A k \in Node : AllFit(k)'
         /\ wire'[n] = wire[n] /\ inHand'[o] = inHand[o]
         /\ wire'[o] \in {wire[o], wire[o] \o msgs}
         /\ faults' = {} =>
               /\ faults = {} /\ n \in up /\ h.conn = dials
               /\ dialled = "open" => wire'[o] = wire[o] \o msgs
    BY <1>1, <1>7, <1>8, HandleIs
  <1>11. /\ groups' \in [Node -> SUBSET Pair] /\ pidToGroups' \in [Node -> SUBSET Pair]
         /\ \A k \in Node : k # n => groups'[k] = groups[k] /\ pidToGroups'[k] = pidToGroups[k]
         /\ \A e \in Far(n) : /\ e \in groups'[n] <=> Changes(m, n, e)
                              /\ e \in pidToGroups'[n] <=> Changes(m, n, e)
         /\ \A k \in Node : NearSame(k)
    BY <1>3, HandleTables
  <1>12. GroupTypes'
    BY <1>11 DEF GroupsInv, GroupTypes
  <1>13. /\ OneCall'
         /\ \A p \in Pid : CallIsSound(p)'
         /\ \A e \in Pair : EntryIsSound(e)' /\ (InFlux(e)' <=> InFlux(e))
    BY <1>8, <1>11, NearUntouched
  <1>14. \A k \in Node, e \in Pair : Home[e[2]] = k => (e \in groups'[k] <=> e \in groups[k])
    BY <1>11 DEF NearSame
  <1>15. FarSound(n)'
    <2>1. FarSound(n) /\ h \in inHand[n] /\ inHand'[n] = inHand[n] \ {h}
      BY <1>9 DEF GroupsInv, GroupLinkTypes
    <2>2. FarAgrees(n)'
      BY <1>11 DEF FarAgrees
    <2>3. Clean(n)' => Clean(n)
      BY <1>9, <1>10, <2>1 DEF Clean
    <2>4. DownIsEmpty(n)'
      BY <1>9, <1>10 DEF DownIsEmpty
    <2>5. NothingSent(n)'
      BY <1>9, <2>1, <2>3 DEF FarSound, NothingSent
    <2>6. WillAgree(n)'
      <3>1. SUFFICES ASSUME Clean(n)', dialled' = "open", Other(n) \notin pending',
                            NEW e \in Far(n), ~InFlux(e)'
                     PROVE  After(wire'[n], e, Base(n)') <=> e \in groups'[Other(n)]
        BY DEF WillAgree
      <3>2. inHand[n] = {h} /\ inHand'[n] = {}
        <4>1. \A g \in inHand[n] : g.conn = h.conn
          BY <2>1, <2>3, <3>1 DEF Clean
        <4>2. QED
          BY <2>1, <4>1 DEF GroupsInv, AllFit
      <3>3. ASSUME NEW d \in Far(n) PROVE d \in groups'[n] <=> d \in Base(n)
        BY <1>3, <1>11, <3>2 DEF Base, Changes
      <3>4. Base(n)' = Base(n)
        <4>1. \A d : d \in Base(n)' <=> d \in Far(n) /\ d \in groups'[n]
          BY <3>2 DEF Base
        <4>2. \A d \in Base(n) : d \in Far(n)
          BY DEF Base
        <4>3. QED
          BY <3>3, <4>1, <4>2
      <3>5. e \in Pair /\ ~InFlux(e)
        BY <1>13, <3>1, FarIs
      <3>6. After(wire[n], e, Base(n)) <=> e \in groups[Other(n)]
        BY <1>9, <2>1, <2>3, <3>1, <3>5 DEF FarSound, WillAgree
      <3>7. groups'[Other(n)] = groups[Other(n)]
        BY <1>1, <1>2, <1>11
      <3>8. QED
        BY <1>10, <3>4, <3>6, <3>7
    <2>7. QED
      BY <2>2, <2>4, <2>5, <2>6 DEF FarSound
  <1>16. FarSound(o)'
    <2>1. FarSound(o) /\ wire[o] \in Seq(GroupMessage)
      BY <1>2 DEF GroupsInv, GroupLinkTypes
    <2>2. SameTables(o)
      BY <1>2, <1>11 DEF SameTables
    <2>3. Base(o)' = Base(o) /\ (FarAgrees(o)' <=> FarAgrees(o)) /\ (Ignorant(o)' <=> Ignorant(o))
      BY <1>2, <1>10, <2>2, SameBase
    <2>4. Clean(o)' => Clean(o)
      BY <1>9, <1>10 DEF Clean
    <2>5. DownIsEmpty(o)'
      BY <1>9, <1>10, <2>1, <2>3 DEF FarSound, DownIsEmpty
    <2>6. NothingSent(o)'
      <3>1. ASSUME Clean(o)', dialled' = "open", Other(o) \in pending' PROVE FALSE
        <4>1. n \in up /\ n \in pending
          BY <1>2, <1>9, <1>10, <3>1 DEF Clean
        <4>2. QED
          BY <1>9, <3>1, <4>1 DEF GroupsInv, GroupLinkSound
      <3>2. QED
        BY <3>1 DEF NothingSent
    <2>7. WillAgree(o)'
      <3>1. SUFFICES ASSUME Clean(o)', dialled' = "open", Other(o) \notin pending',
                            NEW e \in Far(o), ~InFlux(e)'
                     PROVE  After(wire'[o], e, Base(o)') <=> e \in groups'[Other(o)]
        BY DEF WillAgree
      <3>2. e \in Pair /\ Home[e[2]] = n /\ ~InFlux(e)
        BY <1>2, <1>13, <3>1, FarIs
      <3>3. After(wire[o], e, Base(o)) <=> e \in groups[n]
        BY <1>2, <1>9, <2>1, <2>4, <3>1, <3>2 DEF FarSound, WillAgree
      <3>4. e \in groups'[n] <=> e \in groups[n]
        BY <1>14, <3>2
      <3>5. wire'[o] = wire[o] \o msgs
        BY <1>9, <1>10, <3>1 DEF Clean
      <3>6. CASE msgs = <<>>
        <4>1. wire'[o] = wire[o]
          BY <2>1, <3>5, <3>6, NothingBefore
        <4>2. QED
          BY <1>2, <2>3, <3>3, <3>4, <4>1
      <3>7. CASE msgs = <<a>>
        <4>1. wire'[o] = wire[o] \o <<a>>
          BY <3>5, <3>7
        <4>2. PICK before : before = Base(o)'
          OBVIOUS
        <4>3. After(wire[o] \o <<a>>, e, before) <=> Says(a, e) \/ (~Decides(a, e) /\ After(wire[o], e, before))
          BY <1>5, <2>1, AfterSent
        <4>4. QED
          BY <1>2, <1>5, <3>4, <4>1, <4>2, <4>3
      <3>8. QED
        BY <1>7, <3>6, <3>7
    <2>8. QED
      BY <2>1, <2>3, <2>5, <2>6, <2>7 DEF FarSound
  <1>17. \A k \in Node : AllFit(k)' /\ FarSound(k)'
    BY <1>2, <1>10, <1>15, <1>16
  <1>18. QED
    BY <1>10, <1>12, <1>13, <1>17 DEF GroupsInv

-----------------------------------------------------------------------------
LEMMA GroupsInitInv == GroupsInit => GroupsInv
  <1> SUFFICES ASSUME GroupsInit PROVE GroupsInv
    OBVIOUS
  <1>1. /\ dials = 0 /\ dialled = "none" /\ pending = {} /\ up = {}
        /\ wire = [n \in Node |-> <<>>] /\ inHand = [n \in Node |-> {}] /\ acceptor = CHOOSE n \in Node : TRUE
        /\ groups = [n \in Node |-> {}] /\ pidToGroups = [n \in Node |-> {}]
        /\ pgCall = [p \in Pid |-> NoCall] /\ isIn = {}
    BY DEF GroupsInit, LinkInit
  <1>2. acceptor \in Node
    <2>1. PICK n : n \in Node
      BY LinkAssumption, NodesAssumption
    <2>2. QED
      BY <1>1, <2>1
  <1>3. <<>> \in Seq(GroupMessage) /\ Len(<<>>) = 0
    OBVIOUS
  <1>4. wire \in [Node -> Seq(GroupMessage)] /\ \A n \in Node : Len(wire[n]) = 0
    BY <1>1, <1>3
  <1>5. GroupLinkTypes /\ GroupLinkSound /\ \A n \in Node : AllFit(n)
    BY <1>1, <1>2, <1>4 DEF GroupLinkTypes, GroupLinkSound, AllFit
  <1>6. NoCall \in PgCall /\ NoCall.op = "none" /\ NoCall.step = "none"
    BY DEF NoCall, PgCall, CallOps, CallSteps
  <1>7. GroupTypes
    BY <1>1, <1>6 DEF GroupTypes
  <1>8. OneCall /\ \A p \in Pid : CallIsSound(p)
    BY <1>1, <1>6 DEF OneCall, CallIsSound
  <1>9. ASSUME NEW e \in Pair PROVE EntryIsSound(e)
    <2>1. pgCall[e[2]] = NoCall /\ groups[Home[e[2]]] = {} /\ pidToGroups[Home[e[2]]] = {}
      BY <1>1, PairIs
    <2>2. QED
      BY <1>1, <1>6, <2>1 DEF EntryIsSound
  <1>10. \A n \in Node : FarSound(n)
    BY <1>1 DEF FarSound, FarAgrees, DownIsEmpty, NothingSent, WillAgree, Ignorant
  <1>11. QED
    BY <1>5, <1>7, <1>8, <1>9, <1>10 DEF GroupsInv

LEMMA GroupsRestUntouched ==
    ASSUME GroupsInv, UNCHANGED <<linkVars, groupVars>>
    PROVE  GroupsInv'
  <1>1. UNCHANGED <<dials, dialled, acceptor, pending, up, wire, inHand, faults>>
    BY DEF linkVars
  <1>2. /\ GroupTypes' /\ OneCall'
        /\ \A p \in Pid : CallIsSound(p)'
        /\ \A e \in Pair : EntryIsSound(e)' /\ (InFlux(e)' <=> InFlux(e))
    BY TablesStay
  <1>3. GroupLinkTypes' /\ GroupLinkSound' /\ \A n \in Node : AllFit(n)'
    BY <1>1 DEF GroupsInv, GroupLinkTypes, GroupLinkSound, AllFit
  <1>4. UNCHANGED <<groups, pidToGroups, pgCall>>
    BY DEF groupVars
  <1>5. \A n \in Node : SameTables(n) /\ OnlyInFlux(n)
    BY <1>4 DEF SameTables, OnlyInFlux, InFlux
  <1>6. \A n \in Node : FarSound(n)'
    BY <1>1, <1>5, FarUntouched DEF GroupsInv
  <1>7. QED
    BY <1>2, <1>3, <1>6 DEF GroupsInv

LEMMA GroupsNextInv ==
    ASSUME OneThread, GroupsInv, [GroupsNext]_<<linkVars, groupVars>>
    PROVE  GroupsInv'
  <1>1. CASE UNCHANGED <<linkVars, groupVars>>
    BY <1>1, GroupsRestUntouched
  <1>2. ASSUME NEW p \in Pid,
               \/ \E g \in Group : Join(p, g) \/ Leave(p, g)
               \/ LeaveAll(p) \/ Insert(p) \/ Index(p) \/ Take(p) \/ Remove(p) \/ Drop(p)
               \/ Unindex(p) \/ Tell(p)
        PROVE  GroupsInv'
    BY <1>2, JoinInv, LeaveInv, LeaveAllInv, InsertInv, IndexInv, TakeInv, RemoveInv, DropInv,
       UnindexInv, TellInv
  <1>3. ASSUME NEW n \in Node, Accept(n) \/ Attach(n) \/ Detach(n) \/ \E h \in inHand[n] : Handle(n, h),
               UNCHANGED <<pgCall, isIn, calls>>
        PROVE  GroupsInv'
    BY <1>3, AcceptInv, AttachInv, DetachInv, HandleInv
  <1>4. ASSUME LinkLost \/ \E n \in Node : Dial(n) \/ LinkRead(n), UNCHANGED groupVars
        PROVE  GroupsInv'
    BY <1>4, LinkLostGroupsInv, DialGroupsInv, ReadInv
  <1>5. QED
    BY <1>1, <1>2, <1>3, <1>4 DEF GroupsNext

(***************************************************************************)
(* MembersAgree, for every number of processes, groups, connections and    *)
(* calls, where each node runs on one thread: once the connection has      *)
(* settled and no call is under way, both maps of both nodes hold exactly  *)
(* the processes whose join has returned and that have not left since,     *)
(* unless a message was dropped or handled after its connection had ended. *)
(***************************************************************************)
THEOREM MembersComeToAgree ==
    ASSUME OneThread
    PROVE  GroupsSpec => []MembersAgree
  <1>1. ASSUME GroupsInv PROVE MembersAgree
    <2>1. SUFFICES ASSUME LinkSettled, \A p \in Pid : pgCall[p] = NoCall, NEW n \in Node
                   PROVE  groups[n] = isIn /\ pidToGroups[n] = isIn
      BY DEF MembersAgree
    <2>2. /\ dialled = "open" /\ pending = {} /\ faults = {}
          /\ wire[n] = <<>> /\ inHand[n] = {}
      BY <2>1 DEF LinkSettled
    <2>3. groups[n] \subseteq Pair /\ pidToGroups[n] \subseteq Pair /\ isIn \subseteq Pair
      BY <1>1 DEF GroupsInv, GroupTypes
    <2>4. ASSUME NEW e \in Pair
          PROVE  /\ e \in groups[Home[e[2]]] <=> e \in isIn
                 /\ e \in pidToGroups[Home[e[2]]] <=> e \in isIn
      <3>1. pgCall[e[2]].step = "none"
        BY <2>1, PairIs DEF NoCall
      <3>2. QED
        BY <1>1, <3>1 DEF GroupsInv, EntryIsSound
    <2>5. ASSUME NEW e \in Far(n) PROVE (e \in groups[n] <=> e \in isIn) /\ (e \in pidToGroups[n] <=> e \in isIn)
      <3>1. e \in Pair /\ e[2] \in Pid /\ Home[e[2]] = Other(n)
        BY FarIs
      <3>2. ~InFlux(e)
        BY <2>1, <3>1 DEF InFlux, NoCall
      <3>3. Clean(n)
        BY <2>2 DEF Clean
      <3>4. After(wire[n], e, Base(n)) <=> e \in groups[Other(n)]
        BY <1>1, <2>2, <3>2, <3>3 DEF GroupsInv, FarSound, WillAgree
      <3>5. After(wire[n], e, Base(n)) <=> e \in Base(n)
        BY <2>2, AfterNothing
      <3>6. e \in Base(n) <=> e \in groups[n]
        BY <2>2 DEF Base
      <3>7. e \in groups[n] <=> e \in pidToGroups[n]
        BY <1>1 DEF GroupsInv, FarSound, FarAgrees
      <3>8. QED
        BY <2>4, <3>1, <3>4, <3>5, <3>6, <3>7
    <2>6. ASSUME NEW e \in Pair PROVE (e \in groups[n] <=> e \in isIn) /\ (e \in pidToGroups[n] <=> e \in isIn)
      <3>1. CASE e \in Far(n)
        BY <2>5, <3>1
      <3>2. CASE Home[e[2]] = n
        BY <2>4, <3>2
      <3>3. QED
        BY <3>1, <3>2 DEF Far
    <2>7. QED
      BY <2>3, <2>6
  <1>2. GroupsInit => GroupsInv
    BY GroupsInitInv
  <1>3. GroupsInv /\ [GroupsNext]_<<linkVars, groupVars>> => GroupsInv'
    BY GroupsNextInv
  <1>4. QED
    BY <1>1, <1>2, <1>3, PTL DEF GroupsSpec

-----------------------------------------------------------------------------
(***************************************************************************)
(* PubSub.  A client has entries, and none of its requests in the mailbox  *)
(* removes them, as long as it must receive; or has none and no request    *)
(* makes one.  The reply that ends a wait is to the last of its requests.  *)
(***************************************************************************)
ServerRequests == {"subscribe", "unsubscribe", "unsubscribe_all"}
ServerMsg ==
    [kind : ServerRequests, topic : Topic, client : Pid, id : Nat]
        \cup [kind : {"broadcast", "local", "raw"}, topic : Topic, client : Pid \cup {Nobody}, id : Nat]
ClientCall == [op : ServerRequests, topic : Topic, id : Nat \ {0}]

PubSubTypes ==
    /\ mailbox \in [Node -> Seq(ServerMsg)]
    /\ entries \in [Node -> [Topic -> [Pid -> Nat]]]
    /\ calling \in [Pid -> ClientCall \cup {NotCalling}]
    /\ inbox \in [Pid -> Seq(Nat)]
    /\ standing \in [Pid -> [Topic -> {"out", "in", "between"}]]
    /\ owed \in [Pid -> SUBSET Nat]
    /\ subscribes \in Nat /\ broadcasts \in Nat

IsRequest(m, c) == m.kind \in ServerRequests /\ m.client = c
IsCast(m) == m.kind \in {"broadcast", "local"}
Subscribes(m, c, t) == m.kind = "subscribe" /\ m.client = c /\ m.topic = t
Unsubscribes(m, c, t) ==
    /\ m.client = c
    /\ m.kind = "unsubscribe_all" \/ (m.kind = "unsubscribe" /\ m.topic = t)

\* The requests of c in a mailbox: at its own node, each later than those before it.
InTurn(q, c) ==
    \A i, j \in 1 .. Len(q) : i < j /\ IsRequest(q[i], c) /\ IsRequest(q[j], c) => q[i].id < q[j].id
Latest(q, n, c) ==
    \A i \in 1 .. Len(q) : IsRequest(q[i], c) =>
        Home[c] = n /\ 0 < q[i].id /\ q[i].id <= subscribes
            /\ (calling[c] # NotCalling => q[i].id <= calling[c].id)

Stands(c, t, q, k) ==
    /\ standing[c][t] = "out" => k = 0 /\ \A i \in 1 .. Len(q) : ~ Subscribes(q[i], c, t)
    /\ standing[c][t] = "in" => k > 0 /\ \A i \in 1 .. Len(q) : ~ Unsubscribes(q[i], c, t)

ComesFrom(m, c, x) ==
    IsCast(m) /\ m.id = x /\ m.client # c /\ standing[c][m.topic] = "in"
Receives(c, x, q, received) ==
    x \in Range(received) \/ \E i \in 1 .. Len(q) : ComesFrom(q[i], c, x)

PubSubInv ==
    /\ PubSubTypes
    /\ strays = {}
    /\ \A n \in Node, c \in Pid : InTurn(mailbox[n], c) /\ Latest(mailbox[n], n, c)
    /\ \A n \in Node, t \in Topic, c \in Pid : Home[c] # n => entries[n][t][c] = 0
    /\ \A c \in Pid, t \in Topic : Stands(c, t, mailbox[Home[c]], entries[Home[c]][t][c])
    /\ \A c \in Pid : \A x \in owed[c] : Receives(c, x, mailbox[Home[c]], inbox[c])

-----------------------------------------------------------------------------
LEMMA HomeIs == \A c \in Pid : Home[c] \in Node /\ c # Nobody
  BY NodesAssumption

LEMMA ServerMsgIs ==
    /\ \A m \in ServerMsg : m.topic \in Topic /\ m.id \in Nat /\ m.client \in Pid \cup {Nobody}
    /\ \A m \in ServerMsg : m.kind \in ServerRequests => m.client \in Pid
  <1>1. ASSUME NEW m \in ServerMsg PROVE m.topic \in Topic /\ m.id \in Nat /\ m.client \in Pid \cup {Nobody}
    BY DEF ServerMsg
  <1>2. ASSUME NEW m \in ServerMsg, m.kind \in ServerRequests PROVE m.client \in Pid
    <2>1. CASE m \in [kind : ServerRequests, topic : Topic, client : Pid, id : Nat]
      BY <2>1
    <2>2. CASE m \in [kind : {"broadcast", "local", "raw"}, topic : Topic, client : Pid \cup {Nobody}, id : Nat]
      BY <1>2, <2>2 DEF ServerRequests
    <2>3. QED
      BY <2>1, <2>2 DEF ServerMsg
  <1>3. QED
    BY <1>1, <1>2

LEMMA MailAdded ==
    ASSUME NEW q \in Seq(ServerMsg), NEW x \in ServerMsg
    PROVE  /\ Append(q, x) \in Seq(ServerMsg)
           /\ Len(Append(q, x)) = Len(q) + 1 /\ Len(q) \in Nat
           /\ \A i \in 1 .. Len(q) : Append(q, x)[i] = q[i] /\ i \in 1 .. Len(Append(q, x))
           /\ Append(q, x)[Len(q) + 1] = x /\ Len(q) + 1 \in 1 .. Len(Append(q, x))
           /\ \A i \in 1 .. Len(Append(q, x)) : i \in 1 .. Len(q) \/ i = Len(q) + 1
  OBVIOUS

LEMMA MailTaken ==
    ASSUME NEW q \in Seq(ServerMsg), q # <<>>
    PROVE  /\ Tail(q) \in Seq(ServerMsg) /\ Head(q) = q[1] /\ q[1] \in ServerMsg
           /\ Len(Tail(q)) + 1 = Len(q) /\ Len(Tail(q)) \in Nat /\ 1 \in 1 .. Len(q)
           /\ \A i \in 1 .. Len(Tail(q)) : Tail(q)[i] = q[i + 1] /\ i + 1 \in 1 .. Len(q) /\ 1 < i + 1
           /\ \A i \in 1 .. Len(q) : i = 1 \/ (i - 1 \in 1 .. Len(Tail(q)) /\ Tail(q)[i - 1] = q[i])
  OBVIOUS

LEMMA PubSubIs ==
    ASSUME PubSubInv, NEW n \in Node
    PROVE  mailbox[n] \in Seq(ServerMsg) /\ subscribes \in Nat /\ broadcasts \in Nat
  BY DEF PubSubInv, PubSubTypes

\* What is in a mailbox stays in order, as one message is taken or one added.
LEMMA InTurnTaken ==
    ASSUME NEW q \in Seq(ServerMsg), q # <<>>, NEW c \in Pid, InTurn(q, c)
    PROVE  InTurn(Tail(q), c)
  <1> SUFFICES ASSUME NEW i \in 1 .. Len(Tail(q)), NEW j \in 1 .. Len(Tail(q)), i < j,
                      IsRequest(Tail(q)[i], c), IsRequest(Tail(q)[j], c)
               PROVE  Tail(q)[i].id < Tail(q)[j].id
    BY DEF InTurn
  <1>1. /\ i + 1 \in 1 .. Len(q) /\ j + 1 \in 1 .. Len(q) /\ i + 1 < j + 1
        /\ Tail(q)[i] = q[i + 1] /\ Tail(q)[j] = q[j + 1]
    BY MailTaken
  <1>2. QED
    BY <1>1 DEF InTurn

LEMMA InTurnAdded ==
    ASSUME NEW q \in Seq(ServerMsg), NEW m \in ServerMsg, NEW c \in Pid, InTurn(q, c),
           IsRequest(m, c) => \A i \in 1 .. Len(q) : IsRequest(q[i], c) => q[i].id < m.id
    PROVE  InTurn(Append(q, m), c)
  <1> DEFINE a == Append(q, m)
  <1>1. /\ Len(q) \in Nat
        /\ \A i \in 1 .. Len(q) : a[i] = q[i]
        /\ a[Len(q) + 1] = m
        /\ \A i \in 1 .. Len(a) : i \in 1 .. Len(q) \/ i = Len(q) + 1
    BY MailAdded
  <1> SUFFICES ASSUME NEW i \in 1 .. Len(a), NEW j \in 1 .. Len(a), i < j,
                      IsRequest(a[i], c), IsRequest(a[j], c)
               PROVE  a[i].id < a[j].id
    BY DEF InTurn
  <1> HIDE DEF a
  <1>2. CASE j \in 1 .. Len(q)
    <2>1. i \in 1 .. Len(q)
      BY <1>1, <1>2
    <2>2. QED
      BY <1>1, <1>2, <2>1 DEF InTurn
  <1>3. CASE j = Len(q) + 1
    <2>1. i \in 1 .. Len(q)
      BY <1>1, <1>3
    <2>2. QED
      BY <1>1, <1>3, <2>1
  <1>4. QED
    BY <1>1, <1>2, <1>3

LEMMA PubSubInitInv == PubSubInit => PubSubInv
  <1> SUFFICES ASSUME PubSubInit PROVE PubSubInv
    OBVIOUS
  <1> USE DEF PubSubInit
  <1>1. PubSubTypes
    BY DEF PubSubTypes
  <1>2. \A n \in Node, c \in Pid : InTurn(mailbox[n], c) /\ Latest(mailbox[n], n, c)
    BY DEF InTurn, Latest
  <1>3. \A c \in Pid, t \in Topic : Stands(c, t, mailbox[Home[c]], entries[Home[c]][t][c])
    BY HomeIs DEF Stands
  <1>4. QED
    BY <1>1, <1>2, <1>3, HomeIs DEF PubSubInv

\* A call that has timed out is waited for no more.
LEMMA PlainInv ==
    ASSUME PubSubInv, NEW c \in Pid, calling' = [calling EXCEPT ![c] = NotCalling],
           UNCHANGED <<mailbox, entries, inbox, standing, owed, strays, subscribes, broadcasts>>
    PROVE  PubSubInv'
  <1>1. PubSubTypes'
    BY DEF PubSubInv, PubSubTypes, NotCalling
  <1>2. ASSUME NEW n \in Node, NEW d \in Pid PROVE (InTurn(mailbox[n], d) /\ Latest(mailbox[n], n, d))'
    <2>1. InTurn(mailbox[n], d) /\ Latest(mailbox[n], n, d)
      BY DEF PubSubInv
    <2>2. calling'[d] = calling[d] \/ calling'[d] = NotCalling
      BY DEF PubSubInv, PubSubTypes
    <2>3. Latest(mailbox[n], n, d)'
      BY <2>1, <2>2 DEF Latest, NotCalling
    <2>4. QED
      BY <2>1, <2>3 DEF InTurn
  <1>3. QED
    BY <1>1, <1>2 DEF PubSubInv, Stands, Receives, ComesFrom

(***************************************************************************)
(* A call: its request is the last of its client, and what the client must *)
(* receive or not is open until the answer where the request changes it.   *)
(***************************************************************************)
LEMMA CallInv ==
    ASSUME PubSubInv, NEW c \in Pid, NEW op \in ServerRequests, NEW t \in Topic, Call(c, op, t),
           standing' \in [Pid -> [Topic -> {"out", "in", "between"}]],
           owed' \in [Pid -> SUBSET Nat],
           \A d \in Pid : d # c => standing'[d] = standing[d] /\ owed'[d] = owed[d],
           \A u \in Topic :
              /\ standing'[c][u] = standing[c][u] \/ standing'[c][u] = "between"
              /\ standing'[c][u] = "out" => ~ (op = "subscribe" /\ u = t)
              /\ standing'[c][u] = "in" => ~ (op = "unsubscribe_all" \/ (op = "unsubscribe" /\ u = t)),
           \/ owed'[c] = {}
           \/ /\ owed'[c] = owed[c]
              /\ \A u \in Topic : standing[c][u] = "in" => standing'[c][u] = "in"
    PROVE  PubSubInv'
  <1> DEFINE h == Home[c]
             m == Msg(op, t, c, subscribes + 1)
             what == [op |-> op, topic |-> t, id |-> subscribes + 1]
  <1>1. /\ subscribes' = subscribes + 1 /\ calling' = [calling EXCEPT ![c] = what]
        /\ mailbox' = [mailbox EXCEPT ![h] = Append(@, m)]
        /\ UNCHANGED <<entries, inbox, strays, broadcasts>>
    BY DEF Call, Send
  <1>2. /\ m \in ServerMsg /\ m.kind = op /\ m.topic = t /\ m.client = c /\ m.id = subscribes + 1
        /\ what \in ClientCall /\ what.id = subscribes + 1 /\ h \in Node /\ subscribes \in Nat
    <2>1. subscribes \in Nat /\ h \in Node
      BY PubSubIs, HomeIs
    <2>2. m \in ServerMsg
      BY <2>1 DEF Msg, ServerMsg
    <2>3. what \in ClientCall
      BY <2>1 DEF ClientCall
    <2>4. QED
      BY <2>1, <2>2, <2>3 DEF Msg
  <1> HIDE DEF m, what
  <1>3. /\ mailbox' \in [Node -> Seq(ServerMsg)]
        /\ mailbox'[h] = Append(mailbox[h], m) /\ mailbox[h] \in Seq(ServerMsg)
        /\ \A n \in Node : n # h => mailbox'[n] = mailbox[n]
    <2>1. mailbox[h] \in Seq(ServerMsg) /\ Append(mailbox[h], m) \in Seq(ServerMsg)
      BY <1>2, PubSubIs, MailAdded
    <2>2. QED
      BY <1>1, <1>2, <2>1 DEF PubSubInv, PubSubTypes
  <1>3a. ASSUME NEW n \in Node
         PROVE  /\ \A i \in 1 .. Len(mailbox[n]) :
                      i \in 1 .. Len(mailbox'[n]) /\ mailbox'[n][i] = mailbox[n][i]
                /\ \A i \in 1 .. Len(mailbox'[n]) :
                      \/ i \in 1 .. Len(mailbox[n]) /\ mailbox'[n][i] = mailbox[n][i]
                      \/ n = h /\ mailbox'[n][i] = m
    <2>1. CASE n = h
      <3> DEFINE q == mailbox[h]
      <3>1. q \in Seq(ServerMsg) /\ m \in ServerMsg /\ mailbox'[n] = Append(q, m)
        BY <1>2, <1>3, <2>1
      <3> HIDE DEF q
      <3>2. /\ \A i \in 1 .. Len(q) : Append(q, m)[i] = q[i] /\ i \in 1 .. Len(Append(q, m))
            /\ Append(q, m)[Len(q) + 1] = m
            /\ \A i \in 1 .. Len(Append(q, m)) : i \in 1 .. Len(q) \/ i = Len(q) + 1
        BY <3>1, MailAdded
      <3>3. QED
        BY <2>1, <3>1, <3>2 DEF q
    <2>2. CASE n # h
      BY <1>3, <2>2
    <2>3. QED
      BY <2>1, <2>2
  <1>4. /\ calling' \in [Pid -> ClientCall \cup {NotCalling}] /\ calling'[c] = what
        /\ \A d \in Pid : d # c => calling'[d] = calling[d]
    BY <1>1, <1>2 DEF PubSubInv, PubSubTypes
  <1>5. PubSubTypes'
    BY <1>1, <1>2, <1>3, <1>4 DEF PubSubInv, PubSubTypes
  <1>6. ASSUME NEW n \in Node, NEW d \in Pid PROVE InTurn(mailbox'[n], d)
    <2>1. InTurn(mailbox[n], d) /\ Latest(mailbox[n], n, d)
      BY DEF PubSubInv
    <2>2. CASE n = h
      <3>1. IsRequest(m, d) => \A i \in 1 .. Len(mailbox[h]) :
               IsRequest(mailbox[h][i], d) => mailbox[h][i].id < m.id
        <4> SUFFICES ASSUME NEW i \in 1 .. Len(mailbox[h]), IsRequest(mailbox[h][i], d)
                     PROVE  mailbox[h][i].id < m.id
          OBVIOUS
        <4>1. mailbox[h][i].id <= subscribes
          BY <2>1, <2>2 DEF Latest
        <4>2. mailbox[h][i].id \in Nat
          BY <1>3, ServerMsgIs
        <4>3. QED
          BY <1>2, <4>1, <4>2
      <3>2. m \in ServerMsg /\ mailbox[h] \in Seq(ServerMsg) /\ InTurn(mailbox[h], d)
        BY <1>2, <1>3, <2>1, <2>2
      <3>3. InTurn(Append(mailbox[h], m), d)
        BY <3>1, <3>2, InTurnAdded
      <3>4. QED
        BY <1>3, <2>2, <3>3
    <2>3. CASE n # h
      BY <1>3, <2>1, <2>3
    <2>4. QED
      BY <2>2, <2>3
  <1>7. ASSUME NEW n \in Node, NEW d \in Pid PROVE Latest(mailbox[n], n, d)'
    <2> SUFFICES ASSUME NEW i \in 1 .. Len(mailbox'[n]), IsRequest(mailbox'[n][i], d)
                 PROVE  /\ Home[d] = n /\ 0 < mailbox'[n][i].id /\ mailbox'[n][i].id <= subscribes'
                        /\ calling'[d] # NotCalling => mailbox'[n][i].id <= calling'[d].id
      BY DEF Latest
    <2>1. CASE i \in 1 .. Len(mailbox[n]) /\ mailbox'[n][i] = mailbox[n][i]
      <3>1. /\ Home[d] = n /\ 0 < mailbox[n][i].id /\ mailbox[n][i].id <= subscribes
            /\ calling[d] # NotCalling => mailbox[n][i].id <= calling[d].id
        BY <2>1 DEF PubSubInv, Latest
      <3>2. mailbox[n][i].id \in Nat
        <4>1. mailbox[n] \in Seq(ServerMsg)
          BY PubSubIs
        <4>2. QED
          BY <2>1, <4>1, ServerMsgIs
      <3>3. mailbox[n][i].id <= subscribes + 1
        BY <1>2, <3>1, <3>2
      <3>4. CASE d = c
        BY <1>1, <1>2, <1>4, <2>1, <3>1, <3>3, <3>4
      <3>5. CASE d # c
        BY <1>1, <1>4, <2>1, <3>1, <3>3, <3>5
      <3>6. QED
        BY <3>4, <3>5
    <2>2. CASE n = h /\ mailbox'[n][i] = m
      <3>1. d = c
        BY <1>2, <2>2 DEF IsRequest
      <3>2. QED
        BY <1>1, <1>2, <1>4, <2>2, <3>1
    <2>3. QED
      BY <1>3a, <2>1, <2>2
  <1>8. ASSUME NEW d \in Pid, NEW u \in Topic
        PROVE  Stands(d, u, mailbox[Home[d]], entries[Home[d]][u][d])'
    <2>1. Stands(d, u, mailbox[Home[d]], entries[Home[d]][u][d]) /\ Home[d] \in Node
      BY HomeIs DEF PubSubInv
    <2>2. CASE d = c
      <3>1. ASSUME NEW i \in 1 .. Len(mailbox'[h])
            PROVE  \/ i \in 1 .. Len(mailbox[h]) /\ mailbox'[h][i] = mailbox[h][i]
                   \/ mailbox'[h][i] = m
        BY <1>2, <1>3a
      <3>2. ASSUME standing'[c][u] = "out", NEW i \in 1 .. Len(mailbox'[h])
            PROVE  ~ Subscribes(mailbox'[h][i], c, u)
        BY <1>2, <2>1, <2>2, <3>1, <3>2 DEF Stands, Subscribes
      <3>3. ASSUME standing'[c][u] = "in", NEW i \in 1 .. Len(mailbox'[h])
            PROVE  ~ Unsubscribes(mailbox'[h][i], c, u)
        BY <1>2, <2>1, <2>2, <3>1, <3>3 DEF Stands, Unsubscribes
      <3>4. QED
        BY <1>1, <2>1, <2>2, <3>2, <3>3 DEF Stands
    <2>3. CASE d # c
      <3>1. ASSUME NEW i \in 1 .. Len(mailbox'[Home[d]])
            PROVE  \/ i \in 1 .. Len(mailbox[Home[d]]) /\ mailbox'[Home[d]][i] = mailbox[Home[d]][i]
                   \/ mailbox'[Home[d]][i] = m
        BY <1>3a, <2>1
      <3>2. ~ Subscribes(m, d, u) /\ ~ Unsubscribes(m, d, u)
        BY <1>2, <2>3 DEF Subscribes, Unsubscribes
      <3>3. QED
        BY <1>1, <2>1, <2>3, <3>1, <3>2 DEF Stands
    <2>4. QED
      BY <2>2, <2>3
  <1>9. ASSUME NEW d \in Pid, NEW x \in owed'[d] PROVE Receives(d, x, mailbox[Home[d]], inbox[d])'
    <2>1. /\ x \in owed[d] /\ Home[d] \in Node
          /\ \A u \in Topic : standing[d][u] = "in" => standing'[d][u] = "in"
      BY <1>9, HomeIs
    <2>2. Receives(d, x, mailbox[Home[d]], inbox[d])
      BY <2>1 DEF PubSubInv
    <2>3. ASSUME NEW i \in 1 .. Len(mailbox[Home[d]]), ComesFrom(mailbox[Home[d]][i], d, x)
          PROVE  Receives(d, x, mailbox[Home[d]], inbox[d])'
      <3>1. i \in 1 .. Len(mailbox'[Home[d]]) /\ mailbox'[Home[d]][i] = mailbox[Home[d]][i]
        BY <1>3a, <2>1, <2>3
      <3>2. mailbox[Home[d]][i].topic \in Topic
        <4>1. mailbox[Home[d]] \in Seq(ServerMsg)
          BY <2>1, PubSubIs
        <4>2. QED
          BY <2>3, <4>1, ServerMsgIs
      <3>3. ComesFrom(mailbox[Home[d]][i], d, x)'
        BY <2>1, <2>3, <3>1, <3>2 DEF ComesFrom
      <3>4. QED
        BY <3>1, <3>3 DEF Receives
    <2>4. QED
      BY <1>1, <2>2, <2>3 DEF Receives
  <1>10. QED
    BY <1>1, <1>5, <1>6, <1>7, <1>8, <1>9 DEF PubSubInv

LEMMA SubscribeInv ==
    ASSUME PubSubInv, NEW c \in Pid, NEW t \in Topic, Subscribe(c, t) \/ Unsubscribe(c, t)
    PROVE  PubSubInv'
  <1>1. /\ standing \in [Pid -> [Topic -> {"out", "in", "between"}]]
        /\ owed \in [Pid -> SUBSET Nat]
    BY DEF PubSubInv, PubSubTypes
  <1>2. CASE Subscribe(c, t)
    <2>1. /\ Call(c, "subscribe", t) /\ owed' = owed
          /\ standing' = [standing EXCEPT ![c][t] = IF @ = "out" THEN "between" ELSE @]
      BY <1>2 DEF Subscribe
    <2>2. "subscribe" \in ServerRequests
      BY DEF ServerRequests
    <2>3. standing' \in [Pid -> [Topic -> {"out", "in", "between"}]]
      BY <1>1, <2>1
    <2>4. \A d \in Pid : d # c => standing'[d] = standing[d]
      BY <1>1, <2>1
    <2>5. ASSUME NEW u \in Topic
          PROVE  standing'[c][u] = IF u = t /\ standing[c][u] = "out" THEN "between" ELSE standing[c][u]
      BY <1>1, <2>1
    <2>6. QED
      BY <1>1, <2>1, <2>2, <2>3, <2>4, <2>5, CallInv
  <1>3. CASE Unsubscribe(c, t)
    <2>1. owed' \in [Pid -> SUBSET Nat] /\ owed'[c] = {} /\ \A d \in Pid : d # c => owed'[d] = owed[d]
      BY <1>1, <1>3 DEF Unsubscribe
    <2>2. "unsubscribe" \in ServerRequests /\ "unsubscribe_all" \in ServerRequests
      BY DEF ServerRequests
    <2>3. CASE /\ Call(c, "unsubscribe", t)
               /\ standing' = [standing EXCEPT ![c][t] = IF @ = "in" THEN "between" ELSE @]
      <3>1. standing' \in [Pid -> [Topic -> {"out", "in", "between"}]]
        BY <1>1, <2>3
      <3>2. \A d \in Pid : d # c => standing'[d] = standing[d]
        BY <1>1, <2>3
      <3>3. ASSUME NEW u \in Topic
            PROVE  standing'[c][u] = IF u = t /\ standing[c][u] = "in" THEN "between" ELSE standing[c][u]
        BY <1>1, <2>3
      <3>4. QED
        BY <2>1, <2>2, <2>3, <3>1, <3>2, <3>3, CallInv
    <2>4. CASE /\ Call(c, "unsubscribe_all", t)
               /\ standing' = [standing EXCEPT ![c] =
                     [u \in Topic |-> IF @[u] = "in" THEN "between" ELSE @[u]]]
      <3>1. standing' \in [Pid -> [Topic -> {"out", "in", "between"}]]
        BY <1>1, <2>4
      <3>2. \A d \in Pid : d # c => standing'[d] = standing[d]
        BY <1>1, <2>4
      <3>3. ASSUME NEW u \in Topic
            PROVE  standing'[c][u] = IF standing[c][u] = "in" THEN "between" ELSE standing[c][u]
        BY <1>1, <2>4
      <3>4. QED
        BY <2>1, <2>2, <2>4, <3>1, <3>2, <3>3, CallInv
    <2>5. QED
      BY <1>3, <2>3, <2>4 DEF Unsubscribe
  <1>4. QED
    BY <1>2, <1>3

(***************************************************************************)
(* Requests come by calls only: what else happens to a mailbox takes its   *)
(* first message, adds one that is none, or both.                          *)
(***************************************************************************)
Rest(q, s) == s = q \/ (q # <<>> /\ s = Tail(q))
Follows(q, r) ==
    \/ Rest(q, r)
    \/ \E s \in Seq(ServerMsg), m \in ServerMsg :
          Rest(q, s) /\ m.kind \notin ServerRequests /\ r = Append(s, m)

LEMMA RestKeeps ==
    ASSUME NEW q \in Seq(ServerMsg), NEW s, Rest(q, s)
    PROVE  /\ s \in Seq(ServerMsg)
           /\ \A c \in Pid : InTurn(q, c) => InTurn(s, c)
           /\ \A i \in 1 .. Len(s) : \E j \in 1 .. Len(q) : s[i] = q[j]
  <1>1. CASE s = q
    BY <1>1
  <1>2. CASE q # <<>> /\ s = Tail(q)
    <2>1. \A c \in Pid : InTurn(q, c) => InTurn(s, c)
      BY <1>2, InTurnTaken
    <2>2. QED
      BY <1>2, <2>1, MailTaken
  <1>3. QED
    BY <1>1, <1>2 DEF Rest

LEMMA FollowsKeeps ==
    ASSUME NEW q \in Seq(ServerMsg), NEW r, Follows(q, r)
    PROVE  /\ r \in Seq(ServerMsg)
           /\ \A c \in Pid : InTurn(q, c) => InTurn(r, c)
           /\ \A i \in 1 .. Len(r) : r[i].kind \in ServerRequests => \E j \in 1 .. Len(q) : r[i] = q[j]
  <1>1. CASE Rest(q, r)
    BY <1>1, RestKeeps
  <1>2. ASSUME NEW s \in Seq(ServerMsg), NEW m \in ServerMsg,
               Rest(q, s), m.kind \notin ServerRequests, r = Append(s, m)
        PROVE  /\ r \in Seq(ServerMsg)
               /\ \A c \in Pid : InTurn(q, c) => InTurn(r, c)
               /\ \A i \in 1 .. Len(r) : r[i].kind \in ServerRequests => \E j \in 1 .. Len(q) : r[i] = q[j]
    <2>1. ASSUME NEW c \in Pid, InTurn(q, c) PROVE InTurn(r, c)
      <3>1. InTurn(s, c) /\ ~ IsRequest(m, c)
        BY <1>2, <2>1, RestKeeps DEF IsRequest
      <3>2. QED
        BY <1>2, <3>1, InTurnAdded
    <2>2. /\ r \in Seq(ServerMsg)
          /\ \A i \in 1 .. Len(s) : r[i] = s[i]
          /\ r[Len(s) + 1] = m
          /\ \A i \in 1 .. Len(r) : i \in 1 .. Len(s) \/ i = Len(s) + 1
      BY <1>2, MailAdded
    <2>3. \A i \in 1 .. Len(s) : \E j \in 1 .. Len(q) : s[i] = q[j]
      BY <1>2, RestKeeps
    <2>4. QED
      BY <1>2, <2>1, <2>2, <2>3
  <1>3. QED
    BY <1>1, <1>2 DEF Follows

LEMMA ServedKeeps ==
    ASSUME PubSubInv, UNCHANGED subscribes, NEW n \in Node, Follows(mailbox[n], mailbox'[n]),
           \A c \in Pid : calling'[c] = calling[c] \/ calling'[c] = NotCalling
    PROVE  /\ mailbox'[n] \in Seq(ServerMsg)
           /\ \A c \in Pid : (InTurn(mailbox[n], c) /\ Latest(mailbox[n], n, c))'
  <1>1. /\ mailbox'[n] \in Seq(ServerMsg)
        /\ \A c \in Pid : InTurn(mailbox[n], c) => InTurn(mailbox'[n], c)
        /\ \A i \in 1 .. Len(mailbox'[n]) : mailbox'[n][i].kind \in ServerRequests =>
              \E j \in 1 .. Len(mailbox[n]) : mailbox'[n][i] = mailbox[n][j]
    BY PubSubIs, FollowsKeeps
  <1>2. ASSUME NEW c \in Pid PROVE (InTurn(mailbox[n], c) /\ Latest(mailbox[n], n, c))'
    <2>1. InTurn(mailbox[n], c) /\ Latest(mailbox[n], n, c)
      BY DEF PubSubInv
    <2>2. ASSUME NEW i \in 1 .. Len(mailbox'[n]), IsRequest(mailbox'[n][i], c)
          PROVE  /\ Home[c] = n /\ 0 < mailbox'[n][i].id /\ mailbox'[n][i].id <= subscribes
                 /\ calling'[c] # NotCalling => mailbox'[n][i].id <= calling'[c].id
      <3>1. PICK j \in 1 .. Len(mailbox[n]) : mailbox'[n][i] = mailbox[n][j]
        BY <1>1, <2>2 DEF IsRequest
      <3>2. QED
        BY <2>1, <2>2, <3>1 DEF Latest
    <2>3. Latest(mailbox[n], n, c)'
      BY <2>2 DEF Latest
    <2>4. QED
      BY <1>1, <2>1, <2>3
  <1>3. QED
    BY <1>1, <1>2

LEMMA StandsFollows ==
    ASSUME NEW q \in Seq(ServerMsg), NEW r, Follows(q, r), NEW c \in Pid, NEW t \in Topic, NEW k,
           Stands(c, t, q, k), standing'[c][t] = standing[c][t]
    PROVE  Stands(c, t, r, k)'
  <1>1. \A i \in 1 .. Len(r) : r[i].kind \in ServerRequests => \E j \in 1 .. Len(q) : r[i] = q[j]
    BY FollowsKeeps
  <1>2. ASSUME NEW i \in 1 .. Len(r), Subscribes(r[i], c, t) \/ Unsubscribes(r[i], c, t)
        PROVE  \E j \in 1 .. Len(q) : r[i] = q[j]
    BY <1>1, <1>2 DEF Subscribes, Unsubscribes, ServerRequests
  <1>3. QED
    BY <1>2 DEF Stands

\* A broadcast counts for whom has subscribed to its topic at this node.
LEMMA BroadcastInv ==
    ASSUME PubSubInv, NEW c \in Pid, NEW t \in Topic, NEW far \in BOOLEAN,
           NEW from \in {c, Nobody}, Broadcast(c, t, far, from)
    PROVE  PubSubInv'
  <1> DEFINE h == Home[c]
             x == broadcasts + 1
             m == [kind |-> IF far THEN "broadcast" ELSE "local", topic |-> t, client |-> from, id |-> x]
  <1>1. /\ broadcasts' = x /\ mailbox' = [mailbox EXCEPT ![h] = Append(@, m)]
        /\ owed' = [d \in Pid |-> owed[d] \cup (IF Counts(d, t, h, m) THEN {x} ELSE {})]
        /\ UNCHANGED <<entries, calling, inbox, standing, strays, subscribes>>
    BY DEF Broadcast, Send
  <1>2. /\ m \in ServerMsg /\ IsCast(m) /\ m.topic = t /\ m.client = from /\ m.id = x
        /\ m.kind \notin ServerRequests /\ h \in Node /\ x \in Nat
    <2>1. h \in Node /\ x \in Nat /\ from \in Pid \cup {Nobody}
      BY PubSubIs, HomeIs
    <2>2. m.kind \in {"broadcast", "local"}
      OBVIOUS
    <2>3. m \in ServerMsg
      BY <2>1 DEF ServerMsg
    <2>4. QED
      BY <2>1, <2>2, <2>3 DEF IsCast, ServerRequests
  <1> HIDE DEF m
  <1>3. mailbox[h] \in Seq(ServerMsg)
    BY <1>2, PubSubIs
  <1>4. mailbox'[h] = Append(mailbox[h], m) /\ \A n \in Node : n # h => mailbox'[n] = mailbox[n]
    BY <1>1, <1>2 DEF PubSubInv, PubSubTypes
  <1>5. \A n \in Node : Follows(mailbox[n], mailbox'[n])
    BY <1>2, <1>3, <1>4 DEF Follows, Rest
  <1>6. ASSUME NEW n \in Node
        PROVE  mailbox'[n] \in Seq(ServerMsg) /\ \A d \in Pid : (InTurn(mailbox[n], d) /\ Latest(mailbox[n], n, d))'
    BY <1>1, <1>5, ServedKeeps
  <1>7. PubSubTypes'
    <2>1. mailbox' \in [Node -> Seq(ServerMsg)]
      BY <1>1, <1>6 DEF PubSubInv, PubSubTypes
    <2>2. owed' \in [Pid -> SUBSET Nat]
      BY <1>1, <1>2 DEF PubSubInv, PubSubTypes
    <2>3. QED
      BY <1>1, <1>2, <2>1, <2>2 DEF PubSubInv, PubSubTypes
  <1>8. ASSUME NEW d \in Pid, NEW u \in Topic
        PROVE  Stands(d, u, mailbox[Home[d]], entries[Home[d]][u][d])'
    <2>1. /\ Stands(d, u, mailbox[Home[d]], entries[Home[d]][u][d])
          /\ Home[d] \in Node /\ mailbox[Home[d]] \in Seq(ServerMsg)
      BY HomeIs, PubSubIs DEF PubSubInv
    <2>2. QED
      BY <1>1, <1>5, <2>1, StandsFollows
  <1>9. ASSUME NEW d \in Pid, NEW y \in owed'[d] PROVE Receives(d, y, mailbox[Home[d]], inbox[d])'
    <2>1. Home[d] \in Node /\ mailbox[Home[d]] \in Seq(ServerMsg)
      BY HomeIs, PubSubIs
    <2>2. CASE y \in owed[d]
      <3>1. Receives(d, y, mailbox[Home[d]], inbox[d])
        BY <2>2 DEF PubSubInv
      <3>2. ASSUME NEW i \in 1 .. Len(mailbox[Home[d]])
            PROVE  i \in 1 .. Len(mailbox'[Home[d]]) /\ mailbox'[Home[d]][i] = mailbox[Home[d]][i]
        <4>1. CASE Home[d] = h
          BY <1>2, <1>3, <1>4, <4>1, MailAdded
        <4>2. CASE Home[d] # h
          BY <1>4, <2>1, <4>2
        <4>3. QED
          BY <4>1, <4>2
      <3>3. QED
        BY <1>1, <3>1, <3>2 DEF Receives, ComesFrom
    <2>3. CASE y \notin owed[d]
      <3>1. y = x /\ Counts(d, t, h, m)
        BY <1>1, <1>9, <2>3
      <3>2. IsCast(m) /\ m.id = y /\ m.client # d /\ standing'[d][m.topic] = "in"
        BY <1>1, <1>2, <3>1 DEF Counts, NotExcluded
      <3>3. Home[d] = h
        BY <3>1 DEF Counts
      <3>4. Len(mailbox[h]) + 1 \in 1 .. Len(mailbox'[h]) /\ mailbox'[h][Len(mailbox[h]) + 1] = m
        BY <1>2, <1>3, <1>4, MailAdded
      <3>5. QED
        BY <3>2, <3>3, <3>4 DEF Receives, ComesFrom
    <2>4. QED
      BY <2>2, <2>3
  <1>10. QED
    BY <1>1, <1>6, <1>7, <1>8, <1>9 DEF PubSubInv

-----------------------------------------------------------------------------
\* What the server of a node takes from its mailbox.
LEMMA NextIs ==
    ASSUME PubSubInv, NEW n \in Node, mailbox[n] # <<>>
    PROVE  /\ mailbox[n] \in Seq(ServerMsg) /\ Head(mailbox[n]) = mailbox[n][1]
           /\ Head(mailbox[n]) \in ServerMsg /\ 1 \in 1 .. Len(mailbox[n])
           /\ Tail(mailbox[n]) \in Seq(ServerMsg)
           /\ \A i \in 1 .. Len(Tail(mailbox[n])) : Tail(mailbox[n])[i] = mailbox[n][i + 1]
                 /\ i + 1 \in 1 .. Len(mailbox[n]) /\ 1 < i + 1
           /\ \A i \in 1 .. Len(mailbox[n]) :
                 \/ i = 1
                 \/ i - 1 \in 1 .. Len(Tail(mailbox[n])) /\ Tail(mailbox[n])[i - 1] = mailbox[n][i]
           /\ Served(n)[n] = Tail(mailbox[n])
           /\ \A k \in Node : k # n => Served(n)[k] = mailbox[k]
           /\ DOMAIN Served(n) = Node
  <1>1. mailbox[n] \in Seq(ServerMsg)
    BY PubSubIs
  <1>2. /\ Served(n)[n] = Tail(mailbox[n])
        /\ \A k \in Node : k # n => Served(n)[k] = mailbox[k]
        /\ DOMAIN Served(n) = Node
    BY DEF Served, PubSubInv, PubSubTypes
  <1>3. QED
    BY <1>1, <1>2, MailTaken

LEMMA HandleInfoInv ==
    ASSUME PubSubInv, NEW n \in Node, HandleInfo(n)
    PROVE  PubSubInv'
  <1>1. /\ mailbox[n] # <<>> /\ Head(mailbox[n]).kind = "raw" /\ mailbox' = Served(n)
        /\ UNCHANGED <<entries, calling, inbox, standing, owed, strays, subscribes, broadcasts>>
    BY DEF HandleInfo, IsNext
  <1>2. /\ mailbox'[n] = Tail(mailbox[n])
        /\ \A k \in Node : k # n => mailbox'[k] = mailbox[k]
        /\ DOMAIN mailbox' = Node
    BY <1>1, NextIs
  <1>3. \A k \in Node : Follows(mailbox[k], mailbox'[k])
    BY <1>1, <1>2 DEF Follows, Rest
  <1>4. ASSUME NEW k \in Node
        PROVE  mailbox'[k] \in Seq(ServerMsg) /\ \A d \in Pid : (InTurn(mailbox[k], d) /\ Latest(mailbox[k], k, d))'
    BY <1>1, <1>3, ServedKeeps
  <1>5. PubSubTypes'
    <2>1. mailbox' \in [Node -> Seq(ServerMsg)]
      BY <1>1, <1>4 DEF Served, PubSubInv, PubSubTypes
    <2>2. QED
      BY <1>1, <2>1 DEF PubSubInv, PubSubTypes
  <1>6. ASSUME NEW d \in Pid, NEW u \in Topic
        PROVE  Stands(d, u, mailbox[Home[d]], entries[Home[d]][u][d])'
    <2>1. /\ Stands(d, u, mailbox[Home[d]], entries[Home[d]][u][d])
          /\ Home[d] \in Node /\ mailbox[Home[d]] \in Seq(ServerMsg)
      BY HomeIs, PubSubIs DEF PubSubInv
    <2>2. QED
      BY <1>1, <1>3, <2>1, StandsFollows
  <1>7. ASSUME NEW d \in Pid, NEW y \in owed'[d] PROVE Receives(d, y, mailbox[Home[d]], inbox[d])'
    <2>1. Home[d] \in Node /\ y \in owed[d] /\ Receives(d, y, mailbox[Home[d]], inbox[d])
      BY <1>1, HomeIs DEF PubSubInv
    <2>2. ASSUME NEW i \in 1 .. Len(mailbox[Home[d]]), ComesFrom(mailbox[Home[d]][i], d, y)
          PROVE  \E j \in 1 .. Len(mailbox'[Home[d]]) : mailbox'[Home[d]][j] = mailbox[Home[d]][i]
      <3>1. CASE Home[d] # n
        BY <1>2, <2>1, <3>1
      <3>2. CASE Home[d] = n
        <4>1. i # 1
          BY <1>1, <2>2, <3>2, NextIs DEF ComesFrom, IsCast
        <4>2. i - 1 \in 1 .. Len(mailbox'[n]) /\ mailbox'[n][i - 1] = mailbox[n][i]
          BY <1>1, <1>2, <3>2, <4>1, NextIs
        <4>3. QED
          BY <3>2, <4>2
      <3>3. QED
        BY <3>1, <3>2
    <2>3. QED
      BY <1>1, <2>1, <2>2 DEF Receives, ComesFrom
  <1>8. QED
    BY <1>1, <1>4, <1>5, <1>6, <1>7 DEF PubSubInv

(***************************************************************************)
(* A call is served.  If its client still waits, it was the last of its    *)
(* requests, and none is left that would change its entries after.         *)
(***************************************************************************)
LEMMA HandleCallInv ==
    ASSUME PubSubInv, NEW n \in Node, HandleCall(n)
    PROVE  PubSubInv'
  <1> DEFINE q == mailbox[n]
  <1>1. PICK msg : msg = Head(mailbox[n])
    OBVIOUS
  <1>2. /\ q # <<>> /\ msg.kind \in ServerRequests /\ mailbox' = Served(n)
        /\ UNCHANGED <<inbox, owed, strays, subscribes, broadcasts>>
        /\ Replied(msg)
    BY <1>1 DEF HandleCall, IsNext, ServerRequests
  <1>3. /\ msg \in ServerMsg /\ msg = q[1] /\ 1 \in 1 .. Len(q) /\ q \in Seq(ServerMsg)
        /\ msg.topic \in Topic /\ msg.client \in Pid /\ msg.id \in Nat
    BY <1>1, <1>2, NextIs, ServerMsgIs
  <1>4. PICK c \in Pid, t \in Topic : c = msg.client /\ t = msg.topic
    BY <1>3
  <1>5. /\ mailbox'[n] = Tail(q)
        /\ \A k \in Node : k # n => mailbox'[k] = mailbox[k]
        /\ DOMAIN mailbox' = Node
    BY <1>2, NextIs
  <1>6. \A k \in Node : Follows(mailbox[k], mailbox'[k])
    BY <1>2, <1>5 DEF Follows, Rest
  <1>7. Home[c] = n
    <2>1. Latest(q, n, c) /\ IsRequest(q[1], c)
      BY <1>2, <1>3, <1>4 DEF PubSubInv, IsRequest
    <2>2. QED
      BY <1>3, <2>1 DEF Latest
  <1>9. \/ UNCHANGED <<calling, standing>>
        \/ /\ calling[c].id = msg.id /\ calling[c] # NotCalling
           /\ calling' = [calling EXCEPT ![c] = NotCalling]
           /\ standing' = [standing EXCEPT ![c] =
                  [u \in Topic |->
                      IF msg.kind = "subscribe" /\ u = t THEN "in"
                      ELSE IF msg.kind = "unsubscribe" /\ u = t THEN "out"
                      ELSE IF msg.kind = "unsubscribe_all" THEN "out" ELSE @[u]]]
    BY <1>2, <1>4 DEF Replied
  <1>10. /\ calling' \in [Pid -> ClientCall \cup {NotCalling}]
         /\ \A d \in Pid : calling'[d] = calling[d] \/ calling'[d] = NotCalling
         /\ standing' \in [Pid -> [Topic -> {"out", "in", "between"}]]
         /\ \A d \in Pid : d # c => standing'[d] = standing[d]
    <2>1. /\ calling \in [Pid -> ClientCall \cup {NotCalling}]
          /\ standing \in [Pid -> [Topic -> {"out", "in", "between"}]]
      BY DEF PubSubInv, PubSubTypes
    <2>2. CASE UNCHANGED <<calling, standing>>
      BY <2>1, <2>2
    <2>3. CASE /\ calling' = [calling EXCEPT ![c] = NotCalling]
               /\ standing' = [standing EXCEPT ![c] =
                      [u \in Topic |->
                          IF msg.kind = "subscribe" /\ u = t THEN "in"
                          ELSE IF msg.kind = "unsubscribe" /\ u = t THEN "out"
                          ELSE IF msg.kind = "unsubscribe_all" THEN "out" ELSE @[u]]]
      BY <2>1, <2>3
    <2>4. QED
      BY <1>9, <2>2, <2>3
  <1>11. ASSUME NEW k \in Node
         PROVE  mailbox'[k] \in Seq(ServerMsg) /\ \A d \in Pid : (InTurn(mailbox[k], d) /\ Latest(mailbox[k], k, d))'
    BY <1>2, <1>6, <1>10, ServedKeeps
  <1>12. /\ entries' \in [Node -> [Topic -> [Pid -> Nat]]]
         /\ \A k \in Node, u \in Topic, d \in Pid : k # n \/ d # c => entries'[k][u][d] = entries[k][u][d]
         /\ msg.kind = "subscribe" =>
               \A u \in Topic : entries'[n][u][c] = IF u = t THEN entries[n][u][c] + 1 ELSE entries[n][u][c]
         /\ msg.kind = "unsubscribe" =>
               \A u \in Topic : entries'[n][u][c] = IF u = t THEN 0 ELSE entries[n][u][c]
         /\ msg.kind = "unsubscribe_all" => \A u \in Topic : entries'[n][u][c] = 0
    <2>1. entries \in [Node -> [Topic -> [Pid -> Nat]]]
      BY DEF PubSubInv, PubSubTypes
    <2>2. CASE msg.kind = "subscribe" /\ entries' = [entries EXCEPT ![n][t][c] = @ + 1]
      BY <2>1, <2>2
    <2>3. CASE msg.kind = "unsubscribe" /\ entries' = [entries EXCEPT ![n][t] = RemovedAll(@, c)]
      BY <2>1, <2>3 DEF RemovedAll
    <2>4. CASE msg.kind = "unsubscribe_all" /\ entries' = [entries EXCEPT ![n] = [u \in Topic |-> RemovedAll(@[u], c)]]
      BY <2>1, <2>4 DEF RemovedAll
    <2>5. QED
      BY <1>1, <1>4, <2>2, <2>3, <2>4 DEF HandleCall, IsNext
  <1>13. PubSubTypes'
    <2>1. mailbox' \in [Node -> Seq(ServerMsg)]
      BY <1>2, <1>11 DEF Served, PubSubInv, PubSubTypes
    <2>2. QED
      BY <1>2, <1>10, <1>12, <2>1 DEF PubSubInv, PubSubTypes
  <1>14. ASSUME calling[c].id = msg.id, calling[c] # NotCalling, NEW i \in 1 .. Len(Tail(q))
         PROVE  ~ IsRequest(Tail(q)[i], c)
    <2> SUFFICES ASSUME IsRequest(Tail(q)[i], c) PROVE FALSE
      OBVIOUS
    <2>1. Tail(q)[i] = q[i + 1] /\ i + 1 \in 1 .. Len(q) /\ 1 < i + 1
      BY <1>2, NextIs
    <2>2. IsRequest(q[i + 1], c) /\ IsRequest(q[1], c)
      BY <1>2, <1>3, <1>4, <2>1 DEF IsRequest
    <2>3. q[1].id < q[i + 1].id
      BY <1>3, <2>1, <2>2 DEF PubSubInv, InTurn
    <2>4. q[i + 1].id <= calling[c].id
      BY <1>14, <2>1, <2>2 DEF PubSubInv, Latest
    <2>5. q[i + 1].id \in Nat
      BY <1>3, <2>1, ServerMsgIs
    <2>6. QED
      BY <1>3, <1>14, <2>3, <2>4, <2>5
  <1>15. ASSUME NEW u \in Topic
         PROVE  /\ standing'[c][u] = "out" => entries'[n][u][c] = 0
                                               /\ \A i \in 1 .. Len(Tail(q)) : ~ Subscribes(Tail(q)[i], c, u)
                /\ standing'[c][u] = "in" => entries'[n][u][c] > 0
                                               /\ \A i \in 1 .. Len(Tail(q)) : ~ Unsubscribes(Tail(q)[i], c, u)
    <2>1. Stands(c, u, q, entries[n][u][c])
      BY <1>7 DEF PubSubInv
    <2>2. entries[n][u][c] \in Nat
      BY DEF PubSubInv, PubSubTypes
    <2>3. /\ msg.kind = "subscribe" => Subscribes(q[1], c, t)
          /\ msg.kind = "unsubscribe" => Unsubscribes(q[1], c, t)
          /\ msg.kind = "unsubscribe_all" => Unsubscribes(q[1], c, u)
      BY <1>3, <1>4 DEF Subscribes, Unsubscribes
    <2>4. CASE standing'[c][u] = standing[c][u]
      <3>1. ASSUME standing[c][u] = "out"
            PROVE  entries'[n][u][c] = 0 /\ \A i \in 1 .. Len(Tail(q)) : ~ Subscribes(Tail(q)[i], c, u)
        <4>1. entries[n][u][c] = 0 /\ \A i \in 1 .. Len(q) : ~ Subscribes(q[i], c, u)
          BY <2>1, <3>1 DEF Stands
        <4>2. ~ (msg.kind = "subscribe" /\ u = t)
          BY <1>3, <2>3, <4>1
        <4>3. entries'[n][u][c] = 0
          BY <1>2, <1>12, <4>1, <4>2 DEF ServerRequests
        <4>4. QED
          BY <1>2, <4>1, <4>3, NextIs
      <3>2. ASSUME standing[c][u] = "in"
            PROVE  entries'[n][u][c] > 0 /\ \A i \in 1 .. Len(Tail(q)) : ~ Unsubscribes(Tail(q)[i], c, u)
        <4>1. entries[n][u][c] > 0 /\ \A i \in 1 .. Len(q) : ~ Unsubscribes(q[i], c, u)
          BY <2>1, <3>2 DEF Stands
        <4>2. msg.kind # "unsubscribe_all" /\ ~ (msg.kind = "unsubscribe" /\ u = t)
          BY <1>3, <2>3, <4>1
        <4>3. entries'[n][u][c] > 0
          BY <1>2, <1>12, <2>2, <4>1, <4>2 DEF ServerRequests
        <4>4. QED
          BY <1>2, <4>1, <4>3, NextIs
      <3>3. QED
        BY <2>4, <3>1, <3>2
    <2>5. CASE standing'[c][u] # standing[c][u]
      <3>1. calling[c].id = msg.id /\ calling[c] # NotCalling
        BY <1>9, <2>5
      <3>2. /\ standing'[c][u] = "in" => msg.kind = "subscribe" /\ u = t
            /\ standing'[c][u] = "out" =>
                  msg.kind = "unsubscribe_all" \/ (msg.kind = "unsubscribe" /\ u = t)
        <4>1. standing \in [Pid -> [Topic -> {"out", "in", "between"}]]
          BY DEF PubSubInv, PubSubTypes
        <4>2. standing'[c][u] = IF msg.kind = "subscribe" /\ u = t THEN "in"
                                ELSE IF msg.kind = "unsubscribe" /\ u = t THEN "out"
                                ELSE IF msg.kind = "unsubscribe_all" THEN "out" ELSE standing[c][u]
          BY <1>9, <2>5, <4>1
        <4>3. QED
          BY <2>5, <4>2
      <3>3. \A i \in 1 .. Len(Tail(q)) : ~ Subscribes(Tail(q)[i], c, u) /\ ~ Unsubscribes(Tail(q)[i], c, u)
        BY <1>14, <3>1 DEF IsRequest, Subscribes, Unsubscribes, ServerRequests
      <3>4. /\ standing'[c][u] = "out" => entries'[n][u][c] = 0
            /\ standing'[c][u] = "in" => entries'[n][u][c] > 0
        BY <1>12, <2>2, <3>2
      <3>5. QED
        BY <3>3, <3>4
    <2>6. QED
      BY <2>4, <2>5
  <1>16. ASSUME NEW d \in Pid, NEW u \in Topic
         PROVE  Stands(d, u, mailbox[Home[d]], entries[Home[d]][u][d])'
    <2>1. CASE d = c
      BY <1>5, <1>7, <1>15, <2>1 DEF Stands
    <2>2. CASE d # c
      <3>1. /\ Stands(d, u, mailbox[Home[d]], entries[Home[d]][u][d])
            /\ Home[d] \in Node /\ mailbox[Home[d]] \in Seq(ServerMsg)
        BY HomeIs, PubSubIs DEF PubSubInv
      <3>2. standing'[d][u] = standing[d][u] /\ entries'[Home[d]][u][d] = entries[Home[d]][u][d]
        BY <1>10, <1>12, <2>2, <3>1
      <3>3. QED
        BY <1>6, <3>1, <3>2, StandsFollows
    <2>3. QED
      BY <2>1, <2>2
  <1>17. ASSUME NEW d \in Pid, NEW y \in owed'[d] PROVE Receives(d, y, mailbox[Home[d]], inbox[d])'
    <2>1. Home[d] \in Node /\ y \in owed[d] /\ Receives(d, y, mailbox[Home[d]], inbox[d])
      BY <1>2, HomeIs DEF PubSubInv
    <2>2. ASSUME NEW i \in 1 .. Len(mailbox[Home[d]]), ComesFrom(mailbox[Home[d]][i], d, y)
          PROVE  \E j \in 1 .. Len(mailbox'[Home[d]]) : ComesFrom(mailbox[Home[d]][j], d, y)'
      <3>1. \E j \in 1 .. Len(mailbox'[Home[d]]) : mailbox'[Home[d]][j] = mailbox[Home[d]][i]
        <4>1. CASE Home[d] # n
          BY <1>5, <2>1, <4>1
        <4>2. CASE Home[d] = n
          <5>1. i # 1
            BY <1>2, <1>3, <2>2, <4>2 DEF ComesFrom, IsCast, ServerRequests
          <5>2. i - 1 \in 1 .. Len(mailbox'[n]) /\ mailbox'[n][i - 1] = mailbox[n][i]
            BY <1>2, <1>5, <4>2, <5>1, NextIs
          <5>3. QED
            BY <4>2, <5>2
        <4>3. QED
          BY <4>1, <4>2
      <3>2. PICK u \in Topic : u = mailbox[Home[d]][i].topic
        <4>1. mailbox[Home[d]] \in Seq(ServerMsg)
          BY <2>1, PubSubIs
        <4>2. QED
          BY <4>1, ServerMsgIs
      <3>3. standing'[d][u] = "in"
        <4>1. standing[d][u] = "in"
          BY <2>2, <3>2 DEF ComesFrom
        <4>2. CASE d # c
          BY <1>10, <4>1, <4>2
        <4>3. CASE d = c
          <5>1. \A j \in 1 .. Len(q) : ~ Unsubscribes(q[j], c, u)
            BY <1>7, <4>1, <4>3 DEF PubSubInv, Stands
          <5>2. msg.kind # "unsubscribe_all" /\ ~ (msg.kind = "unsubscribe" /\ u = t)
            BY <1>3, <1>4, <5>1 DEF Unsubscribes
          <5>3. standing \in [Pid -> [Topic -> {"out", "in", "between"}]]
            BY DEF PubSubInv, PubSubTypes
          <5>4. QED
            BY <1>9, <4>1, <4>3, <5>2, <5>3
        <4>4. QED
          BY <4>2, <4>3
      <3>4. QED
        BY <2>2, <3>1, <3>2, <3>3 DEF ComesFrom
    <2>3. QED
      BY <1>2, <2>1, <2>2 DEF Receives
  <1>18. ASSUME NEW k \in Node, NEW u \in Topic, NEW d \in Pid, Home[d] # k
         PROVE  entries'[k][u][d] = 0
    <2>1. entries[k][u][d] = 0
      BY <1>18 DEF PubSubInv
    <2>2. k # n \/ d # c
      BY <1>7, <1>18
    <2>3. QED
      BY <1>12, <2>1, <2>2
  <1>19. QED
    BY <1>2, <1>11, <1>13, <1>16, <1>17, <1>18 DEF PubSubInv

LEMMA RangeOfNats == ASSUME NEW s \in Seq(Nat) PROVE Range(s) = {s[i] : i \in 1 .. Len(s)}
  BY DEF Range

\* What a client is sent comes after what it has.
LEMMA SentTo ==
    ASSUME NEW s \in Seq(Nat), NEW k \in Nat, NEW x \in Nat
    PROVE  /\ s \o [i \in 1 .. k |-> x] \in Seq(Nat)
           /\ Range(s) \subseteq Range(s \o [i \in 1 .. k |-> x])
           /\ k > 0 => x \in Range(s \o [i \in 1 .. k |-> x])
  <1> DEFINE f == [i \in 1 .. k |-> x]
             r == s \o f
  <1>1. f \in Seq(Nat) /\ Len(f) = k
    OBVIOUS
  <1>2. /\ r \in Seq(Nat) /\ Len(r) = Len(s) + k /\ Len(s) \in Nat
        /\ \A i \in 1 .. Len(s) : r[i] = s[i]
        /\ \A i \in 1 .. k : r[Len(s) + i] = f[i]
    BY <1>1
  <1>3. Range(r) = {r[i] : i \in 1 .. Len(r)} /\ Range(s) = {s[i] : i \in 1 .. Len(s)}
    BY <1>2, RangeOfNats
  <1>4. k > 0 => r[Len(s) + 1] = x /\ Len(s) + 1 \in 1 .. Len(r)
    BY <1>2
  <1> HIDE DEF r
  <1>5. Range(s) \subseteq Range(r)
    BY <1>2, <1>3
  <1>6. k > 0 => x \in Range(r)
    BY <1>3, <1>4
  <1>7. QED
    BY <1>2, <1>5, <1>6 DEF r

(***************************************************************************)
(* A broadcast is dispatched to every entry; of those it counts for, all   *)
(* have one, and who is out has none.                                      *)
(***************************************************************************)
LEMMA HandleCastInv ==
    ASSUME PubSubInv, NEW n \in Node, HandleCast(n)
    PROVE  PubSubInv'
  <1> DEFINE q == mailbox[n]
  <1>1. PICK msg : msg = Head(mailbox[n])
    OBVIOUS
  <1>2. /\ q # <<>> /\ msg.kind \in {"broadcast", "local"} /\ mailbox' = Forwarded(n, msg)
        /\ UNCHANGED <<entries, calling, standing, owed, subscribes, broadcasts>>
        /\ DispatchLocal(n, msg)
    BY <1>1 DEF HandleCast, IsNext
  <1>3. /\ msg \in ServerMsg /\ msg = q[1] /\ 1 \in 1 .. Len(q) /\ q \in Seq(ServerMsg)
        /\ msg.topic \in Topic /\ msg.client \in Pid \cup {Nobody} /\ msg.id \in Nat
    BY <1>1, <1>2, NextIs, ServerMsgIs
  <1>4. [msg EXCEPT !.kind = "raw"] \in ServerMsg /\ [msg EXCEPT !.kind = "raw"].kind = "raw"
    BY <1>3 DEF ServerMsg
  <1>5. PICK raw \in ServerMsg : raw = [msg EXCEPT !.kind = "raw"] /\ raw.kind = "raw"
    BY <1>4
  <1>6. \/ mailbox' = Served(n)
        \/ mailbox' = [Served(n) EXCEPT ![Other(n)] = Append(@, raw)]
    BY <1>2, <1>5 DEF Forwarded
  <1>7. ASSUME NEW k \in Node
        PROVE  mailbox'[k] = Served(n)[k] \/ mailbox'[k] = Append(Served(n)[k], raw)
    BY <1>2, <1>6, NextIs
  <1>8. \A k \in Node : Served(n)[k] \in Seq(ServerMsg) /\ Rest(mailbox[k], Served(n)[k])
    BY <1>2, NextIs, PubSubIs DEF Rest
  <1>9. ASSUME NEW k \in Node PROVE Follows(mailbox[k], mailbox'[k])
    <2>1. raw.kind \notin ServerRequests
      BY <1>5 DEF ServerRequests
    <2>2. QED
      BY <1>7, <1>8, <2>1 DEF Follows
  <1>10. ASSUME NEW k \in Node
         PROVE  mailbox'[k] \in Seq(ServerMsg) /\ \A d \in Pid : (InTurn(mailbox[k], d) /\ Latest(mailbox[k], k, d))'
    BY <1>2, <1>9, ServedKeeps
  <1>11. ASSUME NEW d \in Pid
         PROVE  /\ inbox'[d] \in Seq(Nat) /\ Range(inbox[d]) \subseteq Range(inbox'[d])
                /\ d # msg.client /\ entries[n][msg.topic][d] > 0 => msg.id \in Range(inbox'[d])
    <2> DEFINE k == IF d # msg.client THEN entries[n][msg.topic][d] ELSE 0
    <2>1. k \in Nat /\ inbox[d] \in Seq(Nat)
      BY <1>3 DEF PubSubInv, PubSubTypes
    <2>2. inbox'[d] = inbox[d] \o [i \in 1 .. k |-> msg.id]
      BY <1>2 DEF DispatchLocal, NotExcluded
    <2>3. d # msg.client /\ entries[n][msg.topic][d] > 0 => k > 0
      OBVIOUS
    <2> HIDE DEF k
    <2>4. QED
      BY <1>3, <2>1, <2>2, <2>3, SentTo
  <1>12. strays' = {}
    <2>1. ASSUME NEW d \in Pid, entries[n][msg.topic][d] > 0 PROVE standing[d][msg.topic] # "out"
      <3>1. entries[n][msg.topic][d] # 0
        BY <2>1
      <3>2. Home[d] = n
        BY <1>3, <3>1 DEF PubSubInv
      <3>3. QED
        BY <1>3, <3>1, <3>2 DEF PubSubInv, Stands
    <2>2. strays' = strays \cup
             {d \in Pid : (IF NotExcluded(d, msg) THEN entries[n][msg.topic][d] ELSE 0) > 0
                             /\ standing[d][msg.topic] = "out"}
      BY <1>2 DEF DispatchLocal
    <2>3. strays = {}
      BY DEF PubSubInv
    <2>4. ASSUME NEW d \in strays' PROVE FALSE
      <3>1. /\ d \in Pid /\ standing[d][msg.topic] = "out"
            /\ (IF NotExcluded(d, msg) THEN entries[n][msg.topic][d] ELSE 0) > 0
        BY <2>2, <2>3, <2>4
      <3>2. entries[n][msg.topic][d] > 0
        BY <3>1
      <3>3. QED
        BY <2>1, <3>1, <3>2
    <2>5. QED
      BY <2>4
  <1>13. PubSubTypes'
    <2>1. mailbox' \in [Node -> Seq(ServerMsg)]
      <3>1. DOMAIN mailbox' = Node
        BY <1>2, <1>6, NextIs
      <3>2. mailbox' = [k \in Node |-> mailbox'[k]]
        BY <1>6, <3>1 DEF Served
      <3>3. QED
        BY <1>10, <3>2
    <2>2. inbox' \in [Pid -> Seq(Nat)]
      <3>1. inbox' = [d \in Pid |-> inbox'[d]]
        BY <1>2 DEF DispatchLocal
      <3>2. QED
        BY <1>11, <3>1
    <2>3. QED
      BY <1>2, <2>1, <2>2 DEF PubSubInv, PubSubTypes
  <1>14. ASSUME NEW d \in Pid, NEW u \in Topic
         PROVE  Stands(d, u, mailbox[Home[d]], entries[Home[d]][u][d])'
    <2>1. /\ Stands(d, u, mailbox[Home[d]], entries[Home[d]][u][d])
          /\ Home[d] \in Node /\ mailbox[Home[d]] \in Seq(ServerMsg)
      BY HomeIs, PubSubIs DEF PubSubInv
    <2>2. QED
      BY <1>2, <1>9, <2>1, StandsFollows
  <1>15. ASSUME NEW d \in Pid, NEW y \in owed'[d] PROVE Receives(d, y, mailbox[Home[d]], inbox[d])'
    <2>1. /\ Home[d] \in Node /\ mailbox[Home[d]] \in Seq(ServerMsg)
          /\ y \in owed[d] /\ Receives(d, y, mailbox[Home[d]], inbox[d])
      BY <1>2, HomeIs, PubSubIs DEF PubSubInv
    <2>2. ASSUME NEW i \in 1 .. Len(mailbox[Home[d]]), ComesFrom(mailbox[Home[d]][i], d, y)
          PROVE  \/ y \in Range(inbox'[d])
                 \/ \E j \in 1 .. Len(mailbox'[Home[d]]) : mailbox'[Home[d]][j] = mailbox[Home[d]][i]
      <3>1. CASE Home[d] = n /\ i = 1
        <4>1. msg.id = y /\ msg.client # d /\ standing[d][msg.topic] = "in"
          BY <1>3, <2>2, <3>1 DEF ComesFrom
        <4>2. entries[n][msg.topic][d] > 0
          BY <1>3, <3>1, <4>1 DEF PubSubInv, Stands
        <4>3. QED
          BY <1>11, <4>1, <4>2
      <3>2. CASE ~ (Home[d] = n /\ i = 1)
        <4>1. PICK j \in 1 .. Len(Served(n)[Home[d]]) : Served(n)[Home[d]][j] = mailbox[Home[d]][i]
          <5>1. CASE Home[d] # n
            BY <1>2, <2>1, <5>1, NextIs
          <5>2. CASE Home[d] = n
            <6>1. i \in 1 .. Len(mailbox[n]) /\ i # 1 /\ Served(n)[n] = Tail(mailbox[n])
              BY <1>2, <3>2, <5>2, NextIs
            <6>2. i - 1 \in 1 .. Len(Served(n)[n]) /\ Served(n)[n][i - 1] = mailbox[n][i]
              BY <1>2, <6>1, NextIs
            <6>3. QED
              BY <5>2, <6>2
          <5>3. QED
            BY <5>1, <5>2
        <4>2. j \in 1 .. Len(mailbox'[Home[d]]) /\ mailbox'[Home[d]][j] = Served(n)[Home[d]][j]
          <5>1. Served(n)[Home[d]] \in Seq(ServerMsg)
            BY <1>8, <2>1
          <5>2. mailbox'[Home[d]] = Served(n)[Home[d]] \/ mailbox'[Home[d]] = Append(Served(n)[Home[d]], raw)
            BY <1>7, <2>1
          <5>3. /\ j \in 1 .. Len(Append(Served(n)[Home[d]], raw))
                /\ Append(Served(n)[Home[d]], raw)[j] = Served(n)[Home[d]][j]
            BY <5>1, MailAdded
          <5>4. QED
            BY <5>2, <5>3
        <4>3. QED
          BY <4>1, <4>2
      <3>3. QED
        BY <3>1, <3>2
    <2>3. QED
      <3>1. Range(inbox[d]) \subseteq Range(inbox'[d])
        BY <1>11
      <3>2. QED
        BY <1>2, <2>1, <2>2, <3>1 DEF Receives, ComesFrom
  <1>16. QED
    BY <1>2, <1>10, <1>12, <1>13, <1>14, <1>15 DEF PubSubInv

LEMMA PubSubNextInv == PubSubInv /\ [PubSubNext]_pubsubVars => PubSubInv'
  <1> SUFFICES ASSUME PubSubInv, [PubSubNext]_pubsubVars PROVE PubSubInv'
    OBVIOUS
  <1>1. ASSUME UNCHANGED <<mailbox, entries, calling, inbox, standing, owed, strays, subscribes, broadcasts>>
        PROVE  PubSubInv'
    <2>1. PubSubTypes' /\ strays' = {}
      BY <1>1 DEF PubSubInv, PubSubTypes
    <2>2. \A n \in Node, c \in Pid : InTurn(mailbox[n], c)' /\ Latest(mailbox[n], n, c)'
      BY <1>1 DEF PubSubInv, InTurn, Latest
    <2>3. /\ \A n \in Node, t \in Topic, c \in Pid : Home[c] # n => entries'[n][t][c] = 0
          /\ \A c \in Pid, t \in Topic : Stands(c, t, mailbox[Home[c]], entries[Home[c]][t][c])'
      BY <1>1 DEF PubSubInv, Stands
    <2>4. \A c \in Pid : \A x \in owed'[c] : Receives(c, x, mailbox[Home[c]], inbox[c])'
      BY <1>1 DEF PubSubInv, Receives, ComesFrom
    <2>5. QED
      BY <2>1, <2>2, <2>3, <2>4 DEF PubSubInv
  <1>2. ASSUME NEW n \in Node,
               HandleContinue(n) \/ LearnMember(n) \/ HandleCall(n) \/ HandleCast(n) \/ HandleInfo(n)
        PROVE  PubSubInv'
    <2>1. CASE HandleContinue(n) \/ LearnMember(n)
      BY <1>1, <2>1 DEF HandleContinue, LearnMember
    <2>2. QED
      BY <1>2, <2>1, HandleCallInv, HandleCastInv, HandleInfoInv
  <1>3. ASSUME NEW c \in Pid, CallTimesOut(c) PROVE PubSubInv'
    BY <1>3, PlainInv DEF CallTimesOut
  <1>4. ASSUME NEW c \in Pid, NEW t \in Topic, Subscribe(c, t) \/ Unsubscribe(c, t) PROVE PubSubInv'
    BY <1>4, SubscribeInv
  <1>5. ASSUME NEW c \in Pid, NEW t \in Topic, NEW far \in BOOLEAN, NEW from \in {c, Nobody},
               Broadcast(c, t, far, from)
        PROVE  PubSubInv'
    BY <1>5, BroadcastInv
  <1>6. CASE UNCHANGED pubsubVars
    BY <1>1, <1>6 DEF pubsubVars
  <1>7. QED
    BY <1>2, <1>3, <1>4, <1>5, <1>6 DEF PubSubNext

(***************************************************************************)
(* A client that has subscribed gets the broadcasts of its node, and one   *)
(* whose unsubscribe has returned gets none, for any number of clients and *)
(* topics, whatever calls timed out and were served later.                 *)
(***************************************************************************)
THEOREM SubscribersReceive == PubSubSpec => []SubscribedGetsAll
  <1>1. PubSubInit => PubSubInv
    BY PubSubInitInv
  <1>2. PubSubInv /\ [PubSubNext]_pubsubVars => PubSubInv'
    BY PubSubNextInv
  <1>3. PubSubInv => SubscribedGetsAll
    BY DEF PubSubInv, Receives, SubscribedGetsAll
  <1>4. QED
    BY <1>1, <1>2, <1>3, PTL DEF PubSubSpec

-----------------------------------------------------------------------------
(***************************************************************************)
(* Presence.  A reference comes to the other server by one join and goes   *)
(* by one leave or update, and the join is queued first.  So what the copy *)
(* will have when the deltas on their way are handled is what the node has *)
(* of its own now, but for what was missed.  Each reference is made at one *)
(* node for one slot, its origin, which no delta mistakes for another.     *)
(***************************************************************************)
AnyMeta == [ref : Nat, prev : Nat, pid : Pid, since : Nat]
Diffs == [slot : Slot, joins : SUBSET AnyMeta, leaves : SUBSET AnyMeta]

PresTypes ==
    /\ members \subseteq Node
    /\ presences \in [Node -> [Slot -> SUBSET AnyMeta]]
    /\ pidToPresence \in [Node -> SUBSET (Pid \X Slot)]
    /\ \A n \in Node : IsFiniteSet(pidToPresence[n])
    /\ lastRef \in Nat
    /\ deltas \in [Node -> Seq(Diffs)]

Joins(d, r) == r \in RefsIn(d.joins)
Drops(d, r) == r \in RefsIn(d.leaves) \/ \E j \in d.joins : j.prev = r
Joining(q, r) == \E i \in 1 .. Len(q) : Joins(q[i], r)
Dropping(q, r) == \E i \in 1 .. Len(q) : Drops(q[i], r)
JoinsFirst(q) == \A r \in Nat : \A i, j \in 1 .. Len(q) : Joins(q[i], r) /\ Drops(q[j], r) => i < j

DiffIsOf(d, n, origin, last) ==
    /\ \A r \in Nat \ {0} : Joins(d, r) \/ Drops(d, r) => r <= last /\ origin[r] = <<n, d.slot>>
    /\ \A m \in d.joins : Home[m.pid] = n /\ m.ref # 0

DiffsAreOf(q, n, origin, last) == \A i \in 1 .. Len(q) : DiffIsOf(q[i], n, origin, last)

MetasAreOf(k, s, origin) ==
    \A m \in presences[k][s] :
        m.ref # 0 /\ m.ref <= lastRef /\ origin[m.ref] = <<Home[m.pid], s>>

Has(n, s, r) == r \in RefsIn(presences[n][s])

CopyFollows(n, s, r) ==
    r \notin missed =>
        (Has(n, s, r) <=> /\ Has(Other(n), s, r) \/ Joining(deltas[Other(n)], r)
                          /\ ~ Dropping(deltas[Other(n)], r))

OwnSound(n, s) ==
    \A m \in presences[n][s] : Home[m.pid] = n =>
        /\ <<m.pid, s>> \in pidToPresence[n]
        /\ \A other \in presences[n][s] : other.ref = m.ref => other = m

Made == 1 .. lastRef

OriginInv(origin) ==
    /\ PresTypes
    /\ origin \in [Made -> Node \X Slot]
    /\ \A n \in Node, s \in Slot : MetasAreOf(n, s, origin) /\ OwnSound(n, s)
    /\ \A n \in Node : JoinsFirst(deltas[n]) /\ DiffsAreOf(deltas[n], Other(n), origin, lastRef)
    /\ \A n \in Node, s \in Slot, r \in Made : origin[r] = <<n, s>> => CopyFollows(n, s, r)

PresInv == \E origin : OriginInv(origin)

-----------------------------------------------------------------------------
LEMMA TwoNodes ==
    /\ \A n \in Node : Other(n) \in Node /\ Other(n) # n /\ Other(Other(n)) = n
    /\ \A n, k \in Node : k = n \/ k = Other(n)
  BY NodesAssumption DEF Other

LEMMA PidHome == \A p \in Pid : Home[p] \in Node
  BY NodesAssumption

LEMMA PresenceInitInv == PresenceInit => PresInv
  <1> SUFFICES ASSUME PresenceInit PROVE PresInv
    OBVIOUS
  <1> DEFINE origin == [r \in Made |-> <<r, r>>]
  <1>1. lastRef = 0 /\ Made = {}
    BY DEF PresenceInit, Made
  <1>2. PresTypes
    BY FS_EmptySet DEF PresenceInit, PresTypes
  <1>3. origin \in [Made -> Node \X Slot]
    BY <1>1
  <1> HIDE DEF origin
  <1>4. \A n \in Node, s \in Slot : MetasAreOf(n, s, origin) /\ OwnSound(n, s)
    BY DEF PresenceInit, MetasAreOf, OwnSound
  <1>5. ASSUME NEW n \in Node PROVE 1 .. Len(deltas[n]) = {}
    <2>1. deltas[n] = <<>>
      BY DEF PresenceInit
    <2>2. Len(deltas[n]) = 0
      BY <2>1
    <2>3. QED
      BY <2>2
  <1>6. \A n \in Node : JoinsFirst(deltas[n]) /\ DiffsAreOf(deltas[n], Other(n), origin, lastRef)
    BY <1>5 DEF JoinsFirst, DiffsAreOf
  <1>7. OriginInv(origin)
    BY <1>1, <1>2, <1>3, <1>4, <1>6 DEF OriginInv
  <1>8. QED
    BY <1>7 DEF PresInv

-----------------------------------------------------------------------------
(***************************************************************************)
(* A queue that grows at its end, and one whose first diff was taken.      *)
(***************************************************************************)
LEMMA QueueGrows ==
    ASSUME NEW q \in Seq(Diffs), NEW ds \in Seq(Diffs), NEW r
    PROVE  /\ q \o ds \in Seq(Diffs)
           /\ Joining(q \o ds, r) <=> Joining(q, r) \/ Joining(ds, r)
           /\ Dropping(q \o ds, r) <=> Dropping(q, r) \/ Dropping(ds, r)
  <1> DEFINE w == q \o ds
  <1>1. /\ w \in Seq(Diffs) /\ Len(w) = Len(q) + Len(ds) /\ Len(q) \in Nat /\ Len(ds) \in Nat
        /\ \A i \in 1 .. Len(w) : w[i] = IF i <= Len(q) THEN q[i] ELSE ds[i - Len(q)]
    OBVIOUS
  <1> HIDE DEF w
  <1>2. \A i \in 1 .. Len(q) : i \in 1 .. Len(w) /\ w[i] = q[i]
    BY <1>1
  <1>3. ASSUME NEW i \in 1 .. Len(ds) PROVE Len(q) + i \in 1 .. Len(w) /\ w[Len(q) + i] = ds[i]
    <2>1. /\ Len(q) + i \in 1 .. Len(w)
          /\ ~ (Len(q) + i <= Len(q)) /\ (Len(q) + i) - Len(q) = i
      BY <1>1
    <2>2. QED
      BY <1>1, <2>1
  <1>4. \A i \in 1 .. Len(w) : \/ i \in 1 .. Len(q) /\ w[i] = q[i]
                               \/ i - Len(q) \in 1 .. Len(ds) /\ w[i] = ds[i - Len(q)]
    BY <1>1
  <1>5. Joining(w, r) <=> Joining(q, r) \/ Joining(ds, r)
    BY <1>2, <1>3, <1>4 DEF Joining
  <1>6. Dropping(w, r) <=> Dropping(q, r) \/ Dropping(ds, r)
    BY <1>2, <1>3, <1>4 DEF Dropping
  <1>7. QED
    BY <1>1, <1>5, <1>6 DEF w

LEMMA QueueStaysSound ==
    ASSUME NEW q \in Seq(Diffs), NEW ds \in Seq(Diffs), JoinsFirst(q), JoinsFirst(ds),
           \A r \in Nat : Joining(ds, r) => ~ Dropping(q, r),
           NEW n, NEW origin, NEW last,
           DiffsAreOf(q, n, origin, last), DiffsAreOf(ds, n, origin, last)
    PROVE  JoinsFirst(q \o ds) /\ DiffsAreOf(q \o ds, n, origin, last)
  <1> DEFINE w == q \o ds
  <1>1. /\ Len(w) = Len(q) + Len(ds) /\ Len(q) \in Nat /\ Len(ds) \in Nat
        /\ \A i \in 1 .. Len(w) : w[i] = IF i <= Len(q) THEN q[i] ELSE ds[i - Len(q)]
    OBVIOUS
  <1> HIDE DEF w
  <1>2. \A i \in 1 .. Len(w) : \/ i \in 1 .. Len(q) /\ w[i] = q[i]
                               \/ i - Len(q) \in 1 .. Len(ds) /\ w[i] = ds[i - Len(q)] /\ Len(q) < i
    BY <1>1
  <1>3. DiffsAreOf(w, n, origin, last)
    BY <1>2 DEF DiffsAreOf
  <1>4. ASSUME NEW r \in Nat, NEW i \in 1 .. Len(w), NEW j \in 1 .. Len(w),
               Joins(w[i], r), Drops(w[j], r)
        PROVE  i < j
    <2>0. i \in Nat /\ j \in Nat
      BY <1>1
    <2>1. CASE i \in 1 .. Len(q) /\ w[i] = q[i] /\ j \in 1 .. Len(q) /\ w[j] = q[j]
      BY <1>4, <2>1 DEF JoinsFirst
    <2>2. CASE i - Len(q) \in 1 .. Len(ds) /\ w[i] = ds[i - Len(q)] /\ j - Len(q) \in 1 .. Len(ds) /\ w[j] = ds[j - Len(q)]
      <3>1. i - Len(q) < j - Len(q)
        BY <1>4, <2>2 DEF JoinsFirst
      <3>2. QED
        BY <1>1, <2>0, <3>1
    <2>3. CASE i - Len(q) \in 1 .. Len(ds) /\ w[i] = ds[i - Len(q)] /\ j \in 1 .. Len(q) /\ w[j] = q[j]
      BY <1>4, <2>3 DEF Joining, Dropping
    <2>4. CASE i \in 1 .. Len(q) /\ j - Len(q) \in 1 .. Len(ds) /\ Len(q) < j
      BY <1>1, <2>0, <2>4
    <2>5. QED
      BY <1>2, <2>1, <2>2, <2>3, <2>4
  <1>5. JoinsFirst(w)
    BY <1>4 DEF JoinsFirst
  <1>6. QED
    BY <1>3, <1>5 DEF w

LEMMA DiffTaken ==
    ASSUME NEW q \in Seq(Diffs), q # <<>>, JoinsFirst(q),
           NEW n, NEW origin, NEW last, DiffsAreOf(q, n, origin, last)
    PROVE  /\ Tail(q) \in Seq(Diffs) /\ Head(q) \in Diffs
           /\ JoinsFirst(Tail(q)) /\ DiffsAreOf(Tail(q), n, origin, last)
           /\ DiffIsOf(Head(q), n, origin, last)
           /\ \A r \in Nat : /\ Joining(q, r) <=> Joins(Head(q), r) \/ Joining(Tail(q), r)
                             /\ Dropping(q, r) <=> Drops(Head(q), r) \/ Dropping(Tail(q), r)
                             /\ Drops(Head(q), r) => ~ Joining(q, r)
  <1> DEFINE w == Tail(q)
  <1>1. /\ w \in Seq(Diffs) /\ Head(q) \in Diffs /\ Head(q) = q[1]
        /\ Len(q) \in Nat /\ Len(q) = Len(w) + 1 /\ Len(w) \in Nat
        /\ \A i \in 1 .. Len(w) : w[i] = q[i + 1]
    OBVIOUS
  <1> HIDE DEF w
  <1>2. /\ \A i \in 1 .. Len(w) : i + 1 \in 1 .. Len(q) /\ w[i] = q[i + 1]
        /\ \A i \in 1 .. Len(q) : i = 1 \/ (i - 1 \in 1 .. Len(w) /\ w[i - 1] = q[i])
        /\ 1 \in 1 .. Len(q)
    BY <1>1
  <1>3. DiffsAreOf(w, n, origin, last) /\ DiffIsOf(Head(q), n, origin, last)
    BY <1>1, <1>2 DEF DiffsAreOf
  <1>4. ASSUME NEW r \in Nat, NEW i \in 1 .. Len(w), NEW j \in 1 .. Len(w),
               Joins(w[i], r), Drops(w[j], r)
        PROVE  i < j
    <2>1. i + 1 < j + 1
      BY <1>2, <1>4 DEF JoinsFirst
    <2>2. QED
      BY <1>1, <2>1
  <1>5. JoinsFirst(w)
    BY <1>4 DEF JoinsFirst
  <1>6. ASSUME NEW r \in Nat
        PROVE  /\ Joining(q, r) <=> Joins(Head(q), r) \/ Joining(w, r)
               /\ Dropping(q, r) <=> Drops(Head(q), r) \/ Dropping(w, r)
    BY <1>1, <1>2 DEF Joining, Dropping
  <1>7. ASSUME NEW r \in Nat, Drops(Head(q), r), Joining(q, r) PROVE FALSE
    <2>1. PICK i \in 1 .. Len(q) : Joins(q[i], r)
      BY <1>7 DEF Joining
    <2>2. i < 1
      BY <1>1, <1>2, <1>7, <2>1 DEF JoinsFirst
    <2>3. QED
      BY <1>1, <2>2
  <1>8. QED
    BY <1>1, <1>3, <1>5, <1>6, <1>7 DEF w

-----------------------------------------------------------------------------
(***************************************************************************)
(* A call at node n: what it changes of the node's own presences is what   *)
(* its diffs say, which are queued for the other node or missed.  The      *)
(* references it makes are new.                                            *)
(***************************************************************************)
OwnAfter(n, s, r, ds) ==
    Has(n, s, r)' <=> (Has(n, s, r) \/ Joining(ds, r)) /\ ~ Dropping(ds, r)

LEMMA PresenceCallInv ==
    ASSUME NEW n \in Node, NEW ds \in Seq(Diffs), NEW was, OriginInv(was), NEW origin,
           origin \in [Made' -> Node \X Slot], PresTypes', lastRef <= lastRef',
           \A r \in Made : origin[r] = was[r],
           UNCHANGED members, BroadcastDeltas(n, ds),
           presences'[Other(n)] = presences[Other(n)],
           pidToPresence'[Other(n)] = pidToPresence[Other(n)],
           \A s \in Slot : MetasAreOf(n, s, origin)' /\ OwnSound(n, s)',
           JoinsFirst(ds), DiffsAreOf(ds, n, origin, lastRef'),
           \A r \in Nat : Joining(ds, r) => r > lastRef /\ ~ Dropping(ds, r),
           \A s \in Slot, r \in Made' : origin[r] = <<n, s>> => OwnAfter(n, s, r, ds),
           \A s \in Slot, r \in Made' : origin[r] = <<Other(n), s>> => r \in Made /\ (Has(n, s, r)' <=> Has(n, s, r))
    PROVE  OriginInv(origin)'
  <1> DEFINE o == Other(n)
  <1>1. /\ o \in Node /\ o # n /\ Other(o) = n
        /\ \A k \in Node : k = n \/ k = o
    BY TwoNodes
  <1>2. /\ lastRef \in Nat /\ lastRef' \in Nat /\ deltas \in [Node -> Seq(Diffs)]
        /\ \A r \in Made' : r \in Nat /\ r # 0
        /\ \A r \in Made' : r \in Made \/ r > lastRef
        /\ Made \subseteq Made'
    BY DEF OriginInv, PresTypes, Made
  <1> HIDE DEF o
  <1>3. /\ deltas' \in [Node -> Seq(Diffs)]
        /\ deltas'[n] = deltas[n]
        /\ n \in members => deltas'[o] = deltas[o] \o ds /\ missed' = missed
        /\ n \notin members => deltas'[o] = deltas[o] /\ missed' = missed \cup UNION {RefsOf(d) : d \in Range(ds)}
    BY <1>1, <1>2 DEF BroadcastDeltas, PresTypes, o
  <1>4. ASSUME NEW k \in Node PROVE DiffsAreOf(deltas[k], Other(k), origin, lastRef') /\ JoinsFirst(deltas[k])
    <2>1. DiffsAreOf(deltas[k], Other(k), was, lastRef) /\ JoinsFirst(deltas[k])
      BY DEF OriginInv
    <2>2. ASSUME NEW i \in 1 .. Len(deltas[k]) PROVE DiffIsOf(deltas[k][i], Other(k), origin, lastRef')
      <3>1. DiffIsOf(deltas[k][i], Other(k), was, lastRef)
        BY <2>1 DEF DiffsAreOf
      <3>2. ASSUME NEW r \in Nat \ {0}, r <= lastRef PROVE r \in Made /\ r <= lastRef'
        BY <1>2, <3>2 DEF Made
      <3>3. QED
        BY <3>1, <3>2 DEF DiffIsOf
    <2>3. QED
      BY <2>1, <2>2 DEF DiffsAreOf
  <1>5. \A r \in Nat : Dropping(deltas[o], r) => r <= lastRef
    <2>0. lastRef \in Nat
      BY <1>2
    <2> SUFFICES ASSUME NEW r \in Nat, Dropping(deltas[o], r), r # 0 PROVE r <= lastRef
      BY <2>0
    <2>1. PICK i \in 1 .. Len(deltas[o]) : Drops(deltas[o][i], r)
      BY DEF Dropping
    <2>2. DiffsAreOf(deltas[o], n, was, lastRef)
      BY <1>1 DEF OriginInv
    <2>3. DiffIsOf(deltas[o][i], n, was, lastRef)
      BY <2>2 DEF DiffsAreOf
    <2>4. QED
      BY <2>1, <2>3 DEF DiffIsOf
  <1>6. \A r \in Nat : Joining(deltas[o], r) => r <= lastRef
    <2>0. lastRef \in Nat
      BY <1>2
    <2> SUFFICES ASSUME NEW r \in Nat, Joining(deltas[o], r), r # 0 PROVE r <= lastRef
      BY <2>0
    <2>1. PICK i \in 1 .. Len(deltas[o]) : Joins(deltas[o][i], r)
      BY DEF Joining
    <2>2. DiffsAreOf(deltas[o], n, was, lastRef)
      BY <1>1 DEF OriginInv
    <2>3. DiffIsOf(deltas[o][i], n, was, lastRef)
      BY <2>2 DEF DiffsAreOf
    <2>4. QED
      BY <2>1, <2>3 DEF DiffIsOf
  <1>7. ASSUME NEW k \in Node PROVE JoinsFirst(deltas'[k]) /\ DiffsAreOf(deltas'[k], Other(k), origin, lastRef')
    <2>1. CASE k = n \/ n \notin members
      BY <1>1, <1>3, <1>4, <2>1
    <2>2. CASE k = o /\ n \in members
      <3>1. deltas[o] \in Seq(Diffs) /\ deltas'[k] = deltas[o] \o ds /\ Other(k) = n
        BY <1>1, <1>2, <1>3, <2>2
      <3>2. JoinsFirst(deltas[o]) /\ DiffsAreOf(deltas[o], n, origin, lastRef')
        BY <1>1, <1>4
      <3>3. \A r \in Nat : Joining(ds, r) => ~ Dropping(deltas[o], r)
        BY <1>2, <1>5
      <3>4. QED
        BY <3>1, <3>2, <3>3, QueueStaysSound
    <2>3. QED
      BY <1>1, <2>1, <2>2
  <1>8. ASSUME NEW k \in Node, NEW s \in Slot PROVE MetasAreOf(k, s, origin)' /\ OwnSound(k, s)'
    <2>1. CASE k = n
      BY <2>1
    <2>2. CASE k = o
      <3>1. presences'[k][s] = presences[k][s] /\ pidToPresence'[k] = pidToPresence[k]
        BY <2>2 DEF o
      <3>2. MetasAreOf(k, s, was) /\ OwnSound(k, s) /\ presences \in [Node -> [Slot -> SUBSET AnyMeta]]
        BY DEF OriginInv, PresTypes
      <3>3. ASSUME NEW m \in presences[k][s] PROVE m.ref \in Made /\ m.ref <= lastRef'
        <4>1. m.ref \in Nat
          BY <3>2 DEF AnyMeta
        <4>2. m.ref # 0 /\ m.ref <= lastRef
          BY <3>2 DEF MetasAreOf
        <4>3. QED
          BY <1>2, <4>1, <4>2 DEF Made
      <3>4. QED
        BY <3>1, <3>2, <3>3 DEF MetasAreOf, OwnSound
    <2>3. QED
      BY <1>1, <2>1, <2>2
  <1>9. ASSUME NEW s \in Slot PROVE Has(o, s, 0)' <=> Has(o, s, 0)
    BY DEF Has, o
  <1>10. ASSUME NEW s \in Slot, NEW r \in Made', r \notin Made PROVE ~ Has(n, s, r) /\ ~ Has(o, s, r)
    <2>1. r > lastRef
      BY <1>2, <1>10
    <2>2. ASSUME NEW k \in Node, Has(k, s, r) PROVE FALSE
      <3>1. PICK m \in presences[k][s] : m.ref = r
        BY <2>2 DEF Has, RefsIn
      <3>2. MetasAreOf(k, s, was)
        BY DEF OriginInv
      <3>3. r <= lastRef
        BY <3>1, <3>2 DEF MetasAreOf
      <3>4. QED
        BY <1>2, <2>1, <3>3
    <2>3. QED
      BY <1>1, <2>2
  <1>11. ASSUME NEW s \in Slot, NEW r \in Made', origin[r] = <<n, s>> PROVE CopyFollows(n, s, r)'
    <2>1. SUFFICES ASSUME r \notin missed'
                   PROVE  Has(n, s, r)' <=> /\ Has(o, s, r)' \/ Joining(deltas'[o], r)
                                            /\ ~ Dropping(deltas'[o], r)
      BY DEF CopyFollows, o
    <2>2. Has(o, s, r)' <=> Has(o, s, r)
      BY DEF Has, o
    <2>3. Has(n, s, r)' <=> (Has(n, s, r) \/ Joining(ds, r)) /\ ~ Dropping(ds, r)
      BY <1>11 DEF OwnAfter
    <2>4. r \in Nat /\ r # 0
      BY <1>2
    <2>5. r \notin missed
      BY <1>3, <2>1
    <2>6. Has(n, s, r) <=> (Has(o, s, r) \/ Joining(deltas[o], r)) /\ ~ Dropping(deltas[o], r)
      <3>1. CASE r \in Made
        <4>1. was[r] = <<n, s>>
          BY <1>11, <3>1
        <4>2. CopyFollows(n, s, r)
          BY <3>1, <4>1 DEF OriginInv
        <4>3. QED
          BY <2>5, <4>2 DEF CopyFollows, o
      <3>2. CASE r \notin Made
        <4>1. r > lastRef
          BY <1>2, <3>2
        <4>2. ~ Joining(deltas[o], r)
          BY <1>2, <1>6, <2>4, <4>1
        <4>3. QED
          BY <1>10, <3>2, <4>2
      <3>3. QED
        BY <3>1, <3>2
    <2>7. Joining(ds, r) => ~ Dropping(deltas[o], r)
      BY <1>2, <1>5, <2>4
    <2>8. CASE n \in members
      <3>1. deltas[o] \in Seq(Diffs)
        BY <1>1, <1>2
      <3>2. /\ Joining(deltas'[o], r) <=> Joining(deltas[o], r) \/ Joining(ds, r)
            /\ Dropping(deltas'[o], r) <=> Dropping(deltas[o], r) \/ Dropping(ds, r)
        <4>1. deltas'[o] = deltas[o] \o ds
          BY <1>3, <2>8
        <4>2. /\ Joining(deltas[o] \o ds, r) <=> Joining(deltas[o], r) \/ Joining(ds, r)
              /\ Dropping(deltas[o] \o ds, r) <=> Dropping(deltas[o], r) \/ Dropping(ds, r)
          BY <3>1, QueueGrows
        <4>3. QED
          BY <4>1, <4>2
      <3>3. QED
        BY <2>2, <2>3, <2>6, <2>7, <3>2
    <2>9. CASE n \notin members
      <3>1. \A d \in Range(ds) : r \notin RefsOf(d)
        BY <1>3, <2>1, <2>9
      <3>2. \A i \in 1 .. Len(ds) : ds[i] \in Range(ds)
        BY DEF Range
      <3>3. ~ Joining(ds, r) /\ ~ Dropping(ds, r)
        BY <2>4, <3>1, <3>2 DEF Joining, Dropping, Joins, Drops, RefsOf
      <3>4. QED
        BY <1>3, <2>2, <2>3, <2>6, <2>9, <3>3
    <2>10. QED
      BY <2>8, <2>9
  <1>12. ASSUME NEW s \in Slot, NEW r \in Made', origin[r] = <<o, s>> PROVE CopyFollows(o, s, r)'
    <2>1. r \in Made /\ (Has(n, s, r)' <=> Has(n, s, r))
      BY <1>12 DEF o
    <2>2. CopyFollows(o, s, r)
      BY <1>1, <1>12, <2>1 DEF OriginInv
    <2>3. Has(o, s, r)' <=> Has(o, s, r)
      BY DEF Has, o
    <2>4. r \notin missed' => r \notin missed
      BY <1>3
    <2>5. QED
      BY <1>1, <1>3, <2>1, <2>2, <2>3, <2>4 DEF CopyFollows
  <1>13. \A k \in Node, s \in Slot, r \in Made' : origin[r] = <<k, s>> => CopyFollows(k, s, r)'
    BY <1>1, <1>11, <1>12
  <1>14. QED
    BY <1>7, <1>8, <1>13 DEF OriginInv

-----------------------------------------------------------------------------
\* No diff at all, and the diff of one slot.
LEMMA NoDiff ==
    /\ <<>> \in Seq(Diffs) /\ JoinsFirst(<<>>)
    /\ \A n, origin, last : DiffsAreOf(<<>>, n, origin, last)
    /\ \A r : ~ Joining(<<>>, r) /\ ~ Dropping(<<>>, r)
  <1>1. 1 .. Len(<<>>) = {}
    OBVIOUS
  <1>2. QED
    BY <1>1 DEF JoinsFirst, DiffsAreOf, Joining, Dropping

LEMMA OneDiff ==
    ASSUME NEW d \in Diffs, NEW n, NEW origin, NEW last, DiffIsOf(d, n, origin, last),
           \A r \in Nat : ~ (Joins(d, r) /\ Drops(d, r))
    PROVE  /\ <<d>> \in Seq(Diffs) /\ JoinsFirst(<<d>>)
           /\ DiffsAreOf(<<d>>, n, origin, last)
           /\ \A r : (Joining(<<d>>, r) <=> Joins(d, r)) /\ (Dropping(<<d>>, r) <=> Drops(d, r))
  <1>1. 1 .. Len(<<d>>) = {1} /\ <<d>>[1] = d /\ <<d>> \in Seq(Diffs)
    OBVIOUS
  <1>2. QED
    BY <1>1 DEF JoinsFirst, DiffsAreOf, Joining, Dropping

\* A new reference, made at n for s.
LEMMA OriginOfNext ==
    ASSUME NEW was, was \in [Made -> Node \X Slot], NEW n \in Node, NEW s \in Slot,
           lastRef \in Nat, lastRef' = lastRef + 1
    PROVE  \E origin \in [Made' -> Node \X Slot] :
               /\ \A r \in Made : origin[r] = was[r]
               /\ origin[lastRef'] = <<n, s>>
               /\ lastRef' \in Made' /\ \A r \in Made' : r \in Made \/ r = lastRef'
  <1> DEFINE origin == [r \in Made' |-> IF r \in Made THEN was[r] ELSE <<n, s>>]
  <1>1. /\ lastRef' \in Made' /\ lastRef' \notin Made
        /\ \A r \in Made' : r \in Made \/ r = lastRef'
        /\ Made \subseteq Made'
    BY DEF Made
  <1>2. origin \in [Made' -> Node \X Slot]
    OBVIOUS
  <1>3. (\A r \in Made : origin[r] = was[r]) /\ origin[lastRef'] = <<n, s>>
    BY <1>1
  <1> HIDE DEF origin
  <1>4. QED
    BY <1>1, <1>2, <1>3

\* The metas of the next origin, if those of this one stay and the new one is of n and s.
LEMMA MetasOfNext ==
    ASSUME NEW was, OriginInv(was), NEW n \in Node, NEW origin, NEW k \in Slot,
           \A r \in Made : origin[r] = was[r], lastRef <= lastRef', lastRef' \in Nat,
           \A m \in presences'[n][k] :
              \/ m \in presences[n][k]
              \/ m.ref = lastRef' /\ m.ref # 0 /\ origin[lastRef'] = <<Home[m.pid], k>>
    PROVE  MetasAreOf(n, k, origin)'
  <1>1. presences \in [Node -> [Slot -> SUBSET AnyMeta]] /\ MetasAreOf(n, k, was) /\ lastRef \in Nat
    BY DEF OriginInv, PresTypes
  <1>2. ASSUME NEW m \in presences'[n][k]
        PROVE  m.ref # 0 /\ m.ref <= lastRef' /\ origin[m.ref] = <<Home[m.pid], k>>
    <2>1. CASE m \in presences[n][k]
      <3>1. m.ref \in Nat /\ m.ref # 0 /\ m.ref <= lastRef /\ was[m.ref] = <<Home[m.pid], k>>
        BY <1>1, <2>1 DEF MetasAreOf, AnyMeta
      <3>2. m.ref \in Made
        BY <1>1, <3>1 DEF Made
      <3>3. QED
        BY <1>1, <3>1, <3>2
    <2>2. CASE m \notin presences[n][k]
      BY <1>2, <2>2
    <2>3. QED
      BY <2>1, <2>2
  <1>3. QED
    BY <1>2 DEF MetasAreOf

\* A track or an update: one join, which names what it replaces.
LEMMA MakeInv ==
    ASSUME NEW was, OriginInv(was), NEW n \in Node, NEW p \in Pid, Home[p] = n, NEW s \in Slot,
           NEW old \in SUBSET presences[n][s], NEW prev \in Nat,
           \/ old = {} /\ prev = 0
           \/ \E m \in presences[n][s] : old = {m} /\ m.pid = p /\ prev = m.ref,
           NEW since \in Nat, NEW meta,
           meta = [ref |-> lastRef + 1, prev |-> prev, pid |-> p, since |-> since],
           lastRef' = lastRef + 1,
           presences' = [presences EXCEPT ![n][s] = (@ \ old) \cup {meta}],
           pidToPresence' = [pidToPresence EXCEPT ![n] = @ \cup {<<p, s>>}],
           BroadcastDeltas(n, <<Diff(s, {meta}, {})>>),
           UNCHANGED members
    PROVE  PresInv'
  <1>4. PICK d : d = Diff(s, {meta}, {})
    OBVIOUS
  <1>6. PresTypes /\ was \in [Made -> Node \X Slot] /\ lastRef \in Nat /\ lastRef' \in Nat
    BY DEF OriginInv, PresTypes
  <1>7. PICK origin \in [Made' -> Node \X Slot] :
               /\ \A r \in Made : origin[r] = was[r]
               /\ origin[lastRef'] = <<n, s>>
               /\ lastRef' \in Made' /\ \A r \in Made' : r \in Made \/ r = lastRef'
    BY <1>6, OriginOfNext
  <1>8. meta \in AnyMeta /\ meta.ref = lastRef' /\ meta.prev = prev /\ meta.pid = p
    BY <1>6 DEF AnyMeta
  <1>9. d \in Diffs /\ d.slot = s /\ d.joins = {meta} /\ d.leaves = {}
    BY <1>4, <1>8 DEF Diff, Diffs
  <1>10. \A r : (Joins(d, r) <=> r = lastRef') /\ (Drops(d, r) <=> r = prev)
    BY <1>8, <1>9 DEF Joins, Drops, RefsIn
  <1>a. presences[n][s] \subseteq AnyMeta /\ MetasAreOf(n, s, was)
    BY DEF OriginInv, PresTypes
  <1>b. prev # 0 => prev \in Made /\ prev <= lastRef /\ was[prev] = <<n, s>>
    <2> SUFFICES ASSUME prev # 0 PROVE prev \in Made /\ prev <= lastRef /\ was[prev] = <<n, s>>
      OBVIOUS
    <2>1. PICK m \in presences[n][s] : m.pid = p /\ prev = m.ref
      OBVIOUS
    <2>2. prev <= lastRef /\ was[prev] = <<n, s>>
      BY <1>a, <2>1 DEF MetasAreOf
    <2>3. QED
      BY <1>6, <2>2 DEF Made
  <1>c. prev <= lastRef
    BY <1>6, <1>b
  <1>11. DiffIsOf(d, n, origin, lastRef')
    <2>1. ASSUME NEW r \in Nat \ {0}, Joins(d, r) \/ Drops(d, r)
          PROVE  r <= lastRef' /\ origin[r] = <<n, d.slot>>
      BY <1>6, <1>7, <1>9, <1>10, <1>b, <2>1
    <2>2. \A m \in d.joins : Home[m.pid] = n /\ m.ref # 0
      BY <1>6, <1>8, <1>9
    <2>3. QED
      BY <2>1, <2>2 DEF DiffIsOf
  <1>12. \A r \in Nat : ~ (Joins(d, r) /\ Drops(d, r))
    BY <1>6, <1>10, <1>c
  <1>13. /\ <<d>> \in Seq(Diffs) /\ JoinsFirst(<<d>>)
         /\ DiffsAreOf(<<d>>, n, origin, lastRef')
         /\ \A r : (Joining(<<d>>, r) <=> r = lastRef') /\ (Dropping(<<d>>, r) <=> r = prev)
    BY <1>9, <1>10, <1>11, <1>12, OneDiff
  <1>o. Other(n) \in Node /\ Other(n) # n
    BY TwoNodes
  <1>14. /\ presences' \in [Node -> [Slot -> SUBSET AnyMeta]]
         /\ presences'[Other(n)] = presences[Other(n)]
         /\ presences'[n][s] = (presences[n][s] \ old) \cup {meta}
         /\ \A k \in Slot : k # s => presences'[n][k] = presences[n][k]
    BY <1>6, <1>8, <1>o DEF PresTypes
  <1>15. /\ pidToPresence \in [Node -> SUBSET (Pid \X Slot)] /\ \A k \in Node : IsFiniteSet(pidToPresence[k])
         /\ <<p, s>> \in Pid \X Slot
    BY <1>6 DEF PresTypes
  <1>16. /\ pidToPresence' \in [Node -> SUBSET (Pid \X Slot)]
         /\ pidToPresence'[n] = pidToPresence[n] \cup {<<p, s>>}
         /\ \A k \in Node : k # n => pidToPresence'[k] = pidToPresence[k]
    BY <1>15
  <1>17. IsFiniteSet(pidToPresence[n] \cup {<<p, s>>})
    BY <1>15, FS_AddElement
  <1>18. \A k \in Node : IsFiniteSet(pidToPresence'[k])
    BY <1>15, <1>16, <1>17
  <1>19. deltas' \in [Node -> Seq(Diffs)]
    <2>1. deltas \in [Node -> Seq(Diffs)]
      BY <1>6 DEF PresTypes
    <2>2. deltas[Other(n)] \o <<d>> \in Seq(Diffs)
      BY <1>o, <1>13, <2>1
    <2>3. QED
      BY <1>4, <1>o, <2>1, <2>2 DEF BroadcastDeltas
  <1>20. PresTypes'
    BY <1>6, <1>14, <1>16, <1>18, <1>19 DEF PresTypes
  <1>21. ASSUME NEW k \in Slot PROVE MetasAreOf(n, k, origin)'
    <2>1. \A m \in presences'[n][k] :
              \/ m \in presences[n][k]
              \/ m.ref = lastRef' /\ m.ref # 0 /\ origin[lastRef'] = <<Home[m.pid], k>>
      BY <1>6, <1>7, <1>8, <1>14
    <2>2. lastRef <= lastRef'
      BY <1>6
    <2>3. QED
      BY <1>6, <1>7, <2>1, <2>2, MetasOfNext
  <1>22. ASSUME NEW k \in Slot PROVE OwnSound(n, k)'
    <2>1. OwnSound(n, k)
      BY DEF OriginInv
    <2>2. CASE k # s
      BY <1>14, <1>16, <2>1, <2>2 DEF OwnSound
    <2>3. CASE k = s
      <3>1. \A m \in presences[n][s] : m.ref # lastRef'
        BY <1>6, <1>a DEF MetasAreOf, AnyMeta
      <3>2. \A m \in presences'[n][s] : m = meta \/ m \in presences[n][s]
        BY <1>14
      <3>3. <<p, s>> \in pidToPresence'[n] /\ pidToPresence[n] \subseteq pidToPresence'[n]
        BY <1>16
      <3>4. QED
        BY <1>8, <2>1, <2>3, <3>1, <3>2, <3>3 DEF OwnSound
    <2>4. QED
      BY <2>2, <2>3
  <1>23. ASSUME NEW k \in Slot, NEW r \in Made', origin[r] = <<n, k>> PROVE OwnAfter(n, k, r, <<d>>)
    <2>1. CASE k # s
      <3>1. r # lastRef'
        BY <1>7, <1>23, <2>1
      <3>2. r # prev
        BY <1>7, <1>23, <1>b, <2>1 DEF Made
      <3>3. Has(n, k, r)' <=> Has(n, k, r)
        BY <1>14, <2>1 DEF Has
      <3>4. QED
        BY <1>13, <3>1, <3>2, <3>3 DEF OwnAfter
    <2>2. CASE k = s
      <3>1. Has(n, s, r)' <=> (Has(n, s, r) \/ r = lastRef') /\ r # prev
        <4>1. r = lastRef' => Has(n, s, r)' /\ r # prev
          BY <1>6, <1>8, <1>14, <1>c DEF Has, RefsIn
        <4>2. ASSUME Has(n, s, r), r # prev PROVE Has(n, s, r)'
          <5>1. PICK m \in presences[n][s] : m.ref = r
            BY <4>2 DEF Has, RefsIn
          <5>2. m \notin old
            BY <4>2, <5>1
          <5>3. QED
            BY <1>14, <5>1, <5>2 DEF Has, RefsIn
        <4>3. ASSUME Has(n, s, r)', r # lastRef' PROVE Has(n, s, r) /\ r # prev
          <5>1. PICK m \in presences'[n][s] : m.ref = r
            BY <4>3 DEF Has, RefsIn
          <5>2. m \in presences[n][s] /\ m \notin old
            BY <1>8, <1>14, <4>3, <5>1
          <5>3. ASSUME r = prev PROVE FALSE
            <6>1. r # 0
              BY <1>a, <5>1, <5>2 DEF MetasAreOf
            <6>2. PICK was_m \in presences[n][s] : old = {was_m} /\ was_m.pid = p /\ prev = was_m.ref
              BY <5>3, <6>1
            <6>3. OwnSound(n, s)
              BY DEF OriginInv
            <6>4. m = was_m
              BY <5>1, <5>2, <5>3, <6>2, <6>3 DEF OwnSound
            <6>5. QED
              BY <5>2, <6>2, <6>4
          <5>4. QED
            BY <5>1, <5>2, <5>3 DEF Has, RefsIn
        <4>4. QED
          BY <4>1, <4>2, <4>3
      <3>2. QED
        BY <1>13, <2>2, <3>1 DEF OwnAfter
    <2>3. QED
      BY <2>1, <2>2
  <1>24. ASSUME NEW k \in Slot, NEW r \in Made', origin[r] = <<Other(n), k>>
         PROVE  r \in Made /\ (Has(n, k, r)' <=> Has(n, k, r))
    <2>1. r # lastRef' /\ r \in Made
      BY <1>7, <1>24, <1>o
    <2>2. r # prev
      BY <1>7, <1>24, <1>b, <1>o, <2>1 DEF Made
    <2>3. CASE k # s
      BY <1>14, <2>1, <2>3 DEF Has
    <2>4. CASE k = s
      <3>1. \A m \in presences[n][s] : m.ref = r => m \notin old
        BY <2>2
      <3>2. QED
        BY <1>8, <1>14, <2>1, <2>4, <3>1 DEF Has, RefsIn
    <2>5. QED
      BY <2>1, <2>3, <2>4
  <1>25. \A r \in Nat : Joining(<<d>>, r) => r > lastRef /\ ~ Dropping(<<d>>, r)
    BY <1>6, <1>13, <1>c
  <1>26. OriginInv(origin)'
    <2>1. lastRef <= lastRef' /\ BroadcastDeltas(n, <<d>>) /\ pidToPresence'[Other(n)] = pidToPresence[Other(n)]
      BY <1>4, <1>6, <1>16, <1>o
    <2>2. \A k \in Slot, r \in Made' : origin[r] = <<n, k>> => OwnAfter(n, k, r, <<d>>)
      BY <1>23
    <2>3. \A k \in Slot, r \in Made' : origin[r] = <<Other(n), k>> =>
             r \in Made /\ (Has(n, k, r)' <=> Has(n, k, r))
      BY <1>24
    <2>4. \A k \in Slot : MetasAreOf(n, k, origin)' /\ OwnSound(n, k)'
      BY <1>21, <1>22
    <2>5. presences'[Other(n)] = presences[Other(n)]
      BY <1>14
    <2>6. /\ <<d>> \in Seq(Diffs) /\ JoinsFirst(<<d>>) /\ DiffsAreOf(<<d>>, n, origin, lastRef')
          /\ origin \in [Made' -> Node \X Slot] /\ \A r \in Made : origin[r] = was[r]
      BY <1>7, <1>13
    <2>7. QED
      BY <1>20, <1>25, <2>1, <2>2, <2>3, <2>4, <2>5, <2>6, PresenceCallInv
  <1>27. QED
    BY <1>26 DEF PresInv

LEMMA TrackInv ==
    ASSUME PresInv, NEW p \in Pid, NEW s \in Slot, Track(p, s)
    PROVE  PresInv'
  <1>1. PICK was : OriginInv(was)
    BY DEF PresInv
  <1>2. PICK n \in Node : n = Home[p]
    BY PidHome
  <1>3. PICK meta : meta = [ref |-> lastRef + 1, prev |-> 0, pid |-> p, since |-> lastRef + 1]
    OBVIOUS
  <1>4. lastRef + 1 \in Nat /\ {} \in SUBSET presences[n][s]
    BY <1>1 DEF OriginInv, PresTypes
  <1>5. /\ lastRef' = lastRef + 1
        /\ presences' = [presences EXCEPT ![n][s] = @ \cup {meta}]
        /\ pidToPresence' = [pidToPresence EXCEPT ![n] = @ \cup {<<p, s>>}]
        /\ BroadcastDeltas(n, <<Diff(s, {meta}, {})>>)
        /\ UNCHANGED members
    BY <1>2, <1>3 DEF Track
  <1>6. presences' = [presences EXCEPT ![n][s] = (@ \ {}) \cup {meta}]
    BY <1>5
  <1>7. QED
    BY <1>1, <1>2, <1>3, <1>4, <1>5, <1>6, MakeInv

LEMMA UpdateInv ==
    ASSUME PresInv, NEW p \in Pid, NEW s \in Slot, Update(p, s)
    PROVE  PresInv'
  <1>1. PICK was : OriginInv(was)
    BY DEF PresInv
  <1>2. PICK n \in Node : n = Home[p]
    BY PidHome
  <1>3. PICK old, meta :
            /\ old \in presences[n][s] /\ old.pid = p
            /\ meta = [ref |-> lastRef + 1, prev |-> old.ref, pid |-> p, since |-> old.since]
            /\ lastRef' = lastRef + 1
            /\ presences' = [presences EXCEPT ![n][s] = (@ \ {old}) \cup {meta}]
            /\ BroadcastDeltas(n, <<Diff(s, {meta}, {})>>)
            /\ UNCHANGED <<members, pidToPresence>>
    BY <1>2 DEF Update, OfPid
  <1>4. old.ref \in Nat /\ old.since \in Nat /\ {old} \in SUBSET presences[n][s]
    <2>1. old \in AnyMeta
      BY <1>1, <1>3 DEF OriginInv, PresTypes
    <2>2. QED
      BY <1>3, <2>1 DEF AnyMeta
  <1>5. <<p, s>> \in pidToPresence[n]
    BY <1>1, <1>2, <1>3 DEF OriginInv, OwnSound
  <1>6. pidToPresence' = [pidToPresence EXCEPT ![n] = @ \cup {<<p, s>>}]
    <2>1. pidToPresence \in [Node -> SUBSET (Pid \X Slot)]
      BY <1>1 DEF OriginInv, PresTypes
    <2>2. pidToPresence[n] \cup {<<p, s>>} = pidToPresence[n]
      BY <1>5
    <2>3. QED
      BY <1>3, <2>1, <2>2
  <1>7. \E m \in presences[n][s] : {old} = {m} /\ m.pid = p /\ old.ref = m.ref
    BY <1>3
  <1>8. lastRef' = lastRef + 1 /\ UNCHANGED members /\ BroadcastDeltas(n, <<Diff(s, {meta}, {})>>)
        /\ meta = [ref |-> lastRef + 1, prev |-> old.ref, pid |-> p, since |-> old.since]
        /\ presences' = [presences EXCEPT ![n][s] = (@ \ {old}) \cup {meta}]
    BY <1>3
  <1>9. QED
    BY <1>1, <1>2, <1>4, <1>6, <1>7, <1>8, MakeInv

-----------------------------------------------------------------------------
\* The presences of p in some slots go, each slot with one diff.
GoneDiff(n, p, k) == Diff(k, {}, OfPid(presences[n][k], p))

TellsGone(ds, n, p, mine) ==
    /\ \A i \in 1 .. Len(ds) : \E k \in mine : ds[i] = GoneDiff(n, p, k)
    /\ \A k \in mine : OfPid(presences[n][k], p) # {} =>
           \E i \in 1 .. Len(ds) : ds[i] = GoneDiff(n, p, k)

Removes(n, p, mine) ==
    /\ presences' \in [Node -> [Slot -> SUBSET AnyMeta]]
    /\ presences'[Other(n)] = presences[Other(n)]
    /\ \A k \in Slot : presences'[n][k] =
           IF k \in mine THEN NotOfPid(presences[n][k], p) ELSE presences[n][k]

Unindexes(n, p, mine) ==
    /\ pidToPresence' \in [Node -> SUBSET (Pid \X Slot)]
    /\ pidToPresence'[Other(n)] = pidToPresence[Other(n)]
    /\ pidToPresence'[n] \subseteq pidToPresence[n]
    /\ \A q \in Pid, k \in Slot : <<q, k>> \in pidToPresence[n] =>
           <<q, k>> \in pidToPresence'[n] \/ (q = p /\ k \in mine)

LEMMA GoneDiffIs ==
    ASSUME NEW d, NEW n, NEW p, NEW k, d = GoneDiff(n, p, k), NEW r
    PROVE  /\ d.slot = k /\ d.joins = {} /\ ~ Joins(d, r)
           /\ Drops(d, r) <=> \E m \in presences[n][k] : m.pid = p /\ m.ref = r
  BY DEF GoneDiff, Joins, Drops, Diff, RefsIn, OfPid

LEMMA PresenceRemoveInv ==
    ASSUME NEW was, OriginInv(was), NEW n \in Node, NEW p \in Pid, Home[p] = n,
           NEW mine \in SUBSET Slot, NEW ds \in Seq(Diffs),
           TellsGone(ds, n, p, mine), Removes(n, p, mine), Unindexes(n, p, mine),
           BroadcastDeltas(n, ds), UNCHANGED <<members, lastRef>>
    PROVE  PresInv'
  <1>1. /\ PresTypes /\ was \in [Made -> Node \X Slot] /\ lastRef \in Nat /\ lastRef' = lastRef
        /\ presences \in [Node -> [Slot -> SUBSET AnyMeta]]
    BY DEF OriginInv, PresTypes
  <1>0. /\ presences' \in [Node -> [Slot -> SUBSET AnyMeta]]
        /\ presences'[Other(n)] = presences[Other(n)]
        /\ \A k \in Slot : presences'[n][k] =
               IF k \in mine THEN NotOfPid(presences[n][k], p) ELSE presences[n][k]
        /\ pidToPresence' \in [Node -> SUBSET (Pid \X Slot)]
        /\ pidToPresence'[Other(n)] = pidToPresence[Other(n)]
        /\ pidToPresence'[n] \subseteq pidToPresence[n]
        /\ \A q \in Pid, k \in Slot : <<q, k>> \in pidToPresence[n] =>
               <<q, k>> \in pidToPresence'[n] \/ (q = p /\ k \in mine)
    BY DEF Removes, Unindexes
  <1>2. Other(n) \in Node /\ Other(n) # n /\ \A k \in Node : k = n \/ k = Other(n)
    BY TwoNodes
  <1>3. deltas' \in [Node -> Seq(Diffs)]
    <2>1. deltas \in [Node -> Seq(Diffs)]
      BY <1>1 DEF PresTypes
    <2>2. deltas[Other(n)] \o ds \in Seq(Diffs)
      BY <1>2, <2>1
    <2>3. deltas' = [deltas EXCEPT ![Other(n)] = deltas[Other(n)] \o ds] \/ deltas' = deltas
      BY DEF BroadcastDeltas
    <2>4. QED
      BY <1>2, <2>1, <2>2, <2>3
  <1>4. PresTypes'
    <2>1. \A k \in Node : IsFiniteSet(pidToPresence[k]) 
      BY <1>1 DEF PresTypes
    <2>2. IsFiniteSet(pidToPresence'[n])
      BY <1>0, <2>1, FS_Subset
    <2>3. \A k \in Node : IsFiniteSet(pidToPresence'[k])
      BY <1>0, <1>2, <2>1, <2>2
    <2>4. members' \subseteq Node
      BY <1>1 DEF PresTypes
    <2>5. QED
      BY <1>0, <1>1, <1>3, <2>3, <2>4 DEF PresTypes
  <1>5. ASSUME NEW k \in Slot, NEW m \in presences[n][k], m.pid = p
        PROVE  m.ref \in Made /\ m.ref # 0 /\ m.ref <= lastRef /\ was[m.ref] = <<n, k>>
    <2>1. m \in AnyMeta
      BY <1>1
    <2>2. m.ref # 0 /\ m.ref <= lastRef /\ was[m.ref] = <<n, k>>
      BY <1>5 DEF OriginInv, MetasAreOf
    <2>3. m.ref \in Nat
      BY <2>1 DEF AnyMeta
    <2>4. QED
      BY <1>1, <2>2, <2>3 DEF Made
  <1>6. ASSUME NEW k \in mine, NEW i \in 1 .. Len(ds), ds[i] = GoneDiff(n, p, k),
               NEW r
        PROVE  /\ ~ Joins(ds[i], r)
               /\ Drops(ds[i], r) <=> \E m \in presences[n][k] : m.pid = p /\ m.ref = r
    BY <1>6, GoneDiffIs
  <1>7. \A r : ~ Joining(ds, r)
    <2> SUFFICES ASSUME NEW r, NEW i \in 1 .. Len(ds), Joins(ds[i], r) PROVE FALSE
      BY DEF Joining
    <2>1. PICK k \in mine : ds[i] = GoneDiff(n, p, k)
      BY DEF TellsGone
    <2>2. QED
      BY <1>6, <2>1
  <1>8. \A r : Dropping(ds, r) <=> \E k \in mine : \E m \in presences[n][k] : m.pid = p /\ m.ref = r
    <2> TAKE r
    <2>1. ASSUME Dropping(ds, r) PROVE \E k \in mine : \E m \in presences[n][k] : m.pid = p /\ m.ref = r
      <3>1. PICK i \in 1 .. Len(ds) : Drops(ds[i], r)
        BY <2>1 DEF Dropping
      <3>2. PICK k \in mine : ds[i] = GoneDiff(n, p, k)
        BY <3>1 DEF TellsGone
      <3>3. Drops(ds[i], r) => \E m \in presences[n][k] : m.pid = p /\ m.ref = r
        BY <1>6, <3>1, <3>2
      <3>4. QED
        BY <3>1, <3>3
    <2>2. ASSUME NEW k \in mine, NEW m \in presences[n][k], m.pid = p, m.ref = r PROVE Dropping(ds, r)
      <3>1. OfPid(presences[n][k], p) # {}
        BY <2>2 DEF OfPid
      <3>2. PICK i \in 1 .. Len(ds) : ds[i] = GoneDiff(n, p, k)
        BY <3>1 DEF TellsGone
      <3>3. Drops(ds[i], r)
        BY <1>6, <2>2, <3>2
      <3>4. QED
        BY <3>3 DEF Dropping
    <2>3. QED
      BY <2>1, <2>2
  <1>9. JoinsFirst(ds)
    BY <1>7 DEF JoinsFirst, Joining
  <1>10. DiffsAreOf(ds, n, was, lastRef')
    <2>1. ASSUME NEW i \in 1 .. Len(ds) PROVE DiffIsOf(ds[i], n, was, lastRef')
      <3>1. PICK k \in mine : ds[i] = GoneDiff(n, p, k)
        BY DEF TellsGone
      <3>2. ds[i].slot = k /\ ds[i].joins = {}
        BY <3>1 DEF GoneDiff, Diff
      <3>3. ASSUME NEW r \in Nat \ {0}, Joins(ds[i], r) \/ Drops(ds[i], r)
            PROVE  r <= lastRef' /\ was[r] = <<n, k>>
        <4>0. ~ Joins(ds[i], r) /\ (Drops(ds[i], r) => \E m \in presences[n][k] : m.pid = p /\ m.ref = r)
          BY <3>1, GoneDiffIs
        <4>1. PICK m \in presences[n][k] : m.pid = p /\ m.ref = r
          BY <3>3, <4>0
        <4>2. QED
          BY <1>1, <1>5, <4>1
      <3>4. QED
        BY <3>2, <3>3 DEF DiffIsOf
    <2>2. QED
      BY <2>1 DEF DiffsAreOf
  <1>11. ASSUME NEW k \in Slot PROVE MetasAreOf(n, k, was)' /\ OwnSound(n, k)'
    <2>1. MetasAreOf(n, k, was) /\ OwnSound(n, k)
      BY DEF OriginInv
    <2>2. presences'[n][k] \subseteq presences[n][k]
      BY <1>0 DEF NotOfPid
    <2>3. MetasAreOf(n, k, was)'
      BY <1>1, <2>1, <2>2 DEF MetasAreOf
    <2>4. ASSUME NEW m \in presences'[n][k], Home[m.pid] = n
          PROVE  /\ <<m.pid, k>> \in pidToPresence'[n]
                 /\ \A other \in presences'[n][k] : other.ref = m.ref => other = m
      <3>1. /\ <<m.pid, k>> \in pidToPresence[n]
            /\ \A other \in presences[n][k] : other.ref = m.ref => other = m
        BY <2>1, <2>2, <2>4 DEF OwnSound
      <3>2. m.pid \in Pid
        BY <1>1, <2>2 DEF AnyMeta
      <3>3. ~ (m.pid = p /\ k \in mine)
        BY <1>0 DEF NotOfPid
      <3>4. QED
        BY <1>0, <2>2, <3>1, <3>2, <3>3
    <2>5. QED
      BY <2>3, <2>4 DEF OwnSound
  <1>12. ASSUME NEW k \in Slot, NEW r \in Made, was[r] = <<n, k>> PROVE OwnAfter(n, k, r, ds)
    <2>1. Dropping(ds, r) <=> k \in mine /\ \E m \in presences[n][k] : m.pid = p /\ m.ref = r
      <3>1. \A l \in mine : \A m \in presences[n][l] : m.pid = p /\ m.ref = r => l = k
        BY <1>5, <1>12
      <3>2. QED
        BY <1>8, <3>1
    <2>2. Has(n, k, r)' <=> Has(n, k, r) /\ ~ Dropping(ds, r)
      <3>1. CASE k \notin mine
        BY <1>0, <2>1, <3>1 DEF Has
      <3>2. CASE k \in mine
        <4>1. presences'[n][k] = NotOfPid(presences[n][k], p)
          BY <1>0, <3>2
        <4>2. ASSUME Has(n, k, r), ~ Dropping(ds, r) PROVE Has(n, k, r)'
          <5>1. PICK m \in presences[n][k] : m.ref = r
            BY <4>2 DEF Has, RefsIn
          <5>2. m.pid # p
            BY <2>1, <3>2, <4>2, <5>1
          <5>3. QED
            BY <4>1, <5>1, <5>2 DEF Has, RefsIn, NotOfPid
        <4>3. ASSUME Has(n, k, r)' PROVE Has(n, k, r) /\ ~ Dropping(ds, r)
          <5>1. PICK m \in presences[n][k] : m.ref = r /\ m.pid # p
            BY <4>1, <4>3 DEF Has, RefsIn, NotOfPid
          <5>2. ASSUME Dropping(ds, r) PROVE FALSE
            <6>1. PICK x \in presences[n][k] : x.pid = p /\ x.ref = r
              BY <2>1, <5>2
            <6>2. OwnSound(n, k)
              BY DEF OriginInv
            <6>3. m = x
              BY <5>1, <6>1, <6>2 DEF OwnSound
            <6>4. QED
              BY <5>1, <6>1, <6>3
          <5>3. QED
            BY <5>1, <5>2 DEF Has, RefsIn
        <4>4. QED
          BY <4>2, <4>3
      <3>3. QED
        BY <3>1, <3>2
    <2>3. QED
      BY <1>7, <2>2 DEF OwnAfter
  <1>13. ASSUME NEW k \in Slot, NEW r \in Made, was[r] = <<Other(n), k>>
         PROVE  r \in Made /\ (Has(n, k, r)' <=> Has(n, k, r))
    <2>1. \A m \in presences[n][k] : m.ref = r => m.pid # p
      BY <1>2, <1>5, <1>13
    <2>2. QED
      BY <1>0, <2>1 DEF Has, RefsIn, NotOfPid
  <1>14. Made' = Made
    BY <1>1 DEF Made
  <1>15. OriginInv(was)'
    <2>1. /\ was \in [Made' -> Node \X Slot] /\ lastRef <= lastRef'
          /\ \A r \in Made : was[r] = was[r]
          /\ UNCHANGED members
      BY <1>1, <1>14
    <2>2. \A k \in Slot : MetasAreOf(n, k, was)' /\ OwnSound(n, k)'
      BY <1>11
    <2>3. \A r \in Nat : Joining(ds, r) => r > lastRef /\ ~ Dropping(ds, r)
      BY <1>7
    <2>4. \A k \in Slot, r \in Made' : was[r] = <<n, k>> => OwnAfter(n, k, r, ds)
      BY <1>12, <1>14
    <2>5. \A k \in Slot, r \in Made' : was[r] = <<Other(n), k>> =>
             r \in Made /\ (Has(n, k, r)' <=> Has(n, k, r))
      BY <1>13, <1>14
    <2>6. QED
      BY <1>0, <1>4, <1>9, <1>10, <2>1, <2>2, <2>3, <2>4, <2>5, PresenceCallInv
  <1>16. QED
    BY <1>15 DEF PresInv

LEMMA OwnDiffs ==
    ASSUME PresTypes, NEW n \in Node, NEW p, NEW k \in Slot
    PROVE  GoneDiff(n, p, k) \in Diffs
  BY DEF PresTypes, GoneDiff, Diff, Diffs, OfPid

LEMMA UntrackInv ==
    ASSUME PresInv, NEW p \in Pid, NEW s \in Slot, Untrack(p, s)
    PROVE  PresInv'
  <1>1. PICK was : OriginInv(was)
    BY DEF PresInv
  <1>2. PICK n \in Node : n = Home[p]
    BY PidHome
  <1>3. PICK d : d = GoneDiff(n, p, s)
    OBVIOUS
  <1>4. PICK ds : ds = IF OfPid(presences[n][s], p) = {} THEN <<>> ELSE <<d>>
    OBVIOUS
  <1>5. /\ presences' = [presences EXCEPT ![n][s] = NotOfPid(@, p)]
        /\ pidToPresence' = [pidToPresence EXCEPT ![n] = @ \ {<<p, s>>}]
        /\ BroadcastDeltas(n, ds)
        /\ UNCHANGED <<members, lastRef>>
    BY <1>2, <1>3, <1>4 DEF Untrack, GoneDiff
  <1>6. PresTypes /\ presences \in [Node -> [Slot -> SUBSET AnyMeta]]
        /\ pidToPresence \in [Node -> SUBSET (Pid \X Slot)]
    BY <1>1 DEF OriginInv, PresTypes
  <1>7. d \in Diffs
    BY <1>3, <1>6, OwnDiffs
  <1>8. ds \in Seq(Diffs) /\ TellsGone(ds, n, p, {s})
    <2>1. CASE OfPid(presences[n][s], p) = {}
      <3>1. ds = <<>> /\ 1 .. Len(<<>>) = {}
        BY <1>4, <2>1
      <3>2. QED
        BY <2>1, <3>1 DEF TellsGone
    <2>2. CASE OfPid(presences[n][s], p) # {}
      <3>1. ds = <<d>> /\ 1 .. Len(<<d>>) = {1} /\ <<d>>[1] = d /\ <<d>> \in Seq(Diffs)
        BY <1>4, <1>7, <2>2
      <3>2. QED
        BY <1>3, <3>1 DEF TellsGone
    <2>3. QED
      BY <2>1, <2>2
  <1>9. Other(n) \in Node /\ Other(n) # n
    BY TwoNodes
  <1>10. NotOfPid(presences[n][s], p) \in SUBSET AnyMeta
    BY <1>6 DEF NotOfPid
  <1>11. /\ presences' \in [Node -> [Slot -> SUBSET AnyMeta]]
         /\ presences'[Other(n)] = presences[Other(n)]
         /\ \A k \in Slot : presences'[n][k] =
               IF k \in {s} THEN NotOfPid(presences[n][k], p) ELSE presences[n][k]
    BY <1>5, <1>6, <1>9, <1>10
  <1>12. /\ pidToPresence' \in [Node -> SUBSET (Pid \X Slot)]
         /\ pidToPresence'[Other(n)] = pidToPresence[Other(n)]
         /\ pidToPresence'[n] = pidToPresence[n] \ {<<p, s>>}
    BY <1>5, <1>6, <1>9
  <1>13. \A q \in Pid, k \in Slot : <<q, k>> \in pidToPresence[n] =>
             <<q, k>> \in pidToPresence'[n] \/ (q = p /\ k \in {s})
    BY <1>12
  <1>14. {s} \in SUBSET Slot /\ pidToPresence'[n] \subseteq pidToPresence[n]
    BY <1>12
  <1>15. Removes(n, p, {s}) /\ Unindexes(n, p, {s})
    BY <1>11, <1>12, <1>13, <1>14 DEF Removes, Unindexes
  <1>16. QED
    BY <1>1, <1>2, <1>5, <1>8, <1>14, <1>15, PresenceRemoveInv

LEMMA UntrackAllInv ==
    ASSUME PresInv, NEW p \in Pid, UntrackAll(p)
    PROVE  PresInv'
  <1>1. PICK was : OriginInv(was)
    BY DEF PresInv
  <1>2. PICK n \in Node : n = Home[p]
    BY PidHome
  <1>3. PICK mine : mine = {s \in Slot : <<p, s>> \in pidToPresence[n]}
    OBVIOUS
  <1>4. PICK told : told = {s \in mine : OfPid(presences[n][s], p) # {}}
    OBVIOUS
  <1>5. PICK order \in [1 .. Cardinality(told) -> told] :
           /\ Range(order) = told
           /\ BroadcastDeltas(n, [i \in DOMAIN order |-> GoneDiff(n, p, order[i])])
    BY <1>2, <1>3, <1>4 DEF UntrackAll, GoneDiff
  <1>6. PICK ds : ds = [i \in DOMAIN order |-> GoneDiff(n, p, order[i])]
    OBVIOUS
  <1>7. /\ presences' = [presences EXCEPT ![n] = [s \in Slot |->
               IF s \in mine THEN NotOfPid(presences[n][s], p) ELSE presences[n][s]]]
        /\ pidToPresence' = [pidToPresence EXCEPT ![n] = {e \in pidToPresence[n] : e[1] # p}]
        /\ UNCHANGED <<members, lastRef>>
    BY <1>2, <1>3 DEF UntrackAll
  <1>8. PresTypes /\ presences \in [Node -> [Slot -> SUBSET AnyMeta]]
        /\ pidToPresence \in [Node -> SUBSET (Pid \X Slot)] /\ IsFiniteSet(pidToPresence[n])
    BY <1>1 DEF OriginInv, PresTypes
  <1>9. Cardinality(told) \in Nat
    <2>1. PICK f : f = [s \in told |-> <<p, s>>]
      OBVIOUS
    <2>2. \A s \in told : f[s] \in pidToPresence[n]
      BY <1>3, <1>4, <2>1
    <2>3. f \in Injection(told, pidToPresence[n])
      BY <2>1, <2>2 DEF Injection, IsInjective
    <2>4. QED
      BY <1>8, <2>3, FS_Injection, FS_CardinalityType
  <1>10. DOMAIN order = 1 .. Cardinality(told) /\ \A i \in DOMAIN order : order[i] \in told
    BY <1>5
  <1>11. \A i \in DOMAIN order : GoneDiff(n, p, order[i]) \in Diffs
    <2>1. told \subseteq Slot
      BY <1>3, <1>4
    <2>2. QED
      BY <1>8, <1>10, <2>1, OwnDiffs
  <1>12. ds \in Seq(Diffs) /\ DOMAIN ds = DOMAIN order /\ DOMAIN ds = 1 .. Len(ds)
    <2>1. ds \in [1 .. Cardinality(told) -> Diffs]
      BY <1>6, <1>10, <1>11
    <2>2. ds \in Seq(Diffs)
      BY <1>9, <2>1
    <2>3. QED
      BY <1>10, <2>1, <2>2
  <1>13. \A i \in 1 .. Len(ds) : \E k \in mine : ds[i] = GoneDiff(n, p, k)
    <2> SUFFICES ASSUME NEW i \in 1 .. Len(ds)
                 PROVE  \E k \in mine : ds[i] = GoneDiff(n, p, k)
      OBVIOUS
    <2>1. i \in DOMAIN order /\ order[i] \in mine
      BY <1>4, <1>10, <1>12
    <2>2. QED
      BY <1>6, <2>1
  <1>14. ASSUME NEW k \in mine, OfPid(presences[n][k], p) # {}
         PROVE  \E i \in 1 .. Len(ds) : ds[i] = GoneDiff(n, p, k)
    <2>1. k \in Range(order)
      BY <1>4, <1>5, <1>14
    <2>2. PICK i \in DOMAIN order : order[i] = k
      BY <2>1 DEF Range
    <2>3. QED
      BY <1>6, <1>12, <2>2
  <1>15. Other(n) \in Node /\ Other(n) # n
    BY TwoNodes
  <1>16. \A s \in Slot : NotOfPid(presences[n][s], p) \in SUBSET AnyMeta
    BY <1>8 DEF NotOfPid
  <1>17. /\ presences' \in [Node -> [Slot -> SUBSET AnyMeta]]
         /\ presences'[Other(n)] = presences[Other(n)]
         /\ \A k \in Slot : presences'[n][k] =
               IF k \in mine THEN NotOfPid(presences[n][k], p) ELSE presences[n][k]
    BY <1>7, <1>8, <1>15, <1>16
  <1>18. /\ pidToPresence' \in [Node -> SUBSET (Pid \X Slot)]
         /\ pidToPresence'[Other(n)] = pidToPresence[Other(n)]
         /\ pidToPresence'[n] = {e \in pidToPresence[n] : e[1] # p}
    BY <1>7, <1>8, <1>15
  <1>19. \A q \in Pid, k \in Slot : <<q, k>> \in pidToPresence[n] =>
             <<q, k>> \in pidToPresence'[n] \/ (q = p /\ k \in mine)
    BY <1>3, <1>18
  <1>20. mine \in SUBSET Slot /\ pidToPresence'[n] \subseteq pidToPresence[n] /\ BroadcastDeltas(n, ds)
    BY <1>3, <1>5, <1>6, <1>18
  <1>21. TellsGone(ds, n, p, mine) /\ Removes(n, p, mine) /\ Unindexes(n, p, mine)
    BY <1>13, <1>14, <1>17, <1>18, <1>19, <1>20 DEF TellsGone, Removes, Unindexes
  <1>22. QED
    BY <1>1, <1>2, <1>7, <1>12, <1>20, <1>21, PresenceRemoveInv

-----------------------------------------------------------------------------
(***************************************************************************)
(* The first delta on its way to n is taken.                               *)
(***************************************************************************)
TakenBy(n, s, r, d) ==
    Has(n, s, r)' <=> (Has(n, s, r) \/ Joins(d, r)) /\ ~ Drops(d, r)

LEMMA PresenceTakeInv ==
    ASSUME NEW n \in Node, NEW was, OriginInv(was), TakeDelta(n), missed \subseteq missed',
           presences' \in [Node -> [Slot -> SUBSET AnyMeta]],
           presences'[Other(n)] = presences[Other(n)],
           \A s \in Slot : MetasAreOf(n, s, was)' /\ OwnSound(n, s)',
           \A s \in Slot, r \in Made : was[r] = <<n, s>> => (Has(n, s, r)' <=> Has(n, s, r)),
           \A s \in Slot, r \in Made : was[r] = <<Other(n), s>> /\ r \notin missed' =>
               TakenBy(n, s, r, Head(deltas[n]))
    PROVE  PresInv'
  <1>1. PICK o \in Node : o = Other(n) /\ o # n /\ Other(o) = n /\ \A k \in Node : k = n \/ k = o
    BY TwoNodes
  <1>2. /\ PresTypes /\ was \in [Made -> Node \X Slot] /\ Made' = Made
        /\ deltas \in [Node -> Seq(Diffs)] /\ deltas[n] # <<>>
        /\ lastRef' = lastRef /\ members' = members /\ pidToPresence' = pidToPresence
        /\ \A r \in Made : r \in Nat
    BY DEF OriginInv, PresTypes, TakeDelta, Made
  <1>3. PICK q \in Seq(Diffs) : q = deltas[n] /\ q # <<>>
    BY <1>2
  <1>4. JoinsFirst(q) /\ DiffsAreOf(q, o, was, lastRef)
    BY <1>1, <1>3 DEF OriginInv
  <1>5. /\ Tail(q) \in Seq(Diffs)
        /\ JoinsFirst(Tail(q)) /\ DiffsAreOf(Tail(q), o, was, lastRef)
        /\ \A r \in Nat : /\ Joining(q, r) <=> Joins(Head(q), r) \/ Joining(Tail(q), r)
                          /\ Dropping(q, r) <=> Drops(Head(q), r) \/ Dropping(Tail(q), r)
                          /\ Drops(Head(q), r) => ~ Joining(q, r)
    BY <1>3, <1>4, DiffTaken
  <1>6. deltas' \in [Node -> Seq(Diffs)] /\ deltas'[n] = Tail(q) /\ deltas'[o] = deltas[o]
    BY <1>1, <1>2, <1>3, <1>5 DEF TakeDelta
  <1>7. PresTypes'
    BY <1>2, <1>6 DEF PresTypes
  <1>8. ASSUME NEW k \in Node PROVE JoinsFirst(deltas'[k]) /\ DiffsAreOf(deltas'[k], Other(k), was, lastRef')
    <2>1. CASE k = n
      BY <1>1, <1>2, <1>5, <1>6, <2>1
    <2>2. CASE k = o
      BY <1>2, <1>6, <2>2 DEF OriginInv
    <2>3. QED
      BY <1>1, <2>1, <2>2
  <1>9. ASSUME NEW k \in Node, NEW s \in Slot PROVE MetasAreOf(k, s, was)' /\ OwnSound(k, s)'
    <2>1. CASE k = n
      BY <2>1
    <2>2. CASE k = o
      <3>1. MetasAreOf(k, s, was) /\ OwnSound(k, s)
        BY DEF OriginInv
      <3>2. presences'[k][s] = presences[k][s]
        BY <1>1, <2>2
      <3>3. QED
        BY <1>2, <3>1, <3>2 DEF MetasAreOf, OwnSound
    <2>3. QED
      BY <1>1, <2>1, <2>2
  <1>10. ASSUME NEW s \in Slot, NEW r \in Made, was[r] = <<n, s>> PROVE CopyFollows(n, s, r)'
    <2>1. CopyFollows(n, s, r)
      BY <1>10 DEF OriginInv
    <2>2. Has(n, s, r)' <=> Has(n, s, r)
      BY <1>10
    <2>3. Has(o, s, r)' <=> Has(o, s, r)
      BY <1>1 DEF Has
    <2>4. QED
      BY <1>1, <1>6, <2>1, <2>2, <2>3 DEF CopyFollows
  <1>11. ASSUME NEW s \in Slot, NEW r \in Made, was[r] = <<o, s>> PROVE CopyFollows(o, s, r)'
    <2>1. CopyFollows(o, s, r)
      BY <1>11 DEF OriginInv
    <2>2. SUFFICES ASSUME r \notin missed'
                   PROVE  Has(o, s, r)' <=> /\ Has(n, s, r)' \/ Joining(deltas'[n], r)
                                            /\ ~ Dropping(deltas'[n], r)
      BY <1>1 DEF CopyFollows
    <2>3. Has(o, s, r)' <=> Has(o, s, r)
      BY <1>1 DEF Has
    <2>4. Has(o, s, r) <=> (Has(n, s, r) \/ Joining(q, r)) /\ ~ Dropping(q, r)
      BY <1>1, <1>3, <2>1, <2>2 DEF CopyFollows
    <2>5. TakenBy(n, s, r, Head(q))
      BY <1>1, <1>3, <1>11, <2>2
    <2>6. Has(n, s, r)' <=> (Has(n, s, r) \/ Joins(Head(q), r)) /\ ~ Drops(Head(q), r)
      BY <2>5 DEF TakenBy
    <2>7. r \in Nat
      BY <1>2
    <2>8. QED
      BY <1>5, <1>6, <2>3, <2>4, <2>6, <2>7
  <1>12. \A k \in Node, s \in Slot, r \in Made' : was[r] = <<k, s>> => CopyFollows(k, s, r)'
    BY <1>1, <1>2, <1>10, <1>11
  <1>13. OriginInv(was)'
    BY <1>2, <1>7, <1>8, <1>9, <1>12 DEF OriginInv
  <1>14. QED
    BY <1>13 DEF PresInv

LEMMA HandleDeltaInv ==
    ASSUME PresInv, NEW n \in Node, HandleDelta(n)
    PROVE  PresInv'
  <1>1. PICK was : OriginInv(was)
    BY DEF PresInv
  <1>2. PICK o \in Node : o = Other(n) /\ o # n
    BY TwoNodes
  <1>3. /\ TakeDelta(n) /\ missed' = missed /\ deltas[n] # <<>>
        /\ presences \in [Node -> [Slot -> SUBSET AnyMeta]]
        /\ deltas \in [Node -> Seq(Diffs)] /\ lastRef' = lastRef /\ lastRef \in Nat
        /\ pidToPresence' = pidToPresence
    BY <1>1 DEF HandleDelta, TakeDelta, OriginInv, PresTypes
  <1>4. PICK d : d = Head(deltas[n])
    OBVIOUS
  <1>5. JoinsFirst(deltas[n]) /\ DiffsAreOf(deltas[n], o, was, lastRef) /\ deltas[n] \in Seq(Diffs)
    BY <1>1, <1>2, <1>3 DEF OriginInv
  <1>6. /\ d \in Diffs /\ DiffIsOf(d, o, was, lastRef)
        /\ \A r \in Nat : ~ (Joins(d, r) /\ Drops(d, r))
    <2>1. /\ d \in Diffs /\ DiffIsOf(d, o, was, lastRef)
          /\ \A r \in Nat : /\ Joining(deltas[n], r) <=> Joins(d, r) \/ Joining(Tail(deltas[n]), r)
                            /\ Drops(d, r) => ~ Joining(deltas[n], r)
      BY <1>3, <1>4, <1>5, DiffTaken
    <2>2. QED
      BY <2>1
  <1>7. d.slot \in Slot /\ d.joins \subseteq AnyMeta
    BY <1>6 DEF Diffs
  <1>8. PICK after : after = ApplyDelta(presences[n][d.slot], d)
    OBVIOUS
  <1>9. presences' = [presences EXCEPT ![n][d.slot] = after]
    BY <1>4, <1>8 DEF HandleDelta
  <1>10. \A m : m \in after => m \in presences[n][d.slot] \/ m \in d.joins
    BY <1>8 DEF ApplyDelta, WithoutPrevious
  <1>11. after \in SUBSET AnyMeta
    <2>1. presences[n][d.slot] \in SUBSET AnyMeta
      BY <1>3, <1>7
    <2>2. QED
      BY <1>7, <1>10, <2>1
  <1>12. /\ presences' \in [Node -> [Slot -> SUBSET AnyMeta]]
         /\ presences'[o] = presences[o]
         /\ \A s \in Slot : presences'[n][s] = IF s = d.slot THEN after ELSE presences[n][s]
    BY <1>2, <1>3, <1>7, <1>9, <1>11
  <1>13. ASSUME NEW j \in d.joins
         PROVE  Home[j.pid] = o /\ j.ref # 0 /\ j.ref <= lastRef /\ was[j.ref] = <<o, d.slot>>
    <2>1. j.ref \in Nat /\ Joins(d, j.ref)
      BY <1>7 DEF AnyMeta, Joins, RefsIn
    <2>2. Home[j.pid] = o /\ j.ref # 0
      BY <1>6 DEF DiffIsOf
    <2>3. QED
      BY <1>6, <2>1, <2>2 DEF DiffIsOf
  <1>14. ASSUME NEW s \in Slot PROVE MetasAreOf(n, s, was)' /\ OwnSound(n, s)'
    <2>1. MetasAreOf(n, s, was) /\ OwnSound(n, s)
      BY <1>1 DEF OriginInv
    <2>2. ASSUME NEW m \in presences'[n][s] PROVE m \in presences[n][s] \/ (m \in d.joins /\ s = d.slot)
      BY <1>10, <1>12
    <2>3. ASSUME NEW m \in presences'[n][s]
          PROVE  m.ref # 0 /\ m.ref <= lastRef' /\ was[m.ref] = <<Home[m.pid], s>>
      <3>1. CASE m \in presences[n][s]
        BY <1>3, <2>1, <3>1 DEF MetasAreOf
      <3>2. CASE m \in d.joins /\ s = d.slot
        BY <1>3, <1>13, <3>2
      <3>3. QED
        BY <2>2, <3>1, <3>2
    <2>4. ASSUME NEW m \in presences'[n][s], Home[m.pid] = n PROVE m \in presences[n][s]
      BY <1>2, <1>13, <2>2, <2>4
    <2>5. ASSUME NEW m \in presences'[n][s], Home[m.pid] = n
          PROVE  /\ <<m.pid, s>> \in pidToPresence'[n]
                 /\ \A other \in presences'[n][s] : other.ref = m.ref => other = m
      <3>1. m \in presences[n][s]
        BY <2>4, <2>5
      <3>2. /\ <<m.pid, s>> \in pidToPresence[n]
            /\ \A other \in presences[n][s] : other.ref = m.ref => other = m
        BY <2>1, <2>5, <3>1 DEF OwnSound
      <3>3. ASSUME NEW other \in presences'[n][s], other.ref = m.ref PROVE other \in presences[n][s]
        <4>1. was[other.ref] = <<Home[other.pid], s>> /\ was[m.ref] = <<Home[m.pid], s>>
          BY <2>3
        <4>2. Home[other.pid] = n
          BY <2>5, <3>3, <4>1
        <4>3. QED
          BY <2>4, <4>2
      <3>4. QED
        BY <1>3, <3>2, <3>3
    <2>6. QED
      BY <2>3, <2>5 DEF MetasAreOf, OwnSound
  <1>15. ASSUME NEW r PROVE (\E m \in after : m.ref = r) <=>
               \/ Joins(d, r)
               \/ (\E m \in presences[n][d.slot] : m.ref = r) /\ ~ Drops(d, r)
    BY <1>8 DEF ApplyDelta, WithoutPrevious, Joins, Drops, RefsIn
  <1>16. ASSUME NEW s \in Slot, NEW r \in Made, s = d.slot PROVE TakenBy(n, s, r, d)
    <2>1. r \in Nat
      BY DEF Made
    <2>2. Has(n, s, r)' <=> \E m \in after : m.ref = r
      BY <1>12, <1>16 DEF Has, RefsIn
    <2>3. Has(n, s, r) <=> \E m \in presences[n][d.slot] : m.ref = r
      BY <1>16 DEF Has, RefsIn
    <2>4. QED
      BY <1>6, <1>15, <2>1, <2>2, <2>3 DEF TakenBy
  <1>17. ASSUME NEW s \in Slot, NEW r \in Made, s # d.slot PROVE Has(n, s, r)' <=> Has(n, s, r)
    BY <1>12, <1>17 DEF Has
  <1>18. ASSUME NEW r \in Made, Joins(d, r) \/ Drops(d, r) PROVE was[r] = <<o, d.slot>>
    BY <1>6, <1>18 DEF DiffIsOf, Made
  <1>19. ASSUME NEW s \in Slot, NEW r \in Made, was[r] = <<n, s>> PROVE Has(n, s, r)' <=> Has(n, s, r)
    <2>1. ~ Joins(d, r) /\ ~ Drops(d, r)
      BY <1>2, <1>18, <1>19
    <2>2. QED
      BY <1>16, <1>17, <2>1 DEF TakenBy
  <1>20. ASSUME NEW s \in Slot, NEW r \in Made, was[r] = <<o, s>> PROVE TakenBy(n, s, r, d)
    <2>1. CASE s = d.slot
      BY <1>16, <2>1
    <2>2. CASE s # d.slot
      <3>1. ~ Joins(d, r) /\ ~ Drops(d, r)
        BY <1>18, <1>20, <2>2
      <3>2. QED
        BY <1>17, <2>2, <3>1 DEF TakenBy
    <2>3. QED
      BY <2>1, <2>2
  <1>21. \A s \in Slot, r \in Made : was[r] = <<Other(n), s>> /\ r \notin missed' =>
             TakenBy(n, s, r, Head(deltas[n]))
    BY <1>2, <1>4, <1>20
  <1>22. \A s \in Slot, r \in Made : was[r] = <<n, s>> => (Has(n, s, r)' <=> Has(n, s, r))
    BY <1>19
  <1>23. \A s \in Slot : MetasAreOf(n, s, was)' /\ OwnSound(n, s)'
    BY <1>14
  <1>24. missed \subseteq missed' /\ presences'[Other(n)] = presences[Other(n)]
    BY <1>2, <1>3, <1>12
  <1>25. QED
    BY <1>1, <1>3, <1>12, <1>21, <1>22, <1>23, <1>24, PresenceTakeInv

\* What the server did not read is missed.
LEMMA MisreadDeltaInv ==
    ASSUME PresInv, NEW n \in Node, NEW as, MisreadDelta(n, as)
    PROVE  PresInv'
  <1>1. PICK was : OriginInv(was)
    BY DEF PresInv
  <1>2. /\ TakeDelta(n) /\ missed' = missed \cup RefsOf(Head(deltas[n]))
        /\ presences' = presences /\ pidToPresence' = pidToPresence /\ lastRef' = lastRef
        /\ presences' \in [Node -> [Slot -> SUBSET AnyMeta]]
    BY <1>1 DEF MisreadDelta, TakeDelta, OriginInv, PresTypes
  <1>3. ASSUME NEW s \in Slot PROVE MetasAreOf(n, s, was)' /\ OwnSound(n, s)'
    <2>1. MetasAreOf(n, s, was) /\ OwnSound(n, s)
      BY <1>1 DEF OriginInv
    <2>2. QED
      BY <1>2, <2>1 DEF MetasAreOf, OwnSound
  <1>4. \A s \in Slot, r \in Made : Has(n, s, r)' <=> Has(n, s, r)
    BY <1>2 DEF Has
  <1>5. \A r \in Made : r \notin missed' => ~ Joins(Head(deltas[n]), r) /\ ~ Drops(Head(deltas[n]), r)
    <2> PICK d : d = Head(deltas[n])
      OBVIOUS
    <2>1. \A r \in Made : r # 0
      BY DEF Made
    <2>2. \A r \in Made : r \notin RefsOf(d) => ~ Joins(d, r) /\ ~ Drops(d, r)
      BY <2>1 DEF RefsOf, Joins, Drops
    <2>3. QED
      BY <1>2, <2>2
  <1>6. \A s \in Slot, r \in Made : was[r] = <<Other(n), s>> /\ r \notin missed' =>
             TakenBy(n, s, r, Head(deltas[n]))
    BY <1>4, <1>5 DEF TakenBy
  <1>7. \A s \in Slot, r \in Made : was[r] = <<n, s>> => (Has(n, s, r)' <=> Has(n, s, r))
    BY <1>4
  <1>8. missed \subseteq missed' /\ presences'[Other(n)] = presences[Other(n)]
    BY <1>2
  <1>9. QED
    BY <1>1, <1>2, <1>3, <1>6, <1>7, <1>8, PresenceTakeInv

-----------------------------------------------------------------------------
\* The connection ends: what was on its way is missed.
LEMMA LoseConnectionInv ==
    ASSUME PresInv, LoseConnection
    PROVE  PresInv'
  <1>1. PICK was : OriginInv(was)
    BY DEF PresInv
  <1>2. /\ PresTypes /\ was \in [Made -> Node \X Slot] /\ Made' = Made
        /\ presences' = presences /\ pidToPresence' = pidToPresence /\ lastRef' = lastRef
        /\ members' = {} /\ deltas' = [k \in Node |-> <<>>]
        /\ missed' = missed \cup UNION {UNION {RefsOf(d) : d \in Range(deltas[k])} : k \in Node}
    BY <1>1 DEF LoseConnection, OriginInv, Made
  <1>3. /\ PresTypes' /\ \A k \in Node : deltas'[k] = <<>>
    <2>1. deltas' \in [Node -> Seq(Diffs)] /\ \A k \in Node : deltas'[k] = <<>>
      BY <1>2
    <2>2. QED
      BY <1>2, <2>1 DEF PresTypes
  <1>4. \A k \in Node : JoinsFirst(deltas'[k]) /\ DiffsAreOf(deltas'[k], Other(k), was, lastRef')
    BY <1>3, NoDiff
  <1>5. \A k \in Node, s \in Slot : MetasAreOf(k, s, was)' /\ OwnSound(k, s)'
    <2> SUFFICES ASSUME NEW k \in Node, NEW s \in Slot PROVE MetasAreOf(k, s, was)' /\ OwnSound(k, s)'
      OBVIOUS
    <2>1. MetasAreOf(k, s, was) /\ OwnSound(k, s)
      BY <1>1 DEF OriginInv
    <2>2. QED
      BY <1>2, <2>1 DEF MetasAreOf, OwnSound
  <1>6. ASSUME NEW k \in Node, NEW s \in Slot, NEW r \in Made, was[r] = <<k, s>> PROVE CopyFollows(k, s, r)'
    <2>1. PICK o \in Node : o = Other(k)
      BY TwoNodes
    <2>2. SUFFICES ASSUME r \notin missed'
                   PROVE  Has(k, s, r)' <=> /\ Has(o, s, r)' \/ Joining(deltas'[o], r)
                                            /\ ~ Dropping(deltas'[o], r)
      BY <2>1 DEF CopyFollows
    <2>3. ~ Joining(deltas'[o], r) /\ ~ Dropping(deltas'[o], r)
      BY <1>3, NoDiff
    <2>4. \A i \in 1 .. Len(deltas[o]) : r \notin RefsOf(deltas[o][i])
      <3>1. deltas[o] \in Seq(Diffs)
        BY <1>2 DEF PresTypes
      <3>2. \A i \in 1 .. Len(deltas[o]) : deltas[o][i] \in Range(deltas[o])
        BY <3>1 DEF Range
      <3>3. QED
        BY <1>2, <2>2, <3>2
    <2>5. r # 0
      BY DEF Made
    <2>6. ~ Joining(deltas[o], r) /\ ~ Dropping(deltas[o], r)
      BY <2>4, <2>5 DEF Joining, Dropping, Joins, Drops, RefsOf
    <2>7. CopyFollows(k, s, r) /\ r \notin missed
      BY <1>1, <1>2, <1>6, <2>2 DEF OriginInv
    <2>8. (Has(k, s, r)' <=> Has(k, s, r)) /\ (Has(o, s, r)' <=> Has(o, s, r))
      BY <1>2 DEF Has
    <2>9. QED
      BY <2>1, <2>3, <2>6, <2>7, <2>8 DEF CopyFollows
  <1>7. OriginInv(was)'
    BY <1>2, <1>3, <1>4, <1>5, <1>6 DEF OriginInv
  <1>8. QED
    BY <1>7 DEF PresInv

LEMMA PresenceKept ==
    ASSUME PresInv,
           UNCHANGED <<presences, pidToPresence, lastRef, deltas, missed>>, members' \subseteq Node
    PROVE  PresInv'
  <1>1. PICK was : OriginInv(was)
    BY DEF PresInv
  <1>2. Made' = Made /\ lastRef' = lastRef /\ deltas' = deltas
    BY DEF Made
  <1>3. PresTypes'
    BY <1>1 DEF OriginInv, PresTypes
  <1>4. ASSUME NEW k \in Node, NEW s \in Slot PROVE MetasAreOf(k, s, was)' /\ OwnSound(k, s)'
    BY <1>1 DEF OriginInv, MetasAreOf, OwnSound
  <1>5. ASSUME NEW k \in Node, NEW s \in Slot, NEW r \in Made, was[r] = <<k, s>> PROVE CopyFollows(k, s, r)'
    BY <1>1, <1>5 DEF OriginInv, CopyFollows, Has
  <1>6. OriginInv(was)'
    BY <1>1, <1>2, <1>3, <1>4, <1>5 DEF OriginInv
  <1>7. QED
    BY <1>6 DEF PresInv

LEMMA PresenceNextInv == PresInv /\ [PresenceNext]_presenceVars => PresInv'
  <1> SUFFICES ASSUME PresInv, [PresenceNext]_presenceVars PROVE PresInv'
    OBVIOUS
  <1>1. ASSUME NEW p \in Pid, UntrackAll(p) PROVE PresInv'
    BY <1>1, UntrackAllInv
  <1>2. ASSUME NEW p \in Pid, NEW s \in Slot, Track(p, s) PROVE PresInv'
    BY <1>2, TrackInv
  <1>3. ASSUME NEW p \in Pid, NEW s \in Slot, Untrack(p, s) PROVE PresInv'
    BY <1>3, UntrackInv
  <1>4. ASSUME NEW p \in Pid, NEW s \in Slot, Update(p, s) PROVE PresInv'
    BY <1>4, UpdateInv
  <1>5. ASSUME NEW n \in Node, HandleDelta(n) PROVE PresInv'
    BY <1>5, HandleDeltaInv
  <1>6. ASSUME NEW n \in Node, NEW as, MisreadDelta(n, as) PROVE PresInv'
    BY <1>6, MisreadDeltaInv
  <1>7. ASSUME NEW n \in Node, LearnServer(n) PROVE PresInv'
    <2>1. members \subseteq Node
      BY DEF PresInv, OriginInv, PresTypes
    <2>2. QED
      BY <1>7, <2>1, PresenceKept DEF LearnServer
  <1>8. ASSUME LoseConnection PROVE PresInv'
    BY <1>8, LoseConnectionInv
  <1>9. ASSUME UNCHANGED presenceVars PROVE PresInv'
    <2>1. members \subseteq Node
      BY DEF PresInv, OriginInv, PresTypes
    <2>2. QED
      BY <1>9, <2>1, PresenceKept DEF presenceVars
  <1>10. QED
    BY <1>1, <1>2, <1>3, <1>4, <1>5, <1>6, <1>7, <1>8, <1>9 DEF PresenceNext

LEMMA CopyFollowsSuffices == PresInv => ReplicaFollows
  <1> SUFFICES ASSUME PresInv, NEW n \in Node, NEW s \in Slot
               PROVE  /\ deltas[Other(n)] = <<>> =>
                             (RefsOfNode(n, n, s) \ RefsOfNode(n, Other(n), s))
                                 \cup (RefsOfNode(n, Other(n), s) \ RefsOfNode(n, n, s)) \subseteq missed
                      /\ \A m \in presences[n][s] : Home[m.pid] = n => <<m.pid, s>> \in pidToPresence[n]
    BY DEF ReplicaFollows
  <1>1. PICK was : OriginInv(was)
    BY DEF PresInv
  <1>2. PICK o \in Node : o = Other(n)
    BY TwoNodes
  <1>3. OwnSound(n, s)
    BY <1>1 DEF OriginInv
  <1>4. ASSUME NEW k \in Node, NEW r
        PROVE  r \in RefsOfNode(n, k, s) <=> r \in Made /\ was[r] = <<n, s>> /\ Has(k, s, r)
    <2>1. presences \in [Node -> [Slot -> SUBSET AnyMeta]] /\ MetasAreOf(k, s, was) /\ lastRef \in Nat
      BY <1>1 DEF OriginInv, PresTypes
    <2>2. ASSUME NEW m \in presences[k][s] PROVE m.ref \in Made /\ was[m.ref] = <<Home[m.pid], s>>
      <3>1. m.ref \in Nat
        BY <2>1 DEF AnyMeta
      <3>2. QED
        BY <2>1, <3>1 DEF MetasAreOf, Made
    <2>3. ASSUME r \in RefsOfNode(n, k, s) PROVE r \in Made /\ was[r] = <<n, s>> /\ Has(k, s, r)
      BY <2>2, <2>3 DEF RefsOfNode, Has, RefsIn
    <2>4. ASSUME was[r] = <<n, s>>, Has(k, s, r) PROVE r \in RefsOfNode(n, k, s)
      <3>1. PICK m \in presences[k][s] : m.ref = r
        BY <2>4 DEF Has, RefsIn
      <3>2. Home[m.pid] = n
        BY <2>2, <2>4, <3>1
      <3>3. QED
        BY <3>1, <3>2 DEF RefsOfNode
    <2>5. QED
      BY <2>3, <2>4
  <1>5. ASSUME deltas[o] = <<>>, NEW r \in Made, was[r] = <<n, s>>, r \notin missed
        PROVE  Has(n, s, r) <=> Has(o, s, r)
    <2>1. CopyFollows(n, s, r)
      BY <1>1, <1>5 DEF OriginInv
    <2>2. ~ Joining(deltas[o], r) /\ ~ Dropping(deltas[o], r)
      BY <1>5, NoDiff
    <2>3. QED
      BY <1>2, <1>5, <2>1, <2>2 DEF CopyFollows
  <1>6. QED
    BY <1>2, <1>3, <1>4, <1>5 DEF OwnSound

THEOREM CopiesFollow == PresenceSpec => []ReplicaFollows
  <1>1. PresenceInit => PresInv
    BY PresenceInitInv
  <1>2. PresInv /\ [PresenceNext]_presenceVars => PresInv'
    BY PresenceNextInv
  <1>3. PresInv => ReplicaFollows
    BY CopyFollowsSuffices
  <1>4. QED
    BY <1>1, <1>2, <1>3, PTL DEF PresenceSpec

-----------------------------------------------------------------------------
(***************************************************************************)
(* ChatRooms.  The history of the room in use and the messages queued for  *)
(* it are the last ones sent, in order and without a gap; and whoever has  *)
(* asked for the history will be given, or is broadcast, each of them.     *)
(***************************************************************************)
RoomRequest == {<<"store", m>> : m \in Nat} \cup {<<"get", u, w>> : u \in User, w \in Nat}
Busy == [step : RoomSteps, room : RoomProc \cup {NoRoom}, message : Nat, visit : Nat]

Stores(x, m) == x = <<"store", m>>
Gets(x, u, w) == x = <<"get", u, w>>

RoomTypes ==
    /\ roomName \in RoomProc \cup {NoRoom}
    /\ history \in [RoomProc -> Seq(Nat)]
    /\ roomQueue \in [RoomProc -> Seq(RoomRequest)]
    /\ busy \in [User -> Busy]
    /\ present \subseteq User
    /\ shown \in [User -> SUBSET Nat]
    /\ started \in Nat /\ sent \in Nat /\ visits \in Nat

\* Where a session is, and the room it has found.
Placed(u) ==
    /\ busy[u].step = "register" => busy[u].room \in RoomProc
    /\ busy[u].step \in {"terminate", "join", "ask", "fetch"} => roomName # NoRoom
    /\ busy[u].step \in {"join", "ask", "fetch"} => busy[u].room = roomName
    /\ busy[u].visit = 0 <=> busy[u].step \in {"idle", "broadcast"}
    /\ busy[u].step = "broadcast" => u \in present
    /\ u \in present => busy[u].step \in {"idle", "broadcast", "ask", "fetch"} /\ roomName # NoRoom
    /\ busy[u].visit <= visits

\* h: the history, q: the queue, k: the last message stored, n: the last sent.
HistoryKept(h, k) ==
    /\ Len(h) = k \/ Len(h) = MaxHistory
    /\ Len(h) <= k /\ Len(h) <= MaxHistory
    /\ \A i \in 1 .. Len(h) : h[i] = (k - Len(h)) + i

StoresQueued(q, k, n) ==
    /\ k <= n
    /\ \A i \in 1 .. Len(q), m \in Nat : Stores(q[i], m) => k < m /\ m <= n
    /\ \A i, j \in 1 .. Len(q), l, m \in Nat :
          i < j /\ Stores(q[i], l) /\ Stores(q[j], m) => l < m
    /\ \A m \in Nat : k < m /\ m <= n => \E i \in 1 .. Len(q) : Stores(q[i], m)

InOrder(r) == \E k \in Nat : HistoryKept(history[r], k) /\ StoresQueued(roomQueue[r], k, sent)

Unused(r) == history[r] = <<>> /\ roomQueue[r] = <<>>

\* A request for the history is of an earlier visit, or its session waits for the answer.
Asked(u, q) ==
    \A i \in 1 .. Len(q), w \in Nat :
        Gets(q[i], u, w) => 0 < w /\ w <= visits /\ (busy[u].visit = w => At(u, "fetch"))

Seen(u, m) ==
    \/ m \in shown[u]
    \/ m + MaxHistory <= sent
    \/ \E v \in User : At(v, "broadcast") /\ busy[v].message = m

\* What is stored after the history is read comes as a broadcast.
Followed(u, q) ==
    \A i, j \in 1 .. Len(q), m \in Nat :
        i < j /\ Gets(q[i], u, busy[u].visit) /\ Stores(q[j], m) => Seen(u, m)

Watches(u) ==
    /\ busy[u].step \in {"idle", "broadcast"} => \A m \in 1 .. sent : Seen(u, m)
    /\ At(u, "fetch") => Followed(u, roomQueue[roomName])

ChatRoomsInv ==
    /\ RoomTypes
    /\ \A u \in User : Placed(u)
    /\ roomName = NoRoom => sent = 0
    /\ roomName # NoRoom => InOrder(roomName)
    /\ \A r \in RoomProc : r # roomName => Unused(r)
    /\ \A u \in User, r \in RoomProc : Asked(u, roomQueue[r])
    /\ \A u \in present \ gaveUp : Watches(u)

-----------------------------------------------------------------------------
\* The requests of a queue to which one is added, and of one whose first is taken.
LEMMA RequestIs ==
    /\ \A x \in RoomRequest : (\E m \in Nat : Stores(x, m)) \/ (\E u \in User, w \in Nat : Gets(x, u, w))
    /\ \A x, m : Stores(x, m) => x[1] = "store" /\ x[2] = m
    /\ \A x, u, w : Gets(x, u, w) => x[1] = "get" /\ x[2] = u /\ x[3] = w
    /\ \A m \in Nat : <<"store", m>> \in RoomRequest /\ Stores(<<"store", m>>, m)
    /\ \A u \in User, w \in Nat : <<"get", u, w>> \in RoomRequest /\ Gets(<<"get", u, w>>, u, w)
  BY DEF RoomRequest, Stores, Gets

\* A request says what it is, and for whom.
LEMMA RequestSays ==
    /\ \A x : \A l, m \in Nat : Stores(x, l) /\ Stores(x, m) => l = m
    /\ \A x, u, v : \A w, y \in Nat : Gets(x, u, w) /\ Gets(x, v, y) => u = v /\ w = y
    /\ \A x, m, u, w : ~ (Stores(x, m) /\ Gets(x, u, w))
  <1>1. "store" # "get"
    OBVIOUS
  <1>2. QED
    BY <1>1, RequestIs

LEMMA RequestAdded ==
    ASSUME NEW q \in Seq(RoomRequest), NEW x \in RoomRequest
    PROVE  /\ Append(q, x) \in Seq(RoomRequest)
           /\ Len(Append(q, x)) = Len(q) + 1 /\ Len(q) \in Nat
           /\ \A i \in 1 .. Len(q) : Append(q, x)[i] = q[i] /\ i \in 1 .. Len(Append(q, x))
           /\ Append(q, x)[Len(q) + 1] = x /\ Len(q) + 1 \in 1 .. Len(Append(q, x))
           /\ \A i \in 1 .. Len(Append(q, x)) : i \in 1 .. Len(q) \/ i = Len(q) + 1
  OBVIOUS

LEMMA RequestTaken ==
    ASSUME NEW q \in Seq(RoomRequest), q # <<>>
    PROVE  /\ Tail(q) \in Seq(RoomRequest) /\ Head(q) = q[1] /\ q[1] \in RoomRequest
           /\ Len(Tail(q)) + 1 = Len(q) /\ Len(Tail(q)) \in Nat /\ 1 \in 1 .. Len(q)
           /\ \A i \in 1 .. Len(Tail(q)) : Tail(q)[i] = q[i + 1] /\ i + 1 \in 1 .. Len(q) /\ i < i + 1
           /\ \A i \in 1 .. Len(q) : i = 1 \/ (i - 1 \in 1 .. Len(Tail(q)) /\ Tail(q)[i - 1] = q[i])
  OBVIOUS

LEMMA QueueIs ==
    ASSUME ChatRoomsInv, NEW r \in RoomProc
    PROVE  roomQueue[r] \in Seq(RoomRequest) /\ history[r] \in Seq(Nat) /\ sent \in Nat
  BY DEF ChatRoomsInv, RoomTypes

LEMMA SeenStays ==
    ASSUME NEW u \in User, NEW m \in Nat, Seen(u, m), sent \in Nat, sent' \in Nat, sent <= sent',
           shown[u] \subseteq shown'[u],
           \A v \in User : At(v, "broadcast") /\ busy[v].message = m =>
              \/ At(v, "broadcast")' /\ busy'[v].message = m
              \/ m \in shown'[u]
    PROVE  Seen(u, m)'
  BY RoomsAssumption DEF Seen

LEMMA RoomInitInv == RoomInit => ChatRoomsInv
  <1> SUFFICES ASSUME RoomInit PROVE ChatRoomsInv
    OBVIOUS
  <1> USE DEF RoomInit
  <1>1. IdleUser \in Busy /\ IdleUser.step = "idle" /\ IdleUser.visit = 0
    BY DEF IdleUser, Busy, RoomSteps
  <1>2. RoomTypes
    BY <1>1 DEF RoomTypes
  <1>3. \A u \in User : Placed(u)
    BY <1>1 DEF Placed
  <1>4. \A u \in User, r \in RoomProc : Asked(u, roomQueue[r])
    BY DEF Asked
  <1>5. QED
    BY <1>2, <1>3, <1>4 DEF ChatRoomsInv, Unused

(***************************************************************************)
(* A step of one session that moves no message: on its way into the room,  *)
(* or out of it.                                                           *)
(***************************************************************************)
LEMMA QuietInv ==
    ASSUME ChatRoomsInv, NEW u \in User, RoomTypes', Placed(u)',
           \A v \in User : v # u => busy'[v] = busy[v] /\ (v \in present' <=> v \in present),
           roomName' = roomName \/ (roomName = NoRoom /\ roomName' \in RoomProc),
           gaveUp \subseteq gaveUp', visits <= visits',
           busy[u].step # "broadcast", busy'[u].step \notin {"broadcast", "fetch"},
           \/ busy'[u].visit = 0
           \/ busy'[u].visit = busy[u].visit /\ busy[u].step # "fetch"
           \/ busy'[u].visit = visits + 1,
           u \in present' \ gaveUp' => busy'[u].step = "ask",
           UNCHANGED <<history, roomQueue, shown, sent>>
    PROVE  ChatRoomsInv'
  <1>1. visits \in Nat /\ visits' \in Nat /\ sent \in Nat
    BY DEF ChatRoomsInv, RoomTypes
  <1>2. \A v \in User : busy[v] \in Busy /\ busy'[v] \in Busy
    BY DEF ChatRoomsInv, RoomTypes
  <1>3. \A v \in User : busy[v].visit \in Nat /\ busy'[v].visit \in Nat
    BY <1>2 DEF Busy
  <1>4. ASSUME NEW v \in User PROVE Placed(v)'
    <2>1. CASE v # u
      <3>1. Placed(v) /\ busy'[v] = busy[v] /\ (v \in present' <=> v \in present)
        BY <2>1 DEF ChatRoomsInv
      <3>2. NoRoom \notin RoomProc
        BY DEF NoRoom, RoomProc
      <3>3. QED
        BY <1>1, <1>3, <3>1, <3>2 DEF Placed
    <2>2. QED
      BY <2>1
  <1>5. (roomName = NoRoom => sent = 0)'
    <2>1. NoRoom \notin RoomProc
      BY DEF NoRoom, RoomProc
    <2>2. QED
      BY <2>1 DEF ChatRoomsInv
  <1>6. (roomName # NoRoom => InOrder(roomName))'
    <2>1. CASE roomName' = roomName
      BY <2>1 DEF ChatRoomsInv, InOrder
    <2>2. CASE roomName = NoRoom /\ roomName' \in RoomProc
      <3>1. sent = 0 /\ history[roomName'] = <<>> /\ roomQueue[roomName'] = <<>>
        <4>1. NoRoom \notin RoomProc
          BY DEF NoRoom, RoomProc
        <4>2. QED
          BY <2>2, <4>1 DEF ChatRoomsInv, Unused
      <3>2. HistoryKept(<<>>, 0) /\ StoresQueued(<<>>, 0, 0)
        <4>1. HistoryKept(<<>>, 0)
          BY RoomsAssumption DEF HistoryKept
        <4>2. StoresQueued(<<>>, 0, 0)
          BY DEF StoresQueued
        <4>3. QED
          BY <4>1, <4>2
      <3>3. QED
        BY <3>1, <3>2 DEF InOrder
    <2>3. QED
      BY <2>1, <2>2
  <1>7. (\A r \in RoomProc : r # roomName => Unused(r))'
    <2>1. NoRoom \notin RoomProc
      BY DEF NoRoom, RoomProc
    <2>2. QED
      BY <2>1 DEF ChatRoomsInv, Unused
  <1>8. ASSUME NEW v \in User, NEW r \in RoomProc PROVE Asked(v, roomQueue[r])'
    <2>1. Asked(v, roomQueue[r])
      BY DEF ChatRoomsInv
    <2>2. CASE v # u
      <3>1. busy'[v] = busy[v]
        BY <2>2
      <3>2. QED
        BY <1>1, <2>1, <3>1 DEF Asked, At
    <2>3. CASE v = u
      BY <1>1, <1>3, <2>1, <2>3 DEF Asked, At
    <2>4. QED
      BY <2>2, <2>3
  <1>9. ASSUME NEW v \in User, NEW m \in Nat, Seen(v, m) PROVE Seen(v, m)'
    BY <1>1, <1>9, SeenStays DEF At
  <1>10. ASSUME NEW v \in present' \ gaveUp' PROVE Watches(v)'
    <2>1. v \in User
      BY DEF RoomTypes
    <2>2. CASE v = u
      BY <2>2 DEF Watches, At
    <2>3. CASE v # u
      <3>1. v \in present \ gaveUp /\ busy'[v] = busy[v]
        BY <2>1, <2>3
      <3>2. Watches(v) /\ roomName # NoRoom
        BY <2>1, <3>1 DEF ChatRoomsInv, Placed
      <3>3. roomName' = roomName
        BY <3>2
      <3>4. busy[v].step \in {"idle", "broadcast"} => \A m \in 1 .. sent : Seen(v, m)'
        BY <1>1, <1>9, <2>1, <3>2 DEF Watches
      <3>5. At(v, "fetch") => Followed(v, roomQueue[roomName])'
        <4> HAVE At(v, "fetch")
        <4>1. Followed(v, roomQueue[roomName])
          BY <3>2 DEF Watches
        <4>2. QED
          BY <1>9, <2>1, <3>1, <3>3, <4>1 DEF Followed
      <3>6. QED
        BY <3>1, <3>4, <3>5 DEF Watches, At
    <2>4. QED
      BY <2>2, <2>3
  <1>11. QED
    BY <1>4, <1>5, <1>6, <1>7, <1>8, <1>10 DEF ChatRoomsInv

LEMMA BusyIs ==
    ASSUME ChatRoomsInv, NEW u \in User
    PROVE  /\ busy[u] \in Busy /\ busy[u].visit \in Nat /\ busy[u].message \in Nat
           /\ busy[u].room \in RoomProc \cup {NoRoom} /\ NoRoom \notin RoomProc
           /\ visits \in Nat /\ sent \in Nat /\ started \in Nat
           /\ IdleUser \in Busy /\ IdleUser.step = "idle" /\ IdleUser.visit = 0
           /\ Placed(u)
  <1>1. busy[u] \in Busy
    BY DEF ChatRoomsInv, RoomTypes
  <1>2. busy[u].visit \in Nat /\ busy[u].message \in Nat /\ busy[u].room \in RoomProc \cup {NoRoom}
    BY <1>1 DEF Busy
  <1>3. IdleUser \in Busy /\ IdleUser.step = "idle" /\ IdleUser.visit = 0
    BY DEF IdleUser, Busy, RoomSteps
  <1>4. QED
    BY <1>1, <1>2, <1>3 DEF ChatRoomsInv, RoomTypes, NoRoom, RoomProc

\* What a session is busy with after a step of its own.
LEMMA BusyBecomes ==
    ASSUME ChatRoomsInv, NEW u \in User, NEW what \in Busy, busy' = [busy EXCEPT ![u] = what]
    PROVE  /\ busy' \in [User -> Busy]
           /\ busy'[u] = what
           /\ \A v \in User : v # u => busy'[v] = busy[v]
  BY DEF ChatRoomsInv, RoomTypes

LEMMA EnteringInv ==
    ASSUME ChatRoomsInv, NEW u \in User,
           JoinRoom(u) \/ StartRoom(u) \/ RegisterRoom(u) \/ TerminateRoom(u) \/ JoinChannel(u)
    PROVE  ChatRoomsInv'
  <1>1. CASE JoinRoom(u)
    <2> DEFINE what == [busy[u] EXCEPT !.step = IF roomName = NoRoom THEN "create" ELSE "join",
                                       !.room = roomName, !.visit = visits']
    <2>1. /\ busy[u].step = "idle" /\ u \notin present
          /\ visits' = visits + 1 /\ busy' = [busy EXCEPT ![u] = what]
          /\ UNCHANGED <<roomName, history, roomQueue, present, shown, gaveUp, started, sent>>
      BY <1>1 DEF JoinRoom, At
    <2>2. /\ what \in Busy /\ what.visit = visits + 1 /\ what.room = roomName
          /\ what.step = IF roomName = NoRoom THEN "create" ELSE "join"
      <3>1. roomName \in RoomProc \cup {NoRoom}
        BY DEF ChatRoomsInv, RoomTypes
      <3>2. busy[u] \in Busy /\ visits' \in Nat /\ visits' = visits + 1
        BY <2>1, BusyIs
      <3>3. (IF roomName = NoRoom THEN "create" ELSE "join") \in RoomSteps
        BY DEF RoomSteps
      <3>4. QED
        BY <3>1, <3>2, <3>3 DEF Busy
    <2> HIDE DEF what
    <2>3. /\ busy' \in [User -> Busy] /\ busy'[u] = what
          /\ \A v \in User : v # u => busy'[v] = busy[v]
      BY <2>1, <2>2, BusyBecomes
    <2>4. RoomTypes'
      BY <2>1, <2>3 DEF ChatRoomsInv, RoomTypes
    <2>5. Placed(u)'
      BY <2>1, <2>2, <2>3, BusyIs DEF Placed
    <2>6. visits <= visits'
      BY <2>1, BusyIs
    <2>7. QED
      BY <2>1, <2>2, <2>3, <2>4, <2>5, <2>6, QuietInv
  <1>2. CASE StartRoom(u)
    <2> DEFINE what == [busy[u] EXCEPT !.step = "register", !.room = started']
    <2>1. /\ busy[u].step = "create" /\ started < MaxRooms /\ started' = started + 1
          /\ busy' = [busy EXCEPT ![u].step = "register", ![u].room = started']
          /\ UNCHANGED <<roomName, history, roomQueue, present, shown, gaveUp, sent, visits>>
      BY <1>2 DEF StartRoom, At
    <2>2. /\ what \in Busy /\ what.visit = busy[u].visit /\ what.step = "register"
          /\ what.room \in RoomProc /\ started' \in Nat
      <3>1. started' \in RoomProc
        BY <2>1, BusyIs, RoomsAssumption DEF RoomProc
      <3>2. busy[u] \in Busy /\ started' \in Nat
        BY <2>1, BusyIs
      <3>3. QED
        BY <3>1, <3>2 DEF Busy, RoomSteps
    <2>3. busy' = [busy EXCEPT ![u] = what]
      BY <2>1, BusyIs DEF ChatRoomsInv, RoomTypes, Busy
    <2> HIDE DEF what
    <2>4. /\ busy' \in [User -> Busy] /\ busy'[u] = what
          /\ \A v \in User : v # u => busy'[v] = busy[v]
      BY <2>2, <2>3, BusyBecomes
    <2>5. RoomTypes'
      BY <2>1, <2>2, <2>4 DEF ChatRoomsInv, RoomTypes
    <2>6. u \notin present
      BY <2>1, BusyIs DEF Placed
    <2>7. Placed(u)'
      BY <2>1, <2>2, <2>4, <2>6, BusyIs DEF Placed
    <2>8. QED
      BY <2>1, <2>2, <2>4, <2>5, <2>6, <2>7, BusyIs, QuietInv
  <1>3. CASE RegisterRoom(u)
    <2> DEFINE what == [busy[u] EXCEPT !.step = IF roomName = NoRoom THEN "join" ELSE "terminate"]
    <2>1. /\ busy[u].step = "register"
          /\ busy' = [busy EXCEPT ![u] = what]
          /\ roomName' = IF roomName = NoRoom THEN busy[u].room ELSE roomName
          /\ UNCHANGED <<history, roomQueue, present, shown, gaveUp, started, sent, visits>>
      BY <1>3 DEF RegisterRoom, At, StepsTo
    <2>2. /\ what \in Busy /\ what.visit = busy[u].visit /\ what.room = busy[u].room
          /\ what.step = IF roomName = NoRoom THEN "join" ELSE "terminate"
      BY BusyIs DEF Busy, RoomSteps
    <2> HIDE DEF what
    <2>3. /\ busy' \in [User -> Busy] /\ busy'[u] = what
          /\ \A v \in User : v # u => busy'[v] = busy[v]
      BY <2>1, <2>2, BusyBecomes
    <2>4. busy[u].room \in RoomProc /\ u \notin present
      BY <2>1, BusyIs DEF Placed
    <2>5. RoomTypes'
      BY <2>1, <2>3, <2>4 DEF ChatRoomsInv, RoomTypes
    <2>6. Placed(u)'
      BY <2>1, <2>2, <2>3, <2>4, BusyIs DEF Placed
    <2>7. QED
      BY <2>1, <2>2, <2>3, <2>4, <2>5, <2>6, BusyIs, QuietInv
  <1>4. CASE TerminateRoom(u)
    <2> DEFINE what == [busy[u] EXCEPT !.step = "join", !.room = roomName]
    <2>1. /\ busy[u].step = "terminate"
          /\ busy' = [busy EXCEPT ![u].step = "join", ![u].room = roomName]
          /\ UNCHANGED <<roomName, history, roomQueue, present, shown, gaveUp, started, sent, visits>>
      BY <1>4 DEF TerminateRoom, At
    <2>2. /\ what \in Busy /\ what.visit = busy[u].visit /\ what.room = roomName
          /\ what.step = "join"
      <3>1. roomName \in RoomProc \cup {NoRoom}
        BY DEF ChatRoomsInv, RoomTypes
      <3>2. QED
        BY <3>1, BusyIs DEF Busy, RoomSteps
    <2>3. busy' = [busy EXCEPT ![u] = what]
      BY <2>1, BusyIs DEF ChatRoomsInv, RoomTypes, Busy
    <2> HIDE DEF what
    <2>4. /\ busy' \in [User -> Busy] /\ busy'[u] = what
          /\ \A v \in User : v # u => busy'[v] = busy[v]
      BY <2>2, <2>3, BusyBecomes
    <2>5. RoomTypes'
      BY <2>1, <2>4 DEF ChatRoomsInv, RoomTypes
    <2>6. roomName # NoRoom /\ u \notin present
      BY <2>1, BusyIs DEF Placed
    <2>7. Placed(u)'
      BY <2>1, <2>2, <2>4, <2>6, BusyIs DEF Placed
    <2>8. QED
      BY <2>1, <2>2, <2>4, <2>5, <2>6, <2>7, BusyIs, QuietInv
  <1>5. CASE JoinChannel(u)
    <2> DEFINE what == [busy[u] EXCEPT !.step = "ask"]
    <2>1. /\ busy[u].step = "join"
          /\ busy' = [busy EXCEPT ![u] = what]
          /\ present' = present \cup {u}
          /\ UNCHANGED <<roomName, history, roomQueue, shown, gaveUp, started, sent, visits>>
      BY <1>5 DEF JoinChannel, At, StepsTo
    <2>2. /\ what \in Busy /\ what.visit = busy[u].visit /\ what.room = busy[u].room
          /\ what.step = "ask"
      BY BusyIs DEF Busy, RoomSteps
    <2> HIDE DEF what
    <2>3. /\ busy' \in [User -> Busy] /\ busy'[u] = what
          /\ \A v \in User : v # u => busy'[v] = busy[v]
      BY <2>1, <2>2, BusyBecomes
    <2>4. roomName # NoRoom /\ busy[u].room = roomName
      BY <2>1, BusyIs DEF Placed
    <2>5. RoomTypes'
      BY <2>1, <2>3 DEF ChatRoomsInv, RoomTypes
    <2>6. Placed(u)'
      BY <2>1, <2>2, <2>3, <2>4, BusyIs DEF Placed
    <2>7. QED
      BY <2>1, <2>2, <2>3, <2>5, <2>6, BusyIs, QuietInv
  <1>6. QED
    BY <1>1, <1>2, <1>3, <1>4, <1>5

LEMMA LeavingInv ==
    ASSUME ChatRoomsInv, NEW u \in User, GiveUp(u) \/ LeaveRoom(u)
    PROVE  ChatRoomsInv'
  <1>1. CASE GiveUp(u)
    <2>1. /\ busy[u].step = "fetch" /\ gaveUp' = gaveUp \cup {u}
          /\ busy' = [busy EXCEPT ![u] = IdleUser]
          /\ UNCHANGED <<roomName, history, roomQueue, present, shown, started, sent, visits>>
      BY <1>1 DEF GiveUp, At, Ends
    <2>2. /\ busy' \in [User -> Busy] /\ busy'[u] = IdleUser
          /\ \A v \in User : v # u => busy'[v] = busy[v]
      BY <2>1, BusyIs, BusyBecomes
    <2>3. RoomTypes'
      BY <2>1, <2>2 DEF ChatRoomsInv, RoomTypes
    <2>4. Placed(u)'
      BY <2>1, <2>2, BusyIs DEF Placed
    <2>5. QED
      BY <2>1, <2>2, <2>3, <2>4, BusyIs, QuietInv
  <1>2. CASE LeaveRoom(u)
    <2>1. /\ busy[u].step = "idle" /\ present' = present \ {u}
          /\ UNCHANGED <<roomName, history, roomQueue, busy, shown, gaveUp, started, sent, visits>>
      BY <1>2 DEF LeaveRoom, At
    <2>2. RoomTypes'
      BY <2>1 DEF ChatRoomsInv, RoomTypes
    <2>3. Placed(u)'
      BY <2>1, BusyIs DEF Placed
    <2>4. QED
      BY <2>1, <2>2, <2>3, BusyIs, QuietInv
  <1>3. QED
    BY <1>1, <1>2

(***************************************************************************)
(* A request is queued: the one for the history follows all messages sent, *)
(* and a message follows the requests made before it.                      *)
(***************************************************************************)
LEMMA GetHistoryInv ==
    ASSUME ChatRoomsInv, NEW u \in User, GetHistory(u)
    PROVE  ChatRoomsInv'
  <1> DEFINE r == roomName
             what == [busy[u] EXCEPT !.step = "fetch"]
             x == <<"get", u, busy[u].visit>>
  <1>1. /\ busy[u].step = "ask" /\ r # NoRoom /\ r \in RoomProc /\ busy[u].room = r
        /\ busy' = [busy EXCEPT ![u] = what]
        /\ roomQueue' = [roomQueue EXCEPT ![r] = Append(@, x)]
        /\ UNCHANGED <<roomName, history, present, shown, gaveUp, started, sent, visits>>
    BY BusyIs DEF GetHistory, At, StepsTo, Placed, ChatRoomsInv, RoomTypes
  <1>2. /\ what \in Busy /\ what.visit = busy[u].visit /\ what.room = busy[u].room
        /\ what.step = "fetch"
    BY BusyIs DEF Busy, RoomSteps
  <1>3. x \in RoomRequest
    BY BusyIs, RequestIs, RequestSays
  <1> HIDE DEF what
  <1>4. /\ busy' \in [User -> Busy] /\ busy'[u] = what
        /\ \A v \in User : v # u => busy'[v] = busy[v]
    BY <1>1, <1>2, BusyBecomes
  <1> DEFINE q == roomQueue[r]
             more == Append(q, x)
  <1>5. /\ q \in Seq(RoomRequest) /\ more \in Seq(RoomRequest)
        /\ Len(more) = Len(q) + 1 /\ Len(q) \in Nat
        /\ \A i \in 1 .. Len(q) : more[i] = q[i] /\ i \in 1 .. Len(more)
        /\ more[Len(q) + 1] = x
        /\ \A i \in 1 .. Len(more) : i \in 1 .. Len(q) \/ i = Len(q) + 1
    BY <1>1, <1>3, QueueIs, RequestAdded
  <1>6. /\ roomQueue' \in [RoomProc -> Seq(RoomRequest)] /\ roomQueue'[r] = more
        /\ \A s \in RoomProc : s # r => roomQueue'[s] = roomQueue[s]
    BY <1>1, <1>5 DEF ChatRoomsInv, RoomTypes
  <1>7. RoomTypes'
    BY <1>1, <1>4, <1>6 DEF ChatRoomsInv, RoomTypes
  <1>8. ASSUME NEW v \in User PROVE Placed(v)'
    <2>1. CASE v = u
      BY <1>1, <1>2, <1>4, <2>1, BusyIs DEF Placed
    <2>2. CASE v # u
      BY <1>1, <1>4, <2>2 DEF ChatRoomsInv, Placed
    <2>3. QED
      BY <2>1, <2>2
  <1>9. Gets(x, u, busy[u].visit) /\ \A m \in Nat : ~ Stores(x, m)
    <2>1. Gets(x, u, busy[u].visit)
      BY DEF Gets
    <2>2. QED
      BY <2>1, RequestSays
  <1> HIDE DEF more, q, x
  <1>10. InOrder(r)'
    <2>1. PICK k \in Nat : HistoryKept(history[r], k) /\ StoresQueued(q, k, sent)
      BY <1>1 DEF ChatRoomsInv, InOrder, q
    <2>2. StoresQueued(more, k, sent)
      <3>1. \A i \in 1 .. Len(more), m \in Nat :
                Stores(more[i], m) => i \in 1 .. Len(q) /\ Stores(q[i], m)
        BY <1>5, <1>9
      <3>2. \A i, j \in 1 .. Len(more), l, m \in Nat :
                i < j /\ Stores(more[i], l) /\ Stores(more[j], m) => l < m
        BY <2>1, <3>1 DEF StoresQueued
      <3>3. \A m \in Nat : k < m /\ m <= sent => \E i \in 1 .. Len(more) : Stores(more[i], m)
        <4> TAKE m \in Nat
        <4> HAVE k < m /\ m <= sent
        <4>1. PICK i \in 1 .. Len(q) : Stores(q[i], m)
          BY <2>1 DEF StoresQueued
        <4>2. Stores(more[i], m) /\ i \in 1 .. Len(more)
          BY <1>5, <4>1
        <4>3. QED
          BY <4>2
      <3>4. QED
        BY <2>1, <3>1, <3>2, <3>3 DEF StoresQueued
    <2>3. QED
      BY <1>1, <1>6, <2>1, <2>2 DEF InOrder
  <1>11. \A s \in RoomProc : s # r => Unused(s)'
    BY <1>1, <1>6 DEF ChatRoomsInv, Unused
  <1>12. ASSUME NEW v \in User, NEW s \in RoomProc PROVE Asked(v, roomQueue[s])'
    <2>1. Asked(v, roomQueue[s])
      BY DEF ChatRoomsInv
    <2>2. ASSUME NEW w \in Nat, busy[v].visit = w => At(v, "fetch")
          PROVE  busy'[v].visit = w => At(v, "fetch")'
      BY <1>1, <1>2, <1>4, <2>2 DEF At
    <2>3. CASE s # r
      BY <1>1, <1>6, <2>1, <2>2, <2>3 DEF Asked
    <2>4. CASE s = r
      <3>1. ASSUME NEW i \in 1 .. Len(more), NEW w \in Nat, Gets(more[i], v, w)
            PROVE  0 < w /\ w <= visits /\ (busy'[v].visit = w => At(v, "fetch")')
        <4>1. CASE i \in 1 .. Len(q)
          <5>1. Gets(q[i], v, w)
            BY <1>5, <3>1, <4>1
          <5>2. 0 < w /\ w <= visits /\ (busy[v].visit = w => At(v, "fetch"))
            BY <2>1, <2>4, <4>1, <5>1 DEF Asked, q
          <5>3. QED
            BY <2>2, <5>2
        <4>2. CASE i = Len(q) + 1
          <5>1. v = u /\ w = busy[u].visit
            <6>1. Gets(x, v, w)
              BY <1>5, <3>1, <4>2
            <6>2. busy[u].visit \in Nat
              BY BusyIs
            <6>3. QED
              BY <1>9, <6>1, <6>2, RequestSays
          <5>2. 0 < w
            BY <1>1, <5>1, BusyIs DEF Placed
          <5>3. QED
            BY <1>1, <1>2, <1>4, <5>1, <5>2, BusyIs DEF At, Placed
        <4>3. QED
          BY <1>5, <4>1, <4>2
      <3>2. QED
        BY <1>1, <1>6, <2>4, <3>1 DEF Asked
    <2>5. QED
      BY <2>3, <2>4
  <1>13. ASSUME NEW v \in User, NEW m \in Nat, Seen(v, m) PROVE Seen(v, m)'
    <2>1. \A w \in User : At(w, "broadcast") /\ busy[w].message = m =>
             At(w, "broadcast")' /\ busy'[w].message = m
      BY <1>1, <1>4 DEF At
    <2>2. QED
      BY <1>1, <1>13, <2>1, BusyIs, SeenStays
  <1>14. ASSUME NEW v \in present' \ gaveUp' PROVE Watches(v)'
    <2>1. v \in User /\ v \in present \ gaveUp
      BY <1>1 DEF ChatRoomsInv, RoomTypes
    <2>2. Watches(v)
      BY <2>1 DEF ChatRoomsInv
    <2>3. busy'[v].step \in {"idle", "broadcast"} => \A m \in 1 .. sent' : Seen(v, m)'
      <3>1. busy'[v].step \in {"idle", "broadcast"} => busy[v].step \in {"idle", "broadcast"}
        BY <1>1, <1>2, <1>4
      <3>2. \A m \in 1 .. sent' : m \in 1 .. sent /\ m \in Nat
        BY <1>1, BusyIs
      <3>3. QED
        BY <1>13, <2>1, <2>2, <3>1, <3>2 DEF Watches
    <2>4. roomQueue'[roomName'] = more
      BY <1>1, <1>6
    <2>5. ASSUME At(v, "fetch")' PROVE Followed(v, roomQueue[roomName])'
      <3> SUFFICES ASSUME NEW i \in 1 .. Len(more), NEW j \in 1 .. Len(more), NEW m \in Nat,
                          i < j, Gets(more[i], v, busy'[v].visit), Stores(more[j], m)
                   PROVE  Seen(v, m)'
        BY <2>4 DEF Followed
      <3>1. j \in 1 .. Len(q) /\ Stores(q[j], m)
        BY <1>5, <1>9
      <3>2. i \in 1 .. Len(q) /\ Gets(q[i], v, busy'[v].visit)
        BY <1>5, <3>1
      <3>3. CASE v = u
        <4>1. Gets(q[i], u, busy[u].visit)
          BY <1>2, <1>4, <3>2, <3>3
        <4>2. Asked(u, q)
          BY <1>1 DEF ChatRoomsInv, q
        <4>3. At(u, "fetch")
          BY <3>2, <4>1, <4>2, BusyIs DEF Asked
        <4>4. QED
          BY <1>1, <4>3 DEF At
      <3>4. CASE v # u
        <4>1. busy'[v] = busy[v] /\ At(v, "fetch")
          BY <1>4, <2>1, <2>5, <3>4 DEF At
        <4>2. Followed(v, q)
          BY <2>2, <4>1 DEF Watches, q
        <4>3. Seen(v, m)
          BY <3>1, <3>2, <4>1, <4>2 DEF Followed
        <4>4. QED
          BY <1>13, <2>1, <4>3
      <3>5. QED
        BY <3>3, <3>4
    <2>6. QED
      BY <2>3, <2>5 DEF Watches, At
  <1>15. QED
    BY <1>1, <1>7, <1>8, <1>10, <1>11, <1>12, <1>14 DEF ChatRoomsInv

LEMMA StoreMessageInv ==
    ASSUME ChatRoomsInv, NEW u \in User, StoreMessage(u)
    PROVE  ChatRoomsInv'
  <1>0. PICK n : n = sent + 1
    OBVIOUS
  <1> DEFINE r == roomName
             what == [busy[u] EXCEPT !.step = "broadcast", !.message = n]
             x == <<"store", n>>
  <1>1. /\ busy[u].step = "idle" /\ u \in present /\ r # NoRoom /\ r \in RoomProc
        /\ sent' = n /\ sent \in Nat /\ n \in Nat /\ sent < n
        /\ UNCHANGED <<roomName, history, present, shown, gaveUp, started, visits>>
    BY <1>0, BusyIs DEF StoreMessage, At, Placed, ChatRoomsInv, RoomTypes
  <1>2. /\ what \in Busy /\ what.visit = busy[u].visit /\ what.room = busy[u].room
        /\ what.step = "broadcast" /\ what.message = n
    <2>1. busy[u] \in Busy
      BY BusyIs
    <2>2. QED
      BY <1>1, <2>1 DEF Busy, RoomSteps
  <1>3. x \in RoomRequest
    BY <1>1, RequestIs
  <1>4. /\ busy' = [busy EXCEPT ![u] = what]
        /\ roomQueue' = [roomQueue EXCEPT ![r] = Append(@, x)]
    <2>1. /\ busy' = [busy EXCEPT ![u].step = "broadcast", ![u].message = n]
          /\ roomQueue' = [roomQueue EXCEPT ![r] = Append(@, x)]
      BY <1>1 DEF StoreMessage
    <2>2. QED
      BY <2>1, BusyIs DEF ChatRoomsInv, RoomTypes, Busy
  <1> HIDE DEF what
  <1>5. /\ busy' \in [User -> Busy] /\ busy'[u] = what
        /\ \A v \in User : v # u => busy'[v] = busy[v]
    BY <1>2, <1>4, BusyBecomes
  <1> DEFINE q == roomQueue[r]
             more == Append(q, x)
  <1>6. /\ q \in Seq(RoomRequest) /\ more \in Seq(RoomRequest)
        /\ Len(more) = Len(q) + 1 /\ Len(q) \in Nat
        /\ \A i \in 1 .. Len(q) : more[i] = q[i] /\ i \in 1 .. Len(more)
        /\ more[Len(q) + 1] = x /\ Len(q) + 1 \in 1 .. Len(more)
        /\ \A i \in 1 .. Len(more) : i \in 1 .. Len(q) \/ i = Len(q) + 1
    BY <1>1, <1>3, QueueIs, RequestAdded
  <1>7. /\ roomQueue' \in [RoomProc -> Seq(RoomRequest)] /\ roomQueue'[r] = more
        /\ \A s \in RoomProc : s # r => roomQueue'[s] = roomQueue[s]
    BY <1>1, <1>4, <1>6 DEF ChatRoomsInv, RoomTypes
  <1>8. RoomTypes'
    BY <1>1, <1>5, <1>7 DEF ChatRoomsInv, RoomTypes
  <1>9. ASSUME NEW v \in User PROVE Placed(v)'
    <2>1. CASE v = u
      BY <1>1, <1>2, <1>5, <2>1, BusyIs DEF Placed
    <2>2. CASE v # u
      BY <1>1, <1>5, <2>2 DEF ChatRoomsInv, Placed
    <2>3. QED
      BY <2>1, <2>2
  <1>10. /\ \A m \in Nat : Stores(x, m) <=> m = n
         /\ \A v, w : ~ Gets(x, v, w)
    <2>1. Stores(x, n)
      BY DEF Stores
    <2>2. QED
      BY <1>1, <2>1, RequestSays
  <1> HIDE DEF more, q, x
  <1>11. InOrder(r)'
    <2>1. PICK k \in Nat : HistoryKept(history[r], k) /\ StoresQueued(q, k, sent)
      BY <1>1 DEF ChatRoomsInv, InOrder, q
    <2>2. StoresQueued(more, k, n)
      <3>1. \A i \in 1 .. Len(more), m \in Nat : Stores(more[i], m) =>
                \/ i \in 1 .. Len(q) /\ Stores(q[i], m) /\ k < m /\ m <= sent
                \/ i = Len(q) + 1 /\ m = n
        BY <1>6, <1>10, <2>1 DEF StoresQueued
      <3>2. k <= sent /\ k < n
        BY <1>1, <2>1 DEF StoresQueued
      <3>3. \A i \in 1 .. Len(more), m \in Nat : Stores(more[i], m) => k < m /\ m <= n
        BY <1>1, <3>1, <3>2
      <3>4. ASSUME NEW i \in 1 .. Len(more), NEW j \in 1 .. Len(more), NEW l \in Nat, NEW m \in Nat,
                   i < j, Stores(more[i], l), Stores(more[j], m)
            PROVE  l < m
        <4>1. i \in 1 .. Len(q) /\ Stores(q[i], l) /\ l <= sent
          BY <1>6, <3>1, <3>4
        <4>2. CASE j \in 1 .. Len(q) /\ Stores(q[j], m)
          BY <2>1, <3>4, <4>1, <4>2 DEF StoresQueued
        <4>3. CASE m = n
          BY <1>1, <4>1, <4>3
        <4>4. QED
          BY <3>1, <3>4, <4>2, <4>3
      <3>5. ASSUME NEW m \in Nat, k < m, m <= n
            PROVE  \E i \in 1 .. Len(more) : Stores(more[i], m)
        <4>1. CASE m = n
          <5>1. Stores(more[Len(q) + 1], m)
            BY <1>1, <1>6, <1>10, <4>1
          <5>2. QED
            BY <1>6, <5>1
        <4>2. CASE m # n
          <5>1. m <= sent
            BY <1>0, <1>1, <3>5, <4>2
          <5>2. PICK i \in 1 .. Len(q) : Stores(q[i], m)
            BY <2>1, <3>5, <5>1 DEF StoresQueued
          <5>3. Stores(more[i], m) /\ i \in 1 .. Len(more)
            BY <1>6, <5>2
          <5>4. QED
            BY <5>3
        <4>3. QED
          BY <4>1, <4>2
      <3>6. /\ k <= n
            /\ \A i, j \in 1 .. Len(more), l, m \in Nat :
                  i < j /\ Stores(more[i], l) /\ Stores(more[j], m) => l < m
            /\ \A m \in Nat : k < m /\ m <= n => \E i \in 1 .. Len(more) : Stores(more[i], m)
        BY <1>1, <3>2, <3>4, <3>5
      <3>7. QED
        BY <3>3, <3>6 DEF StoresQueued
    <2>3. QED
      BY <1>1, <1>7, <2>1, <2>2 DEF InOrder
  <1>12. \A s \in RoomProc : s # r => Unused(s)'
    BY <1>1, <1>7 DEF ChatRoomsInv, Unused
  <1>13. ASSUME NEW v \in User PROVE busy'[v].visit = busy[v].visit /\ (At(v, "fetch")' <=> At(v, "fetch"))
    BY <1>1, <1>2, <1>5 DEF At
  <1>14. ASSUME NEW v \in User, NEW s \in RoomProc PROVE Asked(v, roomQueue[s])'
    <2>1. Asked(v, roomQueue[s])
      BY DEF ChatRoomsInv
    <2>2. CASE s # r
      BY <1>1, <1>7, <1>13, <2>1, <2>2 DEF Asked
    <2>3. CASE s = r
      <3>1. \A i \in 1 .. Len(more), w \in Nat :
                Gets(more[i], v, w) => i \in 1 .. Len(q) /\ Gets(q[i], v, w)
        BY <1>6, <1>10
      <3>2. Asked(v, q)
        BY <2>1, <2>3 DEF q
      <3>3. roomQueue'[s] = more
        BY <1>7, <2>3
      <3>4. QED
        BY <1>1, <1>13, <3>1, <3>2, <3>3 DEF Asked
    <2>4. QED
      BY <2>2, <2>3
  <1>15. ASSUME NEW v \in User, NEW m \in Nat, Seen(v, m) PROVE Seen(v, m)'
    <2>1. \A w \in User : At(w, "broadcast") /\ busy[w].message = m =>
             At(w, "broadcast")' /\ busy'[w].message = m
      BY <1>1, <1>5 DEF At
    <2>2. QED
      BY <1>1, <1>15, <2>1, SeenStays
  <1>16. ASSUME NEW v \in User PROVE Seen(v, n)'
    BY <1>2, <1>5 DEF Seen, At
  <1>17. ASSUME NEW v \in present' \ gaveUp' PROVE Watches(v)'
    <2>1. v \in User /\ v \in present \ gaveUp
      BY <1>1 DEF ChatRoomsInv, RoomTypes
    <2>2. Watches(v)
      BY <2>1 DEF ChatRoomsInv
    <2>3. busy'[v].step \in {"idle", "broadcast"} => \A m \in 1 .. sent' : Seen(v, m)'
      <3>1. busy'[v].step \in {"idle", "broadcast"} => busy[v].step \in {"idle", "broadcast"}
        BY <1>1, <1>2, <1>5, <2>1
      <3>2. \A m \in 1 .. sent' : m \in Nat /\ (m \in 1 .. sent \/ m = n)
        BY <1>0, <1>1
      <3>3. QED
        BY <1>15, <1>16, <2>1, <2>2, <3>1, <3>2 DEF Watches
    <2>4. roomQueue'[roomName'] = more
      BY <1>1, <1>7
    <2>5. ASSUME At(v, "fetch")' PROVE Followed(v, roomQueue[roomName])'
      <3> SUFFICES ASSUME NEW i \in 1 .. Len(more), NEW j \in 1 .. Len(more), NEW m \in Nat,
                          i < j, Gets(more[i], v, busy'[v].visit), Stores(more[j], m)
                   PROVE  Seen(v, m)'
        BY <2>4 DEF Followed
      <3>1. busy'[v].visit = busy[v].visit /\ busy[v].visit \in Nat /\ At(v, "fetch")
        BY <1>13, <2>1, <2>5, BusyIs
      <3>2. i \in 1 .. Len(q) /\ Gets(q[i], v, busy[v].visit)
        BY <1>6, <1>10, <2>1, <3>1
      <3>3. CASE m = n
        BY <1>16, <2>1, <3>3
      <3>4. CASE m # n
        <4>1. j \in 1 .. Len(q) /\ Stores(q[j], m)
          BY <1>6, <1>10, <3>4
        <4>2. Followed(v, q)
          BY <2>2, <3>1 DEF Watches, q
        <4>3. Seen(v, m)
          BY <3>2, <4>1, <4>2 DEF Followed
        <4>4. QED
          BY <1>15, <2>1, <4>3
      <3>5. QED
        BY <3>3, <3>4
    <2>6. QED
      BY <2>3, <2>5 DEF Watches, At
  <1>18. QED
    BY <1>1, <1>8, <1>9, <1>11, <1>12, <1>14, <1>17 DEF ChatRoomsInv

\* The broadcast: every session in the room is shown the message.
LEMMA BroadcastMessageInv ==
    ASSUME ChatRoomsInv, NEW u \in User, BroadcastMessage(u)
    PROVE  ChatRoomsInv'
  <1>1. /\ busy[u].step = "broadcast"
        /\ shown' = [v \in User |-> IF v \in present THEN shown[v] \cup {busy[u].message} ELSE shown[v]]
        /\ busy' = [busy EXCEPT ![u] = IdleUser]
        /\ UNCHANGED <<roomName, history, roomQueue, present, gaveUp, started, sent, visits>>
    BY DEF BroadcastMessage, At, Ends
  <1>2. /\ busy' \in [User -> Busy] /\ busy'[u] = IdleUser
        /\ \A v \in User : v # u => busy'[v] = busy[v]
    BY <1>1, BusyIs, BusyBecomes
  <1>3. shown' \in [User -> SUBSET Nat]
    BY <1>1, BusyIs DEF ChatRoomsInv, RoomTypes
  <1>4. RoomTypes'
    BY <1>1, <1>2, <1>3 DEF ChatRoomsInv, RoomTypes
  <1>5. ASSUME NEW v \in User
        PROVE  busy'[v].visit = busy[v].visit /\ (At(v, "fetch")' <=> At(v, "fetch"))
    <2>1. CASE v = u
      BY <1>1, <1>2, <2>1, BusyIs DEF At, Placed
    <2>2. QED
      BY <1>2, <2>1 DEF At
  <1>6. ASSUME NEW v \in User PROVE Placed(v)'
    <2>1. CASE v = u
      BY <1>1, <1>2, <2>1, BusyIs DEF Placed
    <2>2. CASE v # u
      BY <1>1, <1>2, <2>2 DEF ChatRoomsInv, Placed
    <2>3. QED
      BY <2>1, <2>2
  <1>7. /\ (roomName = NoRoom => sent = 0)'
        /\ (roomName # NoRoom => InOrder(roomName))'
        /\ (\A r \in RoomProc : r # roomName => Unused(r))'
    BY <1>1 DEF ChatRoomsInv, InOrder, Unused
  <1>8. ASSUME NEW v \in User, NEW r \in RoomProc PROVE Asked(v, roomQueue[r])'
    <2>1. Asked(v, roomQueue[r])
      BY DEF ChatRoomsInv
    <2>2. QED
      BY <1>1, <1>5, <2>1 DEF Asked
  <1>9. ASSUME NEW v \in present, NEW m \in Nat, Seen(v, m) PROVE Seen(v, m)'
    <2>1. v \in User
      BY DEF ChatRoomsInv, RoomTypes
    <2>2. shown[v] \subseteq shown'[v] /\ busy[u].message \in shown'[v]
      BY <1>1, <2>1
    <2>3. \A w \in User : At(w, "broadcast") /\ busy[w].message = m =>
             \/ At(w, "broadcast")' /\ busy'[w].message = m
             \/ m \in shown'[v]
      BY <1>2, <2>2 DEF At
    <2>4. QED
      BY <1>1, <1>9, <2>1, <2>2, <2>3, BusyIs, SeenStays
  <1>10. ASSUME NEW v \in present' \ gaveUp' PROVE Watches(v)'
    <2>1. v \in User /\ v \in present \ gaveUp /\ v \in present
      BY <1>1 DEF ChatRoomsInv, RoomTypes
    <2>2. Watches(v)
      BY <2>1 DEF ChatRoomsInv
    <2>3. busy'[v].step \in {"idle", "broadcast"} => \A m \in 1 .. sent' : Seen(v, m)'
      <3>1. busy'[v].step \in {"idle", "broadcast"} => busy[v].step \in {"idle", "broadcast"}
        BY <1>1, <1>2, <2>1
      <3>2. \A m \in 1 .. sent' : m \in 1 .. sent /\ m \in Nat
        BY <1>1, BusyIs
      <3>3. QED
        BY <1>9, <2>1, <2>2, <3>1, <3>2 DEF Watches
    <2>4. ASSUME At(v, "fetch")' PROVE Followed(v, roomQueue[roomName])'
      <3>1. At(v, "fetch") /\ busy'[v].visit = busy[v].visit
        BY <1>5, <2>1, <2>4
      <3>2. Followed(v, roomQueue[roomName])
        BY <2>2, <3>1 DEF Watches
      <3>3. QED
        BY <1>1, <1>9, <2>1, <3>1, <3>2 DEF Followed
    <2>5. QED
      BY <2>3, <2>4 DEF Watches, At
  <1>11. QED
    BY <1>4, <1>6, <1>7, <1>8, <1>10 DEF ChatRoomsInv

-----------------------------------------------------------------------------
\* The message that a room with a history to k stores is the next one.
LEMMA NextIsStored ==
    ASSUME NEW q \in Seq(RoomRequest), q # <<>>, NEW k \in Nat, NEW n \in Nat, StoresQueued(q, k, n),
           NEW m \in Nat, Stores(Head(q), m)
    PROVE  m = k + 1 /\ StoresQueued(Tail(q), k + 1, n)
  <1> DEFINE rest == Tail(q)
  <1>1. /\ rest \in Seq(RoomRequest) /\ Head(q) = q[1]
        /\ Len(rest) + 1 = Len(q) /\ Len(rest) \in Nat /\ 1 \in 1 .. Len(q)
        /\ \A i \in 1 .. Len(rest) : rest[i] = q[i + 1] /\ i + 1 \in 1 .. Len(q) /\ i < i + 1
        /\ \A i \in 1 .. Len(q) : i = 1 \/ (i - 1 \in 1 .. Len(rest) /\ rest[i - 1] = q[i])
    BY RequestTaken
  <1> HIDE DEF rest
  <1>2. k < m /\ m <= n
    BY <1>1 DEF StoresQueued
  <1>3. PICK i \in 1 .. Len(q) : Stores(q[i], k + 1)
    BY <1>2 DEF StoresQueued
  <1>4. m = k + 1
    <2>1. CASE i = 1
      BY <1>1, <1>3, <2>1, RequestSays
    <2>2. CASE i # 1
      <3>1. 1 < i /\ k + 1 \in Nat
        BY <2>2
      <3>2. m < k + 1
        BY <1>1, <1>3, <3>1 DEF StoresQueued
      <3>3. QED
        BY <1>2, <3>2
    <2>3. QED
      BY <2>1, <2>2
  <1>5. \A j \in 1 .. Len(rest), l \in Nat : Stores(rest[j], l) => k + 1 < l /\ l <= n
    <2> TAKE j \in 1 .. Len(rest), l \in Nat
    <2> HAVE Stores(rest[j], l)
    <2>1. Stores(q[j + 1], l) /\ j + 1 \in 1 .. Len(q) /\ 1 < j + 1
      BY <1>1
    <2>2. m < l /\ l <= n
      BY <1>1, <2>1 DEF StoresQueued
    <2>3. QED
      BY <1>4, <2>2
  <1>6. \A i1, j \in 1 .. Len(rest), l, o \in Nat :
            i1 < j /\ Stores(rest[i1], l) /\ Stores(rest[j], o) => l < o
    <2> TAKE i1, j \in 1 .. Len(rest), l, o \in Nat
    <2> HAVE i1 < j /\ Stores(rest[i1], l) /\ Stores(rest[j], o)
    <2>1. /\ Stores(q[i1 + 1], l) /\ i1 + 1 \in 1 .. Len(q)
          /\ Stores(q[j + 1], o) /\ j + 1 \in 1 .. Len(q)
          /\ i1 + 1 < j + 1
      BY <1>1
    <2>2. QED
      BY <2>1 DEF StoresQueued
  <1>7. \A o \in Nat : k + 1 < o /\ o <= n => \E j \in 1 .. Len(rest) : Stores(rest[j], o)
    <2> TAKE o \in Nat
    <2> HAVE k + 1 < o /\ o <= n
    <2>1. k < o
      OBVIOUS
    <2>2. PICK j \in 1 .. Len(q) : Stores(q[j], o)
      BY <2>1 DEF StoresQueued
    <2>3. j # 1
      BY <1>1, <1>4, <2>2, RequestSays
    <2>4. j - 1 \in 1 .. Len(rest) /\ Stores(rest[j - 1], o)
      BY <1>1, <2>2, <2>3
    <2>5. QED
      BY <2>4
  <1>8. QED
    BY <1>2, <1>4, <1>5, <1>6, <1>7 DEF StoresQueued, rest

LEMMA HistoryIsKept ==
    ASSUME NEW h \in Seq(Nat), NEW k \in Nat, HistoryKept(h, k)
    PROVE  /\ Trimmed(Append(h, k + 1)) \in Seq(Nat)
           /\ HistoryKept(Trimmed(Append(h, k + 1)), k + 1)
  <1> DEFINE more == Append(h, k + 1)
             rest == Tail(more)
  <1>1. /\ more \in Seq(Nat) /\ Len(more) = Len(h) + 1 /\ Len(h) \in Nat
        /\ \A i \in 1 .. Len(h) : more[i] = h[i]
        /\ more[Len(h) + 1] = k + 1 /\ more # <<>>
    OBVIOUS
  <1> HIDE DEF more
  <1>2. /\ rest \in Seq(Nat) /\ Len(rest) = Len(h)
        /\ \A i \in 1 .. Len(rest) : rest[i] = more[i + 1]
    BY <1>1
  <1> HIDE DEF rest
  <1>3. \A i \in 1 .. Len(h) : h[i] = (k - Len(h)) + i
    BY DEF HistoryKept
  <1>4. \A i \in 1 .. Len(h) + 1 : more[i] = (k - Len(h)) + i
    <2> TAKE i \in 1 .. Len(h) + 1
    <2>1. CASE i \in 1 .. Len(h)
      BY <1>1, <1>3, <2>1
    <2>2. CASE i = Len(h) + 1
      BY <1>1, <2>2
    <2>3. QED
      BY <1>1, <2>1, <2>2
  <1>5. CASE Len(more) > MaxHistory
    <2>1. Len(h) = MaxHistory /\ Len(h) <= k
      BY <1>1, <1>5, RoomsAssumption DEF HistoryKept
    <2>2. \A i \in 1 .. Len(rest) : rest[i] = ((k + 1) - Len(rest)) + i
      <3> TAKE i \in 1 .. Len(rest)
      <3>1. i + 1 \in 1 .. Len(h) + 1
        BY <1>1, <1>2
      <3>2. rest[i] = (k - Len(h)) + (i + 1)
        BY <1>2, <1>4, <3>1
      <3>3. QED
        BY <1>1, <1>2, <3>2
    <2>3. HistoryKept(rest, k + 1)
      BY <1>2, <2>1, <2>2 DEF HistoryKept
    <2>4. Trimmed(more) = rest
      BY <1>5 DEF Trimmed, rest
    <2>5. QED
      BY <1>2, <2>3, <2>4 DEF more
  <1>6. CASE ~ (Len(more) > MaxHistory)
    <2>1. Len(h) = k /\ Len(more) <= MaxHistory
      BY <1>1, <1>6, RoomsAssumption DEF HistoryKept
    <2>2. \A i \in 1 .. Len(more) : more[i] = ((k + 1) - Len(more)) + i
      BY <1>1, <1>4, <2>1
    <2>3. HistoryKept(more, k + 1)
      BY <1>1, <2>1, <2>2 DEF HistoryKept
    <2>4. Trimmed(more) = more
      BY <1>6 DEF Trimmed
    <2>5. QED
      BY <1>1, <2>3, <2>4 DEF more
  <1>7. QED
    BY <1>5, <1>6

\* A queue whose first request is taken.
LEMMA TakenKeeps ==
    ASSUME NEW q \in Seq(RoomRequest), q # <<>>, NEW u \in User
    PROVE  /\ Asked(u, q) => Asked(u, Tail(q))
           /\ Followed(u, q) => Followed(u, Tail(q))
  <1> DEFINE rest == Tail(q)
  <1>1. /\ Len(rest) + 1 = Len(q) /\ Len(rest) \in Nat
        /\ \A i \in 1 .. Len(rest) : rest[i] = q[i + 1] /\ i + 1 \in 1 .. Len(q)
    BY RequestTaken
  <1> HIDE DEF rest
  <1>2. Asked(u, q) => Asked(u, rest)
    BY <1>1 DEF Asked
  <1>3. ASSUME Followed(u, q) PROVE Followed(u, rest)
    <2> SUFFICES ASSUME NEW i \in 1 .. Len(rest), NEW j \in 1 .. Len(rest), NEW m \in Nat, i < j,
                        Gets(rest[i], u, busy[u].visit), Stores(rest[j], m)
                 PROVE  Seen(u, m)
      BY DEF Followed
    <2>1. /\ i + 1 \in 1 .. Len(q) /\ j + 1 \in 1 .. Len(q) /\ i + 1 < j + 1
          /\ Gets(q[i + 1], u, busy[u].visit) /\ Stores(q[j + 1], m)
      BY <1>1
    <2>2. QED
      BY <1>3, <2>1 DEF Followed
  <1>4. QED
    BY <1>2, <1>3 DEF rest

(***************************************************************************)
(* The room takes its first request, and no session is given an answer; it *)
(* may be the next message, which the history then ends with.              *)
(***************************************************************************)
LEMMA RequestTakenInv ==
    ASSUME ChatRoomsInv, NEW r \in RoomProc, r = roomName, roomQueue[r] # <<>>,
           roomQueue' = [roomQueue EXCEPT ![r] = Tail(@)],
           history' \in [RoomProc -> Seq(Nat)],
           \A s \in RoomProc : s # r => history'[s] = history[s],
           InOrder(r)',
           UNCHANGED <<roomName, busy, present, shown, gaveUp, started, sent, visits>>
    PROVE  ChatRoomsInv'
  <1>1. roomQueue[r] \in Seq(RoomRequest) /\ Tail(roomQueue[r]) \in Seq(RoomRequest)
    BY QueueIs, RequestTaken
  <1>2. /\ roomQueue' \in [RoomProc -> Seq(RoomRequest)] /\ roomQueue'[r] = Tail(roomQueue[r])
        /\ \A s \in RoomProc : s # r => roomQueue'[s] = roomQueue[s]
    BY <1>1 DEF ChatRoomsInv, RoomTypes
  <1>3. RoomTypes'
    BY <1>2 DEF ChatRoomsInv, RoomTypes
  <1>4. \A u \in User : Placed(u)'
    BY DEF ChatRoomsInv, Placed
  <1>5. \A s \in RoomProc : s # r => Unused(s)'
    BY <1>2 DEF ChatRoomsInv, Unused
  <1>6. ASSUME NEW u \in User, NEW s \in RoomProc PROVE Asked(u, roomQueue[s])'
    <2>1. Asked(u, roomQueue[s])
      BY DEF ChatRoomsInv
    <2>2. Asked(u, roomQueue'[s])
      BY <1>1, <1>2, <2>1, TakenKeeps
    <2>3. QED
      BY <2>2 DEF Asked, At
  <1>7. ASSUME NEW u \in present' \ gaveUp' PROVE Watches(u)'
    <2>1. u \in User /\ Watches(u)
      BY DEF ChatRoomsInv, RoomTypes
    <2>2. ASSUME NEW m, Seen(u, m) PROVE Seen(u, m)'
      BY <2>2 DEF Seen, At
    <2>3. ASSUME At(u, "fetch")' PROVE Followed(u, roomQueue[roomName])'
      <3>1. Followed(u, roomQueue'[r])
        BY <1>1, <1>2, <2>1, <2>3, TakenKeeps DEF Watches, At
      <3>2. QED
        BY <2>2, <3>1 DEF Followed
    <2>4. QED
      BY <2>1, <2>2, <2>3 DEF Watches, At
  <1>8. r # NoRoom
    BY DEF NoRoom, RoomProc
  <1>9. QED
    BY <1>3, <1>4, <1>5, <1>6, <1>7, <1>8 DEF ChatRoomsInv

\* The room that has something to do is the one in use.
LEMMA RoomInUse ==
    ASSUME ChatRoomsInv, NEW r \in RoomProc, roomQueue[r] # <<>>
    PROVE  /\ r = roomName /\ r # NoRoom
           /\ roomQueue[r] \in Seq(RoomRequest) /\ Head(roomQueue[r]) \in RoomRequest
           /\ Head(roomQueue[r]) = roomQueue[r][1] /\ 1 \in 1 .. Len(roomQueue[r])
           /\ InOrder(r)
  <1>1. r = roomName /\ r # NoRoom
    BY DEF ChatRoomsInv, Unused, NoRoom, RoomProc
  <1>2. QED
    BY <1>1, QueueIs, RequestTaken DEF ChatRoomsInv

LEMMA HandleStoreInv ==
    ASSUME ChatRoomsInv, NEW r \in RoomProc, HandleStore(r)
    PROVE  ChatRoomsInv'
  <1> DEFINE q == roomQueue[r]
  <1>1. /\ q # <<>> /\ Head(q)[1] = "store"
        /\ history' = [history EXCEPT ![r] = Trimmed(Append(@, Head(q)[2]))]
        /\ roomQueue' = [roomQueue EXCEPT ![r] = Tail(@)]
        /\ UNCHANGED <<roomName, busy, present, shown, gaveUp, started, sent, visits>>
    BY DEF HandleStore
  <1>2. /\ r = roomName /\ q \in Seq(RoomRequest) /\ Head(q) \in RoomRequest
        /\ history[r] \in Seq(Nat) /\ sent \in Nat /\ InOrder(r)
    BY <1>1, RoomInUse, QueueIs
  <1>3. PICK k \in Nat : HistoryKept(history[r], k) /\ StoresQueued(q, k, sent)
    BY <1>2 DEF InOrder
  <1>4. PICK m \in Nat : Stores(Head(q), m)
    <2>1. "store" # "get"
      OBVIOUS
    <2>2. QED
      BY <1>1, <1>2, <2>1, RequestIs
  <1>5. Head(q)[2] = m
    BY <1>4, RequestIs
  <1>6. m = k + 1 /\ StoresQueued(Tail(q), k + 1, sent)
    BY <1>1, <1>2, <1>3, <1>4, NextIsStored
  <1>7. /\ Trimmed(Append(history[r], k + 1)) \in Seq(Nat)
        /\ HistoryKept(Trimmed(Append(history[r], k + 1)), k + 1)
    BY <1>2, <1>3, HistoryIsKept
  <1> HIDE DEF q
  <1>8. /\ history' \in [RoomProc -> Seq(Nat)]
        /\ history'[r] = Trimmed(Append(history[r], k + 1))
        /\ \A s \in RoomProc : s # r => history'[s] = history[s]
    BY <1>1, <1>5, <1>6, <1>7 DEF ChatRoomsInv, RoomTypes
  <1>9. roomQueue'[r] = Tail(q)
    BY <1>1 DEF ChatRoomsInv, RoomTypes, q
  <1>10. InOrder(r)'
    <2>1. k + 1 \in Nat
      OBVIOUS
    <2>2. QED
      BY <1>1, <1>6, <1>7, <1>8, <1>9, <2>1 DEF InOrder
  <1>11. roomQueue[r] # <<>>
    BY <1>1 DEF q
  <1>12. QED
    BY <1>1, <1>2, <1>8, <1>10, <1>11, RequestTakenInv

(***************************************************************************)
(* The answer: with the history, a session has been given every message    *)
(* that was not trimmed, or is sent after its request, or both.            *)
(***************************************************************************)
LEMMA HandleGetHistoryInv ==
    ASSUME ChatRoomsInv, NEW r \in RoomProc, HandleGetHistory(r)
    PROVE  ChatRoomsInv'
  <1> DEFINE q == roomQueue[r]
             u == Head(q)[2]
  <1>1. /\ q # <<>> /\ Head(q)[1] = "get"
        /\ roomQueue' = [roomQueue EXCEPT ![r] = Tail(@)]
        /\ IF At(u, "fetch") /\ busy[u].visit = Head(q)[3]
           THEN /\ shown' = [shown EXCEPT ![u] = @ \cup Range(history[r])]
                /\ busy' = [busy EXCEPT ![u] = IdleUser]
           ELSE UNCHANGED <<shown, busy>>
        /\ UNCHANGED <<roomName, history, present, gaveUp, started, sent, visits>>
    BY DEF HandleGetHistory, Ends
  <1>2. /\ r = roomName /\ r # NoRoom /\ q \in Seq(RoomRequest) /\ Head(q) \in RoomRequest
        /\ Head(q) = q[1] /\ 1 \in 1 .. Len(q)
        /\ history[r] \in Seq(Nat) /\ sent \in Nat /\ InOrder(r)
    BY <1>1, RoomInUse, QueueIs
  <1>3. PICK v \in User, w \in Nat : Gets(Head(q), v, w)
    <2>1. "store" # "get"
      OBVIOUS
    <2>2. QED
      BY <1>1, <1>2, <2>1, RequestIs
  <1>4. u = v /\ Head(q)[3] = w
    BY <1>3, RequestIs
  <1>5. PICK k \in Nat : HistoryKept(history[r], k) /\ StoresQueued(q, k, sent)
    BY <1>2 DEF InOrder
  <1>6. StoresQueued(Tail(q), k, sent)
    <2> DEFINE rest == Tail(q)
    <2>1. /\ rest \in Seq(RoomRequest)
          /\ Len(rest) + 1 = Len(q) /\ Len(rest) \in Nat
          /\ \A i \in 1 .. Len(rest) : rest[i] = q[i + 1] /\ i + 1 \in 1 .. Len(q)
          /\ \A i \in 1 .. Len(q) : i = 1 \/ (i - 1 \in 1 .. Len(rest) /\ rest[i - 1] = q[i])
      BY <1>1, <1>2, RequestTaken
    <2> HIDE DEF rest, q
    <2>2. \A i \in 1 .. Len(rest), m \in Nat : Stores(rest[i], m) => k < m /\ m <= sent
      BY <1>5, <2>1 DEF StoresQueued
    <2>3. \A i, j \in 1 .. Len(rest), l, m \in Nat :
             i < j /\ Stores(rest[i], l) /\ Stores(rest[j], m) => l < m
      <3> TAKE i, j \in 1 .. Len(rest), l, m \in Nat
      <3> HAVE i < j /\ Stores(rest[i], l) /\ Stores(rest[j], m)
      <3>1. /\ i + 1 \in 1 .. Len(q) /\ j + 1 \in 1 .. Len(q) /\ i + 1 < j + 1
            /\ Stores(q[i + 1], l) /\ Stores(q[j + 1], m)
        BY <2>1
      <3>2. QED
        BY <1>5, <3>1 DEF StoresQueued
    <2>4. \A m \in Nat : k < m /\ m <= sent => \E i \in 1 .. Len(rest) : Stores(rest[i], m)
      <3> TAKE m \in Nat
      <3> HAVE k < m /\ m <= sent
      <3>1. PICK i \in 1 .. Len(q) : Stores(q[i], m)
        BY <1>5 DEF StoresQueued
      <3>2. i # 1
        BY <1>2, <1>3, <3>1, RequestSays
      <3>3. i - 1 \in 1 .. Len(rest) /\ Stores(rest[i - 1], m)
        BY <2>1, <3>1, <3>2
      <3>4. QED
        BY <3>3
    <2>5. QED
      BY <1>5, <2>2, <2>3, <2>4 DEF StoresQueued, rest
  <1>7. /\ roomQueue' \in [RoomProc -> Seq(RoomRequest)] /\ roomQueue'[r] = Tail(q)
        /\ \A s \in RoomProc : s # r => roomQueue'[s] = roomQueue[s]
    <2>1. Tail(q) \in Seq(RoomRequest)
      BY <1>1, <1>2, RequestTaken
    <2>2. QED
      BY <1>1, <2>1 DEF ChatRoomsInv, RoomTypes
  <1>8. InOrder(r)'
    BY <1>1, <1>5, <1>6, <1>7 DEF InOrder
  <1>9. CASE ~ (At(v, "fetch") /\ busy[v].visit = w)
    <2>1. UNCHANGED <<shown, busy>>
      BY <1>1, <1>4, <1>9
    <2>2. history' \in [RoomProc -> Seq(Nat)] /\ \A s \in RoomProc : s # r => history'[s] = history[s]
      BY <1>1 DEF ChatRoomsInv, RoomTypes
    <2>3. QED
      BY <1>1, <1>2, <1>8, <2>1, <2>2, RequestTakenInv
  <1>10. CASE At(v, "fetch") /\ busy[v].visit = w
    <2>1. /\ shown' = [shown EXCEPT ![v] = @ \cup Range(history[r])]
          /\ busy' = [busy EXCEPT ![v] = IdleUser]
      BY <1>1, <1>4, <1>10
    <2>2. /\ busy' \in [User -> Busy] /\ busy'[v] = IdleUser
          /\ \A x \in User : x # v => busy'[x] = busy[x]
      BY <2>1, BusyIs, BusyBecomes
    <2>3. /\ Range(history[r]) = {history[r][i] : i \in 1 .. Len(history[r])}
          /\ Range(history[r]) \subseteq Nat
      <3>1. history[r] \in Seq(Nat)
        BY <1>2
      <3>2. Range(history[r]) = {history[r][i] : i \in 1 .. Len(history[r])}
        BY <3>1, RangeOfNats
      <3>3. \A i \in 1 .. Len(history[r]) : history[r][i] \in Nat
        BY <3>1
      <3>4. QED
        BY <3>2, <3>3
    <2>4. /\ shown' \in [User -> SUBSET Nat]
          /\ shown'[v] = shown[v] \cup Range(history[r])
          /\ \A x \in User : x # v => shown'[x] = shown[x]
      BY <2>1, <2>3 DEF ChatRoomsInv, RoomTypes
    <2>5. RoomTypes'
      BY <1>1, <1>7, <2>2, <2>4 DEF ChatRoomsInv, RoomTypes
    <2>6. ASSUME NEW x \in User PROVE Placed(x)'
      <3>1. CASE x = v
        BY <1>1, <1>10, <2>2, <3>1, BusyIs DEF Placed, At
      <3>2. CASE x # v
        BY <1>1, <2>2, <3>2 DEF ChatRoomsInv, Placed
      <3>3. QED
        BY <3>1, <3>2
    <2>7. \A s \in RoomProc : s # r => Unused(s)'
      BY <1>1, <1>2, <1>7 DEF ChatRoomsInv, Unused
    <2>8. ASSUME NEW x \in User, NEW s \in RoomProc PROVE Asked(x, roomQueue[s])'
      <3>1. Asked(x, roomQueue[s])
        BY DEF ChatRoomsInv
      <3>2. Asked(x, roomQueue'[s])
        BY <1>1, <1>2, <1>7, <3>1, TakenKeeps
      <3>3. CASE x = v
        <4>1. busy'[x].visit = 0
          BY <2>2, <3>3, BusyIs
        <4>2. ASSUME NEW i \in 1 .. Len(roomQueue'[s]), NEW y \in Nat, Gets(roomQueue'[s][i], x, y)
              PROVE  0 < y /\ y <= visits' /\ (busy'[x].visit = y => At(x, "fetch")')
          <5>1. 0 < y /\ y <= visits
            BY <3>2, <4>2 DEF Asked
          <5>2. busy'[x].visit # y
            BY <4>1, <5>1
          <5>3. QED
            BY <1>1, <5>1, <5>2
        <4>3. QED
          BY <4>2 DEF Asked
      <3>4. CASE x # v
        BY <1>1, <2>2, <3>2, <3>4 DEF Asked, At
      <3>5. QED
        BY <3>3, <3>4
    <2>9. ASSUME NEW x \in User, NEW m \in Nat, Seen(x, m) PROVE Seen(x, m)'
      <3>1. \A y \in User : At(y, "broadcast") /\ busy[y].message = m =>
               At(y, "broadcast")' /\ busy'[y].message = m
        BY <1>10, <2>2 DEF At
      <3>2. shown[x] \subseteq shown'[x]
        BY <2>4
      <3>3. sent' = sent /\ sent \in Nat /\ sent <= sent'
        BY <1>1, <1>2
      <3>4. QED
        BY <2>9, <3>1, <3>2, <3>3, SeenStays
    <2>10. ASSUME v \in present \ gaveUp, NEW m \in 1 .. sent PROVE Seen(v, m)'
      <3>1. m \in Nat
        OBVIOUS
      <3>2. CASE k < m
        <4>1. PICK j \in 1 .. Len(q) : Stores(q[j], m)
          BY <1>5, <3>1, <3>2 DEF StoresQueued
        <4>2. j # 1
          BY <1>2, <1>3, <4>1, RequestSays
        <4>3. Followed(v, q)
          BY <1>2, <1>10, <2>10 DEF ChatRoomsInv, Watches
        <4>4. 1 < j /\ Gets(q[1], v, busy[v].visit)
          BY <1>2, <1>3, <1>10, <4>2
        <4>5. Seen(v, m)
          BY <1>2, <3>1, <4>1, <4>3, <4>4 DEF Followed
        <4>6. QED
          BY <2>9, <3>1, <4>5
      <3>3. CASE m <= k
        <4> DEFINE h == history[r]
        <4>1. /\ Len(h) \in Nat /\ Len(h) <= k
              /\ Len(h) = k \/ Len(h) = MaxHistory
              /\ \A i \in 1 .. Len(h) : h[i] = (k - Len(h)) + i
          <5>1. h \in Seq(Nat) /\ HistoryKept(h, k)
            BY <1>2, <1>5
          <5> HIDE DEF h
          <5>2. Len(h) \in Nat
            BY <5>1
          <5>3. QED
            BY <5>1, <5>2 DEF HistoryKept
        <4>2. k <= sent
          BY <1>5 DEF StoresQueued
        <4>3. CASE m <= k - Len(h)
          <5>1. Len(h) = MaxHistory
            BY <4>1, <4>3
          <5>2. m + MaxHistory <= sent
            BY <1>2, <4>1, <4>2, <4>3, <5>1
          <5>3. QED
            BY <1>1, <5>2 DEF Seen
        <4>4. CASE ~ (m <= k - Len(h))
          <5>1. m - (k - Len(h)) \in 1 .. Len(h)
            <6>1. \A n \in Nat : n <= k /\ ~ (m <= k - n) => m - (k - n) \in 1 .. n
              BY <3>1, <3>3, <1>5
            <6>2. Len(h) \in Nat /\ Len(h) <= k
              BY <4>1
            <6>3. ~ (m <= k - Len(h))
              BY <4>4
            <6> HIDE DEF h
            <6>4. QED
              BY <6>1, <6>2, <6>3
          <5>2. h[m - (k - Len(h))] = m
            <6>1. h[m - (k - Len(h))] = (k - Len(h)) + (m - (k - Len(h)))
              BY <4>1, <5>1
            <6>2. \A n \in Nat : (k - n) + (m - (k - n)) = m
              BY <3>1, <1>5
            <6>3. Len(h) \in Nat
              BY <4>1
            <6> HIDE DEF h
            <6>4. QED
              BY <6>1, <6>2, <6>3
          <5>3. m \in Range(history[r])
            BY <2>3, <5>1, <5>2
          <5>4. QED
            BY <2>4, <5>3 DEF Seen
        <4>5. QED
          BY <4>3, <4>4
      <3>4. QED
        BY <3>2, <3>3
    <2>11. ASSUME NEW x \in present' \ gaveUp' PROVE Watches(x)'
      <3>1. x \in User /\ x \in present \ gaveUp
        BY <1>1 DEF ChatRoomsInv, RoomTypes
      <3>2. CASE x = v
        <4>1. \A m \in 1 .. sent' : Seen(x, m)'
          BY <1>1, <2>10, <3>1, <3>2
        <4>2. ~ At(x, "fetch")'
          BY <2>2, <3>2, BusyIs DEF At
        <4>3. QED
          BY <4>1, <4>2 DEF Watches
      <3>3. CASE x # v
        <4>1. Watches(x) /\ busy'[x] = busy[x]
          BY <2>2, <3>1, <3>3 DEF ChatRoomsInv
        <4>2. busy[x].step \in {"idle", "broadcast"} => \A m \in 1 .. sent' : Seen(x, m)'
          <5>1. \A m \in 1 .. sent' : m \in 1 .. sent /\ m \in Nat
            BY <1>1, <1>2
          <5>2. QED
            BY <2>9, <3>1, <4>1, <5>1 DEF Watches
        <4>3. ASSUME At(x, "fetch") PROVE Followed(x, roomQueue[roomName])'
          <5>1. Followed(x, q)
            BY <1>2, <4>1, <4>3 DEF Watches
          <5>2. Followed(x, Tail(q))
            BY <1>1, <1>2, <3>1, <5>1, TakenKeeps
          <5>3. roomQueue'[roomName'] = Tail(q)
            BY <1>1, <1>2, <1>7
          <5>4. Followed(x, roomQueue'[roomName'])
            BY <5>2, <5>3
          <5>5. QED
            BY <2>9, <3>1, <4>1, <5>4 DEF Followed
        <4>4. QED
          BY <4>1, <4>2, <4>3 DEF Watches, At
      <3>4. QED
        BY <3>2, <3>3
    <2>12. QED
      BY <1>1, <1>2, <1>8, <2>5, <2>6, <2>7, <2>8, <2>11 DEF ChatRoomsInv
  <1>11. QED
    BY <1>9, <1>10

LEMMA RoomNextInv == ChatRoomsInv /\ [RoomNext]_roomVars => ChatRoomsInv'
  <1> SUFFICES ASSUME ChatRoomsInv, [RoomNext]_roomVars PROVE ChatRoomsInv'
    OBVIOUS
  <1>1. ASSUME NEW u \in User,
               \/ JoinRoom(u) \/ StartRoom(u) \/ RegisterRoom(u) \/ TerminateRoom(u) \/ JoinChannel(u)
               \/ GetHistory(u) \/ GiveUp(u) \/ LeaveRoom(u)
               \/ StoreMessage(u) \/ BroadcastMessage(u)
        PROVE  ChatRoomsInv'
    BY <1>1, EnteringInv, LeavingInv, GetHistoryInv, StoreMessageInv, BroadcastMessageInv
  <1>2. ASSUME NEW r \in RoomProc, HandleStore(r) \/ HandleGetHistory(r) PROVE ChatRoomsInv'
    BY <1>2, HandleStoreInv, HandleGetHistoryInv
  <1>3. CASE UNCHANGED roomVars
    BY <1>3 DEF roomVars, ChatRoomsInv, RoomTypes, Placed, InOrder, Unused, Asked, Watches,
                Followed, Seen, At
  <1>4. QED
    BY <1>1, <1>2, <1>3 DEF RoomNext

(***************************************************************************)
(* Between the history and the live messages nothing falls, for any number *)
(* of sessions that join, leave, send and create the room at once: who is  *)
(* in the room with nothing left to handle has been shown every message,   *)
(* but for those trimmed and those still being broadcast.                  *)
(***************************************************************************)
THEOREM NothingFallsBetween == RoomSpec => []NoMessageMissed
  <1>1. RoomInit => ChatRoomsInv
    BY RoomInitInv
  <1>2. ChatRoomsInv /\ [RoomNext]_roomVars => ChatRoomsInv'
    BY RoomNextInv
  <1>3. ChatRoomsInv => NoMessageMissed
    BY DEF ChatRoomsInv, Watches, Seen, NoMessageMissed, At
  <1>4. QED
    BY <1>1, <1>2, <1>3, PTL DEF RoomSpec
=============================================================================
