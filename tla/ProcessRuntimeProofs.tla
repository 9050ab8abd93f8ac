------------------------ MODULE ProcessRuntimeProofs ------------------------
(***************************************************************************)
(* Proofs about ProcessRuntime, for any sets of pids and names, any number *)
(* of references, and any set of operations.                               *)
(*                                                                         *)
(* The invariants are stated per process, or per process and reference:    *)
(* TaskInv says what a task may be doing given the registry, DownInv who   *)
(* holds the right to send a DOWN, OwnerInv and ArmedInv how the two sides *)
(* of a monitor differ while an operation is between them, LinkInv the     *)
(* same for links.  For each, lemmas called ...Effect say what an action   *)
(* does to one entry, and lemmas called ...Next combine them.              *)
(***************************************************************************)
EXTENDS ProcessRuntime, TLAPS

USE DEF OpStep, EndStep, Locals, NoLocals, LocalsOK, ExitReason

LEMMA RefRange == Ref \subseteq 0 .. MaxRef /\ 0 \in 0 .. MaxRef
  BY BoundAssumption DEF Ref

LEMMA MonitorTyping ==
    ASSUME monitors \in [Pid -> [Ref -> Pid \cup {None}]],
           NEW p \in Pid, NEW ref \in Ref
    PROVE  RemoveMonitor(p, ref) \in [Pid -> [Ref -> Pid \cup {None}]]
  BY DEF RemoveMonitor

LEMMA MonitoredByTyping ==
    ASSUME monitoredBy \in [Pid -> [Ref -> Pid \cup {None}]],
           NEW p \in Pid, NEW ref \in Ref, NEW owner \in Pid
    PROVE  AddMonitoredBy(p, ref, owner) \in [Pid -> [Ref -> Pid \cup {None}]]
  BY DEF AddMonitoredBy

LEMMA MessageTyping ==
    ASSUME NEW p \in Pid, NEW reason \in ExitReason
    PROVE  /\ ExitMsg(p, reason) \in Message
           /\ \A ref \in Ref : DownMsg(ref, p, reason) \in Message
  BY RefRange DEF ExitMsg, DownMsg, Message

LEMMA DeliverTyping ==
    ASSUME mailbox \in [Pid -> Seq(Message)], NEW p \in Pid,
           NEW msg \in Message, Deliver(p, msg)
    PROVE  mailbox' \in [Pid -> Seq(Message)]
  BY DEF Deliver

Step == {"unborn", "idle"} \cup OpStep \cup EndStep

\* A step outside every operation has no locals to provide.
LEMMA LeaveStep ==
    ASSUME TypeOK, NEW p \in Pid, NEW step \in {"idle"} \cup EndStep,
           pc' = [pc EXCEPT ![p] = step], arg' = arg
    PROVE  pc' \in [Pid -> Step] /\ \A o \in Pid : LocalsOK(o)'
  <1>1. pc' \in [Pid -> Step]
    BY DEF TypeOK, Step
  <1>2. ASSUME NEW o \in Pid PROVE LocalsOK(o)'
    <2>1. CASE o = p
      BY <2>1 DEF TypeOK
    <2>2. CASE o # p
      <3>1. pc'[o] = pc[o] /\ arg'[o] = arg[o] /\ LocalsOK(o)
        BY <2>2 DEF TypeOK
      <3>2. QED
        BY <3>1
    <2>3. QED
      BY <2>1, <2>2
  <1>3. QED
    BY <1>1, <1>2

\* Spawning a child ties the locals of the step to the new pid.
LEMMA SpawnStep ==
    ASSUME TypeOK, NEW p \in Pid, NEW c \in Pid, pc[p] = "idle",
           NEW step \in OpStep \ {"register"}, NEW ref \in 0 .. MaxRef,
           step \in {"monitor", "demonitor", "spawn_monitor", "child_monitor"} =>
               ref \in Ref,
           SpawnChild(p, c, step, ref)
    PROVE  /\ pc' \in [Pid -> Step]
           /\ arg' \in [Pid -> Locals]
           /\ \A o \in Pid : LocalsOK(o)'
  <1>1. p # c
    BY DEF SpawnChild
  <1>2. pc' \in [Pid -> Step] /\ arg' \in [Pid -> Locals]
    BY DEF TypeOK, Step, SpawnChild
  <1>3. ASSUME NEW o \in Pid PROVE LocalsOK(o)'
    <2>1. CASE o = p
      BY <1>1, <2>1 DEF TypeOK, SpawnChild
    <2>2. CASE o = c
      BY <1>1, <2>2 DEF TypeOK, SpawnChild
    <2>3. CASE o # p /\ o # c
      <3>1. pc'[o] = pc[o] /\ arg'[o] = arg[o] /\ LocalsOK(o)
        BY <2>3 DEF TypeOK, SpawnChild
      <3>2. QED
        BY <3>1
    <2>4. QED
      BY <2>1, <2>2, <2>3
  <1>4. QED
    BY <1>2, <1>3

LEMMA TypeInit == Init => TypeOK
  BY NoneAssumption, BoundAssumption, RefRange DEF Init, TypeOK

LEMMA TypeNext == TypeOK /\ [Next]_vars => TypeOK'
  <1> SUFFICES ASSUME TypeOK, [Next]_vars PROVE TypeOK'
    OBVIOUS
  <1> USE NoneAssumption, BoundAssumption, ReasonAssumption, RefRange
  <1>1. ASSUME NEW p \in Pid, Spawn(p) PROVE TypeOK'
    BY <1>1 DEF TypeOK, Spawn, handleVars, exitVars
  <1>2. ASSUME NEW p \in Pid, NEW q \in Pid, SpawnLink(p, q) PROVE TypeOK'
    <2>1. /\ pc' \in [Pid -> Step]
          /\ arg' \in [Pid -> Locals]
          /\ \A o \in Pid : LocalsOK(o)'
      BY <1>2, SpawnStep DEF SpawnLink, Idle
    <2>2. /\ registered' \subseteq Pid
          /\ UNCHANGED <<names, handleVars, mailbox, nextRef, exitVars>>
      BY <1>2 DEF TypeOK, SpawnLink, SpawnChild
    <2>3. QED
      BY <2>1, <2>2 DEF TypeOK, Step, handleVars, exitVars
  <1>3. ASSUME NEW p \in Pid, NEW q \in Pid, SpawnMonitor(p, q) PROVE TypeOK'
    <2>1. /\ pc' \in [Pid -> Step]
          /\ arg' \in [Pid -> Locals]
          /\ \A o \in Pid : LocalsOK(o)'
      BY <1>3, SpawnStep, RefRange DEF SpawnMonitor, Idle
    <2>2. /\ registered' \subseteq Pid
          /\ nextRef' \in 1 .. MaxRef + 1
          /\ UNCHANGED <<names, handleVars, mailbox, exitVars>>
      BY <1>3 DEF TypeOK, Ref, SpawnMonitor, SpawnChild, NewRef
    <2>3. QED
      BY <2>1, <2>2 DEF TypeOK, Step, handleVars, exitVars
  <1>4. ASSUME NEW p \in Pid, NEW q \in Pid, Link(p, q) PROVE TypeOK'
    BY <1>4 DEF TypeOK, Link, Goto, handleVars, exitVars
  <1>5. ASSUME NEW p \in Pid, NEW q \in Pid, Unlink(p, q) PROVE TypeOK'
    BY <1>5 DEF TypeOK, Unlink, Goto, handleVars, exitVars
  <1>6. ASSUME NEW p \in Pid, NEW q \in Pid, Monitor(p, q) PROVE TypeOK'
    <2>1. nextRef' \in 1 .. MaxRef + 1
      BY <1>6 DEF TypeOK, Ref, Monitor, NewRef
    <2>2. monitors' \in [Pid -> [Ref -> Pid \cup {None}]]
      BY <1>6 DEF TypeOK, Monitor
    <2>3. /\ arg' \in [Pid -> Locals]
          /\ pc' \in [Pid -> Step]
          /\ \A o \in Pid : LocalsOK(o)'
      BY <1>6 DEF TypeOK, Step, Monitor, Goto
    <2>4. QED
      BY <1>6, <2>1, <2>2, <2>3 DEF TypeOK, Step, Monitor, exitVars
  <1>7. ASSUME NEW p \in Pid, NEW q \in Pid, NEW reason \in Reason,
               Exit(p, q, reason)
        PROVE TypeOK'
    <2>1. reason \in ExitReason
      OBVIOUS
    <2>2. mailbox' \in [Pid -> Seq(Message)]
      BY <1>7, <2>1, MessageTyping, DeliverTyping DEF TypeOK, Exit
    <2>3. /\ terminated' \in [Pid -> BOOLEAN]
          /\ exitReason' \in [Pid -> ExitReason \cup {None}]
      BY <1>7, <2>1 DEF TypeOK, Exit, MarkTerminated
    <2>4. QED
      BY <1>7, <2>2, <2>3 DEF TypeOK, Exit, exitVars
  <1>8. ASSUME NEW p \in Pid, NEW q \in Pid, NEW name \in Name,
               Register(p, name, q)
        PROVE TypeOK'
    BY <1>8 DEF TypeOK, Register, Goto, handleVars, exitVars
  <1>9. ASSUME NEW p \in Pid, NEW trap \in BOOLEAN, SetTrapExit(p, trap)
        PROVE TypeOK'
    BY <1>9 DEF TypeOK, SetTrapExit, exitVars
  <1>10. ASSUME NEW p \in Pid, NEW ref \in Ref, Demonitor(p, ref) PROVE TypeOK'
    BY <1>10 DEF TypeOK, Demonitor, Goto, RemoveMonitor, exitVars
  <1>11. ASSUME NEW p \in Pid, NEW name \in Name, UnregisterName(p, name)
         PROVE TypeOK'
    BY <1>11 DEF TypeOK, UnregisterName, handleVars, exitVars
  <1>12. ASSUME NEW p \in Pid, FinishOp(p) PROVE TypeOK'
    <2>1. CASE SpawnLinkParent(p)
      BY <2>1 DEF TypeOK, SpawnLinkParent, exitVars
    <2>2. CASE SpawnLinkChild(p)
      BY <2>2 DEF TypeOK, SpawnLinkChild, Return, Goto, exitVars
    <2>3. CASE SpawnMonitorParent(p)
      BY <2>3 DEF TypeOK, SpawnMonitorParent, exitVars
    <2>4. CASE SpawnMonitorChild(p)
      BY <2>4 DEF TypeOK, SpawnMonitorChild, AddMonitoredBy, Return, Goto, exitVars
    <2>5. CASE LinkOther(p)
      BY <2>5 DEF TypeOK, LinkOther, Return, Goto, exitVars
    <2>6. CASE UnlinkOther(p)
      BY <2>6 DEF TypeOK, UnlinkOther, Return, Goto, exitVars
    <2>7. CASE MonitorTarget(p)
      <3>1. arg[p].pid \in Pid /\ arg[p].ref \in Ref
        BY <2>7 DEF TypeOK, MonitorTarget
      <3>2. mailbox' \in [Pid -> Seq(Message)]
        BY <2>7, <3>1, MessageTyping, DeliverTyping DEF TypeOK, MonitorTarget
      <3>3. /\ monitors' \in [Pid -> [Ref -> Pid \cup {None}]]
            /\ monitoredBy' \in [Pid -> [Ref -> Pid \cup {None}]]
        <4>1. CASE Get(arg[p].pid)
          BY <2>7, <3>1, <4>1, MonitoredByTyping DEF TypeOK, MonitorTarget
        <4>2. CASE ~Get(arg[p].pid)
          BY <2>7, <3>1, <4>2, MonitorTyping DEF TypeOK, MonitorTarget
        <4>3. QED
          BY <4>1, <4>2
      <3>4. /\ Return(p)
            /\ UNCHANGED <<registered, names, trapExit, links, terminated,
                           exitReason, nextRef, exitVars>>
        BY <2>7 DEF MonitorTarget
      <3>5. QED
        BY <3>2, <3>3, <3>4 DEF TypeOK, Return, Goto, exitVars
    <2>8. CASE DemonitorTarget(p)
      BY <2>8 DEF TypeOK, DemonitorTarget, RemoveMonitoredBy, Return, Goto, exitVars
    <2>9. CASE RegisterInsert(p)
      BY <2>9 DEF TypeOK, RegisterInsert, Return, Goto, handleVars, exitVars
    <2>10. QED
      BY <1>12, <2>1, <2>2, <2>3, <2>4, <2>5, <2>6, <2>7, <2>8, <2>9 DEF FinishOp
  <1>13. ASSUME NEW p \in Pid, BodyReturns(p) \/ BodyPanics(p) PROVE TypeOK'
    <2>1. pc' \in [Pid -> Step] /\ \A o \in Pid : LocalsOK(o)'
      BY <1>13, LeaveStep DEF BodyReturns, BodyPanics
    <2>2. QED
      BY <1>13, <2>1 DEF TypeOK, Step, BodyReturns, BodyPanics, handleVars, exitVars
  <1>14. ASSUME NEW p \in Pid, ExitBegin(p) PROVE TypeOK'
    <2>1. pc' \in [Pid -> Step] /\ \A o \in Pid : LocalsOK(o)'
      BY <1>14, LeaveStep DEF ExitBegin
    <2>2. exitLinks' \in [Pid -> SUBSET Pid]
      <3>1. exitLinks \in [Pid -> SUBSET Pid] /\ links[p] \in SUBSET Pid
        BY DEF TypeOK
      <3>2. exitLinks' = exitLinks \/ exitLinks' = [exitLinks EXCEPT ![p] = links[p]]
        BY <1>14 DEF ExitBegin, exitVars
      <3>3. QED
        BY <3>1, <3>2
    <2>3. exitMons' \in [Pid -> SUBSET (Ref \X Pid)]
      <3>1. /\ exitMons \in [Pid -> SUBSET (Ref \X Pid)]
            /\ MonitorSnapshot(p) \in SUBSET (Ref \X Pid)
        BY DEF TypeOK, MonitorSnapshot
      <3>2. \/ exitMons' = exitMons
            \/ exitMons' = [exitMons EXCEPT ![p] = MonitorSnapshot(p)]
        BY <1>14 DEF ExitBegin, exitVars
      <3>3. QED
        BY <3>1, <3>2
    <2>4. /\ terminated' \in [Pid -> BOOLEAN]
          /\ exitReason' \in [Pid -> ExitReason \cup {None}]
      BY <1>14 DEF TypeOK, ExitBegin, MarkTerminated
    <2>5. QED
      BY <1>14, <2>1, <2>2, <2>3, <2>4 DEF TypeOK, Step, ExitBegin
  <1>15. ASSUME NEW p \in Pid, NEW linked \in Pid, NotifyLink(p, linked)
         PROVE TypeOK'
    <2>1. mailbox' \in [Pid -> Seq(Message)]
      BY <1>15, MessageTyping, DeliverTyping
         DEF TypeOK, NotifyLink, SignalLink, IsNormal, IsKilled
    <2>2. /\ terminated' \in [Pid -> BOOLEAN]
          /\ exitReason' \in [Pid -> ExitReason \cup {None}]
      BY <1>15 DEF TypeOK, NotifyLink, SignalLink, MarkTerminated
    <2>3. /\ links' \in [Pid -> SUBSET Pid]
          /\ exitLinks' \in [Pid -> SUBSET Pid]
      <3>1. /\ links \in [Pid -> SUBSET Pid]
            /\ exitLinks \in [Pid -> SUBSET Pid]
            /\ links[linked] \ {p} \in SUBSET Pid
            /\ exitLinks[p] \ {linked} \in SUBSET Pid
        BY DEF TypeOK
      <3>2. /\ exitLinks' = [exitLinks EXCEPT ![p] = exitLinks[p] \ {linked}]
            /\ \/ links' = links
               \/ links' = [links EXCEPT ![linked] = links[linked] \ {p}]
        BY <1>15 DEF NotifyLink
      <3>3. QED
        BY <3>1, <3>2
    <2>4. QED
      BY <1>15, <2>1, <2>2, <2>3 DEF TypeOK, NotifyLink
  <1>16. ASSUME NEW p \in Pid, NEW ref \in Ref, NEW owner \in Pid,
                NotifyMonitor(p, ref, owner)
         PROVE TypeOK'
    <2>1. mailbox' \in [Pid -> Seq(Message)]
      BY <1>16, MessageTyping, DeliverTyping DEF TypeOK, NotifyMonitor
    <2>2. monitors' \in [Pid -> [Ref -> Pid \cup {None}]]
      <3>1. monitors' = monitors \/ monitors' = RemoveMonitor(owner, ref)
        BY <1>16 DEF NotifyMonitor
      <3>2. QED
        BY <3>1, MonitorTyping DEF TypeOK
    <2>3. exitMons' \in [Pid -> SUBSET (Ref \X Pid)]
      BY <1>16 DEF TypeOK, NotifyMonitor
    <2>4. QED
      BY <1>16, <2>1, <2>2, <2>3 DEF TypeOK, NotifyMonitor
  <1>17. ASSUME NEW p \in Pid, UnregisterNames(p) \/ UnregisterProcess(p)
         PROVE TypeOK'
    <2>1. pc' \in [Pid -> Step] /\ \A o \in Pid : LocalsOK(o)'
      BY <1>17, LeaveStep DEF UnregisterNames, UnregisterProcess
    <2>2. names' \in [Name -> Pid \cup {None}]
      BY <1>17 DEF TypeOK, UnregisterNames, UnregisterProcess, NamesWithout
    <2>3. QED
      BY <1>17, <2>1, <2>2
         DEF TypeOK, Step, UnregisterNames, UnregisterProcess, handleVars, exitVars
  <1>18. ASSUME NEW p \in Pid, NEW reason \in Reason, RuntimeExit(p, reason)
         PROVE TypeOK'
    BY <1>18 DEF TypeOK, RuntimeExit, MarkTerminated, exitVars
  <1>19. CASE UNCHANGED vars
    BY <1>19 DEF TypeOK, vars, handleVars, exitVars
  <1>20. QED
    BY <1>1, <1>2, <1>3, <1>4, <1>5, <1>6, <1>7, <1>8, <1>9, <1>10, <1>11, <1>12,
       <1>13, <1>14, <1>15, <1>16, <1>17, <1>18, <1>19
       DEF Next, StartOp, HandleProcessExit

(***************************************************************************)
(* Every variable keeps its type.                                          *)
(***************************************************************************)
THEOREM TypeCorrect == Spec => []TypeOK
  BY TypeInit, TypeNext, PTL DEF Spec
-----------------------------------------------------------------------------
(***************************************************************************)
(* DownAtMostOnce.  DownInv is inductive.  Every conjunct of it denies     *)
(* that two holders of the right to send a DOWN coexist, so a step that    *)
(* creates no holder preserves it (DownFrame); six actions move the right  *)
(* or create it for a fresh reference, and are treated one by one.         *)
(***************************************************************************)
DownInv == DownRightIsUnique /\ DownAtMostOnce

\* No DOWN appears in a mailbox.
NoNewDown ==
    \A p \in Pid : \A i \in DOMAIN mailbox'[p] :
        mailbox'[p][i].kind = "Down" =>
            i \in DOMAIN mailbox[p] /\ mailbox'[p][i] = mailbox[p][i]

LEMMA NoNewDownDelivered ==
    ASSUME NoNewDown, NEW p \in Pid, NEW ref \in Ref, DownDelivered(p, ref)'
    PROVE  DownDelivered(p, ref)
  BY DEF NoNewDown, DownDelivered, IsDown

LEMMA NoNewDownAtMostOnce == NoNewDown /\ DownAtMostOnce => DownAtMostOnce'
  BY DEF NoNewDown, DownAtMostOnce, IsDown

LEMMA DownFrame ==
    ASSUME DownInv, NoNewDown, nextRef' = nextRef,
           \A q \in Pid, r \in Ref : /\ Asking(q, r)' => Asking(q, r)
                                     /\ Armed(q, r)' => Armed(q, r),
           \A q \in Pid : exitMons'[q] \subseteq exitMons[q]
    PROVE  DownInv'
  <1>1. DownAtMostOnce'
    BY NoNewDownAtMostOnce DEF DownInv
  <1>2. \A q \in Pid, r \in Ref :
            /\ DownDelivered(q, r)' => DownDelivered(q, r)
            /\ Pending(q, r)' => Pending(q, r)
    BY NoNewDownDelivered DEF Pending
  <1>3. DownRightIsUnique'
    BY <1>2 DEF DownInv, DownRightIsUnique
  <1>4. QED
    BY <1>1, <1>3 DEF DownInv

\* An exit message is not a DOWN.
LEMMA ExitMsgNoNewDown ==
    ASSUME TypeOK, NEW p \in Pid, NEW q \in Pid, NEW reason \in ExitReason,
           Deliver(p, ExitMsg(q, reason))
    PROVE  NoNewDown
  <1>1. CASE mailbox' = mailbox
    BY <1>1 DEF NoNewDown
  <1>2. CASE mailbox' = [mailbox EXCEPT ![p] = Append(@, ExitMsg(q, reason))]
    <2>1. mailbox[p] \in Seq(Message) /\ ExitMsg(q, reason) \in Message
      BY MessageTyping DEF TypeOK
    <2>2. ASSUME NEW o \in Pid, NEW i \in DOMAIN mailbox'[o],
                 mailbox'[o][i].kind = "Down"
          PROVE  i \in DOMAIN mailbox[o] /\ mailbox'[o][i] = mailbox[o][i]
      <3>1. CASE o = p
        BY <1>2, <2>1, <2>2, <3>1 DEF TypeOK, ExitMsg
      <3>2. CASE o # p
        BY <1>2, <2>2, <3>2 DEF TypeOK
      <3>3. QED
        BY <3>1, <3>2
    <2>3. QED
      BY <2>2 DEF NoNewDown
  <1>3. QED
    BY <1>1, <1>2 DEF Deliver

\* A DOWN for a reference nobody has had a DOWN for.
LEMMA FirstDown ==
    ASSUME TypeOK, DownAtMostOnce,
           NEW p \in Pid, NEW ref \in Ref, NEW from \in Pid,
           NEW reason \in ExitReason, Deliver(p, DownMsg(ref, from, reason)),
           \A q \in Pid : ~DownDelivered(q, ref)
    PROVE  /\ DownAtMostOnce'
           /\ \A q \in Pid, r \in Ref :
                  DownDelivered(q, r)' => DownDelivered(q, r) \/ (q = p /\ r = ref)
  <1>1. CASE mailbox' = mailbox
    BY <1>1 DEF DownAtMostOnce, DownDelivered
  <1>2. CASE mailbox' =
                 [mailbox EXCEPT ![p] = Append(@, DownMsg(ref, from, reason))]
    <2> DEFINE n == Len(mailbox[p]) + 1
    <2>1. mailbox[p] \in Seq(Message)
      BY DEF TypeOK
    <2>2. /\ DOMAIN mailbox'[p] = 1 .. n
          /\ DOMAIN mailbox[p] = 1 .. Len(mailbox[p])
          /\ mailbox'[p][n] = DownMsg(ref, from, reason)
          /\ \A i \in 1 .. n : i # n => mailbox'[p][i] = mailbox[p][i]
      BY <1>2, <2>1 DEF TypeOK
    <2>3. \A q \in Pid : q # p => mailbox'[q] = mailbox[q]
      BY <1>2 DEF TypeOK
    <2>4. ASSUME NEW q \in Pid, NEW i \in DOMAIN mailbox'[q],
                 mailbox'[q][i].kind = "Down"
          PROVE  \/ /\ i \in DOMAIN mailbox[q]
                    /\ mailbox'[q][i] = mailbox[q][i]
                    /\ mailbox'[q][i].ref # ref
                 \/ q = p /\ i = n /\ mailbox'[q][i].ref = ref
      <3>1. CASE q = p /\ i = n
        BY <2>2, <3>1 DEF DownMsg
      <3>2. CASE ~(q = p /\ i = n)
        <4>1. i \in DOMAIN mailbox[q] /\ mailbox'[q][i] = mailbox[q][i]
          BY <2>1, <2>2, <2>3, <3>2
        <4>2. ~IsDown(mailbox[q][i], ref)
          BY <4>1 DEF DownDelivered
        <4>3. QED
          BY <2>4, <4>1, <4>2 DEF IsDown
      <3>3. QED
        BY <3>1, <3>2
    <2>5. DownAtMostOnce'
      <3> SUFFICES ASSUME NEW q \in Pid, NEW o \in Pid,
                          NEW i \in DOMAIN mailbox'[q],
                          NEW j \in DOMAIN mailbox'[o],
                          mailbox'[q][i].kind = "Down",
                          mailbox'[o][j].kind = "Down",
                          mailbox'[o][j].ref = mailbox'[q][i].ref
                   PROVE  q = o /\ i = j
        BY DEF DownAtMostOnce, IsDown
      <3>1. CASE mailbox'[q][i].ref = ref
        BY <2>4, <3>1
      <3>2. CASE mailbox'[q][i].ref # ref
        <4>1. /\ i \in DOMAIN mailbox[q] /\ mailbox'[q][i] = mailbox[q][i]
              /\ j \in DOMAIN mailbox[o] /\ mailbox'[o][j] = mailbox[o][j]
          BY <2>4, <3>2
        <4>2. QED
          BY <4>1 DEF DownAtMostOnce, IsDown
      <3>3. QED
        BY <3>1, <3>2
    <2>6. ASSUME NEW q \in Pid, NEW r \in Ref, DownDelivered(q, r)'
          PROVE  DownDelivered(q, r) \/ (q = p /\ r = ref)
      <3>1. PICK i \in DOMAIN mailbox'[q] :
                mailbox'[q][i].kind = "Down" /\ mailbox'[q][i].ref = r
        BY <2>6 DEF DownDelivered, IsDown
      <3>2. CASE r = ref
        BY <2>4, <3>1, <3>2
      <3>3. CASE r # ref
        BY <2>4, <3>1, <3>3 DEF DownDelivered, IsDown
      <3>4. QED
        BY <3>2, <3>3
    <2>7. QED
      BY <2>5, <2>6
  <1>3. QED
    BY <1>1, <1>2 DEF Deliver

\* A new reference: the caller of monitor or spawn_monitor is its one holder.
LEMMA NewRefDown ==
    ASSUME TypeOK, DownInv, NEW p \in Pid, nextRef \in Ref,
           nextRef' = nextRef + 1, mailbox' = mailbox, exitMons' = exitMons,
           pc[p] = "idle", arg'[p].ref = nextRef,
           \A q \in Pid, ref \in Ref :
               /\ q # p /\ Asking(q, ref)' => Asking(q, ref)
               /\ Armed(q, ref)' => Armed(q, ref)
    PROVE  DownInv'
  <1>1. DownAtMostOnce'
    BY DEF DownInv, DownAtMostOnce
  <1>2. /\ \A q \in Pid, ref \in Ref :
               /\ DownDelivered(q, ref)' <=> DownDelivered(q, ref)
               /\ Pending(q, ref)' <=> Pending(q, ref)
        /\ \A ref \in Ref : Asking(p, ref)' => ref = nextRef
    BY DEF DownDelivered, Pending, Asking
  <1>3. \A q \in Pid : /\ ~Asking(q, nextRef) /\ ~Armed(q, nextRef)
                       /\ ~Pending(q, nextRef) /\ ~DownDelivered(q, nextRef)
    <2>1. nextRef >= nextRef
      BY DEF TypeOK
    <2>2. QED
      BY <2>1 DEF DownInv, DownRightIsUnique
  <1>4. \A ref \in Ref : ref >= nextRef' => ref >= nextRef /\ ref # nextRef
    BY BoundAssumption DEF TypeOK, Ref
  <1>5. DownRightIsUnique'
    BY <1>2, <1>3, <1>4 DEF DownInv, DownRightIsUnique
  <1>6. QED
    BY <1>1, <1>5 DEF DownInv

LEMMA DownInit == Init => DownInv
  BY DEF Init, DownInv, DownRightIsUnique, DownAtMostOnce, Asking, Armed,
         Pending, DownDelivered, SnapshotTaken

\* The call to monitor hands its right to the target, or uses it at once.
LEMMA MonitorTargetDown ==
    ASSUME TypeOK, DownInv, NEW p \in Pid, MonitorTarget(p)
    PROVE  DownInv'
  <1> DEFINE target == arg[p].pid
             ref == arg[p].ref
  <1>1. target \in Pid /\ ref \in Ref /\ Asking(p, ref)
    BY DEF TypeOK, MonitorTarget, Asking
  <1>2. /\ \A q \in Pid, r \in Ref : Asking(q, r)' => Asking(q, r) /\ q # p
        /\ \A q \in Pid, r \in Ref : Pending(q, r)' <=> Pending(q, r)
        /\ exitMons' = exitMons /\ nextRef' = nextRef
    BY DEF TypeOK, MonitorTarget, Return, Goto, Asking, Pending, exitVars
  <1>3. \A q \in Pid : SnapshotTaken(q)' <=> SnapshotTaken(q)
    BY DEF TypeOK, MonitorTarget, Return, Goto, SnapshotTaken
  <1>4. \A q \in Pid : /\ q # p => ~Asking(q, ref)
                       /\ ~Armed(q, ref) /\ ~Pending(q, ref)
                       /\ ~DownDelivered(q, ref)
    BY <1>1 DEF DownInv, DownRightIsUnique
  <1>5. ~(ref >= nextRef)
    BY <1>1 DEF DownInv, DownRightIsUnique
  <1>6. CASE Get(target)
    <2>1. monitoredBy' = AddMonitoredBy(target, ref, p) /\ mailbox' = mailbox
      BY <1>6 DEF MonitorTarget
    <2>2. \A q \in Pid, r \in Ref :
              Armed(q, r)' => Armed(q, r) \/ (q = target /\ r = ref)
      BY <1>1, <1>3, <2>1 DEF TypeOK, AddMonitoredBy, Armed
    <2>3. /\ DownAtMostOnce'
          /\ \A q \in Pid, r \in Ref : DownDelivered(q, r)' <=> DownDelivered(q, r)
      BY <2>1 DEF DownInv, DownAtMostOnce, DownDelivered
    <2>4. DownRightIsUnique'
      BY <1>1, <1>2, <1>4, <1>5, <2>2, <2>3 DEF DownInv, DownRightIsUnique
    <2>5. QED
      BY <2>3, <2>4 DEF DownInv
  <1>7. CASE ~Get(target)
    <2>1. monitoredBy' = monitoredBy /\ Deliver(p, DownMsg(ref, target, "noproc"))
      BY <1>7 DEF MonitorTarget
    <2>2. \A q \in Pid, r \in Ref : Armed(q, r)' <=> Armed(q, r)
      BY <1>3, <2>1 DEF Armed
    <2>3. /\ DownAtMostOnce'
          /\ \A q \in Pid, r \in Ref :
                 DownDelivered(q, r)' => DownDelivered(q, r) \/ (q = p /\ r = ref)
      BY <1>1, <1>4, <2>1, FirstDown DEF DownInv
    <2>4. DownRightIsUnique'
      BY <1>1, <1>2, <1>4, <1>5, <2>2, <2>3 DEF DownInv, DownRightIsUnique
    <2>5. QED
      BY <2>3, <2>4 DEF DownInv
  <1>8. QED
    BY <1>6, <1>7

\* spawn_monitor hands its right to the child, or drops it.
LEMMA SpawnMonitorChildDown ==
    ASSUME TypeOK, DownInv, NEW p \in Pid, SpawnMonitorChild(p)
    PROVE  DownInv'
  <1> DEFINE child == arg[p].pid
             ref == arg[p].ref
  <1>1. child \in Pid /\ ref \in Ref /\ Asking(p, ref)
    BY DEF TypeOK, SpawnMonitorChild, Asking
  <1>2. /\ \A q \in Pid, r \in Ref : Asking(q, r)' => Asking(q, r) /\ q # p
        /\ \A q \in Pid, r \in Ref : Pending(q, r)' <=> Pending(q, r)
        /\ exitMons' = exitMons /\ nextRef' = nextRef /\ mailbox' = mailbox
    BY DEF TypeOK, SpawnMonitorChild, Return, Goto, Asking, Pending, exitVars
  <1>3. \A q \in Pid : SnapshotTaken(q)' <=> SnapshotTaken(q)
    BY DEF TypeOK, SpawnMonitorChild, Return, Goto, SnapshotTaken
  <1>4. \A q \in Pid : /\ q # p => ~Asking(q, ref)
                       /\ ~Armed(q, ref) /\ ~Pending(q, ref)
                       /\ ~DownDelivered(q, ref)
    BY <1>1 DEF DownInv, DownRightIsUnique
  <1>5. ~(ref >= nextRef)
    BY <1>1 DEF DownInv, DownRightIsUnique
  <1>6. monitoredBy' = monitoredBy \/ monitoredBy' = AddMonitoredBy(child, ref, p)
    BY DEF SpawnMonitorChild
  <1>7. \A q \in Pid, r \in Ref :
            Armed(q, r)' => Armed(q, r) \/ (q = child /\ r = ref)
    BY <1>1, <1>3, <1>6 DEF TypeOK, AddMonitoredBy, Armed
  <1>8. /\ DownAtMostOnce'
        /\ \A q \in Pid, r \in Ref : DownDelivered(q, r)' <=> DownDelivered(q, r)
    BY <1>2 DEF DownInv, DownAtMostOnce, DownDelivered
  <1>9. DownRightIsUnique'
    BY <1>1, <1>2, <1>4, <1>5, <1>7, <1>8 DEF DownInv, DownRightIsUnique
  <1>10. QED
    BY <1>8, <1>9 DEF DownInv

\* The snapshot turns every armed monitor into a pending one.
LEMMA ExitBeginDown ==
    ASSUME TypeOK, DownInv, NEW p \in Pid, ExitBegin(p)
    PROVE  DownInv'
  <1>1. /\ nextRef' = nextRef /\ mailbox' = mailbox /\ monitoredBy' = monitoredBy
        /\ pc[p] = "exit" /\ ~SnapshotTaken(p) /\ SnapshotTaken(p)'
        /\ \A q \in Pid : q # p => (SnapshotTaken(q)' <=> SnapshotTaken(q))
        /\ \A q \in Pid, r \in Ref : Asking(q, r)' => Asking(q, r)
    BY DEF TypeOK, ExitBegin, SnapshotTaken, Asking
  <1>2. \A q \in Pid, r \in Ref : Armed(q, r)' => Armed(q, r) /\ q # p
    BY <1>1 DEF Armed
  <1>3. /\ DownAtMostOnce'
        /\ \A q \in Pid, r \in Ref : DownDelivered(q, r)' <=> DownDelivered(q, r)
    BY <1>1 DEF DownInv, DownAtMostOnce, DownDelivered
  <1>4. CASE exitMons' = exitMons
    <2>1. \A q \in Pid, r \in Ref : Pending(q, r)' <=> Pending(q, r)
      BY <1>4 DEF Pending
    <2>2. DownRightIsUnique'
      BY <1>1, <1>2, <1>3, <1>4, <2>1 DEF DownInv, DownRightIsUnique
    <2>3. QED
      BY <1>3, <2>2 DEF DownInv
  <1>5. CASE exitMons' = [exitMons EXCEPT ![p] = MonitorSnapshot(p)]
    <2>1. \A q \in Pid : q # p => exitMons'[q] = exitMons[q]
      BY <1>5 DEF TypeOK
    <2>2. exitMons'[p] = MonitorSnapshot(p)
      BY <1>5 DEF TypeOK
    <2>3. \A r \in Ref, o \in Pid :
              <<r, o>> \in exitMons'[p] => monitoredBy[p][r] = o /\ Armed(p, r)
      BY <1>1, <2>2, NoneAssumption DEF MonitorSnapshot, Armed
    <2>4. \A q \in Pid, r \in Ref :
              Pending(q, r)' => Pending(q, r) \/ (q = p /\ Armed(p, r))
      BY <2>1, <2>3 DEF Pending
    <2>5. \A q \in Pid, r \in Ref, o1, o2 \in Pid :
              <<r, o1>> \in exitMons'[q] /\ <<r, o2>> \in exitMons'[q] => o1 = o2
      BY <2>1, <2>3 DEF DownInv, DownRightIsUnique
    <2>6. \A q \in Pid, r \in Ref :
              q # p /\ Pending(q, r)' => Pending(q, r) /\ ~Armed(p, r)
      BY <2>4 DEF DownInv, DownRightIsUnique
    <2>7. ASSUME NEW r \in Ref, Pending(p, r)', ~Armed(p, r)
          PROVE  FALSE
      BY <2>3, <2>7 DEF Pending
    <2>8. DownRightIsUnique'
      BY <1>1, <1>2, <1>3, <2>4, <2>5, <2>6, <2>7 DEF DownInv, DownRightIsUnique
    <2>9. QED
      BY <1>3, <2>8 DEF DownInv
  <1>6. QED
    BY <1>4, <1>5 DEF ExitBegin, exitVars

\* A pending monitor becomes a DOWN.
LEMMA NotifyMonitorDown ==
    ASSUME TypeOK, DownInv, NEW p \in Pid, NEW ref \in Ref, NEW owner \in Pid,
           NotifyMonitor(p, ref, owner)
    PROVE  DownInv'
  <1>1. /\ nextRef' = nextRef /\ monitoredBy' = monitoredBy /\ pc' = pc
        /\ arg' = arg
        /\ <<ref, owner>> \in exitMons[p]
        /\ exitMons' = [exitMons EXCEPT ![p] = @ \ {<<ref, owner>>}]
    BY DEF NotifyMonitor
  <1>2. \A q \in Pid, r \in Ref : /\ Asking(q, r)' <=> Asking(q, r)
                                  /\ Armed(q, r)' <=> Armed(q, r)
    BY <1>1 DEF Asking, Armed, SnapshotTaken
  <1>3. \A q \in Pid : /\ ~Asking(q, ref) /\ ~Armed(q, ref)
                       /\ ~DownDelivered(q, ref)
                       /\ q # p => ~Pending(q, ref)
    BY <1>1 DEF DownInv, DownRightIsUnique, Pending
  <1>4. \A q \in Pid : exitMons'[q] \subseteq exitMons[q]
    BY <1>1 DEF TypeOK
  <1>5. ~(ref >= nextRef)
    BY <1>1 DEF DownInv, DownRightIsUnique, Pending
  <1>6. CASE Get(owner)
    <2>1. Deliver(owner, DownMsg(ref, p, "Normal"))
      BY <1>6 DEF NotifyMonitor
    <2>2. /\ DownAtMostOnce'
          /\ \A q \in Pid, r \in Ref :
                 DownDelivered(q, r)' =>
                     DownDelivered(q, r) \/ (q = owner /\ r = ref)
      BY <1>3, <2>1, FirstDown DEF DownInv
    <2>3. \A q \in Pid, r \in Ref : Pending(q, r)' => Pending(q, r)
      BY <1>4 DEF Pending
    <2>4. \A o \in Pid : <<ref, o>> \in exitMons[p] => o = owner
      BY <1>1 DEF DownInv, DownRightIsUnique
    <2>5. \A q \in Pid : ~Pending(q, ref)'
      <3>1. exitMons'[p] = exitMons[p] \ {<<ref, owner>>}
        BY <1>1 DEF TypeOK
      <3>2. ~Pending(p, ref)'
        BY <2>4, <3>1 DEF Pending
      <3>3. ASSUME NEW q \in Pid, q # p PROVE ~Pending(q, ref)'
        <4>1. ~Pending(q, ref)
          BY <1>3, <3>3
        <4>2. exitMons'[q] \subseteq exitMons[q]
          BY <1>4
        <4>3. QED
          BY <4>1, <4>2 DEF Pending
      <3>4. QED
        BY <3>2, <3>3
    <2>6. \A q \in Pid, r \in Ref : Pending(q, r)' => r # ref
      BY <2>5
    <2>7. DownRightIsUnique'
      BY <1>1, <1>2, <1>3, <1>4, <1>5, <2>2, <2>3, <2>6 DEF DownInv, DownRightIsUnique
    <2>8. QED
      BY <2>2, <2>7 DEF DownInv
  <1>7. CASE ~Get(owner)
    <2>1. NoNewDown
      BY <1>7 DEF NotifyMonitor, NoNewDown
    <2>2. \A q \in Pid, r \in Ref : /\ Asking(q, r)' => Asking(q, r)
                                    /\ Armed(q, r)' => Armed(q, r)
      BY <1>1 DEF Asking, Armed, SnapshotTaken
    <2>3. QED
      BY <1>1, <1>4, <2>1, <2>2, DownFrame
  <1>8. QED
    BY <1>6, <1>7

\* A step that sends nothing, takes no reference and arms no monitor.
LEMMA QuietDown ==
    ASSUME DownInv, nextRef' = nextRef, mailbox' = mailbox, exitMons' = exitMons,
           \A q \in Pid, r \in Ref :
               /\ Asking(q, r)' => Asking(q, r)
               /\ monitoredBy'[q][r] # None => monitoredBy[q][r] # None,
           \A q \in Pid : SnapshotTaken(q) => SnapshotTaken(q)'
    PROVE  DownInv'
  <1>1. NoNewDown
    BY DEF NoNewDown
  <1>2. \A q \in Pid, r \in Ref : /\ Asking(q, r)' => Asking(q, r)
                                  /\ Armed(q, r)' => Armed(q, r)
    BY DEF Armed
  <1>3. \A q \in Pid : exitMons'[q] \subseteq exitMons[q]
    OBVIOUS
  <1>4. QED
    BY <1>1, <1>2, <1>3, DownFrame

LEMMA DownNext == TypeOK /\ DownInv /\ [Next]_vars => DownInv'
  <1> SUFFICES ASSUME TypeOK, DownInv, [Next]_vars
               PROVE  DownInv'
    OBVIOUS
  <1>1. ASSUME NEW p \in Pid, Spawn(p)
        PROVE  DownInv'
    BY <1>1, QuietDown
       DEF TypeOK, Spawn, handleVars, exitVars, Asking, SnapshotTaken
  <1>2. ASSUME NEW p \in Pid, NEW q \in Pid, SpawnLink(p, q)
        PROVE  DownInv'
    BY <1>2, QuietDown
       DEF TypeOK, SpawnLink, SpawnChild, Idle, handleVars, exitVars, Asking,
           SnapshotTaken
  <1>3. ASSUME NEW p \in Pid, NEW q \in Pid, SpawnMonitor(p, q)
        PROVE  DownInv'
    <2>1. /\ nextRef \in Ref /\ nextRef' = nextRef + 1 /\ mailbox' = mailbox
          /\ exitMons' = exitMons /\ pc[p] = "idle" /\ arg'[p].ref = nextRef
      BY <1>3 DEF TypeOK, SpawnMonitor, SpawnChild, Idle, NewRef, exitVars
    <2>2. \A o \in Pid, r \in Ref :
              /\ o # p /\ Asking(o, r)' => Asking(o, r)
              /\ Armed(o, r)' => Armed(o, r)
      BY <1>3 DEF TypeOK, SpawnMonitor, SpawnChild, Idle, handleVars, Asking, Armed,
                  SnapshotTaken
    <2>3. QED
      BY <2>1, <2>2, NewRefDown
  <1>4. ASSUME NEW p \in Pid, NEW q \in Pid, Link(p, q) \/ Unlink(p, q)
        PROVE  DownInv'
    BY <1>4, QuietDown
       DEF TypeOK, Link, Unlink, Goto, Idle, exitVars, Asking, SnapshotTaken
  <1>5. ASSUME NEW p \in Pid, NEW q \in Pid, Monitor(p, q)
        PROVE  DownInv'
    <2>1. /\ nextRef \in Ref /\ nextRef' = nextRef + 1 /\ mailbox' = mailbox
          /\ exitMons' = exitMons /\ pc[p] = "idle" /\ arg'[p].ref = nextRef
      BY <1>5 DEF TypeOK, Monitor, Goto, Idle, NewRef, exitVars
    <2>2. \A o \in Pid, r \in Ref :
              /\ o # p /\ Asking(o, r)' => Asking(o, r)
              /\ Armed(o, r)' => Armed(o, r)
      BY <1>5 DEF TypeOK, Monitor, Goto, Idle, Asking, Armed, SnapshotTaken
    <2>3. QED
      BY <2>1, <2>2, NewRefDown
  <1>6. ASSUME NEW p \in Pid, NEW q \in Pid, NEW reason \in Reason, Exit(p, q, reason)
        PROVE  DownInv'
    <2>1. NoNewDown
      <3>1. CASE mailbox' = mailbox
        BY <3>1 DEF NoNewDown
      <3>2. CASE Deliver(q, ExitMsg(p, reason))
        BY <3>2, ExitMsgNoNewDown, ReasonAssumption DEF ExitReason
      <3>3. QED
        BY <1>6, <3>1, <3>2 DEF Exit
    <2>2. /\ nextRef' = nextRef /\ monitoredBy' = monitoredBy /\ pc' = pc
          /\ arg' = arg /\ exitMons' = exitMons
      BY <1>6 DEF Exit, exitVars
    <2>3. \A o \in Pid, r \in Ref : /\ Asking(o, r)' => Asking(o, r)
                                    /\ Armed(o, r)' => Armed(o, r)
      BY <2>2 DEF Asking, Armed, SnapshotTaken
    <2>4. \A o \in Pid : exitMons'[o] \subseteq exitMons[o]
      BY <2>2
    <2>5. QED
      BY <2>1, <2>2, <2>3, <2>4, DownFrame
  <1>7. ASSUME NEW p \in Pid, NEW q \in Pid, NEW name \in Name, Register(p, name, q)
        PROVE  DownInv'
    BY <1>7, QuietDown
       DEF TypeOK, Register, Goto, Idle, handleVars, exitVars, Asking, SnapshotTaken
  <1>8. ASSUME NEW p \in Pid, NEW trap \in BOOLEAN, SetTrapExit(p, trap)
        PROVE  DownInv'
    BY <1>8, QuietDown DEF SetTrapExit, exitVars, Asking, SnapshotTaken
  <1>9. ASSUME NEW p \in Pid, NEW ref \in Ref, Demonitor(p, ref)
        PROVE  DownInv'
    BY <1>9, QuietDown DEF TypeOK, Demonitor, Goto, Idle, exitVars, Asking, SnapshotTaken
  <1>10. ASSUME NEW p \in Pid, NEW name \in Name, UnregisterName(p, name)
         PROVE  DownInv'
    BY <1>10, QuietDown DEF UnregisterName, handleVars, exitVars, Asking, SnapshotTaken
  <1>11. ASSUME NEW p \in Pid,
                SpawnLinkParent(p) \/ SpawnLinkChild(p) \/ LinkOther(p) \/ UnlinkOther(p)
         PROVE  DownInv'
    BY <1>11, QuietDown
       DEF TypeOK, SpawnLinkParent, SpawnLinkChild, LinkOther, UnlinkOther, Return,
           Goto, exitVars, Asking, SnapshotTaken
  <1>12. ASSUME NEW p \in Pid, SpawnMonitorParent(p)
         PROVE  DownInv'
    BY <1>12, QuietDown
       DEF TypeOK, SpawnMonitorParent, exitVars, Asking, SnapshotTaken
  <1>13. ASSUME NEW p \in Pid, DemonitorTarget(p)
         PROVE  DownInv'
    <2>1. \A q \in Pid, r \in Ref :
              monitoredBy'[q][r] # None => monitoredBy[q][r] # None
      BY <1>13 DEF TypeOK, DemonitorTarget, RemoveMonitoredBy
    <2>2. \A q \in Pid, r \in Ref : Asking(q, r)' => Asking(q, r)
      BY <1>13 DEF TypeOK, DemonitorTarget, Return, Goto, Asking
    <2>3. \A q \in Pid : SnapshotTaken(q) => SnapshotTaken(q)'
      BY <1>13 DEF TypeOK, DemonitorTarget, Return, Goto, SnapshotTaken
    <2>4. nextRef' = nextRef /\ mailbox' = mailbox /\ exitMons' = exitMons
      BY <1>13 DEF DemonitorTarget, exitVars
    <2>5. QED
      BY <2>1, <2>2, <2>3, <2>4, QuietDown
  <1>14. ASSUME NEW p \in Pid, RegisterInsert(p)
         PROVE  DownInv'
    BY <1>14, QuietDown
       DEF TypeOK, RegisterInsert, Return, Goto, handleVars, exitVars, Asking,
           SnapshotTaken
  <1>15. ASSUME NEW p \in Pid, BodyReturns(p) \/ BodyPanics(p)
         PROVE  DownInv'
    BY <1>15, QuietDown
       DEF TypeOK, BodyReturns, BodyPanics, Idle, handleVars, exitVars, Asking,
           SnapshotTaken
  <1>16. ASSUME NEW p \in Pid, NEW linked \in Pid, NotifyLink(p, linked)
         PROVE  DownInv'
    <2>1. NoNewDown
      <3>1. CASE mailbox' = mailbox
        BY <3>1 DEF NoNewDown
      <3>2. CASE Deliver(linked, ExitMsg(p, "Normal"))
        BY <3>2, ExitMsgNoNewDown DEF ExitReason
      <3>3. QED
        BY <1>16, <3>1, <3>2 DEF NotifyLink, SignalLink
    <2>2. /\ nextRef' = nextRef /\ monitoredBy' = monitoredBy /\ pc' = pc
          /\ arg' = arg /\ exitMons' = exitMons
      BY <1>16 DEF NotifyLink
    <2>3. \A o \in Pid, r \in Ref : /\ Asking(o, r)' => Asking(o, r)
                                    /\ Armed(o, r)' => Armed(o, r)
      BY <2>2 DEF Asking, Armed, SnapshotTaken
    <2>4. \A o \in Pid : exitMons'[o] \subseteq exitMons[o]
      BY <2>2
    <2>5. QED
      BY <2>1, <2>2, <2>3, <2>4, DownFrame
  <1>17. ASSUME NEW p \in Pid, UnregisterNames(p) \/ UnregisterProcess(p)
         PROVE  DownInv'
    BY <1>17, QuietDown
       DEF TypeOK, UnregisterNames, UnregisterProcess, handleVars, exitVars, Asking,
           SnapshotTaken
  <1>18. ASSUME NEW p \in Pid, NEW reason \in Reason, RuntimeExit(p, reason)
         PROVE  DownInv'
    BY <1>18, QuietDown DEF RuntimeExit, exitVars, Asking, SnapshotTaken
  <1>19. CASE UNCHANGED vars
    BY <1>19, QuietDown DEF vars, handleVars, exitVars, Asking, SnapshotTaken
  <1>20. QED
    BY <1>1, <1>2, <1>3, <1>4, <1>5, <1>6, <1>7, <1>8, <1>9, <1>10, <1>11, <1>12,
       <1>13, <1>14, <1>15, <1>16, <1>17, <1>18, <1>19, MonitorTargetDown,
       SpawnMonitorChildDown, ExitBeginDown, NotifyMonitorDown
       DEF Next, StartOp, FinishOp, HandleProcessExit

(***************************************************************************)
(* A monitor fires at most once, and the right to send its DOWN is never   *)
(* in two places: for any number of processes, references and operations.  *)
(***************************************************************************)
THEOREM AtMostOneDown == Spec => [](DownAtMostOnce /\ DownRightIsUnique)
  <1>1. DownInv => DownAtMostOnce /\ DownRightIsUnique
    BY DEF DownInv
  <1>2. QED
    BY <1>1, TypeCorrect, DownInit, DownNext, PTL DEF Spec

-----------------------------------------------------------------------------
\* What the three updates of one entry do to every entry.
LEMMA MonitorEntries ==
    ASSUME TypeOK, NEW p \in Pid, NEW ref \in Ref, NEW owner \in Pid,
           NEW q \in Pid, NEW r \in Ref
    PROVE  /\ RemoveMonitor(p, ref)[q][r] =
                  IF q = p /\ r = ref THEN None ELSE monitors[q][r]
           /\ RemoveMonitoredBy(p, ref)[q][r] =
                  IF q = p /\ r = ref THEN None ELSE monitoredBy[q][r]
           /\ AddMonitoredBy(p, ref, owner)[q][r] =
                  IF q = p /\ r = ref THEN owner ELSE monitoredBy[q][r]
  BY DEF TypeOK, RemoveMonitor, RemoveMonitoredBy, AddMonitoredBy

(***************************************************************************)
(* TaskInv: what a task may hold at each step.  A pid outside the registry *)
(* was never spawned or has ended; an operation, a link or a monitor is    *)
(* about a pid that was spawned; the reference in the locals is there only *)
(* during a monitor operation; a pid to come holds nothing.                *)
(***************************************************************************)
MonStep == {"monitor", "demonitor", "spawn_monitor", "child_monitor"}

InRegistry(p) == p \notin registered => pc[p] \in {"unborn", "ended"}
AboutSpawned(p) == pc[p] \in OpStep => Spawned(arg[p].pid)
RefInUse(p) == pc[p] \notin MonStep => arg[p].ref = 0
LinksSpawned(p) == \A q \in links[p] : Spawned(p) /\ Spawned(q)
MonitorsSpawned(p) ==
    \A ref \in Ref :
        monitors[p][ref] # None => Spawned(p) /\ Spawned(monitors[p][ref])

TaskOK(p) ==
    /\ InRegistry(p) /\ AboutSpawned(p) /\ RefInUse(p)
    /\ LinksSpawned(p) /\ MonitorsSpawned(p)

TaskInv == \A p \in Pid : TaskOK(p)

LEMMA TaskInit == Init => TaskInv
  <1> SUFFICES ASSUME Init, NEW p \in Pid PROVE TaskOK(p)
    BY DEF TaskInv
  <1>1. arg[p] = NoLocals /\ pc[p] = "unborn"
    BY DEF Init
  <1>2. links[p] = {}
    BY DEF Init
  <1>3. \A ref \in Ref : monitors[p][ref] = None
    BY DEF Init
  <1>4. QED
    BY <1>1, <1>2, <1>3
       DEF TaskOK, InRegistry, AboutSpawned, RefInUse, LinksSpawned, MonitorsSpawned

\* What a step adds to links and monitors ties spawned processes.
TiesSpawned ==
    \A p \in Pid :
        /\ \A q \in links'[p] : q \in links[p] \/ (Spawned(p) /\ Spawned(q))
        /\ \A ref \in Ref : monitors'[p][ref] # None =>
               \/ monitors'[p][ref] = monitors[p][ref]
               \/ Spawned(p) /\ Spawned(monitors'[p][ref])

LEMMA TiesFrame ==
    ASSUME TypeOK, TypeOK', TaskInv, TiesSpawned,
           \A q \in Pid : Spawned(q) => Spawned(q)', NEW o \in Pid
    PROVE  LinksSpawned(o)' /\ MonitorsSpawned(o)'
  <1>1. LinksSpawned(o) /\ MonitorsSpawned(o)
    BY DEF TaskInv, TaskOK
  <1>2. LinksSpawned(o)'
    <2> SUFFICES ASSUME NEW q \in links'[o] PROVE Spawned(o)' /\ Spawned(q)'
      BY DEF LinksSpawned
    <2>1. q \in Pid
      BY DEF TypeOK
    <2>2. Spawned(o) /\ Spawned(q)
      BY <1>1 DEF TiesSpawned, LinksSpawned
    <2>3. QED
      BY <2>1, <2>2
  <1>3. MonitorsSpawned(o)'
    <2> SUFFICES ASSUME NEW ref \in Ref, monitors'[o][ref] # None
                 PROVE  Spawned(o)' /\ Spawned(monitors[o][ref])'
      BY DEF MonitorsSpawned
    <2>1. monitors'[o][ref] \in Pid
      BY DEF TypeOK
    <2>2. Spawned(o) /\ Spawned(monitors'[o][ref])
      BY <1>1 DEF TiesSpawned, MonitorsSpawned
    <2>3. \A q \in Pid : Spawned(q) => pc'[q] # "unborn"
      BY DEF Spawned
    <2>4. QED
      BY <2>1, <2>2, <2>3 DEF Spawned
  <1>4. QED
    BY <1>2, <1>3

\* A step of the task of p itself.
LEMMA TaskStep ==
    ASSUME TypeOK, TypeOK', TaskInv, NEW p \in Pid, pc[p] \notin {"unborn", "ended"},
           NEW step \in Step \ {"unborn"}, NEW l \in Locals,
           pc' = [pc EXCEPT ![p] = step], arg' = [arg EXCEPT ![p] = l],
           step \in OpStep => l.pid \in Pid /\ Spawned(l.pid),
           step \notin MonStep => l.ref = 0,
           \/ registered' = registered
           \/ registered' = registered \ {p} /\ step = "ended",
           TiesSpawned
    PROVE  TaskInv'
  <1> SUFFICES ASSUME NEW o \in Pid PROVE TaskOK(o)'
    BY DEF TaskInv
  <1>1. TaskOK(o)
    BY DEF TaskInv
  <1>2. pc'[p] = step /\ arg'[p] = l
    BY DEF TypeOK
  <1>3. \A q \in Pid : q # p => pc'[q] = pc[q] /\ arg'[q] = arg[q]
    BY DEF TypeOK
  <1>4. \A q \in Pid : Spawned(q) => Spawned(q)'
    BY <1>2, <1>3 DEF Spawned
  <1>5. InRegistry(o)'
    BY <1>1, <1>2, <1>3 DEF TaskOK, InRegistry
  <1>6. AboutSpawned(o)'
    BY <1>1, <1>2, <1>3, <1>4 DEF TypeOK, TaskOK, AboutSpawned, Spawned
  <1>7. RefInUse(o)'
    BY <1>1, <1>2, <1>3 DEF TaskOK, RefInUse
  <1>8. LinksSpawned(o)' /\ MonitorsSpawned(o)'
    BY <1>4, TiesFrame
  <1>9. QED
    BY <1>5, <1>6, <1>7, <1>8 DEF TaskOK

\* A step in which no task moves on.
LEMMA TaskStay ==
    ASSUME TypeOK, TypeOK', TaskInv, pc' = pc, arg' = arg, registered' = registered,
           TiesSpawned
    PROVE  TaskInv'
  <1> SUFFICES ASSUME NEW o \in Pid PROVE TaskOK(o)'
    BY DEF TaskInv
  <1>1. InRegistry(o)' /\ AboutSpawned(o)' /\ RefInUse(o)'
    BY DEF TaskInv, TaskOK, InRegistry, AboutSpawned, RefInUse, Spawned
  <1>2. LinksSpawned(o)' /\ MonitorsSpawned(o)'
    BY TiesFrame DEF Spawned
  <1>3. QED
    BY <1>1, <1>2 DEF TaskOK

\* A new task, which its parent is about to link or to monitor.
LEMMA TaskChild ==
    ASSUME TypeOK, TypeOK', TaskInv, NEW p \in Pid, NEW c \in Pid, pc[p] = "idle",
           NEW step \in Step, NEW ref \in 0 .. MaxRef, SpawnChild(p, c, step, ref),
           step # "unborn", step \notin MonStep => ref = 0
    PROVE  TaskInv'
  <1> SUFFICES ASSUME NEW o \in Pid PROVE TaskOK(o)'
    BY DEF TaskInv
  <1>1. TaskOK(o) /\ TaskOK(c)
    BY DEF TaskInv
  <1>2. /\ p # c /\ pc'[p] = step /\ pc'[c] = "idle" /\ pc[c] = "unborn"
        /\ arg'[p].pid = c /\ arg'[p].ref = ref /\ arg'[c] = arg[c]
        /\ registered' = registered \cup {c}
        /\ links' = links /\ monitors' = monitors
    BY DEF TypeOK, SpawnChild, handleVars
  <1>3. \A q \in Pid : q # p /\ q # c => pc'[q] = pc[q] /\ arg'[q] = arg[q]
    BY DEF TypeOK, SpawnChild
  <1>4. \A q \in Pid : Spawned(q) => Spawned(q)'
    BY <1>2, <1>3 DEF Spawned
  <1>5. InRegistry(o)'
    BY <1>1, <1>2, <1>3 DEF TaskOK, InRegistry
  <1>6. AboutSpawned(o)'
    BY <1>1, <1>2, <1>3, <1>4 DEF TypeOK, TaskOK, AboutSpawned, Spawned
  <1>7. RefInUse(o)'
    BY <1>1, <1>2, <1>3 DEF TaskOK, RefInUse, MonStep
  <1>8. LinksSpawned(o)' /\ MonitorsSpawned(o)'
    BY <1>2, <1>4, TiesFrame DEF TiesSpawned
  <1>9. QED
    BY <1>5, <1>6, <1>7, <1>8 DEF TaskOK

LEMMA TaskNext == TypeOK /\ TypeOK' /\ TaskInv /\ [Next]_vars => TaskInv'
  <1> SUFFICES ASSUME TypeOK, TypeOK', TaskInv, [Next]_vars PROVE TaskInv'
    OBVIOUS
  <1> USE NoneAssumption, RefRange
  <1>1. ASSUME NEW p \in Pid, NEW q \in Pid, SpawnLink(p, q)
        PROVE  TaskInv'
    BY <1>1, TaskChild DEF SpawnLink, Idle, Step
  <1>2. ASSUME NEW p \in Pid, NEW q \in Pid, SpawnMonitor(p, q)
        PROVE  TaskInv'
    BY <1>2, TaskChild DEF SpawnMonitor, Idle, Step, MonStep
  <1>3. ASSUME NEW p \in Pid, NEW q \in Pid, Link(p, q)
        PROVE  TaskInv'
    <2> DEFINE l == [pid |-> q, ref |-> 0, name |-> None]
    <2>1. /\ pc' = [pc EXCEPT ![p] = "link"]
          /\ arg' = [arg EXCEPT ![p] = l]
          /\ pc[p] \notin {"unborn", "ended"}
          /\ registered' = registered
      BY <1>3 DEF TypeOK, Link, Goto, Idle, Spawned
    <2>2. l \in Locals
      BY <1>3 DEF TypeOK, Link, Goto, Idle, Spawned
    <2>3. /\ "link" \in OpStep => l.pid \in Pid /\ Spawned(l.pid)
          /\ "link" \notin MonStep => l.ref = 0
      BY <1>3 DEF MonStep, Link, Goto, Idle, Spawned
    <2>4. TiesSpawned
      BY <1>3, <2>3
         DEF TypeOK, TaskInv, TaskOK, AboutSpawned, TiesSpawned, Spawned, Link,
             Goto, Idle
    <2>5. QED
      BY <2>1, <2>2, <2>3, <2>4, TaskStep DEF Step, MonStep
  <1>4. ASSUME NEW p \in Pid, NEW q \in Pid, Unlink(p, q)
        PROVE  TaskInv'
    <2> DEFINE l == [pid |-> q, ref |-> 0, name |-> None]
    <2>1. /\ pc' = [pc EXCEPT ![p] = "unlink"]
          /\ arg' = [arg EXCEPT ![p] = l]
          /\ pc[p] \notin {"unborn", "ended"}
          /\ registered' = registered
      BY <1>4 DEF TypeOK, Unlink, Goto, Idle, Spawned
    <2>2. l \in Locals
      BY <1>4 DEF TypeOK, Unlink, Goto, Idle, Spawned
    <2>3. /\ "unlink" \in OpStep => l.pid \in Pid /\ Spawned(l.pid)
          /\ "unlink" \notin MonStep => l.ref = 0
      BY <1>4 DEF MonStep, Unlink, Goto, Idle, Spawned
    <2>4. TiesSpawned
      BY <1>4, <2>3
         DEF TypeOK, TaskInv, TaskOK, AboutSpawned, TiesSpawned, Spawned, Unlink,
             Goto, Idle
    <2>5. QED
      BY <2>1, <2>2, <2>3, <2>4, TaskStep DEF Step, MonStep
  <1>5. ASSUME NEW p \in Pid, NEW q \in Pid, Monitor(p, q)
        PROVE  TaskInv'
    <2> DEFINE l == [pid |-> q, ref |-> nextRef, name |-> None]
    <2>1. /\ pc' = [pc EXCEPT ![p] = "monitor"]
          /\ arg' = [arg EXCEPT ![p] = l]
          /\ pc[p] \notin {"unborn", "ended"}
          /\ registered' = registered
      BY <1>5 DEF TypeOK, Monitor, Goto, Idle, Spawned
    <2>2. l \in Locals
      BY <1>5 DEF TypeOK, Monitor, Goto, Idle, Spawned
    <2>3. /\ "monitor" \in OpStep => l.pid \in Pid /\ Spawned(l.pid)
          /\ "monitor" \notin MonStep => l.ref = 0
      BY <1>5 DEF MonStep, Monitor, Goto, Idle, Spawned
    <2>4. TiesSpawned
      BY <1>5, <2>3
         DEF TypeOK, TaskInv, TaskOK, AboutSpawned, TiesSpawned, Spawned, Monitor,
             Goto, Idle
    <2>5. QED
      BY <2>1, <2>2, <2>3, <2>4, TaskStep DEF Step, MonStep
  <1>6. ASSUME NEW p \in Pid, NEW q \in Pid, NEW name \in Name, Register(p, name, q)
        PROVE  TaskInv'
    <2> DEFINE l == [pid |-> q, ref |-> 0, name |-> name]
    <2>1. /\ pc' = [pc EXCEPT ![p] = "register"]
          /\ arg' = [arg EXCEPT ![p] = l]
          /\ pc[p] \notin {"unborn", "ended"}
          /\ registered' = registered
      BY <1>6 DEF TypeOK, Register, Goto, Idle, Spawned, handleVars
    <2>2. l \in Locals
      BY <1>6 DEF TypeOK, Register, Goto, Idle, Spawned, handleVars
    <2>3. /\ "register" \in OpStep => l.pid \in Pid /\ Spawned(l.pid)
          /\ "register" \notin MonStep => l.ref = 0
      BY <1>6 DEF MonStep, Register, Goto, Idle, Spawned, handleVars
    <2>4. TiesSpawned
      BY <1>6, <2>3
         DEF TypeOK, TaskInv, TaskOK, AboutSpawned, TiesSpawned, Spawned, Register,
             Goto, Idle, handleVars
    <2>5. QED
      BY <2>1, <2>2, <2>3, <2>4, TaskStep DEF Step, MonStep
  <1>7. ASSUME NEW p \in Pid, NEW ref \in Ref, Demonitor(p, ref)
        PROVE  TaskInv'
    <2> DEFINE l == [pid |-> monitors[p][ref], ref |-> ref, name |-> None]
    <2>1. /\ pc' = [pc EXCEPT ![p] = "demonitor"]
          /\ arg' = [arg EXCEPT ![p] = l]
          /\ pc[p] \notin {"unborn", "ended"}
          /\ registered' = registered
      BY <1>7 DEF TypeOK, Demonitor, RemoveMonitor, Goto, Idle
    <2>2. l \in Locals
      BY <1>7 DEF TypeOK, Demonitor, RemoveMonitor, Goto, Idle
    <2>3. l.pid \in Pid /\ Spawned(l.pid)
      BY <1>7
         DEF TypeOK, TaskInv, TaskOK, MonitorsSpawned, Demonitor, RemoveMonitor,
             Goto, Idle
    <2>4. TiesSpawned
      BY <1>7, <2>3
         DEF TypeOK, TaskInv, TaskOK, AboutSpawned, TiesSpawned, Spawned, Demonitor,
             RemoveMonitor, Goto, Idle
    <2>5. QED
      BY <2>1, <2>2, <2>3, <2>4, TaskStep DEF Step, MonStep
  <1>8. ASSUME NEW p \in Pid, SpawnLinkParent(p)
        PROVE  TaskInv'
    <2> DEFINE l == arg[p]
    <2>1. /\ pc' = [pc EXCEPT ![p] = "child_link"]
          /\ arg' = [arg EXCEPT ![p] = l]
          /\ pc[p] \notin {"unborn", "ended"}
          /\ registered' = registered
      BY <1>8 DEF TypeOK, SpawnLinkParent
    <2>2. l \in Locals /\ TaskOK(p) /\ LocalsOK(p)
      BY DEF TypeOK, TaskInv
    <2>3. /\ "child_link" \in OpStep => l.pid \in Pid /\ Spawned(l.pid)
          /\ "child_link" \notin MonStep => l.ref = 0
      BY <1>8, <2>2 DEF TaskOK, AboutSpawned, RefInUse, MonStep, SpawnLinkParent
    <2>4. TiesSpawned
      BY <1>8, <2>3
         DEF TypeOK, TaskInv, TaskOK, AboutSpawned, TiesSpawned, Spawned,
             SpawnLinkParent
    <2>5. QED
      BY <2>1, <2>2, <2>3, <2>4, TaskStep DEF Step, MonStep
  <1>9. ASSUME NEW p \in Pid, SpawnMonitorParent(p)
        PROVE  TaskInv'
    <2> DEFINE l == arg[p]
    <2>1. /\ pc' = [pc EXCEPT ![p] = "child_monitor"]
          /\ arg' = [arg EXCEPT ![p] = l]
          /\ pc[p] \notin {"unborn", "ended"}
          /\ registered' = registered
      BY <1>9 DEF TypeOK, SpawnMonitorParent
    <2>2. l \in Locals /\ TaskOK(p) /\ LocalsOK(p)
      BY DEF TypeOK, TaskInv
    <2>3. /\ "child_monitor" \in OpStep => l.pid \in Pid /\ Spawned(l.pid)
          /\ "child_monitor" \notin MonStep => l.ref = 0
      BY <1>9, <2>2 DEF TaskOK, AboutSpawned, RefInUse, MonStep, SpawnMonitorParent
    <2>4. TiesSpawned
      BY <1>9, <2>3
         DEF TypeOK, TaskInv, TaskOK, AboutSpawned, TiesSpawned, Spawned,
             SpawnMonitorParent
    <2>5. QED
      BY <2>1, <2>2, <2>3, <2>4, TaskStep DEF Step, MonStep
  <1>10. ASSUME NEW p \in Pid, SpawnLinkChild(p)
        PROVE  TaskInv'
    <2> DEFINE l == NoLocals
    <2>1. /\ pc' = [pc EXCEPT ![p] = "idle"]
          /\ arg' = [arg EXCEPT ![p] = l]
          /\ pc[p] \notin {"unborn", "ended"}
          /\ registered' = registered
      BY <1>10 DEF TypeOK, SpawnLinkChild, Return, Goto, RemoveMonitor
    <2>2. l \in Locals
      BY <1>10 DEF TypeOK, SpawnLinkChild, Return, Goto, RemoveMonitor
    <2>3. /\ "idle" \in OpStep => l.pid \in Pid /\ Spawned(l.pid)
          /\ "idle" \notin MonStep => l.ref = 0
      BY <1>10 DEF MonStep, SpawnLinkChild, Return, Goto, RemoveMonitor
    <2>4. TiesSpawned
      BY <1>10, <2>3
         DEF TypeOK, TaskInv, TaskOK, AboutSpawned, TiesSpawned, Spawned,
             SpawnLinkChild, Return, Goto, RemoveMonitor
    <2>5. QED
      BY <2>1, <2>2, <2>3, <2>4, TaskStep DEF Step, MonStep
  <1>11. ASSUME NEW p \in Pid, SpawnMonitorChild(p)
        PROVE  TaskInv'
    <2> DEFINE l == NoLocals
    <2>1. /\ pc' = [pc EXCEPT ![p] = "idle"]
          /\ arg' = [arg EXCEPT ![p] = l]
          /\ pc[p] \notin {"unborn", "ended"}
          /\ registered' = registered
      BY <1>11 DEF TypeOK, SpawnMonitorChild, Return, Goto, RemoveMonitor
    <2>2. l \in Locals
      BY <1>11 DEF TypeOK, SpawnMonitorChild, Return, Goto, RemoveMonitor
    <2>3. /\ "idle" \in OpStep => l.pid \in Pid /\ Spawned(l.pid)
          /\ "idle" \notin MonStep => l.ref = 0
      BY <1>11 DEF MonStep, SpawnMonitorChild, Return, Goto, RemoveMonitor
    <2>4. TiesSpawned
      BY <1>11, <2>3
         DEF TypeOK, TaskInv, TaskOK, AboutSpawned, TiesSpawned, Spawned,
             SpawnMonitorChild, Return, Goto, RemoveMonitor
    <2>5. QED
      BY <2>1, <2>2, <2>3, <2>4, TaskStep DEF Step, MonStep
  <1>12. ASSUME NEW p \in Pid, LinkOther(p)
        PROVE  TaskInv'
    <2> DEFINE l == NoLocals
    <2>1. /\ pc' = [pc EXCEPT ![p] = "idle"]
          /\ arg' = [arg EXCEPT ![p] = l]
          /\ pc[p] \notin {"unborn", "ended"}
          /\ registered' = registered
      BY <1>12 DEF TypeOK, LinkOther, Return, Goto, RemoveMonitor
    <2>2. l \in Locals
      BY <1>12 DEF TypeOK, LinkOther, Return, Goto, RemoveMonitor
    <2>3. /\ "idle" \in OpStep => l.pid \in Pid /\ Spawned(l.pid)
          /\ "idle" \notin MonStep => l.ref = 0
      BY <1>12 DEF MonStep, LinkOther, Return, Goto, RemoveMonitor
    <2>4. TiesSpawned
      BY <1>12, <2>3
         DEF TypeOK, TaskInv, TaskOK, AboutSpawned, TiesSpawned, Spawned, LinkOther,
             Return, Goto, RemoveMonitor
    <2>5. QED
      BY <2>1, <2>2, <2>3, <2>4, TaskStep DEF Step, MonStep
  <1>13. ASSUME NEW p \in Pid, UnlinkOther(p)
        PROVE  TaskInv'
    <2> DEFINE l == NoLocals
    <2>1. /\ pc' = [pc EXCEPT ![p] = "idle"]
          /\ arg' = [arg EXCEPT ![p] = l]
          /\ pc[p] \notin {"unborn", "ended"}
          /\ registered' = registered
      BY <1>13 DEF TypeOK, UnlinkOther, Return, Goto, RemoveMonitor
    <2>2. l \in Locals
      BY <1>13 DEF TypeOK, UnlinkOther, Return, Goto, RemoveMonitor
    <2>3. /\ "idle" \in OpStep => l.pid \in Pid /\ Spawned(l.pid)
          /\ "idle" \notin MonStep => l.ref = 0
      BY <1>13 DEF MonStep, UnlinkOther, Return, Goto, RemoveMonitor
    <2>4. TiesSpawned
      BY <1>13, <2>3
         DEF TypeOK, TaskInv, TaskOK, AboutSpawned, TiesSpawned, Spawned,
             UnlinkOther, Return, Goto, RemoveMonitor
    <2>5. QED
      BY <2>1, <2>2, <2>3, <2>4, TaskStep DEF Step, MonStep
  <1>14. ASSUME NEW p \in Pid, MonitorTarget(p)
        PROVE  TaskInv'
    <2> DEFINE l == NoLocals
    <2>1. /\ pc' = [pc EXCEPT ![p] = "idle"]
          /\ arg' = [arg EXCEPT ![p] = l]
          /\ pc[p] \notin {"unborn", "ended"}
          /\ registered' = registered
      BY <1>14 DEF TypeOK, MonitorTarget, Return, Goto, RemoveMonitor
    <2>2. l \in Locals
      BY <1>14 DEF TypeOK, MonitorTarget, Return, Goto, RemoveMonitor
    <2>3. /\ "idle" \in OpStep => l.pid \in Pid /\ Spawned(l.pid)
          /\ "idle" \notin MonStep => l.ref = 0
      BY <1>14 DEF MonStep, MonitorTarget, Return, Goto, RemoveMonitor
    <2>4. TiesSpawned
      <3>1. PICK ref \in Ref : ref = arg[p].ref
        BY <1>14 DEF TypeOK, MonitorTarget
      <3>2. /\ links' = links
            /\ monitors' = monitors \/ monitors' = RemoveMonitor(p, ref)
        BY <1>14, <3>1 DEF MonitorTarget
      <3>3. QED
        BY <3>2, MonitorEntries DEF TiesSpawned
    <2>5. QED
      BY <2>1, <2>2, <2>3, <2>4, TaskStep DEF Step, MonStep
  <1>15. ASSUME NEW p \in Pid, DemonitorTarget(p)
        PROVE  TaskInv'
    <2> DEFINE l == NoLocals
    <2>1. /\ pc' = [pc EXCEPT ![p] = "idle"]
          /\ arg' = [arg EXCEPT ![p] = l]
          /\ pc[p] \notin {"unborn", "ended"}
          /\ registered' = registered
      BY <1>15 DEF TypeOK, DemonitorTarget, Return, Goto, RemoveMonitor
    <2>2. l \in Locals
      BY <1>15 DEF TypeOK, DemonitorTarget, Return, Goto, RemoveMonitor
    <2>3. /\ "idle" \in OpStep => l.pid \in Pid /\ Spawned(l.pid)
          /\ "idle" \notin MonStep => l.ref = 0
      BY <1>15 DEF MonStep, DemonitorTarget, Return, Goto, RemoveMonitor
    <2>4. TiesSpawned
      BY <1>15, <2>3
         DEF TypeOK, TaskInv, TaskOK, AboutSpawned, TiesSpawned, Spawned,
             DemonitorTarget, Return, Goto, RemoveMonitor
    <2>5. QED
      BY <2>1, <2>2, <2>3, <2>4, TaskStep DEF Step, MonStep
  <1>16. ASSUME NEW p \in Pid, RegisterInsert(p)
        PROVE  TaskInv'
    <2> DEFINE l == NoLocals
    <2>1. /\ pc' = [pc EXCEPT ![p] = "idle"]
          /\ arg' = [arg EXCEPT ![p] = l]
          /\ pc[p] \notin {"unborn", "ended"}
          /\ registered' = registered
      BY <1>16 DEF TypeOK, RegisterInsert, Return, Goto, handleVars
    <2>2. l \in Locals
      BY <1>16 DEF TypeOK, RegisterInsert, Return, Goto, handleVars
    <2>3. /\ "idle" \in OpStep => l.pid \in Pid /\ Spawned(l.pid)
          /\ "idle" \notin MonStep => l.ref = 0
      BY <1>16 DEF MonStep, RegisterInsert, Return, Goto, handleVars
    <2>4. TiesSpawned
      BY <1>16, <2>3
         DEF TypeOK, TaskInv, TaskOK, AboutSpawned, TiesSpawned, Spawned,
             RegisterInsert, Return, Goto, handleVars
    <2>5. QED
      BY <2>1, <2>2, <2>3, <2>4, TaskStep DEF Step, MonStep
  <1>17. ASSUME NEW p \in Pid, BodyReturns(p)
        PROVE  TaskInv'
    <2> DEFINE l == arg[p]
    <2>1. /\ pc' = [pc EXCEPT ![p] = "exit"]
          /\ arg' = [arg EXCEPT ![p] = l]
          /\ pc[p] \notin {"unborn", "ended"}
          /\ registered' = registered
      BY <1>17 DEF TypeOK, BodyReturns, handleVars
    <2>2. l \in Locals /\ TaskOK(p) /\ LocalsOK(p)
      BY DEF TypeOK, TaskInv
    <2>3. /\ "exit" \in OpStep => l.pid \in Pid /\ Spawned(l.pid)
          /\ "exit" \notin MonStep => l.ref = 0
      BY <1>17, <2>2
         DEF TaskOK, AboutSpawned, RefInUse, MonStep, BodyReturns, handleVars
    <2>4. TiesSpawned
      BY <1>17, <2>3
         DEF TypeOK, TaskInv, TaskOK, AboutSpawned, TiesSpawned, Spawned,
             BodyReturns, handleVars
    <2>5. QED
      BY <2>1, <2>2, <2>3, <2>4, TaskStep DEF Step, MonStep
  <1>18. ASSUME NEW p \in Pid, BodyPanics(p)
        PROVE  TaskInv'
    <2> DEFINE l == arg[p]
    <2>1. /\ pc' = [pc EXCEPT ![p] = "panicked"]
          /\ arg' = [arg EXCEPT ![p] = l]
          /\ pc[p] \notin {"unborn", "ended"}
          /\ registered' = registered
      BY <1>18 DEF TypeOK, BodyPanics, Idle, handleVars
    <2>2. l \in Locals /\ TaskOK(p) /\ LocalsOK(p)
      BY DEF TypeOK, TaskInv
    <2>3. /\ "panicked" \in OpStep => l.pid \in Pid /\ Spawned(l.pid)
          /\ "panicked" \notin MonStep => l.ref = 0
      BY <1>18, <2>2
         DEF TaskOK, AboutSpawned, RefInUse, MonStep, BodyPanics, Idle, handleVars
    <2>4. TiesSpawned
      BY <1>18, <2>3
         DEF TypeOK, TaskInv, TaskOK, AboutSpawned, TiesSpawned, Spawned,
             BodyPanics, Idle, handleVars
    <2>5. QED
      BY <2>1, <2>2, <2>3, <2>4, TaskStep DEF Step, MonStep
  <1>19. ASSUME NEW p \in Pid, UnregisterNames(p)
        PROVE  TaskInv'
    <2> DEFINE l == arg[p]
    <2>1. /\ pc' = [pc EXCEPT ![p] = "remove"]
          /\ arg' = [arg EXCEPT ![p] = l]
          /\ pc[p] \notin {"unborn", "ended"}
          /\ registered' = registered
      BY <1>19 DEF TypeOK, UnregisterNames, handleVars
    <2>2. l \in Locals /\ TaskOK(p) /\ LocalsOK(p)
      BY DEF TypeOK, TaskInv
    <2>3. /\ "remove" \in OpStep => l.pid \in Pid /\ Spawned(l.pid)
          /\ "remove" \notin MonStep => l.ref = 0
      BY <1>19, <2>2
         DEF TaskOK, AboutSpawned, RefInUse, MonStep, UnregisterNames, handleVars
    <2>4. TiesSpawned
      BY <1>19, <2>3
         DEF TypeOK, TaskInv, TaskOK, AboutSpawned, TiesSpawned, Spawned,
             UnregisterNames, handleVars
    <2>5. QED
      BY <2>1, <2>2, <2>3, <2>4, TaskStep DEF Step, MonStep
  <1>20. ASSUME NEW p \in Pid, UnregisterProcess(p)
        PROVE  TaskInv'
    <2> DEFINE l == arg[p]
    <2>1. /\ pc' = [pc EXCEPT ![p] = "ended"]
          /\ arg' = [arg EXCEPT ![p] = l]
          /\ pc[p] \notin {"unborn", "ended"}
          /\ registered' = registered \ {p}
      BY <1>20 DEF TypeOK, UnregisterProcess, handleVars
    <2>2. l \in Locals /\ TaskOK(p) /\ LocalsOK(p)
      BY DEF TypeOK, TaskInv
    <2>3. /\ "ended" \in OpStep => l.pid \in Pid /\ Spawned(l.pid)
          /\ "ended" \notin MonStep => l.ref = 0
      BY <1>20, <2>2
         DEF TaskOK, AboutSpawned, RefInUse, MonStep, UnregisterProcess, handleVars
    <2>4. TiesSpawned
      BY <1>20, <2>3
         DEF TypeOK, TaskInv, TaskOK, AboutSpawned, TiesSpawned, Spawned,
             UnregisterProcess, handleVars
    <2>5. QED
      BY <2>1, <2>2, <2>3, <2>4, TaskStep DEF Step, MonStep
  <1>21. ASSUME NEW p \in Pid, Spawn(p)
        PROVE  TaskInv'
    <2> SUFFICES ASSUME NEW o \in Pid PROVE TaskOK(o)'
      BY DEF TaskInv
    <2>1. TaskOK(o) /\ pc[p] = "unborn" /\ TaskOK(p)
      BY <1>21 DEF TaskInv, Spawn
    <2>2. /\ pc'[p] = "idle" /\ \A q \in Pid : q # p => pc'[q] = pc[q]
          /\ arg' = arg /\ registered' = registered \cup {p}
          /\ links' = links /\ monitors' = monitors
      BY <1>21 DEF TypeOK, Spawn, handleVars
    <2>3. InRegistry(o)' /\ AboutSpawned(o)' /\ RefInUse(o)'
      BY <2>1, <2>2
         DEF TypeOK, TaskOK, InRegistry, AboutSpawned, RefInUse, MonStep, Spawned
    <2>4. LinksSpawned(o)' /\ MonitorsSpawned(o)'
      BY <2>2, TiesFrame DEF TiesSpawned, Spawned
    <2>5. QED
      BY <2>3, <2>4 DEF TaskOK
  <1>22. ASSUME NEW p \in Pid, ExitBegin(p)
        PROVE  TaskInv'
    <2>1. PICK step \in {"ended", "notify"} : pc' = [pc EXCEPT ![p] = step]
      BY <1>22 DEF ExitBegin
    <2>2. /\ arg' = [arg EXCEPT ![p] = arg[p]] /\ arg[p] \in Locals
          /\ pc[p] = "exit" /\ arg[p].ref = 0
      BY <1>22 DEF TypeOK, ExitBegin, TaskInv, TaskOK, RefInUse, MonStep
    <2>3. registered' = registered /\ links' = links /\ monitors' = monitors
      BY <1>22 DEF ExitBegin
    <2>4. QED
      BY <2>1, <2>2, <2>3, TaskStep DEF Step, MonStep, TiesSpawned
  <1>23. ASSUME NEW p \in Pid, NEW q \in Pid, NEW reason \in Reason, Exit(p, q, reason)
        PROVE  TaskInv'
    <2>1. pc' = pc /\ arg' = arg /\ registered' = registered
      BY <1>23 DEF Exit
    <2>2. TiesSpawned
      BY <1>23 DEF TypeOK, TiesSpawned, Exit
    <2>3. QED
      BY <2>1, <2>2, TaskStay
  <1>24. ASSUME NEW p \in Pid, NEW reason \in Reason, RuntimeExit(p, reason)
        PROVE  TaskInv'
    <2>1. pc' = pc /\ arg' = arg /\ registered' = registered
      BY <1>24 DEF RuntimeExit
    <2>2. TiesSpawned
      BY <1>24 DEF TypeOK, TiesSpawned, RuntimeExit
    <2>3. QED
      BY <2>1, <2>2, TaskStay
  <1>25. ASSUME NEW p \in Pid, NEW trap \in BOOLEAN, SetTrapExit(p, trap)
        PROVE  TaskInv'
    <2>1. pc' = pc /\ arg' = arg /\ registered' = registered
      BY <1>25 DEF SetTrapExit
    <2>2. TiesSpawned
      BY <1>25 DEF TypeOK, TiesSpawned, SetTrapExit
    <2>3. QED
      BY <2>1, <2>2, TaskStay
  <1>26. ASSUME NEW p \in Pid, NEW name \in Name, UnregisterName(p, name)
        PROVE  TaskInv'
    <2>1. pc' = pc /\ arg' = arg /\ registered' = registered
      BY <1>26 DEF UnregisterName, handleVars
    <2>2. TiesSpawned
      BY <1>26 DEF TypeOK, TiesSpawned, UnregisterName, handleVars
    <2>3. QED
      BY <2>1, <2>2, TaskStay
  <1>27. ASSUME NEW p \in Pid, NEW q \in Pid, NotifyLink(p, q)
        PROVE  TaskInv'
    <2>1. pc' = pc /\ arg' = arg /\ registered' = registered
      BY <1>27 DEF NotifyLink
    <2>2. TiesSpawned
      <3>1. /\ monitors' = monitors
            /\ \/ links' = links
               \/ links' = [links EXCEPT ![q] = links[q] \ {p}]
        BY <1>27 DEF NotifyLink
      <3>2. \A o \in Pid : links'[o] = links[o] \/ links'[o] = links[o] \ {p}
        BY <3>1 DEF TypeOK
      <3>3. QED
        BY <3>1, <3>2 DEF TiesSpawned
    <2>3. QED
      BY <2>1, <2>2, TaskStay
  <1>28. ASSUME NEW p \in Pid, NEW ref \in Ref, NEW q \in Pid, NotifyMonitor(p, ref, q)
        PROVE  TaskInv'
    <2>1. pc' = pc /\ arg' = arg /\ registered' = registered
      BY <1>28 DEF NotifyMonitor
    <2>2. TiesSpawned
      <3>1. /\ links' = links
            /\ monitors' = monitors \/ monitors' = RemoveMonitor(q, ref)
        BY <1>28 DEF NotifyMonitor
      <3>2. QED
        BY <3>1, MonitorEntries DEF TiesSpawned
    <2>3. QED
      BY <2>1, <2>2, TaskStay
  <1>29. CASE UNCHANGED vars
    BY <1>29, TaskStay DEF TiesSpawned, vars, handleVars
  <1>30. QED
    BY <1>1, <1>2, <1>3, <1>4, <1>5, <1>6, <1>7, <1>8, <1>9, <1>10, <1>11, <1>12,
       <1>13, <1>14, <1>15, <1>16, <1>17, <1>18, <1>19, <1>20, <1>21, <1>22, <1>23,
       <1>24, <1>25, <1>26, <1>27, <1>28, <1>29
       DEF Next, StartOp, FinishOp, HandleProcessExit

\* A task never goes back, and a pid that left the registry stays out.
LEMMA TaskOnward ==
    ASSUME TypeOK, TaskInv, TaskInv', [Next]_vars, NEW q \in Pid, Spawned(q)
    PROVE  /\ Spawned(q)'
           /\ SnapshotTaken(q) => SnapshotTaken(q)'
           /\ Running(q)' => Running(q)
           /\ q \notin registered => q \notin registered'
  <1>1. CASE UNCHANGED vars
    BY <1>1 DEF vars, Spawned, SnapshotTaken, Running
  <1>2. CASE Next
    <2>1. PICK p \in Pid :
              \/ Spawn(p) \/ StartOp(p) \/ FinishOp(p)
              \/ BodyReturns(p) \/ BodyPanics(p) \/ HandleProcessExit(p)
              \/ \E reason \in Reason : RuntimeExit(p, reason)
      BY <1>2 DEF Next
    <2> USE DEF TypeOK, Spawned, SnapshotTaken, Running
    <2>2. CASE Spawn(p)
      BY <2>2 DEF Spawn
    <2>3. CASE StartOp(p)
      <3>1. CASE \E c \in Pid : SpawnLink(p, c) \/ SpawnMonitor(p, c)
        BY <3>1 DEF SpawnLink, SpawnMonitor, SpawnChild, Idle
      <3>2. CASE \E c \in Pid : Link(p, c) \/ Unlink(p, c) \/ Monitor(p, c)
        BY <3>2 DEF Link, Unlink, Monitor, Goto, Idle
      <3>3. CASE \E c \in Pid : \/ \E reason \in Reason : Exit(p, c, reason)
                                \/ \E name \in Name : Register(p, name, c)
        BY <3>3 DEF Exit, Register, Goto, Idle
      <3>4. CASE \/ \E trap \in BOOLEAN : SetTrapExit(p, trap)
                 \/ \E ref \in Ref : Demonitor(p, ref)
                 \/ \E name \in Name : UnregisterName(p, name)
        BY <3>4 DEF SetTrapExit, Demonitor, UnregisterName, Goto, Idle
      <3>5. QED
        BY <2>3, <3>1, <3>2, <3>3, <3>4 DEF StartOp
    <2>4. CASE FinishOp(p)
      BY <2>4
         DEF FinishOp, SpawnLinkParent, SpawnLinkChild, SpawnMonitorParent,
             SpawnMonitorChild, LinkOther, UnlinkOther, MonitorTarget,
             DemonitorTarget, RegisterInsert, Return, Goto
    <2>5. CASE BodyReturns(p) \/ BodyPanics(p)
      BY <2>5 DEF BodyReturns, BodyPanics, Idle
    <2>6. CASE HandleProcessExit(p)
      BY <2>6 DEF HandleProcessExit, ExitBegin, NotifyLink, NotifyMonitor,
                  UnregisterNames, UnregisterProcess
    <2>7. CASE \E reason \in Reason : RuntimeExit(p, reason)
      BY <2>7 DEF RuntimeExit
    <2>8. QED
      BY <2>1, <2>2, <2>3, <2>4, <2>5, <2>6, <2>7
  <1>3. QED
    BY <1>1, <1>2

(***************************************************************************)
(* Nine actions change who holds or may send a DOWN.  Every other step is  *)
(* quiet: it sends none and leaves the tasks inside a monitor operation    *)
(* where they are.                                                         *)
(***************************************************************************)
Quiet ==
    /\ NoNewDown
    /\ UNCHANGED <<monitors, monitoredBy, exitMons, nextRef>>
    /\ \A p \in Pid : \/ pc'[p] = pc[p] /\ arg'[p] = arg[p]
                      \/ pc[p] \notin MonStep /\ pc'[p] \notin MonStep

MonitorStep ==
    \E p \in Pid :
        \/ \E q \in Pid : SpawnMonitor(p, q) \/ Monitor(p, q)
        \/ \E ref \in Ref : Demonitor(p, ref)
        \/ SpawnMonitorParent(p) \/ SpawnMonitorChild(p)
        \/ MonitorTarget(p) \/ DemonitorTarget(p)
        \/ ExitBegin(p)
        \/ \E ref \in Ref, owner \in Pid : NotifyMonitor(p, ref, owner)

LEMMA SameMailbox == mailbox' = mailbox => NoNewDown
  BY DEF NoNewDown

LEMMA QuietStep == TypeOK /\ [Next]_vars => Quiet \/ MonitorStep
  <1> SUFFICES ASSUME TypeOK, [Next]_vars, ~MonitorStep PROVE Quiet
    OBVIOUS
  <1>1. CASE UNCHANGED vars
    BY <1>1, SameMailbox DEF vars, handleVars, exitVars, Quiet
  <1>2. ASSUME NEW p \in Pid, Spawn(p) PROVE Quiet
    BY <1>2, SameMailbox DEF TypeOK, Quiet, Spawn, handleVars, exitVars, MonStep
  <1>3. ASSUME NEW p \in Pid, NEW q \in Pid, SpawnLink(p, q) PROVE Quiet
    <2>1. mailbox' = mailbox /\ UNCHANGED <<monitors, monitoredBy, exitMons, nextRef>>
      BY <1>3 DEF SpawnLink, SpawnChild, handleVars, exitVars
    <2>2. /\ p # q /\ pc[p] = "idle" /\ pc[q] = "unborn"
          /\ pc'[p] = "spawn_link" /\ pc'[q] = "idle"
          /\ \A o \in Pid : o # p /\ o # q => pc'[o] = pc[o] /\ arg'[o] = arg[o]
      BY <1>3 DEF TypeOK, SpawnLink, SpawnChild, Idle
    <2>3. QED
      BY <2>1, <2>2, SameMailbox DEF Quiet, MonStep
  <1>4. ASSUME NEW p \in Pid, NEW q \in Pid,
               \/ Link(p, q) \/ Unlink(p, q)
               \/ \E name \in Name : Register(p, name, q)
        PROVE  Quiet
    BY <1>4, SameMailbox
       DEF TypeOK, Quiet, Link, Unlink, Register, Goto, Idle, handleVars, exitVars,
           MonStep
  <1>5. ASSUME NEW p \in Pid, NEW q \in Pid, NEW reason \in Reason, Exit(p, q, reason)
        PROVE  Quiet
    <2>1. NoNewDown
      BY <1>5, SameMailbox, ExitMsgNoNewDown, ReasonAssumption DEF Exit
    <2>2. QED
      BY <1>5, <2>1 DEF Quiet, Exit, exitVars
  <1>6. ASSUME NEW p \in Pid,
               \/ \E trap \in BOOLEAN : SetTrapExit(p, trap)
               \/ \E name \in Name : UnregisterName(p, name)
               \/ \E reason \in Reason : RuntimeExit(p, reason)
        PROVE  Quiet
    BY <1>6, SameMailbox
       DEF Quiet, SetTrapExit, UnregisterName, RuntimeExit, handleVars, exitVars
  <1>7. ASSUME NEW p \in Pid,
               \/ SpawnLinkParent(p) \/ SpawnLinkChild(p) \/ LinkOther(p)
               \/ UnlinkOther(p) \/ RegisterInsert(p)
        PROVE  Quiet
    BY <1>7, SameMailbox
       DEF TypeOK, Quiet, SpawnLinkParent, SpawnLinkChild, LinkOther, UnlinkOther,
           RegisterInsert, Return, Goto, handleVars, exitVars, MonStep
  <1>8. ASSUME NEW p \in Pid,
               \/ BodyReturns(p) \/ BodyPanics(p)
               \/ UnregisterNames(p) \/ UnregisterProcess(p)
        PROVE  Quiet
    BY <1>8, SameMailbox
       DEF TypeOK, Quiet, BodyReturns, BodyPanics, UnregisterNames,
           UnregisterProcess, Idle, handleVars, exitVars, MonStep
  <1>9. ASSUME NEW p \in Pid, NEW linked \in Pid, NotifyLink(p, linked) PROVE Quiet
    <2>1. NoNewDown
      BY <1>9, SameMailbox, ExitMsgNoNewDown DEF NotifyLink, SignalLink
    <2>2. QED
      BY <1>9, <2>1 DEF Quiet, NotifyLink
  <1>10. QED
    BY <1>1, <1>2, <1>3, <1>4, <1>5, <1>6, <1>7, <1>8, <1>9
       DEF Next, StartOp, FinishOp, HandleProcessExit, MonitorStep

-----------------------------------------------------------------------------
(***************************************************************************)
(* NoFalseDown.  A DOWN is sent by a task that notifies, or for a pid that *)
(* was spawned and has left the registry: such a pid has ended.            *)
(***************************************************************************)
TrueDown(msg) ==
    msg.kind = "Down" => /\ SnapshotTaken(msg.from)
                         /\ msg.reason = "noproc" => msg.from \notin registered

LEMMA TrueDowns ==
    NoFalseDown <=> \A p \in Pid : \A i \in DOMAIN mailbox[p] : TrueDown(mailbox[p][i])
  BY DEF NoFalseDown, TrueDown, SnapshotTaken

\* What was true of a DOWN stays true.
LEMMA TrueDownStays ==
    ASSUME TypeOK, TaskInv, TaskInv', [Next]_vars, NEW msg \in Message, TrueDown(msg)
    PROVE  TrueDown(msg)'
  <1>1. SUFFICES ASSUME msg.kind = "Down"
                 PROVE  /\ SnapshotTaken(msg.from)'
                        /\ msg.reason = "noproc" => msg.from \notin registered'
    BY DEF TrueDown
  <1>2. msg.from \in Pid
    BY DEF Message
  <1>3. SnapshotTaken(msg.from) /\ Spawned(msg.from)
    BY <1>1 DEF TrueDown, SnapshotTaken, Spawned
  <1>4. QED
    BY <1>1, <1>2, <1>3, TaskOnward DEF TrueDown

\* A message in a mailbox was there before, or is the one delivered.
LEMMA DeliverEntries ==
    ASSUME mailbox \in [Pid -> Seq(Message)], NEW p \in Pid, NEW msg \in Message,
           mailbox' = mailbox \/ Deliver(p, msg),
           NEW q \in Pid, NEW i \in DOMAIN mailbox'[q]
    PROVE  \/ i \in DOMAIN mailbox[q] /\ mailbox'[q][i] = mailbox[q][i]
           \/ q = p /\ mailbox'[q][i] = msg
  <1>1. CASE mailbox' = mailbox \/ q # p
    BY <1>1 DEF Deliver
  <1>2. CASE q = p /\ mailbox' = [mailbox EXCEPT ![p] = Append(@, msg)]
    <2>1. mailbox[p] \in Seq(Message) /\ mailbox'[p] = Append(mailbox[p], msg)
      BY <1>2
    <2>2. QED
      BY <1>2, <2>1
  <1>3. QED
    BY <1>1, <1>2 DEF Deliver

LEMMA NewTrueDown ==
    ASSUME TypeOK, TaskInv, TaskInv', [Next]_vars, NoFalseDown,
           NEW p \in Pid, NEW msg \in Message, TrueDown(msg)',
           mailbox' = mailbox \/ Deliver(p, msg)
    PROVE  NoFalseDown'
  <1> SUFFICES ASSUME NEW q \in Pid, NEW i \in DOMAIN mailbox'[q]
               PROVE  TrueDown(mailbox[q][i])'
    BY DEF NoFalseDown, TrueDown, SnapshotTaken
  <1>1. CASE i \in DOMAIN mailbox[q] /\ mailbox'[q][i] = mailbox[q][i]
    <2>1. mailbox[q][i] \in Message /\ TrueDown(mailbox[q][i])
      BY <1>1, TrueDowns DEF TypeOK
    <2>2. QED
      BY <1>1, <2>1, TrueDownStays DEF TrueDown, SnapshotTaken
  <1>2. CASE mailbox'[q][i] = msg
    BY <1>2 DEF TrueDown, SnapshotTaken
  <1>3. QED
    BY <1>1, <1>2, DeliverEntries DEF TypeOK

LEMMA FalseDownNext ==
    TypeOK /\ TypeOK' /\ TaskInv /\ TaskInv' /\ NoFalseDown /\ [Next]_vars => NoFalseDown'
  <1> SUFFICES ASSUME TypeOK, TypeOK', TaskInv, TaskInv', NoFalseDown, [Next]_vars
               PROVE  NoFalseDown'
    OBVIOUS
  <1>1. CASE NoNewDown
    <2> SUFFICES ASSUME NEW q \in Pid, NEW i \in DOMAIN mailbox'[q],
                        mailbox'[q][i].kind = "Down"
                 PROVE  TrueDown(mailbox[q][i])'
      BY DEF NoFalseDown, TrueDown, SnapshotTaken
    <2>1. i \in DOMAIN mailbox[q] /\ mailbox'[q][i] = mailbox[q][i]
      BY <1>1 DEF NoNewDown
    <2>2. mailbox[q][i] \in Message /\ TrueDown(mailbox[q][i])
      BY <2>1, TrueDowns DEF TypeOK
    <2>3. QED
      BY <2>1, <2>2, TrueDownStays DEF TrueDown, SnapshotTaken
  <1>2. ASSUME NEW p \in Pid, MonitorTarget(p) PROVE NoFalseDown'
    <2>1. PICK target \in Pid, ref \in Ref : target = arg[p].pid /\ ref = arg[p].ref
      BY <1>2 DEF TypeOK, MonitorTarget
    <2>2. CASE Get(target)
      BY <1>1, <1>2, <2>1, <2>2, SameMailbox DEF MonitorTarget
    <2>3. CASE ~Get(target)
      <3>1. target \notin registered' /\ SnapshotTaken(target)'
        <4>1. Spawned(target) /\ target \notin registered
          BY <1>2, <2>1, <2>3 DEF TaskInv, TaskOK, AboutSpawned, MonitorTarget, Get
        <4>2. pc[target] = "ended"
          BY <4>1 DEF TaskInv, TaskOK, InRegistry, Spawned
        <4>3. QED
          BY <4>1, <4>2, TaskOnward DEF SnapshotTaken
      <3>2. /\ DownMsg(ref, target, "noproc") \in Message
            /\ Deliver(p, DownMsg(ref, target, "noproc"))
        BY <1>2, <2>1, <2>3, MessageTyping DEF MonitorTarget
      <3>3. TrueDown(DownMsg(ref, target, "noproc"))'
        BY <3>1 DEF TrueDown, DownMsg, SnapshotTaken
      <3>4. QED
        BY <3>2, <3>3, NewTrueDown
    <2>4. QED
      BY <2>2, <2>3
  <1>3. ASSUME NEW p \in Pid, NEW ref \in Ref, NEW owner \in Pid,
               NotifyMonitor(p, ref, owner)
        PROVE  NoFalseDown'
    <2>1. /\ DownMsg(ref, p, "Normal") \in Message
          /\ mailbox' = mailbox \/ Deliver(owner, DownMsg(ref, p, "Normal"))
      BY <1>3, MessageTyping DEF NotifyMonitor
    <2>2. TrueDown(DownMsg(ref, p, "Normal"))'
      BY <1>3 DEF NotifyMonitor, TrueDown, DownMsg, SnapshotTaken
    <2>3. QED
      BY <2>1, <2>2, NewTrueDown
  <1>4. CASE ~NoNewDown
    <2>1. MonitorStep
      BY <1>4, QuietStep DEF Quiet
    <2>2. QED
      BY <1>2, <1>3, <1>4, <2>1, SameMailbox
         DEF MonitorStep, SpawnMonitor, SpawnChild, Monitor, Demonitor,
             SpawnMonitorParent, SpawnMonitorChild, DemonitorTarget, ExitBegin
  <1>5. QED
    BY <1>1, <1>4

(***************************************************************************)
(* No DOWN is false, for any number of processes, references and           *)
(* operations.                                                             *)
(***************************************************************************)
THEOREM DownsAreTrue == Spec => []NoFalseDown
  <1>1. Init => NoFalseDown
    BY DEF Init, NoFalseDown
  <1>2. TypeOK /\ TypeOK' /\ TaskInv /\ TaskInv' /\ NoFalseDown /\ [Next]_vars
            => NoFalseDown'
    BY FalseDownNext
  <1>3. QED
    BY <1>1, <1>2, TypeCorrect, TaskInit, TaskNext, PTL DEF Spec

-----------------------------------------------------------------------------
(***************************************************************************)
(* Whose a reference is.  A process holds a reference from the call that   *)
(* creates it until its monitor is removed, and releases it while it tells *)
(* the target.  OwnerInv: a reference has one holder at most; while it has *)
(* one, nobody releases it and targets know it as the holder's.  ArmedInv: *)
(* an entry of monitored_by that will still make it into a snapshot        *)
(* belongs to a monitor that is held, or that is being released.           *)
(***************************************************************************)
Holds(p, ref) == Asking(p, ref) \/ monitors[p][ref] # None
Releasing(p, ref) == pc[p] = "demonitor" /\ arg[p].ref = ref

FreshIsFree(p, ref) ==
    ref >= nextRef =>
        ~Holds(p, ref) /\ ~Releasing(p, ref) /\ monitoredBy[p][ref] = None
OneHolder(p, ref) ==
    Holds(p, ref) =>
        \A q \in Pid : /\ Holds(q, ref) => q = p
                       /\ ~Releasing(q, ref)
                       /\ monitoredBy[q][ref] \in {None, p}
                       /\ \A o \in Pid : <<ref, o>> \in exitMons[q] => o = p

OwnerInv == \A p \in Pid, ref \in Ref : FreshIsFree(p, ref) /\ OneHolder(p, ref)

AskedIsHeld(p) ==
    pc[p] \in {"monitor", "child_monitor"} => monitors[p][arg[p].ref] = arg[p].pid
ArmedIsHeld(p, q, ref) ==
    monitoredBy[q][ref] = p /\ ~SnapshotTaken(q) =>
        monitors[p][ref] = q \/ (Releasing(p, ref) /\ arg[p].pid = q)

ArmedInv ==
    /\ \A p \in Pid : AskedIsHeld(p)
    /\ \A p, q \in Pid, ref \in Ref : ArmedIsHeld(p, q, ref)

LEMMA OwnerInit == Init => OwnerInv /\ ArmedInv
  <1> SUFFICES ASSUME Init PROVE OwnerInv /\ ArmedInv
    OBVIOUS
  <1>1. \A p \in Pid : pc[p] = "unborn"
    BY DEF Init
  <1>2. \A p \in Pid, ref \in Ref : monitors[p][ref] = None /\ monitoredBy[p][ref] = None
    BY DEF Init
  <1>3. OwnerInv
    BY <1>1, <1>2
       DEF OwnerInv, FreshIsFree, OneHolder, Holds, Asking, Releasing
  <1>4. ArmedInv
    BY <1>1, <1>2, NoneAssumption DEF ArmedInv, AskedIsHeld, ArmedIsHeld
  <1>5. QED
    BY <1>3, <1>4

\* What a step adds belongs to the process that holds the reference.
HoldersKept ==
    \A q \in Pid, r \in Ref :
        /\ Releasing(q, r)' => Releasing(q, r) \/ (Holds(q, r) /\ ~Holds(q, r)')
        /\ monitoredBy'[q][r] # None =>
               \/ monitoredBy'[q][r] = monitoredBy[q][r]
               \/ monitoredBy'[q][r] \in Pid /\ Holds(monitoredBy'[q][r], r)
        /\ \A o \in Pid : <<r, o>> \in exitMons'[q] =>
               <<r, o>> \in exitMons[q] \/ monitoredBy[q][r] = o

\* No new holder.
LEMMA OwnerFrame ==
    ASSUME OwnerInv, nextRef' = nextRef, HoldersKept,
           \A q \in Pid, r \in Ref : Holds(q, r)' => Holds(q, r)
    PROVE  OwnerInv'
  <1> SUFFICES ASSUME NEW p \in Pid, NEW ref \in Ref
               PROVE  FreshIsFree(p, ref)' /\ OneHolder(p, ref)'
    BY DEF OwnerInv
  <1>1. FreshIsFree(p, ref)'
    BY DEF OwnerInv, FreshIsFree, HoldersKept
  <1>2. ASSUME Holds(p, ref)', NEW q \in Pid
        PROVE  /\ Holds(q, ref)' => q = p
               /\ ~Releasing(q, ref)'
               /\ monitoredBy'[q][ref] \in {None, p}
               /\ \A o \in Pid : <<ref, o>> \in exitMons'[q] => o = p
    <2>1. /\ Holds(p, ref)
          /\ \A o \in Pid : Holds(o, ref) => o = p
          /\ ~Releasing(q, ref)
          /\ monitoredBy[q][ref] \in {None, p}
          /\ \A o \in Pid : <<ref, o>> \in exitMons[q] => o = p
      BY <1>2 DEF OwnerInv, OneHolder
    <2>2. QED
      BY <1>2, <2>1, NoneAssumption DEF HoldersKept
  <1>3. QED
    BY <1>1, <1>2 DEF OneHolder

\* One new holder, of the reference that is new.
LEMMA OwnerNew ==
    ASSUME TypeOK, DownInv, OwnerInv, HoldersKept, NEW p \in Pid,
           nextRef \in Ref, nextRef' = nextRef + 1,
           \A q \in Pid, r \in Ref :
               Holds(q, r)' => Holds(q, r) \/ (q = p /\ r = nextRef)
    PROVE  OwnerInv'
  <1> SUFFICES ASSUME NEW o \in Pid, NEW ref \in Ref
               PROVE  FreshIsFree(o, ref)' /\ OneHolder(o, ref)'
    BY DEF OwnerInv
  <1>1. nextRef \in Nat /\ ref \in Nat /\ (ref >= nextRef' => ref >= nextRef /\ ref # nextRef)
    BY BoundAssumption DEF TypeOK, Ref
  <1>2. ASSUME NEW q \in Pid
        PROVE  /\ ~Holds(q, nextRef) /\ ~Releasing(q, nextRef)
               /\ monitoredBy[q][nextRef] = None
               /\ \A w \in Pid : <<nextRef, w>> \notin exitMons[q]
    <2>1. nextRef >= nextRef
      BY <1>1
    <2>2. FreshIsFree(q, nextRef) /\ ~Pending(q, nextRef)
      BY <2>1 DEF OwnerInv, DownInv, DownRightIsUnique
    <2>3. QED
      BY <2>1, <2>2 DEF FreshIsFree, Pending
  <1>3. FreshIsFree(o, ref)'
    BY <1>1 DEF OwnerInv, FreshIsFree, HoldersKept
  <1>4. ASSUME Holds(o, ref)', NEW q \in Pid
        PROVE  /\ Holds(q, ref)' => q = o
               /\ ~Releasing(q, ref)'
               /\ monitoredBy'[q][ref] \in {None, o}
               /\ \A w \in Pid : <<ref, w>> \in exitMons'[q] => w = o
    <2>1. CASE ref = nextRef
      <3>1. o = p /\ (Holds(q, ref)' => q = p)
        BY <1>2, <1>4, <2>1
      <3>2. ~Releasing(q, ref)' /\ monitoredBy'[q][ref] = None
        BY <1>2, <2>1 DEF HoldersKept
      <3>3. \A w \in Pid : <<ref, w>> \notin exitMons'[q]
        BY <1>2, <2>1, NoneAssumption DEF HoldersKept
      <3>4. QED
        BY <3>1, <3>2, <3>3
    <2>2. CASE ref # nextRef
      <3>1. /\ Holds(o, ref)
            /\ \A w \in Pid : Holds(w, ref) => w = o
            /\ ~Releasing(q, ref)
            /\ monitoredBy[q][ref] \in {None, o}
            /\ \A w \in Pid : <<ref, w>> \in exitMons[q] => w = o
        BY <1>4, <2>2 DEF OwnerInv, OneHolder
      <3>2. QED
        BY <1>4, <2>2, <3>1, NoneAssumption DEF HoldersKept
    <2>3. QED
      BY <2>1, <2>2
  <1>5. QED
    BY <1>3, <1>4 DEF OneHolder

-----------------------------------------------------------------------------
(***************************************************************************)
(* The steps of a monitor, entry by entry.                                 *)
(***************************************************************************)
Others(p) == \A q \in Pid : q # p => pc'[q] = pc[q] /\ arg'[q] = arg[q]

LEMMA MonitorEffect ==
    ASSUME TypeOK, TaskInv, NEW p \in Pid, NEW target \in Pid, Monitor(p, target)
    PROVE  /\ nextRef \in Ref /\ nextRef' = nextRef + 1
           /\ UNCHANGED <<registered, mailbox, monitoredBy, exitMons>>
           /\ pc[p] = "idle" /\ arg[p].ref = 0
           /\ pc'[p] = "monitor" /\ arg'[p].pid = target /\ arg'[p].ref = nextRef
           /\ Others(p)
           /\ \A q \in Pid, r \in Ref :
                  monitors'[q][r] =
                      IF q = p /\ r = nextRef THEN target ELSE monitors[q][r]
  BY DEF TypeOK, TaskInv, TaskOK, RefInUse, MonStep, Monitor, NewRef, Idle, Goto,
         Others, exitVars

LEMMA SpawnMonitorEffect ==
    ASSUME TypeOK, TaskInv, NEW p \in Pid, NEW c \in Pid, SpawnMonitor(p, c)
    PROVE  /\ nextRef \in Ref /\ nextRef' = nextRef + 1
           /\ UNCHANGED <<mailbox, monitors, monitoredBy, exitMons>>
           /\ registered' = registered \cup {c}
           /\ p # c /\ pc[c] = "unborn" /\ pc'[c] = "idle" /\ arg'[c] = arg[c]
           /\ pc[p] = "idle" /\ arg[p].ref = 0
           /\ pc'[p] = "spawn_monitor" /\ arg'[p].pid = c /\ arg'[p].ref = nextRef
           /\ \A q \in Pid : q # p /\ q # c => pc'[q] = pc[q] /\ arg'[q] = arg[q]
  <1>1. pc[p] = "idle" /\ pc[c] = "unborn" /\ p # c
    BY DEF TypeOK, SpawnMonitor, SpawnChild, Idle
  <1>2. arg[p].ref = 0
    BY <1>1 DEF TaskInv, TaskOK, RefInUse, MonStep
  <1>3. /\ nextRef \in Ref /\ nextRef' = nextRef + 1
        /\ UNCHANGED <<mailbox, monitors, monitoredBy, exitMons>>
        /\ registered' = registered \cup {c}
    BY DEF SpawnMonitor, SpawnChild, NewRef, handleVars, exitVars
  <1>4. /\ pc'[c] = "idle" /\ arg'[c] = arg[c]
        /\ pc'[p] = "spawn_monitor" /\ arg'[p].pid = c /\ arg'[p].ref = nextRef
        /\ \A q \in Pid : q # p /\ q # c => pc'[q] = pc[q] /\ arg'[q] = arg[q]
    BY <1>1 DEF TypeOK, SpawnMonitor, SpawnChild
  <1>5. QED
    BY <1>1, <1>2, <1>3, <1>4

LEMMA SpawnMonitorParentEffect ==
    ASSUME TypeOK, NEW p \in Pid, SpawnMonitorParent(p)
    PROVE  /\ UNCHANGED <<registered, nextRef, mailbox, monitoredBy, exitMons, arg>>
           /\ pc[p] = "spawn_monitor" /\ pc'[p] = "child_monitor" /\ Others(p)
           /\ arg[p].pid \in Pid /\ arg[p].ref \in Ref
           /\ \A q \in Pid, r \in Ref :
                  monitors'[q][r] =
                      IF q = p /\ r = arg[p].ref THEN arg[p].pid ELSE monitors[q][r]
  BY DEF TypeOK, SpawnMonitorParent, Others, exitVars

LEMMA SpawnMonitorChildEffect ==
    ASSUME TypeOK, NEW p \in Pid, SpawnMonitorChild(p)
    PROVE  /\ UNCHANGED <<registered, nextRef, mailbox, monitors, exitMons>>
           /\ pc[p] = "child_monitor" /\ pc'[p] = "idle" /\ arg'[p].ref = 0
           /\ Others(p)
           /\ arg[p].pid \in Pid /\ arg[p].ref \in Ref
           /\ \A q \in Pid, r \in Ref :
                  monitoredBy'[q][r] =
                      IF Get(arg[p].pid) /\ q = arg[p].pid /\ r = arg[p].ref
                      THEN p ELSE monitoredBy[q][r]
  <1>1. PICK c \in Pid, ref \in Ref : c = arg[p].pid /\ ref = arg[p].ref
    BY DEF TypeOK, SpawnMonitorChild
  <1>2. \A q \in Pid, r \in Ref :
            monitoredBy'[q][r] =
                IF Get(c) /\ q = c /\ r = ref THEN p ELSE monitoredBy[q][r]
    BY <1>1, MonitorEntries DEF SpawnMonitorChild
  <1>3. QED
    BY <1>1, <1>2 DEF TypeOK, SpawnMonitorChild, Return, Goto, Others, exitVars

LEMMA MonitorTargetEffect ==
    ASSUME TypeOK, NEW p \in Pid, MonitorTarget(p)
    PROVE  /\ UNCHANGED <<registered, nextRef, exitMons>>
           /\ pc[p] = "monitor" /\ pc'[p] = "idle" /\ arg'[p].ref = 0
           /\ Others(p)
           /\ arg[p].pid \in Pid /\ arg[p].ref \in Ref
           /\ IF Get(arg[p].pid)
              THEN mailbox' = mailbox
              ELSE Deliver(p, DownMsg(arg[p].ref, arg[p].pid, "noproc"))
           /\ \A q \in Pid, r \in Ref :
                  /\ monitoredBy'[q][r] =
                         IF Get(arg[p].pid) /\ q = arg[p].pid /\ r = arg[p].ref
                         THEN p ELSE monitoredBy[q][r]
                  /\ monitors'[q][r] =
                         IF ~Get(arg[p].pid) /\ q = p /\ r = arg[p].ref
                         THEN None ELSE monitors[q][r]
  <1>1. PICK c \in Pid, ref \in Ref : c = arg[p].pid /\ ref = arg[p].ref
    BY DEF TypeOK, MonitorTarget
  <1>2. \A q \in Pid, r \in Ref :
            /\ monitoredBy'[q][r] =
                   IF Get(c) /\ q = c /\ r = ref THEN p ELSE monitoredBy[q][r]
            /\ monitors'[q][r] =
                   IF ~Get(c) /\ q = p /\ r = ref THEN None ELSE monitors[q][r]
    BY <1>1, MonitorEntries DEF MonitorTarget
  <1>3. IF Get(c) THEN mailbox' = mailbox ELSE Deliver(p, DownMsg(ref, c, "noproc"))
    BY <1>1 DEF MonitorTarget
  <1>4. /\ UNCHANGED <<registered, nextRef, exitMons>>
        /\ pc[p] = "monitor" /\ pc'[p] = "idle" /\ arg'[p].ref = 0
        /\ Others(p)
    BY DEF TypeOK, MonitorTarget, Return, Goto, Others, exitVars
  <1>5. QED
    BY <1>1, <1>2, <1>3, <1>4

LEMMA DemonitorEffect ==
    ASSUME TypeOK, NEW p \in Pid, NEW ref \in Ref, Demonitor(p, ref)
    PROVE  /\ UNCHANGED <<registered, nextRef, mailbox, monitoredBy, exitMons>>
           /\ pc[p] = "idle" /\ pc'[p] = "demonitor" /\ Others(p)
           /\ monitors[p][ref] # None
           /\ arg'[p].ref = ref /\ arg'[p].pid = monitors[p][ref]
           /\ \A q \in Pid, r \in Ref :
                  monitors'[q][r] =
                      IF q = p /\ r = ref THEN None ELSE monitors[q][r]
  BY DEF TypeOK, Demonitor, RemoveMonitor, Idle, Goto, Others, exitVars

LEMMA DemonitorTargetEffect ==
    ASSUME TypeOK, NEW p \in Pid, DemonitorTarget(p)
    PROVE  /\ UNCHANGED <<registered, nextRef, mailbox, monitors, exitMons>>
           /\ pc[p] = "demonitor" /\ pc'[p] = "idle" /\ arg'[p].ref = 0
           /\ Others(p)
           /\ arg[p].pid \in Pid /\ arg[p].ref \in Ref
           /\ \A q \in Pid, r \in Ref :
                  monitoredBy'[q][r] =
                      IF Get(arg[p].pid) /\ q = arg[p].pid /\ r = arg[p].ref
                      THEN None ELSE monitoredBy[q][r]
  <1>1. PICK c \in Pid, ref \in Ref : c = arg[p].pid /\ ref = arg[p].ref
    BY DEF TypeOK, DemonitorTarget
  <1>2. \A q \in Pid, r \in Ref :
            monitoredBy'[q][r] =
                IF Get(c) /\ q = c /\ r = ref THEN None ELSE monitoredBy[q][r]
    BY <1>1, MonitorEntries DEF DemonitorTarget
  <1>3. QED
    BY <1>1, <1>2 DEF TypeOK, DemonitorTarget, Return, Goto, Others, exitVars

LEMMA ExitBeginEffect ==
    ASSUME TypeOK, NEW p \in Pid, ExitBegin(p)
    PROVE  /\ UNCHANGED <<registered, nextRef, mailbox, monitors, monitoredBy, arg>>
           /\ pc[p] = "exit" /\ pc'[p] \in {"notify", "ended"} /\ Others(p)
           /\ \A q \in Pid, r \in Ref, o \in Pid :
                  <<r, o>> \in exitMons'[q] =>
                      <<r, o>> \in exitMons[q] \/ (q = p /\ monitoredBy[q][r] = o)
  <1>1. /\ UNCHANGED <<registered, nextRef, mailbox, monitors, monitoredBy, arg>>
        /\ pc[p] = "exit" /\ pc'[p] \in {"notify", "ended"} /\ Others(p)
    BY DEF TypeOK, ExitBegin, Others
  <1>2. exitMons' = exitMons \/ exitMons' = [exitMons EXCEPT ![p] = MonitorSnapshot(p)]
    BY DEF ExitBegin, exitVars
  <1>3. ASSUME NEW q \in Pid, NEW r \in Ref, NEW o \in Pid, <<r, o>> \in exitMons'[q]
        PROVE  <<r, o>> \in exitMons[q] \/ (q = p /\ monitoredBy[q][r] = o)
    BY <1>2, <1>3 DEF TypeOK, MonitorSnapshot
  <1>4. QED
    BY <1>1, <1>3

LEMMA NotifyMonitorEffect ==
    ASSUME TypeOK, NEW p \in Pid, NEW ref \in Ref, NEW owner \in Pid,
           NotifyMonitor(p, ref, owner)
    PROVE  /\ UNCHANGED <<registered, nextRef, monitoredBy, pc, arg>>
           /\ pc[p] = "notify" /\ <<ref, owner>> \in exitMons[p]
           /\ \A q \in Pid : exitMons'[q] \subseteq exitMons[q]
           /\ \/ UNCHANGED <<monitors, mailbox>>
              \/ /\ monitors' = RemoveMonitor(owner, ref)
                 /\ Deliver(owner, DownMsg(ref, p, "Normal"))
           /\ \A q \in Pid, r \in Ref :
                  /\ monitors'[q][r] # None => monitors'[q][r] = monitors[q][r]
                  /\ r # ref => monitors'[q][r] = monitors[q][r]
  <1>1. \/ UNCHANGED <<monitors, mailbox>>
        \/ /\ monitors' = RemoveMonitor(owner, ref)
           /\ Deliver(owner, DownMsg(ref, p, "Normal"))
    BY DEF NotifyMonitor
  <1>2. \A q \in Pid, r \in Ref :
            /\ monitors'[q][r] # None => monitors'[q][r] = monitors[q][r]
            /\ r # ref => monitors'[q][r] = monitors[q][r]
    BY <1>1, MonitorEntries
  <1>3. \A q \in Pid : exitMons'[q] \subseteq exitMons[q]
    BY DEF TypeOK, NotifyMonitor
  <1>4. QED
    BY <1>1, <1>2, <1>3 DEF NotifyMonitor

-----------------------------------------------------------------------------
LEMMA OwnerNext ==
    TypeOK /\ TypeOK' /\ TaskInv /\ DownInv /\ OwnerInv /\ [Next]_vars => OwnerInv'
  <1> SUFFICES ASSUME TypeOK, TypeOK', TaskInv, DownInv, OwnerInv, [Next]_vars
               PROVE  OwnerInv'
    OBVIOUS
  <1> USE DEF HoldersKept, Holds, Asking, Releasing, Others
  <1>1. CASE Quiet
    BY <1>1, OwnerFrame DEF Quiet, MonStep
  <1>2. ASSUME NEW p \in Pid, NEW q \in Pid, Monitor(p, q) PROVE OwnerInv'
    <2>1. /\ HoldersKept
          /\ \A o \in Pid, r \in Ref :
                 Holds(o, r)' => Holds(o, r) \/ (o = p /\ r = nextRef)
      BY <1>2, MonitorEffect
    <2>2. QED
      BY <1>2, <2>1, MonitorEffect, OwnerNew
  <1>3. ASSUME NEW p \in Pid, NEW q \in Pid, SpawnMonitor(p, q) PROVE OwnerInv'
    <2>1. /\ HoldersKept
          /\ \A o \in Pid, r \in Ref :
                 Holds(o, r)' => Holds(o, r) \/ (o = p /\ r = nextRef)
      BY <1>3, SpawnMonitorEffect
    <2>2. QED
      BY <1>3, <2>1, SpawnMonitorEffect, OwnerNew
  <1>4. ASSUME NEW p \in Pid, SpawnMonitorParent(p) PROVE OwnerInv'
    BY <1>4, SpawnMonitorParentEffect, OwnerFrame
  <1>5. ASSUME NEW p \in Pid, SpawnMonitorChild(p) PROVE OwnerInv'
    BY <1>5, SpawnMonitorChildEffect, OwnerFrame
  <1>6. ASSUME NEW p \in Pid, MonitorTarget(p) PROVE OwnerInv'
    BY <1>6, MonitorTargetEffect, OwnerFrame
  <1>7. ASSUME NEW p \in Pid, NEW ref \in Ref, Demonitor(p, ref) PROVE OwnerInv'
    BY <1>7, DemonitorEffect, OwnerFrame
  <1>8. ASSUME NEW p \in Pid, DemonitorTarget(p) PROVE OwnerInv'
    BY <1>8, DemonitorTargetEffect, OwnerFrame
  <1>9. ASSUME NEW p \in Pid, ExitBegin(p) PROVE OwnerInv'
    BY <1>9, ExitBeginEffect, OwnerFrame
  <1>10. ASSUME NEW p \in Pid, NEW ref \in Ref, NEW owner \in Pid,
                NotifyMonitor(p, ref, owner)
         PROVE  OwnerInv'
    <2>1. /\ UNCHANGED <<nextRef, monitoredBy, pc, arg>>
          /\ \A q \in Pid : exitMons'[q] \subseteq exitMons[q]
          /\ \A q \in Pid, r \in Ref :
                 monitors'[q][r] # None => monitors'[q][r] = monitors[q][r]
      BY <1>10, NotifyMonitorEffect
    <2>2. HoldersKept /\ \A q \in Pid, r \in Ref : Holds(q, r)' => Holds(q, r)
      BY <2>1
    <2>3. QED
      BY <2>1, <2>2, OwnerFrame
  <1>11. QED
    BY <1>1, <1>2, <1>3, <1>4, <1>5, <1>6, <1>7, <1>8, <1>9, <1>10, QuietStep
       DEF MonitorStep

LEMMA AskedNext ==
    ASSUME TypeOK, TypeOK', TaskInv, DownInv, ArmedInv, [Next]_vars, NEW a \in Pid
    PROVE  AskedIsHeld(a)'
  <1> SUFFICES ASSUME pc'[a] \in {"monitor", "child_monitor"},
                      NEW r \in Ref, r = arg'[a].ref
               PROVE  monitors'[a][r] = arg'[a].pid
    BY DEF AskedIsHeld, TypeOK
  <1> USE DEF Others
  <1>a. pc[a] \in {"monitor", "child_monitor"} => monitors[a][arg[a].ref] = arg[a].pid
    BY DEF ArmedInv, AskedIsHeld
  <1>b. \A q \in Pid : pc[a] \in {"monitor", "child_monitor"} => ~Pending(q, arg[a].ref)
    BY DEF TypeOK, DownInv, DownRightIsUnique, Asking
  <1>1. CASE Quiet
    BY <1>1, <1>a DEF Quiet, MonStep
  <1>2. ASSUME NEW p \in Pid, NEW q \in Pid, Monitor(p, q)
        PROVE  monitors'[a][r] = arg'[a].pid
    <2>1. nextRef \in Ref /\ nextRef >= nextRef
      BY <1>2, MonitorEffect DEF TypeOK
    <2>2. ~Asking(a, nextRef)
      BY <2>1 DEF DownInv, DownRightIsUnique
    <2>3. QED
      BY <1>2, <1>a, <2>2, MonitorEffect DEF Asking
  <1>3. ASSUME NEW p \in Pid, NEW q \in Pid, SpawnMonitor(p, q)
        PROVE  monitors'[a][r] = arg'[a].pid
    BY <1>3, <1>a, SpawnMonitorEffect
  <1>4. ASSUME NEW p \in Pid, SpawnMonitorParent(p)
        PROVE  monitors'[a][r] = arg'[a].pid
    BY <1>4, <1>a, SpawnMonitorParentEffect
  <1>5. ASSUME NEW p \in Pid, SpawnMonitorChild(p)
        PROVE  monitors'[a][r] = arg'[a].pid
    BY <1>5, <1>a, SpawnMonitorChildEffect
  <1>6. ASSUME NEW p \in Pid, MonitorTarget(p)
        PROVE  monitors'[a][r] = arg'[a].pid
    BY <1>6, <1>a, MonitorTargetEffect
  <1>7. ASSUME NEW p \in Pid, NEW ref \in Ref, Demonitor(p, ref)
        PROVE  monitors'[a][r] = arg'[a].pid
    BY <1>7, <1>a, DemonitorEffect
  <1>8. ASSUME NEW p \in Pid, DemonitorTarget(p)
        PROVE  monitors'[a][r] = arg'[a].pid
    BY <1>8, <1>a, DemonitorTargetEffect
  <1>9. ASSUME NEW p \in Pid, ExitBegin(p)
        PROVE  monitors'[a][r] = arg'[a].pid
    BY <1>9, <1>a, ExitBeginEffect
  <1>10. ASSUME NEW p \in Pid, NEW ref \in Ref, NEW owner \in Pid,
                NotifyMonitor(p, ref, owner)
         PROVE  monitors'[a][r] = arg'[a].pid
    <2>1. /\ UNCHANGED <<monitoredBy, pc, arg>> /\ <<ref, owner>> \in exitMons[p]
          /\ \A q \in Pid, s \in Ref : s # ref => monitors'[q][s] = monitors[q][s]
      BY <1>10, NotifyMonitorEffect
    <2>2. Pending(p, ref)
      BY <2>1 DEF Pending
    <2>3. QED
      BY <1>a, <1>b, <2>1, <2>2
  <1>11. QED
    BY <1>1, <1>2, <1>3, <1>4, <1>5, <1>6, <1>7, <1>8, <1>9, <1>10, QuietStep
       DEF MonitorStep

LEMMA ArmedNext ==
    ASSUME TypeOK, TypeOK', TaskInv, TaskInv', DownInv, OwnerInv, ArmedInv,
           [Next]_vars, NEW a \in Pid, NEW b \in Pid, NEW s \in Ref
    PROVE  ArmedIsHeld(a, b, s)'
  <1> DEFINE Kept == \/ monitors'[a][s] = b
                     \/ pc'[a] = "demonitor" /\ arg'[a].ref = s /\ arg'[a].pid = b
  <1> SUFFICES ASSUME monitoredBy'[b][s] = a, ~SnapshotTaken(b)' PROVE Kept
    BY DEF ArmedIsHeld, Releasing
  <1> USE DEF Others
  <1>a. /\ ~SnapshotTaken(b)
        /\ monitoredBy[b][s] = a =>
               \/ monitors[a][s] = b
               \/ pc[a] = "demonitor" /\ arg[a].ref = s /\ arg[a].pid = b
    <2>1. ~SnapshotTaken(b)
      BY TaskOnward DEF Spawned, SnapshotTaken
    <2>2. QED
      BY <2>1 DEF ArmedInv, ArmedIsHeld, Releasing
  <1>b. monitoredBy[b][s] = a =>
            \A q \in Pid : ~Pending(q, s) /\ ~Asking(q, s)
    BY <1>a, NoneAssumption DEF DownInv, DownRightIsUnique, Armed
  <1>1. CASE Quiet
    BY <1>1, <1>a DEF Quiet, MonStep
  <1>2. ASSUME NEW p \in Pid, NEW q \in Pid, Monitor(p, q) PROVE Kept
    <2>1. monitoredBy[b][s] = a
      BY <1>2, MonitorEffect
    <2>2. s # nextRef
      <3>1. nextRef >= nextRef
        BY DEF TypeOK
      <3>2. QED
        BY <2>1, <3>1, NoneAssumption DEF OwnerInv, FreshIsFree
    <2>3. QED
      BY <1>2, <1>a, <2>1, <2>2, MonitorEffect
  <1>3. ASSUME NEW p \in Pid, NEW q \in Pid, SpawnMonitor(p, q) PROVE Kept
    BY <1>3, <1>a, SpawnMonitorEffect
  <1>4. ASSUME NEW p \in Pid, SpawnMonitorParent(p) PROVE Kept
    <2>1. Asking(p, arg[p].ref)
      BY <1>4, SpawnMonitorParentEffect DEF Asking
    <2>2. QED
      BY <1>4, <1>a, <1>b, <2>1, SpawnMonitorParentEffect
  <1>5. ASSUME NEW p \in Pid, SpawnMonitorChild(p) PROVE Kept
    <2>1. monitors[p][arg[p].ref] = arg[p].pid
      BY <1>5, SpawnMonitorChildEffect DEF ArmedInv, AskedIsHeld
    <2>2. QED
      BY <1>5, <1>a, <2>1, SpawnMonitorChildEffect
  <1>6. ASSUME NEW p \in Pid, MonitorTarget(p) PROVE Kept
    <2>1. monitors[p][arg[p].ref] = arg[p].pid /\ Asking(p, arg[p].ref)
      BY <1>6, MonitorTargetEffect DEF ArmedInv, AskedIsHeld, Asking
    <2>2. QED
      BY <1>6, <1>a, <1>b, <2>1, MonitorTargetEffect
  <1>7. ASSUME NEW p \in Pid, NEW ref \in Ref, Demonitor(p, ref) PROVE Kept
    BY <1>7, <1>a, DemonitorEffect
  <1>8. ASSUME NEW p \in Pid, DemonitorTarget(p) PROVE Kept
    <2>1. ~Get(arg[p].pid) => SnapshotTaken(arg[p].pid)
      BY <1>8, DemonitorTargetEffect
         DEF TaskInv, TaskOK, InRegistry, AboutSpawned, Spawned, Get, SnapshotTaken
    <2>2. QED
      BY <1>8, <1>a, <2>1, NoneAssumption, DemonitorTargetEffect
  <1>9. ASSUME NEW p \in Pid, ExitBegin(p) PROVE Kept
    BY <1>9, <1>a, ExitBeginEffect
  <1>10. ASSUME NEW p \in Pid, NEW ref \in Ref, NEW owner \in Pid,
                NotifyMonitor(p, ref, owner)
         PROVE  Kept
    <2>1. /\ UNCHANGED <<monitoredBy, pc, arg>> /\ <<ref, owner>> \in exitMons[p]
          /\ \A q \in Pid, r \in Ref : r # ref => monitors'[q][r] = monitors[q][r]
      BY <1>10, NotifyMonitorEffect
    <2>2. Pending(p, ref)
      BY <2>1 DEF Pending
    <2>3. QED
      BY <1>a, <1>b, <2>1, <2>2
  <1>11. QED
    BY <1>1, <1>2, <1>3, <1>4, <1>5, <1>6, <1>7, <1>8, <1>9, <1>10, QuietStep
       DEF MonitorStep

-----------------------------------------------------------------------------
(***************************************************************************)
(* HeldMonitorIsKnown, as two facts about each process and reference.      *)
(***************************************************************************)
HeldIsToFire(p, ref) ==
    monitors[p][ref] # None => \A q \in Pid : ~DownDelivered(q, ref)
HeldIsKnown(p, ref) ==
    monitors[p][ref] # None /\ Running(p) /\ arg[p].ref # ref =>
        \/ monitoredBy[monitors[p][ref]][ref] = p
        \/ monitors[p][ref] \notin registered

LEMMA HeldParts ==
    HeldMonitorIsKnown <=>
        \A p \in Pid, ref \in Ref : HeldIsToFire(p, ref) /\ HeldIsKnown(p, ref)
  BY DEF HeldMonitorIsKnown, HeldIsToFire, HeldIsKnown

\* Where a step may add a DOWN for a reference.
LEMMA DownFrom ==
    ASSUME TypeOK, TaskInv, DownInv, [Next]_vars, NEW q \in Pid, NEW s \in Ref,
           DownDelivered(q, s)'
    PROVE  \/ DownDelivered(q, s)
           \/ \E p \in Pid : /\ MonitorTarget(p) /\ arg[p].ref = s
                             /\ ~Get(arg[p].pid)
           \/ \E p, owner \in Pid : /\ NotifyMonitor(p, s, owner)
                                    /\ monitors' = RemoveMonitor(owner, s)
  <1>1. CASE NoNewDown
    BY <1>1, NoNewDownDelivered
  <1>2. ASSUME NEW p \in Pid, MonitorTarget(p), ~NoNewDown
        PROVE  DownDelivered(q, s) \/ (arg[p].ref = s /\ ~Get(arg[p].pid))
    <2>1. PICK target \in Pid, ref \in Ref : target = arg[p].pid /\ ref = arg[p].ref
      BY <1>2, MonitorTargetEffect
    <2>2. /\ Deliver(p, DownMsg(ref, target, "noproc")) /\ ~Get(target)
          /\ DownMsg(ref, target, "noproc") \in Message
      BY <1>2, <2>1, MonitorTargetEffect, SameMailbox, MessageTyping
    <2>3. PICK i \in DOMAIN mailbox'[q] : IsDown(mailbox'[q][i], s)
      BY DEF DownDelivered, IsDown
    <2>4. \/ i \in DOMAIN mailbox[q] /\ mailbox'[q][i] = mailbox[q][i]
          \/ mailbox'[q][i] = DownMsg(ref, target, "noproc")
      BY <2>2, DeliverEntries DEF TypeOK
    <2>5. QED
      BY <2>1, <2>2, <2>3, <2>4 DEF DownDelivered, IsDown, DownMsg
  <1>3. ASSUME NEW p \in Pid, NEW ref \in Ref, NEW owner \in Pid,
               NotifyMonitor(p, ref, owner), ~NoNewDown
        PROVE  \/ DownDelivered(q, s)
               \/ ref = s /\ monitors' = RemoveMonitor(owner, s)
    <2>1. /\ Deliver(owner, DownMsg(ref, p, "Normal"))
          /\ DownMsg(ref, p, "Normal") \in Message
          /\ monitors' = RemoveMonitor(owner, ref)
      BY <1>3, NotifyMonitorEffect, SameMailbox, MessageTyping
    <2>2. PICK i \in DOMAIN mailbox'[q] : IsDown(mailbox'[q][i], s)
      BY DEF DownDelivered, IsDown
    <2>3. \/ i \in DOMAIN mailbox[q] /\ mailbox'[q][i] = mailbox[q][i]
          \/ mailbox'[q][i] = DownMsg(ref, p, "Normal")
      BY <2>1, DeliverEntries DEF TypeOK
    <2>4. QED
      BY <2>1, <2>2, <2>3 DEF DownDelivered, IsDown, DownMsg
  <1>4. CASE ~NoNewDown
    <2>1. MonitorStep
      BY <1>4, QuietStep DEF Quiet
    <2>2. QED
      BY <1>2, <1>3, <1>4, <2>1, SameMailbox, MonitorEffect, SpawnMonitorEffect,
         SpawnMonitorParentEffect, SpawnMonitorChildEffect, DemonitorEffect,
         DemonitorTargetEffect, ExitBeginEffect
         DEF MonitorStep
  <1>5. QED
    BY <1>1, <1>4

LEMMA ToFireNext ==
    ASSUME TypeOK, TaskInv, DownInv, OwnerInv, HeldMonitorIsKnown, [Next]_vars,
           NEW a \in Pid, NEW s \in Ref
    PROVE  HeldIsToFire(a, s)'
  <1> SUFFICES ASSUME monitors'[a][s] # None, NEW q \in Pid, DownDelivered(q, s)'
               PROVE  FALSE
    BY DEF HeldIsToFire
  <1>1. Holds(a, s) \/ s >= nextRef
    <2>1. CASE Quiet
      BY <2>1 DEF Quiet, Holds
    <2>2. CASE \E p, t \in Pid : Monitor(p, t)
      <3>1. PICK p \in Pid, t \in Pid : Monitor(p, t)
        BY <2>2
      <3>2. monitors'[a][s] = monitors[a][s] \/ s = nextRef
        BY <3>1, MonitorEffect
      <3>3. nextRef >= nextRef
        BY DEF TypeOK
      <3>4. QED
        BY <3>2, <3>3 DEF Holds
    <2>3. CASE \E p \in Pid : SpawnMonitorParent(p)
      BY <2>3, SpawnMonitorParentEffect DEF Holds, Asking
    <2>4. CASE \E p \in Pid : \/ \E t \in Pid : SpawnMonitor(p, t)
                              \/ SpawnMonitorChild(p) \/ DemonitorTarget(p)
                              \/ ExitBegin(p)
      BY <2>4, SpawnMonitorEffect, SpawnMonitorChildEffect, DemonitorTargetEffect,
         ExitBeginEffect DEF Holds
    <2>5. CASE \E p \in Pid : MonitorTarget(p)
      BY <2>5, MonitorTargetEffect DEF Holds
    <2>6. CASE \E p \in Pid, ref \in Ref : Demonitor(p, ref)
      BY <2>6, DemonitorEffect DEF Holds
    <2>7. CASE \E p, owner \in Pid, ref \in Ref : NotifyMonitor(p, ref, owner)
      BY <2>7, NotifyMonitorEffect DEF Holds
    <2>8. QED
      BY <2>1, <2>2, <2>3, <2>4, <2>5, <2>6, <2>7, QuietStep DEF MonitorStep
  <1>2. ~DownDelivered(q, s)
    <2>1. CASE monitors[a][s] # None
      BY <2>1, HeldParts DEF HeldIsToFire
    <2>2. CASE Asking(a, s) \/ s >= nextRef
      BY <2>2 DEF DownInv, DownRightIsUnique
    <2>3. QED
      BY <1>1, <2>1, <2>2 DEF Holds
  <1>3. ASSUME NEW p \in Pid, MonitorTarget(p), arg[p].ref = s, ~Get(arg[p].pid)
        PROVE  FALSE
    <2>1. Holds(p, s) /\ ~(s >= nextRef)
      BY <1>3, MonitorTargetEffect DEF Holds, Asking, OwnerInv, FreshIsFree
    <2>2. a = p
      BY <1>1, <2>1 DEF OwnerInv, OneHolder
    <2>3. QED
      BY <1>3, <2>2, MonitorTargetEffect
  <1>4. ASSUME NEW p \in Pid, NEW owner \in Pid, NotifyMonitor(p, s, owner),
               monitors' = RemoveMonitor(owner, s)
        PROVE  FALSE
    <2>1. <<s, owner>> \in exitMons[p] /\ a # owner
      BY <1>4, MonitorEntries, NotifyMonitorEffect
    <2>2. Pending(p, s)
      BY <2>1 DEF Pending
    <2>3. ~(s >= nextRef)
      BY <2>2 DEF DownInv, DownRightIsUnique
    <2>4. QED
      BY <1>1, <2>1, <2>3 DEF OwnerInv, OneHolder
  <1>5. QED
    BY <1>2, <1>3, <1>4, DownFrom

LEMMA KnownNext ==
    ASSUME TypeOK, TypeOK', TaskInv, TaskInv', OwnerInv, ArmedInv,
           HeldMonitorIsKnown, [Next]_vars, NEW a \in Pid, NEW s \in Ref
    PROVE  HeldIsKnown(a, s)'
  <1> DEFINE Known == \/ monitoredBy'[monitors'[a][s]][s] = a
                      \/ monitors'[a][s] \notin registered'
  <1> SUFFICES ASSUME monitors'[a][s] # None, Running(a)', arg'[a].ref # s
               PROVE  Known
    BY DEF HeldIsKnown
  <1> USE DEF Others
  <1>y. monitors'[a][s] \in Pid
    BY DEF TypeOK
  \* The same monitor, known before the step and still.
  <1>a. ASSUME monitors'[a][s] = monitors[a][s], arg[a].ref # s,
               \/ monitoredBy'[monitors[a][s]][s] = monitoredBy[monitors[a][s]][s]
               \/ monitoredBy'[monitors[a][s]][s] = a
        PROVE  Known
    <2>1. Spawned(a) /\ Spawned(monitors[a][s]) /\ monitors[a][s] \in Pid
      BY <1>a DEF TypeOK, TaskInv, TaskOK, MonitorsSpawned
    <2>2. Running(a)
      BY <2>1, TaskOnward
    <2>3. monitoredBy[monitors[a][s]][s] = a \/ monitors[a][s] \notin registered
      BY <1>a, <2>2, HeldParts DEF HeldIsKnown
    <2>4. QED
      BY <1>a, <2>1, <2>3, TaskOnward
  <1>1. CASE Quiet
    <2>1. arg[a].ref # s
      BY <1>1 DEF Quiet, TaskInv, TaskOK, RefInUse, Ref, MonStep
    <2>2. QED
      BY <1>1, <1>a, <2>1 DEF Quiet
  <1>z. 0 # s
    BY BoundAssumption DEF Ref
  <1>2. ASSUME NEW p \in Pid, NEW q \in Pid, Monitor(p, q) PROVE Known
    BY <1>2, <1>a, <1>z, MonitorEffect
  <1>3. ASSUME NEW p \in Pid, NEW q \in Pid, SpawnMonitor(p, q) PROVE Known
    BY <1>3, <1>a, <1>z, SpawnMonitorEffect
  <1>4. ASSUME NEW p \in Pid, SpawnMonitorParent(p) PROVE Known
    BY <1>4, <1>a, SpawnMonitorParentEffect
  <1>5. ASSUME NEW p \in Pid, SpawnMonitorChild(p) PROVE Known
    <2>1. CASE a = p /\ s = arg[p].ref
      BY <1>5, <2>1, SpawnMonitorChildEffect DEF ArmedInv, AskedIsHeld, Get
    <2>2. CASE ~(a = p /\ s = arg[p].ref)
      <3>1. s = arg[p].ref => a = p
        BY <1>5, SpawnMonitorChildEffect DEF OwnerInv, OneHolder, Holds, Asking
      <3>2. monitors'[a][s] = monitors[a][s] /\ monitors[a][s] \in Pid
        BY <1>5, <1>y, SpawnMonitorChildEffect
      <3>3. arg[a].ref # s
        BY <1>5, <2>2, <3>1, SpawnMonitorChildEffect
      <3>4. monitoredBy'[monitors[a][s]][s] = monitoredBy[monitors[a][s]][s]
        BY <1>5, <2>2, <3>1, <3>2, SpawnMonitorChildEffect
      <3>5. QED
        BY <1>a, <3>2, <3>3, <3>4
    <2>3. QED
      BY <2>1, <2>2
  <1>6. ASSUME NEW p \in Pid, MonitorTarget(p) PROVE Known
    <2>1. CASE a = p /\ s = arg[p].ref
      BY <1>6, <2>1, MonitorTargetEffect DEF ArmedInv, AskedIsHeld
    <2>2. CASE ~(a = p /\ s = arg[p].ref)
      <3>1. monitors'[a][s] = monitors[a][s]
        BY <1>6, <2>2, MonitorTargetEffect
      <3>2. s # arg[p].ref
        BY <1>6, <2>2, <3>1, MonitorTargetEffect
           DEF OwnerInv, OneHolder, Holds, Asking
      <3>3. monitors[a][s] \in Pid /\ arg[a].ref # s
        BY <1>6, <1>y, <3>1, <3>2, MonitorTargetEffect
      <3>4. monitoredBy'[monitors[a][s]][s] = monitoredBy[monitors[a][s]][s]
        BY <1>6, <3>2, <3>3, MonitorTargetEffect
      <3>5. QED
        BY <1>a, <3>1, <3>3, <3>4
    <2>3. QED
      BY <2>1, <2>2
  <1>7. ASSUME NEW p \in Pid, NEW ref \in Ref, Demonitor(p, ref) PROVE Known
    BY <1>7, <1>a, <1>z, DemonitorEffect DEF TaskInv, TaskOK, RefInUse, MonStep
  <1>8. ASSUME NEW p \in Pid, DemonitorTarget(p) PROVE Known
    <2>1. s # arg[p].ref
      BY <1>8, DemonitorTargetEffect DEF OwnerInv, OneHolder, Holds, Releasing
    <2>2. /\ monitors'[a][s] = monitors[a][s] /\ monitors[a][s] \in Pid
          /\ arg[a].ref # s
      BY <1>8, <1>y, <2>1, DemonitorTargetEffect
    <2>3. monitoredBy'[monitors[a][s]][s] = monitoredBy[monitors[a][s]][s]
      BY <1>8, <2>1, <2>2, DemonitorTargetEffect
    <2>4. QED
      BY <1>a, <2>2, <2>3
  <1>9. ASSUME NEW p \in Pid, ExitBegin(p) PROVE Known
    BY <1>9, <1>a, ExitBeginEffect
  <1>10. ASSUME NEW p \in Pid, NEW ref \in Ref, NEW owner \in Pid,
                NotifyMonitor(p, ref, owner)
         PROVE  Known
    BY <1>10, <1>a, NotifyMonitorEffect
  <1>11. QED
    BY <1>1, <1>2, <1>3, <1>4, <1>5, <1>6, <1>7, <1>8, <1>9, <1>10, QuietStep
       DEF MonitorStep

(***************************************************************************)
(* The invariant behind what a process may rely on about its monitors.     *)
(***************************************************************************)
MonitorInv == TaskInv /\ DownInv /\ OwnerInv /\ ArmedInv

LEMMA MonitorInvInit == Init => MonitorInv
  BY TaskInit, DownInit, OwnerInit DEF MonitorInv

LEMMA MonitorInvNext == TypeOK /\ TypeOK' /\ MonitorInv /\ [Next]_vars => MonitorInv'
  BY TaskNext, DownNext, OwnerNext, AskedNext, ArmedNext DEF MonitorInv, ArmedInv

(***************************************************************************)
(* A monitor that is held is still to fire, and its target knows of it.    *)
(***************************************************************************)
THEOREM HeldMonitorsAreKnown == Spec => []HeldMonitorIsKnown
  <1>1. Init => HeldMonitorIsKnown
    BY DEF Init, HeldMonitorIsKnown
  <1>2. TypeOK /\ TypeOK' /\ MonitorInv /\ MonitorInv' /\ HeldMonitorIsKnown
            /\ [Next]_vars => HeldMonitorIsKnown'
    <2> SUFFICES ASSUME TypeOK, TypeOK', MonitorInv, MonitorInv', HeldMonitorIsKnown,
                        [Next]_vars
                 PROVE  HeldMonitorIsKnown'
      OBVIOUS
    <2>1. \A p \in Pid, ref \in Ref : HeldIsToFire(p, ref)' /\ HeldIsKnown(p, ref)'
      BY ToFireNext, KnownNext DEF MonitorInv
    <2>2. QED
      BY <2>1 DEF HeldMonitorIsKnown, HeldIsToFire, HeldIsKnown
  <1>3. QED
    BY <1>1, <1>2, TypeCorrect, MonitorInvInit, MonitorInvNext, PTL DEF Spec

\* A step that puts a reference in a snapshot finds it held or being released,
\* and so does one that sends its DOWN.
LEMMA ReleasedStays ==
    ASSUME TypeOK, MonitorInv, [Next]_vars, NEW p \in Pid, NEW ref \in Ref, Released(ref)
    PROVE  ~Pending(p, ref)' /\ ~DownDelivered(p, ref)'
  <1>1. \A q \in Pid : /\ monitors[q][ref] = None
                       /\ pc[q] # "idle" => arg[q].ref # ref
                       /\ ~Pending(q, ref) /\ ~DownDelivered(q, ref)
    BY DEF Released
  <1>2. ~DownDelivered(p, ref)'
    <2>1. ASSUME NEW q \in Pid, MonitorTarget(q), arg[q].ref = ref PROVE FALSE
      BY <1>1, <2>1, MonitorTargetEffect
    <2>2. ASSUME NEW q \in Pid, NEW owner \in Pid, NotifyMonitor(q, ref, owner)
          PROVE  FALSE
      BY <1>1, <2>2, NotifyMonitorEffect DEF Pending
    <2>3. QED
      BY <1>1, <2>1, <2>2, DownFrom DEF MonitorInv
  <1>3. ~Pending(p, ref)'
    <2> SUFFICES ASSUME NEW o \in Pid, <<ref, o>> \in exitMons'[p] PROVE FALSE
      BY DEF Pending
    <2>1. <<ref, o>> \notin exitMons[p]
      BY <1>1 DEF Pending
    <2>2. ASSUME NEW q \in Pid, ExitBegin(q) PROVE FALSE
      <3>1. monitoredBy[p][ref] = o /\ ~SnapshotTaken(p)
        BY <2>1, <2>2, ExitBeginEffect DEF SnapshotTaken
      <3>2. monitors[o][ref] = p \/ Releasing(o, ref)
        BY <3>1 DEF MonitorInv, ArmedInv, ArmedIsHeld
      <3>3. QED
        BY <1>1, <3>2, NoneAssumption DEF Releasing
    <2>3. ASSUME NEW q \in Pid, NEW owner \in Pid, NEW r \in Ref,
                 NotifyMonitor(q, r, owner)
          PROVE  FALSE
      BY <2>1, <2>3, NotifyMonitorEffect
    <2>4. CASE exitMons' = exitMons
      BY <2>1, <2>4
    <2>5. ASSUME NEW q \in Pid,
                 \/ \E t \in Pid : Monitor(q, t) \/ SpawnMonitor(q, t)
                 \/ \E r \in Ref : Demonitor(q, r)
                 \/ SpawnMonitorParent(q) \/ SpawnMonitorChild(q)
                 \/ MonitorTarget(q) \/ DemonitorTarget(q)
          PROVE  exitMons' = exitMons
      BY <2>5 DEF Monitor, SpawnMonitor, SpawnChild, Demonitor, SpawnMonitorParent,
                  SpawnMonitorChild, MonitorTarget, DemonitorTarget, exitVars
    <2>6. QED
      BY <2>2, <2>3, <2>4, <2>5, QuietStep DEF Quiet, MonitorStep
  <1>4. QED
    BY <1>2, <1>3

(***************************************************************************)
(* A demonitor is final: once nobody holds the reference, is busy with it  *)
(* or has it in a snapshot, no exit takes it into its snapshot and no DOWN *)
(* is sent for it, whatever else runs.                                     *)
(***************************************************************************)
THEOREM DemonitorsAreFinal == Spec => DemonitorIsFinal
  <1>1. TypeOK /\ MonitorInv /\ [Next]_vars =>
            \A p \in Pid, ref \in Ref :
                Released(ref) => ~Pending(p, ref)' /\ ~DownDelivered(p, ref)'
    BY ReleasedStays
  <1>2. QED
    BY <1>1, TypeCorrect, MonitorInvInit, MonitorInvNext, PTL
       DEF Spec, DemonitorIsFinal

-----------------------------------------------------------------------------
(***************************************************************************)
(* LinkedPeerKnows.  A link is made on the side of the caller first: the   *)
(* other side has it, or the caller is still inside the operation.  Every  *)
(* removal is by the exit of the process removed, which is not running     *)
(* then, or of a peer that has left the registry.                          *)
(***************************************************************************)
LinkStep == {"link", "spawn_link", "child_link"}

LinkAsked(p) ==
    pc[p] \in {"link", "child_link"} /\ Running(arg[p].pid) => arg[p].pid \in links[p]
PeerKnows(p, q) ==
    Running(p) /\ q \in links[p] /\ ~(pc[p] \in LinkStep /\ arg[p].pid = q) =>
        p \in links[q] \/ q \notin registered

LinkInv ==
    \A p \in Pid : /\ pc[p] # "unlink" /\ LinkAsked(p)
                   /\ \A q \in Pid : PeerKnows(p, q)

LEMMA LinkInit == Init => LinkInv
  BY DEF Init, LinkInv, LinkAsked, PeerKnows, Running

\* The steps that change links, or the tasks inside a link operation.
QuietLink ==
    /\ links' = links
    /\ \A p \in Pid : /\ pc'[p] # "unlink"
                      /\ \/ pc'[p] = pc[p] /\ arg'[p] = arg[p]
                         \/ pc[p] \notin LinkStep /\ pc'[p] \notin LinkStep

LinkingStep ==
    \E p \in Pid :
        \/ \E q \in Pid : SpawnLink(p, q) \/ Link(p, q) \/ NotifyLink(p, q)
        \/ SpawnLinkParent(p) \/ SpawnLinkChild(p) \/ LinkOther(p)

LEMMA QuietLinkStep ==
    ASSUME TypeOK, LinkInv, "unlink" \notin Ops, [Next]_vars
    PROVE  QuietLink \/ LinkingStep
  <1> USE DEF QuietLink, LinkStep
  <1>1. \A p \in Pid : pc[p] # "unlink"
    BY DEF LinkInv
  <1>2. CASE UNCHANGED vars
    BY <1>1, <1>2 DEF vars, handleVars
  <1>3. ASSUME NEW p \in Pid, Spawn(p) PROVE QuietLink
    BY <1>1, <1>3 DEF TypeOK, Spawn, handleVars
  <1>4. ASSUME NEW p \in Pid, NEW q \in Pid, SpawnMonitor(p, q) PROVE QuietLink
    <2>1. links' = links
      BY <1>4 DEF SpawnMonitor, SpawnChild, handleVars
    <2>2. /\ pc[p] = "idle" /\ pc[q] = "unborn"
          /\ pc'[p] = "spawn_monitor" /\ pc'[q] = "idle"
          /\ \A o \in Pid : o # p /\ o # q => pc'[o] = pc[o] /\ arg'[o] = arg[o]
      BY <1>4 DEF TypeOK, SpawnMonitor, SpawnChild, Idle
    <2>3. QED
      BY <1>1, <2>1, <2>2
  <1>5. ASSUME NEW p \in Pid, NEW q \in Pid,
               \/ Monitor(p, q) \/ \E name \in Name : Register(p, name, q)
               \/ \E ref \in Ref : Demonitor(p, ref)
        PROVE  QuietLink
    BY <1>1, <1>5 DEF TypeOK, Monitor, Register, Demonitor, Goto, Idle, handleVars
  <1>6. ASSUME NEW p \in Pid,
               \/ \E q \in Pid, reason \in Reason : Exit(p, q, reason)
               \/ \E reason \in Reason : RuntimeExit(p, reason)
               \/ \E trap \in BOOLEAN : SetTrapExit(p, trap)
               \/ \E name \in Name : UnregisterName(p, name)
               \/ \E ref \in Ref, owner \in Pid : NotifyMonitor(p, ref, owner)
        PROVE  QuietLink
    BY <1>1, <1>6
       DEF Exit, RuntimeExit, SetTrapExit, UnregisterName, NotifyMonitor, handleVars
  <1>7. ASSUME NEW p \in Pid,
               \/ SpawnMonitorParent(p) \/ SpawnMonitorChild(p) \/ MonitorTarget(p)
               \/ DemonitorTarget(p) \/ RegisterInsert(p)
        PROVE  QuietLink
    BY <1>1, <1>7
       DEF TypeOK, SpawnMonitorParent, SpawnMonitorChild, MonitorTarget,
           DemonitorTarget, RegisterInsert, Return, Goto, handleVars
  <1>8. ASSUME NEW p \in Pid,
               \/ BodyReturns(p) \/ BodyPanics(p) \/ ExitBegin(p)
               \/ UnregisterNames(p) \/ UnregisterProcess(p)
        PROVE  QuietLink
    BY <1>1, <1>8
       DEF TypeOK, BodyReturns, BodyPanics, ExitBegin, UnregisterNames,
           UnregisterProcess, Idle, handleVars
  <1>9. \A p, q \in Pid : ~Unlink(p, q) /\ ~UnlinkOther(p)
    BY <1>1 DEF Unlink, UnlinkOther, Idle
  <1>10. QED
    BY <1>2, <1>3, <1>4, <1>5, <1>6, <1>7, <1>8, <1>9
       DEF Next, StartOp, FinishOp, HandleProcessExit, LinkingStep

\* What the linking steps do to the links of each process.
LEMMA LinkEffect ==
    ASSUME TypeOK, NEW p \in Pid, NEW c \in Pid,
           \/ Link(p, c)
           \/ SpawnLinkParent(p) /\ c = arg[p].pid
    PROVE  /\ pc[p] \in {"idle", "spawn_link"} /\ pc'[p] \in {"link", "child_link"}
           /\ arg'[p].pid = c /\ Others(p)
           /\ pc[p] = "spawn_link" => arg[p].pid = c
           /\ \A a, b \in Pid : b \in links'[a] <=> b \in links[a] \/ (a = p /\ b = c)
  <1>1. /\ pc[p] \in {"idle", "spawn_link"} /\ pc'[p] \in {"link", "child_link"}
        /\ arg'[p].pid = c /\ Others(p)
        /\ pc[p] = "spawn_link" => arg[p].pid = c
        /\ links' = [links EXCEPT ![p] = links[p] \cup {c}]
    BY DEF TypeOK, Link, SpawnLinkParent, Idle, Goto, Others
  <1>2. \A a \in Pid : links'[a] = IF a = p THEN links[p] \cup {c} ELSE links[a]
    BY <1>1 DEF TypeOK
  <1>3. QED
    BY <1>1, <1>2

LEMMA LinkOtherEffect ==
    ASSUME TypeOK, NEW p \in Pid, SpawnLinkChild(p) \/ LinkOther(p)
    PROVE  /\ pc[p] \in {"link", "child_link"} /\ pc'[p] = "idle" /\ Others(p)
           /\ arg[p].pid \in Pid
           /\ \A a, b \in Pid :
                  /\ b \in links'[a] =>
                         b \in links[a] \/ (Get(a) /\ a = arg[p].pid /\ b = p)
                  /\ b \in links[a] =>
                         \/ b \in links'[a]
                         \/ a = p /\ b = arg[p].pid /\ ~Get(b)
           /\ Get(arg[p].pid) => p \in links'[arg[p].pid]
  <1>1. PICK c \in Pid : c = arg[p].pid
    BY DEF TypeOK, SpawnLinkChild, LinkOther
  <1>2. pc[p] \in {"link", "child_link"} /\ pc'[p] = "idle" /\ Others(p)
    BY DEF TypeOK, SpawnLinkChild, LinkOther, Return, Goto, Others
  <1>3. \/ Get(c) /\ links' = [links EXCEPT ![c] = links[c] \cup {p}]
        \/ ~Get(c) /\ links' = links
        \/ ~Get(c) /\ links' = [links EXCEPT ![p] = links[p] \ {c}]
    BY <1>1 DEF SpawnLinkChild, LinkOther
  <1>4. \/ Get(c) /\ \A a \in Pid :
               links'[a] = IF a = c THEN links[c] \cup {p} ELSE links[a]
        \/ ~Get(c) /\ links' = links
        \/ ~Get(c) /\ \A a \in Pid :
               links'[a] = IF a = p THEN links[p] \ {c} ELSE links[a]
    BY <1>3 DEF TypeOK
  <1>5. QED
    BY <1>1, <1>2, <1>4

LEMMA NotifyLinkEffect ==
    ASSUME TypeOK, NEW p \in Pid, NEW linked \in Pid, NotifyLink(p, linked)
    PROVE  /\ pc[p] = "notify" /\ UNCHANGED <<pc, arg, registered>>
           /\ \A a, b \in Pid :
                  /\ b \in links'[a] => b \in links[a]
                  /\ b \in links[a] => b \in links'[a] \/ b = p
  <1>1. links' = links \/ links' = [links EXCEPT ![linked] = links[linked] \ {p}]
    BY DEF NotifyLink
  <1>2. \/ links' = links
        \/ \A a \in Pid :
               links'[a] = IF a = linked THEN links[linked] \ {p} ELSE links[a]
    BY <1>1 DEF TypeOK
  <1>3. QED
    BY <1>2 DEF NotifyLink

LEMMA SpawnLinkEffect ==
    ASSUME TypeOK, TaskInv, NEW p \in Pid, NEW c \in Pid, SpawnLink(p, c)
    PROVE  /\ links' = links /\ p # c
           /\ pc[p] = "idle" /\ pc'[p] = "spawn_link" /\ arg'[p].pid = c
           /\ pc'[c] = "idle" /\ links[c] = {} /\ ~Spawned(c)
           /\ \A q \in Pid : q # p /\ q # c => pc'[q] = pc[q] /\ arg'[q] = arg[q]
  <1>1. pc[p] = "idle" /\ ~Spawned(c) /\ p # c
    BY DEF TypeOK, SpawnLink, SpawnChild, Idle, Spawned
  <1>2. links[c] = {}
    BY <1>1 DEF TaskInv, TaskOK, LinksSpawned
  <1>3. /\ links' = links /\ pc'[c] = "idle"
        /\ pc'[p] = "spawn_link" /\ arg'[p].pid = c
        /\ \A q \in Pid : q # p /\ q # c => pc'[q] = pc[q] /\ arg'[q] = arg[q]
    BY <1>1 DEF TypeOK, SpawnLink, SpawnChild, handleVars
  <1>4. QED
    BY <1>1, <1>2, <1>3

LEMMA LinkAskedNext ==
    ASSUME TypeOK, TypeOK', TaskInv, TaskInv', LinkInv, "unlink" \notin Ops,
           [Next]_vars, NEW a \in Pid
    PROVE  pc'[a] # "unlink" /\ LinkAsked(a)'
  <1> DEFINE Asked ==
          /\ pc'[a] # "unlink"
          /\ pc'[a] \in {"link", "child_link"} /\ Running(arg[a].pid)' =>
                 arg'[a].pid \in links'[a]
  <1> SUFFICES Asked
    BY DEF LinkAsked
  <1> USE DEF Others
  <1>a. /\ pc[a] # "unlink"
        /\ pc[a] \in {"link", "child_link"} =>
               /\ arg[a].pid \in Pid /\ Spawned(arg[a].pid)
               /\ Running(arg[a].pid) => arg[a].pid \in links[a]
    BY DEF TypeOK, TaskInv, TaskOK, AboutSpawned, LinkInv, LinkAsked
  <1>b. \A q \in Pid : Spawned(q) /\ Running(q)' => Running(q)
    BY TaskOnward
  <1>c. ASSUME pc'[a] = pc[a], arg'[a] = arg[a],
               \A q \in Pid : Running(q) /\ q \in links[a] => q \in links'[a]
        PROVE  Asked
    BY <1>a, <1>b, <1>c DEF Running
  <1>1. CASE QuietLink
    BY <1>1, <1>c DEF QuietLink, LinkStep
  <1>2. ASSUME NEW p \in Pid, NEW c \in Pid, SpawnLink(p, c) PROVE Asked
    BY <1>2, <1>c, SpawnLinkEffect
  <1>3. ASSUME NEW p \in Pid, NEW c \in Pid,
               Link(p, c) \/ (SpawnLinkParent(p) /\ c = arg[p].pid)
        PROVE  Asked
    BY <1>3, <1>c, LinkEffect
  <1>4. ASSUME NEW p \in Pid, SpawnLinkChild(p) \/ LinkOther(p) PROVE Asked
    BY <1>4, <1>c, LinkOtherEffect
  <1>5. ASSUME NEW p \in Pid, NEW linked \in Pid, NotifyLink(p, linked) PROVE Asked
    BY <1>5, <1>c, NotifyLinkEffect DEF Running
  <1>6. QED
    BY <1>1, <1>2, <1>3, <1>4, <1>5, QuietLinkStep
       DEF LinkingStep, TypeOK, SpawnLinkParent

LEMMA PeerKnowsNext ==
    ASSUME TypeOK, TypeOK', TaskInv, TaskInv', LinkInv, "unlink" \notin Ops,
           [Next]_vars, NEW a \in Pid, NEW b \in Pid
    PROVE  PeerKnows(a, b)'
  <1> DEFINE Knows == a \in links'[b] \/ b \notin registered'
  <1> SUFFICES ASSUME Running(a)', b \in links'[a],
                      ~(pc'[a] \in LinkStep /\ arg'[a].pid = b)
               PROVE  Knows
    BY DEF PeerKnows
  <1> USE DEF Others, LinkStep
  \* The link was there, and the other side still has it.
  <1>a. ASSUME b \in links[a], ~(pc[a] \in LinkStep /\ arg[a].pid = b),
               a \in links[b] => a \in links'[b]
        PROVE  Knows
    <2>1. Spawned(a) /\ Spawned(b)
      BY <1>a DEF TaskInv, TaskOK, LinksSpawned
    <2>2. Running(a)
      BY <2>1, TaskOnward
    <2>3. a \in links[b] \/ b \notin registered
      BY <1>a, <2>2 DEF LinkInv, PeerKnows
    <2>4. QED
      BY <1>a, <2>1, <2>3, TaskOnward
  <1>1. CASE QuietLink
    BY <1>1, <1>a DEF QuietLink
  <1>2. ASSUME NEW p \in Pid, NEW c \in Pid, SpawnLink(p, c) PROVE Knows
    BY <1>2, <1>a, SpawnLinkEffect
  <1>3. ASSUME NEW p \in Pid, NEW c \in Pid,
               Link(p, c) \/ (SpawnLinkParent(p) /\ c = arg[p].pid)
        PROVE  Knows
    BY <1>3, <1>a, LinkEffect
  <1>4. ASSUME NEW p \in Pid, SpawnLinkChild(p) \/ LinkOther(p) PROVE Knows
    <2> DEFINE c == arg[p].pid
    <2>1. c \in Pid /\ (~Get(c) => ~Running(c)) /\ LinkAsked(p) /\ Spawned(c)
      BY <1>4, LinkOtherEffect
         DEF LinkInv, TaskInv, TaskOK, InRegistry, AboutSpawned, Get, Running
    <2>2. registered' = registered
      BY <1>4 DEF SpawnLinkChild, LinkOther
    <2>3. CASE a = p /\ b = c
      BY <1>4, <2>1, <2>2, <2>3, LinkOtherEffect DEF Get
    <2>4. CASE a = c /\ b = p
      <3>1. Running(c)
        BY <2>1, <2>4, TaskOnward
      <3>2. Get(c) /\ c \in links[p]
        BY <1>4, <2>1, <3>1, LinkOtherEffect DEF LinkAsked
      <3>3. QED
        BY <1>4, <2>4, <3>2, LinkOtherEffect
    <2>5. CASE ~(a = p /\ b = c) /\ ~(a = c /\ b = p)
      BY <1>4, <1>a, <2>1, <2>5, LinkOtherEffect
    <2>6. QED
      BY <2>3, <2>4, <2>5
  <1>5. ASSUME NEW p \in Pid, NEW linked \in Pid, NotifyLink(p, linked) PROVE Knows
    BY <1>5, <1>a, NotifyLinkEffect DEF Running
  <1>6. QED
    BY <1>1, <1>2, <1>3, <1>4, <1>5, QuietLinkStep
       DEF LinkingStep, TypeOK, SpawnLinkParent

(***************************************************************************)
(* A link is known on both sides, when nobody unlinks: for any number of   *)
(* processes and any other operations.                                     *)
(***************************************************************************)
THEOREM LinkedPeersKnow ==
    ASSUME "unlink" \notin Ops
    PROVE  Spec => []LinkedPeerKnows
  <1>1. LinkInv => LinkedPeerKnows
    BY DEF LinkInv, LinkedPeerKnows, PeerKnows
  <1>2. TypeOK /\ TypeOK' /\ TaskInv /\ TaskInv' /\ LinkInv /\ [Next]_vars => LinkInv'
    <2> SUFFICES ASSUME TypeOK, TypeOK', TaskInv, TaskInv', LinkInv, [Next]_vars
                 PROVE  LinkInv'
      OBVIOUS
    <2>1. \A p \in Pid : pc'[p] # "unlink" /\ LinkAsked(p)'
      BY LinkAskedNext
    <2>2. \A p, q \in Pid : PeerKnows(p, q)'
      BY PeerKnowsNext
    <2>3. QED
      BY <2>1, <2>2 DEF LinkInv
  <1>3. QED
    BY <1>1, <1>2, LinkInit, TypeCorrect, TaskInit, TaskNext, PTL DEF Spec

=============================================================================
