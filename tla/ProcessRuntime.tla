--------------------------- MODULE ProcessRuntime ---------------------------
(***************************************************************************)
(* Processes, links, monitors, names and exits of one node:                *)
(* process/runtime.rs, runtime/registry.rs, runtime/process_handle.rs and  *)
(* the process operations of runtime/context.rs.                           *)
(*                                                                         *)
(* A process is a tokio task.  Its operations run one at a time but touch  *)
(* the state of other processes, each behind its own lock, so an operation *)
(* is split where the code drops one lock and takes the next; pc[p] is the *)
(* step the task of p is at.  "registry.get then a handle method" is one   *)
(* step: a handle that outlives its registry entry only writes state that  *)
(* nothing reads again.                                                    *)
(***************************************************************************)
EXTENDS Naturals, Sequences

CONSTANTS
    Pid,        \* the pids that may be spawned (a pid is never reused)
    Name,       \* the names that may be registered
    None,       \* "no pid" / "no name"
    Reason,     \* the reasons the environment passes to exit
    MaxRef,     \* bound: how many monitor references are created
    MaxMail,    \* bound: exit messages stop when a mailbox is this long
    Ops         \* the operations the environment exercises

ASSUME NoneAssumption == None \notin Pid /\ None \notin Name
ASSUME BoundAssumption == MaxRef \in Nat /\ MaxMail \in Nat
ASSUME ReasonAssumption == Reason \subseteq {"Normal", "Shutdown", "Killed", "Error"}

Ref == 1 .. MaxRef

(***************************************************************************)
(* ExitReason.  "noproc" is ExitReason::Error("noproc"), the reason of the *)
(* DOWN a monitor of an unknown process gets.                              *)
(***************************************************************************)
ExitReason == {"Normal", "Shutdown", "Killed", "Error", "noproc"}

IsNormal(reason) == reason \in {"Normal", "Shutdown"}
IsKilled(reason) == reason = "Killed"

(***************************************************************************)
(* SystemMessage::Exit and SystemMessage::Down (an Exit carries no ref).   *)
(***************************************************************************)
ExitMsg(from, reason) ==
    [kind |-> "Exit", ref |-> 0, from |-> from, reason |-> reason]
DownMsg(ref, from, reason) ==
    [kind |-> "Down", ref |-> ref, from |-> from, reason |-> reason]
Message ==
    [kind : {"Exit", "Down"}, ref : 0 .. MaxRef, from : Pid, reason : ExitReason]

VARIABLES
    registered,     \* ProcessRegistry.processes: the pids it holds
    names,          \* ProcessRegistry.names
    trapExit,       \* ProcessState.trap_exit
    links,          \* ProcessState.links
    monitors,       \* ProcessState.monitors: ref -> the monitored pid
    monitoredBy,    \* ProcessState.monitored_by: ref -> the monitoring pid
    terminated,     \* ProcessState.terminated
    exitReason,     \* ProcessState.exit_reason (None until set)
    mailbox,        \* every message ever accepted by the mailbox, in order
    nextRef,        \* the counter behind Ref::new
    pc,             \* the step the task of the process is at
    arg,            \* the locals of that step: a pid, a ref, a name
    exitLinks,      \* handle_process_exit: linked pids still to notify
    exitMons        \* handle_process_exit: monitors still to notify

handleVars == <<trapExit, links, monitors, monitoredBy, terminated, exitReason>>
exitVars == <<exitLinks, exitMons>>
vars == <<registered, names, handleVars, mailbox, nextRef, pc, arg, exitVars>>

\* The steps inside an operation, and those of the end of a task.
OpStep == {"link", "unlink", "monitor", "demonitor", "register",
           "spawn_link", "child_link", "spawn_monitor", "child_monitor"}
EndStep == {"exit", "notify", "remove", "ended", "panicked"}

Locals == [pid : Pid \cup {None}, ref : 0 .. MaxRef, name : Name \cup {None}]
NoLocals == [pid |-> None, ref |-> 0, name |-> None]

\* The locals a step reads are there.
LocalsOK(p) ==
    /\ pc[p] \in OpStep => arg[p].pid \in Pid
    /\ pc[p] \in {"monitor", "demonitor", "spawn_monitor", "child_monitor"} =>
           arg[p].ref \in Ref
    /\ pc[p] = "register" => arg[p].name \in Name

TypeOK ==
    /\ registered \subseteq Pid
    /\ names \in [Name -> Pid \cup {None}]
    /\ trapExit \in [Pid -> BOOLEAN]
    /\ links \in [Pid -> SUBSET Pid]
    /\ monitors \in [Pid -> [Ref -> Pid \cup {None}]]
    /\ monitoredBy \in [Pid -> [Ref -> Pid \cup {None}]]
    /\ terminated \in [Pid -> BOOLEAN]
    /\ exitReason \in [Pid -> ExitReason \cup {None}]
    /\ mailbox \in [Pid -> Seq(Message)]
    /\ nextRef \in 1 .. MaxRef + 1
    /\ pc \in [Pid -> {"unborn", "idle"} \cup OpStep \cup EndStep]
    /\ arg \in [Pid -> Locals]
    /\ exitLinks \in [Pid -> SUBSET Pid]
    /\ exitMons \in [Pid -> SUBSET (Ref \X Pid)]
    /\ \A p \in Pid : LocalsOK(p)

Init ==
    /\ registered = {}
    /\ names = [n \in Name |-> None]
    /\ trapExit = [p \in Pid |-> FALSE]
    /\ links = [p \in Pid |-> {}]
    /\ monitors = [p \in Pid |-> [r \in Ref |-> None]]
    /\ monitoredBy = [p \in Pid |-> [r \in Ref |-> None]]
    /\ terminated = [p \in Pid |-> FALSE]
    /\ exitReason = [p \in Pid |-> None]
    /\ mailbox = [p \in Pid |-> <<>>]
    /\ nextRef = 1
    /\ pc = [p \in Pid |-> "unborn"]
    /\ arg = [p \in Pid |-> NoLocals]
    /\ exitLinks = [p \in Pid |-> {}]
    /\ exitMons = [p \in Pid |-> {}]

-----------------------------------------------------------------------------
(***************************************************************************)
(* Helpers.                                                                *)
(***************************************************************************)

\* The task still holds its Context, hence the receiving end of its mailbox.
MailboxOpen(p) == pc[p] \notin EndStep \cup {"unborn"}

\* handle.send: dropped when the receiver of the mailbox is gone.
\* Variant: system messages reach only processes that trap exits.
DeliverIfTrapping(p, msg) ==
    mailbox' = IF MailboxOpen(p) /\ trapExit[p]
               THEN [mailbox EXCEPT ![p] = Append(@, msg)] ELSE mailbox
Deliver(p, msg) ==
    mailbox' = IF MailboxOpen(p)
               THEN [mailbox EXCEPT ![p] = Append(@, msg)] ELSE mailbox

\* registry.get(p) finds a handle.  Variant: a handle only while is_alive.
GetAlive(p) == p \in registered /\ ~terminated[p]
Get(p) == p \in registered

\* Ref::new.  Variant: the counter is read but not advanced.
NewRefStale == nextRef' = nextRef
NewRef == nextRef' = nextRef + 1

\* ProcessHandle::remove_monitor.
RemoveMonitor(p, ref) == [monitors EXCEPT ![p][ref] = None]

\* ProcessHandle::add_monitored_by.  Variant: one entry per monitoring pid.
AddMonitoredByOnce(p, ref, owner) ==
    IF \E r \in Ref : monitoredBy[p][r] = owner
    THEN monitoredBy ELSE [monitoredBy EXCEPT ![p][ref] = owner]
AddMonitoredBy(p, ref, owner) == [monitoredBy EXCEPT ![p][ref] = owner]

\* ProcessHandle::mark_terminated.
MarkTerminated(p, reason) ==
    /\ terminated' = [terminated EXCEPT ![p] = TRUE]
    /\ exitReason' = [exitReason EXCEPT ![p] = reason]

Goto(p, step, pid, ref, name) ==
    /\ pc' = [pc EXCEPT ![p] = step]
    /\ arg' = [arg EXCEPT ![p] = [pid |-> pid, ref |-> ref, name |-> name]]

Return(p) == Goto(p, "idle", None, 0, None)

Idle(p, op) == op \in Ops /\ pc[p] = "idle"

\* A pid comes from the spawn that made it.
Spawned(p) == pc[p] # "unborn"

-----------------------------------------------------------------------------
(***************************************************************************)
(* Spawning.  spawn_internal registers the handle, then starts the task.   *)
(* spawn_link and spawn_monitor tie the child to the calling process after *)
(* the child has started.                                                  *)
(***************************************************************************)
Spawn(c) ==
    /\ pc[c] = "unborn"
    /\ registered' = registered \cup {c}
    /\ pc' = [pc EXCEPT ![c] = "idle"]
    /\ UNCHANGED <<names, handleVars, mailbox, nextRef, arg, exitVars>>

SpawnChild(p, c, step, ref) ==
    /\ pc[c] = "unborn"
    /\ registered' = registered \cup {c}
    /\ pc' = [pc EXCEPT ![p] = step, ![c] = "idle"]
    /\ arg' = [arg EXCEPT ![p] = [pid |-> c, ref |-> ref, name |-> None]]
    /\ UNCHANGED <<names, handleVars, mailbox, exitVars>>

SpawnLink(p, c) ==
    /\ Idle(p, "spawn_link")
    /\ SpawnChild(p, c, "spawn_link", 0)
    /\ UNCHANGED nextRef

\* parent_handle.add_link(child)
SpawnLinkParent(p) ==
    /\ pc[p] = "spawn_link"
    /\ links' = [links EXCEPT ![p] = @ \cup {arg[p].pid}]
    /\ pc' = [pc EXCEPT ![p] = "child_link"]
    /\ UNCHANGED <<registered, names, trapExit, monitors, monitoredBy,
                   terminated, exitReason, mailbox, nextRef, arg, exitVars>>

\* child_handle.add_link(parent), if the child is still registered
SpawnLinkChild(p) ==
    LET c == arg[p].pid
    IN /\ pc[p] = "child_link"
       /\ links' = IF Get(c)
                   THEN [links EXCEPT ![c] = @ \cup {p}] ELSE links
       /\ Return(p)
       /\ UNCHANGED <<registered, names, trapExit, monitors, monitoredBy,
                      terminated, exitReason, mailbox, nextRef, exitVars>>

SpawnMonitor(p, c) ==
    /\ Idle(p, "spawn_monitor")
    /\ nextRef \in Ref
    /\ SpawnChild(p, c, "spawn_monitor", nextRef)
    /\ NewRef

\* monitor_handle.add_monitor(reference, child)
SpawnMonitorParent(p) ==
    /\ pc[p] = "spawn_monitor"
    /\ monitors' = [monitors EXCEPT ![p][arg[p].ref] = arg[p].pid]
    /\ pc' = [pc EXCEPT ![p] = "child_monitor"]
    /\ UNCHANGED <<registered, names, trapExit, links, monitoredBy, terminated,
                   exitReason, mailbox, nextRef, arg, exitVars>>

\* child_handle.add_monitored_by(reference, parent), if still registered
SpawnMonitorChild(p) ==
    LET c == arg[p].pid
    IN /\ pc[p] = "child_monitor"
       /\ monitoredBy' = IF Get(c)
                         THEN AddMonitoredBy(c, arg[p].ref, p)
                         ELSE monitoredBy
       /\ Return(p)
       /\ UNCHANGED <<registered, names, trapExit, links, monitors, terminated,
                      exitReason, mailbox, nextRef, exitVars>>

-----------------------------------------------------------------------------
(***************************************************************************)
(* Links.                                                                  *)
(***************************************************************************)
SetTrapExit(p, trap) ==
    /\ Idle(p, "trap")
    /\ trapExit' = [trapExit EXCEPT ![p] = trap]
    /\ UNCHANGED <<registered, names, links, monitors, monitoredBy, terminated,
                   exitReason, mailbox, nextRef, pc, arg, exitVars>>

Link(p, other) ==
    /\ Idle(p, "link")
    /\ Spawned(other)
    /\ links' = [links EXCEPT ![p] = @ \cup {other}]
    /\ Goto(p, "link", other, 0, None)
    /\ UNCHANGED <<registered, names, trapExit, monitors, monitoredBy,
                   terminated, exitReason, mailbox, nextRef, exitVars>>

\* The other side is told, or the link is rolled back if it is not registered.
LinkOther(p) ==
    LET other == arg[p].pid
    IN /\ pc[p] = "link"
       /\ links' = IF Get(other)
                   THEN [links EXCEPT ![other] = @ \cup {p}]
                   ELSE [links EXCEPT ![p] = @ \ {other}]
       /\ Return(p)
       /\ UNCHANGED <<registered, names, trapExit, monitors, monitoredBy,
                      terminated, exitReason, mailbox, nextRef, exitVars>>

Unlink(p, other) ==
    /\ Idle(p, "unlink")
    /\ Spawned(other)
    /\ links' = [links EXCEPT ![p] = @ \ {other}]
    /\ Goto(p, "unlink", other, 0, None)
    /\ UNCHANGED <<registered, names, trapExit, monitors, monitoredBy,
                   terminated, exitReason, mailbox, nextRef, exitVars>>

UnlinkOther(p) ==
    LET other == arg[p].pid
    IN /\ pc[p] = "unlink"
       /\ links' = IF Get(other)
                   THEN [links EXCEPT ![other] = @ \ {p}] ELSE links
       /\ Return(p)
       /\ UNCHANGED <<registered, names, trapExit, monitors, monitoredBy,
                      terminated, exitReason, mailbox, nextRef, exitVars>>

-----------------------------------------------------------------------------
(***************************************************************************)
(* Monitors.                                                               *)
(***************************************************************************)
Monitor(p, target) ==
    /\ Idle(p, "monitor")
    /\ Spawned(target)
    /\ nextRef \in Ref
    /\ NewRef
    /\ monitors' = [monitors EXCEPT ![p][nextRef] = target]
    /\ Goto(p, "monitor", target, nextRef, None)
    /\ UNCHANGED <<registered, names, trapExit, links, monitoredBy, terminated,
                   exitReason, mailbox, exitVars>>

\* The target is told, or the caller gets its DOWN at once.
MonitorTarget(p) ==
    LET target == arg[p].pid
        ref == arg[p].ref
    IN /\ pc[p] = "monitor"
       /\ IF Get(target)
          THEN /\ monitoredBy' = AddMonitoredBy(target, ref, p)
               /\ UNCHANGED <<monitors, mailbox>>
          ELSE /\ monitors' = RemoveMonitor(p, ref)
               /\ Deliver(p, DownMsg(ref, target, "noproc"))
               /\ UNCHANGED monitoredBy
       /\ Return(p)
       /\ UNCHANGED <<registered, names, trapExit, links, terminated,
                      exitReason, nextRef, exitVars>>

\* The removal yields None when the DOWN came first; nothing else happens then.
Demonitor(p, ref) ==
    LET target == monitors[p][ref]
    IN /\ Idle(p, "demonitor")
       /\ target # None
       /\ monitors' = RemoveMonitor(p, ref)
       /\ Goto(p, "demonitor", target, ref, None)
       /\ UNCHANGED <<registered, names, trapExit, links, monitoredBy,
                      terminated, exitReason, mailbox, nextRef, exitVars>>

\* ProcessHandle::remove_monitored_by.  Variant: the entry stays.
KeepMonitoredBy(p, ref) == monitoredBy
RemoveMonitoredBy(p, ref) == [monitoredBy EXCEPT ![p][ref] = None]

DemonitorTarget(p) ==
    LET target == arg[p].pid
    IN /\ pc[p] = "demonitor"
       /\ monitoredBy' = IF Get(target)
                         THEN RemoveMonitoredBy(target, arg[p].ref)
                         ELSE monitoredBy
       /\ Return(p)
       /\ UNCHANGED <<registered, names, trapExit, links, monitors, terminated,
                      exitReason, mailbox, nextRef, exitVars>>

-----------------------------------------------------------------------------
(***************************************************************************)
(* Exit signals.  Context::exit looks at the reason and at trap_exit;      *)
(* RuntimeHandle::exit marks the target whatever the reason.               *)
(***************************************************************************)
Exit(p, target, reason) ==
    /\ Idle(p, "exit")
    /\ Get(target)
    /\ IF ~IsKilled(reason) /\ trapExit[target]
       THEN /\ Len(mailbox[target]) < MaxMail
            /\ Deliver(target, ExitMsg(p, reason))
            /\ UNCHANGED <<terminated, exitReason>>
       ELSE /\ ~IsNormal(reason)
            /\ MarkTerminated(target, reason)
            /\ UNCHANGED mailbox
    /\ UNCHANGED <<registered, names, trapExit, links, monitors, monitoredBy,
                   nextRef, pc, arg, exitVars>>

RuntimeExit(target, reason) ==
    /\ "runtime_exit" \in Ops
    /\ Get(target)
    /\ MarkTerminated(target, reason)
    /\ UNCHANGED <<registered, names, trapExit, links, monitors, monitoredBy,
                   mailbox, nextRef, pc, arg, exitVars>>

-----------------------------------------------------------------------------
(***************************************************************************)
(* Names.  register_name checks, then inserts.  A process registers itself *)
(* (Context::register) or any pid (RuntimeHandle::register).               *)
(***************************************************************************)
Register(p, name, pid) ==
    /\ Idle(p, IF pid = p THEN "register_self" ELSE "register_other")
    /\ Spawned(pid)
    /\ names[name] = None
    /\ Goto(p, "register", pid, 0, name)
    /\ UNCHANGED <<registered, names, handleVars, mailbox, nextRef, exitVars>>

RegisterInsert(p) ==
    /\ pc[p] = "register"
    /\ names' = [names EXCEPT ![arg[p].name] = arg[p].pid]
    /\ Return(p)
    /\ UNCHANGED <<registered, handleVars, mailbox, nextRef, exitVars>>

UnregisterName(p, name) ==
    /\ Idle(p, "unregister")
    /\ names[name] # None
    /\ names' = [names EXCEPT ![name] = None]
    /\ UNCHANGED <<registered, handleVars, mailbox, nextRef, pc, arg, exitVars>>

-----------------------------------------------------------------------------
(***************************************************************************)
(* The end of a task.  When the body returns its Context, and with it the  *)
(* mailbox, is dropped and handle_process_exit(Normal) runs.  When the     *)
(* body panics the task unwinds and nothing else runs.                     *)
(***************************************************************************)
BodyReturns(p) ==
    /\ pc[p] = "idle"
    /\ pc' = [pc EXCEPT ![p] = "exit"]
    /\ UNCHANGED <<registered, names, handleVars, mailbox, nextRef, arg, exitVars>>

BodyPanics(p) ==
    /\ Idle(p, "panic")
    /\ pc' = [pc EXCEPT ![p] = "panicked"]
    /\ UNCHANGED <<registered, names, handleVars, mailbox, nextRef, arg, exitVars>>

\* The snapshot of monitored_by.  Variant: removed entries are in it too.
MonitorSlots(p) ==
    {rm \in Ref \X (Pid \cup {None}) : monitoredBy[p][rm[1]] = rm[2]}
MonitorSnapshot(p) == {rm \in Ref \X Pid : monitoredBy[p][rm[1]] = rm[2]}

\* "Already handled".
AlreadyHandled(p) == terminated[p]

\* The locked block: return if already terminated, else mark and snapshot.
ExitBegin(p) ==
    /\ pc[p] = "exit"
    /\ IF AlreadyHandled(p)
       THEN /\ pc' = [pc EXCEPT ![p] = "ended"]
            /\ UNCHANGED <<terminated, exitReason, exitVars>>
       ELSE /\ MarkTerminated(p, "Normal")
            /\ exitLinks' = [exitLinks EXCEPT ![p] = links[p]]
            /\ exitMons' = [exitMons EXCEPT ![p] = MonitorSnapshot(p)]
            /\ pc' = [pc EXCEPT ![p] = "notify"]
    /\ UNCHANGED <<registered, names, trapExit, links, monitors, monitoredBy,
                   mailbox, nextRef, arg>>

\* What the exit of p with this reason does to a registered linked process.
\* Variant: a normal exit is dropped before trap_exit is looked at.
SignalLinkAbnormal(p, linked, reason) ==
    IF IsNormal(reason) THEN UNCHANGED <<terminated, exitReason, mailbox>>
    ELSE /\ MarkTerminated(linked, reason)
         /\ UNCHANGED mailbox
SignalLink(p, linked, reason) ==
    IF IsKilled(reason)
    THEN /\ MarkTerminated(linked, "Killed")
         /\ UNCHANGED mailbox
    ELSE IF trapExit[linked]
    THEN /\ Deliver(linked, ExitMsg(p, reason))
         /\ UNCHANGED <<terminated, exitReason>>
    ELSE IF ~IsNormal(reason)
    THEN /\ MarkTerminated(linked, reason)
         /\ UNCHANGED mailbox
    ELSE UNCHANGED <<terminated, exitReason, mailbox>>

\* One iteration of the loop over the linked processes, in any order.
NotifyLink(p, linked) ==
    /\ pc[p] = "notify"
    /\ linked \in exitLinks[p]
    /\ exitLinks' = [exitLinks EXCEPT ![p] = @ \ {linked}]
    /\ IF Get(linked)
       THEN /\ links' = [links EXCEPT ![linked] = @ \ {p}]
            /\ SignalLink(p, linked, "Normal")
       ELSE UNCHANGED <<links, terminated, exitReason, mailbox>>
    /\ UNCHANGED <<registered, names, trapExit, monitors, monitoredBy, nextRef,
                   pc, arg, exitMons>>

\* One iteration of the loop over the monitors, which follows the links.
NotifyMonitor(p, ref, owner) ==
    /\ pc[p] = "notify"
    /\ exitLinks[p] = {}
    /\ <<ref, owner>> \in exitMons[p]
    /\ exitMons' = [exitMons EXCEPT ![p] = @ \ {<<ref, owner>>}]
    /\ IF Get(owner)
       THEN /\ monitors' = RemoveMonitor(owner, ref)
            /\ Deliver(owner, DownMsg(ref, p, "Normal"))
       ELSE UNCHANGED <<monitors, mailbox>>
    /\ UNCHANGED <<registered, names, trapExit, links, monitoredBy, terminated,
                   exitReason, nextRef, pc, arg, exitLinks>>

\* registry.unregister, first half: names.retain.
NamesWithout(p) == [n \in Name |-> IF names[n] = p THEN None ELSE names[n]]

UnregisterNames(p) ==
    /\ pc[p] = "notify"
    /\ exitLinks[p] = {}
    /\ exitMons[p] = {}
    /\ names' = NamesWithout(p)
    /\ pc' = [pc EXCEPT ![p] = "remove"]
    /\ UNCHANGED <<registered, handleVars, mailbox, nextRef, arg, exitVars>>

\* registry.unregister, second half: processes.remove.
UnregisterProcess(p) ==
    /\ pc[p] = "remove"
    /\ registered' = registered \ {p}
    /\ pc' = [pc EXCEPT ![p] = "ended"]
    /\ UNCHANGED <<names, handleVars, mailbox, nextRef, arg, exitVars>>

-----------------------------------------------------------------------------
StartOp(p) ==
    \/ \E q \in Pid : \/ SpawnLink(p, q)
                      \/ SpawnMonitor(p, q)
                      \/ Link(p, q)
                      \/ Unlink(p, q)
                      \/ Monitor(p, q)
                      \/ \E reason \in Reason : Exit(p, q, reason)
                      \/ \E name \in Name : Register(p, name, q)
    \/ \E trap \in BOOLEAN : SetTrapExit(p, trap)
    \/ \E ref \in Ref : Demonitor(p, ref)
    \/ \E name \in Name : UnregisterName(p, name)

FinishOp(p) ==
    \/ SpawnLinkParent(p)
    \/ SpawnLinkChild(p)
    \/ SpawnMonitorParent(p)
    \/ SpawnMonitorChild(p)
    \/ LinkOther(p)
    \/ UnlinkOther(p)
    \/ MonitorTarget(p)
    \/ DemonitorTarget(p)
    \/ RegisterInsert(p)

HandleProcessExit(p) ==
    \/ ExitBegin(p)
    \/ \E linked \in Pid : NotifyLink(p, linked)
    \/ \E ref \in Ref, owner \in Pid : NotifyMonitor(p, ref, owner)
    \/ UnregisterNames(p)
    \/ UnregisterProcess(p)

Next ==
    \E p \in Pid :
        \/ Spawn(p)
        \/ StartOp(p)
        \/ FinishOp(p)
        \/ BodyReturns(p)
        \/ BodyPanics(p)
        \/ HandleProcessExit(p)
        \/ \E reason \in Reason : RuntimeExit(p, reason)

Spec == Init /\ [][Next]_vars

\* A task that is inside an operation or inside handle_process_exit is run
\* by tokio until it is through: neither awaits anything.
FairSpec == Spec /\ \A p \in Pid : WF_vars(FinishOp(p) \/ HandleProcessExit(p))
-----------------------------------------------------------------------------
(***************************************************************************)
(* Properties.                                                             *)
(***************************************************************************)
Running(p) == pc[p] \in {"idle"} \cup OpStep

IsDown(msg, ref) == msg.kind = "Down" /\ msg.ref = ref

DownDelivered(p, ref) == \E i \in DOMAIN mailbox[p] : IsDown(mailbox[p][i], ref)

(***************************************************************************)
(* A monitor fires at most once: over all mailboxes there is never a       *)
(* second DOWN for one reference, whichever of the immediate noproc DOWN   *)
(* of Context::monitor and the exit handling of the target sends it.       *)
(***************************************************************************)
DownAtMostOnce ==
    \A p, q \in Pid : \A i \in DOMAIN mailbox[p], j \in DOMAIN mailbox[q] :
        (/\ mailbox[p][i].kind = "Down"
         /\ IsDown(mailbox[q][j], mailbox[p][i].ref)) => p = q /\ i = j

(***************************************************************************)
(* Why a monitor fires at most once.  The right to send the DOWN of a      *)
(* reference is in one place at a time: the call that asks for the         *)
(* monitor, the monitored_by of a target that has taken no snapshot yet,   *)
(* the snapshot of an exiting target, or the mailbox that already has it.  *)
(***************************************************************************)
SnapshotTaken(p) == pc[p] \in {"notify", "remove", "ended"}

Asking(p, ref) ==
    pc[p] \in {"monitor", "spawn_monitor", "child_monitor"} /\ arg[p].ref = ref
Armed(p, ref) == monitoredBy[p][ref] # None /\ ~SnapshotTaken(p)
Pending(p, ref) == \E owner \in Pid : <<ref, owner>> \in exitMons[p]

DownRightIsUnique ==
    \A ref \in Ref, p \in Pid :
        /\ ref >= nextRef =>
               ~Asking(p, ref) /\ ~Armed(p, ref) /\ ~Pending(p, ref)
                   /\ ~DownDelivered(p, ref)
        /\ \A o1, o2 \in Pid :
               <<ref, o1>> \in exitMons[p] /\ <<ref, o2>> \in exitMons[p] => o1 = o2
        /\ \A q \in Pid :
               /\ Asking(p, ref) =>
                      /\ Asking(q, ref) => p = q
                      /\ ~Armed(q, ref) /\ ~Pending(q, ref)
                      /\ ~DownDelivered(q, ref)
               /\ Armed(p, ref) =>
                      /\ Armed(q, ref) => p = q
                      /\ ~Pending(q, ref) /\ ~DownDelivered(q, ref)
               /\ Pending(p, ref) =>
                      /\ Pending(q, ref) => p = q
                      /\ ~DownDelivered(q, ref)

(***************************************************************************)
(* No false DOWN: when a DOWN from q is in a mailbox, the task of q is in  *)
(* or past handle_process_exit, even if q was marked terminated long       *)
(* before; and a "noproc" DOWN means q has left the registry.              *)
(***************************************************************************)
NoFalseDown ==
    \A p \in Pid : \A i \in DOMAIN mailbox[p] :
        LET msg == mailbox[p][i]
        IN msg.kind = "Down" =>
               /\ pc[msg.from] \in {"notify", "remove", "ended"}
               /\ msg.reason = "noproc" => msg.from \notin registered

(***************************************************************************)
(* A monitor that is held is still to fire, and its target knows of it.    *)
(* Nobody holds a reference whose DOWN was delivered; and while a process  *)
(* runs and is not in the middle of tying or untying it, every monitor it  *)
(* holds is known to its target, unless the target has left the registry:  *)
(* the target's snapshot will then include it.                             *)
(***************************************************************************)
HeldMonitorIsKnown ==
    \A p \in Pid, ref \in Ref :
        LET target == monitors[p][ref]
        IN target # None =>
               /\ \A q \in Pid : ~DownDelivered(q, ref)
               /\ Running(p) /\ arg[p].ref # ref =>
                      monitoredBy[target][ref] = p \/ target \notin registered

(***************************************************************************)
(* While a process runs and is not in the middle of linking to q, a q in   *)
(* its links has it in its own links, unless q has left the registry: an   *)
(* exit of q then reaches it.  (Without unlink, which races with link.)    *)
(***************************************************************************)
LinkedPeerKnows ==
    \A p, q \in Pid :
        Running(p) /\ q \in links[p] /\ arg[p].pid # q =>
            p \in links[q] \/ q \notin registered

(***************************************************************************)
(* A demonitor is final, except for a DOWN already on its way: a reference *)
(* that no process holds or is busy with, and that no exiting target has   *)
(* in its snapshot, enters no snapshot and gets no DOWN any more.  (The    *)
(* documentation of Context::demonitor promises it without the exception.) *)
(***************************************************************************)
Released(ref) ==
    /\ ref < nextRef
    /\ \A p \in Pid : /\ monitors[p][ref] = None
                      /\ pc[p] # "idle" => arg[p].ref # ref
                      /\ ~Pending(p, ref)
                      /\ ~DownDelivered(p, ref)

DemonitorIsFinal ==
    [][\A p \in Pid, ref \in Ref :
          Released(ref) => ~Pending(p, ref)' /\ ~DownDelivered(p, ref)']_vars

(***************************************************************************)
(* Every monitor in the snapshot of an exiting process eventually gets its *)
(* DOWN, unless the mailbox of its owner is gone by then.                  *)
(***************************************************************************)
SnapshotMonitorsFire ==
    \A p, owner \in Pid, ref \in Ref :
        <<ref, owner>> \in exitMons[p] ~>
            DownDelivered(owner, ref) \/ ~MailboxOpen(owner)

(***************************************************************************)
(* Every process in the snapshot of links that traps exits eventually has  *)
(* the exit message, unless it stops trapping or its mailbox is gone.      *)
(***************************************************************************)
TrappingLinksAreTold ==
    \A p, linked \in Pid :
        linked \in exitLinks[p] ~>
            \/ ~trapExit[linked]
            \/ ~MailboxOpen(linked)
            \/ \E i \in DOMAIN mailbox[linked] :
                   mailbox[linked][i] = ExitMsg(p, "Normal")

(***************************************************************************)
(* What the documentation says and the code does not keep.                 *)
(***************************************************************************)

(***************************************************************************)
(* "Returns a reference that will be included in the DOWN message when the *)
(* monitored process terminates" (Context::monitor): a running process     *)
(* holds no monitor of a process whose task is over.                       *)
(***************************************************************************)
EndIsReported ==
    \A p \in Pid, ref \in Ref :
        LET target == monitors[p][ref]
        IN pc[p] = "idle" /\ target # None => pc[target] # "ended"
=============================================================================
