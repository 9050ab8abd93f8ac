-------------------------- MODULE DynamicSupervisor --------------------------
(***************************************************************************)
(* A dynamic supervisor: supervisor/dynamic_supervisor.rs.  Its state is   *)
(* shared: start_child, terminate_child and stop work on it in the process *)
(* that calls them, and the supervisor's own process handles exits.  The   *)
(* monitor of a child belongs to the process that ran do_start_child, so   *)
(* its DOWN goes there; a caller may pass it on to the supervisor, which   *)
(* decodes whatever bytes it is sent.                                      *)
(***************************************************************************)
EXTENDS Naturals, FiniteSets, Processes

CONSTANTS
    RestartKinds,   \* the restart types to consider
    MaxChildren,    \* bound: children ever started
    MaxIntensity,   \* opts.max_restarts
    Forwarding      \* whether callers pass DOWN on

Sup == "supervisor"
Actor == Proc \cup {Sup}
Child == 1 .. MaxChildren
NoChild == 0

VARIABLES
    supPhase,       \* of the supervisor's process: "loop" or "over"
    inTable,        \* whether SUPERVISORS has the state
    children,       \* SupervisorState::children
    monitorToPid,   \* the children monitor_to_pid leads to
    restartTimes,   \* how many restart_times lie within max_seconds
    shutdown,       \* the flag
    dynTask,        \* where each process is in do_start_child or do_terminate_child
    dynLife,        \* of each child: "none", "running", "ended"
    kind,           \* spec.restart of each child
    watcher,        \* who monitors it, and gets the DOWN
    downs,          \* the DOWNs and the Exit in the supervisor's mailbox
    heard,          \* the DOWNs the callers have, not passed on
    claims,         \* how often each child was taken out of children (history)
    replaced        \* the children whose exit was answered by a restart (history)

dynVars == <<supPhase, inTable, children, monitorToPid, restartTimes, shutdown, dynTask, dynLife,
             kind, watcher, downs, heard, claims, replaced>>

ExitSignal == NoChild
DynIdle == [at |-> "idle", child |-> NoChild, kind |-> "none"]
DynStep(at, c, k) == [at |-> at, child |-> c, kind |-> k]

DynTypeOK ==
    /\ supPhase \in {"loop", "over"} /\ inTable \in BOOLEAN /\ shutdown \in BOOLEAN
    /\ children \subseteq Child /\ monitorToPid \subseteq Child /\ replaced \subseteq Child
    /\ restartTimes \in 0 .. MaxIntensity
    /\ \A a \in Actor : dynTask[a].at \in
          {"idle", "start", "monitor", "insert", "index", "unindex", "restart", "drain"}
    /\ dynLife \in [Child -> {"none", "running", "ended"}]
    /\ watcher \in [Child -> Actor \cup {NoOne}]
    /\ downs \subseteq Child \cup {ExitSignal}
    /\ heard \subseteq Child

DynInit ==
    /\ supPhase = "loop" /\ inTable = TRUE /\ shutdown = FALSE
    /\ children = {} /\ monitorToPid = {} /\ restartTimes = 0
    /\ dynTask = [a \in Actor |-> DynIdle]
    /\ dynLife = [c \in Child |-> "none"]
    /\ kind = [c \in Child |-> "none"]
    /\ watcher = [c \in Child |-> NoOne]
    /\ downs = {} /\ heard = {} /\ replaced = {}
    /\ claims = [c \in Child |-> 0]

DynGoto(a, task) == dynTask' = [dynTask EXCEPT ![a] = task]

\* What the parts of do_start_child leave alone.
Outside == <<supPhase, inTable, restartTimes, shutdown, heard, claims, replaced>>

DynIdleCaller(p) == dynTask[p] = DynIdle

StartChild(p, k) ==
    /\ DynIdleCaller(p) /\ inTable
    /\ ~shutdown
    /\ DynGoto(p, DynStep("start", NoChild, k))
    /\ UNCHANGED <<children, monitorToPid, dynLife, kind, watcher, downs>> /\ UNCHANGED Outside

\* The start function is awaited.  Its error is the caller's; in a restart, Ignore is passed
\* over and another error is the end of the supervisor.
ChildStarted(a) ==
    /\ dynTask[a].at = "start"
    /\ \/ \E c \in Child :
             /\ dynLife[c] = "none" /\ \A d \in Child : d < c => dynLife[d] # "none"
             /\ dynLife' = [dynLife EXCEPT ![c] = "running"]
             /\ kind' = [kind EXCEPT ![c] = dynTask[a].kind]
             /\ DynGoto(a, DynStep("monitor", c, dynTask[a].kind))
       \/ /\ UNCHANGED <<dynLife, kind>>
          /\ \E next \in {DynIdle} \cup {DynStep("drain", NoChild, "none") : x \in {a} \cap {Sup}} :
                DynGoto(a, next)
    /\ UNCHANGED <<children, monitorToPid, watcher, downs>> /\ UNCHANGED Outside

\* A child that is over already is reported at once.
ChildMonitored(a) ==
    LET c == dynTask[a].child IN
    /\ dynTask[a].at = "monitor"
    /\ watcher' = [watcher EXCEPT ![c] = a]
    /\ downs' = IF dynLife[c] = "ended" /\ a = Sup THEN downs \cup {c} ELSE downs
    /\ heard' = IF dynLife[c] = "ended" /\ a # Sup THEN heard \cup {c} ELSE heard
    /\ DynGoto(a, [dynTask[a] EXCEPT !.at = "insert"])
    /\ UNCHANGED <<supPhase, inTable, children, monitorToPid, restartTimes, shutdown, dynLife,
                   kind, claims, replaced>>

ChildInserted(a) ==
    /\ dynTask[a].at = "insert"
    /\ children' = children \cup {dynTask[a].child}
    /\ DynGoto(a, [dynTask[a] EXCEPT !.at = "index"])
    /\ UNCHANGED <<monitorToPid, dynLife, kind, watcher, downs>> /\ UNCHANGED Outside

ChildIndexed(a) ==
    /\ dynTask[a].at = "index"
    /\ monitorToPid' = monitorToPid \cup {dynTask[a].child}
    /\ DynGoto(a, DynIdle)
    /\ UNCHANGED <<children, dynLife, kind, watcher, downs>> /\ UNCHANGED Outside

ChildEnds(c) ==
    /\ dynLife[c] = "running"
    /\ dynLife' = [dynLife EXCEPT ![c] = "ended"]
    /\ downs' = IF watcher[c] = Sup THEN downs \cup {c} ELSE downs
    /\ heard' = IF watcher[c] \in Proc THEN heard \cup {c} ELSE heard
    /\ UNCHANGED <<supPhase, inTable, children, monitorToPid, restartTimes, shutdown, dynTask,
                   kind, watcher, claims, replaced>>

PassOn(c) ==
    /\ Forwarding /\ c \in heard
    /\ heard' = heard \ {c}
    /\ downs' = downs \cup {c}
    /\ UNCHANGED <<supPhase, inTable, children, monitorToPid, restartTimes, shutdown, dynTask,
                   dynLife, kind, watcher, claims, replaced>>

\* children.remove tells one of the processes that want the child.  Variant: it is only looked up.
LookedUp(c) == children
Removed(c) == children \ {c}

Claim(c) ==
    /\ children' = Removed(c)
    /\ claims' = [claims EXCEPT ![c] = IF c \in children THEN @ + 1 ELSE @]

SupWaits == supPhase = "loop" /\ dynTask[Sup] = DynIdle

\* A DOWN without an entry in monitor_to_pid is dropped, also when the entry is yet to come.
HandleDown(c) ==
    /\ SupWaits /\ c \in downs /\ c # ExitSignal
    /\ downs' = downs \ {c}
    /\ IF c \in monitorToPid
       THEN /\ Claim(c)
            /\ DynGoto(Sup, IF c \in children THEN DynStep("restart", c, kind[c]) ELSE DynIdle)
       ELSE UNCHANGED <<children, claims, dynTask>>
    /\ UNCHANGED <<supPhase, inTable, monitorToPid, restartTimes, shutdown, dynLife, kind,
                   watcher, heard, replaced>>

\* Whether the end of the child was abnormal is not kept: a Transient child may go either way.
ShouldRestart(k) ==
    CASE k = "Permanent" -> {TRUE}
      [] k = "Transient" -> BOOLEAN
      [] k = "Temporary" -> {FALSE}

Restart ==
    LET task == dynTask[Sup] IN
    /\ task.at = "restart"
    /\ monitorToPid' = monitorToPid \ {task.child}
    /\ \E again \in ShouldRestart(task.kind), recent \in 0 .. restartTimes :
          \/ /\ ~again
             /\ DynGoto(Sup, DynIdle) /\ UNCHANGED <<restartTimes, replaced>>
          \/ /\ again /\ recent >= MaxIntensity
             /\ restartTimes' = recent /\ UNCHANGED replaced
             /\ DynGoto(Sup, DynStep("drain", NoChild, "none"))
          \/ /\ again /\ recent < MaxIntensity
             /\ restartTimes' = recent + 1 /\ replaced' = replaced \cup {task.child}
             /\ DynGoto(Sup, IF shutdown THEN DynStep("drain", NoChild, "none")
                             ELSE DynStep("start", NoChild, task.kind))
    /\ UNCHANGED <<supPhase, inTable, children, shutdown, dynLife, kind, watcher, downs, heard,
                   claims>>

TerminateChild(p, c) ==
    /\ DynIdleCaller(p) /\ inTable /\ c \in children
    /\ Claim(c)
    /\ DynGoto(p, DynStep("unindex", c, "none"))
    /\ UNCHANGED <<supPhase, inTable, monitorToPid, restartTimes, shutdown, dynLife, kind,
                   watcher, downs, heard, replaced>>

\* The exit signal is a message to a child that traps exits, and nothing to others (ChildEnds).
Terminated(p) ==
    /\ dynTask[p].at = "unindex"
    /\ monitorToPid' = monitorToPid \ {dynTask[p].child}
    /\ DynGoto(p, DynIdle)
    /\ UNCHANGED <<supPhase, inTable, children, restartTimes, shutdown, dynLife, kind, watcher,
                   downs, heard, claims, replaced>>

\* terminate_all_children; stop waits for the guard a start_child of another caller holds.
TakeAll ==
    /\ shutdown' = TRUE
    /\ children' = {}
    /\ monitorToPid' = monitorToPid \ children
    /\ claims' = [c \in Child |-> IF c \in children THEN claims[c] + 1 ELSE claims[c]]

GuardHeld == \E p \in Proc : dynTask[p].at \in {"start", "monitor", "insert", "index", "unindex"}

Stop(p) ==
    /\ DynIdleCaller(p) /\ ~GuardHeld
    /\ inTable' = FALSE
    /\ IF inTable THEN TakeAll ELSE UNCHANGED <<shutdown, children, monitorToPid, claims>>
    /\ downs' = IF supPhase = "loop" THEN downs \cup {ExitSignal} ELSE downs
    /\ UNCHANGED <<supPhase, restartTimes, dynTask, dynLife, kind, watcher, heard, replaced>>

\* An Exit, the intensity, or a failed restart: the loop returns, SUPERVISORS keeps the state.
SupEnds ==
    /\ supPhase = "loop"
    /\ \/ dynTask[Sup].at = "drain"
       \/ SupWaits /\ ExitSignal \in downs
    /\ supPhase' = "over"
    /\ TakeAll
    /\ DynGoto(Sup, DynIdle)
    /\ downs' = {}
    /\ UNCHANGED <<inTable, restartTimes, dynLife, kind, watcher, heard, replaced>>

DynNext ==
    \/ \E p \in Proc :
          \/ \E k \in RestartKinds : StartChild(p, k)
          \/ \E c \in Child : TerminateChild(p, c)
          \/ Terminated(p) \/ Stop(p)
    \/ \E a \in Actor : ChildStarted(a) \/ ChildMonitored(a) \/ ChildInserted(a) \/ ChildIndexed(a)
    \/ \E c \in Child : ChildEnds(c) \/ PassOn(c) \/ HandleDown(c)
    \/ Restart \/ SupEnds

\* The supervisor, the operations and the messages go on; nobody has to end or to call.
DynFairness == WF_dynVars(Restart \/ SupEnds \/ \E a \in Actor : ChildStarted(a)
                          \/ ChildMonitored(a) \/ ChildInserted(a) \/ ChildIndexed(a))
               /\ \A c \in Child : WF_dynVars(HandleDown(c))
-----------------------------------------------------------------------------
(***************************************************************************)
(* An end of a child is answered once: the exit handler, terminate_child,  *)
(* stop and the supervisor's end may all want it, and children.remove lets *)
(* one of them have it; a child taken down is not restarted.  When no      *)
(* operation is under way every child is in the index (which may have      *)
(* more: a child taken out between the two inserts).                       *)
(***************************************************************************)
ChildIsClaimedOnce ==
    /\ \A c \in Child : claims[c] <= 1
    /\ (\A a \in Actor : dynTask[a] = DynIdle) => children \subseteq monitorToPid

(***************************************************************************)
(* A permanent child that ends is restarted: supervisor/types.rs:29 says    *)
(* "The child is always restarted, regardless of exit reason."             *)
(***************************************************************************)
PermanentIsRestarted ==
    \A c \in Child :
        c \in children /\ dynLife[c] = "ended" /\ kind[c] = "Permanent"
            ~> c \in replaced \/ shutdown \/ c \notin children
=============================================================================
