----------------------------- MODULE Supervisor -----------------------------
(***************************************************************************)
(* A supervisor and its children: supervisor/core.rs.                      *)
(*                                                                         *)
(* The children are processes that start, run beside the supervisor and    *)
(* end when they like.  Of the runtime (module ProcessRuntime) this module *)
(* keeps what the supervisor meets: the end of a process takes two steps,  *)
(* the first takes the snapshot of its monitors, the second sends DOWN and *)
(* unregisters.  An exit signal with reason Shutdown is no more than a     *)
(* message, and only to a process that traps exits, so a process may go on *)
(* or end after it.  Time is a counter.  The model stops with the          *)
(* supervisor: what becomes of processes after its end is not looked at.   *)
(***************************************************************************)
EXTENDS Integers, Sequences

CONSTANTS
    NumChildren,    \* the child specifications are 1 .. NumChildren, in order
    MaxPid,         \* bound: processes ever started
    Strategies,     \* the strategies to consider
    RestartTypes,   \* the restart types to consider
    MaxRestarts,    \* max_restarts
    MaxSeconds,     \* max_seconds
    MaxTime         \* bound: the clock

ASSUME NumChildrenAssumption == NumChildren \in Nat /\ MaxPid \in Nat
ASSUME StrategyAssumption ==
    /\ Strategies \subseteq {"OneForOne", "OneForAll", "RestForOne"}
    /\ RestartTypes \subseteq {"Permanent", "Transient", "Temporary"}
ASSUME TimeAssumption ==
    MaxRestarts \in Nat /\ MaxSeconds \in Nat /\ MaxTime \in Nat

Id == 1 .. NumChildren
Pid == 1 .. MaxPid
None == 0       \* no pid, no child

Step(op, id) == [op |-> op, id |-> id]
Steps == [op : {"start", "terminate"}, id : Id]

Down(p, abnormal) == [kind |-> "down", pid |-> p, abnormal |-> abnormal]
ExitMsg == [kind |-> "exit", pid |-> None, abnormal |-> FALSE]
Message == [kind : {"down", "exit"}, pid : Pid \cup {None}, abnormal : BOOLEAN]

VARIABLES
    strategy,       \* flags.strategy
    restart,        \* spec.restart of each child
    phase,          \* what the supervisor is doing
    todo,           \* what is left of it, child by child
    fresh,          \* the process start returned and monitor is not yet called for
    child,          \* ChildState::pid, with which goes the monitor
    pidToId,        \* pid_to_id
    restartTimes,   \* restart_times
    mailbox,        \* of the supervisor
    life,           \* of each process
    watched,        \* the processes the supervisor monitors
    due,            \* the DOWNs of ending processes
    nextPid,
    now,            \* the clock
    startedAs,      \* the child each process was started for (history)
    signalled,      \* the processes exit was called for (history)
    restarts        \* when restarts were decided (history)

supVars == <<phase, todo, fresh, child, pidToId, restartTimes, restarts>>
procVars == <<life, startedAs, nextPid>>
flags == <<strategy, restart>>
vars == <<flags, supVars, mailbox, procVars, watched, due, now, signalled>>

TypeOK ==
    /\ strategy \in Strategies
    /\ restart \in [Id -> RestartTypes]
    /\ phase \in {"init", "loop", "restart", "stopping", "ended"}
    /\ todo \in Seq(Steps)
    /\ fresh \in Pid \cup {None}
    /\ child \in [Id -> Pid \cup {None}]
    /\ pidToId \in [Pid -> Id \cup {None}]
    /\ restartTimes \in Seq(0 .. MaxTime)
    /\ Len(restartTimes) <= MaxRestarts
    /\ mailbox \in Seq(Message)
    /\ life \in [Pid -> {"unborn", "alive", "ending", "gone"}]
    /\ watched \subseteq Pid
    /\ due \subseteq [kind : {"down"}, pid : Pid, abnormal : BOOLEAN]
    /\ nextPid \in 1 .. MaxPid + 1
    /\ now \in 0 .. MaxTime
    /\ startedAs \in [Pid -> Id \cup {None}]
    /\ signalled \subseteq Pid
    /\ restarts \in Seq(0 .. MaxTime)

-----------------------------------------------------------------------------
\* start_all_children, and its part from child id on.
StartFrom(id) == [i \in 1 .. NumChildren - id + 1 |-> Step("start", id + i - 1)]

\* terminate_all_children, and its part from child id on: in reverse order.
TerminateFrom(id) == [i \in 1 .. NumChildren - id + 1 |->
                         Step("terminate", NumChildren - i + 1)]

Init ==
    /\ strategy \in Strategies
    /\ restart \in [Id -> RestartTypes]
    /\ phase = "init"
    /\ todo = StartFrom(1)
    /\ fresh = None
    /\ child = [id \in Id |-> None]
    /\ pidToId = [p \in Pid |-> None]
    /\ restartTimes = <<>>
    /\ mailbox = <<>>
    /\ life = [p \in Pid |-> "unborn"]
    /\ watched = {}
    /\ due = {}
    /\ nextPid = 1
    /\ now = 0
    /\ startedAs = [p \in Pid |-> None]
    /\ signalled = {}
    /\ restarts = <<>>

-----------------------------------------------------------------------------
(***************************************************************************)
(* start_child: the start function, then monitor.                          *)
(***************************************************************************)
Doing(op) == todo # <<>> /\ Head(todo).op = op /\ fresh = None

StartChild ==
    /\ Doing("start")
    /\ nextPid \in Pid
    /\ nextPid' = nextPid + 1
    /\ fresh' = nextPid
    /\ life' = [life EXCEPT ![nextPid] = "alive"]
    /\ startedAs' = [startedAs EXCEPT ![nextPid] = Head(todo).id]
    /\ UNCHANGED <<flags, phase, todo, child, pidToId, restartTimes, restarts,
                   mailbox, watched, due, now, signalled>>

\* In start_all_children of supervisor_loop the supervisor just returns.
StartFails ==
    /\ Doing("start")
    /\ IF phase = "init"
       THEN phase' = "ended" /\ todo' = <<>>
       ELSE phase' = "stopping" /\ todo' = TerminateFrom(1)
    /\ UNCHANGED <<flags, fresh, child, pidToId, restartTimes, restarts, mailbox,
                   procVars, watched, due, now, signalled>>

\* An unregistered process is reported at once, as "noproc".
MonitorChild ==
    LET id == Head(todo).id
    IN /\ fresh # None
       /\ IF life[fresh] = "gone"
          THEN mailbox' = Append(mailbox, Down(fresh, TRUE)) /\ UNCHANGED watched
          ELSE watched' = watched \cup {fresh} /\ UNCHANGED mailbox
       /\ child' = [child EXCEPT ![id] = fresh]
       /\ pidToId' = [pidToId EXCEPT ![fresh] = id]
       /\ fresh' = None
       /\ todo' = Tail(todo)
       /\ UNCHANGED <<flags, phase, restartTimes, restarts, procVars, due, now,
                      signalled>>

(***************************************************************************)
(* terminate_child_by_id.  Nobody waits for the child to end.              *)
(***************************************************************************)
\* Variant: the pid stays in pid_to_id.
PidKept(p) == pidToId
PidRemoved(p) == [pidToId EXCEPT ![p] = None]

TerminateChild ==
    LET id == Head(todo).id
        p == child[id]
    IN /\ Doing("terminate")
       /\ todo' = Tail(todo)
       /\ child' = [child EXCEPT ![id] = None]
       /\ pidToId' = IF p = None THEN pidToId ELSE PidRemoved(p)
       /\ watched' = watched \ {p}
       /\ signalled' = IF p = None THEN signalled ELSE signalled \cup {p}
       /\ UNCHANGED <<flags, phase, fresh, restartTimes, restarts, mailbox,
                      procVars, due, now>>

\* All children are started or terminated.
Done ==
    /\ phase \in {"init", "restart", "stopping"}
    /\ todo = <<>>
    /\ phase' = IF phase = "stopping" THEN "ended" ELSE "loop"
    /\ UNCHANGED <<flags, todo, fresh, child, pidToId, restartTimes, restarts,
                   mailbox, procVars, watched, due, now, signalled>>

-----------------------------------------------------------------------------
(***************************************************************************)
(* handle_child_exit                                                       *)
(***************************************************************************)
\* Variant: a permanent child that ends normally is not restarted.
IfAbnormal(id, abnormal) == restart[id] # "Temporary" /\ abnormal
ShouldRestart(id, abnormal) ==
    \/ restart[id] = "Permanent"
    \/ restart[id] = "Transient" /\ abnormal

\* How many of restart_times are not after the cutoff: the first ones, since
\* they are in the order of the clock.
Expired ==
    CHOOSE n \in 0 .. Len(restartTimes) :
        \A i \in 1 .. Len(restartTimes) : restartTimes[i] > now - MaxSeconds <=> i > n

\* What retain leaves of restart_times.
Recent == SubSeq(restartTimes, Expired + 1, Len(restartTimes))

\* Variant: one restart too many.
TooManyByOne == Len(Recent) > MaxRestarts
TooMany == Len(Recent) >= MaxRestarts

\* The first child that the strategy takes down with child id.
\* Variant: RestForOne takes down all.
FirstOfAll(id) == IF strategy = "OneForOne" THEN id ELSE 1
First(id) == IF strategy = "OneForAll" THEN 1 ELSE id

RestartPlan(id) ==
    IF strategy = "OneForOne" THEN <<Step("start", id)>>
    ELSE TerminateFrom(First(id)) \o StartFrom(First(id))

ReadDown ==
    /\ phase = "loop"
    /\ mailbox # <<>>
    /\ Head(mailbox).kind = "down"
    /\ mailbox' = Tail(mailbox)
    /\ UNCHANGED <<flags, procVars, watched, due, now, signalled>>

\* "Not our child"
IgnoreDown ==
    /\ ReadDown
    /\ pidToId[Head(mailbox).pid] = None
    /\ UNCHANGED supVars

HandleDown ==
    LET down == Head(mailbox)
        id == pidToId[down.pid]
    IN /\ ReadDown
       /\ id # None
       /\ pidToId' = [pidToId EXCEPT ![down.pid] = None]
       /\ child' = [child EXCEPT ![id] = None]
       /\ UNCHANGED fresh
       /\ \/ /\ ~ShouldRestart(id, down.abnormal)
             /\ UNCHANGED <<phase, todo, restartTimes, restarts>>
          \/ /\ ShouldRestart(id, down.abnormal)
             /\ TooMany
             /\ phase' = "stopping"
             /\ todo' = TerminateFrom(1)
             /\ restartTimes' = Recent
             /\ UNCHANGED restarts
          \/ /\ ShouldRestart(id, down.abnormal)
             /\ ~TooMany
             /\ phase' = "restart"
             /\ todo' = RestartPlan(id)
             /\ restartTimes' = Append(Recent, now)
             /\ restarts' = Append(restarts, now)

HandleExit ==
    /\ phase = "loop"
    /\ mailbox # <<>>
    /\ Head(mailbox).kind = "exit"
    /\ mailbox' = Tail(mailbox)
    /\ phase' = "stopping"
    /\ todo' = TerminateFrom(1)
    /\ UNCHANGED <<flags, fresh, child, pidToId, restartTimes, restarts, procVars,
                   watched, due, now, signalled>>

-----------------------------------------------------------------------------
(***************************************************************************)
(* The environment: the children's processes, the supervisor's own linked  *)
(* processes, the clock.                                                   *)
(***************************************************************************)
ChildEnds(p, abnormal) ==
    /\ phase # "ended"
    /\ life[p] = "alive"
    /\ life' = [life EXCEPT ![p] = "ending"]
    /\ due' = IF p \in watched THEN due \cup {Down(p, abnormal)} ELSE due
    /\ UNCHANGED <<flags, supVars, mailbox, startedAs, nextPid, watched, now,
                   signalled>>

ChildEnded(p) ==
    LET owed == {d \in due : d.pid = p}
    IN /\ phase # "ended"
       /\ life[p] = "ending"
       /\ life' = [life EXCEPT ![p] = "gone"]
       /\ due' = due \ owed
       /\ watched' = watched \ {p}
       /\ IF owed = {}
          THEN UNCHANGED mailbox
          ELSE \E d \in owed : mailbox' = Append(mailbox, d)
       /\ UNCHANGED <<flags, supVars, startedAs, nextPid, now, signalled>>

\* At most one exit signal from a linked process.
ExitSignal ==
    /\ phase # "ended"
    /\ \A i \in 1 .. Len(mailbox) : mailbox[i].kind # "exit"
    /\ mailbox' = Append(mailbox, ExitMsg)
    /\ UNCHANGED <<flags, supVars, procVars, watched, due, now, signalled>>

Tick ==
    /\ phase # "ended"
    /\ now < MaxTime
    /\ now' = now + 1
    /\ UNCHANGED <<flags, supVars, mailbox, procVars, watched, due, signalled>>

SupervisorStep ==
    \/ StartChild
    \/ StartFails
    \/ MonitorChild
    \/ TerminateChild
    \/ Done
    \/ IgnoreDown
    \/ HandleDown
    \/ HandleExit

Next ==
    \/ SupervisorStep
    \/ \E p \in Pid : (\E abnormal \in BOOLEAN : ChildEnds(p, abnormal))
                      \/ ChildEnded(p)
    \/ ExitSignal
    \/ Tick

Spec == Init /\ [][Next]_vars

(***************************************************************************)
(* tokio runs the supervisor's task; that start functions return is an     *)
(* assumption about the user's code.                                       *)
(***************************************************************************)
FairSpec == Spec /\ WF_vars(SupervisorStep)
-----------------------------------------------------------------------------
(***************************************************************************)
(* Properties.                                                             *)
(***************************************************************************)

(***************************************************************************)
(* Restart intensity (handle_child_exit): any max_restarts + 1 restarts    *)
(* take at least max_seconds, although restart_times forgets old ones and  *)
(* restarts follow each other while DOWNs queue up.                        *)
(***************************************************************************)
RestartIntensity ==
    \A i \in 1 .. Len(restarts) - MaxRestarts :
        restarts[i + MaxRestarts] - restarts[i] >= MaxSeconds

(***************************************************************************)
(* The supervisor keeps hold of every process it started: one that runs    *)
(* and was not told to shut down is the child of its specification, so it  *)
(* is told when the supervisor stops or restarts it.  A restart never      *)
(* replaces a running child unseen, and children and pid_to_id agree,      *)
(* whatever DOWNs of earlier processes of a child are still on their way.  *)
(***************************************************************************)
NoLiveChildIsLost ==
    \A p \in Pid :
        /\ life[p] = "alive" /\ p \notin signalled =>
               p = fresh \/ child[startedAs[p]] = p
        /\ \A id \in Id : child[id] = p <=> pidToId[p] = id

(***************************************************************************)
(* Strategy: a child is taken down for another one only when the           *)
(* supervisor stops, or with OneForAll, or with RestForOne when an earlier *)
(* child is down.                                                          *)
(***************************************************************************)
TakenDownByStrategy ==
    [][\A id \in Id : child[id] # child'[id] /\ child[id] \in signalled' =>
            \/ phase = "stopping"
            \/ strategy = "OneForAll"
            \/ strategy = "RestForOne" /\ \E j \in 1 .. id - 1 : child[j] = None]_vars

(***************************************************************************)
(* A permanent child whose DOWN has come is replaced, or the supervisor    *)
(* ends; the DOWN is not lost in restarts of others.                       *)
(***************************************************************************)
Reported(p) == \E i \in 1 .. Len(mailbox) :
                    mailbox[i].kind = "down" /\ mailbox[i].pid = p

ChildIs(p) == startedAs[p] # None /\ child[startedAs[p]] = p

Replaced(p) == startedAs[p] # None /\ child[startedAs[p]] \notin {p, None}

PermanentIsReplaced ==
    \A p \in Pid :
        ChildIs(p) /\ restart[startedAs[p]] = "Permanent" /\ Reported(p)
            ~> Replaced(p) \/ phase = "ended"

(***************************************************************************)
(* RestartType::Temporary: "The child is never restarted."  (Not what the  *)
(* code does, see the README: TLC refutes it within seconds.)              *)
(***************************************************************************)
TemporaryIsNotRestarted ==
    \A p, q \in Pid : p # q /\ startedAs[p] = startedAs[q] /\ startedAs[p] # None =>
        restart[startedAs[p]] # "Temporary"
=============================================================================
