------------------------------- MODULE Timers -------------------------------
(***************************************************************************)
(* Timers: timer/mod.rs.  A timer is an entry of the table TIMERS and a    *)
(* task that waits for its time or for a signal.  Time is left out: the    *)
(* time of a waiting task may come at any moment, or never.                *)
(*                                                                         *)
(* A timer of the first two kinds calls runtime::send_raw, one of kind     *)
(* exit calls runtime::exit.  Both take the process from a task-local that *)
(* a task of tokio::spawn does not inherit, so the task panics there.      *)
(***************************************************************************)
EXTENDS Naturals

CONSTANTS
    Timer,          \* the references
    TimerKinds,     \* the kinds of timers to start
    MaxTicks        \* bound: how often an interval timer fires

Kinds == {"send", "sendInterval", "apply", "applyInterval", "exit"}
Interval == {"sendInterval", "applyInterval"}
NeedsProcess == {"send", "sendInterval", "exit"}

VARIABLES
    timers,         \* TIMERS: the references that have an entry
    timerKind,      \* what each reference was made for
    timerTask,      \* where the task of each timer is
    cancelSignal,   \* whether the channel of each timer holds the signal
    cancelling,     \* where cancel is, and what it returned
    ticks,          \* how often each timer has fired
    lateTicks       \* how often after cancel returned Ok (history)

timerVars == <<timers, timerKind, timerTask, cancelSignal, cancelling, ticks, lateTicks>>

TaskState == {"none", "waiting", "elapsed", "cleanup", "over", "panicked"}
CancelAnswer == {"no", "removed", "Ok", "NotFound"}

TimerTypeOK ==
    /\ timers \subseteq Timer
    /\ timerKind \in [Timer -> Kinds \cup {"none"}]
    /\ timerTask \in [Timer -> TaskState]
    /\ cancelSignal \in [Timer -> BOOLEAN]
    /\ cancelling \in [Timer -> CancelAnswer]
    /\ ticks \in [Timer -> 0 .. MaxTicks]
    /\ lateTicks \in [Timer -> 0 .. MaxTicks]

TimerInit ==
    /\ timers = {}
    /\ timerKind = [t \in Timer |-> "none"]
    /\ timerTask = [t \in Timer |-> "none"]
    /\ cancelSignal = [t \in Timer |-> FALSE]
    /\ cancelling = [t \in Timer |-> "no"]
    /\ ticks = [t \in Timer |-> 0]
    /\ lateTicks = [t \in Timer |-> 0]

\* The entry is there before the task, and the task before the reference is returned.
Start(t, kind) ==
    /\ kind \in TimerKinds
    /\ timerTask[t] = "none"
    /\ timers' = timers \cup {t}
    /\ timerKind' = [timerKind EXCEPT ![t] = kind]
    /\ timerTask' = [timerTask EXCEPT ![t] = "waiting"]
    /\ UNCHANGED <<cancelSignal, cancelling, ticks, lateTicks>>

SendAfter(t) == Start(t, "send")
SendInterval(t) == Start(t, "sendInterval")
ApplyAfter(t) == Start(t, "apply")
ApplyInterval(t) == Start(t, "applyInterval")
ExitAfter(t) == Start(t, "exit")     \* also kill_after

\* The select is biased: a signal that is there comes first.  Variant: it is not.
AnyBranch(t) == TRUE
NotSignalled(t) == ~cancelSignal[t]

Elapse(t) ==
    /\ timerTask[t] = "waiting"
    /\ ticks[t] < MaxTicks
    /\ NotSignalled(t)
    /\ timerTask' = [timerTask EXCEPT ![t] = "elapsed"]
    /\ UNCHANGED <<timers, timerKind, cancelSignal, cancelling, ticks, lateTicks>>

Fire(t) ==
    /\ timerTask[t] = "elapsed"
    /\ timerKind[t] \notin NeedsProcess
    /\ timerTask' = [timerTask EXCEPT ![t] =
                        IF timerKind[t] \in Interval THEN "waiting" ELSE "cleanup"]
    /\ ticks' = [ticks EXCEPT ![t] = @ + 1]
    /\ lateTicks' = [lateTicks EXCEPT ![t] = IF cancelling[t] = "Ok" THEN @ + 1 ELSE @]
    /\ UNCHANGED <<timers, timerKind, cancelSignal, cancelling>>

Panic(t) ==
    /\ timerTask[t] = "elapsed"
    /\ timerKind[t] \in NeedsProcess
    /\ timerTask' = [timerTask EXCEPT ![t] = "panicked"]
    /\ UNCHANGED <<timers, timerKind, cancelSignal, cancelling, ticks, lateTicks>>

TakeSignal(t) ==
    /\ timerTask[t] = "waiting"
    /\ cancelSignal[t]
    /\ timerTask' = [timerTask EXCEPT ![t] = "cleanup"]
    /\ UNCHANGED <<timers, timerKind, cancelSignal, cancelling, ticks, lateTicks>>

Cleanup(t) ==
    /\ timerTask[t] = "cleanup"
    /\ timerTask' = [timerTask EXCEPT ![t] = "over"]
    /\ timers' = timers \ {t}
    /\ UNCHANGED <<timerKind, cancelSignal, cancelling, ticks, lateTicks>>

\* cancel holds the entry it took out until it returns.
Cancel(t) ==
    /\ timerTask[t] # "none"
    /\ cancelling[t] = "no"
    /\ cancelling' = [cancelling EXCEPT ![t] = IF t \in timers THEN "removed" ELSE "NotFound"]
    /\ timers' = timers \ {t}
    /\ UNCHANGED <<timerKind, timerTask, cancelSignal, ticks, lateTicks>>

\* Variant: the entry is dropped without a signal.
NoSignal(t) == cancelSignal
Signal(t) == [cancelSignal EXCEPT ![t] = TRUE]

CancelReturns(t) ==
    /\ cancelling[t] = "removed"
    /\ cancelling' = [cancelling EXCEPT ![t] = "Ok"]
    /\ cancelSignal' = Signal(t)
    /\ UNCHANGED <<timers, timerKind, timerTask, ticks, lateTicks>>

TimerNext ==
    \E t \in Timer :
        \/ SendAfter(t) \/ SendInterval(t) \/ ApplyAfter(t) \/ ApplyInterval(t) \/ ExitAfter(t)
        \/ Elapse(t) \/ Fire(t) \/ Panic(t) \/ TakeSignal(t) \/ Cleanup(t)
        \/ Cancel(t) \/ CancelReturns(t)

\* The tasks run; tokio polls a task that is ready.
TimerFairness ==
    \A t \in Timer :
        WF_timerVars(Elapse(t) \/ Fire(t) \/ Panic(t) \/ TakeSignal(t) \/ Cleanup(t))
-----------------------------------------------------------------------------
(***************************************************************************)
(* After cancel has returned Ok a timer fires at most once more (when its  *)
(* task had left the select already), and NotFound is the answer only when *)
(* the timer has fired: cancel and the task race for one entry.            *)
(***************************************************************************)
CancelHolds ==
    /\ \A t \in Timer : lateTicks[t] <= 1
    /\ \A t \in Timer : cancelling[t] = "NotFound" => ticks[t] > 0

(***************************************************************************)
(* A timer that nobody cancels fires: timer/mod.rs:104 says of send_after  *)
(* "Sends a message to a process after a delay".                           *)
(***************************************************************************)
TimerFires ==
    \A t \in Timer :
        timerTask[t] = "waiting" ~> (ticks[t] > 0 \/ cancelling[t] # "no")
=============================================================================
