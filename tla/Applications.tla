---------------------------- MODULE Applications ----------------------------
(***************************************************************************)
(* The application controller: application/core.rs.  Starts and stops run  *)
(* at once; a start looks at the running applications before it starts one *)
(* and records it afterwards, under separate locks.                        *)
(***************************************************************************)
EXTENDS Naturals, Sequences, SequencesExt

CONSTANTS
    App,
    DepGraphs,      \* the dependencies to consider: functions from App to sequences of App
    Caller,         \* who calls start
    MaxStarts,      \* bound: how often an application is started
    NoOne

VARIABLES
    deps,           \* AppSpec::dependencies
    registered,     \* the applications with a RegisteredApp
    running,        \* the applications with a RunningApp
    startTask,      \* what is left of each call of start, and the step it is at
    instances,      \* how many root processes each application has
    starts,         \* how often its start function ran (history)
    everStopped     \* the applications stop was called for (history)

appVars == <<deps, registered, running, startTask, instances, starts, everStopped>>

NotStarting == [at |-> "idle", order |-> <<>>]

ApplicationTypeOK ==
    /\ deps \in DepGraphs
    /\ registered \subseteq App /\ running \subseteq App
    /\ \A c \in Caller :
          /\ startTask[c].at \in {"idle", "check", "start", "record"}
          /\ startTask[c].order \in Seq(App)
          /\ startTask[c].at \in {"start", "record"} => startTask[c].order # <<>>
    /\ instances \in [App -> 0 .. MaxStarts] /\ starts \in [App -> 0 .. MaxStarts]

ApplicationInit ==
    /\ deps \in DepGraphs
    /\ registered = {} /\ running = {} /\ everStopped = {}
    /\ startTask = [c \in Caller |-> NotStarting]
    /\ instances = [a \in App |-> 0]
    /\ starts = [a \in App |-> 0]

RegisterApp(a) ==
    /\ a \notin registered
    /\ registered' = registered \cup {a}
    /\ UNCHANGED <<deps, running, startTask, instances, starts, everStopped>>

\* visit_deps: the dependencies before the application, each once.  Variant: after it.
DepsLast(a, order) == <<a>> \o order
DepsFirst(a, order) == Append(order, a)

Failed(result) == result.error # "none"

RECURSIVE VisitDeps(_, _, _)
VisitDeps(a, path, result) ==
    IF Failed(result) THEN result
    ELSE IF a \in path THEN [result EXCEPT !.error = "CircularDependency"]
    ELSE IF a \in ToSet(result.order) THEN result
    ELSE IF a \notin registered THEN [result EXCEPT !.error = "NotFound"]
    ELSE LET visited == FoldLeft(LAMBDA r, d : VisitDeps(d, path \cup {a}, r), result, deps[a])
         IN  IF Failed(visited) THEN visited
             ELSE [visited EXCEPT !.order = DepsFirst(a, @)]

ResolveDependencies(a) == VisitDeps(a, {}, [order |-> <<>>, error |-> "none"])

StartBecomes(c, task) == startTask' = [startTask EXCEPT ![c] = task]

StartApp(c, a) ==
    /\ startTask[c] = NotStarting
    /\ a \notin running
    /\ ~Failed(ResolveDependencies(a))
    /\ StartBecomes(c, [at |-> "check", order |-> ResolveDependencies(a).order])
    /\ UNCHANGED <<deps, registered, running, instances, starts, everStopped>>

StartCheck(c) ==
    LET order == startTask[c].order IN
    /\ startTask[c].at = "check"
    /\ StartBecomes(c, IF order = <<>> THEN NotStarting
                       ELSE IF Head(order) \in running THEN [at |-> "check", order |-> Tail(order)]
                       ELSE [at |-> "start", order |-> order])
    /\ UNCHANGED <<deps, registered, running, instances, starts, everStopped>>

\* An error ends the call; what it has started stays.
StartFn(c) ==
    LET a == Head(startTask[c].order) IN
    /\ startTask[c].at = "start"
    /\ starts[a] < MaxStarts
    /\ starts' = [starts EXCEPT ![a] = @ + 1]
    /\ \/ /\ instances' = [instances EXCEPT ![a] = @ + 1]
          /\ StartBecomes(c, [startTask[c] EXCEPT !.at = "record"])
       \/ /\ UNCHANGED instances
          /\ StartBecomes(c, NotStarting)
    /\ UNCHANGED <<deps, registered, running, everStopped>>

StartRecord(c) ==
    LET order == startTask[c].order IN
    /\ startTask[c].at = "record"
    /\ running' = running \cup {Head(order)}
    /\ StartBecomes(c, [at |-> "check", order |-> Tail(order)])
    /\ UNCHANGED <<deps, registered, instances, starts, everStopped>>

\* The signal goes to the one process that is recorded; stop_all does this for each.
StopApp(a) ==
    /\ a \in running
    /\ running' = running \ {a}
    /\ instances' = [instances EXCEPT ![a] = @ - 1]
    /\ everStopped' = everStopped \cup {a}
    /\ UNCHANGED <<deps, registered, startTask, starts>>

ApplicationNext ==
    \/ \E a \in App : RegisterApp(a) \/ StopApp(a)
    \/ \E c \in Caller :
          \/ \E a \in App : StartApp(c, a)
          \/ StartCheck(c) \/ StartFn(c) \/ StartRecord(c)
-----------------------------------------------------------------------------
(***************************************************************************)
(* start runs the dependencies of an application before it, all of them,   *)
(* and an application in a cycle never starts: when a start function has   *)
(* run, each dependency is recorded as running, or somebody stopped it.    *)
(***************************************************************************)
StartsInOrder ==
    \A a \in App : starts[a] > 0 =>
        \A i \in DOMAIN deps[a] : deps[a][i] \in running \cup everStopped

(***************************************************************************)
(* An application that is not running has no process left, and one that is *)
(* has one (stop has only one pid to signal); starts at once break this.   *)
(***************************************************************************)
OneInstance == \A a \in App : instances[a] <= 1
=============================================================================
