---------------------------- MODULE ServicesProofs ----------------------------
(***************************************************************************)
(* Proofs about services of one node that share no state: Atom, Timers,    *)
(* DynamicSupervisor, StoreOwners, StoreData, Registry, GenFsm, Channels   *)
(* and Peers.  MCServices runs each of them on a small instance, by the    *)
(* same initial predicate and next-state relation.                         *)
(***************************************************************************)
EXTENDS Atom, Timers, DynamicSupervisor, StoreOwners, StoreData, Registry, GenFsm, Channels,
        Peers, FiniteSetTheorems, SequenceTheorems, WellFoundedInduction, TLAPS

TimerSpec == TimerInit /\ [][TimerNext]_timerVars
DynSpec == DynInit /\ [][DynNext]_dynVars
OwnerSpec == StoreInit /\ [][StoreNext]_storeVars
DataSpec == DataInit /\ [][DataNext]_dataVars
RegistrySpec == RegistryInit /\ [][RegistryNext]_registryVars
FsmSpec == FsmInit /\ [][FsmNext]_fsmVars
ChannelSpec == ChannelInit /\ [][ChannelNext]_channelVars
PeerSpec == PeerInit /\ [][PeerNext]_peerVars

-----------------------------------------------------------------------------
(***************************************************************************)
(* Atom, for any set of threads and of strings.                            *)
(*                                                                         *)
(* Between Push and Insert the vector has a string that the map does not   *)
(* have yet; the writer that owes it is the one that holds the lock.  So   *)
(* the inductive invariant says what holds of the maps in between, too.    *)
(***************************************************************************)
\* The map is missing the string that is about to be pushed or inserted.
Unmapped ==
    \A t \in Thread : pc[t] \in {"push", "insert"} => stringToIndex[arg[t]] = Absent

\* What was pushed last is what is about to be inserted.
Pushed ==
    \A t \in Thread : pc[t] = "insert" =>
        /\ indexToString # <<>>
        /\ indexToString[Len(indexToString)] = arg[t]

AtomInv == TypeOK /\ Invertible /\ Unmapped /\ Pushed

LEMMA AtomInvStarts == Init => AtomInv
BY NoneAssumption
DEF Init, AtomInv, TypeOK, Invertible, Unmapped, Pushed, PC, Absent

\* A thread that is in intern has its string.
LEMMA InternsName ==
    ASSUME TypeOK, NEW t \in Thread, pc[t] # "idle"
    PROVE  arg[t] \in Name
BY NoneAssumption DEF TypeOK

LEMMA AtomInvStays == AtomInv /\ [Next]_vars => AtomInv'
<1>. SUFFICES ASSUME AtomInv, [Next]_vars
              PROVE  AtomInv'
  OBVIOUS
<1>. USE NoneAssumption
<1>. USE DEF AtomInv, Absent
<1>1. ASSUME NEW t \in Thread, NEW s \in Name, Intern(t, s)
      PROVE  AtomInv'
  BY <1>1 DEF Intern, Goto, TypeOK, PC, Invertible, Unmapped, Pushed
<1>2. ASSUME NEW t \in Thread, FastPath(t)
      PROVE  AtomInv'
  <2>1. arg[t] \in Name
    BY <1>2, InternsName DEF FastPath
  <2>2. TypeOK'
    BY <1>2, <2>1 DEF FastPath, Return, Goto, TypeOK, PC
  <2>3. Invertible'
    <3>1. CASE stringToIndex[arg[t]] # Absent
      BY <1>2, <2>1, <3>1 DEF FastPath, Return, TypeOK, Invertible
    <3>2. CASE stringToIndex[arg[t]] = Absent
      BY <1>2, <3>2 DEF FastPath, Invertible
    <3>. QED  BY <3>1, <3>2
  <2>4. Unmapped' /\ Pushed'
    BY <1>2, <2>1 DEF FastPath, Return, Goto, TypeOK, Unmapped, Pushed
  <2>. QED  BY <2>2, <2>3, <2>4
<1>3. ASSUME NEW t \in Thread, WriteLock(t)
      PROVE  AtomInv'
  BY <1>3 DEF WriteLock, LockIsFree, Goto, TypeOK, PC, Invertible, Unmapped, Pushed
<1>4. ASSUME NEW t \in Thread, DoubleCheck(t)
      PROVE  AtomInv'
  <2>1. arg[t] \in Name
    BY <1>4, InternsName DEF DoubleCheck
  <2>2. CASE AddedMeanwhile(t)
    <3>1. /\ pc' = [pc EXCEPT ![t] = "idle"]
          /\ arg' = [arg EXCEPT ![t] = NoName]
          /\ result' = [result EXCEPT ![t] = stringToIndex[arg[t]]]
          /\ lock' = None
          /\ UNCHANGED <<stringToIndex, indexToString, name>>
      BY <1>4, <2>2 DEF DoubleCheck, Return, Goto
    <3>2. TypeOK'
      BY <1>4, <2>1, <3>1 DEF DoubleCheck, TypeOK, PC
    <3>3. Invertible'
      BY <2>1, <2>2, <3>1 DEF AddedMeanwhile, TypeOK, Invertible
    <3>4. Unmapped' /\ Pushed'
      BY <3>1 DEF TypeOK, Unmapped, Pushed
    <3>. QED  BY <3>2, <3>3, <3>4
  <2>3. CASE ~AddedMeanwhile(t)
    BY <1>4, <2>1, <2>3
    DEF DoubleCheck, AddedMeanwhile, Goto, TypeOK, PC, Invertible, Unmapped, Pushed
  <2>. QED  BY <2>2, <2>3
<1>5. ASSUME NEW t \in Thread, Push(t)
      PROVE  AtomInv'
  <2>1. arg[t] \in Name
    BY <1>5, InternsName DEF Push
  <2>2. indexToString' = Append(indexToString, arg[t])
    BY <1>5 DEF Push
  <2>3. /\ indexToString' \in Seq(Name)
        /\ Len(indexToString') = Len(indexToString) + 1
        /\ indexToString'[Len(indexToString')] = arg[t]
        /\ \A i \in 1 .. Len(indexToString) : indexToString'[i] = indexToString[i]
    BY <2>1, <2>2 DEF TypeOK
  <2>4. TypeOK'
    BY <1>5, <2>3 DEF Push, Goto, TypeOK, PC
  <2>5. Invertible'
    BY <1>5, <2>3 DEF Push, TypeOK, Invertible
  <2>6. Unmapped'
    BY <1>5 DEF Push, Goto, TypeOK, Unmapped
  <2>7. Pushed'
    \* The lock keeps every other thread from this step.
    BY <1>5, <2>3 DEF Push, Goto, TypeOK, Pushed
  <2>. QED  BY <2>4, <2>5, <2>6, <2>7
<1>6. ASSUME NEW t \in Thread, Insert(t)
      PROVE  AtomInv'
  <2>1. arg[t] \in Name
    BY <1>6, InternsName DEF Insert
  <2>2. /\ Len(indexToString) \in Nat \ {0}
        /\ indexToString[Len(indexToString)] = arg[t]
    BY <1>6 DEF Insert, Pushed, TypeOK
  <2>3. TypeOK'
    BY <1>6, <2>1, <2>2 DEF Insert, IndexBefore, Return, Goto, TypeOK, PC
  <2>4. Invertible'
    BY <1>6, <2>1, <2>2 DEF Insert, IndexBefore, Return, Goto, TypeOK, Invertible
  <2>5. Unmapped' /\ Pushed'
    BY <1>6, <2>1 DEF Insert, IndexBefore, Return, Goto, TypeOK, Unmapped, Pushed
  <2>. QED  BY <2>3, <2>4, <2>5
<1>7. ASSUME NEW t \in Thread, NEW u \in Thread, Get(t, result[u])
      PROVE  AtomInv'
  <2>1. indexToString[result[u] + 1] \in Name
    BY <1>7 DEF Get, TypeOK
  <2>. QED  BY <1>7, <2>1 DEF Get, TypeOK, Invertible, Unmapped, Pushed
<1>8. CASE UNCHANGED vars
  BY <1>8 DEF vars, TypeOK, Invertible, Unmapped, Pushed
<1>. QED  BY <1>1, <1>2, <1>3, <1>4, <1>5, <1>6, <1>7, <1>8 DEF Next

LEMMA AtomInvariant == Spec => []AtomInv
BY AtomInvStarts, AtomInvStays, PTL DEF Spec

(***************************************************************************)
(* Interning is invertible in every reachable state: distinct strings get  *)
(* distinct atoms and no atom is unknown to as_str.                        *)
(***************************************************************************)
THEOREM AtomsAreInvertible == Spec => []Invertible
<1>. AtomInv => Invertible
  BY DEF AtomInv
<1>. QED  BY AtomInvariant, PTL

-----------------------------------------------------------------------------
(***************************************************************************)
(* The atom table implements Interning.                                    *)
(***************************************************************************)
LEMMA InterningStarts == Init => Table!Init
BY DEF Init, Table!Init, Absent, Table!Absent

LEMMA InterningSteps == AtomInv /\ [Next]_vars => [Table!Next]_Table!vars
<1>. SUFFICES ASSUME AtomInv, [Next]_vars
              PROVE  [Table!Next]_Table!vars
  OBVIOUS
<1>. USE NoneAssumption
<1>. USE DEF AtomInv, Absent, Table!Absent, Table!vars
<1>1. ASSUME NEW t \in Thread, NEW s \in Name, Intern(t, s)
      PROVE  Table!Next
  <2>1. Table!Ask(t, s)
    BY <1>1 DEF Intern, TypeOK, Table!Ask
  <2>. QED  BY <2>1 DEF Table!Next
<1>2. ASSUME NEW t \in Thread, FastPath(t)
      PROVE  Table!Next \/ UNCHANGED Table!vars
  <2>1. arg[t] \in Name
    BY <1>2, InternsName DEF FastPath
  <2>2. CASE stringToIndex[arg[t]] # Absent
    <3>1. Table!Find(t)
      BY <1>2, <2>1, <2>2 DEF FastPath, Return, Table!Find, Table!Answer
    <3>. QED  BY <3>1 DEF Table!Next
  <2>3. CASE stringToIndex[arg[t]] = Absent
    BY <1>2, <2>3 DEF FastPath
  <2>. QED  BY <2>2, <2>3
<1>3. ASSUME NEW t \in Thread, WriteLock(t) \/ Push(t)
      PROVE  UNCHANGED Table!vars
  BY <1>3 DEF WriteLock, Push
<1>4. ASSUME NEW t \in Thread, DoubleCheck(t)
      PROVE  Table!Next \/ UNCHANGED Table!vars
  <2>1. arg[t] \in Name
    BY <1>4, InternsName DEF DoubleCheck
  <2>2. CASE AddedMeanwhile(t)
    <3>1. Table!Find(t)
      BY <1>4, <2>1, <2>2 DEF DoubleCheck, AddedMeanwhile, Return, Table!Find, Table!Answer
    <3>. QED  BY <3>1 DEF Table!Next
  <2>3. CASE ~AddedMeanwhile(t)
    BY <1>4, <2>3 DEF DoubleCheck
  <2>. QED  BY <2>2, <2>3
<1>5. ASSUME NEW t \in Thread, Insert(t)
      PROVE  Table!Next
  <2>1. arg[t] \in Name
    BY <1>5, InternsName DEF Insert
  <2>2. stringToIndex[arg[t]] = Absent
    BY <1>5 DEF Insert, Unmapped
  <2>3. /\ IndexBefore \in Nat
        /\ indexToString[IndexBefore + 1] = arg[t]
    BY <1>5 DEF Insert, Pushed, IndexBefore, TypeOK
  <2>4. \A s \in Name : stringToIndex[s] # IndexBefore
    BY <2>2, <2>3 DEF Invertible
  <2>5. stringToIndex'[arg[t]] = IndexBefore
    BY <1>5, <2>1 DEF Insert, TypeOK
  <2>6. Table!Add(t)
    BY <1>5, <2>1, <2>2, <2>3, <2>4, <2>5 DEF Insert, Return, Table!Add, Table!Answer
  <2>. QED  BY <2>6 DEF Table!Next
<1>6. ASSUME NEW t \in Thread, NEW u \in Thread, Get(t, result[u])
      PROVE  UNCHANGED Table!vars
  BY <1>6 DEF Get
<1>7. CASE UNCHANGED vars
  BY <1>7 DEF vars
<1>. QED  BY <1>1, <1>2, <1>3, <1>4, <1>5, <1>6, <1>7 DEF Next

(***************************************************************************)
(* Every behaviour of the atom table is one of the atomic table: intern    *)
(* takes effect at one moment, in spite of the unlocked first check.       *)
(***************************************************************************)
THEOREM InternIsAtomic == Spec => ImplementsInterning
BY InterningStarts, InterningSteps, AtomInvariant, PTL DEF Spec, ImplementsInterning, Table!Spec

-----------------------------------------------------------------------------
(***************************************************************************)
(* Timers.  A task that saw the signal is never in its select again, so a  *)
(* timer that fired after cancel returned is past its last choice; and the *)
(* entry of a timer that has not ended is there until cancel takes it.     *)
(***************************************************************************)
TimerTypes ==
    /\ timers \subseteq Timer
    /\ timerKind \in [Timer -> Kinds \cup {"none"}]
    /\ timerTask \in [Timer -> TaskState]
    /\ cancelSignal \in [Timer -> BOOLEAN]
    /\ cancelling \in [Timer -> CancelAnswer]
    /\ ticks \in [Timer -> Nat]
    /\ lateTicks \in [Timer -> Nat]

TimerSound(t) ==
    /\ timerTask[t] = "none" => cancelling[t] = "no"
    /\ cancelSignal[t] <=> cancelling[t] = "Ok"
    /\ lateTicks[t] # 0 => lateTicks[t] = 1 /\ cancelSignal[t] /\ timerTask[t] # "elapsed"
    /\ timerTask[t] \in {"cleanup", "over"} => ticks[t] > 0 \/ cancelSignal[t]
    /\ timerTask[t] \in {"waiting", "elapsed", "panicked"} /\ cancelling[t] = "no" => t \in timers
    /\ cancelling[t] = "NotFound" => ticks[t] > 0

TimerInv == TimerTypes /\ \A t \in Timer : TimerSound(t)

LEMMA TimerInitInv == TimerInit => TimerInv
  BY DEF TimerInit, TimerInv, TimerTypes, TimerSound, TaskState, CancelAnswer

\* The next state of the timer that moves; the others keep theirs.
LEMMA StartInv ==
    ASSUME TimerInv, NEW t \in Timer, NEW k \in Kinds, Start(t, k)
    PROVE  TimerInv'
  <1>1. TimerTypes'
    BY DEF TimerInv, TimerTypes, Start, TaskState
  <1>2. ASSUME NEW u \in Timer PROVE TimerSound(u)'
    <2>1. CASE u = t
      BY <2>1 DEF TimerInv, TimerTypes, TimerSound, Start, TaskState, CancelAnswer
    <2>2. CASE u # t
      BY <2>2 DEF TimerInv, TimerTypes, TimerSound, Start, TaskState, CancelAnswer
    <2>3. QED
      BY <2>1, <2>2
  <1>3. QED
    BY <1>1, <1>2 DEF TimerInv

LEMMA TaskInv ==
    ASSUME TimerInv, NEW t \in Timer,
           Elapse(t) \/ Fire(t) \/ Panic(t) \/ TakeSignal(t) \/ Cleanup(t)
    PROVE  TimerInv'
  <1>1. ASSUME Elapse(t) PROVE TimerInv'
    BY <1>1 DEF TimerInv, TimerTypes, TimerSound, Elapse, NotSignalled, TaskState, CancelAnswer
  <1>2. ASSUME Fire(t) PROVE TimerInv'
    <2>1. TimerTypes'
      BY <1>2 DEF TimerInv, TimerTypes, Fire, TaskState
    <2>2. ASSUME NEW u \in Timer PROVE TimerSound(u)'
      <3>1. CASE u = t
        BY <1>2, <3>1 DEF TimerInv, TimerTypes, TimerSound, Fire, TaskState, CancelAnswer
      <3>2. CASE u # t
        BY <1>2, <3>2 DEF TimerInv, TimerTypes, TimerSound, Fire, TaskState, CancelAnswer
      <3>3. QED
        BY <3>1, <3>2
    <2>3. QED
      BY <2>1, <2>2 DEF TimerInv
  <1>3. ASSUME Panic(t) PROVE TimerInv'
    BY <1>3 DEF TimerInv, TimerTypes, TimerSound, Panic, TaskState, CancelAnswer
  <1>4. ASSUME TakeSignal(t) PROVE TimerInv'
    BY <1>4 DEF TimerInv, TimerTypes, TimerSound, TakeSignal, TaskState, CancelAnswer
  <1>5. ASSUME Cleanup(t) PROVE TimerInv'
    BY <1>5 DEF TimerInv, TimerTypes, TimerSound, Cleanup, TaskState, CancelAnswer
  <1>6. QED
    BY <1>1, <1>2, <1>3, <1>4, <1>5

LEMMA CancelInv ==
    ASSUME TimerInv, NEW t \in Timer, Cancel(t) \/ CancelReturns(t)
    PROVE  TimerInv'
  <1>1. ASSUME Cancel(t) PROVE TimerInv'
    <2>1. TimerTypes'
      BY <1>1 DEF TimerInv, TimerTypes, Cancel, CancelAnswer
    <2>2. ASSUME NEW u \in Timer PROVE TimerSound(u)'
      <3>1. CASE u = t
        BY <1>1, <3>1 DEF TimerInv, TimerTypes, TimerSound, Cancel, TaskState, CancelAnswer
      <3>2. CASE u # t
        BY <1>1, <3>2 DEF TimerInv, TimerTypes, TimerSound, Cancel, TaskState, CancelAnswer
      <3>3. QED
        BY <3>1, <3>2
    <2>3. QED
      BY <2>1, <2>2 DEF TimerInv
  <1>2. ASSUME CancelReturns(t) PROVE TimerInv'
    BY <1>2 DEF TimerInv, TimerTypes, TimerSound, CancelReturns, Signal, TaskState, CancelAnswer
  <1>3. QED
    BY <1>1, <1>2

LEMMA TimerNextInv == TimerInv /\ [TimerNext]_timerVars => TimerInv'
  <1> SUFFICES ASSUME TimerInv, [TimerNext]_timerVars
               PROVE  TimerInv'
    OBVIOUS
  <1>1. ASSUME NEW t \in Timer,
               \/ SendAfter(t) \/ SendInterval(t) \/ ApplyAfter(t) \/ ApplyInterval(t)
               \/ ExitAfter(t)
        PROVE  TimerInv'
    <2>1. \E k \in Kinds : Start(t, k)
      BY <1>1 DEF SendAfter, SendInterval, ApplyAfter, ApplyInterval, ExitAfter, Kinds
    <2>2. QED
      BY <2>1, StartInv
  <1>2. CASE UNCHANGED timerVars
    BY <1>2 DEF TimerInv, TimerTypes, TimerSound, timerVars
  <1>3. QED
    BY <1>1, <1>2, TaskInv, CancelInv DEF TimerNext

(***************************************************************************)
(* CancelHolds, for every set of timers: cancel returns Ok to one that     *)
(* fires at most once more, and NotFound only for one that has fired.      *)
(***************************************************************************)
THEOREM CancelsHold == TimerSpec => []CancelHolds
  <1>1. TimerInv => CancelHolds
    BY DEF TimerInv, TimerTypes, TimerSound, CancelHolds
  <1>2. QED
    BY <1>1, TimerInitInv, TimerNextInv, PTL DEF TimerSpec

-----------------------------------------------------------------------------
(***************************************************************************)
(* DynamicSupervisor.  A child has one starter until it is in children,    *)
(* and is not there before; who takes it out is the only one that has it;  *)
(* between the two inserts the starter still owes the index its entry.     *)
(***************************************************************************)
DynAt == {"idle", "start", "monitor", "insert", "index", "unindex", "restart", "drain"}
DynTasks == [at : DynAt, child : Child \cup {NoChild}, kind : RestartKinds \cup {"none"}]

DynTypes ==
    /\ children \subseteq Child /\ monitorToPid \subseteq Child
    /\ dynTask \in [Actor -> DynTasks]
    /\ dynLife \in [Child -> {"none", "running", "ended"}]
    /\ kind \in [Child -> RestartKinds \cup {"none"}]
    /\ claims \in [Child -> Nat]

Starts(a, c) == dynTask[a].at \in {"monitor", "insert"} /\ dynTask[a].child = c
Indexes(a, c) == dynTask[a].at = "index" /\ dynTask[a].child = c
Took(a, c) == dynTask[a].at \in {"restart", "unindex"} /\ dynTask[a].child = c

TaskHasChild(a) ==
    dynTask[a].at \in {"monitor", "insert", "index", "unindex", "restart"} =>
        dynTask[a].child \in Child

Unclaimed(c) == claims[c] = 0
NotThere(c) == c \notin children /\ Unclaimed(c)

ChildSound(c) ==
    /\ claims[c] <= 1
    /\ c \in children => Unclaimed(c)
    /\ dynLife[c] = "none" => NotThere(c)
    /\ c \in children => c \in monitorToPid \/ \E a \in Actor : Indexes(a, c)

StarterSound(a, c) ==
    Starts(a, c) =>
        /\ dynLife[c] # "none" /\ NotThere(c)
        /\ \A b \in Actor : Starts(b, c) => a = b

TakerSound(a, c) == Took(a, c) => claims[c] = 1

DynInv ==
    /\ DynTypes
    /\ \A a \in Actor : TaskHasChild(a)
    /\ \A c \in Child : ChildSound(c)
    /\ \A a \in Actor, c \in Child : StarterSound(a, c) /\ TakerSound(a, c)

LEMMA DynInitInv == DynInit => DynInv
  <1> SUFFICES ASSUME DynInit PROVE DynInv
    OBVIOUS
  <1>1. DynTypes
    BY DEF DynInit, DynTypes, DynTasks, DynAt, DynIdle
  <1>2. \A a \in Actor : dynTask[a].at = "idle"
    BY DEF DynInit, DynIdle
  <1>3. QED
    BY <1>1, <1>2 DEF DynInv, DynInit, TaskHasChild, ChildSound, StarterSound, TakerSound,
                      Unclaimed, NotThere, Starts, Took

\* What an action of a process does to its task, with the other tasks left as they are.
LEMMA GotoEffect ==
    ASSUME DynTypes, NEW a \in Actor, NEW task \in DynTasks, DynGoto(a, task)
    PROVE  /\ dynTask' \in [Actor -> DynTasks]
           /\ dynTask'[a] = task
           /\ \A b \in Actor : b # a => dynTask'[b] = dynTask[b]
  BY DEF DynTypes, DynGoto

\* A task that neither starts, takes nor indexes a child.
Childless == {"idle", "start", "drain"}

(***************************************************************************)
(* A process becomes free of its child, which it has not to index, and     *)
(* children and the index keep what they have.                             *)
(***************************************************************************)
LEMMA BecomesFree ==
    ASSUME DynInv, NEW a \in Actor, NEW task \in DynTasks, DynGoto(a, task),
           task.at \in Childless, dynTask[a].at # "index",
           UNCHANGED <<children, monitorToPid, dynLife, kind, claims>>
    PROVE  DynInv'
  <1>1. /\ dynTask' \in [Actor -> DynTasks]
        /\ dynTask'[a] = task
        /\ \A b \in Actor : b # a => dynTask'[b] = dynTask[b]
    BY GotoEffect DEF DynInv
  <1>2. DynTypes'
    BY <1>1 DEF DynInv, DynTypes
  <1>3. ASSUME NEW b \in Actor PROVE TaskHasChild(b)'
    BY <1>1, b = a \/ b # a DEF DynInv, TaskHasChild, Childless
  <1>4. ASSUME NEW b \in Actor, NEW c \in Child
        PROVE  /\ Starts(b, c)' => Starts(b, c)
               /\ Took(b, c)' => Took(b, c)
               /\ Indexes(b, c) => Indexes(b, c)'
    BY <1>1, b = a \/ b # a DEF Starts, Took, Indexes, Childless
  <1>5. ASSUME NEW c \in Child PROVE ChildSound(c)'
    BY <1>4 DEF DynInv, ChildSound, Unclaimed, NotThere
  <1>6. ASSUME NEW b \in Actor, NEW c \in Child PROVE StarterSound(b, c)' /\ TakerSound(b, c)'
    BY <1>4 DEF DynInv, StarterSound, TakerSound, NotThere, Unclaimed
  <1>7. QED
    BY <1>2, <1>3, <1>5, <1>6 DEF DynInv

LEMMA StartChildInv ==
    ASSUME DynInv, NEW p \in Proc, NEW k \in RestartKinds, StartChild(p, k)
    PROVE  DynInv'
  <1> DEFINE task == DynStep("start", NoChild, k)
  <1>1. p \in Actor /\ task \in DynTasks /\ task.at \in Childless /\ dynTask[p].at # "index"
    BY DEF StartChild, DynIdleCaller, DynIdle, DynStep, DynTasks, DynAt, Childless, Actor
  <1>2. /\ DynGoto(p, task)
        /\ UNCHANGED <<children, monitorToPid, dynLife, kind, claims>>
    BY DEF StartChild, Outside
  <1> HIDE DEF task
  <1>3. QED
    BY <1>1, <1>2, BecomesFree

LEMMA ChildStartedInv ==
    ASSUME DynInv, NEW a \in Actor, ChildStarted(a)
    PROVE  DynInv'
  <1>1. dynTask[a].at = "start" /\ dynTask[a] \in DynTasks
    BY DEF ChildStarted, DynInv, DynTypes
  <1>2. ASSUME NEW d \in Child, dynLife[d] = "none",
               dynLife' = [dynLife EXCEPT ![d] = "running"],
               kind' = [kind EXCEPT ![d] = dynTask[a].kind],
               DynGoto(a, DynStep("monitor", d, dynTask[a].kind)),
               UNCHANGED <<children, monitorToPid, claims>>
        PROVE  DynInv'
    <2> DEFINE task == DynStep("monitor", d, dynTask[a].kind)
    <2>1. task \in DynTasks /\ task.at = "monitor" /\ task.child = d
      BY <1>1 DEF DynTasks, DynAt, DynStep
    <2>2. DynGoto(a, task)
      BY <1>2
    <2> HIDE DEF task
    <2>3. /\ dynTask' \in [Actor -> DynTasks]
          /\ dynTask'[a] = task
          /\ \A b \in Actor : b # a => dynTask'[b] = dynTask[b]
      BY <2>1, <2>2, GotoEffect DEF DynInv
    <2>4. DynTypes'
      BY <1>1, <1>2, <2>3 DEF DynInv, DynTypes, DynTasks
    <2>5. ASSUME NEW b \in Actor PROVE TaskHasChild(b)'
      BY <2>1, <2>3, b = a \/ b # a DEF DynInv, TaskHasChild
    <2>6. \A c \in Child : dynLife'[c] = IF c = d THEN "running" ELSE dynLife[c]
      BY <1>2 DEF DynInv, DynTypes
    <2>7. NotThere(d) /\ \A b \in Actor : ~Starts(b, d)
      BY <1>2 DEF DynInv, ChildSound, StarterSound
    <2>8. ASSUME NEW b \in Actor, NEW c \in Child
          PROVE  /\ Starts(b, c)' => IF b = a THEN c = d ELSE Starts(b, c)
                 /\ Took(b, c)' => Took(b, c)
                 /\ Indexes(b, c) => Indexes(b, c)'
      BY <1>1, <2>1, <2>3, b = a \/ b # a DEF Starts, Took, Indexes
    <2>9. ASSUME NEW c \in Child PROVE ChildSound(c)'
      BY <1>2, <2>6, <2>7, <2>8 DEF DynInv, ChildSound, Unclaimed, NotThere
    <2>10. ASSUME NEW b \in Actor, NEW c \in Child PROVE StarterSound(b, c)'
      <3>1. ASSUME Starts(b, c)' PROVE dynLife'[c] # "none" /\ NotThere(c)'
        BY <1>2, <2>6, <2>7, <2>8, <3>1 DEF DynInv, StarterSound, NotThere, Unclaimed
      <3>2. ASSUME Starts(b, c)', NEW e \in Actor, Starts(e, c)' PROVE b = e
        BY <2>7, <2>8, <3>2 DEF DynInv, StarterSound
      <3>3. QED
        BY <3>1, <3>2 DEF StarterSound
    <2>11. ASSUME NEW b \in Actor, NEW c \in Child PROVE TakerSound(b, c)'
      BY <1>2, <2>8 DEF DynInv, TakerSound
    <2>12. QED
      BY <2>4, <2>5, <2>9, <2>10, <2>11 DEF DynInv
  <1>3. ASSUME UNCHANGED <<dynLife, kind, children, monitorToPid, claims>>,
               NEW next \in {DynIdle} \cup {DynStep("drain", NoChild, "none") : x \in {a} \cap {Sup}},
               DynGoto(a, next)
        PROVE  DynInv'
    <2>1. next \in DynTasks /\ next.at \in Childless /\ dynTask[a].at # "index"
      BY <1>1, <1>3 DEF DynIdle, DynStep, DynTasks, DynAt, Childless
    <2>2. QED
      BY <1>3, <2>1, BecomesFree
  <1>4. QED
    BY <1>2, <1>3 DEF ChildStarted, Outside

\* From the start of a child to its place in children and in the index.
LEMMA AdvanceInv ==
    ASSUME DynInv, NEW a \in Actor, ChildMonitored(a) \/ ChildInserted(a) \/ ChildIndexed(a)
    PROVE  DynInv'
  <1> DEFINE d == dynTask[a].child
  <1>1. dynTask[a] \in DynTasks /\ d \in Child
    BY DEF DynInv, DynTypes, TaskHasChild, ChildMonitored, ChildInserted, ChildIndexed
  <1>2. ASSUME ChildMonitored(a) PROVE DynInv'
    <2> DEFINE task == [dynTask[a] EXCEPT !.at = "insert"]
    <2>1. task \in DynTasks /\ task.at = "insert" /\ task.child = d
      BY <1>1 DEF DynTasks, DynAt
    <2>2. DynGoto(a, task) /\ dynTask[a].at = "monitor"
          /\ UNCHANGED <<children, monitorToPid, dynLife, kind, claims>>
      BY <1>2 DEF ChildMonitored
    <2> HIDE DEF task
    <2>3. /\ dynTask' \in [Actor -> DynTasks]
          /\ dynTask'[a] = task
          /\ \A b \in Actor : b # a => dynTask'[b] = dynTask[b]
      BY <2>1, <2>2, GotoEffect DEF DynInv
    <2>4. DynTypes'
      BY <2>2, <2>3 DEF DynInv, DynTypes
    <2>5. ASSUME NEW b \in Actor PROVE TaskHasChild(b)'
      BY <1>1, <2>1, <2>3, b = a \/ b # a DEF DynInv, TaskHasChild
    <2>6. ASSUME NEW b \in Actor, NEW c \in Child
          PROVE  /\ Starts(b, c)' <=> Starts(b, c)
                 /\ Took(b, c)' => Took(b, c)
                 /\ Indexes(b, c) => Indexes(b, c)'
      BY <2>1, <2>2, <2>3, b = a \/ b # a DEF Starts, Took, Indexes
    <2>7. ASSUME NEW c \in Child PROVE ChildSound(c)'
      BY <2>2, <2>6 DEF DynInv, ChildSound, Unclaimed, NotThere
    <2>8. ASSUME NEW b \in Actor, NEW c \in Child PROVE StarterSound(b, c)' /\ TakerSound(b, c)'
      BY <2>2, <2>6 DEF DynInv, StarterSound, TakerSound, NotThere, Unclaimed
    <2>9. QED
      BY <2>4, <2>5, <2>7, <2>8 DEF DynInv
  <1>3. ASSUME ChildInserted(a) PROVE DynInv'
    <2> DEFINE task == [dynTask[a] EXCEPT !.at = "index"]
    <2>1. task \in DynTasks /\ task.at = "index" /\ task.child = d
      BY <1>1 DEF DynTasks, DynAt
    <2>2. DynGoto(a, task) /\ dynTask[a].at = "insert" /\ children' = children \cup {d}
          /\ UNCHANGED <<monitorToPid, dynLife, kind, claims>>
      BY <1>3 DEF ChildInserted, Outside
    <2> HIDE DEF task
    <2>3. /\ dynTask' \in [Actor -> DynTasks]
          /\ dynTask'[a] = task
          /\ \A b \in Actor : b # a => dynTask'[b] = dynTask[b]
      BY <2>1, <2>2, GotoEffect DEF DynInv
    <2>4. DynTypes'
      BY <1>1, <2>2, <2>3 DEF DynInv, DynTypes
    <2>5. ASSUME NEW b \in Actor PROVE TaskHasChild(b)'
      BY <1>1, <2>1, <2>3, b = a \/ b # a DEF DynInv, TaskHasChild
    <2>6. Starts(a, d)
      BY <2>2 DEF Starts
    <2>7. dynLife[d] # "none" /\ NotThere(d) /\ \A b \in Actor : Starts(b, d) => b = a
      BY <1>1, <2>6 DEF DynInv, StarterSound
    <2>8. ASSUME NEW b \in Actor, NEW c \in Child
          PROVE  /\ Starts(b, c)' => Starts(b, c) /\ b # a
                 /\ Took(b, c)' => Took(b, c)
                 /\ Indexes(b, c) => Indexes(b, c)'
      BY <2>1, <2>2, <2>3, b = a \/ b # a DEF Starts, Took, Indexes
    <2>9. \A c \in Child : c = d => Indexes(a, c)'
      BY <2>1, <2>3 DEF Indexes
    <2>10. ASSUME NEW c \in Child PROVE ChildSound(c)'
      <3>1. CASE c = d
        BY <2>2, <2>7, <2>9, <3>1 DEF DynInv, ChildSound, Unclaimed, NotThere
      <3>2. CASE c # d
        BY <2>2, <2>8, <3>2 DEF DynInv, ChildSound, Unclaimed, NotThere
      <3>3. QED
        BY <3>1, <3>2
    <2>11. ASSUME NEW b \in Actor, NEW c \in Child PROVE StarterSound(b, c)' /\ TakerSound(b, c)'
      <3>1. ASSUME Starts(b, c)' PROVE c # d
        BY <2>7, <2>8, <3>1
      <3>2. QED
        BY <2>2, <2>8, <3>1 DEF DynInv, StarterSound, TakerSound, NotThere, Unclaimed
    <2>12. QED
      BY <2>4, <2>5, <2>10, <2>11 DEF DynInv
  <1>4. ASSUME ChildIndexed(a) PROVE DynInv'
    <2>1. DynIdle \in DynTasks /\ DynIdle.at = "idle"
      BY DEF DynIdle, DynTasks, DynAt
    <2>2. DynGoto(a, DynIdle) /\ dynTask[a].at = "index" /\ monitorToPid' = monitorToPid \cup {d}
          /\ UNCHANGED <<children, dynLife, kind, claims>>
      BY <1>4 DEF ChildIndexed, Outside
    <2>3. /\ dynTask' \in [Actor -> DynTasks]
          /\ dynTask'[a] = DynIdle
          /\ \A b \in Actor : b # a => dynTask'[b] = dynTask[b]
      BY <2>1, <2>2, GotoEffect DEF DynInv
    <2>4. DynTypes'
      BY <1>1, <2>2, <2>3 DEF DynInv, DynTypes
    <2>5. ASSUME NEW b \in Actor PROVE TaskHasChild(b)'
      BY <2>1, <2>3, b = a \/ b # a DEF DynInv, TaskHasChild
    <2>6. ASSUME NEW b \in Actor, NEW c \in Child
          PROVE  /\ Starts(b, c)' => Starts(b, c)
                 /\ Took(b, c)' => Took(b, c)
                 /\ Indexes(b, c) => Indexes(b, c)' \/ c \in monitorToPid'
      BY <2>1, <2>2, <2>3, b = a \/ b # a DEF Starts, Took, Indexes
    <2>7. ASSUME NEW c \in Child PROVE ChildSound(c)'
      BY <2>2, <2>6 DEF DynInv, ChildSound, Unclaimed, NotThere
    <2>8. ASSUME NEW b \in Actor, NEW c \in Child PROVE StarterSound(b, c)' /\ TakerSound(b, c)'
      BY <2>2, <2>6 DEF DynInv, StarterSound, TakerSound, NotThere, Unclaimed
    <2>9. QED
      BY <2>4, <2>5, <2>7, <2>8 DEF DynInv
  <1>5. QED
    BY <1>2, <1>3, <1>4

\* What a child does, and the messages about it, concern dynLife at most.
LEMMA OutsideInv ==
    ASSUME DynInv, UNCHANGED <<children, monitorToPid, dynTask, kind, claims>>,
           dynLife' \in [Child -> {"none", "running", "ended"}],
           \A c \in Child : dynLife'[c] = "none" <=> dynLife[c] = "none"
    PROVE  DynInv'
  <1>1. DynTypes'
    BY DEF DynInv, DynTypes
  <1>2. ASSUME NEW b \in Actor, NEW c \in Child
        PROVE  /\ Starts(b, c)' <=> Starts(b, c)
               /\ Took(b, c)' <=> Took(b, c)
               /\ Indexes(b, c)' <=> Indexes(b, c)
    BY DEF Starts, Took, Indexes
  <1>3. ASSUME NEW b \in Actor PROVE TaskHasChild(b)'
    BY DEF DynInv, TaskHasChild
  <1>4. ASSUME NEW c \in Child PROVE ChildSound(c)'
    BY <1>2 DEF DynInv, ChildSound, Unclaimed, NotThere
  <1>5. ASSUME NEW b \in Actor, NEW c \in Child PROVE StarterSound(b, c)' /\ TakerSound(b, c)'
    BY <1>2 DEF DynInv, StarterSound, TakerSound, NotThere, Unclaimed
  <1>6. QED
    BY <1>1, <1>3, <1>4, <1>5 DEF DynInv

\* children.remove: who finds the child there has it, and no one had it before.
LEMMA ClaimEffect ==
    ASSUME DynInv, NEW d \in Child, Claim(d)
    PROVE  /\ children' = children \ {d}
           /\ claims' \in [Child -> Nat]
           /\ \A c \in Child : c # d => claims'[c] = claims[c]
           /\ IF d \in children THEN claims'[d] = 1 ELSE claims'[d] = claims[d]
  BY DEF DynInv, DynTypes, ChildSound, Unclaimed, Claim, Removed

LEMMA ClaimInv ==
    ASSUME DynInv, NEW d \in Child, Claim(d), NEW a \in Actor, NEW task \in DynTasks,
           DynGoto(a, task), dynTask[a].at = "idle",
           \/ task.at = "idle"
           \/ task.at \in {"restart", "unindex"} /\ task.child = d /\ d \in children,
           UNCHANGED <<monitorToPid, dynLife, kind>>
    PROVE  DynInv'
  <1>1. /\ dynTask' \in [Actor -> DynTasks]
        /\ dynTask'[a] = task
        /\ \A b \in Actor : b # a => dynTask'[b] = dynTask[b]
    BY GotoEffect DEF DynInv
  <1>2. /\ children' = children \ {d}
        /\ claims' \in [Child -> Nat]
        /\ \A c \in Child : c # d => claims'[c] = claims[c]
        /\ IF d \in children THEN claims'[d] = 1 ELSE claims'[d] = claims[d]
    BY ClaimEffect
  <1>3. DynTypes'
    BY <1>1, <1>2 DEF DynInv, DynTypes
  <1>4. ASSUME NEW b \in Actor PROVE TaskHasChild(b)'
    BY <1>1, b = a \/ b # a DEF DynInv, TaskHasChild
  <1>5. ASSUME NEW b \in Actor, NEW c \in Child
        PROVE  /\ Starts(b, c)' => Starts(b, c)
               /\ Took(b, c)' => Took(b, c) \/ (c = d /\ d \in children)
               /\ Indexes(b, c) => Indexes(b, c)'
    BY <1>1, b = a \/ b # a DEF Starts, Took, Indexes
  <1>6. ASSUME NEW c \in Child PROVE ChildSound(c)'
    <2>1. CASE c = d
      BY <1>2, <2>1 DEF DynInv, ChildSound, Unclaimed, NotThere
    <2>2. CASE c # d
      BY <1>2, <1>5, <2>2 DEF DynInv, ChildSound, Unclaimed, NotThere
    <2>3. QED
      BY <2>1, <2>2
  <1>7. ASSUME NEW b \in Actor, NEW c \in Child PROVE StarterSound(b, c)'
    <2>1. ASSUME Starts(b, c)' PROVE dynLife'[c] # "none" /\ NotThere(c)'
      BY <1>2, <1>5, <2>1, c = d \/ c # d DEF DynInv, StarterSound, NotThere, Unclaimed
    <2>2. ASSUME Starts(b, c)', NEW e \in Actor, Starts(e, c)' PROVE b = e
      BY <1>5, <2>2 DEF DynInv, StarterSound
    <2>3. QED
      BY <2>1, <2>2 DEF StarterSound
  <1>8. ASSUME NEW b \in Actor, NEW c \in Child, Took(b, c)' PROVE claims'[c] = 1
    <2>1. CASE c = d /\ d \in children
      BY <1>2, <2>1
    <2>2. CASE Took(b, c) /\ ~(c = d /\ d \in children)
      BY <1>2, <2>2 DEF DynInv, TakerSound
    <2>3. QED
      BY <1>5, <1>8, <2>1, <2>2
  <1>9. QED
    BY <1>3, <1>4, <1>6, <1>7, <1>8 DEF DynInv, TakerSound

LEMMA HandleDownInv ==
    ASSUME DynInv, NEW c \in Child, HandleDown(c)
    PROVE  DynInv'
  <1>1. Sup \in Actor /\ dynTask[Sup].at = "idle" /\ DynIdle \in DynTasks /\ DynIdle.at = "idle"
    BY DEF HandleDown, SupWaits, DynIdle, DynTasks, DynAt, Actor
  <1>2. CASE c \in monitorToPid /\ c \in children
    <2> DEFINE task == DynStep("restart", c, kind[c])
    <2>1. task \in DynTasks /\ task.at = "restart" /\ task.child = c
      BY DEF DynInv, DynTypes, DynStep, DynTasks, DynAt
    <2>2. Claim(c) /\ DynGoto(Sup, task) /\ UNCHANGED <<monitorToPid, dynLife, kind>>
      BY <1>2 DEF HandleDown
    <2> HIDE DEF task
    <2>3. QED
      BY <1>1, <1>2, <2>1, <2>2, ClaimInv
  <1>3. CASE c \in monitorToPid /\ c \notin children
    <2>1. Claim(c) /\ DynGoto(Sup, DynIdle) /\ UNCHANGED <<monitorToPid, dynLife, kind>>
      BY <1>3 DEF HandleDown
    <2>2. QED
      BY <1>1, <2>1, ClaimInv
  <1>4. CASE c \notin monitorToPid
    <2>1. UNCHANGED <<children, monitorToPid, dynTask, kind, claims, dynLife>>
      BY <1>4 DEF HandleDown
    <2>2. QED
      BY <2>1, OutsideInv DEF DynInv, DynTypes
  <1>5. QED
    BY <1>2, <1>3, <1>4

LEMMA TerminateChildInv ==
    ASSUME DynInv, NEW p \in Proc, NEW c \in Child, TerminateChild(p, c)
    PROVE  DynInv'
  <1> DEFINE task == DynStep("unindex", c, "none")
  <1>1. /\ p \in Actor /\ dynTask[p].at = "idle" /\ c \in children
        /\ task \in DynTasks /\ task.at = "unindex" /\ task.child = c
    BY DEF TerminateChild, DynIdleCaller, DynIdle, DynStep, DynTasks, DynAt, Actor
  <1>2. Claim(c) /\ DynGoto(p, task) /\ UNCHANGED <<monitorToPid, dynLife, kind>>
    BY DEF TerminateChild
  <1> HIDE DEF task
  <1>3. QED
    BY <1>1, <1>2, ClaimInv

(***************************************************************************)
(* Who took a child out takes it from the index too: it is not in children.*)
(***************************************************************************)
LEMMA UnindexInv ==
    ASSUME DynInv, NEW a \in Actor, NEW d \in Child, Took(a, d), NEW task \in DynTasks,
           DynGoto(a, task), task.at \in Childless,
           monitorToPid' = monitorToPid \ {d},
           UNCHANGED <<children, dynLife, kind, claims>>
    PROVE  DynInv'
  <1>1. /\ dynTask' \in [Actor -> DynTasks]
        /\ dynTask'[a] = task
        /\ \A b \in Actor : b # a => dynTask'[b] = dynTask[b]
    BY GotoEffect DEF DynInv
  <1>2. DynTypes'
    BY <1>1 DEF DynInv, DynTypes
  <1>3. ASSUME NEW b \in Actor PROVE TaskHasChild(b)'
    BY <1>1, b = a \/ b # a DEF DynInv, TaskHasChild, Childless
  <1>4. ASSUME NEW b \in Actor, NEW c \in Child
        PROVE  /\ Starts(b, c)' => Starts(b, c)
               /\ Took(b, c)' => Took(b, c)
               /\ Indexes(b, c) => Indexes(b, c)'
    BY <1>1, b = a \/ b # a DEF Starts, Took, Indexes, Childless
  <1>5. d \notin children
    BY DEF DynInv, TakerSound, ChildSound, Unclaimed
  <1>6. ASSUME NEW c \in Child PROVE ChildSound(c)'
    BY <1>4, <1>5 DEF DynInv, ChildSound, Unclaimed, NotThere
  <1>7. ASSUME NEW b \in Actor, NEW c \in Child PROVE StarterSound(b, c)' /\ TakerSound(b, c)'
    BY <1>4 DEF DynInv, StarterSound, TakerSound, NotThere, Unclaimed
  <1>8. QED
    BY <1>2, <1>3, <1>6, <1>7 DEF DynInv

LEMMA RestartInv == ASSUME DynInv, Restart PROVE DynInv'
  <1> DEFINE d == dynTask[Sup].child
  <1>1. Sup \in Actor /\ dynTask[Sup] \in DynTasks /\ d \in Child /\ Took(Sup, d)
    BY DEF Restart, DynInv, DynTypes, TaskHasChild, Took, Actor
  <1>2. /\ monitorToPid' = monitorToPid \ {d}
        /\ UNCHANGED <<children, dynLife, kind, claims>>
    BY DEF Restart
  <1>3. \E task \in {DynIdle, DynStep("drain", NoChild, "none"),
                     DynStep("start", NoChild, dynTask[Sup].kind)} : DynGoto(Sup, task)
    BY DEF Restart
  <1>4. \A task \in {DynIdle, DynStep("drain", NoChild, "none"),
                     DynStep("start", NoChild, dynTask[Sup].kind)} :
              task \in DynTasks /\ task.at \in Childless
    BY <1>1 DEF DynIdle, DynStep, DynTasks, DynAt, Childless
  <1> HIDE DEF d
  <1>5. QED
    BY <1>1, <1>2, <1>3, <1>4, UnindexInv

LEMMA TerminatedInv == ASSUME DynInv, NEW p \in Proc, Terminated(p) PROVE DynInv'
  <1> DEFINE d == dynTask[p].child
  <1>1. p \in Actor /\ d \in Child /\ Took(p, d)
    BY DEF Terminated, DynInv, TaskHasChild, Took, Actor
  <1>2. /\ monitorToPid' = monitorToPid \ {d} /\ DynGoto(p, DynIdle)
        /\ UNCHANGED <<children, dynLife, kind, claims>>
    BY DEF Terminated
  <1>3. DynIdle \in DynTasks /\ DynIdle.at \in Childless
    BY DEF DynIdle, DynTasks, DynAt, Childless
  <1> HIDE DEF d
  <1>4. QED
    BY <1>1, <1>2, <1>3, UnindexInv

(***************************************************************************)
(* stop and the end of the supervisor: what is in children goes at once,   *)
(* with its place in the index.                                            *)
(***************************************************************************)
LEMMA TakeAllInv ==
    ASSUME DynInv, TakeAll, UNCHANGED <<dynLife, kind>>,
           dynTask' \in [Actor -> DynTasks],
           \A a \in Actor : \/ dynTask'[a] = dynTask[a]
                            \/ dynTask'[a].at = "idle"
    PROVE  DynInv'
  <1>1. /\ children' = {} /\ monitorToPid' = monitorToPid \ children
        /\ claims' \in [Child -> Nat]
        /\ \A c \in Child : claims'[c] = IF c \in children THEN 1 ELSE claims[c]
    BY DEF TakeAll, DynInv, DynTypes, ChildSound, Unclaimed
  <1>2. DynTypes'
    BY <1>1 DEF DynInv, DynTypes
  <1>3. ASSUME NEW b \in Actor PROVE TaskHasChild(b)'
    BY DEF DynInv, TaskHasChild
  <1>4. ASSUME NEW b \in Actor, NEW c \in Child
        PROVE  (Starts(b, c)' => Starts(b, c)) /\ (Took(b, c)' => Took(b, c))
    BY DEF Starts, Took
  <1>5. ASSUME NEW c \in Child PROVE ChildSound(c)'
    BY <1>1 DEF DynInv, ChildSound, Unclaimed, NotThere
  <1>6. ASSUME NEW b \in Actor, NEW c \in Child PROVE StarterSound(b, c)'
    BY <1>1, <1>4 DEF DynInv, StarterSound, NotThere, Unclaimed
  <1>7. ASSUME NEW b \in Actor, NEW c \in Child PROVE TakerSound(b, c)'
    BY <1>1, <1>4 DEF DynInv, TakerSound
  <1>8. QED
    BY <1>2, <1>3, <1>5, <1>6, <1>7 DEF DynInv

LEMMA StopInv == ASSUME DynInv, NEW p \in Proc, Stop(p) PROVE DynInv'
  <1>1. CASE inTable
    BY <1>1, TakeAllInv DEF Stop, DynInv, DynTypes
  <1>2. CASE ~inTable
    BY <1>2, OutsideInv DEF Stop, DynInv, DynTypes
  <1>3. QED
    BY <1>1, <1>2

LEMMA SupEndsInv == ASSUME DynInv, SupEnds PROVE DynInv'
  <1>1. Sup \in Actor /\ DynIdle \in DynTasks /\ DynIdle.at = "idle"
    BY DEF DynIdle, DynTasks, DynAt, Actor
  <1>2. TakeAll /\ DynGoto(Sup, DynIdle) /\ UNCHANGED <<dynLife, kind>>
    BY DEF SupEnds
  <1>3. /\ dynTask' \in [Actor -> DynTasks]
        /\ dynTask'[Sup] = DynIdle
        /\ \A b \in Actor : b # Sup => dynTask'[b] = dynTask[b]
    BY <1>1, <1>2, GotoEffect DEF DynInv
  <1>4. QED
    BY <1>1, <1>2, <1>3, TakeAllInv

LEMMA DynNextInv == DynInv /\ [DynNext]_dynVars => DynInv'
  <1> SUFFICES ASSUME DynInv, [DynNext]_dynVars
               PROVE  DynInv'
    OBVIOUS
  <1>1. ASSUME NEW c \in Child, ChildEnds(c) \/ PassOn(c) PROVE DynInv'
    <2>1. UNCHANGED <<children, monitorToPid, dynTask, kind, claims>>
      BY <1>1 DEF ChildEnds, PassOn
    <2>2. /\ dynLife' \in [Child -> {"none", "running", "ended"}]
          /\ \A d \in Child : dynLife'[d] = "none" <=> dynLife[d] = "none"
      BY <1>1 DEF ChildEnds, PassOn, DynInv, DynTypes
    <2>3. QED
      BY <2>1, <2>2, OutsideInv
  <1>2. CASE UNCHANGED dynVars
    BY <1>2, OutsideInv DEF dynVars, DynInv, DynTypes
  <1>3. QED
    BY <1>1, <1>2, StartChildInv, TerminateChildInv, TerminatedInv, StopInv, ChildStartedInv,
       AdvanceInv, HandleDownInv, RestartInv, SupEndsInv DEF DynNext

(***************************************************************************)
(* ChildIsClaimedOnce, for every number of callers and children and every  *)
(* intensity, whether the callers pass DOWN on or not: of the operations   *)
(* and the exits that want a child one takes it out of children, and one   *)
(* between operations is in the index.                                     *)
(***************************************************************************)
THEOREM ChildrenAreClaimedOnce == DynSpec => []ChildIsClaimedOnce
  <1>1. ASSUME DynInv PROVE ChildIsClaimedOnce
    <2>1. \A c \in Child : claims[c] <= 1
      BY <1>1 DEF DynInv, ChildSound
    <2>2. ASSUME \A a \in Actor : dynTask[a] = DynIdle, NEW c \in children
          PROVE  c \in monitorToPid
      BY <1>1, <2>2 DEF DynInv, DynTypes, ChildSound, Indexes, DynIdle
    <2>3. QED
      BY <2>1, <2>2 DEF ChildIsClaimedOnce
  <1>2. QED
    BY <1>1, DynInitInv, DynNextInv, PTL DEF DynSpec

-----------------------------------------------------------------------------
(***************************************************************************)
(* StoreOwners.  Only the creator of a store gives it away, and only while *)
(* it owns it.  As long as it lives, the store is on the way to its owner  *)
(* and to nobody else, so no step takes it off its owner's list for good;  *)
(* once the creator is dead, what is taken off the list of the dead does   *)
(* not matter to a live owner.                                             *)
(***************************************************************************)
OwnerTasks == [op : StoreOp, id : Store \cup {NoOne}, from : Owners \cup {NoOne},
               to : Owners \cup {NoOne}, rest : SUBSET Store]

OwnerTypes ==
    /\ stores \subseteq Store
    /\ storeOwner \in [Store -> Owners \cup {NoOne}]
    /\ storeHeir \in [Store -> Owners \cup {NoOne}]
    /\ storeName \in [Store -> StoreName \cup {NoOne}]
    /\ names \in [StoreName -> Store \cup {NoOne}]
    /\ byOwner \in [Owners -> SUBSET Store]
    /\ creator \in [Store -> Owners \cup {NoOne}]
    /\ storeAlive \subseteq Owners
    /\ storeTask \in [Owners -> OwnerTasks]

\* What p is doing, by what its operation needs of it.
TaskSound(p) ==
    LET task == storeTask[p] IN
    /\ task.op \notin {"idle", "cleanup", "over"} => task.id \in Store
    /\ task.op \in {"name", "list", "unlist", "transfer"} => task.to \in Owners
    /\ task.op \in {"unlist", "transfer"} => task.from = p
    /\ task.op \notin {"idle", "name", "unlist", "list"} => p \notin storeAlive
    /\ task.op \in {"unlist", "list"} /\ p \in storeAlive => creator[task.id] = p
    /\ task.op = "name" => /\ p \in storeAlive /\ task.to = p /\ creator[task.id] = p
                           /\ task.id \in stores /\ storeOwner[task.id] = p
    /\ task.op \in {"unname", "drop"} => task.id \notin stores
    /\ task.id \notin task.rest
    /\ p \in storeAlive => task.rest = {}

\* A dying r may take s from its owner; p will list s for r.
Claims(r, s) ==
    \/ r \in storeAlive /\ s \in byOwner[r]
    \/ s \in storeTask[r].rest
    \/ storeTask[r].op \in {"transfer", "unregister"} /\ storeTask[r].id = s
WillList(p, s, r) ==
    storeTask[p].op \in {"name", "unlist", "list"} /\ storeTask[p].id = s /\ storeTask[p].to = r

OwnerIsListed(s) ==
    s \in stores /\ storeOwner[s] \in storeAlive =>
        s \in byOwner[storeOwner[s]] \/ \E p \in Owners : WillList(p, s, storeOwner[s])

Unmade(s) ==
    creator[s] = NoOne =>
        /\ s \notin stores
        /\ \A p \in Owners : s \notin byOwner[p] /\ s \notin storeTask[p].rest /\ storeTask[p].id # s
        /\ \A n \in StoreName : names[n] # s

OnlyOwner(r, s) ==
    s \in stores /\ creator[s] \in storeAlive /\ r # creator[s] =>
        /\ Claims(r, s) => storeOwner[s] = r
        /\ r \in storeAlive => \A p \in Owners : WillList(p, s, r) => storeOwner[s] = r

\* While p gives its store away, nobody else is about to get or to take it.
GivesAlone(p) ==
    LET s == storeTask[p].id IN
    storeTask[p].op = "unlist" /\ p \in storeAlive /\ s \in stores =>
        /\ storeOwner[s] = storeTask[p].to
        /\ \A r \in Owners \ {p} :
              ~Claims(r, s) /\ (r \in storeAlive => \A q \in Owners \ {p} : ~WillList(q, s, r))

NameLeads(n) ==
    names[n] # NoOne =>
        /\ storeName[names[n]] = n
        /\ names[n] \in stores
               \/ \E p \in Owners : storeTask[p].op = "unname" /\ storeTask[p].id = names[n]

OwnersInv ==
    /\ OwnerTypes
    /\ \A p \in Owners : TaskSound(p) /\ GivesAlone(p)
    /\ \A s \in Store : OwnerIsListed(s) /\ Unmade(s)
    /\ \A r \in Owners, s \in Store : OnlyOwner(r, s)
    /\ \A n \in StoreName : NameLeads(n)

USE OwnersAssumption

LEMMA OwnersInitInv == StoreInit => OwnersInv
  <1> SUFFICES ASSUME StoreInit PROVE OwnersInv
    OBVIOUS
  <1>1. OwnerTypes
    BY DEF StoreInit, OwnerTypes, OwnerTasks, IdleTask, Task, StoreOp
  <1>2. \A p \in Owners : TaskSound(p) /\ GivesAlone(p)
    BY DEF StoreInit, TaskSound, GivesAlone, IdleTask, Task
  <1>3. \A s \in Store : OwnerIsListed(s) /\ Unmade(s)
    BY DEF StoreInit, OwnerIsListed, Unmade, IdleTask, Task
  <1>4. \A r \in Owners, s \in Store : OnlyOwner(r, s)
    BY DEF StoreInit, OnlyOwner
  <1>5. \A n \in StoreName : NameLeads(n)
    BY DEF StoreInit, NameLeads
  <1>6. QED
    BY <1>1, <1>2, <1>3, <1>4, <1>5 DEF OwnersInv

\* One process goes on with its task; the others are where they were.
LEMMA BecomeOne ==
    ASSUME storeTask \in [Owners -> OwnerTasks], NEW p \in Owners, NEW t \in OwnerTasks, Become(p, t)
    PROVE  /\ storeTask' \in [Owners -> OwnerTasks]
           /\ storeTask'[p] = t
           /\ \A q \in Owners : q # p => storeTask'[q] = storeTask[q]
  BY DEF Become

LEMMA ResumeTask ==
    ASSUME OwnerTypes, NEW p \in Owners
    PROVE  /\ Resume(p) \in OwnerTasks
           /\ Resume(p).id = NoOne
           /\ NoOne \notin Resume(p).rest
           /\ p \in storeAlive => Resume(p).op = "idle" /\ Resume(p).rest = {}
           /\ p \notin storeAlive => Resume(p).op = "cleanup" /\ Resume(p).rest = storeTask[p].rest
  BY DEF OwnerTypes, Resume, IdleTask, CleanupTask, Task, OwnerTasks, StoreOp

\* A dying p turns to one of its stores.
TakesNext(p, s, t) ==
    /\ storeTask[p].op = "cleanup" /\ s \in storeTask[p].rest
    /\ t.id = s /\ t.rest = storeTask[p].rest \ {s} /\ t.op \in {"transfer", "unregister"}
    /\ t.from = p /\ t.to \in Owners
    /\ Become(p, t)
    /\ UNCHANGED <<stores, storeOwner, storeHeir, storeName, names, byOwner, creator, storeAlive>>

LEMMA NewStoreInv ==
    ASSUME OwnersInv, NEW p \in Owners, NEW s \in Store,
           NEW called \in StoreName \cup {NoOne}, NEW heir \in Owners \cup {NoOne}, NewStore(p, s,
           called, heir)
    PROVE  OwnersInv'
  <1>1. OwnerTypes /\ TaskSound(p)
    BY DEF OwnersInv
  <1>2. PICK t : t = Task("name", s, p, p, {})
    OBVIOUS
  <1>3. p \in storeAlive /\ storeTask[p].op = "idle" /\ creator[s] = NoOne
    BY DEF NewStore, Idle
  <1>4. /\ stores' = stores \cup {s}
        /\ creator' = [creator EXCEPT ![s] = p] /\ storeOwner' = [storeOwner EXCEPT ![s] = p]
        /\ storeHeir' = [storeHeir EXCEPT ![s] = heir] /\ storeName' = [storeName EXCEPT ![s] = called]
        /\ names' = names /\ byOwner' = byOwner /\ storeAlive' = storeAlive
    BY DEF NewStore, Idle
  <1>5. t \in OwnerTasks /\ t.op = "name" /\ t.id = s /\ t.to = p /\ t.rest = {}
    BY <1>1, <1>2, <1>3, ResumeTask
       DEF Task, IdleTask, CleanupTask, OwnerTasks, StoreOp, OwnerTypes, TaskSound
  <1>6. /\ storeTask' \in [Owners -> OwnerTasks]
        /\ storeTask'[p] = t /\ \A q \in Owners : q # p => storeTask'[q] = storeTask[q]
    BY <1>1, <1>5, BecomeOne, <1>2 DEF OwnerTypes, NewStore, Idle
  <1>7. Unmade(s)
    BY <1>1, <1>3 DEF OwnersInv, TaskSound
  <1>8. OwnerTypes'
    BY <1>1, <1>3, <1>4, <1>5, <1>6, <1>7 DEF OwnerTypes, TaskSound
  <1>9. ASSUME NEW q \in Owners PROVE TaskSound(q)'
    <2>1. TaskSound(q)
      BY DEF OwnersInv
    <2>2. CASE q = p
      BY <1>1, <1>3, <1>4, <1>5, <1>6, <1>7, <2>1, <2>2 DEF TaskSound, OwnerTypes
    <2>3. CASE q # p
      BY <1>1, <1>3, <1>4, <1>5, <1>6, <1>7, <2>1, <2>3 DEF TaskSound, OwnerTypes, Unmade
    <2>4. QED
      BY <2>2, <2>3
  <1>10. ASSUME NEW b \in Store PROVE OwnerIsListed(b)'
    <2>1. OwnerIsListed(b)
      BY DEF OwnersInv
    <2>2. QED
      BY <1>1, <1>3, <1>4, <1>5, <1>6, <1>7, <2>1
         DEF OwnerIsListed, WillList, TaskSound, OwnerTypes, Unmade
  <1>11. ASSUME NEW b \in Store PROVE Unmade(b)'
    <2>1. Unmade(b)
      BY DEF OwnersInv
    <2>2. QED
      BY <1>1, <1>3, <1>4, <1>5, <1>6, <1>7, <2>1 DEF Unmade, TaskSound, OwnerTypes
  <1>12. ASSUME NEW r \in Owners, NEW b \in Store PROVE OnlyOwner(r, b)'
    <2>1. OnlyOwner(r, b) /\ Unmade(b)
      BY DEF OwnersInv
    <2>2. QED
      BY <1>1, <1>3, <1>4, <1>5, <1>6, <1>7, <2>1
         DEF OnlyOwner, Claims, WillList, Unmade, TaskSound, OwnerTypes
  <1>13. ASSUME NEW q \in Owners PROVE GivesAlone(q)'
    <2>1. GivesAlone(q) /\ TaskSound(q)
      BY DEF OwnersInv
    <2>2. QED
      BY <1>1, <1>3, <1>4, <1>5, <1>6, <1>7, <2>1
         DEF GivesAlone, Claims, WillList, TaskSound, OwnerTypes, Unmade
  <1>14. ASSUME NEW n \in StoreName PROVE NameLeads(n)'
    <2>1. NameLeads(n)
      BY DEF OwnersInv
    <2>2. QED
      BY <1>1, <1>3, <1>4, <1>5, <1>6, <1>7, <2>1 DEF NameLeads, TaskSound, OwnerTypes, Unmade
  <1>15. QED
    BY <1>8, <1>9, <1>10, <1>11, <1>12, <1>13, <1>14 DEF OwnersInv

LEMMA RegisterNameInv ==
    ASSUME OwnersInv, NEW p \in Owners, RegisterName(p)
    PROVE  OwnersInv'
  <1>1. OwnerTypes /\ TaskSound(p)
    BY DEF OwnersInv
  <1>2. PICK t : t = [storeTask[p] EXCEPT !.op = "list"]
    OBVIOUS
  <1>3. storeTask[p].op = "name"
    BY DEF RegisterName
  <1>4. /\ names' = [n \in StoreName |-> IF n = storeName[storeTask[p].id]
                                         THEN storeTask[p].id
                                         ELSE names[n]]
        /\ UNCHANGED <<stores, storeOwner, storeHeir, storeName, byOwner, creator, storeAlive>>
    BY DEF RegisterName
  <1>5. t \in OwnerTasks /\ t.op = "list" /\ t.id = storeTask[p].id /\ t.from = storeTask[p].from
        /\ t.to = storeTask[p].to /\ t.rest = storeTask[p].rest
    BY <1>1, <1>2, <1>3, ResumeTask
       DEF Task, IdleTask, CleanupTask, OwnerTasks, StoreOp, OwnerTypes, TaskSound
  <1>6. /\ storeTask' \in [Owners -> OwnerTasks]
        /\ storeTask'[p] = t /\ \A q \in Owners : q # p => storeTask'[q] = storeTask[q]
    BY <1>1, <1>5, BecomeOne, <1>2 DEF OwnerTypes, RegisterName
  <1>7. OwnerTypes'
    BY <1>1, <1>3, <1>4, <1>5, <1>6 DEF OwnerTypes, TaskSound
  <1>8. ASSUME NEW q \in Owners PROVE TaskSound(q)'
    <2>1. TaskSound(q)
      BY DEF OwnersInv
    <2>2. CASE q = p
      BY <1>1, <1>3, <1>4, <1>5, <1>6, <2>1, <2>2 DEF TaskSound, OwnerTypes
    <2>3. CASE q # p
      BY <1>1, <1>3, <1>4, <1>5, <1>6, <2>1, <2>3 DEF TaskSound, OwnerTypes
    <2>4. QED
      BY <2>2, <2>3
  <1>9. ASSUME NEW b \in Store PROVE OwnerIsListed(b)'
    <2>1. OwnerIsListed(b)
      BY DEF OwnersInv
    <2>2. QED
      BY <1>1, <1>3, <1>4, <1>5, <1>6, <2>1 DEF OwnerIsListed, WillList, TaskSound, OwnerTypes
  <1>10. ASSUME NEW b \in Store PROVE Unmade(b)'
    <2>1. Unmade(b)
      BY DEF OwnersInv
    <2>2. QED
      BY <1>1, <1>3, <1>4, <1>5, <1>6, <2>1 DEF Unmade, TaskSound, OwnerTypes
  <1>11. ASSUME NEW r \in Owners, NEW b \in Store PROVE OnlyOwner(r, b)'
    <2>1. OnlyOwner(r, b) /\ Unmade(b)
      BY DEF OwnersInv
    <2>2. QED
      BY <1>1, <1>3, <1>4, <1>5, <1>6, <2>1
         DEF OnlyOwner, Claims, WillList, Unmade, TaskSound, OwnerTypes
  <1>12. ASSUME NEW q \in Owners PROVE GivesAlone(q)'
    <2>1. GivesAlone(q) /\ TaskSound(q)
      BY DEF OwnersInv
    <2>2. QED
      BY <1>1, <1>3, <1>4, <1>5, <1>6, <2>1
         DEF GivesAlone, Claims, WillList, TaskSound, OwnerTypes
  <1>13. ASSUME NEW n \in StoreName PROVE NameLeads(n)'
    <2>1. NameLeads(n)
      BY DEF OwnersInv
    <2>2. QED
      BY <1>1, <1>3, <1>4, <1>5, <1>6, <2>1 DEF NameLeads, TaskSound, OwnerTypes
  <1>14. QED
    BY <1>7, <1>8, <1>9, <1>10, <1>11, <1>12, <1>13 DEF OwnersInv

LEMMA AddToOwnerInv ==
    ASSUME OwnersInv, NEW p \in Owners, AddToOwner(p)
    PROVE  OwnersInv'
  <1>1. OwnerTypes /\ TaskSound(p)
    BY DEF OwnersInv
  <1>2. PICK t : t = Resume(p)
    OBVIOUS
  <1>3. storeTask[p].op = "list"
    BY DEF AddToOwner
  <1>4. /\ byOwner' = [byOwner EXCEPT ![storeTask[p].to] = @ \cup {storeTask[p].id}]
        /\ UNCHANGED <<stores, storeOwner, storeHeir, storeName, names, creator, storeAlive>>
    BY DEF AddToOwner
  <1>5. t \in OwnerTasks /\ t.id = NoOne /\ t.id \notin t.rest
        /\ (p \in storeAlive => t.op = "idle" /\ t.rest = {})
        /\ (p \notin storeAlive => t.op = "cleanup" /\ t.rest = storeTask[p].rest)
    BY <1>1, <1>2, <1>3, ResumeTask
       DEF Task, IdleTask, CleanupTask, OwnerTasks, StoreOp, OwnerTypes, TaskSound
  <1>6. /\ storeTask' \in [Owners -> OwnerTasks]
        /\ storeTask'[p] = t /\ \A q \in Owners : q # p => storeTask'[q] = storeTask[q]
    BY <1>1, <1>5, BecomeOne, <1>2 DEF OwnerTypes, AddToOwner
  <1>7. OwnerTypes'
    BY <1>1, <1>3, <1>4, <1>5, <1>6 DEF OwnerTypes, TaskSound
  <1>8. ASSUME NEW q \in Owners PROVE TaskSound(q)'
    <2>1. TaskSound(q)
      BY DEF OwnersInv
    <2>2. CASE q = p
      BY <1>1, <1>3, <1>4, <1>5, <1>6, <2>1, <2>2 DEF TaskSound, OwnerTypes
    <2>3. CASE q # p
      BY <1>1, <1>3, <1>4, <1>5, <1>6, <2>1, <2>3 DEF TaskSound, OwnerTypes
    <2>4. QED
      BY <2>2, <2>3
  <1>9. ASSUME NEW b \in Store PROVE OwnerIsListed(b)'
    <2>1. OwnerIsListed(b)
      BY DEF OwnersInv
    <2>2. QED
      BY <1>1, <1>3, <1>4, <1>5, <1>6, <2>1 DEF OwnerIsListed, WillList, TaskSound, OwnerTypes
  <1>10. ASSUME NEW b \in Store PROVE Unmade(b)'
    <2>1. Unmade(b)
      BY DEF OwnersInv
    <2>2. QED
      BY <1>1, <1>3, <1>4, <1>5, <1>6, <2>1 DEF Unmade, TaskSound, OwnerTypes
  <1>11. ASSUME NEW r \in Owners, NEW b \in Store PROVE OnlyOwner(r, b)'
    <2>1. OnlyOwner(r, b) /\ Unmade(b)
      BY DEF OwnersInv
    <2>2. QED
      BY <1>1, <1>3, <1>4, <1>5, <1>6, <2>1
         DEF OnlyOwner, Claims, WillList, Unmade, TaskSound, OwnerTypes
  <1>12. ASSUME NEW q \in Owners PROVE GivesAlone(q)'
    <2>1. GivesAlone(q) /\ TaskSound(q)
      BY DEF OwnersInv
    <2>2. QED
      BY <1>1, <1>3, <1>4, <1>5, <1>6, <2>1
         DEF GivesAlone, Claims, WillList, TaskSound, OwnerTypes
  <1>13. ASSUME NEW n \in StoreName PROVE NameLeads(n)'
    <2>1. NameLeads(n)
      BY DEF OwnersInv
    <2>2. QED
      BY <1>1, <1>3, <1>4, <1>5, <1>6, <2>1 DEF NameLeads, TaskSound, OwnerTypes
  <1>14. QED
    BY <1>7, <1>8, <1>9, <1>10, <1>11, <1>12, <1>13 DEF OwnersInv

LEMMA GiveAwayInv ==
    ASSUME OwnersInv, NEW p \in Owners, NEW s \in Store,
           NEW new \in Owners, OwnersGive, GiveAway(p, s, new)
    PROVE  OwnersInv'
  <1>1. OwnerTypes /\ TaskSound(p)
    BY DEF OwnersInv
  <1>2. PICK t : t = Task("unlist", s, p, new, {})
    OBVIOUS
  <1>3. p \in storeAlive /\ storeTask[p].op = "idle" /\ creator[s] = p /\ storeOwner[s] = p
    BY DEF GiveAway, Idle, SetOwner
  <1>4. /\ storeOwner' = IF s \in stores THEN [storeOwner EXCEPT ![s] = new] ELSE storeOwner
        /\ UNCHANGED <<stores, storeHeir, storeName, names, byOwner, creator, storeAlive>>
    BY DEF GiveAway, Idle, SetOwner
  <1>5. t \in OwnerTasks /\ t.op = "unlist" /\ t.id = s /\ t.from = p /\ t.to = new /\ t.rest = {}
    BY <1>1, <1>2, <1>3, ResumeTask
       DEF Task, IdleTask, CleanupTask, OwnerTasks, StoreOp, OwnerTypes, TaskSound
  <1>6. /\ storeTask' \in [Owners -> OwnerTasks]
        /\ storeTask'[p] = t /\ \A q \in Owners : q # p => storeTask'[q] = storeTask[q]
    BY <1>1, <1>5, BecomeOne, <1>2 DEF OwnerTypes, GiveAway, Idle, SetOwner
  <1>7. \A r \in Owners : OnlyOwner(r, s)
    BY <1>1, <1>3 DEF OwnersInv, TaskSound
  <1>8. OwnerTypes'
    BY <1>1, <1>3, <1>4, <1>5, <1>6, <1>7 DEF OwnerTypes, TaskSound
  <1>9. ASSUME NEW q \in Owners PROVE TaskSound(q)'
    <2>1. TaskSound(q)
      BY DEF OwnersInv
    <2>2. CASE q = p
      BY <1>1, <1>3, <1>4, <1>5, <1>6, <1>7, <2>1, <2>2 DEF TaskSound, OwnerTypes
    <2>3. CASE q # p
      BY <1>1, <1>3, <1>4, <1>5, <1>6, <1>7, <2>1, <2>3 DEF TaskSound, OwnerTypes, OnlyOwner
    <2>4. QED
      BY <2>2, <2>3
  <1>10. ASSUME NEW b \in Store PROVE OwnerIsListed(b)'
    <2>1. OwnerIsListed(b)
      BY DEF OwnersInv
    <2>2. QED
      BY <1>1, <1>3, <1>4, <1>5, <1>6, <1>7, <2>1
         DEF OwnerIsListed, WillList, TaskSound, OwnerTypes, OnlyOwner
  <1>11. ASSUME NEW b \in Store PROVE Unmade(b)'
    <2>1. Unmade(b)
      BY DEF OwnersInv
    <2>2. QED
      BY <1>1, <1>3, <1>4, <1>5, <1>6, <1>7, <2>1 DEF Unmade, TaskSound, OwnerTypes
  <1>12. ASSUME NEW r \in Owners, NEW b \in Store PROVE OnlyOwner(r, b)'
    <2>1. OnlyOwner(r, b) /\ Unmade(b)
      BY DEF OwnersInv
    <2>2. QED
      BY <1>1, <1>3, <1>4, <1>5, <1>6, <1>7, <2>1
         DEF OnlyOwner, Claims, WillList, Unmade, TaskSound, OwnerTypes
  <1>13. ASSUME NEW q \in Owners PROVE GivesAlone(q)'
    <2>1. GivesAlone(q) /\ TaskSound(q)
      BY DEF OwnersInv
    <2>2. QED
      BY <1>1, <1>3, <1>4, <1>5, <1>6, <1>7, <2>1
         DEF GivesAlone, Claims, WillList, TaskSound, OwnerTypes, OnlyOwner
  <1>14. ASSUME NEW n \in StoreName PROVE NameLeads(n)'
    <2>1. NameLeads(n)
      BY DEF OwnersInv
    <2>2. QED
      BY <1>1, <1>3, <1>4, <1>5, <1>6, <1>7, <2>1 DEF NameLeads, TaskSound, OwnerTypes, OnlyOwner
  <1>15. QED
    BY <1>8, <1>9, <1>10, <1>11, <1>12, <1>13, <1>14 DEF OwnersInv

LEMMA RemoveFromOwnerInv ==
    ASSUME OwnersInv, NEW p \in Owners, RemoveFromOwner(p)
    PROVE  OwnersInv'
  <1>1. OwnerTypes /\ TaskSound(p)
    BY DEF OwnersInv
  <1>2. PICK t : t = [storeTask[p] EXCEPT !.op = "list"]
    OBVIOUS
  <1>3. storeTask[p].op = "unlist"
    BY DEF RemoveFromOwner
  <1>4. /\ byOwner' = [byOwner EXCEPT ![storeTask[p].from] = @ \ {storeTask[p].id}]
        /\ UNCHANGED <<stores, storeOwner, storeHeir, storeName, names, creator, storeAlive>>
    BY DEF RemoveFromOwner
  <1>5. t \in OwnerTasks /\ t.op = "list" /\ t.id = storeTask[p].id /\ t.from = storeTask[p].from
        /\ t.to = storeTask[p].to /\ t.rest = storeTask[p].rest
    BY <1>1, <1>2, <1>3, ResumeTask
       DEF Task, IdleTask, CleanupTask, OwnerTasks, StoreOp, OwnerTypes, TaskSound
  <1>6. /\ storeTask' \in [Owners -> OwnerTasks]
        /\ storeTask'[p] = t /\ \A q \in Owners : q # p => storeTask'[q] = storeTask[q]
    BY <1>1, <1>5, BecomeOne, <1>2 DEF OwnerTypes, RemoveFromOwner
  <1>7. GivesAlone(p)
    BY <1>1, <1>3 DEF OwnersInv, TaskSound
  <1>8. OwnerTypes'
    BY <1>1, <1>3, <1>4, <1>5, <1>6, <1>7 DEF OwnerTypes, TaskSound
  <1>9. ASSUME NEW q \in Owners PROVE TaskSound(q)'
    <2>1. TaskSound(q)
      BY DEF OwnersInv
    <2>2. CASE q = p
      BY <1>1, <1>3, <1>4, <1>5, <1>6, <1>7, <2>1, <2>2 DEF TaskSound, OwnerTypes
    <2>3. CASE q # p
      BY <1>1, <1>3, <1>4, <1>5, <1>6, <1>7, <2>1, <2>3 DEF TaskSound, OwnerTypes, GivesAlone
    <2>4. QED
      BY <2>2, <2>3
  <1>10. ASSUME NEW b \in Store PROVE OwnerIsListed(b)'
    <2>1. OwnerIsListed(b)
      BY DEF OwnersInv
    <2>2. QED
      BY <1>1, <1>3, <1>4, <1>5, <1>6, <1>7, <2>1
         DEF OwnerIsListed, WillList, TaskSound, OwnerTypes, GivesAlone
  <1>11. ASSUME NEW b \in Store PROVE Unmade(b)'
    <2>1. Unmade(b)
      BY DEF OwnersInv
    <2>2. QED
      BY <1>1, <1>3, <1>4, <1>5, <1>6, <1>7, <2>1 DEF Unmade, TaskSound, OwnerTypes
  <1>12. ASSUME NEW r \in Owners, NEW b \in Store PROVE OnlyOwner(r, b)'
    <2>1. OnlyOwner(r, b) /\ Unmade(b)
      BY DEF OwnersInv
    <2>2. QED
      BY <1>1, <1>3, <1>4, <1>5, <1>6, <1>7, <2>1
         DEF OnlyOwner, Claims, WillList, Unmade, TaskSound, OwnerTypes
  <1>13. ASSUME NEW q \in Owners PROVE GivesAlone(q)'
    <2>1. GivesAlone(q) /\ TaskSound(q)
      BY DEF OwnersInv
    <2>2. QED
      BY <1>1, <1>3, <1>4, <1>5, <1>6, <1>7, <2>1
         DEF GivesAlone, Claims, WillList, TaskSound, OwnerTypes
  <1>14. ASSUME NEW n \in StoreName PROVE NameLeads(n)'
    <2>1. NameLeads(n)
      BY DEF OwnersInv
    <2>2. QED
      BY <1>1, <1>3, <1>4, <1>5, <1>6, <1>7, <2>1 DEF NameLeads, TaskSound, OwnerTypes, GivesAlone
  <1>15. QED
    BY <1>8, <1>9, <1>10, <1>11, <1>12, <1>13, <1>14 DEF OwnersInv

LEMMA CleanupBeginsInv ==
    ASSUME OwnersInv, NEW p \in Owners, CleanupBegins(p)
    PROVE  OwnersInv'
  <1>1. OwnerTypes /\ TaskSound(p)
    BY DEF OwnersInv
  <1>2. PICK t : t = CleanupTask(byOwner[p])
    OBVIOUS
  <1>3. p \in storeAlive /\ storeTask[p].op = "idle"
    BY DEF CleanupBegins, Idle
  <1>4. /\ storeAlive' = storeAlive \ {p}
        /\ UNCHANGED <<stores, storeOwner, storeHeir, storeName, names, byOwner, creator>>
    BY DEF CleanupBegins, Idle
  <1>5. t \in OwnerTasks /\ t.op = "cleanup" /\ t.id = NoOne /\ t.rest = byOwner[p]
    BY <1>1, <1>2, <1>3, ResumeTask
       DEF Task, IdleTask, CleanupTask, OwnerTasks, StoreOp, OwnerTypes, TaskSound
  <1>6. /\ storeTask' \in [Owners -> OwnerTasks]
        /\ storeTask'[p] = t /\ \A q \in Owners : q # p => storeTask'[q] = storeTask[q]
    BY <1>1, <1>5, BecomeOne, <1>2 DEF OwnerTypes, CleanupBegins, Idle
  <1>7. OwnerTypes'
    BY <1>1, <1>3, <1>4, <1>5, <1>6 DEF OwnerTypes, TaskSound
  <1>8. ASSUME NEW q \in Owners PROVE TaskSound(q)'
    <2>1. TaskSound(q)
      BY DEF OwnersInv
    <2>2. CASE q = p
      BY <1>1, <1>3, <1>4, <1>5, <1>6, <2>1, <2>2 DEF TaskSound, OwnerTypes
    <2>3. CASE q # p
      BY <1>1, <1>3, <1>4, <1>5, <1>6, <2>1, <2>3 DEF TaskSound, OwnerTypes
    <2>4. QED
      BY <2>2, <2>3
  <1>9. ASSUME NEW b \in Store PROVE OwnerIsListed(b)'
    <2>1. OwnerIsListed(b)
      BY DEF OwnersInv
    <2>2. QED
      BY <1>1, <1>3, <1>4, <1>5, <1>6, <2>1 DEF OwnerIsListed, WillList, TaskSound, OwnerTypes
  <1>10. ASSUME NEW b \in Store PROVE Unmade(b)'
    <2>1. Unmade(b)
      BY DEF OwnersInv
    <2>2. QED
      BY <1>1, <1>3, <1>4, <1>5, <1>6, <2>1 DEF Unmade, TaskSound, OwnerTypes
  <1>11. ASSUME NEW r \in Owners, NEW b \in Store PROVE OnlyOwner(r, b)'
    <2>1. OnlyOwner(r, b) /\ Unmade(b)
      BY DEF OwnersInv
    <2>2. QED
      BY <1>1, <1>3, <1>4, <1>5, <1>6, <2>1
         DEF OnlyOwner, Claims, WillList, Unmade, TaskSound, OwnerTypes
  <1>12. ASSUME NEW q \in Owners PROVE GivesAlone(q)'
    <2>1. GivesAlone(q) /\ TaskSound(q)
      BY DEF OwnersInv
    <2>2. QED
      BY <1>1, <1>3, <1>4, <1>5, <1>6, <2>1
         DEF GivesAlone, Claims, WillList, TaskSound, OwnerTypes
  <1>13. ASSUME NEW n \in StoreName PROVE NameLeads(n)'
    <2>1. NameLeads(n)
      BY DEF OwnersInv
    <2>2. QED
      BY <1>1, <1>3, <1>4, <1>5, <1>6, <2>1 DEF NameLeads, TaskSound, OwnerTypes
  <1>14. QED
    BY <1>7, <1>8, <1>9, <1>10, <1>11, <1>12, <1>13 DEF OwnersInv

LEMMA CleanupNextInv ==
    ASSUME OwnersInv, NEW p \in Owners, NEW s \in Store,
           NEW t \in OwnerTasks, TakesNext(p, s, t)
    PROVE  OwnersInv'
  <1>1. OwnerTypes /\ TaskSound(p)
    BY DEF OwnersInv
  <1>2. storeTask[p].op = "cleanup" /\ s \in storeTask[p].rest
    BY DEF TakesNext
  <1>3. /\ t.id = s /\ t.rest = storeTask[p].rest \ {s} /\ t.op \in {"transfer", "unregister"}
        /\ t.from = p /\ t.to \in Owners
        /\ UNCHANGED <<stores, storeOwner, storeHeir, storeName, names, byOwner, creator, storeAlive>>
    BY DEF TakesNext
  <1>4. t \in OwnerTasks
    OBVIOUS
  <1>5. /\ storeTask' \in [Owners -> OwnerTasks]
        /\ storeTask'[p] = t /\ \A q \in Owners : q # p => storeTask'[q] = storeTask[q]
    BY <1>1, <1>4, BecomeOne, <1>1 DEF OwnerTypes, TakesNext
  <1>6. OwnerTypes'
    BY <1>1, <1>2, <1>3, <1>4, <1>5 DEF OwnerTypes, TaskSound
  <1>7. ASSUME NEW q \in Owners PROVE TaskSound(q)'
    <2>1. TaskSound(q)
      BY DEF OwnersInv
    <2>2. CASE q = p
      BY <1>1, <1>2, <1>3, <1>4, <1>5, <2>1, <2>2 DEF TaskSound, OwnerTypes
    <2>3. CASE q # p
      BY <1>1, <1>2, <1>3, <1>4, <1>5, <2>1, <2>3 DEF TaskSound, OwnerTypes
    <2>4. QED
      BY <2>2, <2>3
  <1>8. ASSUME NEW b \in Store PROVE OwnerIsListed(b)'
    <2>1. OwnerIsListed(b)
      BY DEF OwnersInv
    <2>2. QED
      BY <1>1, <1>2, <1>3, <1>4, <1>5, <2>1 DEF OwnerIsListed, WillList, TaskSound, OwnerTypes
  <1>9. ASSUME NEW b \in Store PROVE Unmade(b)'
    <2>1. Unmade(b)
      BY DEF OwnersInv
    <2>2. QED
      BY <1>1, <1>2, <1>3, <1>4, <1>5, <2>1 DEF Unmade, TaskSound, OwnerTypes
  <1>10. ASSUME NEW r \in Owners, NEW b \in Store PROVE OnlyOwner(r, b)'
    <2>1. OnlyOwner(r, b) /\ Unmade(b)
      BY DEF OwnersInv
    <2>2. QED
      BY <1>1, <1>2, <1>3, <1>4, <1>5, <2>1
         DEF OnlyOwner, Claims, WillList, Unmade, TaskSound, OwnerTypes
  <1>11. ASSUME NEW q \in Owners PROVE GivesAlone(q)'
    <2>1. GivesAlone(q) /\ TaskSound(q)
      BY DEF OwnersInv
    <2>2. QED
      BY <1>1, <1>2, <1>3, <1>4, <1>5, <2>1
         DEF GivesAlone, Claims, WillList, TaskSound, OwnerTypes
  <1>12. ASSUME NEW n \in StoreName PROVE NameLeads(n)'
    <2>1. NameLeads(n)
      BY DEF OwnersInv
    <2>2. QED
      BY <1>1, <1>2, <1>3, <1>4, <1>5, <2>1 DEF NameLeads, TaskSound, OwnerTypes
  <1>13. QED
    BY <1>6, <1>7, <1>8, <1>9, <1>10, <1>11, <1>12 DEF OwnersInv

LEMMA TransferToHeirInv ==
    ASSUME OwnersInv, NEW p \in Owners, TransferToHeir(p)
    PROVE  OwnersInv'
  <1>1. OwnerTypes /\ TaskSound(p)
    BY DEF OwnersInv
  <1>2. PICK t : t = [storeTask[p] EXCEPT !.op = "unlist"]
    OBVIOUS
  <1>3. storeTask[p].op = "transfer"
    BY DEF TransferToHeir, SetOwner
  <1>4. /\ storeOwner' = IF storeTask[p].id \in stores
                         THEN [storeOwner EXCEPT ![storeTask[p].id] = storeTask[p].to]
                         ELSE storeOwner
        /\ UNCHANGED <<stores, storeHeir, storeName, names, byOwner, creator, storeAlive>>
    BY DEF TransferToHeir, SetOwner
  <1>5. t \in OwnerTasks /\ t.op = "unlist" /\ t.id = storeTask[p].id /\ t.from = storeTask[p].from
        /\ t.to = storeTask[p].to /\ t.rest = storeTask[p].rest
    BY <1>1, <1>2, <1>3, ResumeTask
       DEF Task, IdleTask, CleanupTask, OwnerTasks, StoreOp, OwnerTypes, TaskSound
  <1>6. /\ storeTask' \in [Owners -> OwnerTasks]
        /\ storeTask'[p] = t /\ \A q \in Owners : q # p => storeTask'[q] = storeTask[q]
    BY <1>1, <1>5, BecomeOne, <1>2 DEF OwnerTypes, TransferToHeir, SetOwner
  <1>7. OnlyOwner(p, storeTask[p].id)
    BY <1>1, <1>3 DEF OwnersInv, TaskSound
  <1>8. OwnerTypes'
    BY <1>1, <1>3, <1>4, <1>5, <1>6, <1>7 DEF OwnerTypes, TaskSound
  <1>9. ASSUME NEW q \in Owners PROVE TaskSound(q)'
    <2>1. TaskSound(q)
      BY DEF OwnersInv
    <2>2. CASE q = p
      BY <1>1, <1>3, <1>4, <1>5, <1>6, <1>7, <2>1, <2>2 DEF TaskSound, OwnerTypes
    <2>3. CASE q # p
      BY <1>1, <1>3, <1>4, <1>5, <1>6, <1>7, <2>1, <2>3
         DEF TaskSound, OwnerTypes, OnlyOwner, Claims
    <2>4. QED
      BY <2>2, <2>3
  <1>10. ASSUME NEW b \in Store PROVE OwnerIsListed(b)'
    <2>1. OwnerIsListed(b)
      BY DEF OwnersInv
    <2>2. QED
      BY <1>1, <1>3, <1>4, <1>5, <1>6, <1>7, <2>1
         DEF OwnerIsListed, WillList, TaskSound, OwnerTypes, OnlyOwner, Claims
  <1>11. ASSUME NEW b \in Store PROVE Unmade(b)'
    <2>1. Unmade(b)
      BY DEF OwnersInv
    <2>2. QED
      BY <1>1, <1>3, <1>4, <1>5, <1>6, <1>7, <2>1 DEF Unmade, TaskSound, OwnerTypes
  <1>12. ASSUME NEW r \in Owners, NEW b \in Store PROVE OnlyOwner(r, b)'
    <2>1. OnlyOwner(r, b) /\ Unmade(b)
      BY DEF OwnersInv
    <2>2. QED
      BY <1>1, <1>3, <1>4, <1>5, <1>6, <1>7, <2>1
         DEF OnlyOwner, Claims, WillList, Unmade, TaskSound, OwnerTypes
  <1>13. ASSUME NEW q \in Owners PROVE GivesAlone(q)'
    <2>1. GivesAlone(q) /\ TaskSound(q)
      BY DEF OwnersInv
    <2>2. QED
      BY <1>1, <1>3, <1>4, <1>5, <1>6, <1>7, <2>1
         DEF GivesAlone, Claims, WillList, TaskSound, OwnerTypes, OnlyOwner
  <1>14. ASSUME NEW n \in StoreName PROVE NameLeads(n)'
    <2>1. NameLeads(n)
      BY DEF OwnersInv
    <2>2. QED
      BY <1>1, <1>3, <1>4, <1>5, <1>6, <1>7, <2>1
         DEF NameLeads, TaskSound, OwnerTypes, OnlyOwner, Claims
  <1>15. QED
    BY <1>8, <1>9, <1>10, <1>11, <1>12, <1>13, <1>14 DEF OwnersInv

LEMMA UnregisterInv ==
    ASSUME OwnersInv, NEW p \in Owners, Unregister(p)
    PROVE  OwnersInv'
  <1>1. OwnerTypes /\ TaskSound(p)
    BY DEF OwnersInv
  <1>2. PICK t : t = IF storeTask[p].id \in stores
                     THEN [storeTask[p] EXCEPT !.op = "unname"]
                     ELSE Resume(p)
    OBVIOUS
  <1>3. storeTask[p].op = "unregister"
    BY DEF Unregister
  <1>4. /\ stores' = stores \ {storeTask[p].id}
        /\ UNCHANGED <<storeOwner, storeHeir, storeName, names, byOwner, creator, storeAlive>>
    BY DEF Unregister
  <1>5. t \in OwnerTasks /\ t.rest = storeTask[p].rest /\ t.id \notin t.rest
        /\ (storeTask[p].id \in stores => t.op = "unname" /\ t.id = storeTask[p].id)
        /\ (storeTask[p].id \notin stores => t.op = "cleanup" /\ t.id = NoOne)
    BY <1>1, <1>2, <1>3, ResumeTask
       DEF Task, IdleTask, CleanupTask, OwnerTasks, StoreOp, OwnerTypes, TaskSound
  <1>6. /\ storeTask' \in [Owners -> OwnerTasks]
        /\ storeTask'[p] = t /\ \A q \in Owners : q # p => storeTask'[q] = storeTask[q]
    BY <1>1, <1>5, BecomeOne, <1>2 DEF OwnerTypes, Unregister
  <1>7. OnlyOwner(p, storeTask[p].id)
    BY <1>1, <1>3 DEF OwnersInv, TaskSound
  <1>8. OwnerTypes'
    BY <1>1, <1>3, <1>4, <1>5, <1>6, <1>7 DEF OwnerTypes, TaskSound
  <1>9. ASSUME NEW q \in Owners PROVE TaskSound(q)'
    <2>1. TaskSound(q)
      BY DEF OwnersInv
    <2>2. CASE q = p
      BY <1>1, <1>3, <1>4, <1>5, <1>6, <1>7, <2>1, <2>2 DEF TaskSound, OwnerTypes
    <2>3. CASE q # p
      BY <1>1, <1>3, <1>4, <1>5, <1>6, <1>7, <2>1, <2>3
         DEF TaskSound, OwnerTypes, OnlyOwner, Claims
    <2>4. QED
      BY <2>2, <2>3
  <1>10. ASSUME NEW b \in Store PROVE OwnerIsListed(b)'
    <2>1. OwnerIsListed(b)
      BY DEF OwnersInv
    <2>2. QED
      BY <1>1, <1>3, <1>4, <1>5, <1>6, <1>7, <2>1
         DEF OwnerIsListed, WillList, TaskSound, OwnerTypes, OnlyOwner, Claims
  <1>11. ASSUME NEW b \in Store PROVE Unmade(b)'
    <2>1. Unmade(b)
      BY DEF OwnersInv
    <2>2. QED
      BY <1>1, <1>3, <1>4, <1>5, <1>6, <1>7, <2>1 DEF Unmade, TaskSound, OwnerTypes
  <1>12. ASSUME NEW r \in Owners, NEW b \in Store PROVE OnlyOwner(r, b)'
    <2>1. OnlyOwner(r, b) /\ Unmade(b)
      BY DEF OwnersInv
    <2>2. QED
      BY <1>1, <1>3, <1>4, <1>5, <1>6, <1>7, <2>1
         DEF OnlyOwner, Claims, WillList, Unmade, TaskSound, OwnerTypes
  <1>13. ASSUME NEW q \in Owners PROVE GivesAlone(q)'
    <2>1. GivesAlone(q) /\ TaskSound(q)
      BY DEF OwnersInv
    <2>2. QED
      BY <1>1, <1>3, <1>4, <1>5, <1>6, <1>7, <2>1
         DEF GivesAlone, Claims, WillList, TaskSound, OwnerTypes, OnlyOwner
  <1>14. ASSUME NEW n \in StoreName PROVE NameLeads(n)'
    <2>1. NameLeads(n)
      BY DEF OwnersInv
    <2>2. QED
      BY <1>1, <1>3, <1>4, <1>5, <1>6, <1>7, <2>1
         DEF NameLeads, TaskSound, OwnerTypes, OnlyOwner, Claims
  <1>15. QED
    BY <1>8, <1>9, <1>10, <1>11, <1>12, <1>13, <1>14 DEF OwnersInv

LEMMA UnregisterNameInv ==
    ASSUME OwnersInv, NEW p \in Owners, UnregisterName(p)
    PROVE  OwnersInv'
  <1>1. OwnerTypes /\ TaskSound(p)
    BY DEF OwnersInv
  <1>2. PICK t : t = [storeTask[p] EXCEPT !.op = "drop"]
    OBVIOUS
  <1>3. storeTask[p].op = "unname"
    BY DEF UnregisterName, NamesFreed
  <1>4. /\ names' = [n \in StoreName |-> IF n = storeName[storeTask[p].id]
                                         THEN NoOne
                                         ELSE names[n]]
        /\ UNCHANGED <<stores, storeOwner, storeHeir, storeName, byOwner, creator, storeAlive>>
    BY DEF UnregisterName, NamesFreed
  <1>5. t \in OwnerTasks /\ t.op = "drop" /\ t.id = storeTask[p].id /\ t.from = storeTask[p].from
        /\ t.to = storeTask[p].to /\ t.rest = storeTask[p].rest
    BY <1>1, <1>2, <1>3, ResumeTask
       DEF Task, IdleTask, CleanupTask, OwnerTasks, StoreOp, OwnerTypes, TaskSound
  <1>6. /\ storeTask' \in [Owners -> OwnerTasks]
        /\ storeTask'[p] = t /\ \A q \in Owners : q # p => storeTask'[q] = storeTask[q]
    BY <1>1, <1>5, BecomeOne, <1>2 DEF OwnerTypes, UnregisterName, NamesFreed
  <1>7. OwnerTypes'
    BY <1>1, <1>3, <1>4, <1>5, <1>6 DEF OwnerTypes, TaskSound
  <1>8. ASSUME NEW q \in Owners PROVE TaskSound(q)'
    <2>1. TaskSound(q)
      BY DEF OwnersInv
    <2>2. CASE q = p
      BY <1>1, <1>3, <1>4, <1>5, <1>6, <2>1, <2>2 DEF TaskSound, OwnerTypes
    <2>3. CASE q # p
      BY <1>1, <1>3, <1>4, <1>5, <1>6, <2>1, <2>3 DEF TaskSound, OwnerTypes
    <2>4. QED
      BY <2>2, <2>3
  <1>9. ASSUME NEW b \in Store PROVE OwnerIsListed(b)'
    <2>1. OwnerIsListed(b)
      BY DEF OwnersInv
    <2>2. QED
      BY <1>1, <1>3, <1>4, <1>5, <1>6, <2>1 DEF OwnerIsListed, WillList, TaskSound, OwnerTypes
  <1>10. ASSUME NEW b \in Store PROVE Unmade(b)'
    <2>1. Unmade(b)
      BY DEF OwnersInv
    <2>2. QED
      BY <1>1, <1>3, <1>4, <1>5, <1>6, <2>1 DEF Unmade, TaskSound, OwnerTypes
  <1>11. ASSUME NEW r \in Owners, NEW b \in Store PROVE OnlyOwner(r, b)'
    <2>1. OnlyOwner(r, b) /\ Unmade(b)
      BY DEF OwnersInv
    <2>2. QED
      BY <1>1, <1>3, <1>4, <1>5, <1>6, <2>1
         DEF OnlyOwner, Claims, WillList, Unmade, TaskSound, OwnerTypes
  <1>12. ASSUME NEW q \in Owners PROVE GivesAlone(q)'
    <2>1. GivesAlone(q) /\ TaskSound(q)
      BY DEF OwnersInv
    <2>2. QED
      BY <1>1, <1>3, <1>4, <1>5, <1>6, <2>1
         DEF GivesAlone, Claims, WillList, TaskSound, OwnerTypes
  <1>13. ASSUME NEW n \in StoreName PROVE NameLeads(n)'
    <2>1. NameLeads(n)
      BY DEF OwnersInv
    <2>2. QED
      BY <1>1, <1>3, <1>4, <1>5, <1>6, <2>1 DEF NameLeads, TaskSound, OwnerTypes
  <1>14. QED
    BY <1>7, <1>8, <1>9, <1>10, <1>11, <1>12, <1>13 DEF OwnersInv

LEMMA DropFromOwnerInv ==
    ASSUME OwnersInv, NEW p \in Owners, DropFromOwner(p)
    PROVE  OwnersInv'
  <1>1. OwnerTypes /\ TaskSound(p)
    BY DEF OwnersInv
  <1>2. PICK t : t = Resume(p)
    OBVIOUS
  <1>3. storeTask[p].op = "drop"
    BY DEF DropFromOwner
  <1>4. /\ byOwner' = [byOwner EXCEPT ![storeOwner[storeTask[p].id]] = @ \ {storeTask[p].id}]
        /\ UNCHANGED <<stores, storeOwner, storeHeir, storeName, names, creator, storeAlive>>
    BY DEF DropFromOwner
  <1>5. t \in OwnerTasks /\ t.id = NoOne /\ t.id \notin t.rest
        /\ (p \in storeAlive => t.op = "idle" /\ t.rest = {})
        /\ (p \notin storeAlive => t.op = "cleanup" /\ t.rest = storeTask[p].rest)
    BY <1>1, <1>2, <1>3, ResumeTask
       DEF Task, IdleTask, CleanupTask, OwnerTasks, StoreOp, OwnerTypes, TaskSound
  <1>6. /\ storeTask' \in [Owners -> OwnerTasks]
        /\ storeTask'[p] = t /\ \A q \in Owners : q # p => storeTask'[q] = storeTask[q]
    BY <1>1, <1>5, BecomeOne, <1>2 DEF OwnerTypes, DropFromOwner
  <1>7. OwnerTypes'
    BY <1>1, <1>3, <1>4, <1>5, <1>6 DEF OwnerTypes, TaskSound
  <1>8. ASSUME NEW q \in Owners PROVE TaskSound(q)'
    <2>1. TaskSound(q)
      BY DEF OwnersInv
    <2>2. CASE q = p
      BY <1>1, <1>3, <1>4, <1>5, <1>6, <2>1, <2>2 DEF TaskSound, OwnerTypes
    <2>3. CASE q # p
      BY <1>1, <1>3, <1>4, <1>5, <1>6, <2>1, <2>3 DEF TaskSound, OwnerTypes
    <2>4. QED
      BY <2>2, <2>3
  <1>9. ASSUME NEW b \in Store PROVE OwnerIsListed(b)'
    <2>1. OwnerIsListed(b)
      BY DEF OwnersInv
    <2>2. QED
      BY <1>1, <1>3, <1>4, <1>5, <1>6, <2>1 DEF OwnerIsListed, WillList, TaskSound, OwnerTypes
  <1>10. ASSUME NEW b \in Store PROVE Unmade(b)'
    <2>1. Unmade(b)
      BY DEF OwnersInv
    <2>2. QED
      BY <1>1, <1>3, <1>4, <1>5, <1>6, <2>1 DEF Unmade, TaskSound, OwnerTypes
  <1>11. ASSUME NEW r \in Owners, NEW b \in Store PROVE OnlyOwner(r, b)'
    <2>1. OnlyOwner(r, b) /\ Unmade(b)
      BY DEF OwnersInv
    <2>2. QED
      BY <1>1, <1>3, <1>4, <1>5, <1>6, <2>1
         DEF OnlyOwner, Claims, WillList, Unmade, TaskSound, OwnerTypes
  <1>12. ASSUME NEW q \in Owners PROVE GivesAlone(q)'
    <2>1. GivesAlone(q) /\ TaskSound(q)
      BY DEF OwnersInv
    <2>2. QED
      BY <1>1, <1>3, <1>4, <1>5, <1>6, <2>1
         DEF GivesAlone, Claims, WillList, TaskSound, OwnerTypes
  <1>13. ASSUME NEW n \in StoreName PROVE NameLeads(n)'
    <2>1. NameLeads(n)
      BY DEF OwnersInv
    <2>2. QED
      BY <1>1, <1>3, <1>4, <1>5, <1>6, <2>1 DEF NameLeads, TaskSound, OwnerTypes
  <1>14. QED
    BY <1>7, <1>8, <1>9, <1>10, <1>11, <1>12, <1>13 DEF OwnersInv

LEMMA CleanupEndsInv ==
    ASSUME OwnersInv, NEW p \in Owners, CleanupEnds(p)
    PROVE  OwnersInv'
  <1>1. OwnerTypes /\ TaskSound(p)
    BY DEF OwnersInv
  <1>2. PICK t : t = [IdleTask EXCEPT !.op = "over"]
    OBVIOUS
  <1>3. storeTask[p].op = "cleanup"
    BY DEF CleanupEnds, CleanupTask, Task
  <1>4. /\ byOwner' = [byOwner EXCEPT ![p] = {}]
        /\ UNCHANGED <<stores, storeOwner, storeHeir, storeName, names, creator, storeAlive>>
    BY DEF CleanupEnds, CleanupTask, Task
  <1>5. t \in OwnerTasks /\ t.op = "over" /\ t.id = NoOne /\ t.rest = {}
    BY <1>1, <1>2, <1>3, ResumeTask
       DEF Task, IdleTask, CleanupTask, OwnerTasks, StoreOp, OwnerTypes, TaskSound
  <1>6. /\ storeTask' \in [Owners -> OwnerTasks]
        /\ storeTask'[p] = t /\ \A q \in Owners : q # p => storeTask'[q] = storeTask[q]
    BY <1>1, <1>5, BecomeOne, <1>2 DEF OwnerTypes, CleanupEnds, CleanupTask, Task
  <1>7. OwnerTypes'
    BY <1>1, <1>3, <1>4, <1>5, <1>6 DEF OwnerTypes, TaskSound
  <1>8. ASSUME NEW q \in Owners PROVE TaskSound(q)'
    <2>1. TaskSound(q)
      BY DEF OwnersInv
    <2>2. CASE q = p
      BY <1>1, <1>3, <1>4, <1>5, <1>6, <2>1, <2>2 DEF TaskSound, OwnerTypes
    <2>3. CASE q # p
      BY <1>1, <1>3, <1>4, <1>5, <1>6, <2>1, <2>3 DEF TaskSound, OwnerTypes
    <2>4. QED
      BY <2>2, <2>3
  <1>9. ASSUME NEW b \in Store PROVE OwnerIsListed(b)'
    <2>1. OwnerIsListed(b)
      BY DEF OwnersInv
    <2>2. QED
      BY <1>1, <1>3, <1>4, <1>5, <1>6, <2>1 DEF OwnerIsListed, WillList, TaskSound, OwnerTypes
  <1>10. ASSUME NEW b \in Store PROVE Unmade(b)'
    <2>1. Unmade(b)
      BY DEF OwnersInv
    <2>2. QED
      BY <1>1, <1>3, <1>4, <1>5, <1>6, <2>1 DEF Unmade, TaskSound, OwnerTypes
  <1>11. ASSUME NEW r \in Owners, NEW b \in Store PROVE OnlyOwner(r, b)'
    <2>1. OnlyOwner(r, b) /\ Unmade(b)
      BY DEF OwnersInv
    <2>2. QED
      BY <1>1, <1>3, <1>4, <1>5, <1>6, <2>1
         DEF OnlyOwner, Claims, WillList, Unmade, TaskSound, OwnerTypes
  <1>12. ASSUME NEW q \in Owners PROVE GivesAlone(q)'
    <2>1. GivesAlone(q) /\ TaskSound(q)
      BY DEF OwnersInv
    <2>2. QED
      BY <1>1, <1>3, <1>4, <1>5, <1>6, <2>1
         DEF GivesAlone, Claims, WillList, TaskSound, OwnerTypes
  <1>13. ASSUME NEW n \in StoreName PROVE NameLeads(n)'
    <2>1. NameLeads(n)
      BY DEF OwnersInv
    <2>2. QED
      BY <1>1, <1>3, <1>4, <1>5, <1>6, <2>1 DEF NameLeads, TaskSound, OwnerTypes
  <1>14. QED
    BY <1>7, <1>8, <1>9, <1>10, <1>11, <1>12, <1>13 DEF OwnersInv

LEMMA CleanupNextStep ==
    ASSUME OwnersInv, NEW p \in Owners, CleanupNext(p)
    PROVE  OwnersInv'
  <1>1. OwnerTypes
    BY DEF OwnersInv
  <1>2. PICK s \in storeTask[p].rest :
            Become(p, IF HasLiveHeir(s)
                      THEN Task("transfer", s, p, storeHeir[s], storeTask[p].rest \ {s})
                      ELSE Task("unregister", s, p, p, storeTask[p].rest \ {s}))
    BY DEF CleanupNext
  <1>3. s \in Store
    BY <1>1, <1>2 DEF OwnerTypes, OwnerTasks
  <1>4. PICK t : t = IF HasLiveHeir(s)
                     THEN Task("transfer", s, p, storeHeir[s], storeTask[p].rest \ {s})
                     ELSE Task("unregister", s, p, p, storeTask[p].rest \ {s})
    OBVIOUS
  <1>5. t \in OwnerTasks /\ TakesNext(p, s, t)
    BY <1>1, <1>2, <1>3, <1>4
       DEF CleanupNext, TakesNext, HasLiveHeir, Task, OwnerTypes, OwnerTasks, StoreOp
  <1>6. QED
    BY <1>3, <1>5, CleanupNextInv

\* No heir is part of the invariant.
LEMMA SetHeirInv ==
    ASSUME OwnersInv, NEW s \in Store, NEW heir \in Owners \cup {NoOne}, SetHeir(s, heir)
    PROVE  OwnersInv'
  <1>1. /\ storeHeir' = [storeHeir EXCEPT ![s] = heir]
        /\ UNCHANGED <<stores, storeOwner, storeName, names, byOwner, creator, storeAlive, storeTask>>
    BY DEF SetHeir
  <1>2. QED
    BY <1>1
       DEF OwnersInv, OwnerTypes, TaskSound, OwnerIsListed, WillList, Unmade, OnlyOwner, Claims,
                GivesAlone, NameLeads

LEMMA OwnersNextInv ==
    ASSUME OwnersGive
    PROVE  OwnersInv /\ [StoreNext]_storeVars => OwnersInv'
  <1> SUFFICES ASSUME OwnersInv, [StoreNext]_storeVars PROVE OwnersInv'
    OBVIOUS
  <1>1. ASSUME NEW p \in Owners, NEW s \in Store, NEW n \in StoreName \cup {NoOne},
               NEW h \in Owners \cup {NoOne}, NewStore(p, s, n, h)
        PROVE  OwnersInv'
    BY <1>1, NewStoreInv
  <1>2. ASSUME NEW p \in Owners, NEW s \in Store, NEW q \in Owners, GiveAway(p, s, q) PROVE OwnersInv'
    BY <1>2, GiveAwayInv
  <1>3. ASSUME NEW p \in Owners,
               RegisterName(p) \/ AddToOwner(p) \/ RemoveFromOwner(p) \/ CleanupBegins(p)
                   \/ CleanupNext(p)
        PROVE  OwnersInv'
    BY <1>3, RegisterNameInv, AddToOwnerInv, RemoveFromOwnerInv, CleanupBeginsInv, CleanupNextStep
  <1>4. ASSUME NEW p \in Owners,
               TransferToHeir(p) \/ CleanupEnds(p) \/ Unregister(p) \/ UnregisterName(p)
                   \/ DropFromOwner(p)
        PROVE  OwnersInv'
    BY <1>4, TransferToHeirInv, CleanupEndsInv, UnregisterInv, UnregisterNameInv, DropFromOwnerInv
  <1>5. ASSUME NEW s \in Store, NEW h \in Owners \cup {NoOne}, SetHeir(s, h) PROVE OwnersInv'
    BY <1>5, SetHeirInv
  <1>6. CASE UNCHANGED storeVars
    BY <1>6 DEF storeVars, OwnersInv, OwnerTypes, TaskSound, OwnerIsListed, WillList, Unmade,
                OnlyOwner, Claims, GivesAlone, NameLeads
  <1>7. QED
    BY <1>1, <1>2, <1>3, <1>4, <1>5, <1>6 DEF StoreNext

(***************************************************************************)
(* register, give_away and cleanup_owned_stores write the three maps of    *)
(* the registry one after another, under no common lock: however they are  *)
(* interleaved, a store whose operations are over is on the list of its    *)
(* live owner, and no name leads to a store that is gone.  This needs that *)
(* only owners give stores away, which the code does not enforce, as the   *)
(* run does.                                                               *)
(***************************************************************************)
THEOREM OwnersStayListed ==
    ASSUME OwnersGive
    PROVE  OwnerSpec => []OwnersAgree
  <1>1. StoreInit => OwnersInv
    BY OwnersInitInv
  <1>2. OwnersInv /\ [StoreNext]_storeVars => OwnersInv'
    BY OwnersNextInv
  <1>3. OwnersInv => OwnersAgree
    <2> SUFFICES ASSUME OwnersInv PROVE OwnersAgree
      OBVIOUS
    <2>1. ASSUME NEW s \in stores, storeOwner[s] \in storeAlive, ~InProgress(s)
          PROVE  s \in byOwner[storeOwner[s]]
      BY <2>1 DEF OwnersInv, OwnerTypes, OwnerIsListed, WillList, InProgress
    <2>2. ASSUME NEW n \in StoreName PROVE names[n] = NoOne \/ names[n] \in stores \/ InProgress(names[n])
      BY DEF OwnersInv, NameLeads, InProgress
    <2>3. QED
      BY <2>1, <2>2 DEF OwnersAgree
  <1>4. QED
    BY <1>1, <1>2, <1>3, PTL DEF OwnerSpec

HIDE OwnersAssumption

-----------------------------------------------------------------------------
(***************************************************************************)
(* StoreData.  The process in the middle of an update of an OrderedStore   *)
(* has the lock, so what it read is still there; an OrderedStore is never  *)
(* in the middle of anything else.                                         *)
(***************************************************************************)
DataTypes ==
    /\ data \in [Keys -> Int]
    /\ defaulted \in [Keys -> Int]
    /\ counted \in [Keys -> Int]
    /\ dataTask \in [Proc -> [op : {"idle", "update", "insertMany", "clear"},
                              keys : SUBSET Keys, val : Int]]

DefaultStays(k) == defaulted[k] # NoValue => data[k] = defaulted[k]

LockedUpdate(p) ==
    /\ dataTask[p].op \in {"idle", "update"}
    /\ dataTask[p].op = "update" => dataLock = p /\ \A k \in dataTask[p].keys : data[k] = dataTask[p].val

DataInv ==
    /\ DataTypes
    /\ \A k \in Keys : DefaultStays(k)
    /\ storeKind = "ordered" => counted = data /\ \A p \in Proc : LockedUpdate(p)

LEMMA DataInitInv == DataInit => DataInv
  BY DEF DataInit, DataInv, DataTypes, DefaultStays, LockedUpdate, NoTask, NoValue

\* What a write does to the histories, of whatever keys.
LEMMA PutInv ==
    ASSUME DataTypes, NEW new \in [Keys -> Int], Put(new)
    PROVE  /\ data' = new /\ defaulted' \in [Keys -> Int] /\ counted' \in [Keys -> Int]
           /\ (\A k \in Keys : DefaultStays(k)) => \A k \in Keys : DefaultStays(k)'
           /\ counted = data => counted' = data'
  <1>1. /\ data' = new
        /\ defaulted' = [k \in Keys |-> IF new[k] = data[k] THEN defaulted[k] ELSE NoValue]
        /\ counted' = [k \in Keys |-> IF new[k] = data[k] THEN counted[k] ELSE new[k]]
    BY DEF Put
  <1>2. defaulted' \in [Keys -> Int] /\ counted' \in [Keys -> Int]
    BY <1>1 DEF DataTypes, NoValue
  <1>3. ASSUME NEW k \in Keys, DefaultStays(k) PROVE DefaultStays(k)'
    BY <1>1, <1>3 DEF DefaultStays
  <1>4. ASSUME counted = data PROVE counted' = data'
    <2>1. \A k \in Keys : counted'[k] = new[k]
      BY <1>1, <1>4
    <2>2. QED
      BY <1>1, <2>1
  <1>5. QED
    BY <1>1, <1>2, <1>3, <1>4

\* No process is in an update when one that needs the lock begins something.
LEMMA NobodyUpdates ==
    ASSUME DataInv, storeKind = "ordered", NEW p \in Proc, Enter(p)
    PROVE  \A q \in Proc : dataTask[q].op = "idle"
  BY NoOneAssumption DEF DataInv, LockedUpdate, Enter, DataLockIsFree

\* A write of one access, with no operation left open.
LEMMA WriteInv ==
    ASSUME DataInv, NEW p \in Proc, Enter(p), NEW new \in [Keys -> Int], Put(new),
           Locked, Fixed
    PROVE  DataInv'
  <1>1. DataTypes
    BY DEF DataInv
  <1>2. storeKind' = storeKind /\ dataLock' = dataLock /\ dataTask' = dataTask
    BY DEF Locked, Fixed
  <1>3. DataTypes'
    BY <1>1, <1>2, PutInv DEF DataTypes
  <1>4. ASSUME NEW k \in Keys PROVE DefaultStays(k)'
    BY <1>1, PutInv DEF DataInv
  <1>5. ASSUME storeKind = "ordered" PROVE counted' = data' /\ \A q \in Proc : LockedUpdate(q)'
    <2>1. counted' = data'
      BY <1>1, <1>5, PutInv DEF DataInv
    <2>2. \A q \in Proc : LockedUpdate(q)'
      BY <1>2, <1>5, NobodyUpdates DEF LockedUpdate
    <2>3. QED
      BY <2>1, <2>2
  <1>6. QED
    BY <1>2, <1>3, <1>4, <1>5 DEF DataInv

LEMMA InsertWrites ==
    ASSUME DataInv, NEW p \in Proc, NEW k \in Keys, NEW v \in {0, 1}, InsertValue(p, k, v)
    PROVE  DataInv'
  <1>1. [data EXCEPT ![k] = v] \in [Keys -> Int]
    BY DEF DataInv, DataTypes
  <1>2. QED
    BY <1>1, WriteInv DEF InsertValue

LEMMA RemoveWrites ==
    ASSUME DataInv, NEW p \in Proc, NEW k \in Keys, Remove(p, k)
    PROVE  DataInv'
  <1>1. [data EXCEPT ![k] = NoValue] \in [Keys -> Int]
    BY DEF DataInv, DataTypes, NoValue
  <1>2. QED
    BY <1>1, WriteInv DEF Remove

\* The first key, or the last: one that is present.
LEMMA PopWrites ==
    ASSUME DataInv, NEW p \in Proc, PopFirst(p) \/ PopLast(p)
    PROVE  DataInv'
  <1>1. PICK k : Remove(p, k)
    BY DEF PopFirst, PopLast
  <1>2. [data EXCEPT ![k] = NoValue] \in [Keys -> Int]
    <2>1. data \in [Keys -> Int] /\ NoValue \in Int
      BY DEF DataInv, DataTypes, NoValue
    <2>2. CASE k \in Keys
      BY <2>1, <2>2
    <2>3. CASE k \notin Keys
      BY <2>1, <2>3
    <2>4. QED
      BY <2>2, <2>3
  <1>3. QED
    BY <1>1, <1>2, WriteInv DEF Remove

LEMMA GetOrInsertInv ==
    ASSUME DataInv, NEW p \in Proc, NEW k \in Keys, NEW v \in {0, 1}, GetOrInsert(p, k, v)
    PROVE  DataInv'
  <1>1. storeKind' = storeKind /\ storeKind # "ordered" /\ dataTask' = dataTask
    BY DEF GetOrInsert, Locked, Fixed
  <1>2. PICK w : w = OrInsert(k, v)
    OBVIOUS
  <1>3. w \in Int /\ (data[k] # NoValue => w = data[k])
    BY <1>2 DEF OrInsert, DataInv, DataTypes
  <1>4. /\ data' = [data EXCEPT ![k] = w]
        /\ defaulted' = [defaulted EXCEPT ![k] = IF @ = NoValue THEN w ELSE @]
        /\ counted' = [counted EXCEPT ![k] = w]
    BY <1>2 DEF GetOrInsert
  <1>5. DataTypes'
    BY <1>1, <1>3, <1>4 DEF DataInv, DataTypes
  <1>6. ASSUME NEW j \in Keys PROVE DefaultStays(j)'
    BY <1>3, <1>4 DEF DataInv, DataTypes, DefaultStays
  <1>7. QED
    BY <1>1, <1>5, <1>6 DEF DataInv

LEMMA UpdateReadsInv ==
    ASSUME DataInv, NEW p \in Proc, NEW k \in Keys, UpdateReads(p, k)
    PROVE  DataInv'
  <1>1. /\ storeKind' = storeKind /\ data' = data /\ defaulted' = defaulted /\ counted' = counted
        /\ Enter(p)
        /\ storeKind = "ordered" => dataLock' = p
    BY DEF UpdateReads, Fixed
  <1>2. PICK t : t = [op |-> "update", keys |-> {k}, val |-> data[k]]
    OBVIOUS
  <1>3. t.op = "update" /\ t.keys = {k} /\ t.val = data[k]
    BY <1>2
  <1>4. t \in [op : {"idle", "update", "insertMany", "clear"}, keys : SUBSET Keys, val : Int]
    BY <1>2 DEF DataInv, DataTypes
  <1>5. dataTask' = [dataTask EXCEPT ![p] = t]
    BY <1>2 DEF UpdateReads
  <1>6. DataTypes'
    BY <1>1, <1>4, <1>5 DEF DataInv, DataTypes
  <1>7. ASSUME NEW q \in Proc, storeKind = "ordered" PROVE LockedUpdate(q)'
    <2>1. dataTask[q].op = "idle"
      BY <1>1, <1>7, NobodyUpdates
    <2>2. CASE q = p
      BY <1>1, <1>3, <1>5, <1>7, <2>2 DEF LockedUpdate, DataInv, DataTypes
    <2>3. CASE q # p
      BY <1>5, <2>1, <2>3 DEF LockedUpdate, DataInv, DataTypes
    <2>4. QED
      BY <2>2, <2>3
  <1>8. QED
    BY <1>1, <1>6, <1>7 DEF DataInv, DefaultStays

LEMMA UpdateWritesInv ==
    ASSUME DataInv, NEW p \in Proc, UpdateWrites(p)
    PROVE  DataInv'
  <1>1. DataTypes /\ dataTask[p].op = "update" /\ storeKind' = storeKind
    BY DEF DataInv, UpdateWrites, Fixed
  <1>2. dataTask' = [dataTask EXCEPT ![p] = NoTask]
    BY DEF UpdateWrites
  <1>3. PICK k \in dataTask[p].keys :
            /\ data' = [data EXCEPT ![k] = PlusOne(dataTask[p].val)]
            /\ counted' = [counted EXCEPT ![k] = PlusOne(@)]
            /\ defaulted' = [defaulted EXCEPT ![k] = NoValue]
    BY DEF UpdateWrites
  <1>4. k \in Keys
    BY <1>1, <1>3 DEF DataTypes
  <1>5. DataTypes'
    BY <1>1, <1>2, <1>3, <1>4 DEF DataTypes, PlusOne, NoValue, NoTask
  <1>6. ASSUME NEW j \in Keys PROVE DefaultStays(j)'
    BY <1>1, <1>3, <1>4 DEF DataInv, DataTypes, DefaultStays
  <1>7. ASSUME storeKind = "ordered" PROVE counted' = data' /\ \A q \in Proc : LockedUpdate(q)'
    <2>1. counted = data /\ \A q \in Proc : LockedUpdate(q)
      BY <1>7 DEF DataInv
    <2>2. data[k] = dataTask[p].val
      BY <1>1, <1>3, <2>1 DEF LockedUpdate
    <2>3. counted' = data'
      BY <1>3, <2>1, <2>2
    <2>4. ASSUME NEW q \in Proc PROVE LockedUpdate(q)'
      <3>1. CASE q = p
        BY <1>1, <1>2, <3>1 DEF LockedUpdate, DataTypes, NoTask
      <3>2. CASE q # p
        <4>1. dataTask[q].op = "idle"
          BY <1>1, <2>1, <3>2 DEF LockedUpdate
        <4>2. QED
          BY <1>1, <1>2, <3>2, <4>1 DEF LockedUpdate, DataTypes
      <3>3. QED
        BY <3>1, <3>2
    <2>5. QED
      BY <2>3, <2>4
  <1>8. QED
    BY <1>1, <1>5, <1>6, <1>7 DEF DataInv

LEMMA BulkInv ==
    ASSUME DataInv, NEW p \in Proc, NEW op \in {"insertMany", "clear"},
           NEW ks \in SUBSET Keys, NEW v \in Int, Bulk(p, op, ks, v)
    PROVE  DataInv'
  <1>1. DataTypes /\ Enter(p) /\ Fixed /\ UNCHANGED dataLock
    BY DEF DataInv, Bulk
  <1>2. CASE storeKind = "hash"
    <2>1. UNCHANGED <<data, defaulted, counted>> /\ storeKind' = "hash"
      BY <1>1, <1>2 DEF Bulk, Fixed
    <2>2. PICK t : t = [op |-> op, keys |-> ks, val |-> v]
      OBVIOUS
    <2>3. t \in [op : {"idle", "update", "insertMany", "clear"}, keys : SUBSET Keys, val : Int]
      BY <2>2
    <2>4. dataTask' = [dataTask EXCEPT ![p] = t]
      BY <1>2, <2>2 DEF Bulk
    <2>5. QED
      BY <2>1, <2>3, <2>4 DEF DataInv, DataTypes, DefaultStays
  <1>3. CASE storeKind # "hash"
    <2>1. Put([k \in Keys |-> IF k \in ks THEN v ELSE data[k]]) /\ UNCHANGED dataTask
      BY <1>3 DEF Bulk
    <2>2. [k \in Keys |-> IF k \in ks THEN v ELSE data[k]] \in [Keys -> Int]
      BY <1>1 DEF DataTypes
    <2>3. QED
      BY <1>1, <2>1, <2>2, WriteInv DEF Locked
  <1>4. QED
    BY <1>2, <1>3

LEMMA BulkNextInv ==
    ASSUME DataInv, NEW p \in Proc, BulkNext(p)
    PROVE  DataInv'
  <1>1. DataTypes /\ dataTask[p].op \in {"insertMany", "clear"} /\ storeKind' = storeKind
    BY DEF DataInv, BulkNext, Fixed
  <1>2. storeKind # "ordered"
    BY <1>1 DEF DataInv, LockedUpdate
  <1>3. PICK k \in dataTask[p].keys :
            /\ Put([data EXCEPT ![k] = dataTask[p].val])
            /\ dataTask' = [dataTask EXCEPT ![p] =
                               IF dataTask[p].keys = {k} THEN NoTask
                               ELSE [dataTask[p] EXCEPT !.keys = @ \ {k}]]
    BY DEF BulkNext
  <1>4. [data EXCEPT ![k] = dataTask[p].val] \in [Keys -> Int]
    BY <1>1, <1>3 DEF DataTypes
  <1>5. dataTask' \in [Proc -> [op : {"idle", "update", "insertMany", "clear"},
                                keys : SUBSET Keys, val : Int]]
    BY <1>1, <1>3 DEF DataTypes, NoTask, NoValue
  <1>6. DataTypes' /\ \A j \in Keys : DefaultStays(j)'
    BY <1>1, <1>3, <1>4, <1>5, PutInv DEF DataInv, DataTypes
  <1>7. QED
    BY <1>1, <1>2, <1>6 DEF DataInv

LEMMA DataNextInv == DataInv /\ [DataNext]_dataVars => DataInv'
  <1> SUFFICES ASSUME DataInv, [DataNext]_dataVars PROVE DataInv'
    OBVIOUS
  <1>1. ASSUME NEW p \in Proc, NEW k \in Keys, NEW v \in {0, 1}, InsertValue(p, k, v) \/ GetOrInsert(p, k, v)
        PROVE  DataInv'
    BY <1>1, InsertWrites, GetOrInsertInv
  <1>2. ASSUME NEW p \in Proc, NEW k \in Keys, Remove(p, k) \/ UpdateReads(p, k) PROVE DataInv'
    BY <1>2, RemoveWrites, UpdateReadsInv
  <1>3. ASSUME NEW p \in Proc, UpdateWrites(p) \/ BulkNext(p) \/ PopFirst(p) \/ PopLast(p) PROVE DataInv'
    BY <1>3, UpdateWritesInv, BulkNextInv, PopWrites
  <1>4. ASSUME NEW p \in Proc, NEW ks \in SUBSET Keys, InsertMany(p, ks, 0) PROVE DataInv'
    BY <1>4, BulkInv DEF InsertMany
  <1>5. ASSUME NEW p \in Proc, NEW ks \in SUBSET Keys, Retain(p, ks) PROVE DataInv'
    <2>1. Keys \ ks \in SUBSET Keys /\ NoValue \in Int
      BY DEF NoValue
    <2>2. QED
      BY <1>5, <2>1, BulkInv DEF Retain
  <1>6. ASSUME NEW p \in Proc, Clear(p) PROVE DataInv'
    <2>1. Keys \in SUBSET Keys /\ NoValue \in Int
      BY DEF NoValue
    <2>2. QED
      BY <1>6, <2>1, BulkInv DEF Clear
  <1>7. CASE UNCHANGED dataVars
    BY <1>7 DEF dataVars, DataInv, DataTypes, DefaultStays, LockedUpdate
  <1>8. QED
    BY <1>1, <1>2, <1>3, <1>4, <1>5, <1>6, <1>7 DEF DataNext

(***************************************************************************)
(* For any number of processes and keys, and whether the access is public  *)
(* or not: what get_or_insert returned is in the store until somebody      *)
(* writes the key, and no update of an OrderedStore is lost.               *)
(***************************************************************************)
THEOREM StoresAgree == DataSpec => []StoreAgrees
  <1>1. DataInit => DataInv
    BY DataInitInv
  <1>2. DataInv /\ [DataNext]_dataVars => DataInv'
    BY DataNextInv
  <1>3. DataInv => StoreAgrees
    BY DEF DataInv, StoreAgrees, DefaultStays
  <1>4. QED
    BY <1>1, <1>2, <1>3, PTL DEF DataSpec

-----------------------------------------------------------------------------
(***************************************************************************)
(* GenFsm.  Every way to set or cancel a timeout keeps the handles of the  *)
(* timer tasks that wait, and a transition cancels them all; a callback    *)
(* result is at most three of these one after another.                     *)
(***************************************************************************)
LEMMA LeastOf ==
    ASSUME NEW S \in SUBSET Nat, S # {}
    PROVE  \E m \in S : \A k \in S : m <= k
  <1>1. PICK m \in S : \A k \in S : ~(<<k, m>> \in OpToRel(<, Nat))
    BY NatLessThanWellFounded, WFMin
  <1>2. \A k \in S : ~(k < m)
    BY <1>1 DEF OpToRel
  <1>3. QED
    BY <1>2

TimeoutTable ==
    [timer : [Slot -> TimerId \cup {Nil}],
     task : [TimerId -> [at : {"free", "armed", "cancelled", "elapsed", "sent"},
                             name : Slot, visit : Nat]]]

\* The timer tasks of ts that wait are of visit v, and have their handles.
OfVisit(ts, v) ==
    \A t \in TimerId : ts.task[t].at = "armed" =>
        ts.timer[ts.task[t].name] = t /\ ts.task[t].visit = v

FsmInv ==
    /\ visit \in Nat
    /\ timeouts \in TimeoutTable
    /\ OfVisit(timeouts, visit)
    /\ fsm = "none" => visit = 0 /\ Free(timeouts) = TimerId

\* A task that gets the signal, or one whose time has come, is only where it was or done.
LEMMA CancelledTask ==
    ASSUME NEW task \in [at : {"free", "armed", "cancelled", "elapsed", "sent"},
                         name : Slot, visit : Nat], NEW n
    PROVE  /\ CancelTask(task, n) \in [at : {"free", "armed", "cancelled", "elapsed", "sent"},
                                           name : Slot, visit : Nat]
           /\ CancelTask(task, n).at # "armed"
           /\ CancelTask(task, n).at = "free" <=> task.at = "free"
  BY DEF CancelTask

LEMMA CancelKeeps ==
    ASSUME NEW ts \in TimeoutTable, NEW v, OfVisit(ts, v), NEW n \in Slot
    PROVE  /\ CancelTimeout(ts, n) \in TimeoutTable
           /\ OfVisit(CancelTimeout(ts, n), v)
           /\ \A t \in TimerId : CancelTimeout(ts, n).task[t].at = "armed" =>
                 CancelTimeout(ts, n).task[t].name # n
           /\ Free(CancelTimeout(ts, n)) = Free(ts)
  <1>1. CASE ts.timer[n] = Nil
    <2>1. CancelTimeout(ts, n) = ts
      BY <1>1 DEF CancelTimeout
    <2>2. ASSUME NEW t \in TimerId, ts.task[t].at = "armed" PROVE ts.task[t].name # n
      BY <1>1, <2>2 DEF OfVisit, TimerId, Nil
    <2>3. QED
      BY <2>1, <2>2
  <1>2. CASE ts.timer[n] # Nil
    <2>1. PICK u : u = ts.timer[n]
      OBVIOUS
    <2>2. u \in TimerId
      BY <1>2, <2>1 DEF TimeoutTable
    <2>3. PICK new : new = CancelTimeout(ts, n)
      OBVIOUS
    <2>4. /\ new = [timer |-> new.timer, task |-> new.task]
          /\ new.timer = [ts.timer EXCEPT ![n] = Nil]
          /\ new.task = [ts.task EXCEPT ![u] = CancelTask(ts.task[u], n)]
      BY <1>2, <2>1, <2>3 DEF CancelTimeout
    <2>5. /\ new.timer \in [Slot -> TimerId \cup {Nil}]
          /\ new.timer[n] = Nil
          /\ \A m \in Slot : m # n => new.timer[m] = ts.timer[m]
      BY <2>4 DEF TimeoutTable
    <2>6. /\ new.task \in [TimerId -> [at : {"free", "armed", "cancelled", "elapsed", "sent"},
                                           name : Slot, visit : Nat]]
          /\ new.task[u].at # "armed"
          /\ new.task[u].at = "free" <=> ts.task[u].at = "free"
          /\ \A t \in TimerId : t # u => new.task[t] = ts.task[t]
      BY <2>2, <2>4, CancelledTask DEF TimeoutTable
    <2>7. new \in TimeoutTable
      BY <2>4, <2>5, <2>6 DEF TimeoutTable
    <2>8. ASSUME NEW t \in TimerId, new.task[t].at = "armed"
          PROVE  new.timer[new.task[t].name] = t /\ new.task[t].visit = v /\ new.task[t].name # n
      <3>1. t # u /\ new.task[t] = ts.task[t]
        BY <2>6, <2>8
      <3>2. ts.timer[ts.task[t].name] = t /\ ts.task[t].visit = v
        BY <2>8, <3>1 DEF OfVisit
      <3>3. ts.task[t].name \in Slot
        BY DEF TimeoutTable
      <3>4. QED
        BY <2>1, <2>5, <3>1, <3>2, <3>3
    <2>9. Free(new) = Free(ts)
      BY <2>6 DEF Free
    <2>10. QED
      BY <2>3, <2>7, <2>8, <2>9 DEF OfVisit
  <1>3. QED
    BY <1>1, <1>2

LEMMA SetKeeps ==
    ASSUME NEW ts \in TimeoutTable, NEW v \in Nat, OfVisit(ts, v), NEW n \in Slot,
           Free(ts) # {}
    PROVE  /\ SetTimeout(ts, n, v) \in TimeoutTable
           /\ OfVisit(SetTimeout(ts, n, v), v)
           /\ \E t \in Free(ts) : Free(SetTimeout(ts, n, v)) = Free(ts) \ {t}
  <1>1. PICK old : old = CancelTimeout(ts, n)
    OBVIOUS
  <1>2. /\ old \in TimeoutTable /\ OfVisit(old, v) /\ Free(old) = Free(ts)
        /\ \A t \in TimerId : old.task[t].at = "armed" => old.task[t].name # n
    BY <1>1, CancelKeeps
  <1>3. PICK u : u = CHOOSE i \in Free(ts) : \A j \in Free(ts) : i <= j
    OBVIOUS
  <1>4. u \in Free(ts)
    <2>1. Free(ts) \in SUBSET Nat
      BY DEF Free, TimerId
    <2>2. \E i \in Free(ts) : \A j \in Free(ts) : i <= j
      BY <2>1, LeastOf
    <2>3. QED
      BY <1>3, <2>2
  <1>5. u \in TimerId /\ old.task[u].at = "free"
    BY <1>2, <1>4 DEF Free
  <1>6. PICK new : new = SetTimeout(ts, n, v)
    OBVIOUS
  <1>7. PICK task : task = [at |-> "armed", name |-> n, visit |-> v]
    OBVIOUS
  <1>8. /\ new = [timer |-> new.timer, task |-> new.task]
        /\ new.timer = [old.timer EXCEPT ![n] = u]
        /\ new.task = [old.task EXCEPT ![u] = task]
    BY <1>1, <1>3, <1>6, <1>7 DEF SetTimeout
  <1>9. /\ task \in [at : {"free", "armed", "cancelled", "elapsed", "sent"}, name : Slot, visit : Nat]
        /\ task.at = "armed" /\ task.name = n /\ task.visit = v
    BY <1>7
  <1>10. /\ new.timer \in [Slot -> TimerId \cup {Nil}]
         /\ new.timer[n] = u
         /\ \A m \in Slot : m # n => new.timer[m] = old.timer[m]
    BY <1>2, <1>5, <1>8 DEF TimeoutTable
  <1>11. /\ new.task \in [TimerId -> [at : {"free", "armed", "cancelled", "elapsed", "sent"},
                                          name : Slot, visit : Nat]]
         /\ new.task[u] = task
         /\ \A t \in TimerId : t # u => new.task[t] = old.task[t]
    BY <1>2, <1>5, <1>8, <1>9 DEF TimeoutTable
  <1>12. new \in TimeoutTable
    BY <1>8, <1>10, <1>11 DEF TimeoutTable
  <1>13. ASSUME NEW t \in TimerId, new.task[t].at = "armed"
         PROVE  new.timer[new.task[t].name] = t /\ new.task[t].visit = v
    <2>1. CASE t = u
      BY <1>9, <1>10, <1>11, <2>1
    <2>2. CASE t # u
      <3>1. new.task[t] = old.task[t] /\ old.task[t].name # n /\ old.task[t].name \in Slot
        BY <1>2, <1>11, <1>13, <2>2 DEF TimeoutTable
      <3>2. old.timer[old.task[t].name] = t /\ old.task[t].visit = v
        BY <1>2, <1>13, <3>1 DEF OfVisit
      <3>3. QED
        BY <1>10, <3>1, <3>2
    <2>3. QED
      BY <2>1, <2>2
  <1>14. Free(new) = Free(ts) \ {u}
    <2>1. Free(new) = Free(old) \ {u}
      BY <1>9, <1>11 DEF Free
    <2>2. QED
      BY <1>2, <2>1
  <1>15. QED
    BY <1>4, <1>6, <1>12, <1>13, <1>14 DEF OfVisit

\* A transition leaves no task waiting that had a handle.
LEMMA CancelAllKeeps ==
    ASSUME NEW ts \in TimeoutTable, NEW v, OfVisit(ts, v)
    PROVE  /\ CancelAll(ts) \in TimeoutTable
           /\ \A w : OfVisit(CancelAll(ts), w)
           /\ Free(CancelAll(ts)) = Free(ts)
  <1>1. PICK new : new = CancelAll(ts)
    OBVIOUS
  <1>2. /\ new = [timer |-> new.timer, task |-> new.task]
        /\ new.timer = [n \in Slot |-> Nil]
        /\ new.task = [t \in TimerId |-> IF t \in {ts.timer[n] : n \in Slot}
                                             THEN CancelTask(ts.task[t], State)
                                             ELSE ts.task[t]]
    BY <1>1 DEF CancelAll
  <1>3. ASSUME NEW t \in TimerId
        PROVE  /\ new.task[t] \in [at : {"free", "armed", "cancelled", "elapsed", "sent"},
                                   name : Slot, visit : Nat]
               /\ new.task[t].at # "armed"
               /\ new.task[t].at = "free" <=> ts.task[t].at = "free"
    <2>1. ts.task[t] \in [at : {"free", "armed", "cancelled", "elapsed", "sent"},
                          name : Slot, visit : Nat]
      BY DEF TimeoutTable
    <2>2. CASE t \in {ts.timer[n] : n \in Slot}
      <3>1. new.task[t] = CancelTask(ts.task[t], State)
        BY <1>2, <2>2
      <3>2. QED
        BY <2>1, <3>1, CancelledTask
    <2>3. CASE t \notin {ts.timer[n] : n \in Slot}
      <3>1. new.task[t] = ts.task[t]
        BY <1>2, <2>3
      <3>2. ts.task[t].at # "armed"
        BY <2>1, <2>3 DEF OfVisit
      <3>3. QED
        BY <2>1, <3>1, <3>2
    <2>4. QED
      BY <2>2, <2>3
  <1>4. new.task \in [TimerId -> [at : {"free", "armed", "cancelled", "elapsed", "sent"},
                                      name : Slot, visit : Nat]]
    <2>1. new.task = [t \in TimerId |-> new.task[t]]
      BY <1>2
    <2>2. QED
      BY <1>3, <2>1
  <1>5. new \in TimeoutTable
    BY <1>2, <1>4 DEF TimeoutTable
  <1>6. Free(new) = Free(ts)
    BY <1>3 DEF Free
  <1>7. QED
    BY <1>1, <1>3, <1>5, <1>6 DEF OfVisit

\* There are timers left for what a result sets.
LEMMA TimersAreLeft ==
    ASSUME NEW r, NEW ts, TimersNeeded(r) <= Cardinality(Free(ts))
    PROVE  /\ r.timeout = "set" \/ r.generic[1] = "set" => Free(ts) # {}
           /\ r.timeout = "set" /\ r.generic[1] = "set" => \A t : Free(ts) \ {t} # {}
  <1>1. IsFiniteSet(Free(ts))
    <2>1. IsFiniteSet(1 .. MaxTimers)
      BY TimersAssumption, FS_Interval
    <2>2. Free(ts) \in SUBSET (1 .. MaxTimers)
      BY DEF Free, TimerId
    <2>3. QED
      BY <2>1, <2>2, FS_Subset
  <1>2. PICK needs : needs = {x \in {"timeout", "generic"} : \/ x = "timeout" /\ r.timeout = "set"
                                                             \/ x = "generic" /\ r.generic[1] = "set"}
    OBVIOUS
  <1>3. TimersNeeded(r) = Cardinality(needs)
    <2>1. TimersNeeded(r) = Cardinality({x \in {"timeout", "generic"} :
                                                 \/ x = "timeout" /\ r.timeout = "set"
                                                 \/ x = "generic" /\ r.generic[1] = "set"})
      BY Zenon DEF TimersNeeded
    <2>2. QED
      BY <1>2, <2>1, Zenon
  <1>4. IsFiniteSet({"timeout"}) /\ IsFiniteSet({"timeout", "generic"})
        /\ Cardinality({"timeout", "generic"}) = 2
    <2>1. IsFiniteSet({"timeout"}) /\ Cardinality({"timeout"}) = 1
      BY FS_Singleton
    <2>2. {"timeout", "generic"} = {"timeout"} \cup {"generic"} /\ "generic" \notin {"timeout"}
      OBVIOUS
    <2>3. QED
      BY <2>1, <2>2, FS_AddElement
  <1>5. IsFiniteSet(needs) /\ Cardinality(needs) \in Nat
    <2>1. needs \in SUBSET {"timeout", "generic"}
      BY <1>2
    <2>2. QED
      BY <1>4, <2>1, FS_Subset, FS_CardinalityType
  <1>6. ASSUME r.timeout = "set" \/ r.generic[1] = "set" PROVE Free(ts) # {}
    <2>1. needs # {}
      BY <1>2, <1>6
    <2>2. Cardinality(needs) # 0
      BY <1>5, <2>1, FS_EmptySet
    <2>3. Cardinality(Free(ts)) # 0
      BY <1>1, <1>3, <1>5, <2>2, FS_CardinalityType
    <2>4. QED
      BY <1>1, <2>3, FS_EmptySet
  <1>7. ASSUME r.timeout = "set", r.generic[1] = "set", NEW t PROVE Free(ts) \ {t} # {}
    <2>1. needs = {"timeout", "generic"}
      BY <1>2, <1>7
    <2>2. Cardinality(Free(ts)) \in Nat /\ Cardinality(Free(ts)) >= 2
      BY <1>1, <1>3, <1>4, <2>1, FS_CardinalityType
    <2>3. IsFiniteSet(Free(ts) \ {t}) /\ Cardinality(Free(ts) \ {t}) >= 1
      BY <1>1, <2>2, FS_RemoveElement
    <2>4. QED
      BY <2>3, FS_EmptySet
  <1>8. QED
    BY <1>6, <1>7

\* The results callbacks may give, as far as timeouts are concerned.
TimedResult(r) ==
    /\ r.state \in {"next", "keep"}
    /\ r.generic[1] \in {"set", "cancel"} => r.generic[2] \in GenericName

LEMMA ResultInv ==
    ASSUME FsmInv, fsm = "running", NEW r, TimedResult(r), NEW held,
           ApplyResult(r, held), fsm' # "none"
    PROVE  FsmInv'
  <1>1. PICK v : v = NewVisit(r)
    OBVIOUS
  <1>2. v \in Nat /\ visit' = v /\ (r.state # "next" => v = visit)
    BY <1>1 DEF ApplyResult, NewVisit, FsmInv
  <1>3. /\ r.timeout = "set" \/ r.generic[1] = "set" => Free(timeouts) # {}
        /\ r.timeout = "set" /\ r.generic[1] = "set" => \A t : Free(timeouts) \ {t} # {}
    <2>1. TimersNeeded(r) <= Cardinality(Free(timeouts))
      BY DEF ApplyResult
    <2>2. QED
      BY <2>1, TimersAreLeft
  <1>4. PICK moved : moved = IF r.state = "next" THEN CancelAll(timeouts)
                             ELSE IF r.timeout = "leave" THEN timeouts
                             ELSE CancelTimeout(timeouts, State)
    OBVIOUS
  <1>5. moved \in TimeoutTable /\ OfVisit(moved, v) /\ Free(moved) = Free(timeouts)
    <2>1. timeouts \in TimeoutTable /\ OfVisit(timeouts, visit) /\ State \in Slot
      BY DEF FsmInv, Slot
    <2>2. CASE r.state = "next"
      BY <1>4, <2>1, <2>2, CancelAllKeeps
    <2>3. CASE r.state # "next" /\ r.timeout = "leave"
      BY <1>2, <1>4, <2>1, <2>3
    <2>4. CASE r.state # "next" /\ r.timeout # "leave"
      BY <1>2, <1>4, <2>1, <2>4, CancelKeeps
    <2>5. QED
      BY <2>2, <2>3, <2>4
  <1>6. PICK armed : armed = IF r.timeout = "set" THEN SetTimeout(moved, State, v) ELSE moved
    OBVIOUS
  <1>7. /\ armed \in TimeoutTable /\ OfVisit(armed, v)
        /\ r.generic[1] = "set" => Free(armed) # {}
    <2>1. CASE r.timeout = "set"
      <3>1. State \in Slot /\ Free(moved) # {}
        BY <1>3, <1>5, <2>1 DEF Slot
      <3>2. /\ SetTimeout(moved, State, v) \in TimeoutTable
            /\ OfVisit(SetTimeout(moved, State, v), v)
            /\ \E t \in Free(moved) :
                  Free(SetTimeout(moved, State, v)) = Free(moved) \ {t}
        BY <1>2, <1>5, <3>1, SetKeeps
      <3>3. QED
        BY <1>3, <1>5, <1>6, <2>1, <3>2
    <2>2. CASE r.timeout # "set"
      BY <1>3, <1>5, <1>6, <2>2
    <2>3. QED
      BY <2>1, <2>2
  <1>8. timeouts' = CASE r.generic[1] = "set" -> SetTimeout(armed, r.generic[2], v)
                      [] r.generic[1] = "cancel" -> CancelTimeout(armed, r.generic[2])
                      [] OTHER -> armed
    BY <1>1, <1>4, <1>6 DEF ApplyResult, Timeouts
  <1>9. timeouts' \in TimeoutTable /\ OfVisit(timeouts', v)
    <2>1. r.generic[1] \in {"set", "cancel"} => r.generic[2] \in Slot
      BY DEF TimedResult, Slot
    <2>2. CASE r.generic[1] = "set"
      BY <1>2, <1>7, <1>8, <2>1, <2>2, SetKeeps
    <2>3. CASE r.generic[1] = "cancel"
      BY <1>7, <1>8, <2>1, <2>3, CancelKeeps
    <2>4. CASE r.generic[1] \notin {"set", "cancel"}
      BY <1>7, <1>8, <2>4
    <2>5. QED
      BY <2>2, <2>3, <2>4
  <1>10. QED
    BY <1>2, <1>9 DEF FsmInv, OfVisit

LEMMA ResultsAreTimed ==
    /\ \A r \in EventResults : TimedResult(r)
    /\ \A ref : \A r \in CallResults(ref) : TimedResult(r)
  BY DEF EventResults, CallResults, Result, Generics, NoGeneric, TimedResult

LEMMA FsmInitInv == FsmInit => FsmInv
  <1> SUFFICES ASSUME FsmInit PROVE FsmInv
    OBVIOUS
  <1>1. visit = 0 /\ fsm = "none"
    BY DEF FsmInit
  <1>2. PICK task : task = [at |-> "free", name |-> State, visit |-> 0]
    OBVIOUS
  <1>3. timeouts = [timer |-> [n \in Slot |-> Nil], task |-> [t \in TimerId |-> task]]
    BY <1>2 DEF FsmInit
  <1>4. task \in [at : {"free", "armed", "cancelled", "elapsed", "sent"}, name : Slot, visit : Nat]
        /\ task.at = "free"
    BY <1>2 DEF Slot
  <1>5. timeouts \in TimeoutTable /\ \A t \in TimerId : timeouts.task[t] = task
    BY <1>3, <1>4 DEF TimeoutTable
  <1>6. QED
    BY <1>1, <1>4, <1>5 DEF FsmInv, OfVisit, Free

LEMMA InitFsmInv ==
    ASSUME FsmInv, InitFsm
    PROVE  FsmInv'
  <1>1. fsm = "none" /\ fsm' # "none" /\ visit' = visit /\ visit = 0
    BY DEF InitFsm, FsmInv
  <1>2. timeouts' = timeouts \/ timeouts' = SetTimeout(timeouts, State, 0)
    BY DEF InitFsm
  <1>3. State \in Slot /\ Free(timeouts) # {}
    BY <1>1, TimersAssumption DEF FsmInv, Slot, TimerId
  <1>4. timeouts' \in TimeoutTable /\ OfVisit(timeouts', 0)
    BY <1>1, <1>2, <1>3, SetKeeps DEF FsmInv
  <1>5. QED
    BY <1>1, <1>4 DEF FsmInv, OfVisit

\* A task that waits no longer needs no handle.
LEMMA TaskStepInv ==
    ASSUME FsmInv, NEW t \in TimerId, NEW from \in {"armed", "elapsed"},
           NEW to \in {"elapsed", "sent"}, TaskStep(t, from, to)
    PROVE  FsmInv'
  <1>1. /\ timeouts.task[t].at = from /\ visit' = visit /\ fsm' = fsm
        /\ timeouts' = [timeouts EXCEPT !.task[t].at = to]
    BY DEF TaskStep
  <1>2. timeouts \in TimeoutTable
    BY DEF FsmInv
  <1>3. /\ timeouts' = [timer |-> timeouts'.timer, task |-> timeouts'.task]
        /\ timeouts'.timer = timeouts.timer
        /\ timeouts'.task = [timeouts.task EXCEPT ![t] = [timeouts.task[t] EXCEPT !.at = to]]
    BY <1>1, <1>2 DEF TimeoutTable
  <1>4. PICK task : task = [timeouts.task[t] EXCEPT !.at = to]
    OBVIOUS
  <1>5. /\ task \in [at : {"free", "armed", "cancelled", "elapsed", "sent"}, name : Slot, visit : Nat]
        /\ task.at = to
    BY <1>2, <1>4 DEF TimeoutTable
  <1>6. /\ timeouts'.task \in [TimerId -> [at : {"free", "armed", "cancelled", "elapsed", "sent"},
                                               name : Slot, visit : Nat]]
        /\ timeouts'.task[t].at = to
        /\ \A u \in TimerId : u # t => timeouts'.task[u] = timeouts.task[u]
    BY <1>2, <1>3, <1>4, <1>5 DEF TimeoutTable
  <1>7. timeouts' \in TimeoutTable
    BY <1>2, <1>3, <1>6 DEF TimeoutTable
  <1>8. OfVisit(timeouts', visit')
    BY <1>1, <1>3, <1>6 DEF FsmInv, OfVisit
  <1>9. fsm # "none"
    BY <1>1 DEF FsmInv, Free
  <1>10. QED
    BY <1>1, <1>7, <1>8, <1>9 DEF FsmInv, OfVisit

LEMMA FsmNextInv == FsmInv /\ [FsmNext]_fsmVars => FsmInv'
  <1> SUFFICES ASSUME FsmInv, [FsmNext]_fsmVars PROVE FsmInv'
    OBVIOUS
  <1>1. CASE InitFsm
    BY <1>1, InitFsmInv
  <1>2. CASE UNCHANGED <<fsm, visit, timeouts>>
    BY <1>2 DEF FsmInv, OfVisit, Free
  <1>3. ASSUME NEW t \in TimerId, TimerElapses(t) \/ TimerSends(t) PROVE FsmInv'
    BY <1>3, TaskStepInv DEF TimerElapses, TimerSends
  <1>4. ASSUME fsm = "running", NEW e, NEW rest, HandleEvent(e, rest) PROVE FsmInv'
    BY <1>4, ResultsAreTimed, ResultInv DEF HandleEvent
  <1>5. CASE TakeMessage
    <2>1. fsm = "running"
      BY <1>5 DEF TakeMessage
    <2>2. ASSUME NEW m, NEW r \in CallResults(m.id),
                 ApplyResult(r, unanswered \cup {m.id}),
                 fsm' = IF r.stop THEN "over" ELSE fsm
          PROVE  FsmInv'
      BY <2>1, <2>2, ResultsAreTimed, ResultInv
    <2>3. QED
      BY <1>2, <1>4, <1>5, <2>1, <2>2 DEF TakeMessage
  <1>6. CASE TakePostponed
    BY <1>4, <1>6 DEF TakePostponed
  <1>7. QED
    BY <1>1, <1>2, <1>3, <1>5, <1>6
       DEF FsmNext, fsmVars, SendEvent, Call, CallReturns, TakeTimeout

(***************************************************************************)
(* Whatever the callbacks ask for, a timer task that waits is the one the  *)
(* manager has the handle of, and was started in the visit that still      *)
(* lasts: apply_timeouts cancels the others first, in every order of       *)
(* transition, state timeout and generic timeouts.  The bound on timers is *)
(* at least one, so that a machine can be started with a timeout.          *)
(***************************************************************************)
THEOREM TimeoutsAreOfVisit == FsmSpec => []TimeoutIsOfVisit
  <1>1. FsmInit => FsmInv
    BY FsmInitInv
  <1>2. FsmInv /\ [FsmNext]_fsmVars => FsmInv'
    BY FsmNextInv
  <1>3. FsmInv => TimeoutIsOfVisit
    BY DEF FsmInv, OfVisit, TimeoutIsOfVisit
  <1>4. QED
    BY <1>1, <1>2, <1>3, PTL DEF FsmSpec
-----------------------------------------------------------------------------
(***************************************************************************)
(* The request of the call that the caller waits for is in the mailbox of  *)
(* the machine, held by its callbacks, or answered, and nothing else that  *)
(* could be answered is anywhere.                                          *)
(***************************************************************************)
FsmMessage == [kind : {"event", "call"}, id : Nat, tries : Nat, in : Nat]
IsCall(m) == m.kind = "call"

Requested(q) == {i \in DOMAIN q : IsCall(q[i])}

\* k: the call that is waited for.
NothingAsked(q, held, replies) == Requested(q) = {} /\ held = {} /\ replies = <<>>
InMailbox(q, held, replies, k) ==
    /\ \E i \in DOMAIN q : q[i].id = k /\ Requested(q) = {i}
    /\ held = {} /\ replies = <<>>
IsHeld(q, held, replies, k) == Requested(q) = {} /\ held = {k} /\ replies = <<>>
IsAnswered(q, held, replies, k) == Requested(q) = {} /\ held = {} /\ replies = <<k>>

OneRequest(q, held, replies, k) ==
    \/ NothingAsked(q, held, replies)
    \/ /\ k # Nil
       /\ \/ InMailbox(q, held, replies, k)
          \/ IsHeld(q, held, replies, k)
          \/ IsAnswered(q, held, replies, k)

OwnAnswersInv ==
    /\ fsmMailbox \in Seq(FsmMessage)
    /\ asked \in Nat /\ nextCall \in Nat \ {0} /\ eventsSent \in Nat
    /\ \A i \in DOMAIN fsmMailbox : IsCall(fsmMailbox[i]) => fsmMailbox[i].id # Nil
    /\ ~timedOut =>
          answerOf = Nil /\ OneRequest(fsmMailbox, unanswered, callerMailbox, asked)

LEMMA RequestedAppended ==
    ASSUME NEW q \in Seq(FsmMessage), NEW m \in FsmMessage
    PROVE  /\ Append(q, m) \in Seq(FsmMessage)
           /\ \A i \in DOMAIN Append(q, m) :
                 (i \in DOMAIN q /\ Append(q, m)[i] = q[i]) \/ (i = Len(q) + 1 /\ Append(q, m)[i] = m)
           /\ Requested(Append(q, m)) = Requested(q) \cup (IF IsCall(m) THEN {Len(q) + 1} ELSE {})
           /\ Append(q, m)[Len(q) + 1] = m /\ Len(q) + 1 \in DOMAIN Append(q, m)
           /\ \A i \in DOMAIN q : i \in DOMAIN Append(q, m) /\ Append(q, m)[i] = q[i]
  BY DEF Requested

LEMMA RequestedTaken ==
    ASSUME NEW q \in Seq(FsmMessage), q # <<>>
    PROVE  /\ Tail(q) \in Seq(FsmMessage) /\ Head(q) \in FsmMessage
           /\ Head(q) = q[1] /\ 1 \in DOMAIN q
           /\ \A i \in DOMAIN Tail(q) : i \in Nat \ {0} /\ i + 1 \in DOMAIN q /\ Tail(q)[i] = q[i + 1]
           /\ \A i \in DOMAIN q : i = 1 \/ (i - 1 \in DOMAIN Tail(q) /\ i - 1 + 1 = i)
  OBVIOUS

\* One request fewer in the mailbox, if the first message is one.
LEMMA FirstTaken ==
    ASSUME NEW q \in Seq(FsmMessage), q # <<>>, NEW held, NEW replies, NEW k,
           OneRequest(q, held, replies, k)
    PROVE  /\ ~IsCall(Head(q)) => OneRequest(Tail(q), held, replies, k)
           /\ IsCall(Head(q)) =>
                 k # Nil /\ Head(q).id = k /\ NothingAsked(Tail(q), held, replies)
<1>1. /\ Head(q) = q[1] /\ 1 \in DOMAIN q
      /\ \A i \in DOMAIN Tail(q) : i \in Nat \ {0} /\ i + 1 \in DOMAIN q /\ Tail(q)[i] = q[i + 1]
      /\ \A i \in DOMAIN q : i = 1 \/ (i - 1 \in DOMAIN Tail(q) /\ i - 1 + 1 = i)
  BY RequestedTaken
<1>2. Requested(q) = {} => Requested(Tail(q)) = {}
  BY <1>1 DEF Requested
<1>3. IsCall(Head(q)) => 1 \in Requested(q)
  BY <1>1 DEF Requested
<1>4. ASSUME NEW i \in DOMAIN q, Requested(q) = {i}, q[i].id = k
      PROVE  /\ IsCall(Head(q)) => Head(q).id = k /\ Requested(Tail(q)) = {}
             /\ ~IsCall(Head(q)) =>
                   \E j \in DOMAIN Tail(q) : Tail(q)[j].id = k /\ Requested(Tail(q)) = {j}
  <2>1. ASSUME IsCall(Head(q)) PROVE Head(q).id = k /\ Requested(Tail(q)) = {}
    <3>1. i = 1
      BY <1>3, <1>4, <2>1
    <3>2. ASSUME NEW j \in DOMAIN Tail(q), IsCall(Tail(q)[j]) PROVE FALSE
      <4>1. j + 1 \in Requested(q) /\ j + 1 # 1
        BY <1>1, <3>2 DEF Requested
      <4> QED BY <4>1, <3>1, <1>4
    <3> QED BY <1>1, <1>4, <3>1, <3>2 DEF Requested
  <2>2. ASSUME ~IsCall(Head(q))
        PROVE \E j \in DOMAIN Tail(q) : Tail(q)[j].id = k /\ Requested(Tail(q)) = {j}
    <3>1. i # 1 /\ IsCall(q[i])
      BY <1>1, <1>4, <2>2 DEF Requested
    <3>2. PICK j \in DOMAIN Tail(q) : j + 1 = i
      BY <1>1, <3>1
    <3>3. Tail(q)[j] = q[i]
      BY <1>1, <3>2
    <3>4. ASSUME NEW l \in DOMAIN Tail(q), IsCall(Tail(q)[l]) PROVE l = j
      <4>1. l + 1 \in Requested(q)
        BY <1>1, <3>4 DEF Requested
      <4>2. l + 1 = j + 1
        BY <4>1, <1>4, <3>2
      <4> QED BY <4>2, <1>1
    <3>5. Requested(Tail(q)) = {j}
      BY <3>1, <3>3, <3>4 DEF Requested
    <3> QED BY <3>3, <3>5, <1>4
  <2> QED BY <2>1, <2>2
<1> QED
  BY <1>2, <1>3, <1>4 DEF OneRequest, NothingAsked, InMailbox, IsHeld, IsAnswered

\* A callback answers a call it holds, or none.
LEMMA ReplyMoves ==
    ASSUME NEW q, NEW held, NEW k, NEW reply \in held \cup {Nil}, Nil \notin held,
           NEW replies,
           NothingAsked(q, held, replies) \/ (k # Nil /\ IsHeld(q, held, replies, k))
    PROVE  OneRequest(q, held \ {reply}, IF reply = Nil THEN replies ELSE Append(replies, reply), k)
<1>1. CASE reply = Nil
  <2>1. held \ {reply} = held
    BY <1>1
  <2> QED BY <1>1, <2>1 DEF OneRequest
<1>2. CASE reply # Nil
  <2>1. IsHeld(q, held, replies, k) /\ reply = k /\ k # Nil
    BY <1>2 DEF NothingAsked, IsHeld
  <2>2. held \ {reply} = {} /\ Append(replies, reply) = <<k>>
    BY <2>1 DEF IsHeld
  <2> QED BY <1>2, <2>1, <2>2 DEF OneRequest, IsAnswered, IsHeld
<1> QED BY <1>1, <1>2

LEMMA AnswersStay == OwnAnswersInv /\ [FsmNext]_fsmVars => OwnAnswersInv'
<1> SUFFICES ASSUME OwnAnswersInv, [FsmNext]_fsmVars PROVE OwnAnswersInv'
  OBVIOUS
<1>0. Nil = 0
  BY DEF Nil
<1>1. CASE UNCHANGED <<fsmMailbox, asked, nextCall, eventsSent, unanswered, callerMailbox, answerOf,
                       timedOut>>
  BY <1>1 DEF OwnAnswersInv
<1>2. ASSUME NEW m \in FsmMessage, ~IsCall(m), fsmMailbox' = Append(fsmMailbox, m), eventsSent' \in Nat,
             UNCHANGED <<asked, nextCall, unanswered, callerMailbox, answerOf, timedOut>>
      PROVE  OwnAnswersInv'
  <2>1. fsmMailbox \in Seq(FsmMessage)
    BY DEF OwnAnswersInv
  <2>2. /\ fsmMailbox' \in Seq(FsmMessage)
        /\ \A i \in DOMAIN fsmMailbox' : (i \in DOMAIN fsmMailbox /\ fsmMailbox'[i] = fsmMailbox[i])
                                          \/ fsmMailbox'[i] = m
        /\ Requested(fsmMailbox') = Requested(fsmMailbox)
        /\ \A i \in DOMAIN fsmMailbox : i \in DOMAIN fsmMailbox' /\ fsmMailbox'[i] = fsmMailbox[i]
    <3>1. PICK longer : longer = Append(fsmMailbox, m)
      OBVIOUS
    <3>2. /\ longer \in Seq(FsmMessage)
          /\ \A i \in DOMAIN longer :
                (i \in DOMAIN fsmMailbox /\ longer[i] = fsmMailbox[i]) \/ longer[i] = m
          /\ Requested(longer) = Requested(fsmMailbox)
          /\ \A i \in DOMAIN fsmMailbox : i \in DOMAIN longer /\ longer[i] = fsmMailbox[i]
      <4>1. Requested(longer) = Requested(fsmMailbox) \cup {}
        BY <1>2, <2>1, <3>1, RequestedAppended
      <4> QED BY <1>2, <2>1, <3>1, <4>1, RequestedAppended
    <3> QED BY <1>2, <3>1, <3>2
  <2>3. OneRequest(fsmMailbox, unanswered, callerMailbox, asked)
          => OneRequest(fsmMailbox', unanswered, callerMailbox, asked)
    BY <2>2 DEF OneRequest, NothingAsked, InMailbox, IsHeld, IsAnswered
  <2> QED BY <1>2, <2>2, <2>3 DEF OwnAnswersInv
<1>3. CASE SendEvent
  <2>1. Event(eventsSent + 1) \in FsmMessage /\ ~IsCall(Event(eventsSent + 1))
    BY <1>0 DEF OwnAnswersInv, Event, FsmMessage, IsCall
  <2> QED BY <1>2, <1>3, <2>1 DEF SendEvent, OwnAnswersInv
<1>4. CASE TakeTimeout
  <2>1. Event(Nil) \in FsmMessage /\ ~IsCall(Event(Nil))
    BY <1>0 DEF Event, FsmMessage, IsCall
  <2> QED BY <1>2, <1>4, <2>1 DEF TakeTimeout, OwnAnswersInv
<1>5. CASE Call
  <2>1. PICK m : m = CallMsg(nextCall)
    OBVIOUS
  <2>2. m \in FsmMessage /\ IsCall(m) /\ m.id = nextCall /\ nextCall # Nil
    BY <1>0, <2>1 DEF OwnAnswersInv, CallMsg, FsmMessage, IsCall
  <2>3. fsmMailbox \in Seq(FsmMessage) /\ fsmMailbox' = Append(fsmMailbox, m)
    BY <1>5, <2>1 DEF Call, OwnAnswersInv
  <2>4. /\ fsmMailbox' \in Seq(FsmMessage)
        /\ \A i \in DOMAIN fsmMailbox' : (i \in DOMAIN fsmMailbox /\ fsmMailbox'[i] = fsmMailbox[i])
                                          \/ fsmMailbox'[i] = m
        /\ Requested(fsmMailbox') = Requested(fsmMailbox) \cup {Len(fsmMailbox) + 1}
        /\ fsmMailbox'[Len(fsmMailbox) + 1] = m /\ Len(fsmMailbox) + 1 \in DOMAIN fsmMailbox'
    BY <2>2, <2>3, RequestedAppended
  <2>5. ASSUME ~timedOut PROVE OneRequest(fsmMailbox', unanswered', callerMailbox', asked')
    <3>1. NothingAsked(fsmMailbox, unanswered, callerMailbox)
      BY <1>5, <2>5 DEF OwnAnswersInv, OneRequest, Call
    <3>2. Requested(fsmMailbox') = {Len(fsmMailbox) + 1}
      BY <2>4, <3>1 DEF NothingAsked
    <3>3. asked' = nextCall /\ unanswered' = {} /\ callerMailbox' = <<>>
      BY <1>5, <3>1 DEF Call, NothingAsked
    <3> QED BY <2>2, <2>4, <3>2, <3>3 DEF OneRequest, InMailbox
  <2>6. asked' \in Nat /\ nextCall' \in Nat \ {0} /\ eventsSent' \in Nat
    BY <1>5 DEF Call, OwnAnswersInv
  <2>7. UNCHANGED <<timedOut, answerOf>>
    BY <1>5 DEF Call
  <2> QED BY <2>2, <2>4, <2>5, <2>6, <2>7 DEF OwnAnswersInv
<1>6. CASE CallReturns
  <2>1. UNCHANGED <<fsmMailbox, nextCall, eventsSent, unanswered>> /\ asked' = Nil /\ asked # Nil
    BY <1>6 DEF CallReturns
  <2>2. ASSUME ~timedOut'
        PROVE  answerOf' = Nil /\ OneRequest(fsmMailbox', unanswered', callerMailbox', asked')
    <3>1. /\ ~timedOut /\ callerMailbox # <<>> /\ callerMailbox' = Tail(callerMailbox)
          /\ answerOf' = IF Head(callerMailbox) = asked THEN answerOf ELSE Head(callerMailbox)
      BY <1>6, <2>2 DEF CallReturns
    <3>2. answerOf = Nil /\ IsAnswered(fsmMailbox, unanswered, callerMailbox, asked)
      BY <3>1 DEF OwnAnswersInv, OneRequest, NothingAsked, InMailbox, IsHeld
    <3>3. Head(callerMailbox) = asked /\ Tail(callerMailbox) = <<>>
      BY <3>2 DEF IsAnswered
    <3>4. answerOf' = Nil /\ NothingAsked(fsmMailbox', unanswered', callerMailbox')
      BY <2>1, <3>1, <3>2, <3>3 DEF IsAnswered, NothingAsked
    <3> QED BY <3>4 DEF OneRequest
  <2> QED BY <1>0, <2>1, <2>2 DEF OwnAnswersInv
<1>7. ASSUME NEW r, NEW held, NEW q \in Seq(FsmMessage),
             ApplyResult(r, held), r.reply \in held \cup {Nil},
             fsmMailbox' = q, \A i \in DOMAIN q : IsCall(q[i]) => q[i].id # Nil,
             UNCHANGED <<eventsSent, nextCall, asked, answerOf, timedOut>>,
             ~timedOut => /\ Nil \notin held
                          /\ \/ OneRequest(q, held, callerMailbox, asked) /\ r.reply \notin held
                             \/ NothingAsked(q, held, callerMailbox)
                             \/ asked # Nil /\ IsHeld(q, held, callerMailbox, asked)
      PROVE  OwnAnswersInv'
  <2>1. /\ unanswered' = held \ {r.reply}
        /\ callerMailbox' = IF r.reply = Nil THEN callerMailbox ELSE Append(callerMailbox, r.reply)
    BY <1>7 DEF ApplyResult
  <2>2. ASSUME ~timedOut PROVE OneRequest(q, unanswered', callerMailbox', asked)
    <3>1. CASE r.reply \notin held
      <4>1. r.reply = Nil /\ held \ {r.reply} = held
        BY <1>7, <3>1
      <4> QED BY <1>7, <2>1, <2>2, <4>1 DEF OneRequest
    <3>2. CASE r.reply \in held
      BY <1>7, <2>1, <2>2, <3>2, ReplyMoves
    <3> QED BY <3>1, <3>2
  <2> QED BY <1>7, <2>2 DEF OwnAnswersInv
<1>8. ASSUME ~timedOut
      PROVE  /\ OneRequest(fsmMailbox, unanswered, callerMailbox, asked) /\ Nil \notin unanswered
             /\ unanswered # {} => asked # Nil /\ IsHeld(fsmMailbox, unanswered, callerMailbox, asked)
  BY <1>8 DEF OwnAnswersInv, OneRequest, NothingAsked, InMailbox, IsHeld, IsAnswered
<1>9. ASSUME NEW r \in EventResults PROVE r.reply \in unanswered \cup {Nil}
  BY <1>9 DEF EventResults, Result
<1>10. CASE TakePostponed
  <2>1. PICK r \in EventResults : ApplyResult(r, unanswered)
    BY <1>10 DEF TakePostponed, HandleEvent
  <2>2. UNCHANGED <<fsmMailbox, eventsSent, nextCall, asked, answerOf, timedOut>>
    BY <1>10 DEF TakePostponed
  <2>3. /\ fsmMailbox \in Seq(FsmMessage)
        /\ \A i \in DOMAIN fsmMailbox : IsCall(fsmMailbox[i]) => fsmMailbox[i].id # Nil
    BY DEF OwnAnswersInv
  <2>4. r.reply \in unanswered \cup {Nil}
    BY <1>9
  <2> QED BY <1>7, <1>8, <2>1, <2>2, <2>3, <2>4
<1>11. CASE TakeMessage
  <2>1. PICK m : m = Head(fsmMailbox)
    OBVIOUS
  <2>2. PICK q : q = Tail(fsmMailbox)
    OBVIOUS
  <2>3. fsmMailbox \in Seq(FsmMessage) /\ fsmMailbox # <<>> /\ fsmMailbox' = q
        /\ UNCHANGED <<eventsSent, nextCall, asked, answerOf, timedOut>>
    BY <1>11, <2>2 DEF TakeMessage, OwnAnswersInv
  <2>4. /\ q \in Seq(FsmMessage) /\ m \in FsmMessage /\ (IsCall(m) => m.id # Nil)
        /\ \A i \in DOMAIN q : IsCall(q[i]) => q[i].id # Nil
    <3>1. /\ Tail(fsmMailbox) \in Seq(FsmMessage) /\ Head(fsmMailbox) \in FsmMessage
          /\ Head(fsmMailbox) = fsmMailbox[1] /\ 1 \in DOMAIN fsmMailbox
          /\ \A i \in DOMAIN Tail(fsmMailbox) :
                i + 1 \in DOMAIN fsmMailbox /\ Tail(fsmMailbox)[i] = fsmMailbox[i + 1]
      BY <2>3, RequestedTaken
    <3> QED BY <2>1, <2>2, <3>1 DEF OwnAnswersInv
  <2>5. ASSUME ~timedOut
        PROVE  /\ ~IsCall(m) => OneRequest(q, unanswered, callerMailbox, asked)
               /\ IsCall(m) => asked # Nil /\ m.id = asked /\ NothingAsked(q, unanswered, callerMailbox)
    BY <1>8, <2>1, <2>2, <2>3, <2>5, FirstTaken
  <2>6. CASE m.kind = "event" /\ HandleEvent(m, postponed)
    <3>1. PICK r \in EventResults : ApplyResult(r, unanswered)
      BY <2>6 DEF HandleEvent
    <3>2. r.reply \in unanswered \cup {Nil}
      BY <1>9
    <3>3. ASSUME ~timedOut
          PROVE  /\ Nil \notin unanswered
                 /\ \/ OneRequest(q, unanswered, callerMailbox, asked) /\ r.reply \notin unanswered
                    \/ NothingAsked(q, unanswered, callerMailbox)
                    \/ asked # Nil /\ IsHeld(q, unanswered, callerMailbox, asked)
      <4>1. OneRequest(q, unanswered, callerMailbox, asked) /\ Nil \notin unanswered
        BY <1>8, <2>5, <2>6, <3>3 DEF IsCall
      <4>2. unanswered # {} => asked # Nil /\ IsHeld(q, unanswered, callerMailbox, asked)
        BY <4>1 DEF OneRequest, NothingAsked, InMailbox, IsHeld, IsAnswered
      <4> QED BY <4>1, <4>2
    <3> QED BY <1>7, <2>3, <2>4, <3>1, <3>2, <3>3
  <2>7. ASSUME m.kind = "call", NEW r \in CallResults(m.id), ApplyResult(r, unanswered \cup {m.id})
        PROVE  OwnAnswersInv'
    <3>1. PICK held : held = unanswered \cup {m.id}
      OBVIOUS
    <3>2. r.reply \in held \cup {Nil} /\ ApplyResult(r, held)
      BY <2>7, <3>1 DEF CallResults, Result
    <3>3. ASSUME ~timedOut
          PROVE  Nil \notin held /\ asked # Nil /\ IsHeld(q, held, callerMailbox, asked)
      BY <2>4, <2>5, <2>7, <3>1, <3>3 DEF IsCall, NothingAsked, IsHeld
    <3> QED BY <1>7, <2>3, <2>4, <3>2, <3>3
  <2>8. CASE m = Event(Nil) /\ UNCHANGED <<callerMailbox, unanswered>>
    <3>1. ~IsCall(m)
      BY <2>8 DEF Event, IsCall
    <3> QED BY <2>3, <2>4, <2>5, <2>8, <3>1 DEF OwnAnswersInv
  <2>9. \/ m.kind = "event" /\ HandleEvent(m, postponed)
        \/ m.kind = "call" /\ \E r \in CallResults(m.id) : ApplyResult(r, unanswered \cup {m.id})
        \/ m = Event(Nil) /\ UNCHANGED <<callerMailbox, unanswered>>
    BY <1>11, <2>1 DEF TakeMessage
  <2> QED BY <2>6, <2>7, <2>8, <2>9
<1>12. CASE InitFsm
  BY <1>1, <1>12 DEF InitFsm
<1>13. ASSUME NEW t \in TimerId, TimerElapses(t) \/ TimerSends(t) PROVE OwnAnswersInv'
  BY <1>1, <1>13 DEF TimerElapses, TimerSends, TaskStep
<1>14. CASE UNCHANGED fsmVars
  BY <1>1, <1>14 DEF fsmVars
<1> QED
  BY <1>3, <1>4, <1>5, <1>6, <1>10, <1>11, <1>12, <1>13, <1>14 DEF FsmNext

(***************************************************************************)
(* call takes the first reply for its own without looking at its           *)
(* reference; yet as long as no call has timed out it returns its own      *)
(* answer, however late and in whatever callback the machine gives it.     *)
(***************************************************************************)
THEOREM FsmAnswersAreOwn == FsmSpec => []AnswerIsOwn
<1>1. FsmInit => OwnAnswersInv
  BY DEF FsmInit, OwnAnswersInv, OneRequest, NothingAsked, Requested, Nil
<1>2. OwnAnswersInv => AnswerIsOwn
  BY DEF OwnAnswersInv, AnswerIsOwn
<1> QED
  BY <1>1, <1>2, AnswersStay, PTL DEF FsmSpec
-----------------------------------------------------------------------------
(***************************************************************************)
(* Channels.  A session that lives is in the group of a topic as long as   *)
(* the topic is joined or its terminate callback runs, and in no other;    *)
(* and each push it is owed is in its mailbox, in its hands or has reached *)
(* the client, at one of these places once.                                *)
(***************************************************************************)
Letter == [topic : Topic \cup {NoTopic}, id : Nat]
Doing == [op : Ops, topic : Topic \cup {NoTopic}, push : Nat, answers : SUBSET Topic,
          keyed : BOOLEAN]

ChannelTypes ==
    /\ life \in [Session -> {"open", "closing", "closed", "killed"}]
    /\ doing \in [Session -> Doing]
    /\ channels \in [Session -> SUBSET Topic]
    /\ group \in [Topic -> SUBSET Session]
    /\ mailbox \in [Session -> Seq(Letter)]
    /\ pushed \in [Session -> Seq(Nat)]
    /\ owed \in [Session -> SUBSET Nat]
    /\ broadcasts \in Nat

Busy(s) ==
    /\ channels[s] # {} \/ doing[s].op # "none" => Alive(s)
    /\ doing[s].op \in {"join", "event", "leave", "stop", "terminate"} => doing[s].topic \in Topic

Member(s, t) ==
    /\ t \in channels[s] => s \in group[t]
    /\ s \in group[t] /\ Alive(s) => t \in channels[s] \/ Leaving(s, t)
    /\ Leaving(s, t) => t \notin channels[s]
    /\ life[s] = "closed" => s \notin group[t]

\* The message a session handles, and what it is owed while its client is connected.
InHand(d) == IF d.op \in {"info", "answer"} THEN {[topic |-> d.topic, id |-> d.push]} ELSE {}
Due(s) == IF s \in wire /\ life[s] = "open" THEN owed[s] ELSE {}

InMail(x, mb) == \E i \in 1 .. Len(mb) : mb[i].id = x /\ mb[i].topic # NoTopic
InHands(x, w) == \E m \in w : m.id = x /\ m.topic # NoTopic

\* mb: the mailbox, w: the message in hand, p: what was pushed, o: what is due.
Once(mb, w, p) ==
    /\ \A i \in 1 .. Len(mb) : mb[i].id \notin Range(p)
    /\ \A i \in 1 .. Len(mb) : \A m \in w : m.id # mb[i].id
    /\ \A i, j \in 1 .. Len(mb) : mb[i].id = mb[j].id => i = j
    /\ \A m \in w : m.id \notin Range(p)
    /\ \A i, j \in 1 .. Len(p) : p[i] = p[j] => i = j

Sent(mb, w, p, o, b) ==
    /\ \A i \in 1 .. Len(mb) : mb[i].id \in 1 .. b
    /\ \A m \in w : m.id \in 1 .. b
    /\ Range(p) \subseteq 1 .. b
    /\ o \subseteq 1 .. b

Reaches(mb, w, p, o) == \A x \in o : x \in Range(p) \/ InHands(x, w) \/ InMail(x, mb)

Delivery(mb, w, p, o, b) == Once(mb, w, p) /\ Sent(mb, w, p, o, b) /\ Reaches(mb, w, p, o)

Delivers(s) == Delivery(mailbox[s], InHand(doing[s]), pushed[s], Due(s), broadcasts)

ChannelInv ==
    /\ ChannelTypes
    /\ strays = {}
    /\ \A s \in Session : Busy(s)
    /\ \A s \in Session, t \in Topic : Member(s, t)
    /\ \A s \in Session : Delivers(s)

LEMMA RangeIs == ASSUME NEW p \in Seq(Nat) PROVE Range(p) = {p[i] : i \in 1 .. Len(p)}
  BY DEF Range

LEMMA RangeGrows ==
    ASSUME NEW p \in Seq(Nat), NEW x \in Nat
    PROVE  Range(Append(p, x)) = Range(p) \cup {x}
  <1> DEFINE q == Append(p, x)
  <1>1. /\ q \in Seq(Nat)
        /\ Len(q) = Len(p) + 1
        /\ \A i \in 1 .. Len(p) : q[i] = p[i]
        /\ q[Len(p) + 1] = x
    OBVIOUS
  <1>2. Range(q) = {q[i] : i \in 1 .. Len(q)} /\ Range(p) = {p[i] : i \in 1 .. Len(p)}
    BY <1>1, RangeIs
  <1>3. ASSUME NEW y \in Range(q) PROVE y \in Range(p) \cup {x}
    <2>1. PICK i \in 1 .. Len(q) : y = q[i]
      BY <1>2
    <2>2. CASE i \in 1 .. Len(p)
      BY <1>1, <1>2, <2>1, <2>2
    <2>3. CASE i = Len(p) + 1
      BY <1>1, <2>1, <2>3
    <2>4. QED
      BY <1>1, <2>2, <2>3
  <1>4. ASSUME NEW y \in Range(p) PROVE y \in Range(q)
    <2>1. PICK i \in 1 .. Len(p) : y = p[i]
      BY <1>2
    <2>2. y = q[i] /\ i \in 1 .. Len(q)
      BY <1>1, <2>1
    <2>3. QED
      BY <1>2, <2>2
  <1>5. x \in Range(q)
    <2>1. Len(p) + 1 \in 1 .. Len(q)
      BY <1>1
    <2>2. QED
      BY <1>1, <1>2, <2>1
  <1>6. QED
    BY <1>3, <1>4, <1>5

\* A push, or another message, is sent to the session.
LEMMA LetterSent ==
    ASSUME NEW mb \in Seq(Letter), NEW w \in SUBSET Letter, NEW p \in Seq(Nat),
           NEW o \in SUBSET Nat, NEW b \in Nat, NEW t \in Topic \cup {NoTopic},
           Delivery(mb, w, p, o, b)
    PROVE  LET more == Append(mb, [topic |-> t, id |-> b + 1])
           IN /\ more \in Seq(Letter)
              /\ Delivery(more, w, p, o, b + 1)
              /\ t # NoTopic => Delivery(more, w, p, o \cup {b + 1}, b + 1)
  <1> DEFINE m == [topic |-> t, id |-> b + 1]
             more == Append(mb, m)
  <1>1. m \in Letter /\ m.id = b + 1 /\ m.topic = t
    BY DEF Letter
  <1>2. /\ more \in Seq(Letter)
        /\ Len(more) = Len(mb) + 1
        /\ \A i \in 1 .. Len(mb) : more[i] = mb[i]
        /\ more[Len(mb) + 1] = m
    BY <1>1
  <1> HIDE DEF m, more
  <1>3. Len(mb) \in Nat /\ \A i \in 1 .. Len(more) : i \in 1 .. Len(mb) \/ i = Len(mb) + 1
    BY <1>2
  <1>4. \A i \in 1 .. Len(mb) : mb[i] \in Letter /\ mb[i].id \in Nat
    <2>1. \A i \in 1 .. Len(mb) : mb[i] \in Letter
      OBVIOUS
    <2>2. \A n \in Letter : n.id \in Nat
      BY DEF Letter
    <2>3. QED
      BY <2>1, <2>2
  <1>5. \A n \in w : n.id \in Nat
    <2>1. \A n \in Letter : n.id \in Nat
      BY DEF Letter
    <2>2. QED
      BY <2>1
  <1>6. Once(more, w, p)
    <2>1. b + 1 \notin Range(p) /\ (\A n \in w : n.id # b + 1) /\ \A i \in 1 .. Len(mb) : mb[i].id # b + 1
      BY <1>4, <1>5 DEF Delivery, Sent
    <2>2. \A i \in 1 .. Len(more) : more[i].id \notin Range(p)
      BY <1>1, <1>2, <1>3, <2>1 DEF Delivery, Once
    <2>3. \A i \in 1 .. Len(more) : \A n \in w : n.id # more[i].id
      BY <1>1, <1>2, <1>3, <2>1 DEF Delivery, Once
    <2>4. \A i, j \in 1 .. Len(more) : more[i].id = more[j].id => i = j
      BY <1>1, <1>2, <1>3, <2>1 DEF Delivery, Once
    <2>5. QED
      BY <2>2, <2>3, <2>4 DEF Delivery, Once
  <1>7. Sent(more, w, p, o \cup {b + 1}, b + 1)
    <2>1. \A x \in 1 .. b : x \in 1 .. (b + 1)
      OBVIOUS
    <2>2. b + 1 \in 1 .. (b + 1)
      OBVIOUS
    <2>3. \A i \in 1 .. Len(more) : more[i].id \in 1 .. (b + 1)
      BY <1>1, <1>2, <1>3, <2>1, <2>2 DEF Delivery, Sent
    <2>4. QED
      BY <2>1, <2>2, <2>3 DEF Delivery, Sent
  <1>8. Sent(more, w, p, o, b + 1)
    BY <1>7 DEF Sent
  <1>9. \A x : InMail(x, mb) => InMail(x, more)
    BY <1>2 DEF InMail
  <1>10. Reaches(more, w, p, o)
    BY <1>9 DEF Delivery, Reaches
  <1>11. t # NoTopic => InMail(b + 1, more)
    <2>1. Len(mb) + 1 \in 1 .. Len(more)
      BY <1>2, <1>3
    <2>2. QED
      BY <1>1, <1>2, <2>1 DEF InMail
  <1>12. t # NoTopic => Reaches(more, w, p, o \cup {b + 1})
    BY <1>10, <1>11 DEF Reaches
  <1>13. QED
    BY <1>2, <1>6, <1>7, <1>8, <1>10, <1>12 DEF Delivery, m, more

LEMMA OthersSent ==
    ASSUME NEW mb \in Seq(Letter), NEW w \in SUBSET Letter, NEW p \in Seq(Nat),
           NEW o \in SUBSET Nat, NEW b \in Nat, Delivery(mb, w, p, o, b)
    PROVE  Delivery(mb, w, p, o, b + 1)
  <1>1. \A x \in 1 .. b : x \in 1 .. (b + 1)
    OBVIOUS
  <1>2. QED
    BY <1>1 DEF Delivery, Sent

\* Less is due.
LEMMA LessDue ==
    ASSUME NEW mb, NEW w, NEW p, NEW o, NEW b, NEW less \in SUBSET o, Delivery(mb, w, p, o, b)
    PROVE  Delivery(mb, w, p, less, b)
  BY DEF Delivery, Sent, Reaches

\* Nothing is due.
LEMMA NoneDue ==
    ASSUME NEW mb, NEW w, NEW p, NEW o, NEW b, Delivery(mb, w, p, o, b)
    PROVE  /\ Delivery(mb, {}, p, {}, b)
           /\ Delivery(<<>>, {}, p, {}, b)
  BY DEF Delivery, Once, Sent, Reaches

LEMMA LetterTaken ==
    ASSUME NEW mb \in Seq(Letter), NEW p \in Seq(Nat),
           NEW o \in SUBSET Nat, NEW b \in Nat, mb # <<>>, Delivery(mb, {}, p, o, b)
    PROVE  Delivery(Tail(mb), {Head(mb)}, p, o, b)
  <1> DEFINE rest == Tail(mb)
  <1>1. /\ rest \in Seq(Letter)
        /\ Len(rest) + 1 = Len(mb)
        /\ \A i \in 1 .. Len(rest) : rest[i] = mb[i + 1]
        /\ Head(mb) = mb[1]
        /\ Len(mb) \in Nat /\ Len(rest) \in Nat /\ Len(mb) > 0
    OBVIOUS
  <1> HIDE DEF rest
  <1>2. \A i \in 1 .. Len(rest) : i + 1 \in 1 .. Len(mb) /\ i + 1 # 1
    BY <1>1
  <1>3. 1 \in 1 .. Len(mb)
    BY <1>1
  <1>4. Once(rest, {Head(mb)}, p)
    <2>1. \A i \in 1 .. Len(rest) : rest[i].id \notin Range(p) /\ mb[1].id # rest[i].id
      BY <1>1, <1>2, <1>3 DEF Delivery, Once
    <2>2. ASSUME NEW i \in 1 .. Len(rest), NEW j \in 1 .. Len(rest), rest[i].id = rest[j].id
          PROVE  i = j
      <3>1. i + 1 = j + 1
        BY <1>1, <1>2, <2>2 DEF Delivery, Once
      <3>2. QED
        BY <3>1
    <2>3. QED
      BY <1>1, <1>3, <2>1, <2>2 DEF Delivery, Once
  <1>5. Sent(rest, {Head(mb)}, p, o, b)
    BY <1>1, <1>2, <1>3 DEF Delivery, Sent
  <1>6. Reaches(rest, {Head(mb)}, p, o)
    <2>1. ASSUME NEW x, InMail(x, mb) PROVE InMail(x, rest) \/ InHands(x, {Head(mb)})
      <3>1. PICK i \in 1 .. Len(mb) : mb[i].id = x /\ mb[i].topic # NoTopic
        BY <2>1 DEF InMail
      <3>2. CASE i = 1
        BY <1>1, <3>1, <3>2 DEF InHands
      <3>3. CASE i # 1
        <4>1. i - 1 \in 1 .. Len(rest) /\ (i - 1) + 1 = i
          BY <1>1, <3>3
        <4>2. QED
          BY <1>1, <3>1, <4>1 DEF InMail
      <3>4. QED
        BY <3>2, <3>3
    <2>2. QED
      BY <2>1 DEF Delivery, Reaches, InHands
  <1>7. QED
    BY <1>4, <1>5, <1>6 DEF Delivery, rest

LEMMA LetterPushed ==
    ASSUME NEW mb \in Seq(Letter), NEW m \in Letter, NEW p \in Seq(Nat),
           NEW o \in SUBSET Nat, NEW b \in Nat, Delivery(mb, {m}, p, o, b)
    PROVE  /\ Delivery(mb, {}, Append(p, m.id), o, b)
           /\ m.topic = NoTopic => Delivery(mb, {}, p, o, b)
  <1> DEFINE q == Append(p, m.id)
  <1>1. m.id \in Nat
    BY DEF Letter
  <1>2. Range(q) = Range(p) \cup {m.id}
    BY <1>1, RangeGrows
  <1>3. /\ q \in Seq(Nat)
        /\ Len(q) = Len(p) + 1
        /\ \A i \in 1 .. Len(p) : q[i] = p[i]
        /\ q[Len(p) + 1] = m.id
        /\ Len(p) \in Nat
        /\ \A i \in 1 .. Len(q) : i \in 1 .. Len(p) \/ i = Len(p) + 1
    BY <1>1
  <1> HIDE DEF q
  <1>4. Once(mb, {}, q)
    <2>1. \A i \in 1 .. Len(p) : p[i] # m.id
      BY RangeIs DEF Delivery, Once
    <2>2. \A i, j \in 1 .. Len(q) : q[i] = q[j] => i = j
      BY <1>3, <2>1 DEF Delivery, Once
    <2>3. \A i \in 1 .. Len(mb) : mb[i].id \notin Range(q)
      BY <1>2 DEF Delivery, Once
    <2>4. QED
      BY <2>2, <2>3 DEF Delivery, Once
  <1>5. Sent(mb, {}, q, o, b)
    BY <1>2 DEF Delivery, Sent
  <1>6. Reaches(mb, {}, q, o)
    BY <1>2 DEF Delivery, Reaches, InHands
  <1>7. m.topic = NoTopic => Delivery(mb, {}, p, o, b)
    BY DEF Delivery, Once, Sent, Reaches, InHands
  <1>8. QED
    BY <1>4, <1>5, <1>6, <1>7 DEF Delivery, q

\* What is sent again comes after the rest.
LEMMA LettersTurned ==
    ASSUME NEW mb \in Seq(Letter), NEW w, NEW p, NEW o, NEW b,
           NEW k \in 1 .. Len(mb) - 1, Delivery(mb, w, p, o, b)
    PROVE  LET turned == SubSeq(mb, k + 1, Len(mb)) \o SubSeq(mb, 1, k)
           IN turned \in Seq(Letter) /\ Delivery(turned, w, p, o, b)
  <1> DEFINE n == Len(mb)
             l == SubSeq(mb, k + 1, n)
             r == SubSeq(mb, 1, k)
             turned == l \o r
             from(i) == IF i <= n - k THEN i + k ELSE i - (n - k)
  <1>1. n \in Nat /\ k \in Nat /\ k < n /\ k >= 1
    OBVIOUS
  <1>2. /\ l \in Seq(Letter) /\ Len(l) = n - k
        /\ \A i \in 1 .. n - k : l[i] = mb[i + k]
    <2>1. l \in Seq(Letter) /\ Len(l) = n - k
      BY <1>1
    <2>2. ASSUME NEW i \in 1 .. n - k PROVE l[i] = mb[i + k]
      <3>1. l[i] = mb[(k + 1) + i - 1]
        BY <1>1
      <3>2. (k + 1) + i - 1 = i + k
        BY <1>1
      <3>3. QED
        BY <3>1, <3>2
    <2>3. QED
      BY <2>1, <2>2
  <1>3. /\ r \in Seq(Letter) /\ Len(r) = k
        /\ \A i \in 1 .. k : r[i] = mb[i]
    BY <1>1
  <1>4. /\ turned \in Seq(Letter) /\ Len(turned) = n
        /\ \A i \in 1 .. n : turned[i] = mb[from(i)]
    <2> HIDE DEF l, r
    <2>1. turned \in Seq(Letter) /\ Len(turned) = n
      BY <1>1, <1>2, <1>3
    <2>2. ASSUME NEW i \in 1 .. n PROVE turned[i] = mb[from(i)]
      <3>1. CASE i <= n - k
        BY <1>1, <1>2, <1>3, <3>1
      <3>2. CASE ~ (i <= n - k)
        <4>1. turned[i] = r[i - (n - k)]
          BY <1>1, <1>2, <1>3, <3>2
        <4>2. i - (n - k) \in 1 .. k
          BY <1>1, <3>2
        <4>3. QED
          BY <1>3, <3>2, <4>1, <4>2
      <3>3. QED
        BY <3>1, <3>2
    <2>3. QED
      BY <2>1, <2>2
  <1>5. \A i \in 1 .. n : from(i) \in 1 .. n
    BY <1>1
  <1>6. \A i, j \in 1 .. n : from(i) = from(j) => i = j
    BY <1>1
  <1>7. \A i \in 1 .. n : \E j \in 1 .. n : from(j) = i
    <2> TAKE i \in 1 .. n
    <2>1. CASE i > k
      <3>1. i - k \in 1 .. n /\ from(i - k) = i
        BY <1>1, <2>1
      <3>2. QED
        BY <3>1
    <2>2. CASE i <= k
      <3>1. i + (n - k) \in 1 .. n /\ from(i + (n - k)) = i
        BY <1>1, <2>2
      <3>2. QED
        BY <3>1
    <2>3. QED
      BY <1>1, <2>1, <2>2
  <1> HIDE DEF turned, from, n
  <1>8. Len(mb) = n
    BY DEF n
  <1>9. Once(turned, w, p)
    BY <1>4, <1>5, <1>6, <1>8 DEF Delivery, Once
  <1>10. Sent(turned, w, p, o, b)
    BY <1>4, <1>5, <1>8 DEF Delivery, Sent
  <1>11. ASSUME NEW x, InMail(x, mb) PROVE InMail(x, turned)
    <2>1. PICK i \in 1 .. n : mb[i].id = x /\ mb[i].topic # NoTopic
      BY <1>8, <1>11 DEF InMail
    <2>2. PICK j \in 1 .. n : from(j) = i
      BY <1>7
    <2>3. turned[j] = mb[i] /\ j \in 1 .. Len(turned)
      BY <1>4, <2>2
    <2>4. QED
      BY <2>1, <2>3 DEF InMail
  <1>12. QED
    BY <1>4, <1>9, <1>10, <1>11 DEF Delivery, Reaches, turned, n

-----------------------------------------------------------------------------
LEMMA ChannelInitInv == ChannelInit => ChannelInv
  <1> SUFFICES ASSUME ChannelInit PROVE ChannelInv
    OBVIOUS
  <1> USE DEF ChannelInit
  <1>1. Nothing \in Doing /\ Nothing.op = "none" /\ InHand(Nothing) = {}
    BY DEF Nothing, Doing, Ops, InHand
  <1>2. ChannelTypes
    BY <1>1 DEF ChannelTypes
  <1>3. \A s \in Session : Busy(s)
    BY <1>1 DEF Busy, Alive
  <1>4. \A s \in Session, t \in Topic : Member(s, t)
    BY <1>1 DEF Member, Leaving
  <1>5. ASSUME NEW s \in Session PROVE Delivers(s)
    <2>1. mailbox[s] = <<>> /\ pushed[s] = <<>> /\ InHand(doing[s]) = {} /\ Due(s) = {}
      BY <1>1 DEF Due
    <2>2. Range(<<>>) = {}
      BY DEF Range
    <2>3. Delivery(<<>>, {}, <<>>, {}, broadcasts)
      BY <2>2 DEF Delivery, Once, Sent, Reaches
    <2>4. QED
      BY <2>1, <2>3 DEF Delivers
  <1>6. QED
    BY <1>2, <1>3, <1>4, <1>5 DEF ChannelInv

\* What a session has in its hands is a message.
LEMMA HandIs ==
    ASSUME ChannelInv, NEW s \in Session
    PROVE  /\ doing[s] \in Doing
           /\ InHand(doing[s]) \in SUBSET Letter
           /\ mailbox[s] \in Seq(Letter) /\ pushed[s] \in Seq(Nat)
           /\ Due(s) \in SUBSET Nat /\ owed[s] \in SUBSET Nat
           /\ broadcasts \in Nat
  <1>1. doing[s] \in Doing
    BY DEF ChannelInv, ChannelTypes
  <1>2. doing[s].topic \in Topic \cup {NoTopic} /\ doing[s].push \in Nat
    BY <1>1 DEF Doing
  <1>3. [topic |-> doing[s].topic, id |-> doing[s].push] \in Letter
    BY <1>2 DEF Letter
  <1>4. QED
    BY <1>1, <1>3 DEF ChannelInv, ChannelTypes, InHand, Due

(***************************************************************************)
(* A broadcast: who is owed the push is sent it, and nobody else.          *)
(***************************************************************************)
LEMMA BroadcastDelivers ==
    ASSUME ChannelInv, NEW t \in Topic, NEW excluded \in SUBSET Session, Broadcast(t, excluded),
           UNCHANGED <<life, wire>>
    PROVE  /\ strays' = {}
           /\ mailbox' \in [Session -> Seq(Letter)]
           /\ owed' \in [Session -> SUBSET Nat]
           /\ broadcasts' \in Nat
           /\ \A s \in Session :
                 Delivery(mailbox'[s], InHand(doing[s]), pushed[s], Due(s)', broadcasts')
  <1> DEFINE living == {s \in MembersBut(t, excluded) : Alive(s)}
             letter == [topic |-> t, id |-> broadcasts + 1]
  <1>1. /\ broadcasts' = broadcasts + 1 /\ broadcasts \in Nat
        /\ mailbox' = [s \in Session |->
              IF s \in living THEN Append(mailbox[s], letter) ELSE mailbox[s]]
        /\ owed' = [s \in Session |->
              IF t \in channels[s] /\ s \notin excluded THEN owed[s] \cup {broadcasts + 1}
                                                        ELSE owed[s]]
    BY DEF Broadcast, SendTo, ChannelInv, ChannelTypes
  <1>2. strays' = {}
    <2>1. \A s \in MembersBut(t, excluded) : s \in Session /\ s \in group[t]
      BY DEF MembersBut, ChannelInv, ChannelTypes
    <2>2. \A s \in MembersBut(t, excluded) : Alive(s) => t \in channels[s] \/ Leaving(s, t)
      BY <2>1 DEF ChannelInv, Member
    <2>3. QED
      BY <2>2 DEF Broadcast, ChannelInv
  <1>3. letter \in Letter
    BY <1>1 DEF Letter
  <1>4. mailbox' \in [Session -> Seq(Letter)]
    <2>1. ASSUME NEW s \in Session PROVE mailbox'[s] \in Seq(Letter)
      BY <1>1, <1>3, HandIs
    <2>2. QED
      BY <1>1, <2>1
  <1>5. owed' \in [Session -> SUBSET Nat]
    <2>1. ASSUME NEW s \in Session PROVE owed'[s] \in SUBSET Nat
      BY <1>1, HandIs
    <2>2. QED
      BY <1>1, <2>1
  <1>6. ASSUME NEW s \in Session
        PROVE  Delivery(mailbox'[s], InHand(doing[s]), pushed[s], Due(s)', broadcasts')
    <2> DEFINE due == Due(s)'
    <2>1. Delivery(mailbox[s], InHand(doing[s]), pushed[s], Due(s), broadcasts)
      BY DEF ChannelInv, Delivers
    <2>2. due = Due(s) \/ (due = Due(s) \cup {broadcasts + 1} /\ t \in channels[s] /\ s \notin excluded)
      BY <1>1 DEF Due
    <2>3. t # NoTopic
      BY NoTopicAssumption
    <2>4. CASE s \in living
      <3>1. mailbox'[s] = Append(mailbox[s], letter)
        BY <1>1, <2>4
      <3>2. /\ Delivery(mailbox'[s], InHand(doing[s]), pushed[s], Due(s), broadcasts + 1)
            /\ Delivery(mailbox'[s], InHand(doing[s]), pushed[s], Due(s) \cup {broadcasts + 1},
                        broadcasts + 1)
        BY <2>1, <2>3, <3>1, HandIs, LetterSent
      <3>3. QED
        BY <1>1, <2>2, <3>2
    <2>5. CASE s \notin living
      <3>1. ~ (t \in channels[s] /\ s \notin excluded)
        BY <2>5 DEF MembersBut, ChannelInv, Member, Busy
      <3>2. mailbox'[s] = mailbox[s] /\ due = Due(s)
        BY <1>1, <2>2, <2>5, <3>1
      <3>3. Delivery(mailbox[s], InHand(doing[s]), pushed[s], Due(s), broadcasts + 1)
        BY <2>1, HandIs, OthersSent
      <3>4. QED
        BY <1>1, <3>2, <3>3
    <2>6. QED
      BY <2>4, <2>5
  <1>7. broadcasts' \in Nat
    BY <1>1
  <1>8. QED
    BY <1>2, <1>4, <1>5, <1>6, <1>7

\* A session sends itself something: a push of a topic, or an info message.
LEMMA SelfSent ==
    ASSUME ChannelInv, NEW s \in Session, Alive(s), NEW t \in Topic \cup {NoTopic},
           broadcasts' = broadcasts + 1,
           mailbox' = [mailbox EXCEPT ![s] = Append(@, [topic |-> t, id |-> broadcasts + 1])],
           \/ t = NoTopic /\ owed' = owed
           \/ t # NoTopic /\ owed' = [owed EXCEPT ![s] = @ \cup {broadcasts + 1}],
           UNCHANGED <<life, wire, doing, channels, group, pushed, strays>>
    PROVE  ChannelInv'
  <1> DEFINE letter == [topic |-> t, id |-> broadcasts + 1]
  <1>1. letter \in Letter /\ broadcasts \in Nat
    BY DEF Letter, ChannelInv, ChannelTypes
  <1>2. Append(mailbox[s], letter) \in Seq(Letter)
    BY <1>1, HandIs
  <1>3. ChannelTypes'
    <2>1. mailbox' \in [Session -> Seq(Letter)]
      BY <1>2 DEF ChannelInv, ChannelTypes
    <2>2. owed' \in [Session -> SUBSET Nat]
      <3>1. owed \in [Session -> SUBSET Nat] /\ owed[s] \cup {broadcasts + 1} \in SUBSET Nat
        BY <1>1, HandIs DEF ChannelInv, ChannelTypes
      <3>2. QED
        BY <3>1
    <2>3. QED
      BY <1>1, <2>1, <2>2 DEF ChannelInv, ChannelTypes
  <1>4. (\A u \in Session : Busy(u))' /\ (\A u \in Session, v \in Topic : Member(u, v))'
    BY DEF ChannelInv, Busy, Member, Leaving, Alive
  <1>5. ASSUME NEW u \in Session PROVE Delivers(u)'
    <2>1. Delivery(mailbox[u], InHand(doing[u]), pushed[u], Due(u), broadcasts)
      BY DEF ChannelInv, Delivers
    <2>2. CASE u = s
      <3>1. mailbox'[u] = Append(mailbox[u], letter)
        BY <2>2 DEF ChannelInv, ChannelTypes
      <3>2. \/ Due(u)' = Due(u)
            \/ t # NoTopic /\ Due(u)' = Due(u) \cup {broadcasts + 1}
        <4>1. CASE owed' = owed
          BY <4>1 DEF Due
        <4>2. CASE t # NoTopic /\ owed' = [owed EXCEPT ![s] = @ \cup {broadcasts + 1}]
          <5>1. owed'[u] = owed[u] \cup {broadcasts + 1}
            BY <2>2, <4>2 DEF ChannelInv, ChannelTypes
          <5>2. QED
            BY <4>2, <5>1 DEF Due
        <4>3. QED
          BY <4>1, <4>2
      <3>3. LET more == Append(mailbox[u], [topic |-> t, id |-> broadcasts + 1])
            IN  /\ Delivery(more, InHand(doing[u]), pushed[u], Due(u), broadcasts + 1)
                /\ t # NoTopic => Delivery(more, InHand(doing[u]), pushed[u],
                                           Due(u) \cup {broadcasts + 1}, broadcasts + 1)
        <4>1. /\ InHand(doing[u]) \in SUBSET Letter
              /\ mailbox[u] \in Seq(Letter) /\ pushed[u] \in Seq(Nat)
              /\ Due(u) \in SUBSET Nat /\ broadcasts \in Nat
          BY HandIs
        <4> HIDE DEF letter
        <4>2. QED
          BY <2>1, <4>1, LetterSent
      <3>4. QED
        BY <3>1, <3>2, <3>3 DEF Delivers
    <2>3. CASE u # s
      <3>1. mailbox'[u] = mailbox[u] /\ owed'[u] = owed[u]
        BY <2>3 DEF ChannelInv, ChannelTypes
      <3>2. Due(u)' = Due(u)
        BY <3>1 DEF Due
      <3>3. Delivery(mailbox[u], InHand(doing[u]), pushed[u], Due(u), broadcasts + 1)
        BY <2>1, HandIs, OthersSent
      <3>4. QED
        BY <3>1, <3>2, <3>3 DEF Delivers
    <2>4. QED
      BY <2>2, <2>3
  <1>6. QED
    BY <1>3, <1>4, <1>5 DEF ChannelInv

(***************************************************************************)
(* A broadcast while the session that sends it, if any, goes on with its   *)
(* callback or ends it.                                                    *)
(***************************************************************************)
LEMMA BroadcastInv ==
    ASSUME ChannelInv, NEW t \in Topic, NEW excluded \in SUBSET Session, Broadcast(t, excluded),
           UNCHANGED <<life, wire, channels, group, pushed>>,
           doing' \in [Session -> Doing],
           \A s \in Session :
              \/ doing'[s] = doing[s]
              \/ doing[s].op = "event" /\ doing'[s] = Nothing
              \/ doing[s].op = "answer" /\ doing'[s].op = "answer"
                    /\ doing'[s].topic = doing[s].topic /\ doing'[s].push = doing[s].push
    PROVE  ChannelInv'
  <1>1. /\ strays' = {}
        /\ ChannelTypes'
    BY BroadcastDelivers DEF ChannelInv, ChannelTypes
  <1>2. Nothing.op = "none" /\ InHand(Nothing) = {}
    BY DEF Nothing, InHand
  <1>3. ASSUME NEW s \in Session PROVE Busy(s)'
    BY <1>2 DEF ChannelInv, Busy, Alive
  <1>4. ASSUME NEW s \in Session, NEW u \in Topic PROVE Member(s, u)'
    <2>1. Leaving(s, u)' = Leaving(s, u)
      BY <1>2 DEF Leaving
    <2>2. QED
      BY <2>1 DEF ChannelInv, Member, Alive
  <1>5. ASSUME NEW s \in Session PROVE Delivers(s)'
    <2>1. InHand(doing[s])' = InHand(doing[s])
      BY <1>2 DEF InHand
    <2>2. QED
      BY <2>1, BroadcastDelivers DEF Delivers, Due
  <1>6. QED
    BY <1>1, <1>3, <1>4, <1>5 DEF ChannelInv

(***************************************************************************)
(* A session takes up or ends a callback, with no message in its hands;    *)
(* its mailbox, and what it is owed, stay.                                 *)
(***************************************************************************)
LEMMA CallbackInv ==
    ASSUME ChannelInv, NEW s \in Session, NEW what \in Doing,
           doing' = [doing EXCEPT ![s] = what],
           InHand(what) = InHand(doing[s]),
           channels' \in [Session -> SUBSET Topic], group' \in [Topic -> SUBSET Session],
           \A u \in Session : u # s => channels'[u] = channels[u],
           \A u \in Session, t \in Topic : u # s => (u \in group'[t] <=> u \in group[t]),
           channels'[s] # {} \/ what.op # "none" => Alive(s),
           what.op \in {"join", "event", "leave", "stop", "terminate"} => what.topic \in Topic,
           \A t \in Topic : Member(s, t)',
           UNCHANGED <<life, wire, mailbox, pushed, owed, strays, broadcasts>>
    PROVE  ChannelInv'
  <1>1. /\ doing' \in [Session -> Doing]
        /\ doing'[s] = what
        /\ \A u \in Session : u # s => doing'[u] = doing[u]
    BY DEF ChannelInv, ChannelTypes
  <1>2. ChannelTypes'
    BY <1>1 DEF ChannelInv, ChannelTypes
  <1>3. ASSUME NEW u \in Session PROVE Busy(u)'
    BY <1>1 DEF ChannelInv, Busy, Alive
  <1>4. ASSUME NEW u \in Session, NEW t \in Topic PROVE Member(u, t)'
    <2>1. CASE u = s
      BY <2>1
    <2>2. CASE u # s
      BY <1>1, <2>2 DEF ChannelInv, Member, Alive, Leaving
    <2>3. QED
      BY <2>1, <2>2
  <1>5. ASSUME NEW u \in Session PROVE Delivers(u)'
    <2>1. InHand(doing[u])' = InHand(doing[u])
      BY <1>1 DEF InHand
    <2>2. QED
      BY <2>1 DEF ChannelInv, Delivers, Due
  <1>6. QED
    BY <1>2, <1>3, <1>4, <1>5 DEF ChannelInv

\* The same, and the topics and groups stay.
LEMMA AnswerInv ==
    ASSUME ChannelInv, NEW s \in Session, NEW what \in Doing,
           doing' = [doing EXCEPT ![s] = what],
           InHand(what) = InHand(doing[s]),
           what.op # "none" => Alive(s),
           what.op \in {"join", "event"} => what.topic \in Topic,
           what.op \notin {"leave", "stop", "terminate"},
           doing[s].op \notin {"leave", "stop", "terminate"},
           UNCHANGED <<life, wire, channels, group, mailbox, pushed, owed, strays, broadcasts>>
    PROVE  ChannelInv'
  <1>1. doing'[s] = what
    BY DEF ChannelInv, ChannelTypes
  <1>2. ASSUME NEW t \in Topic PROVE Member(s, t)'
    BY <1>1 DEF ChannelInv, Member, Leaving, Alive
  <1>3. channels[s] # {} => Alive(s)
    BY DEF ChannelInv, Busy
  <1>4. channels' \in [Session -> SUBSET Topic] /\ group' \in [Topic -> SUBSET Session]
    BY DEF ChannelInv, ChannelTypes
  <1>5. QED
    BY <1>2, <1>3, <1>4, CallbackInv

(***************************************************************************)
(* Any step in which the group stays and one session only is concerned.    *)
(***************************************************************************)
LEMMA OneSessionInv ==
    ASSUME ChannelInv, NEW s \in Session, ChannelTypes',
           UNCHANGED <<group, strays, broadcasts>>,
           \A u \in Session : u # s =>
              /\ life'[u] = life[u] /\ (u \in wire' <=> u \in wire) /\ doing'[u] = doing[u]
              /\ channels'[u] = channels[u] /\ mailbox'[u] = mailbox[u]
              /\ pushed'[u] = pushed[u] /\ owed'[u] = owed[u],
           Busy(s)', \A t \in Topic : Member(s, t)', Delivers(s)'
    PROVE  ChannelInv'
  <1>1. ASSUME NEW u \in Session, u # s PROVE Busy(u)'
    BY <1>1 DEF ChannelInv, Busy, Alive
  <1>2. ASSUME NEW u \in Session, u # s, NEW t \in Topic PROVE Member(u, t)'
    BY <1>2 DEF ChannelInv, Member, Alive, Leaving
  <1>3. ASSUME NEW u \in Session, u # s PROVE Delivers(u)'
    <2>1. InHand(doing[u])' = InHand(doing[u]) /\ Due(u)' = Due(u)
      BY <1>3 DEF InHand, Due
    <2>2. QED
      BY <1>3, <2>1 DEF ChannelInv, Delivers
  <1>4. QED
    BY <1>1, <1>2, <1>3 DEF ChannelInv

LEMMA OpIs ==
    ASSUME NEW op \in Ops, NEW t \in Topic \cup {NoTopic}
    PROVE  /\ Op(op, t) \in Doing /\ Op(op, t).op = op /\ Op(op, t).topic = t
           /\ op \notin {"info", "answer"} => InHand(Op(op, t)) = {}
  BY DEF Op, Nothing, Doing, Ops, InHand

LEMMA NothingIs == Nothing \in Doing /\ Nothing.op = "none" /\ InHand(Nothing) = {}
  BY DEF Nothing, Doing, Ops, InHand

-----------------------------------------------------------------------------
LEMMA BroadcastToTopicInv ==
    ASSUME ChannelInv, NEW t \in Topic, NEW excluded \in SUBSET Session,
           BroadcastToTopic(t, excluded)
    PROVE  ChannelInv'
  <1>1. doing' = doing /\ doing \in [Session -> Doing]
    BY DEF BroadcastToTopic, ChannelInv, ChannelTypes
  <1>2. QED
    BY <1>1, BroadcastInv DEF BroadcastToTopic

LEMMA CallbackSendsInv ==
    ASSUME ChannelInv, NEW s \in Session, NEW t \in Topic, CallbackSends(s, t)
    PROVE  ChannelInv'
  <1>1. /\ doing' = doing /\ doing \in [Session -> Doing]
        /\ UNCHANGED <<life, wire, channels, group, pushed>>
    BY DEF CallbackSends, ChannelInv, ChannelTypes
  <1>2. CASE Broadcast(t, {})
    BY <1>1, <1>2, BroadcastInv
  <1>3. CASE Broadcast(t, {s})
    BY <1>1, <1>3, BroadcastInv
  <1>4. CASE /\ SendTo({s}, t)
             /\ UNCHANGED strays
             /\ owed' = [owed EXCEPT ![s] = @ \cup {broadcasts + 1}]
    <2>1. Alive(s)
      BY DEF CallbackSends, IsDoing
    <2>2. \A u \in Session : u \in {x \in {s} : Alive(x)} <=> u = s
      BY <2>1
    <2>3. mailbox' = [mailbox EXCEPT ![s] = Append(@, [topic |-> t, id |-> broadcasts + 1])]
      BY <1>4, <2>2 DEF SendTo, ChannelInv, ChannelTypes
    <2>4. t # NoTopic
      BY NoTopicAssumption
    <2>5. QED
      BY <1>1, <1>4, <2>1, <2>3, <2>4, SelfSent DEF SendTo
  <1>5. QED
    BY <1>2, <1>3, <1>4 DEF CallbackSends

LEMMA CallbackReceivesInv ==
    ASSUME ChannelInv, NEW s \in Session, CallbackReceives(s)
    PROVE  ChannelInv'
  <1>1. PICK k \in 1 .. Len(mailbox[s]) - 1 :
           mailbox' = [mailbox EXCEPT ![s] = SubSeq(@, k + 1, Len(@)) \o SubSeq(@, 1, k)]
    BY DEF CallbackReceives
  <1>2. UNCHANGED <<life, wire, doing, channels, group, pushed, owed, strays, broadcasts>>
    BY DEF CallbackReceives
  <1>3. /\ mailbox'[s] \in Seq(Letter)
        /\ Delivery(mailbox'[s], InHand(doing[s]), pushed[s], Due(s), broadcasts)
    <2>1. Delivers(s) /\ mailbox[s] \in Seq(Letter)
      BY HandIs DEF ChannelInv
    <2>2. mailbox'[s] = SubSeq(mailbox[s], k + 1, Len(mailbox[s])) \o SubSeq(mailbox[s], 1, k)
      BY <1>1 DEF ChannelInv, ChannelTypes
    <2>3. QED
      BY <2>1, <2>2, LettersTurned DEF Delivers
  <1>4. ChannelTypes'
    <2>1. mailbox' \in [Session -> Seq(Letter)]
      BY <1>1, <1>3 DEF ChannelInv, ChannelTypes
    <2>2. QED
      BY <1>2, <2>1 DEF ChannelInv, ChannelTypes
  <1>5. Delivers(s)'
    BY <1>2, <1>3 DEF Delivers, Due
  <1>6. Busy(s)' /\ \A t \in Topic : Member(s, t)'
    BY <1>2 DEF ChannelInv, Busy, Member, Alive, Leaving
  <1>7. \A u \in Session : u # s => mailbox'[u] = mailbox[u]
    BY <1>1 DEF ChannelInv, ChannelTypes
  <1>8. QED
    BY <1>2, <1>4, <1>5, <1>6, <1>7, OneSessionInv

LEMMA InfoInv ==
    ASSUME ChannelInv, NEW s \in Session, Info(s)
    PROVE  ChannelInv'
  <1>1. Alive(s)
    BY DEF Info, Alive
  <1>2. QED
    BY <1>1, SelfSent DEF Info

\* The answers to frames and callbacks that change no group.
LEMMA AnswersInv ==
    ASSUME ChannelInv, NEW s \in Session, NEW t \in Topic, NEW keyed \in BOOLEAN,
           Join(s, t, keyed) \/ ChannelEvent(s, t) \/ JoinError(s) \/ EventAnswered(s)
    PROVE  ChannelInv'
  <1>1. CASE Join(s, t, keyed)
    <2> DEFINE what == [Op("join", t) EXCEPT !.keyed = keyed]
    <2>1. what \in Doing /\ what.op = "join" /\ what.topic = t
      BY DEF Op, Nothing, Doing, Ops
    <2>2. doing[s] = Nothing /\ Alive(s)
      BY <1>1 DEF Join, Frame, IdleSession, Alive
    <2>3. InHand(what) = InHand(doing[s]) /\ doing[s].op = "none"
      BY <2>1, <2>2, NothingIs DEF InHand
    <2>4. doing' = [doing EXCEPT ![s] = what]
      BY <1>1 DEF Join, Does
    <2> HIDE DEF what
    <2>5. UNCHANGED <<life, wire, channels, group, mailbox, pushed, owed, strays, broadcasts>>
      BY <1>1 DEF Join, Frame
    <2>6. QED
      BY <2>1, <2>2, <2>3, <2>4, <2>5, AnswerInv
  <1>2. CASE ChannelEvent(s, t)
    <2> DEFINE what == IF t \in channels[s] THEN Op("event", t) ELSE Nothing
    <2>1. /\ what \in Doing /\ what.op \in {"none", "event"} /\ InHand(what) = {}
          /\ what.op = "event" => what.topic = t
      <3>1. "event" \in Ops
        BY DEF Ops
      <3>2. /\ Op("event", t) \in Doing /\ Op("event", t).op = "event" /\ Op("event", t).topic = t
            /\ InHand(Op("event", t)) = {}
        BY <3>1, OpIs
      <3>3. QED
        BY <3>2, NothingIs
    <2>2. doing[s] = Nothing /\ Alive(s)
      BY <1>2 DEF ChannelEvent, Frame, IdleSession, Alive
    <2>3. InHand(what) = InHand(doing[s]) /\ doing[s].op = "none"
      BY <2>1, <2>2, NothingIs DEF InHand
    <2>4. doing' = [doing EXCEPT ![s] = what]
      BY <1>2 DEF ChannelEvent, Does
    <2> HIDE DEF what
    <2>5. UNCHANGED <<life, wire, channels, group, mailbox, pushed, owed, strays, broadcasts>>
      BY <1>2 DEF ChannelEvent, Frame
    <2>6. QED
      BY <2>1, <2>2, <2>3, <2>4, <2>5, AnswerInv
  <1>3. CASE JoinError(s) \/ EventAnswered(s)
    <2>1. doing[s].op \in {"join", "event"} /\ doing' = [doing EXCEPT ![s] = Nothing]
      BY <1>3 DEF JoinError, EventAnswered, IsDoing, Does
    <2>2. InHand(Nothing) = InHand(doing[s])
      BY <2>1, NothingIs DEF InHand
    <2>3. UNCHANGED <<life, wire, channels, group, mailbox, pushed, owed, strays, broadcasts>>
      BY <1>3 DEF JoinError, EventAnswered
    <2>4. QED
      BY <2>1, <2>2, <2>3, NothingIs, AnswerInv
  <1>4. QED
    BY <1>1, <1>2, <1>3

LEMMA JoinAgainInv ==
    ASSUME ChannelInv,
           UNCHANGED <<life, wire, doing, channels, group, mailbox, pushed, owed, strays, broadcasts>>
    PROVE  ChannelInv'
  BY DEF ChannelInv, ChannelTypes, Busy, Member, Alive, Leaving, Delivers, Due

LEMMA JoinOkInv ==
    ASSUME ChannelInv, NEW s \in Session, JoinOk(s)
    PROVE  ChannelInv'
  <1> DEFINE t == doing[s].topic
  <1>1. /\ t \in Topic /\ Alive(s) /\ doing[s].op = "join"
        /\ group' = [group EXCEPT ![t] = @ \cup {s}]
        /\ channels' = [channels EXCEPT ![s] = @ \cup {t}]
        /\ doing' = [doing EXCEPT ![s] = Nothing]
        /\ UNCHANGED <<life, wire, mailbox, pushed, owed, strays, broadcasts>>
    BY DEF JoinOk, IsDoing, Does, ChannelInv, Busy
  <1> HIDE DEF t
  <1>2. /\ channels' \in [Session -> SUBSET Topic]
        /\ channels'[s] = channels[s] \cup {t}
        /\ \A u \in Session : u # s => channels'[u] = channels[u]
    BY <1>1 DEF ChannelInv, ChannelTypes
  <1>3. /\ group' \in [Topic -> SUBSET Session]
        /\ group'[t] = group[t] \cup {s}
        /\ \A v \in Topic : v # t => group'[v] = group[v]
    BY <1>1 DEF ChannelInv, ChannelTypes
  <1>4. \A u \in Session, v \in Topic : u # s => (u \in group'[v] <=> u \in group[v])
    BY <1>3
  <1>5. doing'[s] = Nothing /\ InHand(Nothing) = InHand(doing[s])
    BY <1>1, NothingIs DEF InHand, ChannelInv, ChannelTypes
  <1>6. ASSUME NEW v \in Topic PROVE Member(s, v)'
    <2>1. ~ Leaving(s, v)' /\ ~ Leaving(s, v)
      BY <1>1, <1>5, NothingIs DEF Leaving
    <2>2. CASE v = t
      BY <1>1, <1>2, <1>3, <2>1, <2>2 DEF Member, Alive
    <2>3. CASE v # t
      BY <1>1, <1>2, <1>3, <2>1, <2>3 DEF ChannelInv, Member, Alive
    <2>4. QED
      BY <2>2, <2>3
  <1>7. QED
    BY <1>1, <1>2, <1>3, <1>4, <1>5, <1>6, NothingIs, CallbackInv

\* handle_leave, at once or from terminate or after a stop.
LEMMA RemoveChannelInv ==
    ASSUME ChannelInv, NEW s \in Session, NEW t \in Topic,
           NEW op \in {"leave", "stop", "terminate"},
           RemoveChannel(s, op, t), Alive(s), doing[s].op \in {"none", "event"},
           UNCHANGED <<life, wire, group, mailbox, pushed, owed, strays, broadcasts>>
    PROVE  ChannelInv'
  <1> DEFINE what == IF t \in channels[s] THEN Op(op, t) ELSE Nothing
  <1>1. /\ what \in Doing /\ InHand(what) = {}
        /\ t \in channels[s] => what.op = op /\ what.topic = t
        /\ t \notin channels[s] => what.op = "none"
    <2>1. op \in Ops
      BY DEF Ops
    <2>2. /\ Op(op, t) \in Doing /\ Op(op, t).op = op /\ Op(op, t).topic = t
          /\ InHand(Op(op, t)) = {}
      BY <2>1, OpIs
    <2>3. QED
      BY <2>2, NothingIs
  <1>2. /\ channels' = [channels EXCEPT ![s] = @ \ {t}]
        /\ doing' = [doing EXCEPT ![s] = what]
    BY DEF RemoveChannel, Does
  <1> HIDE DEF what
  <1>3. /\ channels' \in [Session -> SUBSET Topic]
        /\ channels'[s] = channels[s] \ {t}
        /\ \A u \in Session : u # s => channels'[u] = channels[u]
        /\ doing'[s] = what
    BY <1>2 DEF ChannelInv, ChannelTypes
  <1>4. InHand(what) = InHand(doing[s])
    BY <1>1 DEF InHand
  <1>5. ASSUME NEW v \in Topic PROVE Member(s, v)'
    <2>1. ~ Leaving(s, v)
      BY DEF Leaving
    <2>2. Leaving(s, v)' <=> (v = t /\ t \in channels[s])
      BY <1>1, <1>3 DEF Leaving
    <2>3. QED
      BY <1>3, <2>1, <2>2 DEF ChannelInv, Member, Alive
  <1>6. what.op \in {"join", "event", "leave", "stop", "terminate"} => what.topic \in Topic
    BY <1>1
  <1>7. group' \in [Topic -> SUBSET Session]
    BY DEF ChannelInv, ChannelTypes
  <1>8. QED
    BY <1>1, <1>2, <1>3, <1>4, <1>5, <1>6, <1>7, CallbackInv

LEMMA LeaveGroupInv ==
    ASSUME ChannelInv, NEW s \in Session, LeaveGroup(s)
    PROVE  ChannelInv'
  <1> DEFINE t == doing[s].topic
  <1>1. /\ t \in Topic /\ Alive(s) /\ Leaving(s, t)
        /\ doing[s].op \in {"leave", "stop", "terminate"}
        /\ group' = [group EXCEPT ![t] = @ \ {s}]
        /\ doing' = [doing EXCEPT ![s] = Nothing]
        /\ UNCHANGED <<life, wire, channels, mailbox, pushed, owed, strays, broadcasts>>
    BY DEF LeaveGroup, IsDoing, Does, Leaving, Without, ChannelInv, Busy
  <1>2. \A v \in Topic : Leaving(s, v) => v = t
    BY DEF Leaving
  <1> HIDE DEF t
  <1>3. /\ group' \in [Topic -> SUBSET Session]
        /\ group'[t] = group[t] \ {s}
        /\ \A v \in Topic : v # t => group'[v] = group[v]
    BY <1>1 DEF ChannelInv, ChannelTypes
  <1>4. \A u \in Session, v \in Topic : u # s => (u \in group'[v] <=> u \in group[v])
    BY <1>3
  <1>5. doing'[s] = Nothing /\ InHand(Nothing) = InHand(doing[s])
    BY <1>1, NothingIs DEF InHand, ChannelInv, ChannelTypes
  <1>6. ASSUME NEW v \in Topic PROVE Member(s, v)'
    <2>1. ~ Leaving(s, v)'
      BY <1>5, NothingIs DEF Leaving
    <2>2. t \notin channels[s]
      BY <1>1 DEF ChannelInv, Member
    <2>3. CASE v = t
      BY <1>1, <1>3, <2>1, <2>2, <2>3 DEF Member, Alive
    <2>4. CASE v # t
      BY <1>1, <1>2, <1>3, <2>1, <2>4 DEF ChannelInv, Member, Alive
    <2>5. QED
      BY <2>3, <2>4
  <1>7. channels' \in [Session -> SUBSET Topic] /\ channels'[s] = channels[s]
    BY <1>1 DEF ChannelInv, ChannelTypes
  <1>8. QED
    BY <1>1, <1>3, <1>4, <1>5, <1>6, <1>7, NothingIs, CallbackInv

\* The message in the hands of a session: taken, answered and pushed to the client.
LEMMA TakeInfoInv ==
    ASSUME ChannelInv, NEW s \in Session, TakeInfo(s)
    PROVE  ChannelInv'
  <1> DEFINE m == Head(mailbox[s])
             what == [Op("info", m.topic) EXCEPT !.push = m.id]
  <1>1. /\ life[s] = "open" /\ doing[s] = Nothing /\ mailbox[s] # <<>>
        /\ mailbox' = [mailbox EXCEPT ![s] = Tail(@)]
        /\ doing' = [doing EXCEPT ![s] = what]
        /\ UNCHANGED <<life, wire, channels, group, pushed, owed, strays, broadcasts>>
    BY DEF TakeInfo, IdleSession, Does
  <1>2. m \in Letter /\ Tail(mailbox[s]) \in Seq(Letter)
    BY <1>1, HandIs
  <1>3. m.topic \in Topic \cup {NoTopic} /\ m.id \in Nat /\ m = [topic |-> m.topic, id |-> m.id]
    BY <1>2 DEF Letter
  <1>4. what \in Doing /\ what.op = "info" /\ InHand(what) = {m}
    <2>1. what \in Doing /\ what.op = "info" /\ what.topic = m.topic /\ what.push = m.id
      BY <1>3 DEF Op, Nothing, Doing, Ops
    <2>2. QED
      BY <1>3, <2>1 DEF InHand
  <1> HIDE DEF what, m
  <1>5. /\ mailbox' \in [Session -> Seq(Letter)] /\ mailbox'[s] = Tail(mailbox[s])
        /\ \A u \in Session : u # s => mailbox'[u] = mailbox[u]
    BY <1>1, <1>2 DEF ChannelInv, ChannelTypes
  <1>6. /\ doing' \in [Session -> Doing] /\ doing'[s] = what
        /\ \A u \in Session : u # s => doing'[u] = doing[u]
    BY <1>1, <1>4 DEF ChannelInv, ChannelTypes
  <1>7. ChannelTypes'
    BY <1>1, <1>5, <1>6 DEF ChannelInv, ChannelTypes
  <1>8. Delivers(s)'
    <2>1. Delivery(mailbox[s], {}, pushed[s], Due(s), broadcasts)
      BY <1>1, NothingIs DEF ChannelInv, Delivers
    <2>2. Delivery(Tail(mailbox[s]), {m}, pushed[s], Due(s), broadcasts)
      BY <1>1, <2>1, HandIs, LetterTaken DEF m
    <2>3. Due(s)' = Due(s)
      BY <1>1 DEF Due
    <2>4. QED
      BY <1>1, <1>4, <1>5, <1>6, <2>2, <2>3 DEF Delivers
  <1>9. Busy(s)' /\ \A t \in Topic : Member(s, t)'
    <2>1. Alive(s)' /\ Alive(s)
      BY <1>1 DEF Alive
    <2>2. \A t \in Topic : ~ Leaving(s, t)' /\ ~ Leaving(s, t)
      BY <1>1, <1>4, <1>6, NothingIs DEF Leaving
    <2>3. QED
      BY <1>1, <1>4, <1>6, <2>1, <2>2 DEF ChannelInv, Busy, Member
  <1>10. QED
    BY <1>1, <1>5, <1>6, <1>7, <1>8, <1>9, OneSessionInv

LEMMA InfoAnsweredInv ==
    ASSUME ChannelInv, NEW s \in Session, NEW answers \in SUBSET Topic, InfoAnswered(s, answers)
    PROVE  ChannelInv'
  <1> DEFINE what == [doing[s] EXCEPT !.op = "answer", !.answers = answers]
  <1>1. /\ doing[s].op = "info" /\ Alive(s)
        /\ doing' = [doing EXCEPT ![s] = what]
        /\ UNCHANGED <<life, wire, channels, group, mailbox, pushed, owed, strays, broadcasts>>
    BY DEF InfoAnswered, IsDoing, Does
  <1>2. doing[s] \in Doing
    BY HandIs
  <1>3. /\ what \in Doing /\ what.op = "answer"
        /\ what.topic = doing[s].topic /\ what.push = doing[s].push
    BY <1>2 DEF Doing, Ops
  <1> HIDE DEF what
  <1>4. InHand(what) = InHand(doing[s])
    BY <1>1, <1>3 DEF InHand
  <1>5. QED
    BY <1>1, <1>3, <1>4, AnswerInv

LEMMA SessionBroadcastsInv ==
    ASSUME ChannelInv, NEW s \in Session, NEW t \in Topic, NEW excluded \in {{}, {s}},
           InfoBroadcasts(s, t) \/ EventBroadcasts(s, excluded)
    PROVE  ChannelInv'
  <1>1. CASE InfoBroadcasts(s, t)
    <2> DEFINE what == [doing[s] EXCEPT !.answers = @ \ {t}]
    <2>1. /\ doing[s].op = "answer" /\ Broadcast(t, {})
          /\ doing' = [doing EXCEPT ![s] = what]
          /\ UNCHANGED <<life, wire, channels, group, pushed>>
      BY <1>1 DEF InfoBroadcasts, IsDoing, Does
    <2>2. doing[s] \in Doing
      BY HandIs
    <2>3. /\ what \in Doing /\ what.op = "answer"
          /\ what.topic = doing[s].topic /\ what.push = doing[s].push
      BY <2>1, <2>2 DEF Doing
    <2> HIDE DEF what
    <2>4. /\ doing' \in [Session -> Doing] /\ doing'[s] = what
          /\ \A u \in Session : u # s => doing'[u] = doing[u]
      BY <2>1, <2>3 DEF ChannelInv, ChannelTypes
    <2>5. \A u \in Session :
              \/ doing'[u] = doing[u]
              \/ doing[u].op = "event" /\ doing'[u] = Nothing
              \/ doing[u].op = "answer" /\ doing'[u].op = "answer"
                    /\ doing'[u].topic = doing[u].topic /\ doing'[u].push = doing[u].push
      BY <2>1, <2>3, <2>4
    <2>6. QED
      BY <2>1, <2>4, <2>5, BroadcastInv
  <1>2. CASE EventBroadcasts(s, excluded)
    <2>1. /\ doing[s].op = "event" /\ Broadcast(doing[s].topic, excluded)
          /\ doing' = [doing EXCEPT ![s] = Nothing]
          /\ UNCHANGED <<life, wire, channels, group, pushed>>
          /\ doing[s].topic \in Topic
      BY <1>2 DEF EventBroadcasts, IsDoing, Does, ChannelInv, Busy
    <2>2. /\ doing' \in [Session -> Doing] /\ doing'[s] = Nothing
          /\ \A u \in Session : u # s => doing'[u] = doing[u]
      BY <2>1, NothingIs DEF ChannelInv, ChannelTypes
    <2>3. \A u \in Session :
              \/ doing'[u] = doing[u]
              \/ doing[u].op = "event" /\ doing'[u] = Nothing
              \/ doing[u].op = "answer" /\ doing'[u].op = "answer"
                    /\ doing'[u].topic = doing[u].topic /\ doing'[u].push = doing[u].push
      BY <2>1, <2>2
    <2>4. excluded \in SUBSET Session
      OBVIOUS
    <2>5. QED
      BY <2>1, <2>2, <2>3, <2>4, BroadcastInv
  <1>3. QED
    BY <1>1, <1>2

LEMMA PushToClientInv ==
    ASSUME ChannelInv, NEW s \in Session, PushToClient(s)
    PROVE  ChannelInv'
  <1> DEFINE m == [topic |-> doing[s].topic, id |-> doing[s].push]
  <1>1. /\ doing[s].op = "answer" /\ Alive(s)
        /\ doing' = [doing EXCEPT ![s] = Nothing]
        /\ UNCHANGED <<wire, channels, group, mailbox, owed, strays, broadcasts>>
    BY DEF PushToClient, IsDoing, Does
  <1>2. /\ InHand(doing[s]) = {m} /\ m \in Letter
        /\ m.topic = doing[s].topic /\ m.id = doing[s].push /\ m.id \in Nat
    <2>1. InHand(doing[s]) = {m}
      BY <1>1 DEF InHand
    <2>2. m \in Letter
      BY <2>1, HandIs
    <2>3. QED
      BY <2>1, <2>2 DEF Letter
  <1>3. /\ doing' \in [Session -> Doing] /\ doing'[s] = Nothing
        /\ \A u \in Session : u # s => doing'[u] = doing[u]
    BY <1>1, NothingIs DEF ChannelInv, ChannelTypes
  <1>4. Delivery(mailbox[s], {m}, pushed[s], Due(s), broadcasts)
    BY <1>2 DEF ChannelInv, Delivers
  <1> HIDE DEF m
  <1>5. /\ Delivery(mailbox[s], {}, Append(pushed[s], m.id), Due(s), broadcasts)
        /\ m.topic = NoTopic => Delivery(mailbox[s], {}, pushed[s], Due(s), broadcasts)
    BY <1>2, <1>4, HandIs, LetterPushed
  <1>6. Delivery(mailbox[s], {}, pushed[s], {}, broadcasts)
    BY <1>4, NoneDue
  <1>7. ASSUME Alive(s)', Delivers(s)', ChannelTypes',
               \A u \in Session : u # s => life'[u] = life[u] /\ pushed'[u] = pushed[u]
        PROVE  ChannelInv'
    <2>1. \A t \in Topic : ~ Leaving(s, t)' /\ ~ Leaving(s, t)
      BY <1>1, <1>3, NothingIs DEF Leaving
    <2>2. Busy(s)'
      BY <1>3, <1>7, NothingIs DEF Busy
    <2>3. life'[s] # "closed"
      BY <1>7 DEF Alive
    <2>4. \A t \in Topic : Member(s, t)'
      BY <1>1, <2>1, <2>3 DEF ChannelInv, Member
    <2>5. QED
      BY <1>1, <1>3, <1>7, <2>2, <2>4, OneSessionInv
  <1>8. CASE doing[s].topic = NoTopic
    <2>1. UNCHANGED <<life, pushed>>
      BY <1>8 DEF PushToClient
    <2>2. Due(s)' = Due(s)
      BY <1>1, <2>1 DEF Due
    <2>3. Delivers(s)'
      BY <1>1, <1>2, <1>3, <1>5, <1>8, <2>1, <2>2, NothingIs DEF Delivers
    <2>4. ChannelTypes' /\ Alive(s)'
      BY <1>1, <1>3, <2>1 DEF ChannelInv, ChannelTypes, Alive
    <2>5. QED
      BY <1>7, <2>1, <2>3, <2>4
  <1>9. CASE doing[s].topic # NoTopic /\ s \in wire
    <2>1. pushed' = [pushed EXCEPT ![s] = Append(@, m.id)] /\ UNCHANGED life
      BY <1>2, <1>9 DEF PushToClient
    <2>2. Due(s)' = Due(s)
      BY <1>1, <2>1 DEF Due
    <2>3. /\ pushed' \in [Session -> Seq(Nat)]
          /\ pushed'[s] = Append(pushed[s], m.id)
          /\ \A u \in Session : u # s => pushed'[u] = pushed[u]
      BY <1>2, <2>1 DEF ChannelInv, ChannelTypes
    <2>4. Delivers(s)'
      BY <1>1, <1>3, <1>5, <2>2, <2>3, NothingIs DEF Delivers
    <2>5. ChannelTypes' /\ Alive(s)'
      BY <1>1, <1>3, <2>1, <2>3 DEF ChannelInv, ChannelTypes, Alive
    <2>6. QED
      BY <1>7, <2>1, <2>3, <2>4, <2>5
  <1>10. CASE doing[s].topic # NoTopic /\ s \notin wire
    <2>1. life' = [life EXCEPT ![s] = "closing"] /\ UNCHANGED pushed
      BY <1>10 DEF PushToClient
    <2>2. /\ life'[s] = "closing"
          /\ life' \in [Session -> {"open", "closing", "closed", "killed"}]
          /\ \A u \in Session : u # s => life'[u] = life[u]
      BY <2>1 DEF ChannelInv, ChannelTypes
    <2>3. Due(s)' = {}
      BY <2>2 DEF Due
    <2>4. Delivers(s)'
      BY <1>1, <1>3, <1>6, <2>1, <2>3, NothingIs DEF Delivers
    <2>5. ChannelTypes' /\ Alive(s)'
      BY <1>1, <1>3, <2>1, <2>2 DEF ChannelInv, ChannelTypes, Alive
    <2>6. QED
      BY <1>7, <2>1, <2>2, <2>4, <2>5
  <1>11. QED
    BY <1>8, <1>9, <1>10

-----------------------------------------------------------------------------
LEMMA DisconnectInv ==
    ASSUME ChannelInv, NEW s \in Session, Disconnect(s)
    PROVE  ChannelInv'
  <1>1. /\ wire' = wire \ {s}
        /\ UNCHANGED <<life, doing, channels, group, mailbox, pushed, owed, strays, broadcasts>>
    BY DEF Disconnect
  <1>2. ChannelTypes'
    BY <1>1 DEF ChannelInv, ChannelTypes
  <1>3. Due(s)' = {}
    BY <1>1 DEF Due
  <1>4. Delivery(mailbox[s], InHand(doing[s]), pushed[s], {}, broadcasts)
    <2>1. Delivery(mailbox[s], InHand(doing[s]), pushed[s], Due(s), broadcasts)
      BY DEF ChannelInv, Delivers
    <2>2. QED
      BY <2>1, LessDue
  <1>5. Delivers(s)'
    BY <1>1, <1>3, <1>4 DEF Delivers
  <1>6. Busy(s)' /\ \A t \in Topic : Member(s, t)'
    BY <1>1 DEF ChannelInv, Busy, Member, Alive, Leaving
  <1>7. QED
    BY <1>1, <1>2, <1>5, <1>6, OneSessionInv

LEMMA ReadEndsInv ==
    ASSUME ChannelInv, NEW s \in Session, ReadEnds(s)
    PROVE  ChannelInv'
  <1>1. /\ life[s] = "open" /\ life' = [life EXCEPT ![s] = "closing"]
        /\ UNCHANGED <<wire, doing, channels, group, mailbox, pushed, owed, strays, broadcasts>>
    BY DEF ReadEnds, IdleSession
  <1>2. /\ life'[s] = "closing"
        /\ life' \in [Session -> {"open", "closing", "closed", "killed"}]
        /\ \A u \in Session : u # s => life'[u] = life[u]
    BY <1>1 DEF ChannelInv, ChannelTypes
  <1>3. ChannelTypes'
    BY <1>1, <1>2 DEF ChannelInv, ChannelTypes
  <1>4. Due(s)' = {}
    BY <1>2 DEF Due
  <1>5. Delivery(mailbox[s], InHand(doing[s]), pushed[s], {}, broadcasts)
    <2>1. Delivery(mailbox[s], InHand(doing[s]), pushed[s], Due(s), broadcasts)
      BY DEF ChannelInv, Delivers
    <2>2. QED
      BY <2>1, LessDue
  <1>6. Delivers(s)'
    BY <1>1, <1>4, <1>5 DEF Delivers
  <1>7. Alive(s) /\ Alive(s)' /\ life'[s] # "closed"
    BY <1>1, <1>2 DEF Alive
  <1>8. Busy(s)' /\ \A t \in Topic : Member(s, t)'
    BY <1>1, <1>7 DEF ChannelInv, Busy, Member, Leaving
  <1>9. QED
    BY <1>1, <1>2, <1>3, <1>6, <1>8, OneSessionInv

LEMMA TerminateInv ==
    ASSUME ChannelInv, NEW s \in Session, Terminate(s)
    PROVE  ChannelInv'
  <1>1. /\ life[s] = "closing" /\ doing[s] = Nothing /\ Alive(s)
        /\ UNCHANGED <<wire, group, pushed, owed, strays, broadcasts>>
    BY DEF Terminate, Alive
  <1>2. CASE channels[s] = {}
    <2>1. /\ life' = [life EXCEPT ![s] = "closed"]
          /\ mailbox' = [mailbox EXCEPT ![s] = <<>>]
          /\ UNCHANGED <<doing, channels>>
      BY <1>2 DEF Terminate
    <2>2. /\ life'[s] = "closed"
          /\ life' \in [Session -> {"open", "closing", "closed", "killed"}]
          /\ \A u \in Session : u # s => life'[u] = life[u]
      BY <2>1 DEF ChannelInv, ChannelTypes
    <2>3. /\ mailbox' \in [Session -> Seq(Letter)] /\ mailbox'[s] = <<>>
          /\ \A u \in Session : u # s => mailbox'[u] = mailbox[u]
      BY <2>1 DEF ChannelInv, ChannelTypes
    <2>4. ChannelTypes'
      BY <1>1, <2>1, <2>2, <2>3 DEF ChannelInv, ChannelTypes
    <2>5. Due(s)' = {}
      BY <2>2 DEF Due
    <2>6. Delivery(<<>>, {}, pushed[s], {}, broadcasts)
      <3>1. Delivers(s)
        BY DEF ChannelInv
      <3>2. QED
        BY <3>1, NoneDue DEF Delivers
    <2>7. Delivers(s)'
      BY <1>1, <2>1, <2>3, <2>5, <2>6, NothingIs DEF Delivers
    <2>8. \A t \in Topic : ~ Leaving(s, t)' /\ ~ Leaving(s, t)
      BY <1>1, <2>1, NothingIs DEF Leaving
    <2>9. ~ Alive(s)'
      BY <2>2 DEF Alive
    <2>10. \A t \in Topic : s \notin group[t]
      BY <1>1, <1>2, <2>8 DEF ChannelInv, Member
    <2>11. Busy(s)' /\ \A t \in Topic : Member(s, t)'
      BY <1>1, <1>2, <2>1, <2>8, <2>9, <2>10, NothingIs DEF Busy, Member
    <2>12. QED
      BY <1>1, <2>1, <2>2, <2>3, <2>4, <2>7, <2>11, OneSessionInv
  <1>3. CASE channels[s] # {}
    <2>1. PICK t \in channels[s] : RemoveChannel(s, "terminate", t)
      BY <1>3 DEF Terminate
    <2>2. t \in Topic /\ UNCHANGED <<life, mailbox>>
      BY <1>3 DEF Terminate, ChannelInv, ChannelTypes
    <2>3. doing[s].op = "none"
      BY <1>1, NothingIs
    <2>4. QED
      BY <1>1, <2>1, <2>2, <2>3, RemoveChannelInv
  <1>4. QED
    BY <1>2, <1>3

LEMMA KillInv ==
    ASSUME ChannelInv, NEW s \in Session, Kill(s)
    PROVE  ChannelInv'
  <1>1. /\ life' = [life EXCEPT ![s] = "killed"]
        /\ doing' = [doing EXCEPT ![s] = Nothing]
        /\ channels' = [channels EXCEPT ![s] = {}]
        /\ mailbox' = [mailbox EXCEPT ![s] = <<>>]
        /\ pushed' = [pushed EXCEPT ![s] = <<>>]
        /\ owed' = [owed EXCEPT ![s] = {}]
        /\ UNCHANGED <<wire, group, strays, broadcasts>>
    BY DEF Kill, Does
  <1>2. ChannelTypes'
    BY <1>1, NothingIs DEF ChannelInv, ChannelTypes
  <1>3. /\ life'[s] = "killed" /\ doing'[s] = Nothing /\ channels'[s] = {}
        /\ mailbox'[s] = <<>> /\ pushed'[s] = <<>> /\ owed'[s] = {}
    BY <1>1 DEF ChannelInv, ChannelTypes
  <1>4. \A u \in Session : u # s =>
              /\ life'[u] = life[u] /\ doing'[u] = doing[u]
              /\ channels'[u] = channels[u] /\ mailbox'[u] = mailbox[u]
              /\ pushed'[u] = pushed[u] /\ owed'[u] = owed[u]
    BY <1>1 DEF ChannelInv, ChannelTypes
  <1>5. Delivers(s)'
    <2>1. Range(<<>>) = {}
      BY DEF Range
    <2>2. Delivery(<<>>, {}, <<>>, {}, broadcasts)
      BY <2>1 DEF Delivery, Once, Sent, Reaches
    <2>3. Due(s)' = {}
      BY <1>3 DEF Due
    <2>4. QED
      BY <1>1, <1>3, <2>2, <2>3, NothingIs DEF Delivers
  <1>6. Busy(s)' /\ \A t \in Topic : Member(s, t)'
    <2>1. ~ Alive(s)' /\ \A t \in Topic : ~ Leaving(s, t)'
      BY <1>3, NothingIs DEF Alive, Leaving
    <2>2. QED
      BY <1>3, <2>1, NothingIs DEF Busy, Member
  <1>7. QED
    BY <1>1, <1>2, <1>4, <1>5, <1>6, OneSessionInv

LEMMA ChannelNextInv == ChannelInv /\ [ChannelNext]_channelVars => ChannelInv'
  <1> SUFFICES ASSUME ChannelInv, [ChannelNext]_channelVars PROVE ChannelInv'
    OBVIOUS
  <1>1. ASSUME NEW t \in Topic, NEW excluded \in SUBSET Session, BroadcastToTopic(t, excluded)
        PROVE  ChannelInv'
    BY <1>1, BroadcastToTopicInv
  <1>2. ASSUME NEW s \in Session, NEW t \in Topic, CallbackSends(s, t) PROVE ChannelInv'
    BY <1>2, CallbackSendsInv
  <1>3. ASSUME NEW s \in Session, NEW t \in Topic, NEW keyed \in BOOLEAN, Join(s, t, keyed)
        PROVE  ChannelInv'
    BY <1>3, AnswersInv
  <1>4. ASSUME NEW s \in Session, NEW t \in Topic, JoinAgain(s, t) PROVE ChannelInv'
    BY <1>4, JoinAgainInv DEF JoinAgain, Frame
  <1>5. ASSUME NEW s \in Session, NEW t \in Topic, ChannelEvent(s, t) PROVE ChannelInv'
    <2>1. TRUE \in BOOLEAN
      OBVIOUS
    <2>2. QED
      BY <1>5, <2>1, AnswersInv
  <1>6. ASSUME NEW s \in Session, NEW t \in Topic, Leave(s, t) PROVE ChannelInv'
    <2>1. /\ RemoveChannel(s, "leave", t) /\ Alive(s) /\ doing[s] = Nothing
          /\ UNCHANGED <<life, wire, group, mailbox, pushed, owed, strays, broadcasts>>
      BY <1>6 DEF Leave, Frame, IdleSession, Alive
    <2>2. QED
      BY <2>1, NothingIs, RemoveChannelInv
  <1>7. ASSUME NEW s \in Session, NEW t \in Topic, InfoBroadcasts(s, t) PROVE ChannelInv'
    <2>1. {} \in {{}, {s}}
      OBVIOUS
    <2>2. QED
      BY <1>7, <2>1, SessionBroadcastsInv
  <1>8. ASSUME NEW s \in Session, JoinError(s) \/ EventAnswered(s) PROVE ChannelInv'
    <2>1. doing[s].topic \in Topic
      BY <1>8 DEF JoinError, EventAnswered, IsDoing, ChannelInv, Busy
    <2>2. TRUE \in BOOLEAN
      OBVIOUS
    <2>3. QED
      BY <1>8, <2>1, <2>2, AnswersInv
  <1>9. ASSUME NEW s \in Session, NEW excluded \in {{}, {s}}, EventBroadcasts(s, excluded)
        PROVE  ChannelInv'
    <2>1. doing[s].topic \in Topic
      BY <1>9 DEF EventBroadcasts, IsDoing, ChannelInv, Busy
    <2>2. QED
      BY <1>9, <2>1, SessionBroadcastsInv
  <1>10. ASSUME NEW s \in Session, EventStops(s) PROVE ChannelInv'
    <2>1. /\ doing[s].topic \in Topic /\ doing[s].op = "event" /\ Alive(s)
          /\ RemoveChannel(s, "stop", doing[s].topic)
          /\ UNCHANGED <<life, wire, group, mailbox, pushed, owed, strays, broadcasts>>
      BY <1>10 DEF EventStops, IsDoing, ChannelInv, Busy
    <2>2. QED
      BY <2>1, RemoveChannelInv
  <1>11. ASSUME NEW s \in Session, NEW answers \in SUBSET Topic, InfoAnswered(s, answers)
         PROVE  ChannelInv'
    BY <1>11, InfoAnsweredInv
  <1>12. ASSUME NEW s \in Session,
                \/ CallbackReceives(s) \/ Info(s) \/ JoinOk(s) \/ LeaveGroup(s) \/ TakeInfo(s)
                \/ PushToClient(s) \/ Disconnect(s) \/ ReadEnds(s) \/ Terminate(s) \/ Kill(s)
         PROVE  ChannelInv'
    BY <1>12, CallbackReceivesInv, InfoInv, JoinOkInv, LeaveGroupInv, TakeInfoInv,
       PushToClientInv, DisconnectInv, ReadEndsInv, TerminateInv, KillInv
  <1>13. CASE UNCHANGED channelVars
    BY <1>13, JoinAgainInv DEF channelVars
  <1>14. QED
    BY <1>1, <1>2, <1>3, <1>4, <1>5, <1>6, <1>7, <1>8, <1>9, <1>10, <1>11, <1>12, <1>13
       DEF ChannelNext

(***************************************************************************)
(* Every push to a topic reaches the clients of the sessions that had      *)
(* joined it, each of them once, and no push is sent to a session that is  *)
(* out of the topic; one that came to its end is in no group: for any      *)
(* number of sessions and topics, and whatever callbacks send and receive. *)
(***************************************************************************)
THEOREM PushesReachTheJoined == ChannelSpec => []JoinedGetsAll
  <1>1. ChannelInit => ChannelInv
    BY ChannelInitInv
  <1>2. ChannelInv /\ [ChannelNext]_channelVars => ChannelInv'
    BY ChannelNextInv
  <1>3. ChannelInv => JoinedGetsAll
    <2> SUFFICES ASSUME ChannelInv PROVE JoinedGetsAll
      OBVIOUS
    <2>1. ASSUME NEW s \in Session, s \in wire, IdleSession(s), mailbox[s] = <<>>
          PROVE  owed[s] \subseteq Range(pushed[s]) /\ IsInjective(pushed[s])
      <3>1. InHand(doing[s]) = {} /\ Due(s) = owed[s]
        BY <2>1, NothingIs DEF IdleSession, Due
      <3>2. Delivery(<<>>, {}, pushed[s], owed[s], broadcasts)
        BY <2>1, <3>1 DEF ChannelInv, Delivers
      <3>3. owed[s] \subseteq Range(pushed[s])
        BY <3>2 DEF Delivery, Reaches, InMail, InHands
      <3>4. pushed[s] \in Seq(Nat)
        BY HandIs
      <3>5. IsInjective(pushed[s])
        BY <3>2, <3>4 DEF Delivery, Once, IsInjective
      <3>6. QED
        BY <3>3, <3>5
    <2>2. \A s \in Session, t \in Topic : life[s] = "closed" => s \notin group[t]
      BY DEF ChannelInv, Member
    <2>3. QED
      BY <2>1, <2>2 DEF JoinedGetsAll, ChannelInv
  <1>4. QED
    BY <1>1, <1>2, <1>3, PTL DEF ChannelSpec

-----------------------------------------------------------------------------
(***************************************************************************)
(* Registry.  A call of a process is on its way in one map or the other:   *)
(* what is in the entries is in the index, or will be by the next step of  *)
(* register, or was taken from the index by an unregister_all that has yet *)
(* to come to it.  What unregister took from the entries stays out of them *)
(* until the index has lost it too: only a process itself adds its entry.  *)
(***************************************************************************)
RegOps == {"idle", "insert", "index", "remove", "unindex", "all", "removeAll"}

RegistryShape ==
    /\ entries \in [Key -> SUBSET (Proc \cup {NoOne})]
    /\ pidToKeys \in [Proc -> SUBSET Key]
    /\ regTask \in [Proc -> [op : RegOps, key : Key \cup {NoOne}, keys : SUBSET Key]]

EntryIsKnown(p, k) ==
    p \in entries[k] => \/ k \in pidToKeys[p]
                        \/ regTask[p].op = "index" /\ regTask[p].key = k
                        \/ regTask[p].op \in {"all", "removeAll"} /\ k \in regTask[p].keys

EntryIsGone(p, k) ==
    regTask[p].op \in {"remove", "unindex"} /\ regTask[p].key = k => p \notin entries[k]

OpHasKey(p) ==
    regTask[p].op \in {"insert", "index", "remove", "unindex", "removeAll"} => regTask[p].key \in Key

RegistryInv ==
    /\ RegistryShape
    /\ \A p \in Proc : OpHasKey(p)
    /\ \A p \in Proc, k \in Key : EntryIsKnown(p, k) /\ EntryIsGone(p, k)

\* The marker of a missing key is no process.
LEMMA LookupIsEntries ==
    \A p \in Proc, k \in Key : p \in Lookup(k) <=> p \in entries[k]
  BY NoOneAssumption DEF Lookup, HasKey, Missing

LEMMA RegistryInitInv == RegistryInit => RegistryInv
  <1> SUFFICES ASSUME RegistryInit PROVE RegistryInv
    OBVIOUS
  <1>1. RegistryShape
    BY DEF RegistryInit, RegistryShape, Missing, RegIdle, RegTask, RegOps
  <1>2. \A p \in Proc : regTask[p].op = "idle"
    BY DEF RegistryInit, RegIdle, RegTask
  <1>3. \A p \in Proc, k \in Key : p \notin entries[k]
    BY NoOneAssumption DEF RegistryInit, Missing
  <1>4. QED
    BY <1>1, <1>2, <1>3 DEF RegistryInv, OpHasKey, EntryIsKnown, EntryIsGone

\* A step of p leaves the index and the tasks of the others as they are, and adds no entry of theirs.
LEMMA OthersKeepIndex ==
    ASSUME RegistryInv, NEW p \in Proc, NEW task,
           task \in [op : RegOps, key : Key \cup {NoOne}, keys : SUBSET Key],
           RegBecome(p, task), RegistryShape',
           \A q \in Proc \ {p} : pidToKeys'[q] = pidToKeys[q],
           \A q \in Proc \ {p}, k \in Key : q \in entries'[k] => q \in entries[k],
           OpHasKey(p)', \A k \in Key : EntryIsKnown(p, k)' /\ EntryIsGone(p, k)'
    PROVE  RegistryInv'
  <1>1. \A q \in Proc \ {p} : regTask'[q] = regTask[q]
    BY DEF RegBecome, RegistryInv, RegistryShape
  <1>2. ASSUME NEW q \in Proc \ {p} PROVE OpHasKey(q)'
    BY <1>1 DEF RegistryInv, OpHasKey
  <1>3. ASSUME NEW q \in Proc \ {p}, NEW k \in Key PROVE EntryIsKnown(q, k)' /\ EntryIsGone(q, k)'
    BY <1>1 DEF RegistryInv, EntryIsKnown, EntryIsGone
  <1>4. QED
    BY <1>2, <1>3 DEF RegistryInv

\* What a step makes of the task of its process.
LEMMA TaskBecomes ==
    ASSUME RegistryShape, NEW p \in Proc, NEW task, RegBecome(p, task),
           task \in [op : RegOps, key : Key \cup {NoOne}, keys : SUBSET Key]
    PROVE  /\ regTask'[p] = task
           /\ regTask' \in [Proc -> [op : RegOps, key : Key \cup {NoOne}, keys : SUBSET Key]]
  BY DEF RegistryShape, RegBecome

\* retain takes the entry of p from under k and adds none.
LEMMA RetainTakes ==
    ASSUME RegistryShape, NEW p \in Proc, NEW k \in Key, NEW removing, NEW after,
           RetainOthers(p, k, removing, after)
    PROVE  /\ entries' \in [Key -> SUBSET (Proc \cup {NoOne})]
           /\ p \notin entries'[k]
           /\ \A l \in Key, q \in Proc : q \in entries'[l] => q \in entries[l]
           /\ RegBecome(p, removing) \/ RegBecome(p, after)
  BY NoOneAssumption DEF RetainOthers, RegistryShape, HasKey, Missing

\* Where a key is removed, every entry of it goes.
LEMMA MissingTakes ==
    ASSUME RegistryShape, NEW k \in Key, entries' = [entries EXCEPT ![k] = Missing]
    PROVE  /\ entries' \in [Key -> SUBSET (Proc \cup {NoOne})]
           /\ \A l \in Key, q \in Proc : q \in entries'[l] => q \in entries[l]
  BY NoOneAssumption DEF RegistryShape, Missing

LEMMA RegisterKeyInv ==
    ASSUME RegistryInv, NEW p \in Proc,
           (\E k \in Key : Register(p, k)) \/ RegisterInsert(p) \/ RegisterIndex(p)
    PROVE  RegistryInv'
  <1>t. RegistryShape
    BY DEF RegistryInv
  <1>1. ASSUME NEW k \in Key, Register(p, k) PROVE RegistryInv'
    <2> DEFINE task == RegTask("insert", k, {})
    <2>1. task \in [op : RegOps, key : Key \cup {NoOne}, keys : SUBSET Key]
      BY DEF RegTask, RegOps
    <2>2. RegBecome(p, task) /\ regTask[p].op = "idle" /\ UNCHANGED <<entries, pidToKeys>>
      BY <1>1 DEF Register, RegIdle, RegTask
    <2>3. regTask'[p].op = "insert" /\ regTask'[p].key = k /\ RegistryShape'
      BY <1>t, <2>1, <2>2, TaskBecomes DEF RegTask, RegistryShape
    <2>4. OpHasKey(p)'
      BY <2>3 DEF OpHasKey
    <2>5. ASSUME NEW l \in Key PROVE EntryIsKnown(p, l)' /\ EntryIsGone(p, l)'
      BY <2>2, <2>3 DEF EntryIsKnown, EntryIsGone, RegistryInv
    <2> HIDE DEF task
    <2>6. QED
      BY <2>1, <2>2, <2>3, <2>4, <2>5, OthersKeepIndex
  <1>2. ASSUME RegisterInsert(p) PROVE RegistryInv'
    <2> DEFINE task == [regTask[p] EXCEPT !.op = "index"]
    <2>0. regTask[p] \in [op : RegOps, key : Key \cup {NoOne}, keys : SUBSET Key]
      BY <1>t DEF RegistryShape
    <2>1. task \in [op : RegOps, key : Key \cup {NoOne}, keys : SUBSET Key]
          /\ task.op = "index" /\ task.key = regTask[p].key
      BY <2>0 DEF RegOps
    <2>2. RegBecome(p, task) /\ regTask[p].op = "insert" /\ UNCHANGED pidToKeys
      BY <1>2 DEF RegisterInsert
    <2>3. PICK k \in Key : k = regTask[p].key
      BY <2>2 DEF RegistryInv, OpHasKey
    <2> HIDE DEF task
    <2>4. regTask'[p].op = "index" /\ regTask'[p].key = k
      BY <1>t, <2>1, <2>2, <2>3, TaskBecomes
    <2>5. \/ entries' = [entries EXCEPT ![k] = {p}]
          \/ entries' = [entries EXCEPT ![k] = Lookup(k) \cup {p}]
      BY <1>2, <2>3 DEF RegisterInsert
    <2>6. Lookup(k) \subseteq entries[k]
      BY DEF Lookup
    <2>7. entries' \in [Key -> SUBSET (Proc \cup {NoOne})]
      BY <1>t, <2>5, <2>6 DEF RegistryShape
    <2>8. \A q \in Proc, l \in Key : q \in entries'[l] => q \in entries[l] \/ (q = p /\ l = k)
      BY <1>t, <2>5, <2>6 DEF RegistryShape
    <2>9. RegistryShape'
      BY <1>t, <2>1, <2>2, <2>7, TaskBecomes DEF RegistryShape
    <2>10. OpHasKey(p)'
      BY <2>4 DEF OpHasKey
    <2>11. ASSUME NEW l \in Key PROVE EntryIsKnown(p, l)' /\ EntryIsGone(p, l)'
      BY <2>2, <2>4, <2>8 DEF EntryIsKnown, EntryIsGone, RegistryInv
    <2>12. QED
      BY <2>1, <2>2, <2>8, <2>9, <2>10, <2>11, OthersKeepIndex
  <1>3. ASSUME RegisterIndex(p) PROVE RegistryInv'
    <2>1. RegIdle \in [op : RegOps, key : Key \cup {NoOne}, keys : SUBSET Key] /\ RegIdle.op = "idle"
      BY DEF RegIdle, RegTask, RegOps
    <2>2. RegBecome(p, RegIdle) /\ regTask[p].op = "index" /\ UNCHANGED entries
      BY <1>3 DEF RegisterIndex
    <2>3. regTask[p].key \in Key
      BY <2>2 DEF RegistryInv, OpHasKey
    <2>4. pidToKeys' = [pidToKeys EXCEPT ![p] = pidToKeys[p] \cup {regTask[p].key}]
      BY <1>3 DEF RegisterIndex, IndexWith
    <2>5. regTask'[p].op = "idle"
      BY <1>t, <2>1, <2>2, TaskBecomes
    <2>6. pidToKeys' \in [Proc -> SUBSET Key] /\ pidToKeys'[p] = pidToKeys[p] \cup {regTask[p].key}
          /\ \A q \in Proc \ {p} : pidToKeys'[q] = pidToKeys[q]
      BY <1>t, <2>3, <2>4 DEF RegistryShape
    <2>7. RegistryShape'
      BY <1>t, <2>1, <2>2, <2>6, TaskBecomes DEF RegistryShape
    <2>8. OpHasKey(p)'
      BY <2>5 DEF OpHasKey
    <2>9. ASSUME NEW l \in Key PROVE EntryIsKnown(p, l)' /\ EntryIsGone(p, l)'
      BY <2>2, <2>5, <2>6 DEF EntryIsKnown, EntryIsGone, RegistryInv
    <2>10. QED
      BY <2>1, <2>2, <2>6, <2>7, <2>8, <2>9, OthersKeepIndex
  <1>4. QED
    BY <1>1, <1>2, <1>3

LEMMA UnregisterKeyInv ==
    ASSUME RegistryInv, NEW p \in Proc,
           (\E k \in Key : UnregisterKey(p, k)) \/ RemoveKey(p) \/ Unindex(p)
    PROVE  RegistryInv'
  <1>t. RegistryShape
    BY DEF RegistryInv
  <1>1. ASSUME NEW k \in Key, UnregisterKey(p, k) PROVE RegistryInv'
    <2>1. RetainOthers(p, k, RegTask("remove", k, {}), RegTask("unindex", k, {}))
          /\ regTask[p].op = "idle" /\ UNCHANGED pidToKeys
      BY <1>1 DEF UnregisterKey, RegIdle, RegTask
    <2>2. PICK op \in {"remove", "unindex"} : RegBecome(p, RegTask(op, k, {}))
      BY <1>t, <2>1, RetainTakes
    <2>3. RegTask(op, k, {}) \in [op : RegOps, key : Key \cup {NoOne}, keys : SUBSET Key]
      BY DEF RegTask, RegOps
    <2>4. regTask'[p] = RegTask(op, k, {}) /\ RegistryShape'
      BY <1>t, <2>1, <2>2, <2>3, RetainTakes, TaskBecomes DEF RegistryShape
    <2>5. regTask'[p].op = op /\ regTask'[p].key = k
      BY <2>4 DEF RegTask
    <2>6. /\ p \notin entries'[k]
          /\ \A l \in Key, q \in Proc : q \in entries'[l] => q \in entries[l]
      BY <1>t, <2>1, RetainTakes
    <2>7. OpHasKey(p)'
      BY <2>5 DEF OpHasKey
    <2>8. ASSUME NEW l \in Key PROVE EntryIsKnown(p, l)' /\ EntryIsGone(p, l)'
      BY <2>1, <2>5, <2>6 DEF EntryIsKnown, EntryIsGone, RegistryInv
    <2>9. QED
      BY <2>1, <2>2, <2>3, <2>4, <2>6, <2>7, <2>8, OthersKeepIndex
  <1>2. ASSUME RemoveKey(p) PROVE RegistryInv'
    <2> DEFINE task == [regTask[p] EXCEPT !.op = "unindex"]
    <2>0. regTask[p] \in [op : RegOps, key : Key \cup {NoOne}, keys : SUBSET Key]
      BY <1>t DEF RegistryShape
    <2>1. task \in [op : RegOps, key : Key \cup {NoOne}, keys : SUBSET Key]
          /\ task.op = "unindex" /\ task.key = regTask[p].key
      BY <2>0 DEF RegOps
    <2>2. RegBecome(p, task) /\ regTask[p].op = "remove" /\ UNCHANGED pidToKeys
      BY <1>2 DEF RemoveKey
    <2>3. PICK k \in Key : k = regTask[p].key
      BY <2>2 DEF RegistryInv, OpHasKey
    <2> HIDE DEF task
    <2>4. regTask'[p].op = "unindex" /\ regTask'[p].key = k
      BY <1>t, <2>1, <2>2, <2>3, TaskBecomes
    <2>5. entries' = [entries EXCEPT ![k] = Missing]
      BY <1>2, <2>3 DEF RemoveKey
    <2>6. /\ entries' \in [Key -> SUBSET (Proc \cup {NoOne})]
          /\ \A l \in Key, q \in Proc : q \in entries'[l] => q \in entries[l]
      BY <1>t, <2>5, MissingTakes
    <2>7. RegistryShape'
      BY <1>t, <2>1, <2>2, <2>6, TaskBecomes DEF RegistryShape
    <2>8. OpHasKey(p)'
      BY <2>4 DEF OpHasKey
    <2>9. ASSUME NEW l \in Key PROVE EntryIsKnown(p, l)' /\ EntryIsGone(p, l)'
      BY <2>2, <2>3, <2>4, <2>6 DEF EntryIsKnown, EntryIsGone, RegistryInv
    <2>10. QED
      BY <2>1, <2>2, <2>6, <2>7, <2>8, <2>9, OthersKeepIndex
  <1>3. ASSUME Unindex(p) PROVE RegistryInv'
    <2>1. RegIdle \in [op : RegOps, key : Key \cup {NoOne}, keys : SUBSET Key] /\ RegIdle.op = "idle"
      BY DEF RegIdle, RegTask, RegOps
    <2>2. RegBecome(p, RegIdle) /\ regTask[p].op = "unindex" /\ UNCHANGED entries
      BY <1>3 DEF Unindex
    <2>3. PICK k \in Key : k = regTask[p].key
      BY <2>2 DEF RegistryInv, OpHasKey
    <2>4. p \notin entries[k]
      BY <2>2, <2>3 DEF RegistryInv, EntryIsGone
    <2>5. pidToKeys' = [pidToKeys EXCEPT ![p] = @ \ {k}]
      BY <1>3, <2>3 DEF Unindex
    <2>6. regTask'[p].op = "idle"
      BY <1>t, <2>1, <2>2, TaskBecomes
    <2>7. pidToKeys' \in [Proc -> SUBSET Key] /\ pidToKeys'[p] = pidToKeys[p] \ {k}
          /\ \A q \in Proc \ {p} : pidToKeys'[q] = pidToKeys[q]
      BY <1>t, <2>5 DEF RegistryShape
    <2>8. RegistryShape'
      BY <1>t, <2>1, <2>2, <2>7, TaskBecomes DEF RegistryShape
    <2>9. OpHasKey(p)'
      BY <2>6 DEF OpHasKey
    <2>10. ASSUME NEW l \in Key PROVE EntryIsKnown(p, l)' /\ EntryIsGone(p, l)'
      BY <2>2, <2>4, <2>6, <2>7 DEF EntryIsKnown, EntryIsGone, RegistryInv
    <2>11. QED
      BY <2>1, <2>2, <2>7, <2>8, <2>9, <2>10, OthersKeepIndex
  <1>4. QED
    BY <1>1, <1>2, <1>3

LEMMA UnregisterAllInv ==
    ASSUME RegistryInv, NEW p \in Proc,
           UnregisterAll(p) \/ UnregisterNext(p) \/ RemoveKeyOfAll(p)
    PROVE  RegistryInv'
  <1>t. RegistryShape
    BY DEF RegistryInv
  <1>0. regTask[p] \in [op : RegOps, key : Key \cup {NoOne}, keys : SUBSET Key]
    BY <1>t DEF RegistryShape
  <1>1. ASSUME UnregisterAll(p) PROVE RegistryInv'
    <2> DEFINE task == RegTask("all", NoOne, pidToKeys[p])
    <2>1. task \in [op : RegOps, key : Key \cup {NoOne}, keys : SUBSET Key]
          /\ task.op = "all" /\ task.keys = pidToKeys[p]
      BY <1>t DEF RegTask, RegOps, RegistryShape
    <2>2. RegBecome(p, task) /\ regTask[p].op = "idle" /\ UNCHANGED entries
      BY <1>1 DEF UnregisterAll, RegIdle, RegTask
    <2>3. pidToKeys' = [pidToKeys EXCEPT ![p] = {}]
      BY <1>1 DEF UnregisterAll
    <2> HIDE DEF task
    <2>4. regTask'[p].op = "all" /\ regTask'[p].keys = pidToKeys[p]
      BY <1>t, <2>1, <2>2, TaskBecomes
    <2>5. pidToKeys' \in [Proc -> SUBSET Key]
          /\ \A q \in Proc \ {p} : pidToKeys'[q] = pidToKeys[q]
      BY <1>t, <2>3 DEF RegistryShape
    <2>6. RegistryShape'
      BY <1>t, <2>1, <2>2, <2>5, TaskBecomes DEF RegistryShape
    <2>7. OpHasKey(p)'
      BY <2>4 DEF OpHasKey
    <2>8. ASSUME NEW l \in Key PROVE EntryIsKnown(p, l)' /\ EntryIsGone(p, l)'
      BY <2>2, <2>4 DEF EntryIsKnown, EntryIsGone, RegistryInv
    <2>9. QED
      BY <2>1, <2>2, <2>5, <2>6, <2>7, <2>8, OthersKeepIndex
  <1>2. ASSUME UnregisterNext(p), regTask[p].keys = {}, RegBecome(p, RegIdle), UNCHANGED entries
        PROVE RegistryInv'
    <2>1. RegIdle \in [op : RegOps, key : Key \cup {NoOne}, keys : SUBSET Key] /\ RegIdle.op = "idle"
      BY DEF RegIdle, RegTask, RegOps
    <2>2. regTask[p].op = "all" /\ UNCHANGED pidToKeys
      BY <1>2 DEF UnregisterNext
    <2>3. regTask'[p].op = "idle"
      BY <1>t, <1>2, <2>1, TaskBecomes
    <2>4. RegistryShape'
      BY <1>t, <1>2, <2>1, <2>2, TaskBecomes DEF RegistryShape
    <2>5. OpHasKey(p)'
      BY <2>3 DEF OpHasKey
    <2>6. ASSUME NEW l \in Key PROVE EntryIsKnown(p, l)' /\ EntryIsGone(p, l)'
      BY <1>2, <2>2, <2>3 DEF EntryIsKnown, EntryIsGone, RegistryInv
    <2>7. QED
      BY <1>2, <2>1, <2>2, <2>4, <2>5, <2>6, OthersKeepIndex
  <1>3. ASSUME UnregisterNext(p), NEW k \in regTask[p].keys,
               RetainOthers(p, k, RegTask("removeAll", k, regTask[p].keys \ {k}),
                                  RegTask("all", NoOne, regTask[p].keys \ {k}))
        PROVE RegistryInv'
    <2>1. k \in Key /\ regTask[p].keys \subseteq Key
      BY <1>0
    <2>2. regTask[p].op = "all" /\ UNCHANGED pidToKeys
      BY <1>3 DEF UnregisterNext
    <2>3. PICK task \in {RegTask("removeAll", k, regTask[p].keys \ {k}),
                         RegTask("all", NoOne, regTask[p].keys \ {k})} : RegBecome(p, task)
      BY <1>t, <1>3, <2>1, RetainTakes
    <2>4. /\ task \in [op : RegOps, key : Key \cup {NoOne}, keys : SUBSET Key]
          /\ task.op \in {"all", "removeAll"} /\ task.keys = regTask[p].keys \ {k}
          /\ task.op = "removeAll" => task.key = k
      BY <2>1, <2>3 DEF RegTask, RegOps
    <2>5. regTask'[p] = task
      BY <1>t, <2>3, <2>4, TaskBecomes
    <2>6. /\ p \notin entries'[k]
          /\ entries' \in [Key -> SUBSET (Proc \cup {NoOne})]
          /\ \A l \in Key, q \in Proc : q \in entries'[l] => q \in entries[l]
      BY <1>t, <1>3, <2>1, RetainTakes
    <2>7. RegistryShape'
      BY <1>t, <2>2, <2>3, <2>4, <2>6, TaskBecomes DEF RegistryShape
    <2>8. OpHasKey(p)'
      BY <2>1, <2>4, <2>5 DEF OpHasKey
    <2>9. ASSUME NEW l \in Key PROVE EntryIsKnown(p, l)' /\ EntryIsGone(p, l)'
      BY <2>2, <2>4, <2>5, <2>6 DEF EntryIsKnown, EntryIsGone, RegistryInv
    <2>10. QED
      BY <2>2, <2>3, <2>4, <2>6, <2>7, <2>8, <2>9, OthersKeepIndex
  <1>4. ASSUME RemoveKeyOfAll(p) PROVE RegistryInv'
    <2> DEFINE task == RegTask("all", NoOne, regTask[p].keys)
    <2>1. task \in [op : RegOps, key : Key \cup {NoOne}, keys : SUBSET Key]
          /\ task.op = "all" /\ task.keys = regTask[p].keys
      BY <1>0 DEF RegTask, RegOps
    <2>2. RegBecome(p, task) /\ regTask[p].op = "removeAll" /\ UNCHANGED pidToKeys
      BY <1>4 DEF RemoveKeyOfAll
    <2>3. PICK k \in Key : k = regTask[p].key
      BY <2>2 DEF RegistryInv, OpHasKey
    <2> HIDE DEF task
    <2>4. regTask'[p].op = "all" /\ regTask'[p].keys = regTask[p].keys
      BY <1>t, <2>1, <2>2, TaskBecomes
    <2>5. entries' = [entries EXCEPT ![k] = Missing]
      BY <1>4, <2>3 DEF RemoveKeyOfAll
    <2>6. /\ entries' \in [Key -> SUBSET (Proc \cup {NoOne})]
          /\ \A l \in Key, q \in Proc : q \in entries'[l] => q \in entries[l]
      BY <1>t, <2>5, MissingTakes
    <2>7. RegistryShape'
      BY <1>t, <2>1, <2>2, <2>6, TaskBecomes DEF RegistryShape
    <2>8. OpHasKey(p)'
      BY <2>4 DEF OpHasKey
    <2>9. ASSUME NEW l \in Key PROVE EntryIsKnown(p, l)' /\ EntryIsGone(p, l)'
      BY <2>2, <2>4, <2>6 DEF EntryIsKnown, EntryIsGone, RegistryInv
    <2>10. QED
      BY <2>1, <2>2, <2>6, <2>7, <2>8, <2>9, OthersKeepIndex
  <1>5. CASE UnregisterNext(p)
    BY <1>2, <1>3, <1>5 DEF UnregisterNext
  <1>6. QED
    BY <1>1, <1>4, <1>5

\* Removing a key for good adds no entry and is no step of the index.
LEMMA UnregisterTermInv ==
    ASSUME RegistryInv, NEW k \in Key, UnregisterTerm(k)
    PROVE  RegistryInv'
  <1>1. RegistryShape
    BY DEF RegistryInv
  <1>2. entries' = [entries EXCEPT ![k] = Missing] /\ UNCHANGED <<pidToKeys, regTask>>
    BY DEF UnregisterTerm
  <1>3. /\ entries' \in [Key -> SUBSET (Proc \cup {NoOne})]
        /\ \A l \in Key, q \in Proc : q \in entries'[l] => q \in entries[l]
    BY <1>1, <1>2, MissingTakes
  <1>4. RegistryShape'
    BY <1>1, <1>2, <1>3 DEF RegistryShape
  <1>5. QED
    BY <1>2, <1>3, <1>4 DEF RegistryInv, OpHasKey, EntryIsKnown, EntryIsGone

LEMMA RegistryNextInv == RegistryInv /\ [RegistryNext]_registryVars => RegistryInv'
  <1> SUFFICES ASSUME RegistryInv, [RegistryNext]_registryVars PROVE RegistryInv'
    OBVIOUS
  <1>1. CASE UNCHANGED registryVars
    BY <1>1 DEF registryVars, RegistryInv, RegistryShape, OpHasKey, EntryIsKnown, EntryIsGone
  <1>2. CASE RegistryNext
    BY <1>2, RegisterKeyInv, UnregisterKeyInv, UnregisterAllInv, UnregisterTermInv DEF RegistryNext
  <1>3. QED
    BY <1>1, <1>2

(***************************************************************************)
(* Between two calls of a process, every entry of it is in its index, so   *)
(* unregister_all finds it: registry.rs, the two maps of register and      *)
(* unregister.                                                             *)
(***************************************************************************)
THEOREM EntriesAreIndexed == RegistrySpec => []EntryIsIndexed
  <1>1. RegistryInv => EntryIsIndexed
    <2> SUFFICES ASSUME RegistryInv, NEW p \in Proc, NEW k \in Key,
                        regTask[p] = RegIdle, p \in Lookup(k)
                 PROVE  k \in pidToKeys[p]
      BY DEF EntryIsIndexed
    <2>1. p \in entries[k] /\ regTask[p].op = "idle"
      BY LookupIsEntries DEF RegIdle, RegTask
    <2>2. QED
      BY <2>1 DEF RegistryInv, EntryIsKnown
  <1>2. QED
    BY <1>1, RegistryInitInv, RegistryNextInv, PTL DEF RegistrySpec
-----------------------------------------------------------------------------
(***************************************************************************)
(* Peers.  A process that left the handle has ended or is being killed by  *)
(* the stop that took it and still holds the lock; and before a peer is    *)
(* started, or after its last handle went, no call is under way.           *)
(***************************************************************************)
PeerInv ==
    /\ PeerTypeOK
    /\ peerState = "none" => ~peerChild /\ \A c \in Caller : peerTask[c] = "idle"
    /\ peerState # "none" /\ ~peerChild /\ ChildIsFree => osProcess = "exited"
    /\ \A c \in Caller : peerTask[c] = "killed" => osProcess = "exited"
    /\ DownIsOver

LEMMA PeerStays == PeerInv /\ [PeerNext]_peerVars => PeerInv'
<1> SUFFICES ASSUME PeerInv, [PeerNext]_peerVars PROVE PeerInv'
  OBVIOUS
<1> USE DEF PeerInv, PeerTypeOK, DownIsOver, ChildIsFree
<1>1. ASSUME NEW link \in BOOLEAN, StartPeer(link) PROVE PeerInv'
  BY <1>1 DEF StartPeer
<1>2. CASE PeerListens
  BY <1>2 DEF PeerListens
<1>3. CASE PeerExits
  BY <1>3 DEF PeerExits
<1>4. CASE DropPeer
  BY <1>4 DEF DropPeer
<1>5. ASSUME NEW c \in Caller, WaitBoot(c) PROVE PeerInv'
  BY <1>5 DEF WaitBoot, PeerGoto
<1>6. ASSUME NEW c \in Caller, WaitBootChecks(c) PROVE PeerInv'
  BY <1>6 DEF WaitBootChecks, PeerGoto, HasExited
<1>7. ASSUME NEW c \in Caller, WaitBootConnects(c) PROVE PeerInv'
  BY <1>7 DEF WaitBootConnects, PeerGoto
<1>8. ASSUME NEW c \in Caller, WaitBootReturns(c) PROVE PeerInv'
  BY <1>8 DEF WaitBootReturns, PeerGoto
<1>9. ASSUME NEW c \in Caller, StopPeer(c) PROVE PeerInv'
  BY <1>9 DEF StopPeer, PeerGoto
<1>10. ASSUME NEW c \in Caller, StopKills(c) PROVE PeerInv'
  BY <1>10 DEF StopKills, Killed, PeerGoto
<1>11. ASSUME NEW c \in Caller, StopReturns(c) PROVE PeerInv'
  BY <1>11 DEF StopReturns, PeerGoto
<1>12. ASSUME NEW c \in Caller, IsAlive(c) PROVE PeerInv'
  BY <1>12 DEF IsAlive, HasExited
<1>13. CASE UNCHANGED peerVars
  BY <1>13 DEF peerVars
<1> QED
  BY <1>1, <1>2, <1>3, <1>4, <1>5, <1>6, <1>7, <1>8, <1>9, <1>10, <1>11, <1>12, <1>13 DEF PeerNext

(***************************************************************************)
(* A peer that is reported as down has ended, however many callers wait    *)
(* for it, stop it and ask for it at once, and whenever its process exits: *)
(* no stop and no drop leaves a process behind that is said to be down.    *)
(***************************************************************************)
THEOREM DownPeersHaveEnded == PeerSpec => []DownIsOver
<1>1. PeerInit => PeerInv
  BY DEF PeerInit, PeerInv, PeerTypeOK, DownIsOver, ChildIsFree
<1>2. PeerInv => DownIsOver
  BY DEF PeerInv
<1> QED
  BY <1>1, <1>2, PeerStays, PTL DEF PeerSpec
=============================================================================
