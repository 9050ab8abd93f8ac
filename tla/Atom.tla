-------------------------------- MODULE Atom --------------------------------
(***************************************************************************)
(* The global atom table: AtomTable of atom/mod.rs.  Threads intern names  *)
(* by a check without the lock, a check under it and two writes; lookups   *)
(* take the lock for reading.  Indices are taken to fit their 32 bits.     *)
(***************************************************************************)
EXTENDS Integers, Sequences

CONSTANTS
    Thread,
    Name,       \* the strings
    NoName,     \* no string
    None        \* no thread

ASSUME NoneAssumption == None \notin Thread /\ NoName \notin Name

Absent == -1

VARIABLES
    stringToIndex,  \* the map from strings to indices, Absent where it has none
    indexToString,  \* the vector of strings; index i is at i + 1
    lock,           \* who writes index_to_string
    pc,             \* where each thread is in intern
    arg,            \* the string it interns
    result,         \* the index the last intern returned
    name            \* the string the last lookup returned

vars == <<stringToIndex, indexToString, lock, pc, arg, result, name>>

PC == {"idle", "fast", "lock", "check", "push", "insert"}

\* The last conjuncts: who writes index_to_string, and who interns.
TypeOK ==
    /\ stringToIndex \in [Name -> Nat \cup {Absent}]
    /\ indexToString \in Seq(Name)
    /\ lock \in Thread \cup {None}
    /\ pc \in [Thread -> PC]
    /\ arg \in [Thread -> Name \cup {NoName}]
    /\ result \in [Thread -> Nat \cup {Absent}]
    /\ name \in [Thread -> Name \cup {NoName}]
    /\ \A t \in Thread :
          /\ lock = t <=> pc[t] \in {"check", "push", "insert"}
          /\ arg[t] = NoName <=> pc[t] = "idle"

Init ==
    /\ stringToIndex = [s \in Name |-> Absent]
    /\ indexToString = <<>>
    /\ lock = None
    /\ pc = [t \in Thread |-> "idle"]
    /\ arg = [t \in Thread |-> NoName]
    /\ result = [t \in Thread |-> Absent]
    /\ name = [t \in Thread |-> NoName]

Goto(t, step) == pc' = [pc EXCEPT ![t] = step]

Return(t, index) ==
    /\ Goto(t, "idle")
    /\ arg' = [arg EXCEPT ![t] = NoName]
    /\ result' = [result EXCEPT ![t] = index]

Intern(t, s) ==
    /\ pc[t] = "idle"
    /\ Goto(t, "fast")
    /\ arg' = [arg EXCEPT ![t] = s]
    /\ UNCHANGED <<stringToIndex, indexToString, lock, result, name>>

FastPath(t) ==
    /\ pc[t] = "fast"
    /\ \/ /\ stringToIndex[arg[t]] # Absent
          /\ Return(t, stringToIndex[arg[t]])
       \/ /\ stringToIndex[arg[t]] = Absent
          /\ Goto(t, "lock")
          /\ UNCHANGED <<arg, result>>
    /\ UNCHANGED <<stringToIndex, indexToString, lock, name>>

\* Variant: the lock is not exclusive.
Anytime == TRUE
LockIsFree == lock = None

WriteLock(t) ==
    /\ pc[t] = "lock"
    /\ LockIsFree
    /\ lock' = t
    /\ Goto(t, "check")
    /\ UNCHANGED <<stringToIndex, indexToString, arg, result, name>>

\* Variant: no second check.
NotChecked(t) == FALSE
AddedMeanwhile(t) == stringToIndex[arg[t]] # Absent

DoubleCheck(t) ==
    /\ pc[t] = "check"
    /\ \/ /\ AddedMeanwhile(t)
          /\ Return(t, stringToIndex[arg[t]])
          /\ lock' = None
       \/ /\ ~AddedMeanwhile(t)
          /\ Goto(t, "push")
          /\ UNCHANGED <<arg, result, lock>>
    /\ UNCHANGED <<stringToIndex, indexToString, name>>

Push(t) ==
    /\ pc[t] = "push"
    /\ indexToString' = Append(indexToString, arg[t])
    /\ Goto(t, "insert")
    /\ UNCHANGED <<stringToIndex, lock, arg, result, name>>

\* The index was taken before the push.  Variant: after it.
LengthNow == Len(indexToString)
IndexBefore == Len(indexToString) - 1

Insert(t) ==
    /\ pc[t] = "insert"
    /\ stringToIndex' = [stringToIndex EXCEPT ![arg[t]] = IndexBefore]
    /\ Return(t, IndexBefore)
    /\ lock' = None
    /\ UNCHANGED <<indexToString, name>>

\* as_str of an atom that some intern returned.
Get(t, atom) ==
    /\ pc[t] = "idle"
    /\ LockIsFree
    /\ atom \in 0 .. Len(indexToString) - 1
    /\ name' = [name EXCEPT ![t] = indexToString[atom + 1]]
    /\ UNCHANGED <<stringToIndex, indexToString, lock, pc, arg, result>>

Next ==
    \E t \in Thread :
        \/ \E s \in Name : Intern(t, s)
        \/ FastPath(t)
        \/ WriteLock(t)
        \/ DoubleCheck(t)
        \/ Push(t)
        \/ Insert(t)
        \/ \E u \in Thread : Get(t, result[u])

Spec == Init /\ [][Next]_vars
-----------------------------------------------------------------------------
(***************************************************************************)
(* Interning is invertible: the two maps agree wherever the first is       *)
(* defined, so distinct strings have distinct atoms (intern), and every    *)
(* atom returned so far can be looked up (as_str does not panic).          *)
(***************************************************************************)
Invertible ==
    /\ \A s \in Name : stringToIndex[s] # Absent =>
           /\ stringToIndex[s] + 1 \in 1 .. Len(indexToString)
           /\ indexToString[stringToIndex[s] + 1] = s
    /\ \A t \in Thread : result[t] # Absent => result[t] + 1 \in 1 .. Len(indexToString)

(***************************************************************************)
(* intern is atomic although it writes two tables in two steps: the atom   *)
(* table implements Interning.                                             *)
(***************************************************************************)
Table == INSTANCE Interning
             WITH table <- stringToIndex, asked <- arg, answer <- result

ImplementsInterning == Table!Spec
=============================================================================
