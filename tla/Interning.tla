----------------------------- MODULE Interning ------------------------------
(***************************************************************************)
(* What the atom table promises: an intern or a lookup happens at one      *)
(* moment, on a table in which a string keeps the index it was given and   *)
(* no index is given twice.                                                *)
(***************************************************************************)
EXTENDS Integers

CONSTANTS
    Thread,
    Name,       \* the strings
    NoName      \* no string

Absent == -1

VARIABLES
    table,      \* the index of each string, or Absent
    asked,      \* the string each thread wants the index of, or NoName
    answer      \* the last index each thread was given

vars == <<table, asked, answer>>

Init ==
    /\ table = [s \in Name |-> Absent]
    /\ asked = [t \in Thread |-> NoName]
    /\ answer = [t \in Thread |-> Absent]

Ask(t, s) ==
    /\ asked[t] = NoName
    /\ asked' = [asked EXCEPT ![t] = s]
    /\ UNCHANGED <<table, answer>>

Answer(t) ==
    /\ answer' = [answer EXCEPT ![t] = table'[asked[t]]]
    /\ asked' = [asked EXCEPT ![t] = NoName]

Find(t) ==
    /\ asked[t] \in Name
    /\ table[asked[t]] # Absent
    /\ UNCHANGED table
    /\ Answer(t)

Add(t) ==
    /\ asked[t] \in Name
    /\ table[asked[t]] = Absent
    /\ table'[asked[t]] \in Nat
    /\ \A s \in Name : table[s] # table'[asked[t]]
    /\ table' = [table EXCEPT ![asked[t]] = table'[asked[t]]]
    /\ Answer(t)

Next == \E t \in Thread : (\E s \in Name : Ask(t, s)) \/ Find(t) \/ Add(t)

Spec == Init /\ [][Next]_vars
=============================================================================
