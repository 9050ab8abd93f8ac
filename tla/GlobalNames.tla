----------------------------- MODULE GlobalNames -----------------------------
(***************************************************************************)
(* Globally registered names of two nodes: distribution/global.rs.  Each   *)
(* node has a table of its own; what one registers or removes is told to   *)
(* the other, and a new connection exchanges the tables.  The end of a     *)
(* connection removes nothing.  A call is interleaved with other threads   *)
(* between its accesses of the table.                                      *)
(***************************************************************************)
EXTENDS ClusterLink

CONSTANT GlobalName

ASSUME NamesAssumption == GlobalName # {}

VARIABLES
    globalNames,\* the table of each node
    nameCall,   \* the call that each process is in
    registrants,\* history: the processes that ever inserted each name
    dropped,    \* history: the names that an unregister was called for
    nameCalls   \* how many calls were made

globalVars == <<globalNames, nameCall, registrants, dropped, nameCalls>>

Idle(p) == nameCall[p].step = "none"
NoNameCall == [name |-> CHOOSE x \in GlobalName : TRUE, step |-> "none"]

GlobalInit ==
    /\ LinkInit
    /\ globalNames = [n \in Node |-> [x \in GlobalName |-> Nobody]]
    /\ nameCall = [p \in Pid |-> NoNameCall]
    /\ registrants = [x \in GlobalName |-> {}]
    /\ dropped = {}
    /\ nameCalls = 0

GlobalTypeOK ==
    /\ LinkTypeOK
    /\ globalNames \in [Node -> [GlobalName -> Pid \cup {Nobody}]]
    /\ nameCall \in [Pid -> [name : GlobalName, step : {"none", "insert", "tell", "told"}]]
    /\ registrants \in [GlobalName -> SUBSET Pid]
    /\ dropped \subseteq GlobalName

-----------------------------------------------------------------------------
Set(n, x, p) == globalNames' = [globalNames EXCEPT ![n][x] = p]
Registers(x, p) == [kind |-> "register", name |-> x, pid |-> p, all |-> <<>>]
Unregisters(x) == [kind |-> "unregister", name |-> x, pid |-> Nobody, all |-> <<>>]
Request == [kind |-> "request", name |-> NoNameCall.name, pid |-> Nobody, all |-> <<>>]
Response(entries) == [kind |-> "response", name |-> NoNameCall.name, pid |-> Nobody, all |-> entries]

Goes(p, x, step) == nameCall' = [nameCall EXCEPT ![p] = [name |-> x, step |-> step]]
Started(p) == Idle(p) /\ nameCalls < MaxCalls /\ nameCalls' = nameCalls + 1

\* register answers false when the table has the name.
Register(p, x) ==
    /\ Started(p)
    /\ IF globalNames[Home[p]][x] # Nobody THEN UNCHANGED nameCall ELSE Goes(p, x, "insert")
    /\ UNCHANGED <<linkVars, globalNames, registrants, dropped>>

InsertName(p) ==
    LET x == nameCall[p].name
    IN /\ nameCall[p].step = "insert"
       /\ Set(Home[p], x, p)
       /\ Goes(p, x, "tell")
       /\ registrants' = [registrants EXCEPT ![x] = @ \cup {p}]
       /\ UNCHANGED <<linkVars, dropped, nameCalls>>

TellName(p) ==
    LET c == nameCall[p]
    IN /\ c.step \in {"tell", "told"}
       /\ LinkStays
       /\ Post(Home[p], <<IF c.step = "tell" THEN Registers(c.name, p) ELSE Unregisters(c.name)>>)
       /\ nameCall' = [nameCall EXCEPT ![p] = NoNameCall]
       /\ UNCHANGED <<globalNames, registrants, dropped, nameCalls>>

\* unregister is open to any process, and tells only of what it removed.
Unregister(p, x) ==
    /\ Started(p)
    /\ dropped' = dropped \cup {x}
    /\ Set(Home[p], x, Nobody)
    /\ IF globalNames[Home[p]][x] # Nobody THEN Goes(p, x, "told") ELSE UNCHANGED nameCall
    /\ UNCHANGED <<linkVars, registrants>>

-----------------------------------------------------------------------------
(***************************************************************************)
(* The connection, and the messages of the other node.                     *)
(***************************************************************************)
Empty(n) == \A x \in GlobalName : globalNames[n][x] = Nobody

AttachNames(n) ==
    LinkInsert(n, <<Request>> \o (IF Empty(n) THEN <<>> ELSE <<Response(globalNames[n])>>))

\* or_insert of each entry.  Variant of the merge: the table is taken over.
OrInsert(table, entries) ==
    [x \in GlobalName |-> IF table[x] = Nobody THEN entries[x] ELSE table[x]]
TakenOver(table, entries) == entries
MergedNames(table, entries) == OrInsert(table, entries)

HandleName(n, h) ==
    LET m == h.msg
        only == [x \in GlobalName |-> IF x = m.name THEN m.pid ELSE Nobody]
        Becomes(table) == globalNames' = [globalNames EXCEPT ![n] = table]
    IN /\ LinkHandle(n, h, IF m.kind = "request" THEN <<Response(globalNames[n])>> ELSE <<>>)
       /\ \/ m.kind = "request" /\ UNCHANGED globalNames
          \/ m.kind = "register" /\ Becomes(OrInsert(globalNames[n], only))
          \/ m.kind = "unregister" /\ Set(n, m.name, Nobody)
          \/ m.kind = "response" /\ Becomes(MergedNames(globalNames[n], m.all))

GlobalNext ==
    \/ \E p \in Pid :
          \/ \E x \in GlobalName : Register(p, x) \/ Unregister(p, x)
          \/ InsertName(p)
          \/ TellName(p)
    \/ /\ \E n \in Node : \E h \in inHand[n] : HandleName(n, h)
       /\ UNCHANGED <<nameCall, registrants, dropped, nameCalls>>
    \/ /\ \/ LinkLost
          \/ \E n \in Node : Dial(n) \/ LinkAccept(n) \/ AttachNames(n) \/ LinkDown(n) \/ LinkRead(n)
       /\ UNCHANGED globalVars

-----------------------------------------------------------------------------
(***************************************************************************)
(* A name that was registered and that no one unregistered is known to     *)
(* both nodes once the connection has settled, each time as a process that *)
(* registered it, whatever the registration met: the exchange of tables,   *)
(* the end of the connection, the registration of another thread that      *)
(* passed the same check or of the other node that did not know.           *)
(***************************************************************************)
NameIsKnown ==
    LinkSettled /\ (\A p \in Pid : Idle(p)) =>
        \A x \in GlobalName \ dropped : \A n \in Node :
            globalNames[n][x] \in (IF registrants[x] = {} THEN {Nobody} ELSE registrants[x])
=============================================================================
