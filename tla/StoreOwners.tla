----------------------------- MODULE StoreOwners -----------------------------
(***************************************************************************)
(* Who owns which store: store/registry.rs, and the ownership operations   *)
(* of store/mod.rs.  The registry is three concurrent maps; an operation   *)
(* writes them one after another and holds no lock in between.  A process  *)
(* does one thing at a time; when it is over, its task cleans up.          *)
(***************************************************************************)
EXTENDS Naturals, FiniteSets, Processes

CONSTANTS
    Owners,         \* the processes that own stores
    Store,          \* the store ids
    StoreName,
    OwnersGive      \* whether only current owners call give_away

ASSUME OwnersAssumption == NoOne \notin Owners /\ NoOne \notin Store

VARIABLES
    stores,         \* REGISTRY.stores: the ids that have metadata
    storeOwner,     \* StoreMetadata::owner
    storeHeir,      \* StoreMetadata::heir
    storeName,      \* StoreMetadata::name
    names,          \* REGISTRY.names
    byOwner,        \* REGISTRY.by_owner
    creator,        \* StoreInner::owner, which never changes
    storeAlive,     \* the processes in the process registry
    storeTask       \* what each process is doing

storeVars == <<stores, storeOwner, storeHeir, storeName, names, byOwner, creator,
               storeAlive, storeTask>>

\* A step of an operation: of store id, from one owner to another, then the rest of a cleanup.
Task(op, id, from, to, rest) ==
    [op |-> op, id |-> id, from |-> from, to |-> to, rest |-> rest]
IdleTask == Task("idle", NoOne, NoOne, NoOne, {})
CleanupTask(rest) == Task("cleanup", NoOne, NoOne, NoOne, rest)

StoreOp == {"idle", "name", "list", "unlist", "cleanup", "transfer", "unregister",
            "unname", "drop", "over"}

StoreTypeOK ==
    /\ stores \subseteq Store
    /\ storeOwner \in [Store -> Owners \cup {NoOne}]
    /\ storeHeir \in [Store -> Owners \cup {NoOne}]
    /\ storeName \in [Store -> StoreName \cup {NoOne}]
    /\ names \in [StoreName -> Store \cup {NoOne}]
    /\ byOwner \in [Owners -> SUBSET Store]
    /\ creator \in [Store -> Owners \cup {NoOne}]
    /\ storeAlive \subseteq Owners
    /\ \A p \in Owners : storeTask[p].op \in StoreOp /\ storeTask[p].rest \subseteq Store

StoreInit ==
    /\ stores = {}
    /\ storeOwner = [s \in Store |-> NoOne]
    /\ storeHeir = [s \in Store |-> NoOne]
    /\ storeName = [s \in Store |-> NoOne]
    /\ names = [n \in StoreName |-> NoOne]
    /\ byOwner = [p \in Owners |-> {}]
    /\ creator = [s \in Store |-> NoOne]
    /\ storeAlive = Owners
    /\ storeTask = [p \in Owners |-> IdleTask]

Become(p, task) == storeTask' = [storeTask EXCEPT ![p] = task]

Idle(p) == p \in storeAlive /\ storeTask[p].op = "idle"

\* After an operation: back to the cleanup it was part of, or to the process's own business.
Resume(p) ==
    IF p \in storeAlive THEN IdleTask ELSE CleanupTask(storeTask[p].rest)

NewStore(p, s, name, heir) ==
    /\ Idle(p)
    /\ creator[s] = NoOne
    /\ creator' = [creator EXCEPT ![s] = p]
    /\ stores' = stores \cup {s}
    /\ storeOwner' = [storeOwner EXCEPT ![s] = p]
    /\ storeHeir' = [storeHeir EXCEPT ![s] = heir]
    /\ storeName' = [storeName EXCEPT ![s] = name]
    /\ Become(p, Task("name", s, p, p, {}))
    /\ UNCHANGED <<names, byOwner, storeAlive>>

RegisterName(p) ==
    LET task == storeTask[p]
        name == storeName[task.id] IN
    /\ task.op = "name"
    /\ names' = [n \in StoreName |-> IF n = name THEN task.id ELSE names[n]]
    /\ Become(p, [task EXCEPT !.op = "list"])
    /\ UNCHANGED <<stores, storeOwner, storeHeir, storeName, byOwner, creator, storeAlive>>

AddToOwner(p) ==
    LET task == storeTask[p] IN
    /\ task.op = "list"
    /\ byOwner' = [byOwner EXCEPT ![task.to] = @ \cup {task.id}]
    /\ Become(p, Resume(p))
    /\ UNCHANGED <<stores, storeOwner, storeHeir, storeName, names, creator, storeAlive>>

\* The first step of transfer_ownership: the metadata, if there is any.
SetOwner(s, new) ==
    storeOwner' = IF s \in stores THEN [storeOwner EXCEPT ![s] = new] ELSE storeOwner

\* The code lets the process that made the store give it away, as often as it likes.
GiveAway(p, s, new) ==
    /\ Idle(p)
    /\ creator[s] = p
    /\ OwnersGive => storeOwner[s] = p
    /\ SetOwner(s, new)
    /\ Become(p, Task("unlist", s, p, new, {}))
    /\ UNCHANGED <<stores, storeHeir, storeName, names, byOwner, creator, storeAlive>>

RemoveFromOwner(p) ==
    LET task == storeTask[p] IN
    /\ task.op = "unlist"
    /\ byOwner' = [byOwner EXCEPT ![task.from] = @ \ {task.id}]
    /\ Become(p, [task EXCEPT !.op = "list"])
    /\ UNCHANGED <<stores, storeOwner, storeHeir, storeName, names, creator, storeAlive>>

SetHeir(s, heir) ==
    /\ s \in stores
    /\ storeHeir' = [storeHeir EXCEPT ![s] = heir]
    /\ UNCHANGED <<stores, storeOwner, storeName, names, byOwner, creator, storeAlive, storeTask>>

\* Called at the end of handle_process_exit: the process is no longer alive.
CleanupBegins(p) ==
    /\ Idle(p)
    /\ storeAlive' = storeAlive \ {p}
    /\ Become(p, CleanupTask(byOwner[p]))
    /\ UNCHANGED <<stores, storeOwner, storeHeir, storeName, names, byOwner, creator>>

HasLiveHeir(s) == s \in stores /\ storeHeir[s] \in storeAlive

CleanupNext(p) ==
    LET task == storeTask[p] IN
    /\ task.op = "cleanup"
    /\ \E s \in task.rest :
          Become(p, IF HasLiveHeir(s)
                    THEN Task("transfer", s, p, storeHeir[s], task.rest \ {s})
                    ELSE Task("unregister", s, p, p, task.rest \ {s}))
    /\ UNCHANGED <<stores, storeOwner, storeHeir, storeName, names, byOwner, creator, storeAlive>>

TransferToHeir(p) ==
    LET task == storeTask[p] IN
    /\ task.op = "transfer"
    /\ SetOwner(task.id, task.to)
    /\ Become(p, [task EXCEPT !.op = "unlist"])
    /\ UNCHANGED <<stores, storeHeir, storeName, names, byOwner, creator, storeAlive>>

Unregister(p) ==
    LET task == storeTask[p] IN
    /\ task.op = "unregister"
    /\ stores' = stores \ {task.id}
    /\ Become(p, IF task.id \in stores THEN [task EXCEPT !.op = "unname"] ELSE Resume(p))
    /\ UNCHANGED <<storeOwner, storeHeir, storeName, names, byOwner, creator, storeAlive>>

\* Whoever has the name now.  Variant: the name stays.
NamesKept(name) == names
NamesFreed(name) == [n \in StoreName |-> IF n = name THEN NoOne ELSE names[n]]

UnregisterName(p) ==
    LET task == storeTask[p] IN
    /\ task.op = "unname"
    /\ names' = NamesFreed(storeName[task.id])
    /\ Become(p, [task EXCEPT !.op = "drop"])
    /\ UNCHANGED <<stores, storeOwner, storeHeir, storeName, byOwner, creator, storeAlive>>

\* The owner the metadata had when it was removed.
DropFromOwner(p) ==
    LET task == storeTask[p] IN
    /\ task.op = "drop"
    /\ byOwner' = [byOwner EXCEPT ![storeOwner[task.id]] = @ \ {task.id}]
    /\ Become(p, Resume(p))
    /\ UNCHANGED <<stores, storeOwner, storeHeir, storeName, names, creator, storeAlive>>

CleanupEnds(p) ==
    /\ storeTask[p] = CleanupTask({})
    /\ byOwner' = [byOwner EXCEPT ![p] = {}]
    /\ Become(p, [IdleTask EXCEPT !.op = "over"])
    /\ UNCHANGED <<stores, storeOwner, storeHeir, storeName, names, creator, storeAlive>>

StoreNext ==
    \/ \E p \in Owners :
          \/ \E s \in Store, n \in StoreName \cup {NoOne}, h \in Owners \cup {NoOne} :
                NewStore(p, s, n, h)
          \/ \E s \in Store, q \in Owners : GiveAway(p, s, q)
          \/ RegisterName(p) \/ AddToOwner(p) \/ RemoveFromOwner(p)
          \/ CleanupBegins(p) \/ CleanupNext(p) \/ TransferToHeir(p) \/ CleanupEnds(p)
          \/ Unregister(p) \/ UnregisterName(p) \/ DropFromOwner(p)
    \/ \E s \in Store, h \in Owners \cup {NoOne} : SetHeir(s, h)
-----------------------------------------------------------------------------
(***************************************************************************)
(* The three maps agree up to the operations in progress: a live owner     *)
(* lists its store, so the end of the owner finds it; whereis leads to a   *)
(* store that exists.                                                      *)
(***************************************************************************)
InProgress(s) == \E p \in Owners : storeTask[p].id = s

OwnersAgree ==
    /\ \A s \in stores :
          storeOwner[s] \in storeAlive /\ ~InProgress(s) => s \in byOwner[storeOwner[s]]
    /\ \A n \in StoreName :
          names[n] = NoOne \/ names[n] \in stores \/ InProgress(names[n])

(***************************************************************************)
(* A store goes with its owner, not before: store/mod.rs:10 says "Each     *)
(* store has an owner process; cleanup is automatic on owner exit".        *)
(***************************************************************************)
OwnerKeepsStore ==
    \A s \in Store : creator[s] # NoOne /\ storeOwner[s] \in storeAlive => s \in stores
=============================================================================
