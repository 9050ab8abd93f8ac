------------------------------ MODULE Registry ------------------------------
(***************************************************************************)
(* A registry of processes under keys: registry.rs.  Each access of one of *)
(* its two concurrent maps is atomic, an operation is several accesses.    *)
(* A process registers and unregisters itself, one call at a time.  Values *)
(* are left out, and so is how often a process is under a key: whatever    *)
(* removes an entry of a process removes all it has there.                 *)
(***************************************************************************)
EXTENDS Processes

CONSTANTS
    Key,
    RegistryTypes   \* the types to consider

ASSUME KeysAssumption == NoOne \notin Key

VARIABLES
    registryType,
    entries,        \* the processes under each key, {NoOne} where the key is missing
    pidToKeys,      \* pid_to_keys
    regTask,        \* the operation each process is in the middle of
    holds           \* the keys each process was told Ok for and has not given up (history)

registryVars == <<registryType, entries, pidToKeys, regTask, holds>>

Missing == {NoOne}
\* An operation on one key; unregister_all has the keys it has not come to.
RegTask(op, key, keys) == [op |-> op, key |-> key, keys |-> keys]
RegIdle == RegTask("idle", NoOne, {})

RegistryTypeOK ==
    /\ registryType \in RegistryTypes
    /\ \A k \in Key :
          /\ entries[k] = Missing \/ entries[k] \subseteq Proc
          /\ registryType = "Unique" => \A p, q \in entries[k] : p = q
    /\ \A p \in Proc :
          /\ pidToKeys[p] \subseteq Key /\ holds[p] \subseteq Key
          /\ regTask[p].op \in {"idle", "insert", "index", "remove", "unindex", "all", "removeAll"}
          /\ regTask[p].key \in Key \cup {NoOne} /\ regTask[p].keys \subseteq Key

RegistryInit ==
    /\ registryType \in RegistryTypes
    /\ entries = [k \in Key |-> Missing]
    /\ pidToKeys = [p \in Proc |-> {}]
    /\ regTask = [p \in Proc |-> RegIdle]
    /\ holds = [p \in Proc |-> {}]

RegBecome(p, task) == regTask' = [regTask EXCEPT ![p] = task]

HasKey(k) == entries[k] # Missing
Lookup(k) == IF HasKey(k) THEN entries[k] ELSE {}

\* A key whose last entry is being removed is still there: contains_key finds it.
Register(p, k) ==
    /\ regTask[p] = RegIdle
    /\ registryType = "Unique" => ~HasKey(k)
    /\ RegBecome(p, RegTask("insert", k, {}))
    /\ UNCHANGED <<registryType, entries, pidToKeys, holds>>

RegisterInsert(p) ==
    /\ regTask[p].op = "insert"
    /\ entries' = [entries EXCEPT ![regTask[p].key] =
                      IF registryType = "Unique" THEN {p} ELSE Lookup(regTask[p].key) \cup {p}]
    /\ RegBecome(p, [regTask[p] EXCEPT !.op = "index"])
    /\ UNCHANGED <<registryType, pidToKeys, holds>>

\* Variant: the index keeps what an earlier registration added.
IndexOnce(p, k) == IF pidToKeys[p] = {} THEN {k} ELSE pidToKeys[p]
IndexWith(p, k) == pidToKeys[p] \cup {k}

RegisterIndex(p) ==
    /\ regTask[p].op = "index"
    /\ pidToKeys' = [pidToKeys EXCEPT ![p] = IndexWith(p, regTask[p].key)]
    /\ holds' = [holds EXCEPT ![p] = @ \cup {regTask[p].key}]
    /\ RegBecome(p, RegIdle)
    /\ UNCHANGED <<registryType, entries>>

\* retain under the guard of the entry; the guard is dropped before the key is removed.
RetainOthers(p, k, removing, after) ==
    /\ entries' = IF HasKey(k) THEN [entries EXCEPT ![k] = @ \ {p}] ELSE entries
    /\ RegBecome(p, IF HasKey(k) /\ entries[k] \subseteq {p} THEN removing ELSE after)

UnregisterKey(p, k) ==
    /\ regTask[p] = RegIdle
    /\ RetainOthers(p, k, RegTask("remove", k, {}), RegTask("unindex", k, {}))
    /\ holds' = [holds EXCEPT ![p] = @ \ {k}]
    /\ UNCHANGED <<registryType, pidToKeys>>

RemoveKey(p) ==
    /\ regTask[p].op = "remove"
    /\ entries' = [entries EXCEPT ![regTask[p].key] = Missing]
    /\ RegBecome(p, [regTask[p] EXCEPT !.op = "unindex"])
    /\ UNCHANGED <<registryType, pidToKeys, holds>>

Unindex(p) ==
    /\ regTask[p].op = "unindex"
    /\ pidToKeys' = [pidToKeys EXCEPT ![p] = @ \ {regTask[p].key}]
    /\ RegBecome(p, RegIdle)
    /\ UNCHANGED <<registryType, entries, holds>>

UnregisterAll(p) ==
    /\ regTask[p] = RegIdle
    /\ pidToKeys[p] # {}
    /\ pidToKeys' = [pidToKeys EXCEPT ![p] = {}]
    /\ holds' = [holds EXCEPT ![p] = {}]
    /\ RegBecome(p, RegTask("all", NoOne, pidToKeys[p]))
    /\ UNCHANGED <<registryType, entries>>

UnregisterNext(p) ==
    LET keys == regTask[p].keys IN
    /\ regTask[p].op = "all"
    /\ \/ /\ keys = {}
          /\ RegBecome(p, RegIdle)
          /\ UNCHANGED entries
       \/ \E k \in keys :
             RetainOthers(p, k, RegTask("removeAll", k, keys \ {k}),
                                RegTask("all", NoOne, keys \ {k}))
    /\ UNCHANGED <<registryType, pidToKeys, holds>>

\* The key whose entries the same call has emptied, with whatever was added since.
RemoveKeyOfAll(p) ==
    /\ regTask[p].op = "removeAll"
    /\ entries' = [entries EXCEPT ![regTask[p].key] = Missing]
    /\ RegBecome(p, RegTask("all", NoOne, regTask[p].keys))
    /\ UNCHANGED <<registryType, pidToKeys, holds>>

\* The name resolver of GenServer: every entry of the key goes, the index stays.
UnregisterTerm(k) ==
    /\ HasKey(k)
    /\ entries' = [entries EXCEPT ![k] = Missing]
    /\ UNCHANGED <<registryType, pidToKeys, regTask, holds>>

RegistryNext ==
    \/ \E p \in Proc, k \in Key : Register(p, k) \/ UnregisterKey(p, k)
    \/ \E p \in Proc :
          \/ RegisterInsert(p) \/ RegisterIndex(p) \/ RemoveKey(p) \/ Unindex(p)
          \/ UnregisterAll(p) \/ UnregisterNext(p) \/ RemoveKeyOfAll(p)
    \/ \E k \in Key : UnregisterTerm(k)
-----------------------------------------------------------------------------
(***************************************************************************)
(* unregister_all takes the keys of a process from the index, so an entry  *)
(* the index has lost would stay for ever: a process between two calls has *)
(* every entry of its own in the index.                                    *)
(***************************************************************************)
EntryIsIndexed ==
    \A p \in Proc, k \in Key :
        regTask[p] = RegIdle /\ p \in Lookup(k)
            => k \in pidToKeys[p]

(***************************************************************************)
(* Who was told Ok is registered: registry.rs:139 says of register that it *)
(* fails when "the key is already registered".                             *)
(***************************************************************************)
OkIsRegistered ==
    \A p \in Proc : \A k \in holds[p] : p \in Lookup(k)
=============================================================================
