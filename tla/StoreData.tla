------------------------------ MODULE StoreData ------------------------------
(***************************************************************************)
(* The data of one store, used by several processes: the operations of     *)
(* store/mod.rs.  A Store ("hash") is a concurrent map: each access of a   *)
(* key is atomic, an operation of several accesses is not.  An             *)
(* OrderedStore ("ordered") is a sorted map under a lock.  Values are      *)
(* numbers, and the function given to update adds one.                     *)
(***************************************************************************)
EXTENDS Integers, FiniteSets, Processes

CONSTANTS
    StoreKinds,     \* the kinds of store to consider
    Accesses,       \* the access settings to consider
    Keys,           \* a set of numbers: OrderedStore sorts them
    MaxValue        \* bound: the values

NoValue == -1
Value == 0 .. MaxValue

VARIABLES
    storeKind,
    access,         \* StoreInner::access
    dataOwner,      \* StoreInner::owner
    data,           \* StoreInner::data
    dataLock,       \* who holds the lock of an OrderedStore for writing
    dataTask,       \* the operation each process is in the middle of
    defaulted,      \* what get_or_insert returned and nobody changed since (history)
    counted         \* the updates that returned since the key was last written (history)

dataVars == <<storeKind, access, dataOwner, data, dataLock, dataTask, defaulted, counted>>

NoTask == [op |-> "idle", keys |-> {}, val |-> NoValue]

DataTypeOK ==
    /\ data \in [Keys -> Value \cup {NoValue}]
    /\ dataLock \in Proc \cup {NoOne}
    /\ \A p \in Proc :
          /\ dataTask[p].op \in {"idle", "update", "insertMany", "clear"}
          /\ dataTask[p].keys \subseteq Keys
    /\ \A p \in Proc : dataLock = p => dataTask[p].op # "idle"

DataInit ==
    /\ storeKind \in StoreKinds
    /\ access \in Accesses
    /\ dataOwner \in Proc
    /\ data = [k \in Keys |-> NoValue]
    /\ dataLock = NoOne
    /\ dataTask = [p \in Proc |-> NoTask]
    /\ defaulted = [k \in Keys |-> NoValue]
    /\ counted = [k \in Keys |-> NoValue]

\* The owner of the handle, whatever the registry says; deleted is never set.
CheckAccess(p) == access = "Public" \/ p = dataOwner

\* Variant: a store that takes its lock only to write.
LockForWrite == TRUE
DataLockIsFree == dataLock = NoOne

Enter(p) ==
    /\ dataTask[p] = NoTask
    /\ CheckAccess(p)
    /\ storeKind = "ordered" => DataLockIsFree

\* The keys get new values.
Put(new) ==
    /\ data' = new
    /\ defaulted' = [k \in Keys |-> IF new[k] = data[k] THEN defaulted[k] ELSE NoValue]
    /\ counted' = [k \in Keys |-> IF new[k] = data[k] THEN counted[k] ELSE new[k]]

Fixed == UNCHANGED <<storeKind, access, dataOwner>>
Locked == UNCHANGED <<dataLock, dataTask>>

InsertValue(p, k, v) ==
    /\ Enter(p)
    /\ Put([data EXCEPT ![k] = v])
    /\ Locked /\ Fixed

Remove(p, k) ==
    /\ Enter(p)
    /\ Put([data EXCEPT ![k] = NoValue])
    /\ Locked /\ Fixed

\* The entry is locked while it is looked up and filled.  Variant: the default is written always.
OrDefault(k, v) == v
OrInsert(k, v) == IF data[k] = NoValue THEN v ELSE data[k]

GetOrInsert(p, k, v) ==
    /\ storeKind = "hash"
    /\ Enter(p)
    /\ data' = [data EXCEPT ![k] = OrInsert(k, v)]
    /\ defaulted' = [defaulted EXCEPT ![k] = IF @ = NoValue THEN OrInsert(k, v) ELSE @]
    /\ counted' = [counted EXCEPT ![k] = OrInsert(k, v)]
    /\ Locked /\ Fixed

\* update reads, calls its function and writes; an OrderedStore holds the lock all the while.
UpdateReads(p, k) ==
    /\ Enter(p)
    /\ data[k] < MaxValue
    /\ dataTask' = [dataTask EXCEPT ![p] = [op |-> "update", keys |-> {k}, val |-> data[k]]]
    /\ dataLock' = IF storeKind = "ordered" THEN p ELSE dataLock
    /\ Fixed /\ UNCHANGED <<data, defaulted, counted>>

PlusOne(v) == IF v = NoValue THEN 1 ELSE v + 1

UpdateWrites(p) ==
    LET task == dataTask[p] IN
    /\ task.op = "update"
    /\ \E k \in task.keys :
          /\ counted[k] < MaxValue
          /\ data' = [data EXCEPT ![k] = PlusOne(task.val)]
          /\ counted' = [counted EXCEPT ![k] = PlusOne(@)]
          /\ defaulted' = [defaulted EXCEPT ![k] = NoValue]
    /\ dataTask' = [dataTask EXCEPT ![p] = NoTask]
    /\ dataLock' = IF dataLock = p THEN NoOne ELSE dataLock
    /\ Fixed

\* insert_many, clear and retain: a Store goes key by key, an OrderedStore is locked.
Bulk(p, op, ks, v) ==
    /\ Enter(p)
    /\ ks # {}
    /\ IF storeKind = "hash"
       THEN /\ dataTask' = [dataTask EXCEPT ![p] = [op |-> op, keys |-> ks, val |-> v]]
            /\ UNCHANGED <<data, defaulted, counted>>
       ELSE /\ Put([k \in Keys |-> IF k \in ks THEN v ELSE data[k]])
            /\ UNCHANGED dataTask
    /\ Fixed /\ UNCHANGED dataLock

BulkNext(p) ==
    LET task == dataTask[p] IN
    /\ task.op \in {"insertMany", "clear"}
    /\ \E k \in task.keys :
          /\ Put([data EXCEPT ![k] = task.val])
          /\ dataTask' = [dataTask EXCEPT ![p] =
                             IF task.keys = {k} THEN NoTask ELSE [task EXCEPT !.keys = @ \ {k}]]
    /\ Fixed /\ UNCHANGED dataLock

InsertMany(p, ks, v) == Bulk(p, "insertMany", ks, v)
Clear(p) == Bulk(p, "clear", Keys, NoValue)
Retain(p, ks) == Bulk(p, "clear", Keys \ ks, NoValue)

Present == {k \in Keys : data[k] # NoValue}
First == CHOOSE k \in Present : \A j \in Present : k <= j
Last == CHOOSE k \in Present : \A j \in Present : k >= j

PopFirst(p) == storeKind = "ordered" /\ Present # {} /\ Remove(p, First)
PopLast(p) == storeKind = "ordered" /\ Present # {} /\ Remove(p, Last)

DataNext ==
    \E p \in Proc :
        \/ \E k \in Keys :
              \/ \E v \in {0, 1} : InsertValue(p, k, v) \/ GetOrInsert(p, k, v)
              \/ Remove(p, k) \/ UpdateReads(p, k)
        \/ UpdateWrites(p)
        \/ \E ks \in SUBSET Keys : InsertMany(p, ks, 0) \/ Retain(p, ks)
        \/ Clear(p) \/ BulkNext(p) \/ PopFirst(p) \/ PopLast(p)
-----------------------------------------------------------------------------
(***************************************************************************)
(* What two processes agree on through a store stays agreed: all calls of  *)
(* get_or_insert return one value until somebody writes the key, and no    *)
(* update of an OrderedStore is lost.                                      *)
(***************************************************************************)
StoreAgrees ==
    /\ \A k \in Keys : defaulted[k] # NoValue => data[k] = defaulted[k]
    /\ storeKind = "ordered" => counted = data

(***************************************************************************)
(* No update is lost: store/mod.rs:383 says of Store::update "Atomically   *)
(* updates a value in the store".                                          *)
(***************************************************************************)
UpdatesAreKept == counted = data
=============================================================================
