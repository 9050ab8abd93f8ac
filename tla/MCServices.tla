----------------------------- MODULE MCServices -----------------------------
(***************************************************************************)
(* The services of one node that share no state, and the sessions of its   *)
(* channels, side by side: a behaviour is one of the component named by    *)
(* part, the others stay as they start.  Applications uses community       *)
(* modules whose names others use too, and is an instance.                 *)
(***************************************************************************)
EXTENDS Atom, Timers, StoreOwners, StoreData, Registry, GenFsm, DynamicSupervisor, Channels,
        Peers, TLC

CONSTANTS Parts

CONSTANTS App, a1, a2, a3, MaxStarts
\* A chain, two ways to one dependency, and a cycle.
DepGraphs ==
    {a1 :> <<a2>> @@ a2 :> <<a3>> @@ a3 :> <<>>,
     a1 :> <<a2, a3>> @@ a2 :> <<a3>> @@ a3 :> <<>>,
     a1 :> <<a2>> @@ a2 :> <<a3>> @@ a3 :> <<a2>>}
VARIABLES deps, registered, running, startTask, instances, starts, everStopped
appVars == <<deps, registered, running, startTask, instances, starts, everStopped>>
Applications == INSTANCE Applications

VARIABLE part

serviceVars == <<part, vars, timerVars, storeVars, dataVars, registryVars, appVars, peerVars,
                 fsmVars, dynVars, channelVars>>

\* The choices of the start are made for the component that runs only.
OneOf(S) == CHOOSE x \in S : TRUE
ChoicesMade ==
    /\ part # "data" =>
          storeKind = OneOf(StoreKinds) /\ access = OneOf(Accesses) /\ dataOwner = OneOf(Proc)
    /\ part # "registry" => registryType = OneOf(RegistryTypes)
    /\ part # "applications" => deps = OneOf(DepGraphs)

ServicesInit ==
    /\ part \in Parts
    /\ Init
    /\ TimerInit
    /\ StoreInit
    /\ DataInit
    /\ RegistryInit
    /\ Applications!ApplicationInit
    /\ PeerInit
    /\ FsmInit
    /\ DynInit
    /\ ChannelInit
    /\ ChoicesMade

ServicesNext ==
    /\ UNCHANGED part
    /\ \/ /\ part = "atoms"
          /\ UNCHANGED <<timerVars, storeVars, dataVars, registryVars, appVars, peerVars,
                         fsmVars, dynVars, channelVars>>
          /\ Next
       \/ /\ part = "timers"
          /\ UNCHANGED <<vars, storeVars, dataVars, registryVars, appVars, peerVars,
                         fsmVars, dynVars, channelVars>>
          /\ TimerNext
       \/ /\ part = "owners"
          /\ UNCHANGED <<vars, timerVars, dataVars, registryVars, appVars, peerVars,
                         fsmVars, dynVars, channelVars>>
          /\ StoreNext
       \/ /\ part = "data"
          /\ UNCHANGED <<vars, timerVars, storeVars, registryVars, appVars, peerVars,
                         fsmVars, dynVars, channelVars>>
          /\ DataNext
       \/ /\ part = "registry"
          /\ UNCHANGED <<vars, timerVars, storeVars, dataVars, appVars, peerVars,
                         fsmVars, dynVars, channelVars>>
          /\ RegistryNext
       \/ /\ part = "applications"
          /\ UNCHANGED <<vars, timerVars, storeVars, dataVars, registryVars, peerVars,
                         fsmVars, dynVars, channelVars>>
          /\ Applications!ApplicationNext
       \/ /\ part = "peers"
          /\ UNCHANGED <<vars, timerVars, storeVars, dataVars, registryVars, appVars,
                         fsmVars, dynVars, channelVars>>
          /\ PeerNext
       \/ /\ part = "fsm"
          /\ UNCHANGED <<vars, timerVars, storeVars, dataVars, registryVars, appVars,
                         peerVars, dynVars, channelVars>>
          /\ FsmNext
       \/ /\ part = "dynsup"
          /\ UNCHANGED <<vars, timerVars, storeVars, dataVars, registryVars, appVars,
                         peerVars, fsmVars, channelVars>>
          /\ DynNext
       \/ /\ part = "channels"
          /\ UNCHANGED <<vars, timerVars, storeVars, dataVars, registryVars, appVars,
                         peerVars, fsmVars, dynVars>>
          /\ ChannelNext

ServicesSpec == ServicesInit /\ [][ServicesNext]_serviceVars
-----------------------------------------------------------------------------
ServicesTypeOK ==
    /\ part = "atoms" => TypeOK
    /\ part = "timers" => TimerTypeOK
    /\ part = "owners" => StoreTypeOK
    /\ part = "data" => DataTypeOK
    /\ part = "registry" => RegistryTypeOK
    /\ part = "applications" => Applications!ApplicationTypeOK
    /\ part = "peers" => PeerTypeOK /\ DownIsOver
    /\ part = "fsm" => FsmTypeOK /\ AnswerIsOwn
    /\ part = "dynsup" => DynTypeOK
    /\ part = "channels" => ChannelTypeOK

\* Each is asked of its component; those of the modules extended hold where they rest.
StartsInOrder == part = "applications" => Applications!StartsInOrder
OneInstance == part = "applications" => Applications!OneInstance
=============================================================================
