------------------------------ MODULE MCCluster ------------------------------
(***************************************************************************)
(* What the nodes share over their connections, and the rooms and users of *)
(* the chat server, side by side: a behaviour is one of the component named*)
(* by part, the others stay as they start.                                 *)
(* Process groups and global names stand on the same connection.           *)
(***************************************************************************)
EXTENDS ProcessGroups, GlobalNames, NodeMonitors, PubSub, Presence, ChatRooms, ChatPresence

CONSTANTS Parts
ClusterHome == [p \in Pid |-> IF p = "p1" THEN "n1" ELSE "n2"]

VARIABLE part
clusterVars == <<part, linkVars, groupVars, globalVars, monVars, pubsubVars, presenceVars,
                 roomVars, chatVars>>

ClusterInit ==
    /\ part \in Parts
    /\ GroupsInit
    /\ GlobalInit
    /\ MonInit
    /\ PubSubInit
    /\ PresenceInit
    /\ RoomInit
    /\ ChatInit
    /\ part # "chat" => watched = {}

ClusterNext ==
    /\ UNCHANGED part
    /\ \/ /\ part = "groups"
          /\ UNCHANGED <<globalVars, monVars, pubsubVars, presenceVars, roomVars, chatVars>>
          /\ GroupsNext
       \/ /\ part = "names"
          /\ UNCHANGED <<groupVars, monVars, pubsubVars, presenceVars, roomVars, chatVars>>
          /\ GlobalNext
       \/ /\ part = "monitors"
          /\ UNCHANGED <<linkVars, groupVars, globalVars, pubsubVars, presenceVars,
                         roomVars, chatVars>>
          /\ MonNext
       \/ /\ part = "pubsub"
          /\ UNCHANGED <<linkVars, groupVars, globalVars, monVars, presenceVars,
                         roomVars, chatVars>>
          /\ PubSubNext
       \/ /\ part = "presence"
          /\ UNCHANGED <<linkVars, groupVars, globalVars, monVars, pubsubVars, roomVars, chatVars>>
          /\ PresenceNext
       \/ /\ part = "rooms"
          /\ UNCHANGED <<linkVars, groupVars, globalVars, monVars, pubsubVars, presenceVars,
                         chatVars>>
          /\ RoomNext
       \/ /\ part = "chat"
          /\ UNCHANGED <<linkVars, groupVars, globalVars, monVars, pubsubVars, presenceVars,
                         roomVars>>
          /\ ChatNext

ClusterSpec == ClusterInit /\ [][ClusterNext]_clusterVars

\* A message dropped or handled late is never made up for, and MembersAgree and NameIsKnown
\* speak of connections without: such a state is checked, but not followed.
NoFault == faults = {}
-----------------------------------------------------------------------------
ClusterTypeOK ==
    /\ part = "groups" => GroupsTypeOK
    /\ part = "names" => GlobalTypeOK
    /\ part = "monitors" => MonTypeOK
    /\ part = "pubsub" => PubSubTypeOK
    /\ part = "presence" => PresenceTypeOK
    /\ part = "rooms" => RoomTypeOK
    /\ part = "chat" => ChatTypeOK
=============================================================================
