-------------------------------- MODULE Peers --------------------------------
(***************************************************************************)
(* A peer node: peer/core.rs.  The node is a process of the operating      *)
(* system that boots, listens and may end when it likes; wait_boot, stop   *)
(* and is_alive are called at once by tasks of the parent.  The lock of    *)
(* child makes one look at the process atomic, and it is held by stop.     *)
(***************************************************************************)
EXTENDS Naturals

CONSTANT Caller

VARIABLES
    peerState,      \* Peer::state
    peerChild,      \* whether Peer::child still holds the process
    osProcess,      \* the process itself
    peerTask,       \* the call each task is in
    linkedPeer      \* Peer::kill_on_drop

peerVars == <<peerState, peerChild, osProcess, peerTask, linkedPeer>>

PeerTypeOK ==
    /\ peerState \in {"none", "Booting", "Running", "Down"}
    /\ peerChild \in BOOLEAN
    /\ osProcess \in {"none", "booting", "listening", "exited"}
    /\ peerTask \in [Caller -> {"idle", "wait", "connect", "connected", "stop", "killed"}]
    /\ linkedPeer \in BOOLEAN

PeerInit ==
    /\ peerState = "none" /\ peerChild = FALSE /\ osProcess = "none"
    /\ peerTask = [c \in Caller |-> "idle"]
    /\ linkedPeer = FALSE

PeerGoto(c, step) == peerTask' = [peerTask EXCEPT ![c] = step]

StartPeer(link) ==
    /\ peerState = "none"
    /\ peerState' = "Booting" /\ peerChild' = TRUE /\ osProcess' = "booting"
    /\ linkedPeer' = link
    /\ UNCHANGED peerTask

PeerListens ==
    /\ osProcess = "booting"
    /\ osProcess' = "listening"
    /\ UNCHANGED <<peerState, peerChild, peerTask, linkedPeer>>

PeerExits ==
    /\ osProcess \in {"booting", "listening"}
    /\ osProcess' = "exited"
    /\ UNCHANGED <<peerState, peerChild, peerTask, linkedPeer>>

\* stop holds the lock of child until it returns.
ChildIsFree == \A c \in Caller : peerTask[c] \notin {"stop", "killed"}

WaitBoot(c) ==
    /\ peerState # "none" /\ peerTask[c] = "idle"
    /\ PeerGoto(c, "wait")
    /\ UNCHANGED <<peerState, peerChild, osProcess, linkedPeer>>

HasExited == peerChild /\ osProcess = "exited"

\* A handle that stop has emptied is not looked at: wait_boot goes on to connect.
WaitBootChecks(c) ==
    /\ peerTask[c] = "wait"
    /\ ChildIsFree
    /\ peerState' = IF HasExited THEN "Down" ELSE peerState
    /\ PeerGoto(c, IF HasExited THEN "idle" ELSE "connect")
    /\ UNCHANGED <<peerChild, osProcess, linkedPeer>>

\* A failed attempt is repeated until the timeout, if there is one.
WaitBootConnects(c) ==
    /\ peerTask[c] = "connect"
    /\ \/ osProcess = "listening" /\ PeerGoto(c, "connected")
       \/ osProcess # "listening" /\ \E next \in {"wait", "idle"} : PeerGoto(c, next)
    /\ UNCHANGED <<peerState, peerChild, osProcess, linkedPeer>>

WaitBootReturns(c) ==
    /\ peerTask[c] = "connected"
    /\ peerState' = "Running"
    /\ PeerGoto(c, "idle")
    /\ UNCHANGED <<peerChild, osProcess, linkedPeer>>

\* The process is taken out, killed and waited for.  Variant: kill is not awaited.
NotKilled == osProcess
Killed == "exited"

StopPeer(c) ==
    /\ peerState # "none" /\ peerTask[c] = "idle"
    /\ ChildIsFree
    /\ peerChild' = FALSE
    /\ PeerGoto(c, IF peerChild THEN "stop" ELSE "killed")
    /\ UNCHANGED <<peerState, osProcess, linkedPeer>>

StopKills(c) ==
    /\ peerTask[c] = "stop"
    /\ osProcess' = Killed
    /\ PeerGoto(c, "killed")
    /\ UNCHANGED <<peerState, peerChild, linkedPeer>>

StopReturns(c) ==
    /\ peerTask[c] = "killed"
    /\ peerState' = "Down"
    /\ PeerGoto(c, "idle")
    /\ UNCHANGED <<peerChild, osProcess, linkedPeer>>

IsAlive(c) ==
    /\ peerTask[c] = "idle"
    /\ ChildIsFree
    /\ peerState' = IF HasExited THEN "Down" ELSE peerState
    /\ UNCHANGED <<peerChild, osProcess, peerTask, linkedPeer>>

\* The last handle goes: a linked peer that is still held is killed.
DropPeer ==
    /\ peerChild
    /\ \A c \in Caller : peerTask[c] = "idle"
    /\ peerChild' = FALSE
    /\ osProcess' = IF linkedPeer THEN "exited" ELSE osProcess
    /\ peerState' = "none"
    /\ UNCHANGED <<peerTask, linkedPeer>>

PeerNext ==
    \/ \E link \in BOOLEAN : StartPeer(link)
    \/ PeerListens \/ PeerExits \/ DropPeer
    \/ \E c \in Caller :
          \/ WaitBoot(c) \/ WaitBootChecks(c) \/ WaitBootConnects(c) \/ WaitBootReturns(c)
          \/ StopPeer(c) \/ StopKills(c) \/ StopReturns(c) \/ IsAlive(c)
-----------------------------------------------------------------------------
(***************************************************************************)
(* A peer that is reported as down has ended: no call, whatever others are *)
(* under way, leaves a process behind that nobody can reach any more.      *)
(***************************************************************************)
DownIsOver == peerState = "Down" => osProcess = "exited"
=============================================================================
