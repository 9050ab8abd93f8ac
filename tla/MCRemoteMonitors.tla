-------------------------- MODULE MCRemoteMonitors --------------------------
(***************************************************************************)
(* Instances of RemoteMonitors for TLC: one process on each of two nodes.  *)
(***************************************************************************)
EXTENDS RemoteMonitors

CONSTANTS n1, n2, p1, p2

HomeOfTwo == [p \in Proc |-> IF p = p1 THEN n1 ELSE n2]
=============================================================================
