------------------------- MODULE MCNodeConnections --------------------------
(***************************************************************************)
(* Instances of NodeConnections for TLC.  Nothing tells two nodes apart.   *)
(***************************************************************************)
EXTENDS NodeConnections, TLC

NodeSymmetry == Permutations(Node)
=============================================================================
