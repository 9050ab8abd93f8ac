---------------------------- MODULE MCGenServer -----------------------------
(* Instances of GenServer.                                                 *)
EXTENDS GenServer, TLC

ProcSymmetry == Permutations(Proc)
=============================================================================
