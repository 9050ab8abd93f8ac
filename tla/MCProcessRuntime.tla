-------------------------- MODULE MCProcessRuntime --------------------------
(***************************************************************************)
(* Instances of ProcessRuntime for TLC.                                    *)
(***************************************************************************)
EXTENDS ProcessRuntime, TLC

\* Pids are interchangeable: nothing in the runtime orders them.
PidSymmetry == Permutations(Pid)
=============================================================================
