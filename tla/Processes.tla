------------------------------ MODULE Processes ------------------------------
(***************************************************************************)
(* What the services of a node take from it: the processes that call them. *)
(***************************************************************************)
CONSTANTS
    Proc,       \* the processes
    NoOne       \* no process, and no name or key where one may be missing

ASSUME NoOneAssumption == NoOne \notin Proc
=============================================================================
