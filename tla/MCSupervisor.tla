---------------------------- MODULE MCSupervisor ----------------------------
(* Instances of Supervisor: every strategy, every choice of restart types. *)
EXTENDS Supervisor, TLC
=============================================================================
