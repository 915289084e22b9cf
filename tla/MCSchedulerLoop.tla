--------------------------- MODULE MCSchedulerLoop ---------------------------
(* A small instance of SchedulerLoop. *)
EXTENDS SchedulerLoop, TLC
=============================================================================
