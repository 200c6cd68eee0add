----------------------------- MODULE MCScheduler -----------------------------
(* The scheduler under its most general caller, on a small instance. *)
EXTENDS SchedulerProps

ThreadSymmetry == Permutations(Threads)
=============================================================================
