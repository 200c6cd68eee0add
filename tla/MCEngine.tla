------------------------------- MODULE MCEngine -------------------------------
(* One thread driving the engine, on a small instance; the .cfg files give a pool that *)
(* is tight (requests are preempted, allocations fail) or roomy.                       *)
EXTENDS EngineProps
===============================================================================
