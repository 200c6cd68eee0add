------------------------------- MODULE MCRunner -------------------------------
(* cpu_runner on a small instance, with the blocks its engine is built with: enough. *)
EXTENDS CpuRunner

ASSUME RoomAssumption == PoolIsRoomy
===============================================================================
