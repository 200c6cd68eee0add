----------------------------- MODULE EngineProps -----------------------------
(***************************************************************************)
(* What PagedEngine promises its callers, over the engine's state and the  *)
(* scheduler's under it.                                                   *)
(***************************************************************************)
EXTENDS PagedEngine

PagedLabels == {"out", "schedule", "loop", "prefillAlloc", "prefill", "prefillEnd",
                "decode", "attend", "report", "collect", "remove"}

\* Type invariant of the engine's own variables and of the KV data.
EngineTypeOK ==
  /\ kv \in [Blocks -> [Slots -> {Blank} \cup (Rids \X Nat)]]
  /\ pc \in [Threads -> PagedLabels]
  /\ job \in [Threads -> Seq(BatchEntry)]
  /\ fins \in [Threads -> Seq(Rids)]
  /\ copy \in [Threads -> [rid : Rids, seq : Nat, table : Seq(Blocks)]]
  /\ pos \in [Threads -> Nat]
  /\ sampled \in [Threads -> Seq(Report)]
  /\ outIds \in [Threads -> Seq([rid : Rids, fin : BOOLEAN])]
  /\ outToks \in [Threads -> Seq(Tokens)]

-----------------------------------------------------------------------------
(***************************************************************************)
(* KV isolation.  A slot of a block in a request's table holds that        *)
(* request's own entry for the position of the slot, or nothing: never     *)
(* what another request, or an earlier life of the block, left there.      *)
(* (While the lock is held a table may be half freed.)                     *)
(***************************************************************************)
KvIsolation ==
  lock = NoThread =>
   \A r \in Rids : \A i \in 1 .. Len(table[r]) : \A s \in Slots :
    kv[table[r][i]][s] \in {Blank, <<r, (i - 1) * BlockSize + s>>}

(***************************************************************************)
(* KV coverage.  When paged_attention runs for a request it finds the      *)
(* entry of every one of its positions: what prefill and the earlier       *)
(* decode steps wrote is all there.                                        *)
(***************************************************************************)
KvCoverage ==
  \A t \in Threads : At(t, "attend") =>
    \A p \in 0 .. copy[t].seq - 1 : ReadAt(copy[t].table, p) = <<copy[t].rid, p>>

\* A preempted request "can be restored" (request.h:13): when it decodes again, the
\* positions its table reaches hold what they held before it was preempted.
PreemptionRestores ==
  \A t \in Threads : At(t, "attend") /\ preempted[copy[t].rid] =>
    \A p \in 0 .. copy[t].seq - 1 :
      Reaches(copy[t].table, p) => ReadAt(copy[t].table, p) = <<copy[t].rid, p>>

\* A request that finished holds no block, unless it finished by EOS since the last
\* schedule() and is still in running_, where the next one reaps it.
FinishedIsReaped ==
  lock = NoThread =>
    \A r \in known : state[r] = "FINISHED" /\ ~Contains(running, r) =>
      table[r] = <<>> /\ ckpt[r] = <<>>

\* Between two calls every block that is not free is in some request's table: nothing
\* leaks ("Free blocks for finished/preempted requests", scheduler.h:78).
NoLeak ==
  (\A t \in Threads : At(t, "out")) =>
    \A b \in Blocks : ~isFree[b] => \E r \in known : Contains(table[r], b)

\* Every call of step() or remove_request() returns, whatever the pool, the limits and
\* the requests left in the queues: no loop of the scheduler runs for ever, and preempting
\* and re-admitting the same requests ends.
StepReturns == \A t \in Threads : ~At(t, "out") ~> At(t, "out")

-----------------------------------------------------------------------------
(***************************************************************************)
(* The engine, whatever it does with queues and memory, gives each request *)
(* the life request.h describes: RequestLife under this mapping.           *)
(***************************************************************************)
LifeStatus ==
  [r \in Rids |->
    IF r \notin known THEN (IF r < nextId THEN "gone" ELSE "absent")
    ELSE IF state[r] \in {"WAITING", "PREEMPTED"} THEN "queued"
    ELSE IF state[r] = "RUNNING" THEN "active"
    ELSE "done"]

Life == INSTANCE RequestLife WITH
          Requests <- Rids, Limits <- MaxNews,
          status <- LifeStatus, limit <- maxNew, count <- genLen

FollowsRequestLife == Life!LifeSpec

(***************************************************************************)
(* The engine drives the scheduler only in ways its most general caller    *)
(* may: what is checked and proved of SchedSpec holds under the engine.    *)
(* KV data, which SchedSpec does not write, is mapped to blank.            *)
(***************************************************************************)
Sched == INSTANCE Scheduler WITH kv <- [b \in Blocks |-> ZeroedBlock]

UsesSchedulerProperly == Sched!SchedSpec

=============================================================================
