----------------------------- MODULE RequestLife -----------------------------
(***************************************************************************)
(* The life of a request as RequestState and the comments of request.h     *)
(* describe it, without queues, blocks or threads.  A request arrives,     *)
(* waits, is active or preempted, gets its tokens one by one while it is   *)
(* active and never more than its limit, and is done once an EOS or its    *)
(* last token came.  Done is final; only a cancel ends it otherwise.       *)
(***************************************************************************)
EXTENDS Naturals

CONSTANTS Requests, Limits

VARIABLES
  status,   (* "absent", "queued", "active", "done" or "gone" *)
  limit,    (* max_new_tokens                                 *)
  count     (* tokens generated                               *)

lifeVars == <<status, limit, count>>

LifeInit ==
  /\ status = [r \in Requests |-> "absent"]
  /\ limit  = [r \in Requests |-> 0]
  /\ count  = [r \in Requests |-> 0]

Becomes(r, s) == status' = [status EXCEPT ![r] = s]

Arrive(r) ==
  /\ status[r] = "absent" /\ Becomes(r, "queued")
  /\ \E m \in Limits : limit' = [limit EXCEPT ![r] = m]
  /\ UNCHANGED count

Start(r) == status[r] = "queued" /\ Becomes(r, "active") /\ UNCHANGED <<limit, count>>

Preempt(r) == status[r] = "active" /\ Becomes(r, "queued") /\ UNCHANGED <<limit, count>>

Generate(r) ==
  /\ status[r] = "active" /\ count[r] < limit[r]
  /\ count' = [count EXCEPT ![r] = @ + 1]
  /\ UNCHANGED status \/ Becomes(r, "done")
  /\ UNCHANGED limit

ReachLimit(r) ==
  /\ status[r] = "active" /\ count[r] = limit[r]
  /\ Becomes(r, "done")
  /\ UNCHANGED <<limit, count>>

Cancel(r) ==
  /\ status[r] \in {"queued", "active", "done"} /\ Becomes(r, "gone")
  /\ UNCHANGED <<limit, count>>

LifeNext ==
  \E r \in Requests :
    Arrive(r) \/ Start(r) \/ Preempt(r) \/ Generate(r) \/ ReachLimit(r) \/ Cancel(r)

LifeSpec == LifeInit /\ [][LifeNext]_lifeVars

=============================================================================
