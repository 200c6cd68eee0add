--------------------------- MODULE SchedulerProps ---------------------------
(***************************************************************************)
(* What the scheduler promises, as properties of its state.  They are      *)
(* checked for the most general caller (MCScheduler) and again under the   *)
(* engine and its clients.                                                 *)
(***************************************************************************)
EXTENDS Scheduler

\* Type invariant of the scheduler's and the pool's variables.
SchedTypeOK ==
  /\ isFree \in [Blocks -> BOOLEAN]
  /\ refCount \in [Blocks -> Nat]
  /\ nextId \in 0 .. MaxRequests
  /\ known \subseteq Rids
  /\ promptLen \in [Rids -> Nat]
  /\ maxNew \in [Rids -> Nat]
  /\ genLen \in [Rids -> Nat]
  /\ state \in [Rids -> RequestStates]
  /\ table \in [Rids -> Seq(Blocks)]
  /\ ckpt \in [Rids -> Seq(Blocks)]
  /\ preempted \in [Rids -> BOOLEAN]
  /\ waiting \in Seq(Rids) /\ running \in Seq(Rids)
  /\ lock \in Threads \cup {NoThread}
  /\ phase \in {"idle", "admit", "evict", "evictFree", "retry", "batch", "retire",
                "retireFree", "report", "removeFree"}
  /\ scan \in Seq(Rids) /\ kept \in Seq(Rids)
  /\ admitted \subseteq Rids
  /\ needed \in Nat /\ freed \in Nat /\ tokens \in Nat
  /\ batch \in Seq(BatchEntry) /\ retired \in Seq(Rids)
  /\ reports \in Seq(Report)
  /\ want \in [Threads -> Nat]
  /\ got \in [Threads -> Seq(Blocks)]

\* A loop that is in the middle of a request is at that request: nothing another thread
\* does can take it away while blocks are allocated or freed for it, and only the
\* loops that allocate hold the mutex while they do.
LoopAtRequest ==
  /\ \A t \in Threads : Admitting(t) /\ want[t] > 0 => scan # <<>>
  /\ phase \in {"evictFree", "retireFree", "removeFree"} => scan # <<>>
  /\ \A t \in Threads : Holds(t, "report") /\ want[t] > 0 => reports # <<>>
  /\ \A t \in Threads : lock = t /\ want[t] > 0 => phase \in {"admit", "retry", "report"}

-----------------------------------------------------------------------------
(***************************************************************************)
(* Block ownership.  A block is in at most one place: one position of one  *)
(* request's block_table, or one position of the vector one thread is      *)
(* allocating into.  Whoever holds it holds its only reference, and the    *)
(* pool does not count it as free: two requests never share KV memory and  *)
(* no block is freed twice, however the two mutexes interleave.            *)
(***************************************************************************)
Occurs(s, b)  == \E i \in 1 .. Len(s) : s[i] = b
InTable(r, b) == Occurs(table[r], b)
InGot(t, b)   == Occurs(got[t], b)

NoneTwice(s) == \A i, j \in 1 .. Len(s) : s[i] = s[j] => i = j

HeldIsAllocated ==
  \A b \in Blocks :
    (\/ \E r \in Rids : InTable(r, b)
     \/ \E t \in Threads : InGot(t, b))  => ~isFree[b] /\ refCount[b] = 1

HeldOnce ==
  /\ \A r \in Rids : NoneTwice(table[r])
  /\ \A t \in Threads : NoneTwice(got[t])
  /\ \A r, q \in Rids, b \in Blocks : InTable(r, b) /\ InTable(q, b) => r = q
  /\ \A t, u \in Threads, b \in Blocks : InGot(t, b) /\ InGot(u, b) => t = u
  /\ \A r \in Rids, t \in Threads, b \in Blocks : ~(InTable(r, b) /\ InGot(t, b))

BlockOwnership == HeldIsAllocated /\ HeldOnce

-----------------------------------------------------------------------------
(***************************************************************************)
(* No request is lost.  Between two methods every request that has not     *)
(* finished is in exactly one of the two queues, once: moving requests     *)
(* between them through the loops' temporaries drops and duplicates none.  *)
(***************************************************************************)
Places(r) == Cardinality({i \in DOMAIN waiting : waiting[i] = r})
           + Cardinality({i \in DOMAIN running : running[i] = r})

NoRequestLost ==
  lock = NoThread =>
    \A r \in Rids :
      /\ r \in known /\ state[r] # "FINISHED" => Places(r) = 1
      /\ Places(r) <= 1
      /\ r \notin known => Places(r) = 0

(***************************************************************************)
(* The batch handed to the engine: each request once, all of them running  *)
(* when it was built, and within max_total_tokens_ ("Max total tokens      *)
(* across all sequences (limits batch size)", scheduler.h).                *)
(***************************************************************************)
BatchTokens == SumFunction([i \in DOMAIN batch |-> SeqLen(batch[i].rid)])

BatchWithinLimits ==
  /\ BatchTokens <= MaxTotalTokens
  /\ \A i, j \in DOMAIN batch : batch[i].rid = batch[j].rid => i = j

(***************************************************************************)
(* The queues are first-in first-out ("Running request order (FIFO)",      *)
(* "Waiting queue (FIFO)", scheduler.h:100-104): no step swaps two         *)
(* requests in a queue, whatever was admitted or removed between them, and *)
(* preemption, which takes the youngest first and puts each at the front   *)
(* of waiting_, keeps the admission order of those it takes.               *)
(***************************************************************************)
Before(s, r, q) == \E i, j \in DOMAIN s : i < j /\ s[i] = r /\ s[j] = q

Preemptible(r) == state[r] \in {"RUNNING", "PREEMPTED"}

QueueOrderKept ==
  [][\A r, q \in Rids :
       /\ Before(waiting, r, q) => ~Before(waiting', q, r)
       /\ Before(running, r, q) => ~Before(running', q, r)
       /\ phase = "evictFree" /\ Preemptible(r) /\ Preemptible(q) =>
            (Before(running \o waiting, r, q) => ~Before(running' \o waiting', q, r))
    ]_schedVars

=============================================================================
