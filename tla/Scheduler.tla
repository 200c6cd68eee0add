------------------------------ MODULE Scheduler ------------------------------
(***************************************************************************)
(* Class Scheduler: continuous batching with preemption over one block     *)
(* pool.  Its public methods run under the scheduler's mutex `lock`; the   *)
(* pool has a mutex of its own, taken once per block.  A thread that       *)
(* allocates blocks for itself (PagedEngine::run_prefill) takes only the   *)
(* pool's mutex, so its allocations interleave with the loops below.       *)
(* Therefore schedule(), report_output() and remove_request() are one      *)
(* action per loop iteration and one per block allocated or freed, while   *)
(* a method that touches no pool state is a single action.                 *)
(*                                                                         *)
(* The module's own specification is its most general caller: threads that *)
(* call any method at any time the API allows.                             *)
(***************************************************************************)
EXTENDS BlockPool, SequencesExt

CONSTANTS
  Threads,          (* threads that call the scheduler                     *)
  MaxRequests,      (* bound on the requests ever submitted                *)
  PromptLens,       (* lengths of the prompts submitted                    *)
  MaxNews,          (* values of max_new_tokens submitted                  *)
  MaxGen,           (* bound on the tokens ever reported for a request     *)
  MaxNumSeqs,       (* max_num_seqs_                                       *)
  MaxTotalTokens,   (* max_total_tokens_                                   *)
  OwnSizes,         (* numbers of blocks threads allocate for themselves   *)
  NoThread          (* the mutex is free                                   *)

ASSUME RequestAssumption ==
  /\ MaxRequests \in Nat
  /\ PromptLens \subseteq Nat
  /\ MaxNews \subseteq Nat
  /\ MaxGen \in Nat
  /\ OwnSizes \subseteq Nat \ {0}
ASSUME LimitAssumption  == MaxNumSeqs \in Nat /\ MaxTotalTokens \in Nat
ASSUME ThreadAssumption == NoThread \notin Threads

Rids   == 0 .. MaxRequests - 1
Tokens == {"tok", "eos"}      \* a sampled token: EOS_TOKEN_ID or another
Report == Rids \X Tokens      \* one (request_ids[i], new_token_ids[i]) pair

RequestStates == {"WAITING", "RUNNING", "FINISHED", "PREEMPTED"}

VARIABLES
  \* requests_, by request id
  nextId,       (* next_request_id_                                        *)
  known,        (* the keys of requests_                                   *)
  promptLen,    (* prompt_tokens.size()                                    *)
  maxNew,       (* max_new_tokens                                          *)
  genLen,       (* generated_tokens.size()                                 *)
  state,
  table,        (* block_table                                             *)
  ckpt,         (* checkpoint_blocks                                       *)
  preempted,    (* preempt_count > 0                                       *)
  \* the queues
  waiting, running,
  \* the mutex mtx_, and where its holder is
  lock, phase,
  \* locals of the method the holder is in
  scan,         (* what the current loop has still to visit                *)
  kept,         (* next_waiting / next_running                             *)
  admitted,     (* newly_admitted                                          *)
  needed,       (* total_needed                                            *)
  freed,
  tokens,       (* total_tokens                                            *)
  batch,        (* batch_ids with is_prefill                               *)
  retired,      (* finished_requests                                       *)
  reports,      (* what report_output has still to apply                   *)
  \* alloc_blocks in progress, by thread
  want, got     (* num_blocks, out                                         *)

requestVars == <<nextId, known, promptLen, maxNew, genLen, state, ckpt, preempted>>
queueVars   == <<waiting, running>>
localVars   == <<scan, kept, admitted, needed, freed, tokens, batch, retired>>
allocVars   == <<want, got>>
schedVars   == <<poolVars, requestVars, table, queueVars, lock, phase, localVars,
                 reports, allocVars>>

BatchEntry == [rid : Rids, prefill : BOOLEAN]

SeqLen(r)          == promptLen[r] + genLen[r]
NumBlocksOf(r)     == BlocksFor(SeqLen(r))
Idle(t)            == lock # t /\ want[t] = 0
Holds(t, p)        == lock = t /\ phase = p
NotAllocating(t)   == want[t] = 0
AllocDone(t)       == want[t] > 0 /\ Len(got[t]) = want[t]
AllocFails(t)      == Len(got[t]) < want[t] /\ PoolExhausted
EndAlloc(t)        == /\ want' = [want EXCEPT ![t] = 0]
                      /\ got'  = [got EXCEPT ![t] = <<>>]

\* std::remove; a queue holds a request at most once
Without(queue, r) ==
  IF Contains(queue, r) THEN RemoveAt(queue, CHOOSE i \in 1 .. Len(queue) : queue[i] = r)
  ELSE queue

SchedInit ==
  /\ PoolInit
  /\ nextId    = 0
  /\ known     = {}
  /\ promptLen = [r \in Rids |-> 0]
  /\ maxNew    = [r \in Rids |-> 0]
  /\ genLen    = [r \in Rids |-> 0]
  /\ state     = [r \in Rids |-> "WAITING"]
  /\ table     = [r \in Rids |-> <<>>]
  /\ ckpt      = [r \in Rids |-> <<>>]
  /\ preempted = [r \in Rids |-> FALSE]
  /\ waiting   = <<>> /\ running = <<>>
  /\ lock      = NoThread /\ phase = "idle"
  /\ scan      = <<>> /\ kept = <<>> /\ admitted = {}
  /\ needed    = 0 /\ freed = 0 /\ tokens = 0
  /\ batch     = <<>> /\ retired = <<>> /\ reports = <<>>
  /\ want      = [t \in Threads |-> 0]
  /\ got       = [t \in Threads |-> <<>>]

-----------------------------------------------------------------------------
(***************************************************************************)
(* Allocation, for whichever caller: one block per turn of the pool mutex. *)
(***************************************************************************)

AllocBlock(t) ==
  /\ Len(got[t]) < want[t]
  /\ \E b \in Blocks : Alloc(b) /\ got' = [got EXCEPT ![t] = Append(@, b)]
  /\ UNCHANGED <<requestVars, table, queueVars, lock, phase, localVars, reports, want>>

\* a thread outside the scheduler calls kv_manager().alloc_blocks, which fails when the
\* pool is exhausted and leaves what it got in the caller's vector ...
BeginOwnAlloc(t, n) ==
  /\ lock # t /\ want[t] = Len(got[t])
  /\ want' = [want EXCEPT ![t] = @ + n]
  /\ UNCHANGED <<poolVars, requestVars, table, queueVars, lock, phase, localVars,
                 reports, got>>

OwnAllocFails(t) ==
  /\ lock # t /\ AllocFails(t)
  /\ want' = [want EXCEPT ![t] = Len(got[t])]
  /\ UNCHANGED <<poolVars, requestVars, table, queueVars, lock, phase, localVars,
                 reports, got>>

\* ... and the vector goes out of scope: nothing returns its blocks to the pool
DropOwnBlocks(t) ==
  /\ lock # t /\ want[t] > 0 /\ want[t] = Len(got[t])
  /\ EndAlloc(t)
  /\ UNCHANGED <<poolVars, requestVars, table, queueVars, lock, phase, localVars, reports>>

-----------------------------------------------------------------------------
(* submit_request: one critical section. *)

\* mutant: the counter is read after it was incremented
SubmitNextId(t, n, m) ==
  /\ Idle(t) /\ lock = NoThread
  /\ nextId < MaxRequests
  /\ nextId'    = nextId + 1
  /\ known'     = known \cup {nextId'}
  /\ waiting'   = Append(waiting, nextId')
  /\ UNCHANGED <<poolVars, promptLen, maxNew, genLen, state, table, ckpt, preempted,
                 running, lock, phase, localVars, reports, allocVars>>

Submit(t, n, m) ==
  /\ Idle(t) /\ lock = NoThread
  /\ nextId < MaxRequests
  /\ nextId'    = nextId + 1
  /\ known'     = known \cup {nextId}
  /\ promptLen' = [promptLen EXCEPT ![nextId] = n]
  /\ maxNew'    = [maxNew EXCEPT ![nextId] = m]
  /\ waiting'   = Append(waiting, nextId)
  /\ UNCHANGED <<poolVars, genLen, state, table, ckpt, preempted, running, lock, phase,
                 localVars, reports, allocVars>>

-----------------------------------------------------------------------------
(***************************************************************************)
(* schedule(), phase 1 ("admit") and the second half of phase 2 ("retry"): *)
(* the loop over waiting_.                                                 *)
(***************************************************************************)

BeginSchedule(t) ==
  /\ Idle(t) /\ lock = NoThread
  /\ lock'  = t
  /\ phase' = "admit"
  /\ scan'  = waiting
  /\ UNCHANGED <<poolVars, requestVars, table, queueVars, kept, admitted, needed, freed,
                 tokens, batch, retired, reports, allocVars>>

\* can_allocate: only a WAITING request counts against max_num_seqs_
CanAllocate(r) ==
  /\ NumBlocksOf(r) <= FreeCount
  /\ Len(running) + (IF state[r] = "WAITING" THEN 1 ELSE 0) <= MaxNumSeqs

\* phase 1 restores a preempted request only from its checkpoint; phase 2 allocates anew
Admissible(r) ==
  /\ r \in known
  /\ CanAllocate(r)
  /\ \/ phase = "retry"
     \/ state[r] = "WAITING"
     \/ state[r] = "PREEMPTED" /\ ckpt[r] # <<>>

Admitting(t) == Holds(t, "admit") \/ Holds(t, "retry")

\* next_waiting.push_back, and the sum phase 2 takes over what phase 1 kept
KeepWaiting(r) ==
  /\ kept'   = IF r \in known THEN Append(kept, r) ELSE kept
  /\ needed' = IF r \in known /\ phase = "admit" THEN needed + NumBlocksOf(r) ELSE needed

AdmitSkip(t) ==
  /\ Admitting(t) /\ NotAllocating(t) /\ scan # <<>>
  /\ ~Admissible(Head(scan))
  /\ KeepWaiting(Head(scan))
  /\ scan' = Tail(scan)
  /\ UNCHANGED <<poolVars, requestVars, table, queueVars, lock, phase, admitted, freed,
                 tokens, batch, retired, reports, allocVars>>

\* allocate_request with needed <= 0 returns true and leaves the state alone
AdmitEmpty(t) ==
  /\ Admitting(t) /\ NotAllocating(t) /\ scan # <<>>
  /\ Admissible(Head(scan)) /\ NumBlocksOf(Head(scan)) = 0
  /\ running'  = Append(running, Head(scan))
  /\ admitted' = admitted \cup {Head(scan)}
  /\ scan'     = Tail(scan)
  /\ UNCHANGED <<poolVars, requestVars, table, waiting, lock, phase, kept, needed, freed,
                 tokens, batch, retired, reports, allocVars>>

AdmitBegin(t) ==
  /\ Admitting(t) /\ NotAllocating(t) /\ scan # <<>>
  /\ Admissible(Head(scan)) /\ NumBlocksOf(Head(scan)) > 0
  /\ want' = [want EXCEPT ![t] = NumBlocksOf(Head(scan))]
  /\ UNCHANGED <<poolVars, requestVars, table, queueVars, lock, phase, localVars,
                 reports, got>>

\* restore_request's copy_blocks, when the sizes agree
RestoredKV(r, blocks) ==
  IF phase = "admit" /\ state[r] = "PREEMPTED" /\ Len(ckpt[r]) = Len(blocks)
  THEN [b \in Blocks |->
         IF \E i \in 1 .. Len(blocks) : blocks[i] = b
         THEN kv[ckpt[r][CHOOSE i \in 1 .. Len(blocks) : blocks[i] = b]]
         ELSE kv[b]]
  ELSE kv

AdmitCommit(t) ==
  LET r == Head(scan) IN
  /\ Admitting(t) /\ AllocDone(t)
  /\ table'    = [table EXCEPT ![r] = got[t]]
  /\ kv'       = RestoredKV(r, got[t])
  /\ state'    = [state EXCEPT ![r] = "RUNNING"]
  /\ running'  = Append(running, r)
  /\ admitted' = admitted \cup {r}
  /\ scan'     = Tail(scan)
  /\ EndAlloc(t)
  /\ UNCHANGED <<isFree, refCount, nextId, known, promptLen, maxNew, genLen, ckpt,
                 preempted, waiting, lock, phase, kept, needed, freed, tokens, batch,
                 retired, reports>>

\* alloc_blocks fails half-way: the blocks it got are forgotten
AdmitFail(t) ==
  /\ Admitting(t) /\ AllocFails(t)
  /\ KeepWaiting(Head(scan))
  /\ scan' = Tail(scan)
  /\ EndAlloc(t)
  /\ UNCHANGED <<poolVars, requestVars, table, queueVars, lock, phase, admitted, freed,
                 tokens, batch, retired, reports>>

\* waiting_ = next_waiting; then phase 2 if anything waits for blocks, else phase 3
EndAdmit(t) ==
  /\ Holds(t, "admit") /\ NotAllocating(t) /\ scan = <<>>
  /\ waiting' = kept
  /\ kept'    = <<>>
  /\ IF needed > 0
     THEN phase' = "evict" /\ scan' = Reverse(running)
     ELSE phase' = "batch" /\ scan' = running
  /\ UNCHANGED <<poolVars, requestVars, table, running, lock, admitted, needed, freed,
                 tokens, batch, retired, reports, allocVars>>

EndRetry(t) ==
  /\ Holds(t, "retry") /\ NotAllocating(t) /\ scan = <<>>
  /\ waiting' = kept
  /\ kept'    = <<>>
  /\ phase'   = "batch"
  /\ scan'    = running
  /\ UNCHANGED <<poolVars, requestVars, table, running, lock, admitted, needed, freed,
                 tokens, batch, retired, reports, allocVars>>

-----------------------------------------------------------------------------
(***************************************************************************)
(* free_request_blocks, block by block: table[r] is what is left to free.  *)
(* It ends with the method that called it.                                 *)
(***************************************************************************)

FreeHeadBlock(t) ==
  LET r == Head(scan) IN
  /\ \E p \in {"evictFree", "retireFree", "removeFree"} : Holds(t, p)
  /\ table[r] # <<>>
  /\ Free(Head(table[r]))
  /\ table' = [table EXCEPT ![r] = Tail(@)]
  /\ UNCHANGED <<requestVars, queueVars, lock, phase, localVars, reports, allocVars>>

-----------------------------------------------------------------------------
(***************************************************************************)
(* preempt_requests(needed): running_ from its end, until enough is freed. *)
(* The code erases the victims from running_ after the loop; nothing reads *)
(* the queues in between, so each leaves as it is preempted.               *)
(***************************************************************************)

EvictMore == freed < needed /\ scan # <<>>

Evictable(r) == state[r] = "RUNNING"

EvictSkip(t) ==
  /\ Holds(t, "evict") /\ EvictMore
  /\ ~Evictable(Head(scan))
  /\ scan' = Tail(scan)
  /\ UNCHANGED <<poolVars, requestVars, table, queueVars, lock, phase, kept, admitted,
                 needed, freed, tokens, batch, retired, reports, allocVars>>

\* checkpoint_request: the block ids, not their content
EvictBegin(t) ==
  /\ Holds(t, "evict") /\ EvictMore
  /\ Evictable(Head(scan))
  /\ ckpt'  = [ckpt EXCEPT ![Head(scan)] = table[Head(scan)]]
  /\ phase' = "evictFree"
  /\ UNCHANGED <<poolVars, nextId, known, promptLen, maxNew, genLen, state, preempted,
                 table, queueVars, lock, localVars, reports, allocVars>>

\* mutant: the victim is not put back in the waiting queue
EvictForgets(t) ==
  LET r == Head(scan) IN
  /\ Holds(t, "evictFree") /\ table[r] = <<>>
  /\ ckpt'      = [ckpt EXCEPT ![r] = <<>>]
  /\ state'     = [state EXCEPT ![r] = "PREEMPTED"]
  /\ preempted' = [preempted EXCEPT ![r] = TRUE]
  /\ freed'     = freed + NumBlocksOf(r)
  /\ running'   = Without(running, r)
  /\ scan'      = Tail(scan)
  /\ phase'     = "evict"
  /\ UNCHANGED <<poolVars, nextId, known, promptLen, maxNew, genLen, table, waiting, lock,
                 kept, admitted, needed, tokens, batch, retired, reports, allocVars>>

\* mutant: a later victim goes behind the one taken before it
EvictBehind(t) ==
  LET r == Head(scan) IN
  /\ Holds(t, "evictFree") /\ table[r] = <<>>
  /\ ckpt'      = [ckpt EXCEPT ![r] = <<>>]
  /\ state'     = [state EXCEPT ![r] = "PREEMPTED"]
  /\ preempted' = [preempted EXCEPT ![r] = TRUE]
  /\ freed'     = freed + NumBlocksOf(r)
  /\ running'   = Without(running, r)
  /\ waiting'   = IF freed > 0 THEN <<Head(waiting), r>> \o Tail(waiting) ELSE <<r>> \o waiting
  /\ scan'      = Tail(scan)
  /\ phase'     = "evict"
  /\ UNCHANGED <<poolVars, nextId, known, promptLen, maxNew, genLen, table, lock, kept,
                 admitted, needed, tokens, batch, retired, reports, allocVars>>

\* free_request_blocks has cleared the checkpoint as well
EvictCommit(t) ==
  LET r == Head(scan) IN
  /\ Holds(t, "evictFree") /\ table[r] = <<>>
  /\ ckpt'      = [ckpt EXCEPT ![r] = <<>>]
  /\ state'     = [state EXCEPT ![r] = "PREEMPTED"]
  /\ preempted' = [preempted EXCEPT ![r] = TRUE]
  /\ freed'     = freed + NumBlocksOf(r)
  /\ running'   = Without(running, r)
  /\ waiting'   = <<r>> \o waiting
  /\ scan'      = Tail(scan)
  /\ phase'     = "evict"
  /\ UNCHANGED <<poolVars, nextId, known, promptLen, maxNew, genLen, table, lock, kept,
                 admitted, needed, tokens, batch, retired, reports, allocVars>>

EndEvict(t) ==
  /\ Holds(t, "evict") /\ ~EvictMore
  /\ scan'  = waiting
  /\ phase' = "retry"
  /\ UNCHANGED <<poolVars, requestVars, table, queueVars, lock, kept, admitted, needed,
                 freed, tokens, batch, retired, reports, allocVars>>

-----------------------------------------------------------------------------
(***************************************************************************)
(* schedule(), phases 3 and 4: build the batch, then retire.               *)
(***************************************************************************)

Batchable(r) == r \in known /\ state[r] = "RUNNING"

\* mutant: the limit is compared before this request's tokens are added
FitsTooLate(r) == tokens <= MaxTotalTokens

FitsBatch(r) == tokens + SeqLen(r) <= MaxTotalTokens

BatchInclude(t) ==
  LET r == Head(scan) IN
  /\ Holds(t, "batch") /\ scan # <<>>
  /\ Batchable(r) /\ FitsBatch(r)
  /\ tokens' = tokens + SeqLen(r)
  /\ batch'  = Append(batch, [rid |-> r, prefill |-> r \in admitted])
  /\ scan'   = Tail(scan)
  /\ UNCHANGED <<poolVars, requestVars, table, queueVars, lock, phase, kept, admitted,
                 needed, freed, retired, reports, allocVars>>

\* a request left out still counts: total_tokens only grows
BatchExclude(t) ==
  LET r == Head(scan) IN
  /\ Holds(t, "batch") /\ scan # <<>>
  /\ ~(Batchable(r) /\ FitsBatch(r))
  /\ tokens' = IF Batchable(r) THEN tokens + SeqLen(r) ELSE tokens
  /\ scan'   = Tail(scan)
  /\ UNCHANGED <<poolVars, requestVars, table, queueVars, lock, phase, kept, admitted,
                 needed, freed, batch, retired, reports, allocVars>>

EndBatch(t) ==
  /\ Holds(t, "batch") /\ scan = <<>>
  /\ phase' = "retire"
  /\ scan'  = running
  /\ UNCHANGED <<poolVars, requestVars, table, queueVars, lock, kept, admitted, needed,
                 freed, tokens, batch, retired, reports, allocVars>>

\* mutant: one token too many before a request is retired
FinishedLate(r) == state[r] = "FINISHED" \/ genLen[r] > maxNew[r]

Finished(r) == state[r] = "FINISHED" \/ genLen[r] >= maxNew[r]

RetireKeep(t) ==
  LET r == Head(scan) IN
  /\ Holds(t, "retire") /\ scan # <<>>
  /\ ~(r \in known /\ Finished(r))
  /\ kept' = IF r \in known THEN Append(kept, r) ELSE kept
  /\ scan' = Tail(scan)
  /\ UNCHANGED <<poolVars, requestVars, table, queueVars, lock, phase, admitted, needed,
                 freed, tokens, batch, retired, reports, allocVars>>

\* mutant: the retired request keeps its blocks
RetireWithoutFree(t) ==
  LET r == Head(scan) IN
  /\ Holds(t, "retire") /\ scan # <<>>
  /\ r \in known /\ Finished(r)
  /\ retired' = IF state[r] # "FINISHED" THEN Append(retired, r) ELSE retired
  /\ state'   = [state EXCEPT ![r] = "FINISHED"]
  /\ scan'    = Tail(scan)
  /\ UNCHANGED <<poolVars, nextId, known, promptLen, maxNew, genLen, ckpt, preempted,
                 table, queueVars, lock, phase, kept, admitted, needed, freed, tokens,
                 batch, reports, allocVars>>

\* finished_requests names the request only if it was not FINISHED (by EOS) before
RetireBegin(t) ==
  LET r == Head(scan) IN
  /\ Holds(t, "retire") /\ scan # <<>>
  /\ r \in known /\ Finished(r)
  /\ retired' = IF state[r] # "FINISHED" THEN Append(retired, r) ELSE retired
  /\ state'   = [state EXCEPT ![r] = "FINISHED"]
  /\ phase'   = "retireFree"
  /\ UNCHANGED <<poolVars, nextId, known, promptLen, maxNew, genLen, ckpt, preempted,
                 table, queueVars, lock, scan, kept, admitted, needed, freed, tokens,
                 batch, reports, allocVars>>

\* mutant: the loop does not go on to the next request
RetireCommitStays(t) ==
  /\ Holds(t, "retireFree") /\ table[Head(scan)] = <<>>
  /\ ckpt'  = [ckpt EXCEPT ![Head(scan)] = <<>>]
  /\ phase' = "retire"
  /\ UNCHANGED <<poolVars, nextId, known, promptLen, maxNew, genLen, state, preempted,
                 table, queueVars, lock, scan, kept, admitted, needed, freed, tokens, batch,
                 retired, reports, allocVars>>

RetireCommit(t) ==
  /\ Holds(t, "retireFree") /\ table[Head(scan)] = <<>>
  /\ ckpt'  = [ckpt EXCEPT ![Head(scan)] = <<>>]
  /\ scan'  = Tail(scan)
  /\ phase' = "retire"
  /\ UNCHANGED <<poolVars, nextId, known, promptLen, maxNew, genLen, state, preempted,
                 table, queueVars, lock, kept, admitted, needed, freed, tokens, batch,
                 retired, reports, allocVars>>

\* running_ = next_running; unlock.  The caller takes batch and retired; the locals go.
EndSchedule(t) ==
  /\ Holds(t, "retire") /\ scan = <<>>
  /\ running' = kept
  /\ lock'    = NoThread /\ phase' = "idle"
  /\ kept'    = <<>> /\ admitted' = {}
  /\ needed'  = 0 /\ freed' = 0 /\ tokens' = 0
  /\ batch'   = <<>> /\ retired' = <<>>
  /\ UNCHANGED <<poolVars, requestVars, table, waiting, scan, reports, allocVars>>

-----------------------------------------------------------------------------
(* report_output(request_ids, new_token_ids), one token per request. *)

BeginReport(t, pairs) ==
  /\ Idle(t) /\ lock = NoThread
  /\ lock'    = t
  /\ phase'   = "report"
  /\ reports' = pairs
  /\ UNCHANGED <<poolVars, requestVars, table, queueVars, localVars, allocVars>>

ReportUnknown(t) ==
  /\ Holds(t, "report") /\ reports # <<>> /\ NotAllocating(t)
  /\ Head(reports)[1] \notin known
  /\ reports' = Tail(reports)
  /\ UNCHANGED <<poolVars, requestVars, table, queueVars, lock, phase, localVars, allocVars>>

Reportable(r) == r \in known

\* the token is appended whatever state the request is in
ReportToken(t) ==
  LET r     == Head(reports)[1]
      total == BlocksFor(SeqLen(r) + 1)
  IN
  /\ Holds(t, "report") /\ reports # <<>> /\ NotAllocating(t)
  /\ Reportable(r)
  /\ genLen' = [genLen EXCEPT ![r] = @ + 1]
  /\ state'  = IF Head(reports)[2] = "eos" THEN [state EXCEPT ![r] = "FINISHED"] ELSE state
  /\ IF Len(table[r]) < total
     THEN /\ want' = [want EXCEPT ![t] = total - Len(table[r])]
          /\ UNCHANGED reports
     ELSE /\ reports' = Tail(reports)
          /\ UNCHANGED want
  /\ UNCHANGED <<poolVars, nextId, known, promptLen, maxNew, ckpt, preempted, table,
                 queueVars, lock, phase, localVars, got>>

ReportCommit(t) ==
  LET r == Head(reports)[1] IN
  /\ Holds(t, "report") /\ AllocDone(t)
  /\ table'   = [table EXCEPT ![r] = @ \o got[t]]
  /\ reports' = Tail(reports)
  /\ EndAlloc(t)
  /\ UNCHANGED <<poolVars, requestVars, queueVars, lock, phase, localVars>>

\* alloc_blocks fails: the table stays short, a partial allocation is forgotten
ReportFail(t) ==
  /\ Holds(t, "report") /\ AllocFails(t)
  /\ reports' = Tail(reports)
  /\ EndAlloc(t)
  /\ UNCHANGED <<poolVars, requestVars, table, queueVars, lock, phase, localVars>>

EndReport(t) ==
  /\ Holds(t, "report") /\ reports = <<>>
  /\ lock' = NoThread /\ phase' = "idle"
  /\ UNCHANGED <<poolVars, requestVars, table, queueVars, localVars, reports, allocVars>>

-----------------------------------------------------------------------------
(* remove_request(r); for an unknown r it does nothing. *)

BeginRemove(t, r) ==
  /\ Idle(t) /\ lock = NoThread
  /\ r \in known
  /\ lock'  = t
  /\ phase' = "removeFree"
  /\ scan'  = <<r>>
  /\ UNCHANGED <<poolVars, requestVars, table, queueVars, kept, admitted, needed, freed,
                 tokens, batch, retired, reports, allocVars>>

EndRemove(t) ==
  LET r == Head(scan) IN
  /\ Holds(t, "removeFree") /\ table[r] = <<>>
  /\ ckpt'    = [ckpt EXCEPT ![r] = <<>>]
  /\ state'   = [state EXCEPT ![r] = "FINISHED"]
  /\ waiting' = Without(waiting, r)
  /\ running' = Without(running, r)
  /\ known'   = known \ {r}
  /\ scan'    = <<>>
  /\ lock'    = NoThread /\ phase' = "idle"
  /\ UNCHANGED <<poolVars, nextId, promptLen, maxNew, genLen, preempted, table, kept,
                 admitted, needed, freed, tokens, batch, retired, reports, allocVars>>

-----------------------------------------------------------------------------
(* What a thread does once it is inside the scheduler or an allocation. *)

ScheduleStep(t) ==
  \/ AdmitSkip(t) \/ AdmitEmpty(t) \/ AdmitBegin(t) \/ AdmitCommit(t) \/ AdmitFail(t)
  \/ EndAdmit(t) \/ EndRetry(t)
  \/ EvictSkip(t) \/ EvictBegin(t) \/ EvictCommit(t) \/ EndEvict(t)
  \/ BatchInclude(t) \/ BatchExclude(t) \/ EndBatch(t)
  \/ RetireKeep(t) \/ RetireBegin(t) \/ RetireCommit(t)

ReportStep(t) ==
  \/ ReportUnknown(t) \/ ReportToken(t) \/ ReportCommit(t) \/ ReportFail(t)

Reports == SeqOf(Report, MaxRequests)

\* a report names requests of some batch, once each, and those have left WAITING
ReportsBatch(pairs) ==
  /\ \A i \in DOMAIN pairs : state[pairs[i][1]] # "WAITING" /\ genLen[pairs[i][1]] < MaxGen
  /\ \A i, j \in DOMAIN pairs : pairs[i][1] = pairs[j][1] => i = j

SchedNext ==
  \E t \in Threads :
    \/ \E n \in PromptLens, m \in MaxNews : Submit(t, n, m)
    \/ BeginSchedule(t) \/ ScheduleStep(t) \/ EndSchedule(t)
    \/ /\ Idle(t) /\ lock = NoThread    \* else TLC goes through all of Reports
       /\ \E pairs \in Reports : BeginReport(t, pairs) /\ ReportsBatch(pairs)
    \/ ReportStep(t) \/ EndReport(t)
    \/ \E r \in Rids : BeginRemove(t, r)
    \/ EndRemove(t)
    \/ FreeHeadBlock(t) \/ AllocBlock(t)
    \/ \E n \in OwnSizes : BeginOwnAlloc(t, n)
    \/ OwnAllocFails(t) \/ DropOwnBlocks(t)

SchedSpec == SchedInit /\ [][SchedNext]_schedVars

=============================================================================
