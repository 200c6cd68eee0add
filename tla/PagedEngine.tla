----------------------------- MODULE PagedEngine -----------------------------
(***************************************************************************)
(* Class PagedEngine: submit_tokens, remove_request and step(), which runs *)
(* one scheduling iteration, executes its batch request by request over    *)
(* the paged KV cache and reports the tokens sampled.                      *)
(*                                                                         *)
(* step() holds no lock of its own.  It works on a copy of each Request    *)
(* (get_request), so the block table it writes through and the sequence    *)
(* length it computes with are those of the moment of the copy.  Several   *)
(* threads may be inside step() at once (server.cpp runs one per client).  *)
(*                                                                         *)
(* The model forward pass is abstracted to the cache positions it writes   *)
(* and reads, <<request, position>> being the entry written for a token;   *)
(* which token is sampled is nondeterministic.                             *)
(***************************************************************************)
EXTENDS Scheduler

\* a copy names a request, also before the first was made
ASSUME SomeRequestAssumption == MaxRequests > 0

VARIABLES
  pc,       (* where each thread is in step(); "out" when it is not in it   *)
  job,      (* what is left of sched.batch_ids and is_prefill               *)
  fins,     (* what is left of sched.finished_requests                      *)
  copy,     (* req_opt: the request as it was when copied                   *)
  pos,      (* the next prompt position run_prefill writes                  *)
  sampled,  (* all_rids with all_new_tokens                                 *)
  outIds,   (* output.request_ids with output.finished                      *)
  outToks   (* output.new_token_ids                                         *)

jobVars    == <<job, fins, copy, pos, sampled>>
outputVars == <<outIds, outToks>>
engineVars == <<pc, jobVars, outputVars>>
pagedVars  == <<schedVars, engineVars>>

NoCopy == [rid |-> 0, seq |-> 0, table |-> <<>>]

EngineInit ==
  /\ SchedInit
  /\ pc      = [t \in Threads |-> "out"]
  /\ job     = [t \in Threads |-> <<>>]
  /\ fins    = [t \in Threads |-> <<>>]
  /\ copy    = [t \in Threads |-> NoCopy]
  /\ pos     = [t \in Threads |-> 0]
  /\ sampled = [t \in Threads |-> <<>>]
  /\ outIds  = [t \in Threads |-> <<>>]
  /\ outToks = [t \in Threads |-> <<>>]

At(t, label)   == pc[t] = label
Goto(t, label) == pc' = [pc EXCEPT ![t] = label]

\* the blocks of the copy: those it was copied with, or those alloc_blocks put there
CopyTable(t) == IF copy[t].table = <<>> THEN got[t] ELSE copy[t].table

-----------------------------------------------------------------------------
(* step() up to the batch. *)

StepBegin(t) ==
  /\ At(t, "out") /\ BeginSchedule(t)
  /\ Goto(t, "schedule")
  /\ outIds'  = [outIds EXCEPT ![t] = <<>>]
  /\ outToks' = [outToks EXCEPT ![t] = <<>>]
  /\ UNCHANGED jobVars

\* an empty batch returns an empty output: finished_requests is dropped with it
StepScheduled(t) ==
  /\ At(t, "schedule") /\ EndSchedule(t)
  /\ IF batch = <<>>
     THEN /\ Goto(t, "out")
          /\ UNCHANGED <<job, fins>>
     ELSE /\ Goto(t, "loop")
          /\ job'  = [job EXCEPT ![t] = batch]
          /\ fins' = [fins EXCEPT ![t] = retired]
  /\ UNCHANGED <<copy, pos, sampled, outputVars>>

\* where the loop goes with the request it copied; an empty prompt has nothing to prefill
Route(entry) ==
  LET r == entry.rid IN
  IF ~entry.prefill /\ table[r] # <<>> THEN "decode"
  ELSE IF promptLen[r] = 0 THEN "loop"
  ELSE IF table[r] = <<>> THEN "prefillAlloc"
  ELSE "prefill"

\* get_request at the head of the loop: one critical section
PickRequest(t) ==
  LET entry == Head(job[t])
      r     == entry.rid
  IN
  /\ At(t, "loop") /\ job[t] # <<>> /\ lock = NoThread
  /\ job' = [job EXCEPT ![t] = Tail(@)]
  /\ pos' = [pos EXCEPT ![t] = 0]
  /\ IF r \in known
     THEN /\ copy' = [copy EXCEPT ![t] = [rid |-> r, seq |-> SeqLen(r), table |-> table[r]]]
          /\ Goto(t, Route(entry))
     ELSE UNCHANGED <<copy, pc>>
  /\ UNCHANGED <<schedVars, fins, sampled, outputVars>>

-----------------------------------------------------------------------------
(* run_prefill *)

\* the copy has no blocks: allocate for it, outside the scheduler's lock
PrefillAlloc(t) ==
  /\ At(t, "prefillAlloc")
  /\ BeginOwnAlloc(t, BlocksFor(copy[t].seq))
  /\ Goto(t, "prefill")
  /\ UNCHANGED <<jobVars, outputVars>>

\* alloc_blocks has returned, whether or not it got all it wanted
OwnAllocReturned(t) == want[t] = Len(got[t])

\* write_kv_token at the next position; with no block for it nothing is written
PrefillWrite(t) ==
  /\ At(t, "prefill") /\ OwnAllocReturned(t)
  /\ pos[t] < promptLen[copy[t].rid]
  /\ kv'  = Written(CopyTable(t), pos[t], <<copy[t].rid, pos[t]>>)
  /\ pos' = [pos EXCEPT ![t] = @ + 1]
  /\ UNCHANGED <<isFree, refCount, requestVars, table, queueVars, lock, phase, localVars,
                 reports, allocVars, pc, job, fins, copy, sampled, outputVars>>

\* the request is copied once more and given one token, which is then dropped with that
\* copy; if the token needs a block one is allocated, and dropped too
PrefillSample(t) ==
  LET r     == copy[t].rid
      total == BlocksFor(SeqLen(r) + 1)
  IN
  /\ At(t, "prefill") /\ OwnAllocReturned(t)
  /\ pos[t] = promptLen[copy[t].rid] /\ lock = NoThread
  /\ Goto(t, "prefillEnd")
  /\ IF r \in known /\ Len(table[r]) < total
     THEN BeginOwnAlloc(t, total - Len(table[r]))
     ELSE UNCHANGED schedVars
  /\ UNCHANGED <<jobVars, outputVars>>

\* mutant: the blocks of the copy are written back to the request, outside the mutex
PrefillWritesBack(t) ==
  /\ At(t, "prefillEnd") /\ OwnAllocReturned(t)
  /\ table' = IF want[t] > 0 THEN [table EXCEPT ![copy[t].rid] = got[t]] ELSE table
  /\ EndAlloc(t)
  /\ Goto(t, "loop")
  /\ UNCHANGED <<poolVars, requestVars, queueVars, lock, phase, localVars, reports, jobVars,
                 outputVars>>

\* the copy and its blocks go out of scope; no token was added to all_new_tokens
PrefillEnd(t) ==
  /\ At(t, "prefillEnd") /\ OwnAllocReturned(t)
  /\ IF want[t] > 0 THEN DropOwnBlocks(t) ELSE UNCHANGED schedVars
  /\ Goto(t, "loop")
  /\ UNCHANGED <<jobVars, outputVars>>

-----------------------------------------------------------------------------
(* run_decode *)

\* mutant: the entry of the last token goes to the slot after it
DecodeWritesNext(t) ==
  /\ At(t, "decode")
  /\ kv' = Written(copy[t].table, copy[t].seq, <<copy[t].rid, copy[t].seq>>)
  /\ Goto(t, "attend")
  /\ UNCHANGED <<isFree, refCount, requestVars, table, queueVars, lock, phase, localVars,
                 reports, allocVars, jobVars, outputVars>>

DecodeWrite(t) ==
  /\ At(t, "decode")
  /\ kv' = Written(copy[t].table, copy[t].seq - 1, <<copy[t].rid, copy[t].seq - 1>>)
  /\ Goto(t, "attend")
  /\ UNCHANGED <<isFree, refCount, requestVars, table, queueVars, lock, phase, localVars,
                 reports, allocVars, jobVars, outputVars>>

\* mutant: the token is filed under the position, not the request
SampleForPosition(t, tok) ==
  /\ At(t, "attend")
  /\ sampled' = [sampled EXCEPT ![t] = Append(@, <<copy[t].seq, tok>>)]
  /\ Goto(t, "loop")
  /\ UNCHANGED <<schedVars, job, fins, copy, pos, outputVars>>

\* paged_attention over the copy's table, then sample_token
DecodeSample(t, tok) ==
  /\ At(t, "attend")
  /\ sampled' = [sampled EXCEPT ![t] = Append(@, <<copy[t].rid, tok>>)]
  /\ Goto(t, "loop")
  /\ UNCHANGED <<schedVars, job, fins, copy, pos, outputVars>>

-----------------------------------------------------------------------------
(* step() from report_output to its return. *)

StepReport(t) ==
  /\ At(t, "loop") /\ job[t] = <<>>
  /\ IF sampled[t] # <<>>
     THEN BeginReport(t, sampled[t]) /\ Goto(t, "report")
     ELSE UNCHANGED schedVars /\ Goto(t, "collect")
  /\ UNCHANGED <<jobVars, outputVars>>

StepReported(t) ==
  /\ At(t, "report") /\ EndReport(t)
  /\ Goto(t, "collect")
  /\ UNCHANGED <<jobVars, outputVars>>

\* mutant: whoever does not run any more counts as finished
RunsNoMore(r, tok) == state[r] # "RUNNING" \/ tok = "eos"

\* output.finished of a request named with a token
FinishFlag(r, tok) == state[r] = "FINISHED" \/ tok = "eos"

\* one get_request per token, each a critical section of its own
CollectToken(t) ==
  LET r   == Head(sampled[t])[1]
      tok == Head(sampled[t])[2]
  IN
  /\ At(t, "collect") /\ sampled[t] # <<>> /\ lock = NoThread
  /\ sampled' = [sampled EXCEPT ![t] = Tail(@)]
  /\ IF r \in known
     THEN /\ outIds'  = [outIds EXCEPT ![t] =
                           Append(@, [rid |-> r, fin |-> FinishFlag(r, tok)])]
          /\ outToks' = [outToks EXCEPT ![t] = Append(@, tok)]
     ELSE UNCHANGED outputVars
  /\ UNCHANGED <<schedVars, pc, job, fins, copy, pos>>

\* a request schedule() retired is named in request_ids with no token of its own
CollectFinished(t) ==
  LET r == Head(fins[t]) IN
  /\ At(t, "collect") /\ sampled[t] = <<>> /\ fins[t] # <<>> /\ lock = NoThread
  /\ fins' = [fins EXCEPT ![t] = Tail(@)]
  /\ outIds' = IF r \in known
               THEN [outIds EXCEPT ![t] = Append(@, [rid |-> r, fin |-> TRUE])]
               ELSE outIds
  /\ UNCHANGED <<schedVars, pc, job, copy, pos, sampled, outToks>>

StepReturn(t) ==
  /\ At(t, "collect") /\ sampled[t] = <<>> /\ fins[t] = <<>>
  /\ Goto(t, "out")
  /\ UNCHANGED <<schedVars, jobVars, outputVars>>

-----------------------------------------------------------------------------
(* What a thread does between two calls of its own, and the engine's callers. *)

InScheduler(t) ==
  /\ \/ ScheduleStep(t) \/ ReportStep(t) \/ FreeHeadBlock(t) \/ AllocBlock(t)
     \/ OwnAllocFails(t)
  /\ UNCHANGED engineVars

StepProgress(t) ==
  \/ InScheduler(t)
  \/ StepScheduled(t) \/ PickRequest(t)
  \/ PrefillAlloc(t) \/ PrefillWrite(t) \/ PrefillSample(t) \/ PrefillEnd(t)
  \/ DecodeWrite(t) \/ \E tok \in Tokens : DecodeSample(t, tok)
  \/ StepReport(t) \/ StepReported(t)
  \/ CollectToken(t) \/ CollectFinished(t) \/ StepReturn(t)

SubmitTokens(t, n, m) ==
  /\ At(t, "out") /\ Submit(t, n, m)
  /\ UNCHANGED engineVars

RemoveRequest(t, r) ==
  /\ At(t, "out") /\ BeginRemove(t, r)
  /\ Goto(t, "remove")
  /\ UNCHANGED <<jobVars, outputVars>>

RemoveReturn(t) ==
  /\ At(t, "remove") /\ EndRemove(t)
  /\ Goto(t, "out")
  /\ UNCHANGED <<jobVars, outputVars>>

EngineNext ==
  \E t \in Threads :
    \/ \E n \in PromptLens, m \in MaxNews : SubmitTokens(t, n, m)
    \/ \E r \in Rids : RemoveRequest(t, r)
    \/ RemoveReturn(t)
    \/ StepBegin(t) \/ StepProgress(t)

EngineSpec == EngineInit /\ [][EngineNext]_pagedVars

\* a thread inside a method that can go on does go on; nothing obliges it to call another
EngineFairness == \A t \in Threads : WF_pagedVars(StepProgress(t) \/ RemoveReturn(t))
FairEngineSpec == EngineSpec /\ EngineFairness

=============================================================================
