----------------------------- MODULE EngineProofs -----------------------------
(***************************************************************************)
(* Proofs about PagedEngine over the scheduler and the pool: that it keeps *)
(* the scheduler's invariants, with any number of threads in step(); what  *)
(* holds of the KV data and of a request's life when one thread calls it;  *)
(* and what callers that never remove a request may rely on, however many  *)
(* they are (CallsInv), for the proofs about the server and the runner.    *)
(***************************************************************************)
EXTENDS EngineProps, SchedulerProofs

(* The tuples that UNCHANGED lists. *)
USE DEF schedVars, poolVars, requestVars, queueVars, localVars, allocVars,
        pagedVars, engineVars, jobVars, outputVars

-----------------------------------------------------------------------------
(***************************************************************************)
(* Every step of the engine is a step of the scheduler, or leaves all of   *)
(* the scheduler's variables but the KV data.                              *)
(***************************************************************************)

EngineStep(t) ==
  \/ \E n \in PromptLens, m \in MaxNews : SubmitTokens(t, n, m)
  \/ \E r \in Rids : RemoveRequest(t, r)
  \/ RemoveReturn(t)
  \/ StepBegin(t) \/ StepProgress(t)

OffScheduler ==
  UNCHANGED <<isFree, refCount, requestVars, table, queueVars, lock, phase, localVars,
              reports, allocVars>>

LEMMA EngineNextIsStep == EngineNext <=> \E t \in Threads : EngineStep(t)
  BY DEF EngineNext, EngineStep

\* Allocating no block at all leaves everything.
LEMMA OwnAllocIsStep ==
  ASSUME SchedTypeOK, NEW t \in Threads, NEW n \in Nat, BeginOwnAlloc(t, n)
  PROVE  SchedStep(t) \/ OffScheduler
<1>1. CASE n > 0
  BY <1>1 DEF SchedStep
<1>2. CASE n = 0
  <2>1. want' = want
    BY <1>2 DEF BeginOwnAlloc, SchedTypeOK
  <2>. QED  BY <2>1 DEF BeginOwnAlloc, OffScheduler
<1>. QED  BY <1>1, <1>2

LEMMA EngineUsesScheduler ==
  ASSUME SchedTypeOK, EngineTypeOK, NEW t \in Threads, EngineStep(t)
  PROVE  SchedStep(t) \/ OffScheduler
<1>1. CASE \E n \in PromptLens, m \in MaxNews : SubmitTokens(t, n, m)
  BY <1>1 DEF SubmitTokens, SchedStep
<1>2. CASE \E r \in Rids : RemoveRequest(t, r)
  BY <1>2 DEF RemoveRequest, SchedStep
<1>3. CASE RemoveReturn(t)
  BY <1>3 DEF RemoveReturn, SchedStep
<1>4. CASE StepBegin(t)
  BY <1>4 DEF StepBegin, SchedStep
<1>5. CASE InScheduler(t)
  BY <1>5 DEF InScheduler, SchedStep
<1>6. CASE StepScheduled(t)
  BY <1>6 DEF StepScheduled, SchedStep
<1>7. CASE PickRequest(t)
  BY <1>7 DEF PickRequest, OffScheduler
<1>8. CASE PrefillAlloc(t)
  <2>1. BlocksFor(copy[t].seq) \in Nat
    BY BlocksForNat DEF EngineTypeOK
  <2>. QED  BY <1>8, <2>1, OwnAllocIsStep DEF PrefillAlloc
<1>9. CASE PrefillWrite(t)
  BY <1>9 DEF PrefillWrite, OffScheduler
<1>10. CASE PrefillSample(t)
  <2> DEFINE r == copy[t].rid
             n == BlocksFor(SeqLen(r) + 1) - Len(table[r])
  <2>1. r \in Rids
    BY DEF EngineTypeOK
  <2>2. SeqLen(r) + 1 \in Nat
    BY <2>1, NumBlocksNat
  <2>3. BlocksFor(SeqLen(r) + 1) \in Nat
    BY <2>2, BlocksForNat
  <2>4. Len(table[r]) \in Nat
    BY <2>1, LenProperties DEF SchedTypeOK
  <2>5. CASE Len(table[r]) < BlocksFor(SeqLen(r) + 1) /\ BeginOwnAlloc(t, n)
    <3>1. n \in Nat
      BY <2>3, <2>4, <2>5
    <3>. QED  BY <2>5, <3>1, OwnAllocIsStep
  <2>6. CASE UNCHANGED schedVars
    BY <2>6 DEF OffScheduler
  <2>. QED  BY <1>10, <2>5, <2>6 DEF PrefillSample
<1>11. CASE PrefillEnd(t)
  BY <1>11 DEF PrefillEnd, SchedStep, OffScheduler
<1>12. CASE DecodeWrite(t)
  BY <1>12 DEF DecodeWrite, OffScheduler
<1>13. CASE \E tok \in Tokens : DecodeSample(t, tok)
  BY <1>13 DEF DecodeSample, OffScheduler
<1>14. CASE StepReport(t)
  <2>1. sampled[t] \in Seq(Report)
    BY DEF EngineTypeOK
  <2>. QED  BY <1>14, <2>1 DEF StepReport, SchedStep, OffScheduler
<1>15. CASE StepReported(t)
  BY <1>15 DEF StepReported, SchedStep
<1>16. CASE CollectToken(t)
  BY <1>16 DEF CollectToken, OffScheduler
<1>17. CASE CollectFinished(t)
  BY <1>17 DEF CollectFinished, OffScheduler
<1>18. CASE StepReturn(t)
  BY <1>18 DEF StepReturn, OffScheduler
<1>. QED
  BY <1>1, <1>2, <1>3, <1>4, <1>5, <1>6, <1>7, <1>8, <1>9, <1>10, <1>11, <1>12, <1>13,
     <1>14, <1>15, <1>16, <1>17, <1>18 DEF EngineStep, StepProgress

\* What is known of the scheduler for any caller.
SchedInv ==
  /\ SchedTypeOK /\ LoopAtRequest /\ BlockOwnership
  /\ QueueInv /\ BatchFits

LEMMA OffSchedulerFrame ==
  ASSUME OffScheduler, SchedInv
  PROVE  SchedInv'
<1>1. SchedTypeOK' /\ LoopAtRequest'
  BY DEF OffScheduler, SchedInv, SchedTypeOK, LoopAtRequest, Admitting, Holds
<1>. QED  BY <1>1, OwnershipFrame, QueueFrame, BatchFitsFrame DEF OffScheduler, SchedInv

LEMMA SchedInvStep ==
  ASSUME SchedInv, EngineTypeOK, NEW t \in Threads, EngineStep(t)
  PROVE  SchedInv'
<1>1. CASE SchedStep(t)
  <2>1. SchedTypeOK' /\ LoopAtRequest'
    BY <1>1, StepType, LoopStep DEF SchedInv
  <2>2. BlockOwnership' /\ QueueInv'
    BY <1>1, OwnershipStep, QueueStep DEF SchedInv
  <2>3. BatchFits'
    BY <1>1, BatchFitsStep DEF SchedInv
  <2>. QED  BY <2>1, <2>2, <2>3 DEF SchedInv
<1>2. CASE OffScheduler
  BY <1>2, OffSchedulerFrame
<1>. QED  BY <1>1, <1>2, EngineUsesScheduler DEF SchedInv

-----------------------------------------------------------------------------
(***************************************************************************)
(* Which steps of the scheduler change which of its variables.             *)
(***************************************************************************)

LEMMA StepChanges ==
  ASSUME NEW t \in Threads, SchedStep(t)
  PROVE  /\ (\E n \in PromptLens, m \in MaxNews : Submit(t, n, m))
            \/ UNCHANGED <<nextId, promptLen, maxNew>>
         /\ (\E n \in PromptLens, m \in MaxNews : Submit(t, n, m)) \/ EndRemove(t)
            \/ known' = known
         /\ ReportToken(t) \/ genLen' = genLen
         /\ \/ AdmitCommit(t) \/ EvictCommit(t) \/ RetireBegin(t) \/ ReportToken(t)
            \/ EndRemove(t) \/ state' = state
         /\ AdmitCommit(t) \/ ReportCommit(t) \/ FreeHeadBlock(t) \/ table' = table
         /\ EvictBegin(t) \/ EvictCommit(t) \/ RetireCommit(t) \/ EndRemove(t) \/ ckpt' = ckpt
         /\ \/ \E pairs \in Seq(Report) : BeginReport(t, pairs)
            \/ ReportStep(t) \/ reports' = reports
         /\ AdmitCommit(t) \/ FreeHeadBlock(t) \/ kv' = kv
<1>1. CASE \E n \in PromptLens, m \in MaxNews : Submit(t, n, m)
  BY <1>1 DEF Submit
<1>2. CASE BeginSchedule(t)
  BY <1>2 DEF BeginSchedule
<1>3. CASE \E pairs \in Seq(Report) : BeginReport(t, pairs)
  BY <1>3 DEF BeginReport
<1>4. CASE \E r \in Rids : BeginRemove(t, r)
  BY <1>4 DEF BeginRemove
<1>5. CASE \E n \in Nat \ {0} : BeginOwnAlloc(t, n)
  BY <1>5 DEF BeginOwnAlloc
<1>6. CASE AdmitSkip(t)
  BY <1>6 DEF AdmitSkip
<1>7. CASE AdmitEmpty(t)
  BY <1>7 DEF AdmitEmpty
<1>8. CASE AdmitBegin(t)
  BY <1>8 DEF AdmitBegin
<1>9. CASE AdmitCommit(t)
  BY <1>9 DEF AdmitCommit
<1>10. CASE AdmitFail(t)
  BY <1>10 DEF AdmitFail
<1>11. CASE EndAdmit(t)
  BY <1>11 DEF EndAdmit
<1>12. CASE EndRetry(t)
  BY <1>12 DEF EndRetry
<1>13. CASE EvictSkip(t)
  BY <1>13 DEF EvictSkip
<1>14. CASE EvictBegin(t)
  BY <1>14 DEF EvictBegin
<1>15. CASE EvictCommit(t)
  BY <1>15 DEF EvictCommit
<1>16. CASE EndEvict(t)
  BY <1>16 DEF EndEvict
<1>17. CASE BatchInclude(t)
  BY <1>17 DEF BatchInclude
<1>18. CASE BatchExclude(t)
  BY <1>18 DEF BatchExclude
<1>19. CASE EndBatch(t)
  BY <1>19 DEF EndBatch
<1>20. CASE RetireKeep(t)
  BY <1>20 DEF RetireKeep
<1>21. CASE RetireBegin(t)
  BY <1>21 DEF RetireBegin
<1>22. CASE RetireCommit(t)
  BY <1>22 DEF RetireCommit
<1>23. CASE EndSchedule(t)
  BY <1>23 DEF EndSchedule
<1>24. CASE ReportUnknown(t)
  BY <1>24 DEF ReportUnknown, ReportStep
<1>25. CASE ReportToken(t)
  BY <1>25 DEF ReportToken, ReportStep
<1>26. CASE ReportCommit(t)
  BY <1>26 DEF ReportCommit, ReportStep
<1>27. CASE ReportFail(t)
  BY <1>27 DEF ReportFail, ReportStep
<1>28. CASE EndReport(t)
  BY <1>28 DEF EndReport
<1>29. CASE EndRemove(t)
  BY <1>29 DEF EndRemove
<1>30. CASE FreeHeadBlock(t)
  BY <1>30 DEF FreeHeadBlock
<1>31. CASE AllocBlock(t)
  BY <1>31 DEF AllocBlock, Alloc
<1>32. CASE OwnAllocFails(t)
  BY <1>32 DEF OwnAllocFails
<1>33. CASE DropOwnBlocks(t)
  BY <1>33 DEF DropOwnBlocks
<1>. QED  BY <1>1, <1>2, <1>3, <1>4, <1>5, <1>6, <1>7, <1>8, <1>9, <1>10, <1>11, <1>12,
             <1>13, <1>14, <1>15, <1>16, <1>17, <1>18, <1>19, <1>20, <1>21, <1>22,
             <1>23, <1>24, <1>25, <1>26, <1>27, <1>28, <1>29, <1>30, <1>31, <1>32, <1>33
          DEF SchedStep, ScheduleStep, ReportStep

\* A thread that does not hold the mutex while another does only allocates for itself.
OwnStep(t) ==
  \/ AllocBlock(t) \/ OwnAllocFails(t) \/ DropOwnBlocks(t)
  \/ \E n \in Nat \ {0} : BeginOwnAlloc(t, n)

LEMMA OtherStep ==
  ASSUME NEW t \in Threads, SchedStep(t), lock # t, lock # NoThread
  PROVE  OwnStep(t)
<1>1. CASE \E n \in PromptLens, m \in MaxNews : Submit(t, n, m)
  BY <1>1 DEF Submit, OwnStep, Idle, Holds, Admitting
<1>2. CASE BeginSchedule(t)
  BY <1>2 DEF BeginSchedule, OwnStep, Idle, Holds, Admitting
<1>3. CASE \E pairs \in Seq(Report) : BeginReport(t, pairs)
  BY <1>3 DEF BeginReport, OwnStep, Idle, Holds, Admitting
<1>4. CASE \E r \in Rids : BeginRemove(t, r)
  BY <1>4 DEF BeginRemove, OwnStep, Idle, Holds, Admitting
<1>5. CASE \E n \in Nat \ {0} : BeginOwnAlloc(t, n)
  BY <1>5 DEF BeginOwnAlloc, OwnStep, Idle, Holds, Admitting
<1>6. CASE AdmitSkip(t)
  BY <1>6 DEF AdmitSkip, OwnStep, Idle, Holds, Admitting
<1>7. CASE AdmitEmpty(t)
  BY <1>7 DEF AdmitEmpty, OwnStep, Idle, Holds, Admitting
<1>8. CASE AdmitBegin(t)
  BY <1>8 DEF AdmitBegin, OwnStep, Idle, Holds, Admitting
<1>9. CASE AdmitCommit(t)
  BY <1>9 DEF AdmitCommit, OwnStep, Idle, Holds, Admitting
<1>10. CASE AdmitFail(t)
  BY <1>10 DEF AdmitFail, OwnStep, Idle, Holds, Admitting
<1>11. CASE EndAdmit(t)
  BY <1>11 DEF EndAdmit, OwnStep, Idle, Holds, Admitting
<1>12. CASE EndRetry(t)
  BY <1>12 DEF EndRetry, OwnStep, Idle, Holds, Admitting
<1>13. CASE EvictSkip(t)
  BY <1>13 DEF EvictSkip, OwnStep, Idle, Holds, Admitting
<1>14. CASE EvictBegin(t)
  BY <1>14 DEF EvictBegin, OwnStep, Idle, Holds, Admitting
<1>15. CASE EvictCommit(t)
  BY <1>15 DEF EvictCommit, OwnStep, Idle, Holds, Admitting
<1>16. CASE EndEvict(t)
  BY <1>16 DEF EndEvict, OwnStep, Idle, Holds, Admitting
<1>17. CASE BatchInclude(t)
  BY <1>17 DEF BatchInclude, OwnStep, Idle, Holds, Admitting
<1>18. CASE BatchExclude(t)
  BY <1>18 DEF BatchExclude, OwnStep, Idle, Holds, Admitting
<1>19. CASE EndBatch(t)
  BY <1>19 DEF EndBatch, OwnStep, Idle, Holds, Admitting
<1>20. CASE RetireKeep(t)
  BY <1>20 DEF RetireKeep, OwnStep, Idle, Holds, Admitting
<1>21. CASE RetireBegin(t)
  BY <1>21 DEF RetireBegin, OwnStep, Idle, Holds, Admitting
<1>22. CASE RetireCommit(t)
  BY <1>22 DEF RetireCommit, OwnStep, Idle, Holds, Admitting
<1>23. CASE EndSchedule(t)
  BY <1>23 DEF EndSchedule, OwnStep, Idle, Holds, Admitting
<1>24. CASE ReportUnknown(t)
  BY <1>24 DEF ReportUnknown, OwnStep, Idle, Holds, Admitting
<1>25. CASE ReportToken(t)
  BY <1>25 DEF ReportToken, OwnStep, Idle, Holds, Admitting
<1>26. CASE ReportCommit(t)
  BY <1>26 DEF ReportCommit, OwnStep, Idle, Holds, Admitting
<1>27. CASE ReportFail(t)
  BY <1>27 DEF ReportFail, OwnStep, Idle, Holds, Admitting
<1>28. CASE EndReport(t)
  BY <1>28 DEF EndReport, OwnStep, Idle, Holds, Admitting
<1>29. CASE EndRemove(t)
  BY <1>29 DEF EndRemove, OwnStep, Idle, Holds, Admitting
<1>30. CASE FreeHeadBlock(t)
  BY <1>30 DEF FreeHeadBlock, OwnStep, Idle, Holds, Admitting
<1>31. CASE AllocBlock(t)
  BY <1>31 DEF AllocBlock, OwnStep, Idle, Holds, Admitting
<1>32. CASE OwnAllocFails(t)
  BY <1>32 DEF OwnAllocFails, OwnStep, Idle, Holds, Admitting
<1>33. CASE DropOwnBlocks(t)
  BY <1>33 DEF DropOwnBlocks, OwnStep, Idle, Holds, Admitting
<1>. QED  BY <1>1, <1>2, <1>3, <1>4, <1>5, <1>6, <1>7, <1>8, <1>9, <1>10, <1>11, <1>12,
             <1>13, <1>14, <1>15, <1>16, <1>17, <1>18, <1>19, <1>20, <1>21, <1>22,
             <1>23, <1>24, <1>25, <1>26, <1>27, <1>28, <1>29, <1>30, <1>31, <1>32, <1>33
          DEF SchedStep, ScheduleStep, ReportStep

-----------------------------------------------------------------------------
(***************************************************************************)
(* The types of the engine's variables.  run_decode writes at the last     *)
(* position of its copy: it must have one, which it has because only       *)
(* requests with a token have blocks.                                      *)
(***************************************************************************)

Used(r) == r < nextId /\ SeqLen(r) > 0

Extending(t) == Holds(t, "report") /\ want[t] > 0

BlocksAreUsed ==
  /\ \A r \in Rids : table[r] # <<>> => Used(r)
  /\ \A t \in Threads : Extending(t) => Used(Head(reports)[1])

LEMMA UsedStays ==
  ASSUME SchedTypeOK, NEW t \in Threads, SchedStep(t), NEW r \in Rids, Used(r)
  PROVE  Used(r)'
<1>0. r \in Nat /\ nextId \in Nat /\ promptLen[r] \in Nat /\ genLen[r] \in Nat
  <2>1. r \in Nat
    BY RequestAssumption DEF Rids
  <2>2. nextId \in Nat
    BY RequestAssumption DEF SchedTypeOK
  <2>. QED  BY <2>1, <2>2 DEF SchedTypeOK
<1>1. CASE \E n \in PromptLens, m \in MaxNews : Submit(t, n, m)
  <2>1. r # nextId
    BY DEF Used, SchedTypeOK, Rids
  <2>2. promptLen'[r] = promptLen[r] /\ genLen' = genLen /\ nextId' = nextId + 1
    BY <1>1, <2>1 DEF Submit, SchedTypeOK
  <2>. QED  BY <1>0, <2>2 DEF Used, SeqLen
<1>2. CASE ReportToken(t)
  <2>1. genLen'[r] \in {genLen[r], genLen[r] + 1}
    BY <1>2 DEF ReportToken, SchedTypeOK
  <2>2. nextId' = nextId /\ promptLen' = promptLen
    BY <1>2 DEF ReportToken
  <2>. QED  BY <1>0, <2>1, <2>2 DEF Used, SeqLen
<1>3. CASE UNCHANGED <<nextId, promptLen, genLen>>
  BY <1>3 DEF Used, SeqLen
<1>. QED  BY <1>1, <1>2, <1>3, StepChanges

\* The request of the first report.
LEMMA ReportsType ==
  ASSUME SchedTypeOK, reports # <<>>
  PROVE  /\ Head(reports) \in Report /\ Head(reports)[1] \in Rids
         /\ Tail(reports) \in Seq(Report)
<1>1. reports \in Seq(Report)
  BY DEF SchedTypeOK
<1>2. Head(reports) \in Report /\ Tail(reports) \in Seq(Report)
  BY <1>1, HeadTailProperties
<1>. QED  BY <1>2 DEF Report

\* Blocks are being appended to a request: they were before, or its token was just counted.
LEMMA ExtendingStep ==
  ASSUME SchedTypeOK, LoopAtRequest, NEW t \in Threads, SchedStep(t), NEW u \in Threads,
         Extending(u)'
  PROVE  \/ Extending(u) /\ reports' = reports
         \/ ReportToken(t) /\ reports' = reports /\ t = u
<1>a. want \in [Threads -> Nat] /\ \A v \in Threads : v # NoThread
  BY ThreadAssumption DEF SchedTypeOK
<1>b. lock' = u /\ phase' = "report" /\ want'[u] > 0
  BY DEF Extending, Holds
<1>1. CASE \E n \in PromptLens, m \in MaxNews : Submit(t, n, m)
  BY <1>1, <1>a, <1>b DEF Submit, Extending, Holds, Admitting, Idle, EndAlloc, NotAllocating, ReportStep
<1>2. CASE BeginSchedule(t)
  BY <1>2, <1>a, <1>b DEF BeginSchedule, Extending, Holds, Admitting, Idle, EndAlloc, NotAllocating, ReportStep
<1>3. CASE \E pairs \in Seq(Report) : BeginReport(t, pairs)
  BY <1>3, <1>a, <1>b DEF BeginReport, Extending, Holds, Admitting, Idle, EndAlloc, NotAllocating, ReportStep
<1>4. CASE \E r \in Rids : BeginRemove(t, r)
  BY <1>4, <1>a, <1>b DEF BeginRemove, Extending, Holds, Admitting, Idle, EndAlloc, NotAllocating, ReportStep
<1>5. CASE \E n \in Nat \ {0} : BeginOwnAlloc(t, n)
  BY <1>5, <1>a, <1>b DEF BeginOwnAlloc, Extending, Holds, Admitting, Idle, EndAlloc, NotAllocating, ReportStep
<1>6. CASE AdmitSkip(t)
  BY <1>6, <1>a, <1>b DEF AdmitSkip, Extending, Holds, Admitting, Idle, EndAlloc, NotAllocating, ReportStep
<1>7. CASE AdmitEmpty(t)
  BY <1>7, <1>a, <1>b DEF AdmitEmpty, Extending, Holds, Admitting, Idle, EndAlloc, NotAllocating, ReportStep
<1>8. CASE AdmitBegin(t)
  BY <1>8, <1>a, <1>b DEF AdmitBegin, Extending, Holds, Admitting, Idle, EndAlloc, NotAllocating, ReportStep
<1>9. CASE AdmitCommit(t)
  BY <1>9, <1>a, <1>b DEF AdmitCommit, Extending, Holds, Admitting, Idle, EndAlloc, NotAllocating, ReportStep
<1>10. CASE AdmitFail(t)
  BY <1>10, <1>a, <1>b DEF AdmitFail, Extending, Holds, Admitting, Idle, EndAlloc, NotAllocating, ReportStep
<1>11. CASE EndAdmit(t)
  BY <1>11, <1>a, <1>b DEF EndAdmit, Extending, Holds, Admitting, Idle, EndAlloc, NotAllocating, ReportStep
<1>12. CASE EndRetry(t)
  BY <1>12, <1>a, <1>b DEF EndRetry, Extending, Holds, Admitting, Idle, EndAlloc, NotAllocating, ReportStep
<1>13. CASE EvictSkip(t)
  BY <1>13, <1>a, <1>b DEF EvictSkip, Extending, Holds, Admitting, Idle, EndAlloc, NotAllocating, ReportStep
<1>14. CASE EvictBegin(t)
  BY <1>14, <1>a, <1>b DEF EvictBegin, Extending, Holds, Admitting, Idle, EndAlloc, NotAllocating, ReportStep
<1>15. CASE EvictCommit(t)
  BY <1>15, <1>a, <1>b DEF EvictCommit, Extending, Holds, Admitting, Idle, EndAlloc, NotAllocating, ReportStep
<1>16. CASE EndEvict(t)
  BY <1>16, <1>a, <1>b DEF EndEvict, Extending, Holds, Admitting, Idle, EndAlloc, NotAllocating, ReportStep
<1>17. CASE BatchInclude(t)
  BY <1>17, <1>a, <1>b DEF BatchInclude, Extending, Holds, Admitting, Idle, EndAlloc, NotAllocating, ReportStep
<1>18. CASE BatchExclude(t)
  BY <1>18, <1>a, <1>b DEF BatchExclude, Extending, Holds, Admitting, Idle, EndAlloc, NotAllocating, ReportStep
<1>19. CASE EndBatch(t)
  BY <1>19, <1>a, <1>b DEF EndBatch, Extending, Holds, Admitting, Idle, EndAlloc, NotAllocating, ReportStep
<1>20. CASE RetireKeep(t)
  BY <1>20, <1>a, <1>b DEF RetireKeep, Extending, Holds, Admitting, Idle, EndAlloc, NotAllocating, ReportStep
<1>21. CASE RetireBegin(t)
  BY <1>21, <1>a, <1>b DEF RetireBegin, Extending, Holds, Admitting, Idle, EndAlloc, NotAllocating, ReportStep
<1>22. CASE RetireCommit(t)
  BY <1>22, <1>a, <1>b DEF RetireCommit, Extending, Holds, Admitting, Idle, EndAlloc, NotAllocating, ReportStep
<1>23. CASE EndSchedule(t)
  BY <1>23, <1>a, <1>b DEF EndSchedule, Extending, Holds, Admitting, Idle, EndAlloc, NotAllocating, ReportStep
<1>24. CASE ReportUnknown(t)
  BY <1>24, <1>a, <1>b DEF ReportUnknown, Extending, Holds, Admitting, Idle, EndAlloc, NotAllocating, ReportStep
<1>25. CASE ReportToken(t)
  BY <1>25, <1>a, <1>b DEF ReportToken, Extending, Holds, Admitting, Idle, EndAlloc, NotAllocating, ReportStep
<1>26. CASE ReportCommit(t)
  BY <1>26, <1>a, <1>b DEF ReportCommit, Extending, Holds, Admitting, Idle, EndAlloc, NotAllocating, ReportStep
<1>27. CASE ReportFail(t)
  BY <1>27, <1>a, <1>b DEF ReportFail, Extending, Holds, Admitting, Idle, EndAlloc, NotAllocating, ReportStep
<1>28. CASE EndReport(t)
  BY <1>28, <1>a, <1>b DEF EndReport, Extending, Holds, Admitting, Idle, EndAlloc, NotAllocating, ReportStep
<1>29. CASE EndRemove(t)
  BY <1>29, <1>a, <1>b DEF EndRemove, Extending, Holds, Admitting, Idle, EndAlloc, NotAllocating, ReportStep
<1>30. CASE FreeHeadBlock(t)
  BY <1>30, <1>a, <1>b DEF FreeHeadBlock, Extending, Holds, Admitting, Idle, EndAlloc, NotAllocating, ReportStep
<1>31. CASE AllocBlock(t)
  BY <1>31, <1>a, <1>b DEF AllocBlock, Extending, Holds, Admitting, Idle, EndAlloc, NotAllocating, ReportStep
<1>32. CASE OwnAllocFails(t)
  BY <1>32, <1>a, <1>b DEF OwnAllocFails, Extending, Holds, Admitting, Idle, EndAlloc, NotAllocating, ReportStep
<1>33. CASE DropOwnBlocks(t)
  BY <1>33, <1>a, <1>b DEF DropOwnBlocks, Extending, Holds, Admitting, Idle, EndAlloc, NotAllocating, ReportStep
<1>. QED  BY <1>1, <1>2, <1>3, <1>4, <1>5, <1>6, <1>7, <1>8, <1>9, <1>10, <1>11, <1>12,
             <1>13, <1>14, <1>15, <1>16, <1>17, <1>18, <1>19, <1>20, <1>21, <1>22,
             <1>23, <1>24, <1>25, <1>26, <1>27, <1>28, <1>29, <1>30, <1>31, <1>32, <1>33
          DEF SchedStep, ScheduleStep, ReportStep

LEMMA BlocksAreUsedStep ==
  ASSUME SchedInv, BlocksAreUsed, NEW t \in Threads, SchedStep(t)
  PROVE  BlocksAreUsed'
<1>. USE DEF SchedInv
<1>1. ASSUME NEW r \in Rids, table'[r] # <<>>
      PROVE  Used(r)
  <2>1. CASE AdmitCommit(t)
    <3>1. WaitingNow = kept \o scan /\ scan # <<>> /\ Head(scan) \in Rids
      BY <2>1, AdmitMoves
    <3>2. Head(scan) < nextId
      BY <2>1, <3>1, HeadIsQueued
         DEF AdmitCommit, Admitting, Holds, QueueInv, InOneQueue, StatesFit
    <3>3. SeqLen(Head(scan)) > 0
      BY <2>1, LenProperties
         DEF AdmitCommit, AllocDone, QueueInv, AllocFits, SchedTypeOK
    <3>4. r # Head(scan) => table'[r] = table[r]
      BY <2>1, <3>1 DEF AdmitCommit, SchedTypeOK
    <3>. QED  BY <1>1, <3>2, <3>3, <3>4 DEF BlocksAreUsed, Used
  <2>2. CASE ReportCommit(t)
    <3>1. Extending(t)
      BY <2>2 DEF ReportCommit, AllocDone, Extending
    <3>2. r # Head(reports)[1] => table'[r] = table[r]
      BY <2>2 DEF ReportCommit, SchedTypeOK
    <3>. QED  BY <1>1, <3>1, <3>2 DEF BlocksAreUsed
  <2>3. CASE FreeHeadBlock(t)
    <3>1. r # Head(scan) => table'[r] = table[r]
      BY <2>3 DEF FreeHeadBlock, SchedTypeOK
    <3>2. table[Head(scan)] # <<>>
      BY <2>3 DEF FreeHeadBlock
    <3>. QED  BY <1>1, <3>1, <3>2 DEF BlocksAreUsed
  <2>4. CASE table' = table
    BY <1>1, <2>4 DEF BlocksAreUsed
  <2>. QED  BY <2>1, <2>2, <2>3, <2>4, StepChanges
<1>2. ASSUME NEW u \in Threads, Extending(u)'
      PROVE  Used(Head(reports)[1])'
  <2>1. CASE Extending(u) /\ reports' = reports
    <3>1. Head(reports)[1] \in Rids
      BY <2>1, ReportsType DEF Extending, LoopAtRequest
    <3>. QED  BY <2>1, <3>1, UsedStays DEF BlocksAreUsed
  <2>2. CASE ReportToken(t) /\ reports' = reports
    <3> DEFINE r == Head(reports)[1]
    <3>1. r \in Rids /\ r \in known
      BY <2>2, ReportsType DEF ReportToken, Reportable
    <3>2. r < nextId
      BY <3>1 DEF QueueInv, StatesFit
    <3>3. genLen'[r] = genLen[r] + 1
      BY <2>2, <3>1 DEF ReportToken, SchedTypeOK
    <3>4. nextId' = nextId /\ promptLen' = promptLen
      BY <2>2 DEF ReportToken
    <3>5. promptLen[r] \in Nat /\ genLen[r] \in Nat
      BY <3>1 DEF SchedTypeOK
    <3>6. r < nextId' /\ promptLen'[r] + genLen'[r] > 0
      <4> HIDE DEF r
      <4>. QED  BY <3>2, <3>3, <3>4, <3>5
    <3>. QED  BY <2>2, <3>6 DEF Used, SeqLen
  <2>. QED  BY <1>2, <2>1, <2>2, ExtendingStep
<1>. QED  BY <1>1, <1>2, UsedStays DEF BlocksAreUsed

LEMMA BlocksAreUsedFrame ==
  ASSUME BlocksAreUsed, OffScheduler
  PROVE  BlocksAreUsed'
  BY DEF BlocksAreUsed, OffScheduler, Used, SeqLen, Extending, Holds

LEMMA RouteType == \A e : Route(e) \in PagedLabels
  BY DEF Route, PagedLabels

\* Which steps change which of the engine's variables.
LEMMA EngineChanges ==
  ASSUME NEW t \in Threads, EngineStep(t)
  PROVE  /\ StepScheduled(t) \/ PickRequest(t) \/ job' = job
         /\ StepScheduled(t) \/ CollectFinished(t) \/ fins' = fins
         /\ PickRequest(t) \/ copy' = copy
         /\ PickRequest(t) \/ PrefillWrite(t) \/ pos' = pos
         /\ (\E tok \in Tokens : DecodeSample(t, tok)) \/ CollectToken(t) \/ sampled' = sampled
         /\ \/ StepBegin(t) \/ CollectToken(t) \/ CollectFinished(t)
            \/ UNCHANGED <<outIds, outToks>>
         /\ InScheduler(t) \/ (\E label \in PagedLabels : Goto(t, label)) \/ pc' = pc
<1>1. CASE \E n \in PromptLens, m \in MaxNews : SubmitTokens(t, n, m)
  BY <1>1 DEF SubmitTokens, PagedLabels
<1>2. CASE \E r \in Rids : RemoveRequest(t, r)
  BY <1>2 DEF RemoveRequest, PagedLabels
<1>3. CASE \E tok \in Tokens : DecodeSample(t, tok)
  BY <1>3 DEF DecodeSample, PagedLabels
<1>4. CASE RemoveReturn(t)
  BY <1>4 DEF RemoveReturn, PagedLabels
<1>5. CASE StepBegin(t)
  BY <1>5 DEF StepBegin, PagedLabels
<1>6. CASE InScheduler(t)
  BY <1>6 DEF InScheduler, PagedLabels
<1>7. CASE StepScheduled(t)
  BY <1>7 DEF StepScheduled, PagedLabels
<1>8. CASE PickRequest(t)
  BY <1>8, RouteType DEF PickRequest
<1>9. CASE PrefillAlloc(t)
  BY <1>9 DEF PrefillAlloc, PagedLabels
<1>10. CASE PrefillWrite(t)
  BY <1>10 DEF PrefillWrite, PagedLabels
<1>11. CASE PrefillSample(t)
  BY <1>11 DEF PrefillSample, PagedLabels
<1>12. CASE PrefillEnd(t)
  BY <1>12 DEF PrefillEnd, PagedLabels
<1>13. CASE DecodeWrite(t)
  BY <1>13 DEF DecodeWrite, PagedLabels
<1>14. CASE StepReport(t)
  BY <1>14 DEF StepReport, PagedLabels
<1>15. CASE StepReported(t)
  BY <1>15 DEF StepReported, PagedLabels
<1>16. CASE CollectToken(t)
  BY <1>16 DEF CollectToken, PagedLabels
<1>17. CASE CollectFinished(t)
  BY <1>17 DEF CollectFinished, PagedLabels
<1>18. CASE StepReturn(t)
  BY <1>18 DEF StepReturn, PagedLabels
<1>. QED  BY <1>1, <1>2, <1>3, <1>4, <1>5, <1>6, <1>7, <1>8, <1>9, <1>10, <1>11, <1>12,
             <1>13, <1>14, <1>15, <1>16, <1>17, <1>18
          DEF EngineStep, StepProgress


\* Which steps change the KV data.
LEMMA KvChanges ==
  ASSUME SchedTypeOK, NEW t \in Threads, EngineStep(t)
  PROVE  AdmitCommit(t) \/ FreeHeadBlock(t) \/ PrefillWrite(t) \/ DecodeWrite(t) \/ kv' = kv
<1>1. CASE \E n \in PromptLens, m \in MaxNews : SubmitTokens(t, n, m)
  BY <1>1 DEF SubmitTokens, Submit
<1>2. CASE \E r \in Rids : RemoveRequest(t, r)
  BY <1>2 DEF RemoveRequest, BeginRemove
<1>3. CASE \E tok \in Tokens : DecodeSample(t, tok)
  BY <1>3 DEF DecodeSample
<1>4. CASE RemoveReturn(t)
  BY <1>4 DEF RemoveReturn, EndRemove
<1>5. CASE StepBegin(t)
  BY <1>5 DEF StepBegin, BeginSchedule
<1>6. CASE InScheduler(t)
  <2>1. SchedStep(t)
    BY <1>6 DEF InScheduler, SchedStep
  <2>. QED  BY <2>1, StepChanges
<1>7. CASE StepScheduled(t)
  BY <1>7 DEF StepScheduled, EndSchedule
<1>8. CASE PickRequest(t)
  BY <1>8 DEF PickRequest
<1>9. CASE PrefillAlloc(t)
  BY <1>9 DEF PrefillAlloc, BeginOwnAlloc
<1>10. CASE PrefillWrite(t)
  BY <1>10 DEF PrefillWrite
<1>11. CASE PrefillSample(t)
  BY <1>11 DEF PrefillSample, BeginOwnAlloc
<1>12. CASE PrefillEnd(t)
  BY <1>12 DEF PrefillEnd, DropOwnBlocks
<1>13. CASE DecodeWrite(t)
  BY <1>13 DEF DecodeWrite
<1>14. CASE StepReport(t)
  BY <1>14 DEF StepReport, BeginReport
<1>15. CASE StepReported(t)
  BY <1>15 DEF StepReported, EndReport
<1>16. CASE CollectToken(t)
  BY <1>16 DEF CollectToken
<1>17. CASE CollectFinished(t)
  BY <1>17 DEF CollectFinished
<1>18. CASE StepReturn(t)
  BY <1>18 DEF StepReturn
<1>. QED  BY <1>1, <1>2, <1>3, <1>4, <1>5, <1>6, <1>7, <1>8, <1>9, <1>10, <1>11, <1>12,
             <1>13, <1>14, <1>15, <1>16, <1>17, <1>18
          DEF EngineStep, StepProgress


LEMMA WrittenType ==
  ASSUME kv \in [Blocks -> [Slots -> {Blank} \cup (Rids \X Nat)]],
         NEW blocks \in Seq(Blocks), NEW p \in Nat, NEW e \in Rids \X Nat
  PROVE  Written(blocks, p, e) \in [Blocks -> [Slots -> {Blank} \cup (Rids \X Nat)]]
<1>1. CASE Reaches(blocks, p)
  <2>1. p \div BlockSize \in Nat
    BY DivNat, BlockSizeAssumption
  <2>2. p \div BlockSize + 1 \in 1 .. Len(blocks)
    BY <1>1, <2>1, LenProperties DEF Reaches
  <2>3. BlockAt(blocks, p) \in Blocks
    BY <2>2, ElementOfSeq DEF BlockAt
  <2> DEFINE b == BlockAt(blocks, p)
             E == {Blank} \cup (Rids \X Nat)
             W == [kv[b] EXCEPT ![SlotAt(p)] = e]
  <2>4. Written(blocks, p, e) = [kv EXCEPT ![b] = W]
    BY <1>1 DEF Written
  <2>5. e \in E /\ b \in Blocks /\ kv \in [Blocks -> [Slots -> E]]
    BY <2>3
  <2>. HIDE DEF b, E
  <2>6. kv[b] \in [Slots -> E]
    BY <2>5
  <2>7. W \in [Slots -> E]
    BY <2>5, <2>6
  <2>. HIDE DEF W
  <2>8. [kv EXCEPT ![b] = W] \in [Blocks -> [Slots -> E]]
    BY <2>5, <2>7
  <2>. QED  BY <2>4, <2>8 DEF E
<1>2. CASE ~Reaches(blocks, p)
  BY <1>2 DEF Written
<1>. QED  BY <1>1, <1>2

\* restore_request copies whole blocks of the pool.
LEMMA RestoredType ==
  ASSUME SchedTypeOK, kv \in [Blocks -> [Slots -> {Blank} \cup (Rids \X Nat)]],
         NEW r \in Rids, NEW blocks \in Seq(Blocks)
  PROVE  RestoredKV(r, blocks) \in [Blocks -> [Slots -> {Blank} \cup (Rids \X Nat)]]
<1>1. CASE Len(ckpt[r]) = Len(blocks)
  <2>1. ckpt[r] \in Seq(Blocks)
    BY DEF SchedTypeOK
  <2>2. ASSUME NEW b \in Blocks, \E i \in 1 .. Len(blocks) : blocks[i] = b
        PROVE  ckpt[r][CHOOSE i \in 1 .. Len(blocks) : blocks[i] = b] \in Blocks
    <3> DEFINE k == CHOOSE i \in 1 .. Len(blocks) : blocks[i] = b
    <3>1. k \in 1 .. Len(blocks)
      BY <2>2
    <3>. HIDE DEF k
    <3>2. ckpt[r][k] \in Blocks
      BY <1>1, <2>1, <3>1, ElementOfSeq
    <3>. QED  BY <3>2 DEF k
  <2>. QED  BY <2>2 DEF RestoredKV
<1>2. CASE Len(ckpt[r]) # Len(blocks)
  BY <1>2 DEF RestoredKV
<1>. QED  BY <1>1, <1>2

\* The decode pass has a position to write.
DecodesUsed == \A t \in Threads : pc[t] = "decode" => copy[t].seq > 0

LEMMA EngineKvType ==
  ASSUME SchedInv, EngineTypeOK, DecodesUsed, NEW t \in Threads, EngineStep(t)
  PROVE  kv' \in [Blocks -> [Slots -> {Blank} \cup (Rids \X Nat)]]
<1>a. kv \in [Blocks -> [Slots -> {Blank} \cup (Rids \X Nat)]]
  BY DEF EngineTypeOK
<1>b. /\ copy[t].rid \in Rids /\ copy[t].seq \in Nat /\ copy[t].table \in Seq(Blocks)
      /\ got[t] \in Seq(Blocks) /\ pos[t] \in Nat
  BY DEF EngineTypeOK, SchedInv, SchedTypeOK
<1>1. CASE AdmitCommit(t)
  <2>1. Head(scan) \in Rids
    BY <1>1, AdmitMoves DEF SchedInv
  <2>. QED  BY <1>1, <1>a, <1>b, <2>1, RestoredType DEF AdmitCommit, SchedInv
<1>2. CASE FreeHeadBlock(t)
  <2>1. PICK b : Free(b)
    BY <1>2 DEF FreeHeadBlock
  <2>2. ZeroedBlock \in [Slots -> {Blank} \cup (Rids \X Nat)]
    BY DEF ZeroedBlock
  <2>. HIDE DEF Blocks, Slots
  <2>. QED  BY <1>a, <2>1, <2>2 DEF Free
<1>3. CASE PrefillWrite(t)
  <2>1. CopyTable(t) \in Seq(Blocks)
    BY <1>b DEF CopyTable
  <2>. QED  BY <1>a, <1>b, <1>3, <2>1, WrittenType DEF PrefillWrite
<1>4. CASE DecodeWrite(t)
  <2>1. copy[t].seq - 1 \in Nat
    BY <1>b, <1>4 DEF DecodeWrite, DecodesUsed, At
  <2>. QED  BY <1>a, <1>b, <1>4, <2>1, WrittenType DEF DecodeWrite
<1>. QED  BY <1>a, <1>1, <1>2, <1>3, <1>4, KvChanges DEF SchedInv

LEMMA EngineTypeStep ==
  ASSUME SchedInv, EngineTypeOK, DecodesUsed, NEW t \in Threads, EngineStep(t)
  PROVE  EngineTypeOK'
<1>a. /\ pc \in [Threads -> PagedLabels]
      /\ job \in [Threads -> Seq(BatchEntry)]
      /\ fins \in [Threads -> Seq(Rids)]
      /\ copy \in [Threads -> [rid : Rids, seq : Nat, table : Seq(Blocks)]]
      /\ pos \in [Threads -> Nat]
      /\ sampled \in [Threads -> Seq(Report)]
      /\ outIds \in [Threads -> Seq([rid : Rids, fin : BOOLEAN])]
      /\ outToks \in [Threads -> Seq(Tokens)]
  BY DEF EngineTypeOK
<1>1. kv' \in [Blocks -> [Slots -> {Blank} \cup (Rids \X Nat)]]
  BY EngineKvType
<1>2. pc' \in [Threads -> PagedLabels]
  <2>1. CASE InScheduler(t)
    BY <1>a, <2>1 DEF InScheduler
  <2>. QED  BY <1>a, <2>1, EngineChanges DEF Goto
<1>3. job' \in [Threads -> Seq(BatchEntry)]
  <2>1. CASE StepScheduled(t)
    BY <1>a, <2>1 DEF StepScheduled, SchedInv, SchedTypeOK
  <2>2. CASE PickRequest(t)
    <3>1. Tail(job[t]) \in Seq(BatchEntry)
      BY <1>a, <2>2, HeadTailProperties DEF PickRequest
    <3>. QED  BY <1>a, <2>2, <3>1 DEF PickRequest
  <2>. QED  BY <1>a, <2>1, <2>2, EngineChanges
<1>4. fins' \in [Threads -> Seq(Rids)]
  <2>1. CASE StepScheduled(t)
    BY <1>a, <2>1 DEF StepScheduled, SchedInv, SchedTypeOK
  <2>2. CASE CollectFinished(t)
    <3>1. Tail(fins[t]) \in Seq(Rids)
      BY <1>a, <2>2, HeadTailProperties DEF CollectFinished
    <3>. QED  BY <1>a, <2>2, <3>1 DEF CollectFinished
  <2>. QED  BY <1>a, <2>1, <2>2, EngineChanges
<1>5. copy' \in [Threads -> [rid : Rids, seq : Nat, table : Seq(Blocks)]]
  <2>1. CASE PickRequest(t)
    <3>1. Head(job[t]) \in BatchEntry
      BY <1>a, <2>1, HeadTailProperties DEF PickRequest
    <3>2. Head(job[t]).rid \in Rids
      BY <3>1 DEF BatchEntry
    <3>3. SeqLen(Head(job[t]).rid) \in Nat /\ table[Head(job[t]).rid] \in Seq(Blocks)
      BY <3>2, NumBlocksNat DEF SchedInv, SchedTypeOK
    <3>. DEFINE r == Head(job[t]).rid
                C == [rid : Rids, seq : Nat, table : Seq(Blocks)]
                c == [rid |-> r, seq |-> SeqLen(r), table |-> table[r]]
    <3>4. c \in C
      BY <3>2, <3>3
    <3>5. copy \in [Threads -> C]
      BY <1>a
    <3>6. copy' \in {copy, [copy EXCEPT ![t] = c]}
      BY <2>1 DEF PickRequest
    <3>. HIDE DEF c, C
    <3>7. copy' \in [Threads -> C]
      BY <3>4, <3>5, <3>6
    <3>. QED  BY <3>7 DEF C
  <2>. QED  BY <1>a, <2>1, EngineChanges
<1>6. pos' \in [Threads -> Nat]
  <2>1. CASE PickRequest(t)
    BY <1>a, <2>1 DEF PickRequest
  <2>2. CASE PrefillWrite(t)
    BY <1>a, <2>2 DEF PrefillWrite
  <2>. QED  BY <1>a, <2>1, <2>2, EngineChanges
<1>7. sampled' \in [Threads -> Seq(Report)]
  <2>1. CASE \E tok \in Tokens : DecodeSample(t, tok)
    <3>1. PICK tok \in Tokens : DecodeSample(t, tok)
      BY <2>1
    <3>2. <<copy[t].rid, tok>> \in Report
      BY <1>a DEF Report
    <3>3. Append(sampled[t], <<copy[t].rid, tok>>) \in Seq(Report)
      BY <1>a, <3>2, AppendProperties
    <3>. QED  BY <1>a, <3>1, <3>3 DEF DecodeSample
  <2>2. CASE CollectToken(t)
    <3>1. Tail(sampled[t]) \in Seq(Report)
      BY <1>a, <2>2, HeadTailProperties DEF CollectToken
    <3>. QED  BY <1>a, <2>2, <3>1 DEF CollectToken
  <2>. QED  BY <1>a, <2>1, <2>2, EngineChanges
<1>8. /\ outIds' \in [Threads -> Seq([rid : Rids, fin : BOOLEAN])]
      /\ outToks' \in [Threads -> Seq(Tokens)]
  <2>1. CASE StepBegin(t)
    <3>1. <<>> \in Seq([rid : Rids, fin : BOOLEAN]) /\ <<>> \in Seq(Tokens)
      OBVIOUS
    <3>2. outIds' = [outIds EXCEPT ![t] = <<>>] /\ outToks' = [outToks EXCEPT ![t] = <<>>]
      BY <2>1 DEF StepBegin
    <3>. QED  BY <1>a, <3>1, <3>2
  <2>2. CASE CollectToken(t)
    <3> DEFINE r   == Head(sampled[t])[1]
               tok == Head(sampled[t])[2]
               out == [rid |-> r, fin |-> state[r] = "FINISHED" \/ tok = "eos"]
    <3>1. Head(sampled[t]) \in Report
      BY <1>a, <2>2, HeadTailProperties DEF CollectToken
    <3>2. out \in [rid : Rids, fin : BOOLEAN] /\ tok \in Tokens
      BY <3>1 DEF Report
    <3>3. /\ Append(outIds[t], out) \in Seq([rid : Rids, fin : BOOLEAN])
          /\ Append(outToks[t], tok) \in Seq(Tokens)
      BY <1>a, <3>2, AppendProperties
    <3>4. CASE r \in known
      <4>1. /\ outIds' = [outIds EXCEPT ![t] = Append(@, out)]
            /\ outToks' = [outToks EXCEPT ![t] = Append(@, tok)]
        BY <2>2, <3>4 DEF CollectToken, FinishFlag
      <4>. HIDE DEF out, tok, r
      <4>. QED  BY <1>a, <3>3, <4>1
    <3>5. CASE r \notin known
      BY <1>a, <2>2, <3>5 DEF CollectToken
    <3>. QED  BY <3>4, <3>5
  <2>3. CASE CollectFinished(t)
    <3> DEFINE out == [rid |-> Head(fins[t]), fin |-> TRUE]
    <3>1. Head(fins[t]) \in Rids
      BY <1>a, <2>3, HeadTailProperties DEF CollectFinished
    <3>2. Append(outIds[t], out) \in Seq([rid : Rids, fin : BOOLEAN])
      BY <1>a, <3>1, AppendProperties
    <3>3. /\ outIds' \in {outIds, [outIds EXCEPT ![t] = Append(@, out)]}
          /\ outToks' = outToks
      BY <2>3 DEF CollectFinished
    <3>. HIDE DEF out
    <3>4. [outIds EXCEPT ![t] = Append(@, out)]
            \in [Threads -> Seq([rid : Rids, fin : BOOLEAN])]
      BY <1>a, <3>2
    <3>. QED  BY <1>a, <3>3, <3>4
  <2>. QED  BY <1>a, <2>1, <2>2, <2>3, EngineChanges
<1>. QED  BY <1>1, <1>2, <1>3, <1>4, <1>5, <1>6, <1>7, <1>8 DEF EngineTypeOK

LEMMA DecodesUsedStep ==
  ASSUME SchedInv, BlocksAreUsed, EngineTypeOK, DecodesUsed, NEW t \in Threads, EngineStep(t)
  PROVE  DecodesUsed'
<1>1. CASE PickRequest(t)
  <2> DEFINE e == Head(job[t])
  <2>1. e \in BatchEntry
    BY <1>1, HeadTailProperties DEF PickRequest, EngineTypeOK
  <2>2. e.rid \in Rids
    BY <2>1 DEF BatchEntry
  <2>3. e.rid \in known /\ Route(e) = "decode" => SeqLen(e.rid) > 0
    BY <2>2 DEF Route, BlocksAreUsed, Used
  <2>. HIDE DEF e
  <2>4. ASSUME NEW u \in Threads, u # t
        PROVE  pc'[u] = pc[u] /\ copy'[u] = copy[u]
    BY <1>1, <2>4 DEF PickRequest, Goto, EngineTypeOK
  <2>5. pc'[t] = "decode" => copy'[t].seq > 0
    <3>1. CASE e.rid \in known
      BY <1>1, <2>3, <3>1 DEF PickRequest, Goto, EngineTypeOK, e
    <3>2. CASE e.rid \notin known
      BY <1>1, <3>2 DEF PickRequest, At, EngineTypeOK, e
    <3>. QED  BY <3>1, <3>2
  <2>. QED  BY <2>4, <2>5 DEF DecodesUsed
<1>2. CASE ~PickRequest(t)
  <2>1. copy' = copy
    BY <1>2, EngineChanges
  <2>2. \A u \in Threads : pc'[u] = "decode" => pc[u] = "decode"
    <3>1. CASE \E n \in PromptLens, m \in MaxNews : SubmitTokens(t, n, m)
      BY <3>1, <1>2 DEF SubmitTokens, Goto, EngineTypeOK
    <3>2. CASE \E r \in Rids : RemoveRequest(t, r)
      BY <3>2, <1>2 DEF RemoveRequest, Goto, EngineTypeOK
    <3>3. CASE \E tok \in Tokens : DecodeSample(t, tok)
      BY <3>3, <1>2 DEF DecodeSample, Goto, EngineTypeOK
    <3>4. CASE RemoveReturn(t)
      BY <3>4, <1>2 DEF RemoveReturn, Goto, EngineTypeOK
    <3>5. CASE StepBegin(t)
      BY <3>5, <1>2 DEF StepBegin, Goto, EngineTypeOK
    <3>6. CASE InScheduler(t)
      BY <3>6, <1>2 DEF InScheduler, Goto, EngineTypeOK
    <3>7. CASE StepScheduled(t)
      BY <3>7, <1>2 DEF StepScheduled, Goto, EngineTypeOK
    <3>8. CASE PickRequest(t)
      BY <3>8, <1>2 DEF PickRequest, Goto, EngineTypeOK
    <3>9. CASE PrefillAlloc(t)
      BY <3>9, <1>2 DEF PrefillAlloc, Goto, EngineTypeOK
    <3>10. CASE PrefillWrite(t)
      BY <3>10, <1>2 DEF PrefillWrite, Goto, EngineTypeOK
    <3>11. CASE PrefillSample(t)
      BY <3>11, <1>2 DEF PrefillSample, Goto, EngineTypeOK
    <3>12. CASE PrefillEnd(t)
      BY <3>12, <1>2 DEF PrefillEnd, Goto, EngineTypeOK
    <3>13. CASE DecodeWrite(t)
      BY <3>13, <1>2 DEF DecodeWrite, Goto, EngineTypeOK
    <3>14. CASE StepReport(t)
      BY <3>14, <1>2 DEF StepReport, Goto, EngineTypeOK
    <3>15. CASE StepReported(t)
      BY <3>15, <1>2 DEF StepReported, Goto, EngineTypeOK
    <3>16. CASE CollectToken(t)
      BY <3>16, <1>2 DEF CollectToken, Goto, EngineTypeOK
    <3>17. CASE CollectFinished(t)
      BY <3>17, <1>2 DEF CollectFinished, Goto, EngineTypeOK
    <3>18. CASE StepReturn(t)
      BY <3>18, <1>2 DEF StepReturn, Goto, EngineTypeOK
    <3>. QED  BY <3>1, <3>2, <3>3, <3>4, <3>5, <3>6, <3>7, <3>8, <3>9, <3>10, <3>11, <3>12,
             <3>13, <3>14, <3>15, <3>16, <3>17, <3>18
              DEF EngineStep, StepProgress
  <2>. QED  BY <2>1, <2>2 DEF DecodesUsed
<1>. QED  BY <1>1, <1>2

-----------------------------------------------------------------------------
(***************************************************************************)
(* Who holds the mutex, and in which method: a thread's label says it.     *)
(***************************************************************************)

LabelFits(t) ==
  /\ lock = t <=> pc[t] \in {"schedule", "report", "remove"}
  /\ lock = t => /\ pc[t] = "report" <=> phase = "report"
                 /\ pc[t] = "remove" <=> phase = "removeFree"

LabelsFit == \A t \in Threads : LabelFits(t)

\* The steps inside a method stay inside it.
LEMMA InSchedulerStays ==
  ASSUME NEW t \in Threads, InScheduler(t)
  PROVE  /\ lock' = lock /\ UNCHANGED engineVars
         /\ phase = "report" <=> phase' = "report"
         /\ phase = "removeFree" <=> phase' = "removeFree"
<1>1. CASE ScheduleStep(t)
  <2> DEFINE Within == /\ lock' = lock /\ phase \notin {"report", "removeFree"}
                       /\ phase' \notin {"report", "removeFree"}
  <2>1. ASSUME AdmitSkip(t) \/ AdmitEmpty(t) \/ AdmitBegin(t) \/ AdmitCommit(t)
               \/ AdmitFail(t) \/ EndAdmit(t) \/ EndRetry(t)
        PROVE  Within
    BY <2>1 DEF Admitting, Holds, AdmitSkip, AdmitEmpty, AdmitBegin, AdmitCommit, AdmitFail,
       EndAdmit, EndRetry
  <2>2. ASSUME EvictSkip(t) \/ EvictBegin(t) \/ EvictCommit(t) \/ EndEvict(t)
        PROVE  Within
    BY <2>2 DEF Holds, EvictSkip, EvictBegin, EvictCommit, EndEvict
  <2>3. ASSUME BatchInclude(t) \/ BatchExclude(t) \/ EndBatch(t)
               \/ RetireKeep(t) \/ RetireBegin(t) \/ RetireCommit(t)
        PROVE  Within
    BY <2>3 DEF Holds, BatchInclude, BatchExclude, EndBatch, RetireKeep, RetireBegin,
       RetireCommit
  <2>4. Within
    <3>. HIDE DEF Within
    <3>. QED  BY <1>1, <2>1, <2>2, <2>3, Zenon DEF ScheduleStep
  <2>. QED  BY <2>4 DEF InScheduler
<1>2. CASE ReportStep(t) \/ FreeHeadBlock(t) \/ AllocBlock(t) \/ OwnAllocFails(t)
  BY <1>2 DEF InScheduler, ReportStep, ReportUnknown, ReportToken, ReportCommit, ReportFail,
     FreeHeadBlock, AllocBlock, OwnAllocFails
<1>. QED  BY <1>1, <1>2, Zenon DEF InScheduler

\* Only a thread itself takes the mutex, and gives it back.
LEMMA LockMoves ==
  ASSUME SchedTypeOK, EngineTypeOK, NEW t \in Threads, EngineStep(t)
  PROVE  lock' = lock \/ (lock \in {t, NoThread} /\ lock' \in {t, NoThread})
<1>1. CASE OffScheduler
  BY <1>1 DEF OffScheduler
<1>2. CASE SchedStep(t) /\ lock # t /\ lock # NoThread
  BY <1>2, OtherStep DEF OwnStep, AllocBlock, OwnAllocFails, DropOwnBlocks, BeginOwnAlloc
<1>3. CASE SchedStep(t) /\ lock \in {t, NoThread}
  <2>1. CASE \E n \in PromptLens, m \in MaxNews : Submit(t, n, m)
    BY <1>3, <2>1 DEF Submit
  <2>2. CASE BeginSchedule(t)
    BY <1>3, <2>2 DEF BeginSchedule
  <2>3. CASE \E pairs \in Seq(Report) : BeginReport(t, pairs)
    BY <1>3, <2>3 DEF BeginReport
  <2>4. CASE \E r \in Rids : BeginRemove(t, r)
    BY <1>3, <2>4 DEF BeginRemove
  <2>5. CASE \E n \in Nat \ {0} : BeginOwnAlloc(t, n)
    BY <1>3, <2>5 DEF BeginOwnAlloc
  <2>6. CASE AdmitSkip(t)
    BY <1>3, <2>6 DEF AdmitSkip
  <2>7. CASE AdmitEmpty(t)
    BY <1>3, <2>7 DEF AdmitEmpty
  <2>8. CASE AdmitBegin(t)
    BY <1>3, <2>8 DEF AdmitBegin
  <2>9. CASE AdmitCommit(t)
    BY <1>3, <2>9 DEF AdmitCommit
  <2>10. CASE AdmitFail(t)
    BY <1>3, <2>10 DEF AdmitFail
  <2>11. CASE EndAdmit(t)
    BY <1>3, <2>11 DEF EndAdmit
  <2>12. CASE EndRetry(t)
    BY <1>3, <2>12 DEF EndRetry
  <2>13. CASE EvictSkip(t)
    BY <1>3, <2>13 DEF EvictSkip
  <2>14. CASE EvictBegin(t)
    BY <1>3, <2>14 DEF EvictBegin
  <2>15. CASE EvictCommit(t)
    BY <1>3, <2>15 DEF EvictCommit
  <2>16. CASE EndEvict(t)
    BY <1>3, <2>16 DEF EndEvict
  <2>17. CASE BatchInclude(t)
    BY <1>3, <2>17 DEF BatchInclude
  <2>18. CASE BatchExclude(t)
    BY <1>3, <2>18 DEF BatchExclude
  <2>19. CASE EndBatch(t)
    BY <1>3, <2>19 DEF EndBatch
  <2>20. CASE RetireKeep(t)
    BY <1>3, <2>20 DEF RetireKeep
  <2>21. CASE RetireBegin(t)
    BY <1>3, <2>21 DEF RetireBegin
  <2>22. CASE RetireCommit(t)
    BY <1>3, <2>22 DEF RetireCommit
  <2>23. CASE EndSchedule(t)
    BY <1>3, <2>23 DEF EndSchedule
  <2>24. CASE ReportUnknown(t)
    BY <1>3, <2>24 DEF ReportUnknown
  <2>25. CASE ReportToken(t)
    BY <1>3, <2>25 DEF ReportToken
  <2>26. CASE ReportCommit(t)
    BY <1>3, <2>26 DEF ReportCommit
  <2>27. CASE ReportFail(t)
    BY <1>3, <2>27 DEF ReportFail
  <2>28. CASE EndReport(t)
    BY <1>3, <2>28 DEF EndReport
  <2>29. CASE EndRemove(t)
    BY <1>3, <2>29 DEF EndRemove
  <2>30. CASE FreeHeadBlock(t)
    BY <1>3, <2>30 DEF FreeHeadBlock
  <2>31. CASE AllocBlock(t)
    BY <1>3, <2>31 DEF AllocBlock
  <2>32. CASE OwnAllocFails(t)
    BY <1>3, <2>32 DEF OwnAllocFails
  <2>33. CASE DropOwnBlocks(t)
    BY <1>3, <2>33 DEF DropOwnBlocks
  <2>. QED  BY <1>3, <2>1, <2>2, <2>3, <2>4, <2>5, <2>6, <2>7, <2>8, <2>9, <2>10, <2>11,
                 <2>12, <2>13, <2>14, <2>15, <2>16, <2>17, <2>18, <2>19, <2>20, <2>21,
                 <2>22, <2>23, <2>24, <2>25, <2>26, <2>27, <2>28, <2>29, <2>30, <2>31,
                 <2>32, <2>33
            DEF SchedStep, ScheduleStep, ReportStep
<1>. QED  BY <1>1, <1>2, <1>3, EngineUsesScheduler

LEMMA RouteOut == \A e : Route(e) \notin {"out", "schedule", "report", "remove"}
  BY DEF Route

LEMMA LabelsStep ==
  ASSUME SchedInv, EngineTypeOK, LabelsFit, NEW t \in Threads, EngineStep(t)
  PROVE  LabelsFit'
<1>a. /\ pc \in [Threads -> PagedLabels] /\ \A u \in Threads : u # NoThread
  BY ThreadAssumption DEF EngineTypeOK
<1>1. ASSUME NEW u \in Threads, u # t
      PROVE  LabelFits(u)'
  <2>1. pc'[u] = pc[u]
    BY <1>a, <1>1, EngineChanges DEF InScheduler, Goto
  <2>2. lock = u <=> lock' = u
    BY <1>1, <1>a, LockMoves DEF SchedInv
  <2>3. lock = u => phase' = phase
    <3>1. CASE SchedStep(t)
      BY <1>1, <1>a, <3>1, OtherStep
         DEF OwnStep, AllocBlock, OwnAllocFails, DropOwnBlocks, BeginOwnAlloc
    <3>2. CASE OffScheduler
      BY <3>2 DEF OffScheduler
    <3>. QED  BY <3>1, <3>2, EngineUsesScheduler DEF SchedInv
  <2>. QED  BY <2>1, <2>2, <2>3 DEF LabelsFit, LabelFits
<1>2. LabelFits(t)'
  <2>. USE DEF LabelFits
  <2>a. LabelFits(t)
    BY DEF LabelsFit
  <2>1. CASE \E n \in PromptLens, m \in MaxNews : SubmitTokens(t, n, m)
    BY <2>1, <1>a, <2>a DEF SubmitTokens, Submit, Holds, At, Goto, OffScheduler
  <2>2. CASE \E r \in Rids : RemoveRequest(t, r)
    BY <2>2, <1>a, <2>a DEF RemoveRequest, BeginRemove, Holds, At, Goto, OffScheduler
  <2>3. CASE \E tok \in Tokens : DecodeSample(t, tok)
    BY <2>3, <1>a, <2>a DEF DecodeSample, At, Goto, OffScheduler
  <2>4. CASE RemoveReturn(t)
    BY <2>4, <1>a, <2>a DEF RemoveReturn, EndRemove, Holds, At, Goto, OffScheduler
  <2>5. CASE StepBegin(t)
    BY <2>5, <1>a, <2>a DEF StepBegin, BeginSchedule, Holds, At, Goto, OffScheduler
  <2>6. CASE InScheduler(t)
    BY <2>6, <2>a, InSchedulerStays
  <2>7. CASE StepScheduled(t)
    BY <2>7, <1>a, <2>a DEF StepScheduled, EndSchedule, Holds, At, Goto, OffScheduler
  <2>8. CASE PickRequest(t)
    BY <2>8, <1>a, <2>a, RouteOut DEF PickRequest, At, Goto, OffScheduler
  <2>9. CASE PrefillAlloc(t)
    BY <2>9, <1>a, <2>a DEF PrefillAlloc, BeginOwnAlloc, Holds, At, Goto, OffScheduler
  <2>10. CASE PrefillWrite(t)
    BY <2>10, <1>a, <2>a DEF PrefillWrite, At, Goto, OffScheduler
  <2>11. CASE PrefillSample(t)
    BY <2>11, <1>a, <2>a DEF PrefillSample, BeginOwnAlloc, Holds, At, Goto, OffScheduler
  <2>12. CASE PrefillEnd(t)
    BY <2>12, <1>a, <2>a DEF PrefillEnd, DropOwnBlocks, Holds, At, Goto, OffScheduler
  <2>13. CASE DecodeWrite(t)
    BY <2>13, <1>a, <2>a DEF DecodeWrite, At, Goto, OffScheduler
  <2>14. CASE StepReport(t)
    BY <2>14, <1>a, <2>a DEF StepReport, BeginReport, Holds, At, Goto, OffScheduler
  <2>15. CASE StepReported(t)
    BY <2>15, <1>a, <2>a DEF StepReported, EndReport, Holds, At, Goto, OffScheduler
  <2>16. CASE CollectToken(t)
    BY <2>16, <1>a, <2>a DEF CollectToken, At, Goto, OffScheduler
  <2>17. CASE CollectFinished(t)
    BY <2>17, <1>a, <2>a DEF CollectFinished, At, Goto, OffScheduler
  <2>18. CASE StepReturn(t)
    BY <2>18, <1>a, <2>a DEF StepReturn, At, Goto, OffScheduler
  <2>. QED  BY <2>1, <2>2, <2>3, <2>4, <2>5, <2>6, <2>7, <2>8, <2>9, <2>10, <2>11, <2>12,
             <2>13, <2>14, <2>15, <2>16, <2>17, <2>18
            DEF EngineStep, StepProgress
<1>. QED  BY <1>1, <1>2 DEF LabelsFit

-----------------------------------------------------------------------------
(***************************************************************************)
(* What holds of the engine for any number of threads.                     *)
(***************************************************************************)

EngineInv ==
  /\ SchedInv /\ EngineTypeOK
  /\ BlocksAreUsed /\ DecodesUsed /\ LabelsFit

LEMMA EngineInitInv == EngineInit => EngineInv
<1>. SUFFICES ASSUME EngineInit PROVE EngineInv
  OBVIOUS
<1>1. SchedInit
  BY DEF EngineInit
<1>2. SchedTypeOK /\ QueueInv /\ BatchFits
  BY <1>1, InitType, QueueInit, BatchFitsInit
<1>3. LoopAtRequest /\ BlockOwnership
  BY <1>1, EmptyHolds, ThreadAssumption
     DEF SchedInit, LoopAtRequest, Admitting, Holds, BlockOwnership, HeldIsAllocated,
         HeldOnce, InTable, InGot
<1>4. EngineTypeOK
  <2>1. 0 \in Rids
    BY RequestAssumption, SomeRequestAssumption DEF Rids
  <2>2. NoCopy \in [rid : Rids, seq : Nat, table : Seq(Blocks)]
    BY <2>1 DEF NoCopy
  <2>3. kv \in [Blocks -> [Slots -> {Blank} \cup (Rids \X Nat)]]
    BY <1>1 DEF SchedInit, PoolInit, ZeroedBlock
  <2>4. /\ \A S : <<>> \in Seq(S)
        /\ "out" \in PagedLabels
    BY DEF PagedLabels
  <2>. HIDE DEF NoCopy
  <2>5. copy \in [Threads -> [rid : Rids, seq : Nat, table : Seq(Blocks)]]
    BY <2>2 DEF EngineInit
  <2>. QED  BY <2>3, <2>4, <2>5 DEF EngineInit, EngineTypeOK
<1>5. BlocksAreUsed
  BY <1>1, ThreadAssumption DEF SchedInit, BlocksAreUsed, Extending, Holds
<1>6. DecodesUsed /\ LabelsFit
  BY <1>1, ThreadAssumption DEF EngineInit, SchedInit, DecodesUsed, LabelsFit, LabelFits
<1>. QED  BY <1>2, <1>3, <1>4, <1>5, <1>6 DEF EngineInv, SchedInv

LEMMA EngineInvStep ==
  ASSUME EngineInv, NEW t \in Threads, EngineStep(t)
  PROVE  EngineInv'
<1>. USE DEF EngineInv
<1>1. SchedInv' /\ EngineTypeOK' /\ DecodesUsed' /\ LabelsFit'
  BY SchedInvStep, EngineTypeStep, DecodesUsedStep, LabelsStep
<1>2. BlocksAreUsed'
  BY BlocksAreUsedStep, BlocksAreUsedFrame, EngineUsesScheduler DEF SchedInv
<1>. QED  BY <1>1, <1>2

LEMMA EngineInvFrame ==
  ASSUME EngineInv, UNCHANGED pagedVars
  PROVE  EngineInv'
<1>. USE DEF EngineInv
<1>1. OffScheduler
  BY DEF OffScheduler
<1>2. SchedInv' /\ BlocksAreUsed'
  BY <1>1, OffSchedulerFrame, BlocksAreUsedFrame
<1>3. EngineTypeOK' /\ DecodesUsed' /\ LabelsFit'
  BY DEF EngineTypeOK, DecodesUsed, LabelsFit, LabelFits
<1>. QED  BY <1>2, <1>3

LEMMA EngineInduction == EngineSpec => []EngineInv
<1>1. EngineInv /\ [EngineNext]_pagedVars => EngineInv'
  <2>. SUFFICES ASSUME EngineInv, [EngineNext]_pagedVars
                PROVE  EngineInv'
    OBVIOUS
  <2>1. CASE EngineNext
    BY <2>1, EngineNextIsStep, EngineInvStep
  <2>2. CASE UNCHANGED pagedVars
    BY <2>2, EngineInvFrame
  <2>. QED  BY <2>1, <2>2
<1>. QED  BY <1>1, EngineInitInv, PTL DEF EngineSpec

(***************************************************************************)
(* The engine's variables keep their types, whatever its threads do: in    *)
(* particular run_decode never writes before the first position, since     *)
(* only a request that has a token has blocks to decode over.              *)
(***************************************************************************)
THEOREM EngineTypeCorrect == EngineSpec => []EngineTypeOK
<1>1. EngineInv => EngineTypeOK
  BY DEF EngineInv
<1>. QED  BY <1>1, EngineInduction, PTL

(***************************************************************************)
(* Under the engine, too, no two tables share a block, no request is lost  *)
(* between the queues and the batch keeps within its limits.  The engine   *)
(* reports tokens and allocates blocks with no bound of the scheduler's    *)
(* own specification on how many.                                          *)
(***************************************************************************)
THEOREM SchedulerSafeUnderEngine ==
  EngineSpec => [](SchedTypeOK /\ BlockOwnership /\ NoRequestLost /\ BatchWithinLimits)
<1>1. EngineInv => SchedTypeOK /\ BlockOwnership /\ NoRequestLost /\ BatchWithinLimits
  BY QueuesHoldAll DEF EngineInv, SchedInv, BatchFits, BatchWithinLimits
<1>. QED  BY <1>1, EngineInduction, PTL

-----------------------------------------------------------------------------
(***************************************************************************)
(* More that holds for any number of threads: what the locals of the loops *)
(* are worth.                                                              *)
(***************************************************************************)

\* a checkpoint is there only while its request is being evicted: free_request_blocks
\* clears it with the blocks
CkptFits == \A r \in Rids : ckpt[r] # <<>> => phase = "evictFree" /\ r = Head(scan)

GotFits == \A t \in Threads : Len(got[t]) <= want[t]

\* what the last loop of schedule() keeps has not finished
KeptFits ==
  phase \in {"retire", "retireFree"} => \A r \in Rids : Occurs(kept, r) => ~Finished(r)

\* tokens sampled wait to be reported only in the step() that sampled them
SampledFits == \A t \in Threads : pc[t] \in {"out", "schedule", "remove"} => sampled[t] = <<>>

LoopsFit == CkptFits /\ GotFits /\ KeptFits /\ SampledFits

LEMMA CkptStep ==
  ASSUME SchedInv, CkptFits, NEW t \in Threads, SchedStep(t)
  PROVE  CkptFits'
<1>. USE ThreadAssumption DEF CkptFits, Holds, Admitting
<1>a. /\ ckpt \in [Rids -> Seq(Blocks)]
      /\ lock = NoThread <=> phase = "idle"
      /\ scan # <<>> => Head(scan) \in Rids
  BY ScanType DEF SchedInv, SchedTypeOK, QueueInv, LocksFit
<1>1. CASE \E n \in PromptLens, m \in MaxNews : Submit(t, n, m)
  BY <1>1, <1>a DEF Submit
<1>2. CASE BeginSchedule(t)
  BY <1>2, <1>a DEF BeginSchedule
<1>3. CASE \E pairs \in Seq(Report) : BeginReport(t, pairs)
  BY <1>3, <1>a DEF BeginReport
<1>4. CASE \E r \in Rids : BeginRemove(t, r)
  BY <1>4, <1>a DEF BeginRemove
<1>5. CASE \E n \in Nat \ {0} : BeginOwnAlloc(t, n)
  BY <1>5, <1>a DEF BeginOwnAlloc
<1>6. CASE AdmitSkip(t)
  BY <1>6, <1>a DEF AdmitSkip
<1>7. CASE AdmitEmpty(t)
  BY <1>7, <1>a DEF AdmitEmpty
<1>8. CASE AdmitBegin(t)
  BY <1>8, <1>a DEF AdmitBegin
<1>9. CASE AdmitCommit(t)
  BY <1>9, <1>a DEF AdmitCommit
<1>10. CASE AdmitFail(t)
  BY <1>10, <1>a DEF AdmitFail
<1>11. CASE EndAdmit(t)
  BY <1>11, <1>a DEF EndAdmit
<1>12. CASE EndRetry(t)
  BY <1>12, <1>a DEF EndRetry
<1>13. CASE EvictSkip(t)
  BY <1>13, <1>a DEF EvictSkip
<1>14. CASE EvictBegin(t)
  BY <1>14, <1>a DEF EvictBegin
<1>15. CASE EvictCommit(t)
  <2>1. Head(scan) \in Rids
    BY <1>15, <1>a DEF EvictCommit, SchedInv, LoopAtRequest
  <2>. QED  BY <1>15, <1>a, <2>1 DEF EvictCommit
<1>16. CASE EndEvict(t)
  BY <1>16, <1>a DEF EndEvict
<1>17. CASE BatchInclude(t)
  BY <1>17, <1>a DEF BatchInclude
<1>18. CASE BatchExclude(t)
  BY <1>18, <1>a DEF BatchExclude
<1>19. CASE EndBatch(t)
  BY <1>19, <1>a DEF EndBatch
<1>20. CASE RetireKeep(t)
  BY <1>20, <1>a DEF RetireKeep
<1>21. CASE RetireBegin(t)
  BY <1>21, <1>a DEF RetireBegin
<1>22. CASE RetireCommit(t)
  <2>1. Head(scan) \in Rids
    BY <1>22, <1>a DEF RetireCommit, SchedInv, LoopAtRequest
  <2>. QED  BY <1>22, <1>a, <2>1 DEF RetireCommit
<1>23. CASE EndSchedule(t)
  BY <1>23, <1>a DEF EndSchedule
<1>24. CASE ReportUnknown(t)
  BY <1>24, <1>a DEF ReportUnknown
<1>25. CASE ReportToken(t)
  BY <1>25, <1>a DEF ReportToken
<1>26. CASE ReportCommit(t)
  BY <1>26, <1>a DEF ReportCommit
<1>27. CASE ReportFail(t)
  BY <1>27, <1>a DEF ReportFail
<1>28. CASE EndReport(t)
  BY <1>28, <1>a DEF EndReport
<1>29. CASE EndRemove(t)
  <2>1. Head(scan) \in Rids
    BY <1>29, <1>a DEF EndRemove, SchedInv, LoopAtRequest
  <2>. QED  BY <1>29, <1>a, <2>1 DEF EndRemove
<1>30. CASE FreeHeadBlock(t)
  BY <1>30, <1>a DEF FreeHeadBlock
<1>31. CASE AllocBlock(t)
  BY <1>31, <1>a DEF AllocBlock
<1>32. CASE OwnAllocFails(t)
  BY <1>32, <1>a DEF OwnAllocFails
<1>33. CASE DropOwnBlocks(t)
  BY <1>33, <1>a DEF DropOwnBlocks
<1>. QED  BY <1>1, <1>2, <1>3, <1>4, <1>5, <1>6, <1>7, <1>8, <1>9, <1>10, <1>11, <1>12,
             <1>13, <1>14, <1>15, <1>16, <1>17, <1>18, <1>19, <1>20, <1>21, <1>22,
             <1>23, <1>24, <1>25, <1>26, <1>27, <1>28, <1>29, <1>30, <1>31, <1>32, <1>33
          DEF SchedStep, ScheduleStep, ReportStep

LEMMA GotStep ==
  ASSUME SchedInv, GotFits, NEW t \in Threads, SchedStep(t)
  PROVE  GotFits'
<1>a. /\ want \in [Threads -> Nat] /\ got \in [Threads -> Seq(Blocks)]
      /\ \A u \in Threads : Len(got[u]) \in Nat
  BY LenProperties DEF SchedInv, SchedTypeOK
<1>. USE DEF GotFits
<1>b. want' = want /\ got' = got => GotFits'
  OBVIOUS
<1>c. ASSUME EndAlloc(t)
      PROVE  GotFits'
  <2>1. Len(<<>>) = 0
    OBVIOUS
  <2>2. want' = [want EXCEPT ![t] = 0] /\ got' = [got EXCEPT ![t] = <<>>]
    BY <1>c DEF EndAlloc
  <2>. QED  BY <1>a, <2>1, <2>2
<1>1. CASE \E n \in PromptLens, m \in MaxNews : Submit(t, n, m)
  BY <1>1, <1>b DEF Submit, NotAllocating
<1>2. CASE BeginSchedule(t)
  BY <1>2, <1>a DEF BeginSchedule, NotAllocating
<1>3. CASE \E pairs \in Seq(Report) : BeginReport(t, pairs)
  BY <1>3, <1>a DEF BeginReport, NotAllocating
<1>4. CASE \E r \in Rids : BeginRemove(t, r)
  BY <1>4, <1>a DEF BeginRemove, NotAllocating
<1>5. CASE \E n \in Nat \ {0} : BeginOwnAlloc(t, n)
  BY <1>5, <1>a DEF BeginOwnAlloc, NotAllocating
<1>6. CASE AdmitSkip(t)
  BY <1>6, <1>a DEF AdmitSkip, NotAllocating
<1>7. CASE AdmitEmpty(t)
  BY <1>7, <1>a DEF AdmitEmpty, NotAllocating
<1>8. CASE AdmitBegin(t)
  <2>1. NumBlocksOf(Head(scan)) \in Nat
    BY <1>8, ScanType DEF AdmitBegin, SchedInv
  <2>. QED  BY <1>8, <1>a, <2>1 DEF AdmitBegin, NotAllocating
<1>9. CASE AdmitCommit(t)
  BY <1>9, <1>a, <1>c DEF AdmitCommit
<1>10. CASE AdmitFail(t)
  BY <1>10, <1>a, <1>c DEF AdmitFail
<1>11. CASE EndAdmit(t)
  BY <1>11, <1>a DEF EndAdmit, NotAllocating
<1>12. CASE EndRetry(t)
  BY <1>12, <1>a DEF EndRetry, NotAllocating
<1>13. CASE EvictSkip(t)
  BY <1>13, <1>a DEF EvictSkip, NotAllocating
<1>14. CASE EvictBegin(t)
  BY <1>14, <1>a DEF EvictBegin, NotAllocating
<1>15. CASE EvictCommit(t)
  BY <1>15, <1>a DEF EvictCommit, NotAllocating
<1>16. CASE EndEvict(t)
  BY <1>16, <1>a DEF EndEvict, NotAllocating
<1>17. CASE BatchInclude(t)
  BY <1>17, <1>a DEF BatchInclude, NotAllocating
<1>18. CASE BatchExclude(t)
  BY <1>18, <1>a DEF BatchExclude, NotAllocating
<1>19. CASE EndBatch(t)
  BY <1>19, <1>a DEF EndBatch, NotAllocating
<1>20. CASE RetireKeep(t)
  BY <1>20, <1>a DEF RetireKeep, NotAllocating
<1>21. CASE RetireBegin(t)
  BY <1>21, <1>a DEF RetireBegin, NotAllocating
<1>22. CASE RetireCommit(t)
  BY <1>22, <1>a DEF RetireCommit, NotAllocating
<1>23. CASE EndSchedule(t)
  BY <1>23, <1>a DEF EndSchedule, NotAllocating
<1>24. CASE ReportUnknown(t)
  BY <1>24, <1>a DEF ReportUnknown, NotAllocating
<1>25. CASE ReportToken(t)
  <2> DEFINE r == Head(reports)[1]
             n == BlocksFor(SeqLen(r) + 1)
  <2>1. r \in Rids
    BY <1>25, ReportsType DEF ReportToken, SchedInv
  <2>2. SeqLen(r) + 1 \in Nat /\ Len(table[r]) \in Nat
    <3>1. SeqLen(r) \in Nat
      BY <2>1, NumBlocksNat DEF SchedInv
    <3>2. table[r] \in Seq(Blocks)
      BY <2>1 DEF SchedInv, SchedTypeOK
    <3>. QED  BY <3>1, <3>2, LenProperties
  <2>3. n \in Nat
    BY <2>2, BlocksForNat
  <2>4. \/ want' = want
        \/ Len(table[r]) < n /\ want' = [want EXCEPT ![t] = n - Len(table[r])]
    BY <1>25 DEF ReportToken
  <2>5. got' = got /\ want[t] = 0
    BY <1>25 DEF ReportToken, NotAllocating
  <2>. DEFINE k == Len(table[r])
  <2>6. k \in Nat /\ (want' = want \/ (k < n /\ want' = [want EXCEPT ![t] = n - k]))
    BY <2>2, <2>4
  <2>. HIDE DEF n, k, r
  <2>7. CASE want' = want
    BY <1>b, <2>5, <2>7
  <2>8. CASE k < n /\ want' = [want EXCEPT ![t] = n - k]
    <3>1. n - k \in Nat
      BY <2>3, <2>6, <2>8
    <3>2. Len(got[t]) = 0
      BY <1>a, <2>5
    <3>. QED  BY <1>a, <2>5, <2>8, <3>1, <3>2
  <2>. QED  BY <2>6, <2>7, <2>8
<1>26. CASE ReportCommit(t)
  BY <1>26, <1>a, <1>c DEF ReportCommit
<1>27. CASE ReportFail(t)
  BY <1>27, <1>a, <1>c DEF ReportFail
<1>28. CASE EndReport(t)
  BY <1>28, <1>a DEF EndReport, NotAllocating
<1>29. CASE EndRemove(t)
  BY <1>29, <1>a DEF EndRemove, NotAllocating
<1>30. CASE FreeHeadBlock(t)
  BY <1>30, <1>a DEF FreeHeadBlock, NotAllocating
<1>31. CASE AllocBlock(t)
  <2>1. PICK b \in Blocks : got' = [got EXCEPT ![t] = Append(@, b)]
    BY <1>31 DEF AllocBlock
  <2>2. Len(Append(got[t], b)) = Len(got[t]) + 1
    BY <1>a, AppendProperties
  <2>. QED  BY <1>31, <1>a, <2>1, <2>2 DEF AllocBlock
<1>32. CASE OwnAllocFails(t)
  BY <1>32, <1>a DEF OwnAllocFails, NotAllocating
<1>33. CASE DropOwnBlocks(t)
  BY <1>33, <1>a, <1>c DEF DropOwnBlocks
<1>. QED  BY <1>1, <1>2, <1>3, <1>4, <1>5, <1>6, <1>7, <1>8, <1>9, <1>10, <1>11, <1>12,
             <1>13, <1>14, <1>15, <1>16, <1>17, <1>18, <1>19, <1>20, <1>21, <1>22,
             <1>23, <1>24, <1>25, <1>26, <1>27, <1>28, <1>29, <1>30, <1>31, <1>32, <1>33
          DEF SchedStep, ScheduleStep, ReportStep

\* What stands at the head of the rest is not in what came before it.
LEMMA HeadNotBefore ==
  ASSUME NEW S, NEW s \in Seq(S), NEW u \in Seq(S), u # <<>>, NoneTwice(s \o u)
  PROVE  ~Occurs(s, Head(u))
<1>1. /\ Len(s) + 1 \in 1 .. Len(s \o u) /\ (s \o u)[Len(s) + 1] = Head(u)
  BY HeadMoves
<1>2. ASSUME NEW i \in 1 .. Len(s), s[i] = Head(u)
      PROVE  FALSE
  <2>1. (s \o u)[i] = s[i] /\ i \in 1 .. Len(s \o u)
    BY <1>2, ConcatProperties, LenProperties
  <2>2. i # Len(s) + 1
    BY LenProperties
  <2>. QED  BY <1>1, <1>2, <2>1, <2>2 DEF NoneTwice
<1>. QED  BY <1>2 DEF Occurs

LEMMA KeptStep ==
  ASSUME SchedInv, KeptFits, NEW t \in Threads, SchedStep(t)
  PROVE  KeptFits'
<1>. USE ThreadAssumption DEF KeptFits, Finished
<1>a. /\ lock = NoThread <=> phase = "idle"
      /\ phase \notin {"admit", "retry", "retire", "retireFree"} => kept = <<>>
  BY DEF SchedInv, QueueInv, LocksFit
<1>1. CASE \E n \in PromptLens, m \in MaxNews : Submit(t, n, m)
  BY <1>1, <1>a DEF Submit, Holds, Admitting
<1>2. CASE BeginSchedule(t)
  BY <1>2, <1>a DEF BeginSchedule, Holds, Admitting
<1>3. CASE \E pairs \in Seq(Report) : BeginReport(t, pairs)
  BY <1>3, <1>a DEF BeginReport, Holds, Admitting
<1>4. CASE \E r \in Rids : BeginRemove(t, r)
  BY <1>4, <1>a DEF BeginRemove, Holds, Admitting
<1>5. CASE \E n \in Nat \ {0} : BeginOwnAlloc(t, n)
  BY <1>5, <1>a DEF BeginOwnAlloc, Holds, Admitting
<1>6. CASE AdmitSkip(t)
  BY <1>6, <1>a DEF AdmitSkip, Holds, Admitting
<1>7. CASE AdmitEmpty(t)
  BY <1>7, <1>a DEF AdmitEmpty, Holds, Admitting
<1>8. CASE AdmitBegin(t)
  BY <1>8, <1>a DEF AdmitBegin, Holds, Admitting
<1>9. CASE AdmitCommit(t)
  BY <1>9, <1>a DEF AdmitCommit, Holds, Admitting
<1>10. CASE AdmitFail(t)
  BY <1>10, <1>a DEF AdmitFail, Holds, Admitting
<1>11. CASE EndAdmit(t)
  BY <1>11, <1>a DEF EndAdmit, Holds, Admitting
<1>12. CASE EndRetry(t)
  BY <1>12, <1>a DEF EndRetry, Holds, Admitting
<1>13. CASE EvictSkip(t)
  BY <1>13, <1>a DEF EvictSkip, Holds, Admitting
<1>14. CASE EvictBegin(t)
  BY <1>14, <1>a DEF EvictBegin, Holds, Admitting
<1>15. CASE EvictCommit(t)
  BY <1>15, <1>a DEF EvictCommit, Holds, Admitting
<1>16. CASE EndEvict(t)
  BY <1>16, <1>a DEF EndEvict, Holds, Admitting
<1>17. CASE BatchInclude(t)
  BY <1>17, <1>a DEF BatchInclude, Holds, Admitting
<1>18. CASE BatchExclude(t)
  BY <1>18, <1>a DEF BatchExclude, Holds, Admitting
<1>19. CASE EndBatch(t)
  BY <1>19, <1>a, EmptyHolds DEF EndBatch, Holds
<1>20. CASE RetireKeep(t)
  <2>1. scan # <<>> /\ Head(scan) \in known /\ Head(scan) \in Rids /\ phase = "retire"
    BY <1>20, HeadIsQueued, ScanType DEF RetireKeep, Holds, SchedInv, QueueInv, InOneQueue
  <2>2. ~Finished(Head(scan)) /\ kept' = Append(kept, Head(scan))
    BY <1>20, <2>1 DEF RetireKeep
  <2>3. \A r : Occurs(kept', r) <=> Occurs(kept, r) \/ r = Head(scan)
    <3>1. kept \in Seq(Rids)
      BY DEF SchedInv, SchedTypeOK
    <3>. QED  BY <2>1, <2>2, <3>1, AppendHolds
  <2>. QED  BY <1>20, <2>1, <2>2, <2>3 DEF RetireKeep
<1>21. CASE RetireBegin(t)
  <2>1. scan # <<>> /\ Head(scan) \in Rids /\ phase = "retire"
    BY <1>21, ScanType DEF RetireBegin, Holds, SchedInv
  <2>2. NoneTwice(kept \o scan)
    BY <2>1 DEF SchedInv, QueueInv, InOneQueue, RunningNow
  <2>3. kept \in Seq(Rids) /\ scan \in Seq(Rids)
    BY DEF SchedInv, SchedTypeOK
  <2>4. ~Occurs(kept, Head(scan))
    BY <2>1, <2>2, <2>3, HeadNotBefore
  <2>5. /\ \A r \in Rids : r # Head(scan) => state'[r] = state[r]
        /\ kept' = kept /\ genLen' = genLen /\ maxNew' = maxNew
    BY <1>21, <2>1 DEF RetireBegin, SchedInv, SchedTypeOK
  <2>. QED  BY <2>1, <2>4, <2>5
<1>22. CASE RetireCommit(t)
  BY <1>22, <1>a DEF RetireCommit, Holds, Admitting
<1>23. CASE EndSchedule(t)
  BY <1>23, <1>a DEF EndSchedule, Holds, Admitting
<1>24. CASE ReportUnknown(t)
  BY <1>24, <1>a DEF ReportUnknown, Holds, Admitting
<1>25. CASE ReportToken(t)
  BY <1>25, <1>a DEF ReportToken, Holds, Admitting
<1>26. CASE ReportCommit(t)
  BY <1>26, <1>a DEF ReportCommit, Holds, Admitting
<1>27. CASE ReportFail(t)
  BY <1>27, <1>a DEF ReportFail, Holds, Admitting
<1>28. CASE EndReport(t)
  BY <1>28, <1>a DEF EndReport, Holds, Admitting
<1>29. CASE EndRemove(t)
  BY <1>29, <1>a DEF EndRemove, Holds, Admitting
<1>30. CASE FreeHeadBlock(t)
  BY <1>30, <1>a DEF FreeHeadBlock, Holds, Admitting
<1>31. CASE AllocBlock(t)
  BY <1>31, <1>a DEF AllocBlock, Holds, Admitting
<1>32. CASE OwnAllocFails(t)
  BY <1>32, <1>a DEF OwnAllocFails, Holds, Admitting
<1>33. CASE DropOwnBlocks(t)
  BY <1>33, <1>a DEF DropOwnBlocks, Holds, Admitting
<1>. QED  BY <1>1, <1>2, <1>3, <1>4, <1>5, <1>6, <1>7, <1>8, <1>9, <1>10, <1>11, <1>12,
             <1>13, <1>14, <1>15, <1>16, <1>17, <1>18, <1>19, <1>20, <1>21, <1>22,
             <1>23, <1>24, <1>25, <1>26, <1>27, <1>28, <1>29, <1>30, <1>31, <1>32, <1>33
          DEF SchedStep, ScheduleStep, ReportStep

LEMMA SampledStep ==
  ASSUME SchedInv, EngineTypeOK, SampledFits, NEW t \in Threads, EngineStep(t)
  PROVE  SampledFits'
<1>a. pc \in [Threads -> PagedLabels] /\ sampled \in [Threads -> Seq(Report)]
  BY DEF EngineTypeOK
<1>. USE DEF SampledFits
<1>1. CASE \E n \in PromptLens, m \in MaxNews : SubmitTokens(t, n, m)
  BY <1>1, <1>a DEF SubmitTokens, At, Goto
<1>2. CASE \E r \in Rids : RemoveRequest(t, r)
  BY <1>2, <1>a DEF RemoveRequest, At, Goto
<1>3. CASE \E tok \in Tokens : DecodeSample(t, tok)
  BY <1>3, <1>a DEF DecodeSample, At, Goto
<1>4. CASE RemoveReturn(t)
  BY <1>4, <1>a DEF RemoveReturn, At, Goto
<1>5. CASE StepBegin(t)
  BY <1>5, <1>a DEF StepBegin, At, Goto
<1>6. CASE InScheduler(t)
  BY <1>6, <1>a DEF InScheduler
<1>7. CASE StepScheduled(t)
  BY <1>7, <1>a DEF StepScheduled, At, Goto
<1>8. CASE PickRequest(t)
  BY <1>8, <1>a, RouteOut DEF PickRequest, At, Goto
<1>9. CASE PrefillAlloc(t)
  BY <1>9, <1>a DEF PrefillAlloc, At, Goto
<1>10. CASE PrefillWrite(t)
  BY <1>10, <1>a DEF PrefillWrite, At, Goto
<1>11. CASE PrefillSample(t)
  BY <1>11, <1>a DEF PrefillSample, At, Goto
<1>12. CASE PrefillEnd(t)
  BY <1>12, <1>a DEF PrefillEnd, At, Goto
<1>13. CASE DecodeWrite(t)
  BY <1>13, <1>a DEF DecodeWrite, At, Goto
<1>14. CASE StepReport(t)
  BY <1>14, <1>a DEF StepReport, At, Goto
<1>15. CASE StepReported(t)
  BY <1>15, <1>a DEF StepReported, At, Goto
<1>16. CASE CollectToken(t)
  BY <1>16, <1>a DEF CollectToken, At, Goto
<1>17. CASE CollectFinished(t)
  BY <1>17, <1>a DEF CollectFinished, At, Goto
<1>18. CASE StepReturn(t)
  BY <1>18, <1>a DEF StepReturn, At, Goto
<1>. QED  BY <1>1, <1>2, <1>3, <1>4, <1>5, <1>6, <1>7, <1>8, <1>9, <1>10, <1>11, <1>12,
             <1>13, <1>14, <1>15, <1>16, <1>17, <1>18
          DEF EngineStep, StepProgress

\* For the steps that belong to the scheduler, and those that leave it alone.
LEMMA LoopsFrame ==
  ASSUME LoopsFit, OffScheduler, SampledFits'
  PROVE  LoopsFit'
  BY DEF LoopsFit, CkptFits, GotFits, KeptFits, OffScheduler, Finished

LEMMA LoopsStep ==
  ASSUME EngineInv, LoopsFit, NEW t \in Threads, EngineStep(t)
  PROVE  LoopsFit'
<1>1. SampledFits'
  BY SampledStep DEF EngineInv, LoopsFit
<1>2. CASE SchedStep(t)
  BY <1>1, <1>2, CkptStep, GotStep, KeptStep DEF EngineInv, LoopsFit
<1>3. CASE OffScheduler
  BY <1>1, <1>3, LoopsFrame
<1>. QED  BY <1>2, <1>3, EngineUsesScheduler DEF EngineInv, SchedInv

LEMMA LoopsInit == EngineInit => LoopsFit
<1>. SUFFICES ASSUME EngineInit PROVE LoopsFit
  OBVIOUS
<1>1. Len(<<>>) = 0
  OBVIOUS
<1>2. CkptFits /\ GotFits
  BY <1>1 DEF EngineInit, SchedInit, CkptFits, GotFits
<1>3. KeptFits /\ SampledFits
  BY DEF EngineInit, SchedInit, KeptFits, SampledFits
<1>. QED  BY <1>2, <1>3 DEF LoopsFit

-----------------------------------------------------------------------------
(***************************************************************************)
(* One thread.  Several threads inside step() at once do break what        *)
(* follows: each works on a copy of a request that another may preempt or  *)
(* retire meanwhile.  A program that runs one thread, as the runners do,   *)
(* is safe.                                                                *)
(***************************************************************************)

OneThread == \A t, u \in Threads : t = u

\* the requests that are left to execute, and those that a token was sampled for
JobRids(entries)  == [i \in 1 .. Len(entries) |-> entries[i].rid]
ReportRids(pairs) == [i \in 1 .. Len(pairs) |-> pairs[i][1]]

LEMMA EmptyRids == JobRids(<<>>) = <<>> /\ ReportRids(<<>>) = <<>>
  BY DEF JobRids, ReportRids

LEMMA JobRidsTail ==
  ASSUME NEW s \in Seq(BatchEntry), s # <<>>
  PROVE  /\ JobRids(s) \in Seq(Rids) /\ JobRids(s) # <<>>
         /\ Head(JobRids(s)) = Head(s).rid /\ JobRids(Tail(s)) = Tail(JobRids(s))
<1>1. Len(s) \in Nat /\ Len(s) > 0
  BY LenProperties, EmptySeq
<1>2. \A i \in 1 .. Len(s) : s[i].rid \in Rids
  <2>1. \A i \in 1 .. Len(s) : s[i] \in BatchEntry
    BY ElementOfSeq
  <2>. QED  BY <2>1 DEF BatchEntry
<1>3. JobRids(s) \in Seq(Rids) /\ Len(JobRids(s)) = Len(s)
  BY <1>1, <1>2 DEF JobRids
<1>4. Len(Tail(s)) = Len(s) - 1 /\ \A i \in 1 .. Len(s) - 1 : Tail(s)[i] = s[i + 1]
  BY HeadTailProperties
<1>5. Tail(JobRids(s)) = [i \in 1 .. Len(s) - 1 |-> s[i + 1].rid]
  BY <1>1, <1>3 DEF JobRids
<1>6. JobRids(Tail(s)) = [i \in 1 .. Len(s) - 1 |-> s[i + 1].rid]
  BY <1>4 DEF JobRids
<1>7. Head(JobRids(s)) = Head(s).rid
  BY <1>1, <1>3 DEF JobRids
<1>8. JobRids(s) # <<>>
  BY <1>1, <1>3, EmptySeq
<1>. QED  BY <1>3, <1>5, <1>6, <1>7, <1>8

LEMMA ReportRidsType ==
  ASSUME NEW s \in Seq(Report)
  PROVE  ReportRids(s) \in Seq(Rids) /\ Len(ReportRids(s)) = Len(s)
<1>1. Len(s) \in Nat
  BY LenProperties
<1>2. \A i \in 1 .. Len(s) : s[i][1] \in Rids
  BY ElementOfSeq DEF Report
<1>. QED  BY <1>1, <1>2 DEF ReportRids

LEMMA ReportRidsTail ==
  ASSUME NEW s \in Seq(Report), s # <<>>
  PROVE  /\ ReportRids(s) # <<>>
         /\ Head(ReportRids(s)) = Head(s)[1] /\ ReportRids(Tail(s)) = Tail(ReportRids(s))
<1>1. Len(s) \in Nat /\ Len(s) > 0
  BY LenProperties, EmptySeq
<1>3. ReportRids(s) \in Seq(Rids) /\ Len(ReportRids(s)) = Len(s)
  BY ReportRidsType
<1>4. Len(Tail(s)) = Len(s) - 1 /\ \A i \in 1 .. Len(s) - 1 : Tail(s)[i] = s[i + 1]
  BY HeadTailProperties
<1>5. Tail(ReportRids(s)) = [i \in 1 .. Len(s) - 1 |-> s[i + 1][1]]
  BY <1>1, <1>3 DEF ReportRids
<1>6. ReportRids(Tail(s)) = [i \in 1 .. Len(s) - 1 |-> s[i + 1][1]]
  BY <1>4 DEF ReportRids
<1>7. Head(ReportRids(s)) = Head(s)[1]
  BY <1>1, <1>3 DEF ReportRids
<1>8. ReportRids(s) # <<>>
  BY <1>1, <1>3, EmptySeq
<1>. QED  BY <1>5, <1>6, <1>7, <1>8

LEMMA ReportRidsAppend ==
  ASSUME NEW s \in Seq(Report), NEW e \in Report
  PROVE  ReportRids(Append(s, e)) = Append(ReportRids(s), e[1])
<1>1. Len(s) \in Nat
  BY LenProperties
<1>2. ReportRids(s) \in Seq(Rids) /\ Len(ReportRids(s)) = Len(s)
  BY ReportRidsType
<1>3. /\ Len(Append(s, e)) = Len(s) + 1
      /\ \A i \in 1 .. Len(s) : Append(s, e)[i] = s[i]
      /\ Append(s, e)[Len(s) + 1] = e
  BY AppendProperties
<1>4. Append(ReportRids(s), e[1])
        = [i \in 1 .. Len(s) + 1 |-> IF i = Len(s) + 1 THEN e[1] ELSE s[i][1]]
  BY <1>1, <1>2 DEF ReportRids
<1>5. ReportRids(Append(s, e))
        = [i \in 1 .. Len(s) + 1 |-> IF i = Len(s) + 1 THEN e[1] ELSE s[i][1]]
  BY <1>1, <1>3 DEF ReportRids
<1>. QED  BY <1>4, <1>5

-----------------------------------------------------------------------------

\* the labels inside the loop over the batch
Executing(t) == pc[t] \in {"loop", "prefillAlloc", "prefill", "prefillEnd", "decode", "attend"}
Decoding(t)  == pc[t] \in {"decode", "attend"}

\* who has blocks runs, or finished where it ran
TablesFit ==
  \A r \in Rids : table[r] # <<>> =>
    state[r] \in {"RUNNING", "FINISHED"} /\ Occurs(RunningNow, r)

\* what is reported: one token each, for requests that have blocks and tokens left
ReportsFit ==
  \A t \in Threads : Holds(t, "report") =>
    /\ NoneTwice(ReportRids(reports))
    /\ \A r \in Rids : Occurs(ReportRids(reports), r) =>
         /\ table[r] # <<>>
         /\ Finished(r) => want[t] > 0 /\ r = Head(reports)[1]

\* the same of what is being sampled, and of what is still to be executed
JobFits ==
  \A t \in Threads : Executing(t) =>
    /\ \A r \in Rids : table[r] # <<>> => ~Finished(r)
    /\ NoneTwice(JobRids(job[t])) /\ NoneTwice(ReportRids(sampled[t]))
    /\ \A r \in Rids : Occurs(ReportRids(sampled[t]), r) =>
         table[r] # <<>> /\ ~Occurs(JobRids(job[t]), r)
    /\ Decoding(t) => /\ ~Occurs(ReportRids(sampled[t]), copy[t].rid)
                      /\ ~Occurs(JobRids(job[t]), copy[t].rid)

\* while the batch is executed a copy is what it was copied from
CopyFits ==
  \A t \in Threads : pc[t] \in {"prefillAlloc", "prefill", "decode", "attend"} =>
    /\ copy[t].table = table[copy[t].rid] /\ copy[t].seq = SeqLen(copy[t].rid)
    /\ pc[t] = "prefillAlloc" => copy[t].table = <<>>
    /\ Decoding(t) => copy[t].table # <<>>

\* Without the mutex a thread can only allocate for itself.
LEMMA OutsideSteps ==
  ASSUME NEW t \in Threads, InScheduler(t), lock # t
  PROVE  AllocBlock(t) \/ OwnAllocFails(t)
<1>1. ~ScheduleStep(t)
  BY DEF Admitting, Holds, ScheduleStep, AdmitSkip, AdmitEmpty, AdmitBegin,
     AdmitCommit, AdmitFail,
     EndAdmit, EndRetry, EvictSkip, EvictBegin, EvictCommit, EndEvict, BatchInclude,
     BatchExclude, EndBatch, RetireKeep, RetireBegin, RetireCommit
<1>2. ~ReportStep(t) /\ ~FreeHeadBlock(t)
  BY DEF Holds, ReportStep, ReportUnknown, ReportToken, ReportCommit, ReportFail,
     FreeHeadBlock
<1>. QED  BY <1>1, <1>2 DEF InScheduler

\* What a thread does while it executes its batch leaves the requests alone.
LEMMA ExecutingLeaves ==
  ASSUME EngineInv, NEW t \in Threads, EngineStep(t), Executing(t)
  PROVE  /\ UNCHANGED <<nextId, known, promptLen, maxNew, genLen, state, table, waiting,
                        running, scan, kept>>
         /\ StepReport(t) \/ UNCHANGED <<lock, phase>>
<1>. USE DEF At, Goto
<1>a. lock # t
  BY DEF EngineInv, LabelsFit, LabelFits, Executing
<1>1. CASE \E n \in PromptLens, m \in MaxNews : SubmitTokens(t, n, m)
  BY <1>1 DEF SubmitTokens, Executing
<1>2. CASE \E r \in Rids : RemoveRequest(t, r)
  BY <1>2 DEF RemoveRequest, Executing
<1>3. CASE \E tok \in Tokens : DecodeSample(t, tok)
  BY <1>3 DEF DecodeSample
<1>4. CASE RemoveReturn(t)
  BY <1>4 DEF RemoveReturn, Executing
<1>5. CASE StepBegin(t)
  BY <1>5 DEF StepBegin, Executing
<1>6. CASE InScheduler(t)
  BY <1>6, <1>a, OutsideSteps DEF AllocBlock, OwnAllocFails
<1>7. CASE StepScheduled(t)
  BY <1>7 DEF StepScheduled, Executing
<1>8. CASE PickRequest(t)
  BY <1>8 DEF PickRequest
<1>9. CASE PrefillAlloc(t)
  BY <1>9 DEF PrefillAlloc, BeginOwnAlloc
<1>10. CASE PrefillWrite(t)
  BY <1>10 DEF PrefillWrite
<1>11. CASE PrefillSample(t)
  BY <1>11 DEF PrefillSample, BeginOwnAlloc
<1>12. CASE PrefillEnd(t)
  BY <1>12 DEF PrefillEnd, DropOwnBlocks
<1>13. CASE DecodeWrite(t)
  BY <1>13 DEF DecodeWrite
<1>14. CASE StepReport(t)
  BY <1>14 DEF StepReport, BeginReport
<1>15. CASE StepReported(t)
  BY <1>15 DEF StepReported, Executing
<1>16. CASE CollectToken(t)
  BY <1>16 DEF CollectToken, Executing
<1>17. CASE CollectFinished(t)
  BY <1>17 DEF CollectFinished, Executing
<1>18. CASE StepReturn(t)
  BY <1>18 DEF StepReturn, Executing
<1>. QED  BY <1>1, <1>2, <1>3, <1>4, <1>5, <1>6, <1>7, <1>8, <1>9, <1>10, <1>11, <1>12,
             <1>13, <1>14, <1>15, <1>16, <1>17, <1>18
          DEF EngineStep, StepProgress

LEMMA HeadOccurs ==
  ASSUME NEW S, NEW s \in Seq(S), s # <<>>
  PROVE  Head(s) \in S /\ Occurs(s, Head(s))
<1>1. Len(s) \in Nat /\ Len(s) > 0
  BY LenProperties, EmptySeq
<1>2. Head(s) = s[1] /\ 1 \in 1 .. Len(s)
  BY <1>1
<1>. QED  BY <1>2, ElementOfSeq DEF Occurs

\* Passing the head of the rest leaves the others.
LEMMA OthersLeft ==
  ASSUME NEW S, NEW s \in Seq(S), NEW u \in Seq(S), u # <<>>, NoneTwice(s \o u),
         NEW c, c # Head(u), Occurs(s \o u, c)
  PROVE  Occurs(s \o Tail(u), c)
<1>1. /\ s \o Tail(u) = RemoveAt(s \o u, Len(s) + 1)
      /\ Len(s) + 1 \in 1 .. Len(s \o u) /\ (s \o u)[Len(s) + 1] = Head(u)
  BY HeadMoves
<1>2. s \o u \in Seq(S)
  BY ConcatProperties
<1> DEFINE w == s \o u
           i == Len(s) + 1
<1>3. w \in Seq(S) /\ i \in 1 .. Len(w) /\ NoneTwice(w) /\ Occurs(w, c) /\ c # w[i]
  BY <1>1, <1>2
<1>. HIDE DEF w, i
<1>4. Occurs(RemoveAt(w, i), c)
  BY <1>3, RemoveAtHolds
<1>. QED  BY <1>1, <1>4 DEF w, i

\* Tables only grow where a loop puts into them what it allocated.
LEMMA TableGrows ==
  ASSUME SchedInv, NEW t \in Threads, SchedStep(t), NEW r \in Rids, table'[r] # <<>>
  PROVE  \/ table[r] # <<>>
         \/ AdmitCommit(t) /\ r = Head(scan)
         \/ ReportCommit(t) /\ r = Head(reports)[1]
<1>a. table \in [Rids -> Seq(Blocks)]
  BY DEF SchedInv, SchedTypeOK
<1>1. CASE AdmitCommit(t)
  BY <1>a, <1>1 DEF AdmitCommit
<1>2. CASE ReportCommit(t)
  BY <1>a, <1>2 DEF ReportCommit
<1>3. CASE FreeHeadBlock(t)
  BY <1>a, <1>3 DEF FreeHeadBlock
<1>4. CASE table' = table
  BY <1>4
<1>. QED  BY <1>1, <1>2, <1>3, <1>4, StepChanges

LEMMA TablesStep ==
  ASSUME SchedInv, TablesFit, ReportsFit, NEW t \in Threads, SchedStep(t)
  PROVE  TablesFit'
<1>. SUFFICES ASSUME NEW r \in Rids, table'[r] # <<>>
              PROVE  /\ state'[r] \in {"RUNNING", "FINISHED"}
                     /\ Occurs(RunningNow', r)
  BY DEF TablesFit
<1>. USE DEF SchedInv
<1>a. \/ /\ state[r] \in {"RUNNING", "FINISHED"} /\ Occurs(RunningNow, r)
      \/ AdmitCommit(t) /\ r = Head(scan)
  <2>1. CASE table[r] # <<>>
    BY <2>1 DEF TablesFit
  <2>2. CASE ReportCommit(t) /\ r = Head(reports)[1]
    <3>1. Holds(t, "report") /\ reports # <<>>
      BY <2>2 DEF ReportCommit, AllocDone, Holds, LoopAtRequest
    <3>2. reports \in Seq(Report)
      BY DEF SchedTypeOK
    <3>3. Occurs(ReportRids(reports), r)
      BY <2>2, <3>1, <3>2, ReportRidsTail, ReportRidsType, HeadOccurs
    <3>. QED  BY <3>1, <3>3 DEF ReportsFit, TablesFit
  <2>. QED  BY <2>1, <2>2, TableGrows
<1>b. /\ kept \in Seq(Rids) /\ scan \in Seq(Rids) /\ running \in Seq(Rids)
      /\ RunningNow \in Seq(Rids) /\ NoneTwice(RunningNow)
      /\ state \in [Rids -> RequestStates]
  BY NowType DEF SchedTypeOK, QueueInv, InOneQueue
<1>1. CASE ~MovingStep(t)
  <2>1. RunningNow' = RunningNow
    BY <1>1, StillStep DEF QueueInv
  <2>2. state'[r] \in {state[r], "FINISHED"}
    BY <1>1, StillStates
  <2>3. ~AdmitCommit(t)
    BY <1>1 DEF MovingStep
  <2>. QED  BY <1>a, <2>1, <2>2, <2>3
<1>2. CASE \E n \in PromptLens, m \in MaxNews : Submit(t, n, m)
  <2>1. RunningNow' = RunningNow /\ state' = state
    BY <1>2, SubmitMoves DEF QueueInv
  <2>2. table[r] # <<>>
    BY <1>2 DEF Submit
  <2>. QED  BY <2>1, <2>2 DEF TablesFit
<1>3. CASE AdmitEmpty(t) \/ AdmitCommit(t)
  <2>1. /\ RunningNow' = Append(RunningNow, Head(scan)) /\ Head(scan) \in Rids
        /\ r # Head(scan) => state'[r] = state[r]
    BY <1>3, AdmitMoves
  <2>2. \A c : Occurs(RunningNow', c) <=> Occurs(RunningNow, c) \/ c = Head(scan)
    BY <1>b, <2>1, AppendHolds
  <2>3. CASE AdmitCommit(t)
    <3>1. state'[Head(scan)] = "RUNNING"
      BY <1>b, <2>1, <2>3 DEF AdmitCommit
    <3>. QED  BY <1>a, <2>1, <2>2, <3>1
  <2>4. CASE AdmitEmpty(t)
    <3>1. state' = state /\ table' = table
      BY <2>4 DEF AdmitEmpty
    <3>. QED  BY <2>2, <3>1 DEF TablesFit
  <2>. QED  BY <1>3, <2>3, <2>4
<1>4. CASE EvictCommit(t) \/ EndRemove(t)
  <2>1. /\ RunningNow' = Without(running, Head(scan)) /\ RunningNow = running
        /\ Head(scan) \in Rids
        /\ \A q \in Rids : q # Head(scan) => state'[q] = state[q]
    BY <1>4, <1>b, EvictMoves, RemoveMoves
  <2>2. table' = table /\ table[Head(scan)] = <<>>
    BY <1>4 DEF EvictCommit, EndRemove
  <2>3. r # Head(scan) /\ state'[r] = state[r]
    BY <2>1, <2>2
  <2>4. Occurs(RunningNow', r) <=> Occurs(running, r)
    BY <1>b, <2>1, <2>3, WithoutHolds
  <2>. QED  BY <2>1, <2>2, <2>3, <2>4 DEF TablesFit
<1>5. CASE RetireCommit(t)
  <2>1. /\ RunningNow = kept \o scan /\ RunningNow' = kept \o Tail(scan)
        /\ scan # <<>> /\ state' = state
    BY <1>5, RetireMoves
  <2>2. table' = table /\ table[Head(scan)] = <<>>
    BY <1>5 DEF RetireCommit
  <2>3. r # Head(scan) /\ Occurs(kept \o scan, r)
    BY <2>1, <2>2 DEF TablesFit
  <2>4. Occurs(kept \o Tail(scan), r)
    BY <1>b, <2>1, <2>3, OthersLeft
  <2>. QED  BY <2>1, <2>2, <2>4 DEF TablesFit
<1>. QED  BY <1>1, <1>2, <1>3, <1>4, <1>5 DEF MovingStep

\* The loop of report_output takes the first report, and gives its request its token.
LEMMA ReportsKept ==
  ASSUME SchedInv, NEW t \in Threads, SchedStep(t), NEW u \in Threads,
         Holds(u, "report")'
  PROVE  \/ \E pairs \in Seq(Report) : BeginReport(t, pairs)
         \/ /\ Holds(u, "report") /\ t # u
            /\ UNCHANGED <<reports, state, genLen, maxNew>> /\ want'[u] = want[u]
            /\ table' = table
         \/ /\ Holds(u, "report") /\ t = u
            /\ ReportStep(t) \/ UNCHANGED <<reports, state, genLen, maxNew, want, table>>
<1>. USE ThreadAssumption DEF Holds
<1>a. lock' = u /\ phase' = "report" /\ u # NoThread
      /\ want \in [Threads -> Nat]
  BY DEF SchedInv, SchedTypeOK
<1>1. CASE OwnStep(t)
  <2>1. UNCHANGED <<lock, phase, reports, state, genLen, maxNew, table>>
    BY <1>1 DEF OwnStep, AllocBlock, OwnAllocFails, DropOwnBlocks, BeginOwnAlloc
  <2>2. t # u => want'[u] = want[u]
    BY <1>1, <1>a DEF OwnStep, AllocBlock, OwnAllocFails, DropOwnBlocks, BeginOwnAlloc, EndAlloc
  <2>3. t = u => want' = want
    BY <1>1, <1>a, <2>1 DEF OwnStep, AllocBlock, OwnAllocFails, DropOwnBlocks, BeginOwnAlloc
  <2>. QED  BY <1>a, <2>1, <2>2, <2>3
<1>2. CASE \E n \in PromptLens, m \in MaxNews : Submit(t, n, m)
  BY <1>2, <1>a DEF Submit, Admitting
<1>3. CASE BeginSchedule(t)
  BY <1>3, <1>a DEF BeginSchedule, Admitting
<1>4. CASE \E pairs \in Seq(Report) : BeginReport(t, pairs)
  BY <1>4, <1>a DEF BeginReport, Admitting
<1>5. CASE \E r \in Rids : BeginRemove(t, r)
  BY <1>5, <1>a DEF BeginRemove, Admitting
<1>6. CASE AdmitSkip(t)
  BY <1>6, <1>a DEF AdmitSkip, Admitting
<1>7. CASE AdmitEmpty(t)
  BY <1>7, <1>a DEF AdmitEmpty, Admitting
<1>8. CASE AdmitBegin(t)
  BY <1>8, <1>a DEF AdmitBegin, Admitting
<1>9. CASE AdmitCommit(t)
  BY <1>9, <1>a DEF AdmitCommit, Admitting
<1>10. CASE AdmitFail(t)
  BY <1>10, <1>a DEF AdmitFail, Admitting
<1>11. CASE EndAdmit(t)
  BY <1>11, <1>a DEF EndAdmit, Admitting
<1>12. CASE EndRetry(t)
  BY <1>12, <1>a DEF EndRetry, Admitting
<1>13. CASE EvictSkip(t)
  BY <1>13, <1>a DEF EvictSkip, Admitting
<1>14. CASE EvictBegin(t)
  BY <1>14, <1>a DEF EvictBegin, Admitting
<1>15. CASE EvictCommit(t)
  BY <1>15, <1>a DEF EvictCommit, Admitting
<1>16. CASE EndEvict(t)
  BY <1>16, <1>a DEF EndEvict, Admitting
<1>17. CASE BatchInclude(t)
  BY <1>17, <1>a DEF BatchInclude, Admitting
<1>18. CASE BatchExclude(t)
  BY <1>18, <1>a DEF BatchExclude, Admitting
<1>19. CASE EndBatch(t)
  BY <1>19, <1>a DEF EndBatch, Admitting
<1>20. CASE RetireKeep(t)
  BY <1>20, <1>a DEF RetireKeep, Admitting
<1>21. CASE RetireBegin(t)
  BY <1>21, <1>a DEF RetireBegin, Admitting
<1>22. CASE RetireCommit(t)
  BY <1>22, <1>a DEF RetireCommit, Admitting
<1>23. CASE EndSchedule(t)
  BY <1>23, <1>a DEF EndSchedule, Admitting
<1>24. CASE ReportUnknown(t)
  BY <1>24, <1>a DEF ReportUnknown, Admitting, ReportStep
<1>25. CASE ReportToken(t)
  BY <1>25, <1>a DEF ReportToken, Admitting, ReportStep
<1>26. CASE ReportCommit(t)
  BY <1>26, <1>a DEF ReportCommit, Admitting, ReportStep
<1>27. CASE ReportFail(t)
  BY <1>27, <1>a DEF ReportFail, Admitting, ReportStep
<1>28. CASE EndReport(t)
  BY <1>28, <1>a DEF EndReport, Admitting
<1>29. CASE EndRemove(t)
  BY <1>29, <1>a DEF EndRemove, Admitting
<1>30. CASE FreeHeadBlock(t)
  BY <1>30, <1>a DEF FreeHeadBlock, Admitting
<1>. QED  BY <1>1, <1>2, <1>3, <1>4, <1>5, <1>6, <1>7, <1>8, <1>9, <1>10, <1>11, <1>12, <1>13,
             <1>14, <1>15, <1>16, <1>17, <1>18, <1>19, <1>20, <1>21, <1>22, <1>23,
             <1>24, <1>25, <1>26, <1>27, <1>28, <1>29, <1>30
          DEF SchedStep, ScheduleStep, ReportStep, OwnStep

LEMMA ReportsStep ==
  ASSUME SchedInv, ReportsFit, NEW t \in Threads, SchedStep(t),
         ~ \E pairs \in Seq(Report) : BeginReport(t, pairs)
  PROVE  ReportsFit'
<1>. SUFFICES ASSUME NEW u \in Threads, Holds(u, "report")'
              PROVE  /\ NoneTwice(ReportRids(reports'))
                     /\ \A r \in Rids : Occurs(ReportRids(reports'), r) =>
                          /\ table'[r] # <<>>
                          /\ Finished(r)' => want'[u] > 0 /\ r = Head(reports')[1]
  BY DEF ReportsFit
<1>. USE DEF SchedInv
<1>a. /\ Holds(u, "report")
      /\ \/ t # u /\ UNCHANGED <<reports, state, genLen, maxNew, table>> /\ want'[u] = want[u]
         \/ t = u /\ (ReportStep(t) \/ UNCHANGED <<reports, state, genLen, maxNew, want, table>>)
  BY ReportsKept
<1>b. /\ NoneTwice(ReportRids(reports))
      /\ \A r \in Rids : Occurs(ReportRids(reports), r) =>
           table[r] # <<>> /\ (Finished(r) => want[u] > 0 /\ r = Head(reports)[1])
  BY <1>a DEF ReportsFit
<1>c. /\ reports \in Seq(Report) /\ ReportRids(reports) \in Seq(Rids)
      /\ genLen \in [Rids -> Nat] /\ maxNew \in [Rids -> Nat]
      /\ table \in [Rids -> Seq(Blocks)] /\ got[u] \in Seq(Blocks)
  BY ReportRidsType DEF SchedTypeOK
<1>1. CASE UNCHANGED <<reports, state, genLen, maxNew, table>> /\ want'[u] = want[u]
  BY <1>1, <1>b DEF Finished
<1>2. CASE t = u /\ ReportStep(t)
  <2> DEFINE h == Head(reports)[1]
             s == ReportRids(reports)
  <2>1. reports # <<>>
    BY <1>2, <1>c DEF ReportStep, ReportUnknown, ReportToken, ReportCommit, ReportFail,
       AllocDone, AllocFails, LoopAtRequest, Holds, SchedTypeOK
  <2>2. h \in Rids /\ s # <<>> /\ Head(s) = h /\ ReportRids(Tail(reports)) = Tail(s)
    BY <1>c, <2>1, ReportsType, ReportRidsTail
  <2>3. NoneTwice(Tail(s)) /\ \A r : Occurs(Tail(s), r) <=> Occurs(s, r) /\ r # h
    BY <1>b, <1>c, <2>2, TailHolds
  <2>. HIDE DEF h
  <2>4. maxNew' = maxNew
    BY <1>2 DEF ReportStep, ReportUnknown, ReportToken, ReportCommit, ReportFail
  <2>5. ASSUME NEW r \in Rids, r # h
        PROVE  table'[r] = table[r] /\ (Finished(r) <=> Finished(r)')
    <3>1. table'[r] = table[r] /\ genLen'[r] = genLen[r] /\ state'[r] = state[r]
      BY <1>2, <2>2, <2>5
         DEF ReportStep, ReportUnknown, ReportToken, ReportCommit, ReportFail, SchedTypeOK, h
    <3>. QED  BY <2>4, <3>1 DEF Finished
  <2>6. ASSUME NEW r \in Rids, r # h, Occurs(s, r)
        PROVE  table'[r] # <<>> /\ ~Finished(r)'
    BY <1>b, <2>5, <2>6 DEF h
  <2>7. CASE reports' = Tail(reports)
    BY <2>2, <2>3, <2>6, <2>7
  <2>8. CASE reports' # Tail(reports)
    <3>1. /\ ReportToken(t) /\ reports' = reports /\ table' = table
          /\ Len(table[h]) < BlocksFor(SeqLen(h) + 1)
          /\ want' = [want EXCEPT ![t] = BlocksFor(SeqLen(h) + 1) - Len(table[h])]
      BY <1>2, <2>8 DEF ReportStep, ReportUnknown, ReportToken, ReportCommit, ReportFail, h
    <3>2. want'[u] > 0
      <4>1. SeqLen(h) \in Nat
        BY <2>2, NumBlocksNat
      <4>2. BlocksFor(SeqLen(h) + 1) \in Nat
        BY <4>1, BlocksForNat
      <4>3. Len(table[h]) \in Nat
        BY <1>c, <2>2, LenProperties
      <4>. DEFINE n == BlocksFor(SeqLen(h) + 1)
                  k == Len(table[h])
      <4>4. k < n /\ want' = [want EXCEPT ![t] = n - k] /\ n \in Nat /\ k \in Nat
        BY <3>1, <4>2, <4>3
      <4>. HIDE DEF n, k
      <4>. QED  BY <1>2, <4>4 DEF SchedTypeOK
    <3>. QED  BY <1>b, <2>6, <3>1, <3>2 DEF h
  <2>. QED  BY <2>7, <2>8
<1>. QED  BY <1>a, <1>1, <1>2

-----------------------------------------------------------------------------
(* The batch is executed on copies that stay true. *)

LEMMA PickFacts ==
  ASSUME EngineInv, NEW t \in Threads, PickRequest(t)
  PROVE  LET e == Head(job[t]) IN
         /\ job[t] \in Seq(BatchEntry) /\ job[t] # <<>> /\ e.rid \in Rids
         /\ job' = [job EXCEPT ![t] = Tail(@)] /\ sampled' = sampled
         /\ pc[t] = "loop"
         /\ \/ pc'[t] = "loop" /\ copy' = copy
            \/ /\ copy'[t].rid = e.rid /\ copy'[t].seq = SeqLen(e.rid)
               /\ copy'[t].table = table[e.rid]
               /\ pc'[t] = "prefillAlloc" => table[e.rid] = <<>>
               /\ pc'[t] \in {"decode", "attend"} => table[e.rid] # <<>>
<1> DEFINE e == Head(job[t])
<1>1. job[t] \in Seq(BatchEntry) /\ job[t] # <<>>
  BY DEF EngineInv, EngineTypeOK, PickRequest
<1>2. e \in BatchEntry
  BY <1>1, HeadTailProperties
<1>3. e.rid \in Rids
  BY <1>2 DEF BatchEntry
<1>4. /\ job' = [job EXCEPT ![t] = Tail(@)] /\ sampled' = sampled
      /\ pc[t] = "loop"
  BY DEF PickRequest, At
<1>5. CASE e.rid \in known
  <2>1. /\ copy' = [copy EXCEPT ![t] = [rid |-> e.rid, seq |-> SeqLen(e.rid),
                                        table |-> table[e.rid]]]
        /\ pc' = [pc EXCEPT ![t] = Route(e)]
    BY <1>5 DEF PickRequest, Goto
  <2>2. pc'[t] = Route(e)
    BY <2>1 DEF EngineInv, EngineTypeOK
  <2>3. /\ copy'[t].rid = e.rid /\ copy'[t].seq = SeqLen(e.rid)
        /\ copy'[t].table = table[e.rid]
    BY <2>1 DEF EngineInv, EngineTypeOK
  <2>4. /\ Route(e) = "prefillAlloc" => table[e.rid] = <<>>
        /\ Route(e) \in {"decode", "attend"} => table[e.rid] # <<>>
    BY DEF Route
  <2>. QED  BY <1>1, <1>3, <1>4, <2>2, <2>3, <2>4
<1>6. CASE e.rid \notin known
  BY <1>1, <1>3, <1>4, <1>6 DEF PickRequest
<1>. QED  BY <1>5, <1>6

\* A thread starts to execute only by taking the batch of its schedule().
LEMMA ExecutingStarts ==
  ASSUME EngineInv, NEW t \in Threads, EngineStep(t), ~Executing(t), Executing(t)'
  PROVE  /\ StepScheduled(t) /\ pc[t] = "schedule" /\ pc'[t] = "loop"
         /\ job' = [job EXCEPT ![t] = batch] /\ sampled' = sampled
<1>a. pc \in [Threads -> PagedLabels]
  BY DEF EngineInv, EngineTypeOK
<1>. USE DEF Executing
<1>1. CASE \E n \in PromptLens, m \in MaxNews : SubmitTokens(t, n, m)
  BY <1>1, <1>a DEF SubmitTokens, At, Goto
<1>2. CASE \E r \in Rids : RemoveRequest(t, r)
  BY <1>2, <1>a DEF RemoveRequest, At, Goto
<1>3. CASE \E tok \in Tokens : DecodeSample(t, tok)
  BY <1>3, <1>a DEF DecodeSample, At, Goto
<1>4. CASE RemoveReturn(t)
  BY <1>4, <1>a DEF RemoveReturn, At, Goto
<1>5. CASE StepBegin(t)
  BY <1>5, <1>a DEF StepBegin, At, Goto
<1>6. CASE InScheduler(t)
  BY <1>6, <1>a DEF InScheduler
<1>7. CASE StepScheduled(t)
  BY <1>7, <1>a DEF StepScheduled, At, Goto
<1>8. CASE PickRequest(t)
  BY <1>8, <1>a DEF PickRequest, At, Goto
<1>9. CASE PrefillAlloc(t)
  BY <1>9, <1>a DEF PrefillAlloc, At, Goto
<1>10. CASE PrefillWrite(t)
  BY <1>10, <1>a DEF PrefillWrite, At, Goto
<1>11. CASE PrefillSample(t)
  BY <1>11, <1>a DEF PrefillSample, At, Goto
<1>12. CASE PrefillEnd(t)
  BY <1>12, <1>a DEF PrefillEnd, At, Goto
<1>13. CASE DecodeWrite(t)
  BY <1>13, <1>a DEF DecodeWrite, At, Goto
<1>14. CASE StepReport(t)
  BY <1>14, <1>a DEF StepReport, At, Goto
<1>15. CASE StepReported(t)
  BY <1>15, <1>a DEF StepReported, At, Goto
<1>16. CASE CollectToken(t)
  BY <1>16, <1>a DEF CollectToken, At, Goto
<1>17. CASE CollectFinished(t)
  BY <1>17, <1>a DEF CollectFinished, At, Goto
<1>18. CASE StepReturn(t)
  BY <1>18, <1>a DEF StepReturn, At, Goto
<1>. QED  BY <1>1, <1>2, <1>3, <1>4, <1>5, <1>6, <1>7, <1>8, <1>9, <1>10, <1>11, <1>12,
             <1>13, <1>14, <1>15, <1>16, <1>17, <1>18
          DEF EngineStep, StepProgress

LEMMA CopyStep ==
  ASSUME OneThread, EngineInv, CopyFits, NEW t \in Threads, EngineStep(t)
  PROVE  CopyFits'
<1>. SUFFICES ASSUME pc'[t] \in {"prefillAlloc", "prefill", "decode", "attend"}
              PROVE  /\ copy'[t].table = table'[copy'[t].rid]
                     /\ copy'[t].seq = SeqLen(copy[t].rid)'
                     /\ pc'[t] = "prefillAlloc" => copy'[t].table = <<>>
                     /\ pc'[t] \in {"decode", "attend"} => copy'[t].table # <<>>
  BY DEF OneThread, CopyFits, Decoding
<1>1. CASE ~Executing(t)
  BY <1>1, ExecutingStarts DEF Executing
<1>2. CASE Executing(t)
  <2>1. UNCHANGED <<table, promptLen, genLen>>
    BY <1>2, ExecutingLeaves
  <2>2. CASE PickRequest(t)
    BY <2>1, <2>2, PickFacts DEF SeqLen
  <2>3. CASE ~PickRequest(t)
    <3>1. copy' = copy
      BY <2>3, EngineChanges
    <3>2. pc \in [Threads -> PagedLabels]
      BY DEF EngineInv, EngineTypeOK
    <3>3. /\ pc[t] \in {"prefillAlloc", "prefill", "decode", "attend"}
          /\ pc'[t] = "prefillAlloc" => pc[t] = "prefillAlloc"
          /\ pc'[t] \in {"decode", "attend"} => pc[t] \in {"decode", "attend"}
      <4>1. CASE \E n \in PromptLens, m \in MaxNews : SubmitTokens(t, n, m)
        BY <4>1, <1>2, <2>3, <3>2 DEF SubmitTokens, At, Goto, Executing
      <4>2. CASE \E r \in Rids : RemoveRequest(t, r)
        BY <4>2, <1>2, <2>3, <3>2 DEF RemoveRequest, At, Goto, Executing
      <4>3. CASE \E tok \in Tokens : DecodeSample(t, tok)
        BY <4>3, <1>2, <2>3, <3>2 DEF DecodeSample, At, Goto, Executing
      <4>4. CASE RemoveReturn(t)
        BY <4>4, <1>2, <2>3, <3>2 DEF RemoveReturn, At, Goto, Executing
      <4>5. CASE StepBegin(t)
        BY <4>5, <1>2, <2>3, <3>2 DEF StepBegin, At, Goto, Executing
      <4>6. CASE InScheduler(t)
        BY <4>6, <1>2, <2>3, <3>2 DEF InScheduler
      <4>7. CASE StepScheduled(t)
        BY <4>7, <1>2, <2>3, <3>2 DEF StepScheduled, At, Goto, Executing
      <4>8. CASE PickRequest(t)
        BY <4>8, <1>2, <2>3, <3>2 DEF PickRequest, At, Goto, Executing
      <4>9. CASE PrefillAlloc(t)
        BY <4>9, <1>2, <2>3, <3>2 DEF PrefillAlloc, At, Goto, Executing
      <4>10. CASE PrefillWrite(t)
        BY <4>10, <1>2, <2>3, <3>2 DEF PrefillWrite, At, Goto, Executing
      <4>11. CASE PrefillSample(t)
        BY <4>11, <1>2, <2>3, <3>2 DEF PrefillSample, At, Goto, Executing
      <4>12. CASE PrefillEnd(t)
        BY <4>12, <1>2, <2>3, <3>2 DEF PrefillEnd, At, Goto, Executing
      <4>13. CASE DecodeWrite(t)
        BY <4>13, <1>2, <2>3, <3>2 DEF DecodeWrite, At, Goto, Executing
      <4>14. CASE StepReport(t)
        BY <4>14, <1>2, <2>3, <3>2 DEF StepReport, At, Goto, Executing
      <4>15. CASE StepReported(t)
        BY <4>15, <1>2, <2>3, <3>2 DEF StepReported, At, Goto, Executing
      <4>16. CASE CollectToken(t)
        BY <4>16, <1>2, <2>3, <3>2 DEF CollectToken, At, Goto, Executing
      <4>17. CASE CollectFinished(t)
        BY <4>17, <1>2, <2>3, <3>2 DEF CollectFinished, At, Goto, Executing
      <4>18. CASE StepReturn(t)
        BY <4>18, <1>2, <2>3, <3>2 DEF StepReturn, At, Goto, Executing
      <4>. QED  BY <4>1, <4>2, <4>3, <4>4, <4>5, <4>6, <4>7, <4>8, <4>9, <4>10, <4>11, <4>12,
             <4>13, <4>14, <4>15, <4>16, <4>17, <4>18
                DEF EngineStep, StepProgress
    <3>. QED  BY <2>1, <3>1, <3>3 DEF CopyFits, SeqLen, Decoding
  <2>. QED  BY <2>2, <2>3
<1>. QED  BY <1>1, <1>2

LEMMA JobRidsOnce ==
  ASSUME NEW s \in Seq(BatchEntry),
         \A i, k \in DOMAIN s : s[i].rid = s[k].rid => i = k
  PROVE  NoneTwice(JobRids(s))
<1>1. DOMAIN s = 1 .. Len(s) /\ Len(s) \in Nat
  BY LenProperties
<1>2. Len(JobRids(s)) = Len(s)
  BY <1>1 DEF JobRids
<1>. QED  BY <1>1, <1>2 DEF JobRids, NoneTwice

LEMMA JobStep ==
  ASSUME OneThread, EngineInv, LoopsFit, TablesFit, CopyFits, JobFits,
         NEW t \in Threads, EngineStep(t)
  PROVE  JobFits'
<1>. SUFFICES ASSUME Executing(t)'
              PROVE  /\ \A r \in Rids : table'[r] # <<>> => ~Finished(r)'
                     /\ NoneTwice(JobRids(job'[t])) /\ NoneTwice(ReportRids(sampled'[t]))
                     /\ \A r \in Rids : Occurs(ReportRids(sampled'[t]), r) =>
                          table'[r] # <<>> /\ ~Occurs(JobRids(job'[t]), r)
                     /\ Decoding(t)' => /\ ~Occurs(ReportRids(sampled'[t]), copy'[t].rid)
                                        /\ ~Occurs(JobRids(job'[t]), copy'[t].rid)
  BY DEF OneThread, JobFits
<1>a. /\ pc \in [Threads -> PagedLabels] /\ copy[t].rid \in Rids
      /\ sampled \in [Threads -> Seq(Report)] /\ sampled[t] \in Seq(Report)
      /\ job \in [Threads -> Seq(BatchEntry)]
  BY DEF EngineInv, EngineTypeOK
<1>1. CASE ~Executing(t)
  <2>1. /\ EndSchedule(t) /\ pc[t] = "schedule" /\ pc'[t] = "loop"
        /\ job'[t] = batch /\ sampled'[t] = sampled[t]
    BY <1>1, <1>a, ExecutingStarts DEF StepScheduled
  <2>2. sampled[t] = <<>>
    BY <2>1 DEF LoopsFit, SampledFits
  <2>3. ReportRids(sampled'[t]) = <<>>
    BY <2>1, <2>2, EmptyRids
  <2>4. NoneTwice(JobRids(batch))
    BY JobRidsOnce DEF EngineInv, SchedInv, BatchFits, SchedTypeOK
  <2>5. ASSUME NEW r \in Rids, table'[r] # <<>>
        PROVE  ~Finished(r)'
    <3>1. /\ phase = "retire" /\ scan = <<>>
          /\ UNCHANGED <<table, state, genLen, maxNew>>
      BY <2>1 DEF EndSchedule, Holds
    <3>2. Occurs(kept \o scan, r)
      BY <2>5, <3>1 DEF TablesFit, RunningNow
    <3>3. Occurs(kept, r)
      BY <3>1, <3>2, NothingLeft DEF EngineInv, SchedInv
    <3>. QED  BY <3>1, <3>3 DEF LoopsFit, KeptFits, Finished
  <2>. QED  BY <2>1, <2>3, <2>4, <2>5, EmptyHolds DEF Decoding
<1>2. CASE Executing(t)
  <2>. DEFINE s == ReportRids(sampled[t])
              j == JobRids(job[t])
  <2>1. UNCHANGED <<table, genLen, maxNew, state>>
    BY <1>2, ExecutingLeaves
  <2>2. \A r \in Rids : table'[r] # <<>> => ~Finished(r)'
    BY <1>2, <2>1 DEF JobFits, Finished
  <2>3. /\ NoneTwice(j) /\ NoneTwice(s)
        /\ \A r \in Rids : Occurs(s, r) => table[r] # <<>> /\ ~Occurs(j, r)
        /\ Decoding(t) => ~Occurs(s, copy[t].rid) /\ ~Occurs(j, copy[t].rid)
    BY <1>2 DEF JobFits
  <2>4. CASE PickRequest(t)
    <3>1. /\ job[t] \in Seq(BatchEntry) /\ job[t] # <<>>
          /\ Head(job[t]).rid \in Rids
          /\ job'[t] = Tail(job[t]) /\ sampled'[t] = sampled[t]
          /\ Decoding(t)' => copy'[t].rid = Head(job[t]).rid
      BY <1>a, <2>4, PickFacts DEF Decoding
    <3>2. /\ j \in Seq(Rids) /\ j # <<>> /\ Head(j) = Head(job[t]).rid
          /\ JobRids(job'[t]) = Tail(j)
      BY <3>1, JobRidsTail
    <3>3. /\ NoneTwice(Tail(j)) /\ \A r : Occurs(Tail(j), r) <=> Occurs(j, r) /\ r # Head(j)
          /\ Occurs(j, Head(j))
      BY <2>3, <3>2, TailHolds
    <3>. HIDE DEF s, j
    <3>4. Decoding(t)' => ~Occurs(s, copy'[t].rid) /\ ~Occurs(Tail(j), copy'[t].rid)
      BY <2>3, <3>1, <3>2, <3>3
    <3>5. ReportRids(sampled'[t]) = s
      BY <3>1 DEF s
    <3>. QED  BY <2>1, <2>2, <2>3, <3>2, <3>3, <3>4, <3>5
  <2>5. CASE \E tok \in Tokens : DecodeSample(t, tok)
    <3>1. PICK tok \in Tokens : DecodeSample(t, tok)
      BY <2>5
    <3>2. <<copy[t].rid, tok>> \in Report
      BY <1>a DEF Report
    <3>3. /\ sampled'[t] = Append(sampled[t], <<copy[t].rid, tok>>)
          /\ job' = job /\ pc[t] = "attend" /\ pc'[t] = "loop"
      BY <1>a, <3>1 DEF DecodeSample, At, Goto
    <3>4. ReportRids(sampled'[t]) = Append(s, copy[t].rid) /\ s \in Seq(Rids)
      BY <1>a, <3>2, <3>3, ReportRidsAppend, ReportRidsType
    <3>5. table[copy[t].rid] # <<>>
      BY <3>3 DEF CopyFits, Decoding
    <3>6. ~Occurs(s, copy[t].rid) /\ ~Occurs(j, copy[t].rid)
      BY <2>3, <3>3 DEF Decoding
    <3>. HIDE DEF s
    <3>7. /\ NoneTwice(Append(s, copy[t].rid))
          /\ \A r : Occurs(Append(s, copy[t].rid), r) <=> Occurs(s, r) \/ r = copy[t].rid
      BY <1>a, <2>3, <3>4, <3>6, AppendHolds
    <3>8. JobRids(job'[t]) = j
      BY <3>3
    <3>. HIDE DEF j
    <3>. QED  BY <2>1, <2>2, <2>3, <3>3, <3>4, <3>5, <3>6, <3>7, <3>8 DEF Decoding
  <2>6. CASE ~PickRequest(t) /\ ~(\E tok \in Tokens : DecodeSample(t, tok))
    <3>1. ~CollectToken(t) /\ ~StepScheduled(t)
      BY <1>2 DEF CollectToken, StepScheduled, Executing, At
    <3>2. job' = job /\ sampled' = sampled /\ copy' = copy
      BY <2>6, <3>1, EngineChanges
    <3>3. Decoding(t)' => Decoding(t)
      <4>1. CASE \E n \in PromptLens, m \in MaxNews : SubmitTokens(t, n, m)
        BY <4>1, <1>2, <1>a, <2>6 DEF SubmitTokens, At, Goto, Executing, Decoding
      <4>2. CASE \E r \in Rids : RemoveRequest(t, r)
        BY <4>2, <1>2, <1>a, <2>6 DEF RemoveRequest, At, Goto, Executing, Decoding
      <4>3. CASE \E tok \in Tokens : DecodeSample(t, tok)
        BY <4>3, <1>2, <1>a, <2>6 DEF DecodeSample, At, Goto, Executing, Decoding
      <4>4. CASE RemoveReturn(t)
        BY <4>4, <1>2, <1>a, <2>6 DEF RemoveReturn, At, Goto, Executing, Decoding
      <4>5. CASE StepBegin(t)
        BY <4>5, <1>2, <1>a, <2>6 DEF StepBegin, At, Goto, Executing, Decoding
      <4>6. CASE InScheduler(t)
        BY <4>6, <1>2, <1>a, <2>6 DEF InScheduler, Decoding
      <4>7. CASE StepScheduled(t)
        BY <4>7, <1>2, <1>a, <2>6 DEF StepScheduled, At, Goto, Executing, Decoding
      <4>8. CASE PickRequest(t)
        BY <4>8, <1>2, <1>a, <2>6 DEF PickRequest, At, Goto, Executing, Decoding
      <4>9. CASE PrefillAlloc(t)
        BY <4>9, <1>2, <1>a, <2>6 DEF PrefillAlloc, At, Goto, Executing, Decoding
      <4>10. CASE PrefillWrite(t)
        BY <4>10, <1>2, <1>a, <2>6 DEF PrefillWrite, At, Goto, Executing, Decoding
      <4>11. CASE PrefillSample(t)
        BY <4>11, <1>2, <1>a, <2>6 DEF PrefillSample, At, Goto, Executing, Decoding
      <4>12. CASE PrefillEnd(t)
        BY <4>12, <1>2, <1>a, <2>6 DEF PrefillEnd, At, Goto, Executing, Decoding
      <4>13. CASE DecodeWrite(t)
        BY <4>13, <1>2, <1>a, <2>6 DEF DecodeWrite, At, Goto, Executing, Decoding
      <4>14. CASE StepReport(t)
        BY <4>14, <1>2, <1>a, <2>6 DEF StepReport, At, Goto, Executing, Decoding
      <4>15. CASE StepReported(t)
        BY <4>15, <1>2, <1>a, <2>6 DEF StepReported, At, Goto, Executing, Decoding
      <4>16. CASE CollectToken(t)
        BY <4>16, <1>2, <1>a, <2>6 DEF CollectToken, At, Goto, Executing, Decoding
      <4>17. CASE CollectFinished(t)
        BY <4>17, <1>2, <1>a, <2>6 DEF CollectFinished, At, Goto, Executing, Decoding
      <4>18. CASE StepReturn(t)
        BY <4>18, <1>2, <1>a, <2>6 DEF StepReturn, At, Goto, Executing, Decoding
      <4>. QED  BY <4>1, <4>2, <4>3, <4>4, <4>5, <4>6, <4>7, <4>8, <4>9, <4>10, <4>11, <4>12,
             <4>13, <4>14, <4>15, <4>16, <4>17, <4>18
                DEF EngineStep, StepProgress
    <3>. QED  BY <2>1, <2>2, <2>3, <3>2, <3>3
  <2>. QED  BY <2>4, <2>5, <2>6
<1>. QED  BY <1>1, <1>2

LEMMA ReportBegins ==
  ASSUME EngineInv, NEW t \in Threads, EngineStep(t),
         \E pairs \in Seq(Report) : BeginReport(t, pairs)
  PROVE  /\ Executing(t) /\ reports' = sampled[t] /\ lock' = t
         /\ UNCHANGED <<table, state, genLen, maxNew>>
<1>a. pc \in [Threads -> PagedLabels]
  BY DEF EngineInv, EngineTypeOK
<1>b. lock # t /\ lock' = t /\ phase' = "report" /\ UNCHANGED <<table, state, genLen, maxNew>>
  BY DEF BeginReport, Idle
<1>c. pc[t] # "report" /\ pc'[t] = "report"
  <2>1. LabelsFit'
    BY EngineInvStep DEF EngineInv
  <2>. QED  BY <1>b, <2>1 DEF EngineInv, LabelsFit, LabelFits
<1>d. StepReport(t)
  <2>1. CASE \E n \in PromptLens, m \in MaxNews : SubmitTokens(t, n, m)
    BY <2>1, <1>a, <1>c DEF SubmitTokens, At, Goto
  <2>2. CASE \E r \in Rids : RemoveRequest(t, r)
    BY <2>2, <1>a, <1>c DEF RemoveRequest, At, Goto
  <2>3. CASE \E tok \in Tokens : DecodeSample(t, tok)
    BY <2>3, <1>a, <1>c DEF DecodeSample, At, Goto
  <2>4. CASE RemoveReturn(t)
    BY <2>4, <1>a, <1>c DEF RemoveReturn, At, Goto
  <2>5. CASE StepBegin(t)
    BY <2>5, <1>a, <1>c DEF StepBegin, At, Goto
  <2>6. CASE InScheduler(t)
    BY <2>6, <1>a, <1>c DEF InScheduler
  <2>7. CASE StepScheduled(t)
    BY <2>7, <1>a, <1>c DEF StepScheduled, At, Goto
  <2>8. CASE PickRequest(t)
    BY <2>8, <1>a, <1>c, RouteOut DEF PickRequest, At, Goto
  <2>9. CASE PrefillAlloc(t)
    BY <2>9, <1>a, <1>c DEF PrefillAlloc, At, Goto
  <2>10. CASE PrefillWrite(t)
    BY <2>10, <1>a, <1>c DEF PrefillWrite, At, Goto
  <2>11. CASE PrefillSample(t)
    BY <2>11, <1>a, <1>c DEF PrefillSample, At, Goto
  <2>12. CASE PrefillEnd(t)
    BY <2>12, <1>a, <1>c DEF PrefillEnd, At, Goto
  <2>13. CASE DecodeWrite(t)
    BY <2>13, <1>a, <1>c DEF DecodeWrite, At, Goto
  <2>14. CASE StepReport(t)
    BY <2>14, <1>a, <1>c DEF StepReport, At, Goto
  <2>15. CASE StepReported(t)
    BY <2>15, <1>a, <1>c DEF StepReported, At, Goto
  <2>16. CASE CollectToken(t)
    BY <2>16, <1>a, <1>c DEF CollectToken, At, Goto
  <2>17. CASE CollectFinished(t)
    BY <2>17, <1>a, <1>c DEF CollectFinished, At, Goto
  <2>18. CASE StepReturn(t)
    BY <2>18, <1>a, <1>c DEF StepReturn, At, Goto
  <2>. QED  BY <2>1, <2>2, <2>3, <2>4, <2>5, <2>6, <2>7, <2>8, <2>9, <2>10, <2>11, <2>12,
             <2>13, <2>14, <2>15, <2>16, <2>17, <2>18
            DEF EngineStep, StepProgress
<1>. QED  BY <1>b, <1>c, <1>d, <1>a DEF StepReport, BeginReport, At, Goto, Executing

LEMMA ReportsFitStep ==
  ASSUME EngineInv, ReportsFit, JobFits, NEW t \in Threads, EngineStep(t)
  PROVE  ReportsFit'
<1>1. CASE \E pairs \in Seq(Report) : BeginReport(t, pairs)
  <2>1. /\ Executing(t) /\ reports' = sampled[t] /\ lock' = t
        /\ UNCHANGED <<table, state, genLen, maxNew>>
    BY <1>1, ReportBegins
  <2>2. /\ NoneTwice(ReportRids(sampled[t]))
        /\ \A r \in Rids : Occurs(ReportRids(sampled[t]), r) => table[r] # <<>>
        /\ \A r \in Rids : table[r] # <<>> => ~Finished(r)
    BY <2>1 DEF JobFits
  <2>3. \A r \in Rids : Finished(r)' <=> Finished(r)
    BY <2>1 DEF Finished
  <2>. QED  BY <2>1, <2>2, <2>3 DEF ReportsFit, Holds
<1>2. CASE SchedStep(t) /\ ~(\E pairs \in Seq(Report) : BeginReport(t, pairs))
  BY <1>2, ReportsStep DEF EngineInv
<1>3. CASE OffScheduler
  BY <1>3 DEF OffScheduler, ReportsFit, Holds, Finished
<1>. QED  BY <1>1, <1>2, <1>3, EngineUsesScheduler DEF EngineInv, SchedInv

LEMMA TablesFitStep ==
  ASSUME EngineInv, TablesFit, ReportsFit, NEW t \in Threads, EngineStep(t)
  PROVE  TablesFit'
<1>1. CASE SchedStep(t)
  BY <1>1, TablesStep DEF EngineInv
<1>2. CASE OffScheduler
  BY <1>2 DEF OffScheduler, TablesFit, RunningNow
<1>. QED  BY <1>1, <1>2, EngineUsesScheduler DEF EngineInv, SchedInv

-----------------------------------------------------------------------------
(***************************************************************************)
(* The blocks.  Free blocks are zeroed, and so are those the holder of the *)
(* mutex has just taken; a block in a table holds entries of its request,  *)
(* each in its slot.  While the blocks of a request are freed one by one   *)
(* its table is shifted, and nothing is said of it.                        *)
(***************************************************************************)

Freeing(r) == phase \in {"evictFree", "retireFree", "removeFree"} /\ r = Head(scan)

\* the entries a request may have in the i-th block of its table
OwnEntries(r, i, b) == \A s \in Slots : kv[b][s] \in {Blank, <<r, (i - 1) * BlockSize + s>>}

BlocksFit ==
  /\ \A b \in Blocks : isFree[b] => kv[b] = ZeroedBlock
  /\ \A t \in Threads, b \in Blocks : lock = t /\ InGot(t, b) => kv[b] = ZeroedBlock
  /\ \A r \in Rids : ~Freeing(r) =>
       \A i \in 1 .. Len(table[r]) : OwnEntries(r, i, table[r][i])

LEMMA ZeroedFits ==
  ASSUME NEW b, kv[b] = ZeroedBlock, NEW r, NEW i
  PROVE  OwnEntries(r, i, b)
  BY DEF ZeroedBlock, OwnEntries

\* With no checkpoint to restore, admission copies nothing.
LEMMA NothingRestored ==
  ASSUME EngineInv, LoopsFit, NEW t \in Threads, AdmitCommit(t)
  PROVE  kv' = kv
<1>1. Head(scan) \in Rids /\ phase # "evictFree"
  BY AdmitMoves DEF EngineInv, SchedInv, AdmitCommit, Admitting, Holds
<1>2. ckpt[Head(scan)] = <<>>
  BY <1>1 DEF LoopsFit, CkptFits
<1>3. Len(got[t]) > 0 /\ Len(<<>>) = 0
  BY DEF AdmitCommit, AllocDone, EngineInv, SchedInv, SchedTypeOK
<1>. QED  BY <1>2, <1>3 DEF AdmitCommit, RestoredKV

LEMMA FreeingEnds ==
  ASSUME SchedInv, NEW t \in Threads, SchedStep(t), NEW r \in Rids, Freeing(r), ~Freeing(r)'
  PROVE  table[r] = <<>>
<1>a. lock # NoThread
  BY DEF SchedInv, QueueInv, LocksFit, Freeing
<1>. USE ThreadAssumption DEF Freeing
<1>1. CASE \E n \in PromptLens, m \in MaxNews : Submit(t, n, m)
  BY <1>1, <1>a DEF Submit, Holds, Admitting, Idle, ReportStep
<1>2. CASE BeginSchedule(t)
  BY <1>2, <1>a DEF BeginSchedule, Holds, Admitting, Idle, ReportStep
<1>3. CASE \E pairs \in Seq(Report) : BeginReport(t, pairs)
  BY <1>3, <1>a DEF BeginReport, Holds, Admitting, Idle, ReportStep
<1>4. CASE \E q \in Rids : BeginRemove(t, q)
  BY <1>4, <1>a DEF BeginRemove, Holds, Admitting, Idle, ReportStep
<1>5. CASE \E n \in Nat \ {0} : BeginOwnAlloc(t, n)
  BY <1>5, <1>a DEF BeginOwnAlloc, Holds, Admitting, Idle, ReportStep
<1>6. CASE AdmitSkip(t)
  BY <1>6, <1>a DEF AdmitSkip, Holds, Admitting, Idle, ReportStep
<1>7. CASE AdmitEmpty(t)
  BY <1>7, <1>a DEF AdmitEmpty, Holds, Admitting, Idle, ReportStep
<1>8. CASE AdmitBegin(t)
  BY <1>8, <1>a DEF AdmitBegin, Holds, Admitting, Idle, ReportStep
<1>9. CASE AdmitCommit(t)
  BY <1>9, <1>a DEF AdmitCommit, Holds, Admitting, Idle, ReportStep
<1>10. CASE AdmitFail(t)
  BY <1>10, <1>a DEF AdmitFail, Holds, Admitting, Idle, ReportStep
<1>11. CASE EndAdmit(t)
  BY <1>11, <1>a DEF EndAdmit, Holds, Admitting, Idle, ReportStep
<1>12. CASE EndRetry(t)
  BY <1>12, <1>a DEF EndRetry, Holds, Admitting, Idle, ReportStep
<1>13. CASE EvictSkip(t)
  BY <1>13, <1>a DEF EvictSkip, Holds, Admitting, Idle, ReportStep
<1>14. CASE EvictBegin(t)
  BY <1>14, <1>a DEF EvictBegin, Holds, Admitting, Idle, ReportStep
<1>15. CASE EvictCommit(t)
  BY <1>15, <1>a DEF EvictCommit, Holds, Admitting, Idle, ReportStep
<1>16. CASE EndEvict(t)
  BY <1>16, <1>a DEF EndEvict, Holds, Admitting, Idle, ReportStep
<1>17. CASE BatchInclude(t)
  BY <1>17, <1>a DEF BatchInclude, Holds, Admitting, Idle, ReportStep
<1>18. CASE BatchExclude(t)
  BY <1>18, <1>a DEF BatchExclude, Holds, Admitting, Idle, ReportStep
<1>19. CASE EndBatch(t)
  BY <1>19, <1>a DEF EndBatch, Holds, Admitting, Idle, ReportStep
<1>20. CASE RetireKeep(t)
  BY <1>20, <1>a DEF RetireKeep, Holds, Admitting, Idle, ReportStep
<1>21. CASE RetireBegin(t)
  BY <1>21, <1>a DEF RetireBegin, Holds, Admitting, Idle, ReportStep
<1>22. CASE RetireCommit(t)
  BY <1>22, <1>a DEF RetireCommit, Holds, Admitting, Idle, ReportStep
<1>23. CASE EndSchedule(t)
  BY <1>23, <1>a DEF EndSchedule, Holds, Admitting, Idle, ReportStep
<1>24. CASE ReportUnknown(t)
  BY <1>24, <1>a DEF ReportUnknown, Holds, Admitting, Idle, ReportStep
<1>25. CASE ReportToken(t)
  BY <1>25, <1>a DEF ReportToken, Holds, Admitting, Idle, ReportStep
<1>26. CASE ReportCommit(t)
  BY <1>26, <1>a DEF ReportCommit, Holds, Admitting, Idle, ReportStep
<1>27. CASE ReportFail(t)
  BY <1>27, <1>a DEF ReportFail, Holds, Admitting, Idle, ReportStep
<1>28. CASE EndReport(t)
  BY <1>28, <1>a DEF EndReport, Holds, Admitting, Idle, ReportStep
<1>29. CASE EndRemove(t)
  BY <1>29, <1>a DEF EndRemove, Holds, Admitting, Idle, ReportStep
<1>30. CASE FreeHeadBlock(t)
  BY <1>30, <1>a DEF FreeHeadBlock, Holds, Admitting, Idle, ReportStep
<1>31. CASE AllocBlock(t)
  BY <1>31, <1>a DEF AllocBlock, Holds, Admitting, Idle, ReportStep
<1>32. CASE OwnAllocFails(t)
  BY <1>32, <1>a DEF OwnAllocFails, Holds, Admitting, Idle, ReportStep
<1>33. CASE DropOwnBlocks(t)
  BY <1>33, <1>a DEF DropOwnBlocks, Holds, Admitting, Idle, ReportStep
<1>. QED  BY <1>1, <1>2, <1>3, <1>4, <1>5, <1>6, <1>7, <1>8, <1>9, <1>10, <1>11, <1>12,
             <1>13, <1>14, <1>15, <1>16, <1>17, <1>18, <1>19, <1>20, <1>21, <1>22,
             <1>23, <1>24, <1>25, <1>26, <1>27, <1>28, <1>29, <1>30, <1>31, <1>32, <1>33
          DEF SchedStep, ScheduleStep, ReportStep

\* What a thread allocated under the mutex is zeroed, at every step but a write.
LEMMA GotZeroed ==
  ASSUME EngineInv, LoopsFit, BlocksFit, NEW t \in Threads, SchedStep(t),
         NEW u \in Threads, NEW b \in Blocks, lock' = u, InGot(u, b)'
  PROVE  kv[b] = ZeroedBlock
<1>a. /\ got \in [Threads -> Seq(Blocks)] /\ want \in [Threads -> Nat]
      /\ \A v \in Threads : v # NoThread
  BY ThreadAssumption DEF EngineInv, SchedInv, SchedTypeOK
<1>1. CASE AllocBlock(t)
  <2>1. PICK c \in Blocks : Alloc(c) /\ got' = [got EXCEPT ![t] = Append(@, c)]
    BY <1>1 DEF AllocBlock
  <2>2. lock = u
    BY <1>1 DEF AllocBlock
  <2>3. CASE u = t
    <3>1. \A d : Occurs(Append(got[t], c), d) <=> Occurs(got[t], d) \/ d = c
      BY <1>a, <2>1, AppendHolds
    <3>2. InGot(t, b) \/ b = c
      BY <1>a, <2>1, <2>3, <3>1 DEF InGot
    <3>3. isFree[c]
      BY <2>1 DEF Alloc, FirstFree
    <3>. QED  BY <2>1, <2>2, <2>3, <3>2, <3>3 DEF BlocksFit
  <2>4. CASE u # t
    BY <1>a, <2>1, <2>2, <2>4 DEF BlocksFit, InGot
  <2>. QED  BY <2>3, <2>4
<1>2. CASE EndAlloc(t) /\ lock' = lock
  <2>1. u # t
    BY <1>a, <1>2, EmptyHolds DEF EndAlloc, InGot
  <2>. QED  BY <1>a, <1>2, <2>1 DEF EndAlloc, BlocksFit, InGot
<1>3. CASE got' = got /\ lock' = lock
  BY <1>3 DEF BlocksFit, InGot
<1>4. CASE got' = got /\ Idle(t) /\ lock' = t
  <2>1. Len(got[t]) = 0
    BY <1>a, <1>4, LenProperties DEF LoopsFit, GotFits, Idle
  <2>2. got[t] = <<>>
    BY <1>a, <2>1, EmptySeq
  <2>. QED  BY <1>4, <2>2, EmptyHolds DEF InGot
<1>5. CASE lock' = NoThread
  BY <1>5, <1>a
<1>6. \/ AllocBlock(t)
      \/ EndAlloc(t) /\ lock' = lock
      \/ got' = got /\ lock' = lock
      \/ got' = got /\ Idle(t) /\ lock' = t
      \/ lock' = NoThread
  <2>1. CASE \E n \in PromptLens, m \in MaxNews : Submit(t, n, m)
    BY <2>1 DEF Submit
  <2>2. CASE BeginSchedule(t)
    BY <2>2 DEF BeginSchedule
  <2>3. CASE \E pairs \in Seq(Report) : BeginReport(t, pairs)
    BY <2>3 DEF BeginReport
  <2>4. CASE \E r \in Rids : BeginRemove(t, r)
    BY <2>4 DEF BeginRemove
  <2>5. CASE \E n \in Nat \ {0} : BeginOwnAlloc(t, n)
    BY <2>5 DEF BeginOwnAlloc
  <2>6. CASE AdmitSkip(t)
    BY <2>6 DEF AdmitSkip
  <2>7. CASE AdmitEmpty(t)
    BY <2>7 DEF AdmitEmpty
  <2>8. CASE AdmitBegin(t)
    BY <2>8 DEF AdmitBegin
  <2>9. CASE AdmitCommit(t)
    BY <2>9 DEF AdmitCommit
  <2>10. CASE AdmitFail(t)
    BY <2>10 DEF AdmitFail
  <2>11. CASE EndAdmit(t)
    BY <2>11 DEF EndAdmit
  <2>12. CASE EndRetry(t)
    BY <2>12 DEF EndRetry
  <2>13. CASE EvictSkip(t)
    BY <2>13 DEF EvictSkip
  <2>14. CASE EvictBegin(t)
    BY <2>14 DEF EvictBegin
  <2>15. CASE EvictCommit(t)
    BY <2>15 DEF EvictCommit
  <2>16. CASE EndEvict(t)
    BY <2>16 DEF EndEvict
  <2>17. CASE BatchInclude(t)
    BY <2>17 DEF BatchInclude
  <2>18. CASE BatchExclude(t)
    BY <2>18 DEF BatchExclude
  <2>19. CASE EndBatch(t)
    BY <2>19 DEF EndBatch
  <2>20. CASE RetireKeep(t)
    BY <2>20 DEF RetireKeep
  <2>21. CASE RetireBegin(t)
    BY <2>21 DEF RetireBegin
  <2>22. CASE RetireCommit(t)
    BY <2>22 DEF RetireCommit
  <2>23. CASE EndSchedule(t)
    BY <2>23 DEF EndSchedule
  <2>24. CASE ReportUnknown(t)
    BY <2>24 DEF ReportUnknown
  <2>25. CASE ReportToken(t)
    BY <2>25 DEF ReportToken
  <2>26. CASE ReportCommit(t)
    BY <2>26 DEF ReportCommit
  <2>27. CASE ReportFail(t)
    BY <2>27 DEF ReportFail
  <2>28. CASE EndReport(t)
    BY <2>28 DEF EndReport
  <2>29. CASE EndRemove(t)
    BY <2>29 DEF EndRemove
  <2>30. CASE FreeHeadBlock(t)
    BY <2>30 DEF FreeHeadBlock
  <2>31. CASE AllocBlock(t)
    BY <2>31 DEF AllocBlock
  <2>32. CASE OwnAllocFails(t)
    BY <2>32 DEF OwnAllocFails
  <2>33. CASE DropOwnBlocks(t)
    BY <2>33 DEF DropOwnBlocks
  <2>. QED  BY <2>1, <2>2, <2>3, <2>4, <2>5, <2>6, <2>7, <2>8, <2>9, <2>10, <2>11,
               <2>12, <2>13, <2>14, <2>15, <2>16, <2>17, <2>18, <2>19, <2>20, <2>21,
               <2>22, <2>23, <2>24, <2>25, <2>26, <2>27, <2>28, <2>29, <2>30, <2>31,
               <2>32, <2>33
            DEF SchedStep, ScheduleStep, ReportStep
<1>. QED  BY <1>1, <1>2, <1>3, <1>4, <1>5, <1>6

\* A step that leaves the KV data leaves it where it belongs.
LEMMA TablesHold ==
  ASSUME EngineInv, BlocksFit, NEW t \in Threads, SchedStep(t), ~FreeHeadBlock(t),
         NEW r \in Rids, ~Freeing(r)', NEW i \in 1 .. Len(table'[r])
  PROVE  OwnEntries(r, i, table'[r][i])
<1>. USE DEF EngineInv, SchedInv
<1>a. /\ table \in [Rids -> Seq(Blocks)] /\ got[t] \in Seq(Blocks) /\ table[r] \in Seq(Blocks)
  BY DEF SchedTypeOK
<1>b. ASSUME NEW k \in 1 .. Len(got[t]), lock = t
      PROVE  kv[got[t][k]] = ZeroedBlock
  <2>1. got[t][k] \in Blocks /\ InGot(t, got[t][k])
    BY <1>a, <1>b, ElementOfSeq DEF InGot, Occurs
  <2>. QED  BY <1>b, <2>1 DEF BlocksFit
<1>c. ASSUME ~Freeing(r), i \in 1 .. Len(table[r]), table'[r][i] = table[r][i]
      PROVE  OwnEntries(r, i, table'[r][i])
  BY <1>c DEF BlocksFit
<1>1. CASE AdmitCommit(t)
  <2>1. lock = t /\ Head(scan) \in Rids /\ ~Freeing(r)
    BY <1>1, AdmitMoves DEF AdmitCommit, Admitting, Holds, Freeing
  <2>2. CASE r = Head(scan)
    <3>1. table'[r] = got[t]
      BY <1>1, <1>a, <2>2 DEF AdmitCommit
    <3>. QED  BY <1>b, <2>1, <3>1, ZeroedFits
  <2>3. CASE r # Head(scan)
    <3>1. table'[r] = table[r]
      BY <1>1, <1>a, <2>3 DEF AdmitCommit
    <3>. QED  BY <1>c, <2>1, <3>1
  <2>. QED  BY <2>2, <2>3
<1>2. CASE ReportCommit(t)
  <2>1. lock = t /\ ~Freeing(r)
    BY <1>2 DEF ReportCommit, Holds, Freeing
  <2>2. CASE r = Head(reports)[1]
    <3>1. table'[r] = table[r] \o got[t]
      BY <1>2, <1>a, <2>2 DEF ReportCommit
    <3>2. /\ Len(table'[r]) = Len(table[r]) + Len(got[t])
          /\ \A k \in 1 .. Len(table'[r]) :
               table'[r][k] = IF k <= Len(table[r]) THEN table[r][k] ELSE got[t][k - Len(table[r])]
      BY <1>a, <3>1, ConcatProperties
    <3> DEFINE k == Len(table[r])
               l == Len(got[t])
    <3>3. k \in Nat /\ l \in Nat /\ i \in 1 .. k + l
      BY <1>a, <3>2, LenProperties
    <3>4. table'[r][i] = IF i <= k THEN table[r][i] ELSE got[t][i - k]
      BY <3>2
    <3>5. CASE i <= k
      <4>1. i \in 1 .. k /\ table'[r][i] = table[r][i]
        BY <3>3, <3>4, <3>5
      <4>. QED  BY <1>c, <2>1, <4>1
    <3>6. CASE i > k
      <4>. HIDE DEF k, l
      <4>1. i - k \in 1 .. l /\ ~(i <= k)
        BY <3>3, <3>6
      <4>2. table'[r][i] = got[t][i - k]
        BY <3>4, <4>1
      <4>. QED  BY <1>b, <2>1, <4>1, <4>2, ZeroedFits DEF l
    <3>. QED  BY <3>3, <3>5, <3>6
  <2>3. CASE r # Head(reports)[1]
    <3>1. table'[r] = table[r]
      BY <1>2, <1>a, <2>3 DEF ReportCommit
    <3>. QED  BY <1>c, <2>1, <3>1
  <2>. QED  BY <2>2, <2>3
<1>3. CASE table' = table
  <2>1. CASE Freeing(r)
    <3>1. table'[r] = <<>>
      BY <1>3, <2>1, FreeingEnds
    <3>2. Len(<<>>) = 0
      OBVIOUS
    <3>. QED  BY <3>1, <3>2
  <2>2. CASE ~Freeing(r)
    BY <1>3, <1>c, <2>2
  <2>. QED  BY <2>1, <2>2
<1>. QED  BY <1>1, <1>2, <1>3, StepChanges

\* The block given back is cleared, and nobody else has it.
LEMMA FreeFitsBlocks ==
  ASSUME EngineInv, BlocksFit, NEW t \in Threads, FreeHeadBlock(t)
  PROVE  BlocksFit'
<1>. USE DEF EngineInv, SchedInv
<1> DEFINE r == Head(scan)
           b == Head(table[r])
<1>1. r \in Rids
  BY ScanType DEF FreeHeadBlock, Holds, LoopAtRequest
<1>2. table[r] \in Seq(Blocks) /\ table[r] # <<>> /\ Free(b)
  BY <1>1 DEF FreeHeadBlock, SchedTypeOK
<1>3. b \in Blocks /\ InTable(r, b)
  BY <1>2, HeadOccurs DEF InTable
<1>4. ~isFree[b] /\ refCount[b] = 1
  BY <1>1, <1>3 DEF BlockOwnership, HeldIsAllocated
<1>5. /\ isFree' = [isFree EXCEPT ![b] = @ \/ TRUE]
      /\ kv' = [kv EXCEPT ![b] = ZeroedBlock]
      /\ UNCHANGED <<lock, got, phase, scan>> /\ table' = [table EXCEPT ![r] = Tail(@)]
  BY <1>2, <1>4 DEF Free, LastRef, FreeHeadBlock
<1>. HIDE DEF b
<1>6. /\ kv'[b] = ZeroedBlock
      /\ \A c \in Blocks : c # b => kv'[c] = kv[c] /\ isFree'[c] = isFree[c]
  BY <1>3, <1>5 DEF EngineTypeOK, SchedTypeOK
<1>7. \A c \in Blocks : isFree'[c] => kv'[c] = ZeroedBlock
  BY <1>6 DEF BlocksFit
<1>8. ASSUME NEW u \in Threads, NEW c \in Blocks, lock' = u, InGot(u, c)'
      PROVE  kv'[c] = ZeroedBlock
  <2>1. InGot(u, c) /\ lock = u
    BY <1>5, <1>8 DEF InGot
  <2>2. c # b
    BY <1>1, <1>3, <2>1 DEF BlockOwnership, HeldOnce
  <2>. QED  BY <1>6, <2>1, <2>2 DEF BlocksFit
<1>9. ASSUME NEW q \in Rids, ~Freeing(q)', NEW i \in 1 .. Len(table'[q])
      PROVE  OwnEntries(q, i, table[q][i])' /\ table'[q] = table[q]
  <2>1. q # r /\ ~Freeing(q)
    BY <1>5, <1>9 DEF Freeing, FreeHeadBlock, Holds
  <2>2. table'[q] = table[q] /\ table[q] \in Seq(Blocks)
    BY <1>5, <2>1 DEF SchedTypeOK
  <2>3. table[q][i] \in Blocks /\ InTable(q, table[q][i])
    BY <1>9, <2>2, ElementOfSeq DEF InTable, Occurs
  <2>4. table[q][i] # b
    BY <1>1, <1>3, <2>1, <2>3 DEF BlockOwnership, HeldOnce
  <2>5. OwnEntries(q, i, table[q][i])
    BY <1>9, <2>1, <2>2 DEF BlocksFit
  <2>. QED  BY <1>6, <2>2, <2>3, <2>4, <2>5 DEF OwnEntries
<1>. QED  BY <1>7, <1>8, <1>9 DEF BlocksFit

\* The position of a token names a slot, and the slot and its block name the position.
LEMMA PositionSlot ==
  ASSUME NEW p \in Nat
  PROVE  /\ p \div BlockSize \in Nat /\ SlotAt(p) \in Slots
         /\ (p \div BlockSize + 1 - 1) * BlockSize + SlotAt(p) = p
<1> DEFINE d == p \div BlockSize
<1>1. d \in Nat
  BY DivNat, BlockSizeAssumption
<1>2. p = d * BlockSize + (p % BlockSize) /\ p % BlockSize \in 0 .. BlockSize - 1
  BY BlockSizeAssumption
<1>. HIDE DEF d
<1>3. d + 1 - 1 = d
  BY <1>1
<1>. QED  BY <1>1, <1>2, <1>3 DEF SlotAt, Slots, d

\* An entry written through a request's table, or into blocks no table has.
LEMMA WriteFits ==
  ASSUME EngineInv, BlocksFit, lock = NoThread, NEW r \in Rids, NEW p \in Nat,
         NEW blocks \in Seq(Blocks),
         blocks = table[r] \/ \E t \in Threads : blocks = got[t],
         kv' = Written(blocks, p, <<r, p>>),
         UNCHANGED <<isFree, table, got, lock, phase, scan>>
  PROVE  BlocksFit'
<1>. USE DEF EngineInv, SchedInv
<1>a. \A t \in Threads : lock' # t
  BY ThreadAssumption
<1>b. \A q \in Rids : Freeing(q)' <=> Freeing(q)
  BY DEF Freeing
<1>c. kv \in [Blocks -> [Slots -> {Blank} \cup (Rids \X Nat)]]
  BY DEF EngineTypeOK
<1>1. CASE ~Reaches(blocks, p)
  <2>1. kv' = kv
    BY <1>1 DEF Written
  <2>. QED  BY <1>a, <1>b, <2>1 DEF BlocksFit, OwnEntries
<1>2. CASE Reaches(blocks, p)
  <2> DEFINE i == p \div BlockSize + 1
             b == blocks[i]
             s == SlotAt(p)
  <2>1. s \in Slots /\ i \in Nat /\ (i - 1) * BlockSize + s = p /\ i \in 1 .. Len(blocks)
    <3> DEFINE d == p \div BlockSize
    <3>1. d \in Nat /\ s \in Slots /\ (d + 1 - 1) * BlockSize + s = p
      BY PositionSlot
    <3>2. d < Len(blocks) /\ Len(blocks) \in Nat
      BY <1>2, LenProperties DEF Reaches
    <3>. HIDE DEF d
    <3>3. d + 1 \in Nat /\ d + 1 \in 1 .. Len(blocks)
      BY <3>1, <3>2
    <3>. QED  BY <3>1, <3>3 DEF d
  <2>2. b \in Blocks /\ Occurs(blocks, b)
    BY <2>1, ElementOfSeq DEF Occurs
  <2>3. kv' = [kv EXCEPT ![b][s] = <<r, p>>]
    BY <1>2 DEF Written, BlockAt
  <2>4. InTable(r, b) \/ \E t \in Threads : InGot(t, b)
    BY <2>2 DEF InTable, InGot
  <2>5. ~isFree[b]
    BY <2>2, <2>4 DEF BlockOwnership, HeldIsAllocated
  <2>. HIDE DEF b, s
  <2>6. /\ kv'[b] = [kv[b] EXCEPT ![s] = <<r, p>>]
        /\ \A c \in Blocks : c # b => kv'[c] = kv[c]
    BY <1>c, <2>2, <2>3
  <2>7. /\ kv'[b][s] = <<r, p>>
        /\ \A z \in Slots : z # s => kv'[b][z] = kv[b][z]
    BY <1>c, <2>1, <2>2, <2>6
  <2>8. ASSUME NEW q \in Rids, ~Freeing(q), NEW j \in 1 .. Len(table[q])
        PROVE  OwnEntries(q, j, table[q][j])'
    <3>1. OwnEntries(q, j, table[q][j])
      BY <2>8 DEF BlocksFit
    <3>2. table[q][j] \in Blocks /\ InTable(q, table[q][j]) /\ table'[q][j] = table[q][j]
      BY ElementOfSeq DEF InTable, Occurs, SchedTypeOK
    <3>3. CASE table[q][j] # b
      BY <2>6, <3>1, <3>2, <3>3 DEF OwnEntries
    <3>4. CASE table[q][j] = b
      <4>1. blocks = table[r] /\ q = r
        BY <2>2, <3>2, <3>4 DEF BlockOwnership, HeldOnce, InTable, InGot
      <4>2. j = i
        BY <2>1, <3>4, <4>1 DEF BlockOwnership, HeldOnce, NoneTwice, b
      <4>. HIDE DEF i
      <4>. QED  BY <2>1, <2>7, <3>1, <3>2, <3>4, <4>1, <4>2 DEF OwnEntries
    <3>. QED  BY <3>3, <3>4
  <2>9. \A c \in Blocks : isFree'[c] => kv'[c] = ZeroedBlock
    BY <2>5, <2>6 DEF BlocksFit
  <2>. QED  BY <1>a, <1>b, <2>8, <2>9 DEF BlocksFit
<1>. QED  BY <1>1, <1>2

\* Only freeing makes a block free.
LEMMA FreesOnly ==
  ASSUME SchedTypeOK, NEW t \in Threads, SchedStep(t), ~FreeHeadBlock(t), NEW b \in Blocks, isFree'[b]
  PROVE  isFree[b]
<1>1. CASE \E n \in PromptLens, m \in MaxNews : Submit(t, n, m)
  BY <1>1 DEF Submit
<1>2. CASE BeginSchedule(t)
  BY <1>2 DEF BeginSchedule
<1>3. CASE \E pairs \in Seq(Report) : BeginReport(t, pairs)
  BY <1>3 DEF BeginReport
<1>4. CASE \E r \in Rids : BeginRemove(t, r)
  BY <1>4 DEF BeginRemove
<1>5. CASE \E n \in Nat \ {0} : BeginOwnAlloc(t, n)
  BY <1>5 DEF BeginOwnAlloc
<1>6. CASE AdmitSkip(t)
  BY <1>6 DEF AdmitSkip
<1>7. CASE AdmitEmpty(t)
  BY <1>7 DEF AdmitEmpty
<1>8. CASE AdmitBegin(t)
  BY <1>8 DEF AdmitBegin
<1>9. CASE AdmitCommit(t)
  BY <1>9 DEF AdmitCommit
<1>10. CASE AdmitFail(t)
  BY <1>10 DEF AdmitFail
<1>11. CASE EndAdmit(t)
  BY <1>11 DEF EndAdmit
<1>12. CASE EndRetry(t)
  BY <1>12 DEF EndRetry
<1>13. CASE EvictSkip(t)
  BY <1>13 DEF EvictSkip
<1>14. CASE EvictBegin(t)
  BY <1>14 DEF EvictBegin
<1>15. CASE EvictCommit(t)
  BY <1>15 DEF EvictCommit
<1>16. CASE EndEvict(t)
  BY <1>16 DEF EndEvict
<1>17. CASE BatchInclude(t)
  BY <1>17 DEF BatchInclude
<1>18. CASE BatchExclude(t)
  BY <1>18 DEF BatchExclude
<1>19. CASE EndBatch(t)
  BY <1>19 DEF EndBatch
<1>20. CASE RetireKeep(t)
  BY <1>20 DEF RetireKeep
<1>21. CASE RetireBegin(t)
  BY <1>21 DEF RetireBegin
<1>22. CASE RetireCommit(t)
  BY <1>22 DEF RetireCommit
<1>23. CASE EndSchedule(t)
  BY <1>23 DEF EndSchedule
<1>24. CASE ReportUnknown(t)
  BY <1>24 DEF ReportUnknown
<1>25. CASE ReportToken(t)
  BY <1>25 DEF ReportToken
<1>26. CASE ReportCommit(t)
  BY <1>26 DEF ReportCommit
<1>27. CASE ReportFail(t)
  BY <1>27 DEF ReportFail
<1>28. CASE EndReport(t)
  BY <1>28 DEF EndReport
<1>29. CASE EndRemove(t)
  BY <1>29 DEF EndRemove
<1>30. CASE FreeHeadBlock(t)
  BY <1>30
<1>31. CASE AllocBlock(t)
  BY <1>31 DEF AllocBlock, Alloc, SchedTypeOK
<1>32. CASE OwnAllocFails(t)
  BY <1>32 DEF OwnAllocFails
<1>33. CASE DropOwnBlocks(t)
  BY <1>33 DEF DropOwnBlocks
<1>. QED  BY <1>1, <1>2, <1>3, <1>4, <1>5, <1>6, <1>7, <1>8, <1>9, <1>10, <1>11, <1>12,
             <1>13, <1>14, <1>15, <1>16, <1>17, <1>18, <1>19, <1>20, <1>21, <1>22,
             <1>23, <1>24, <1>25, <1>26, <1>27, <1>28, <1>29, <1>30, <1>31, <1>32, <1>33
          DEF SchedStep, ScheduleStep, ReportStep

\* While the only thread executes its batch nobody has the mutex.
LEMMA AloneUnlocked ==
  ASSUME OneThread, EngineInv, NEW t \in Threads, Executing(t)
  PROVE  lock = NoThread
<1>1. lock # t
  BY DEF EngineInv, LabelsFit, LabelFits, Executing
<1>. QED  BY <1>1 DEF OneThread, EngineInv, SchedInv, SchedTypeOK

LEMMA BlocksStep ==
  ASSUME OneThread, EngineInv, LoopsFit, CopyFits, BlocksFit, NEW t \in Threads, EngineStep(t)
  PROVE  BlocksFit'
<1>. USE DEF EngineInv, SchedInv
<1>a. /\ copy[t] \in [rid : Rids, seq : Nat, table : Seq(Blocks)] /\ pos[t] \in Nat
      /\ got[t] \in Seq(Blocks)
  BY DEF EngineTypeOK, SchedTypeOK
<1>1. CASE FreeHeadBlock(t)
  BY <1>1, FreeFitsBlocks
<1>2. CASE PrefillWrite(t)
  <2>1. lock = NoThread
    BY <1>2, AloneUnlocked DEF PrefillWrite, At, Executing
  <2>2. pc[t] = "prefill" /\ CopyTable(t) \in Seq(Blocks)
    BY <1>a, <1>2 DEF PrefillWrite, At, CopyTable
  <2>3. CopyTable(t) = table[copy[t].rid] \/ CopyTable(t) = got[t]
    BY <2>2 DEF CopyFits, CopyTable
  <2>4. /\ kv' = Written(CopyTable(t), pos[t], <<copy[t].rid, pos[t]>>)
        /\ UNCHANGED <<isFree, table, got, lock, phase, scan>>
    BY <1>2 DEF PrefillWrite
  <2>. QED  BY <1>a, <2>1, <2>2, <2>3, <2>4, WriteFits
<1>3. CASE DecodeWrite(t)
  <2>1. lock = NoThread
    BY <1>3, AloneUnlocked DEF DecodeWrite, At, Executing
  <2>2. copy[t].table = table[copy[t].rid]
    BY <1>3 DEF DecodeWrite, At, CopyFits
  <2> DEFINE p == copy[t].seq - 1
  <2>3. p \in Nat
    BY <1>a, <1>3 DEF DecodeWrite, At, DecodesUsed
  <2>4. /\ kv' = Written(copy[t].table, p, <<copy[t].rid, p>>)
        /\ UNCHANGED <<isFree, table, got, lock, phase, scan>>
    BY <1>3 DEF DecodeWrite
  <2>. HIDE DEF p
  <2>. QED  BY <1>a, <2>1, <2>2, <2>3, <2>4, WriteFits
<1>4. CASE kv' = kv /\ ~FreeHeadBlock(t)
  <2>1. CASE OffScheduler
    BY <1>4, <2>1 DEF OffScheduler, BlocksFit, InGot, Freeing, OwnEntries
  <2>2. CASE SchedStep(t)
    <3>1. \A b \in Blocks : isFree'[b] => isFree[b]
      BY <1>4, <2>2, FreesOnly
    <3>2. \A b \in Blocks : isFree'[b] => kv'[b] = ZeroedBlock
      BY <1>4, <3>1 DEF BlocksFit
    <3>3. \A u \in Threads, b \in Blocks : lock' = u /\ InGot(u, b)' => kv'[b] = ZeroedBlock
      BY <1>4, <2>2, GotZeroed
    <3>4. ASSUME NEW r \in Rids, ~Freeing(r)', NEW i \in 1 .. Len(table'[r])
          PROVE  OwnEntries(r, i, table[r][i])'
      <4>1. OwnEntries(r, i, table'[r][i])
        BY <1>4, <2>2, <3>4, TablesHold
      <4>. QED  BY <1>4, <4>1 DEF OwnEntries
    <3>. QED  BY <3>2, <3>3, <3>4 DEF BlocksFit
  <2>. QED  BY <2>1, <2>2, EngineUsesScheduler
<1>5. CASE AdmitCommit(t)
  <2>1. kv' = kv /\ ~FreeHeadBlock(t)
    BY <1>5, NothingRestored DEF AdmitCommit, FreeHeadBlock, Admitting, Holds
  <2>. QED  BY <1>4, <2>1
<1>. QED  BY <1>1, <1>2, <1>3, <1>4, <1>5, KvChanges

-----------------------------------------------------------------------------
(***************************************************************************)
(* The invariant of an engine with one thread.                             *)
(***************************************************************************)

SoleInv ==
  /\ EngineInv /\ LoopsFit
  /\ TablesFit /\ ReportsFit /\ JobFits /\ CopyFits /\ BlocksFit

LEMMA SoleInit == EngineInit => SoleInv
<1>. SUFFICES ASSUME EngineInit PROVE SoleInv
  OBVIOUS
<1>1. SchedInit
  BY DEF EngineInit
<1>2. EngineInv /\ LoopsFit
  BY EngineInitInv, LoopsInit
<1>3. TablesFit /\ ReportsFit
  BY <1>1, ThreadAssumption DEF SchedInit, TablesFit, ReportsFit, Holds
<1>4. JobFits /\ CopyFits
  BY DEF EngineInit, JobFits, CopyFits, Executing, Decoding
<1>5. BlocksFit
  BY <1>1, EmptyHolds DEF SchedInit, PoolInit, BlocksFit, InGot
<1>. QED  BY <1>2, <1>3, <1>4, <1>5 DEF SoleInv

LEMMA SoleFrame ==
  ASSUME SoleInv, UNCHANGED pagedVars
  PROVE  SoleInv'
<1>. USE DEF SoleInv
<1>1. EngineInv' /\ LoopsFit'
  <2>1. OffScheduler /\ SampledFits'
    BY DEF OffScheduler, LoopsFit, SampledFits
  <2>. QED  BY <2>1, EngineInvFrame, LoopsFrame
<1>2. TablesFit' /\ ReportsFit'
  BY DEF TablesFit, RunningNow, ReportsFit, Holds, Finished
<1>3. JobFits' /\ CopyFits'
  BY DEF JobFits, CopyFits, Executing, Decoding, Finished, SeqLen
<1>4. BlocksFit'
  BY DEF BlocksFit, InGot, Freeing, OwnEntries
<1>. QED  BY <1>1, <1>2, <1>3, <1>4

LEMMA SoleNext ==
  ASSUME OneThread, SoleInv, [EngineNext]_pagedVars
  PROVE  SoleInv'
<1>1. ASSUME NEW t \in Threads, EngineStep(t)
      PROVE  SoleInv'
  <2>. USE DEF SoleInv
  <2>1. EngineInv' /\ LoopsFit'
    BY <1>1, EngineInvStep, LoopsStep
  <2>2. TablesFit' /\ ReportsFit'
    BY <1>1, TablesFitStep, ReportsFitStep
  <2>3. JobFits' /\ CopyFits'
    BY <1>1, JobStep, CopyStep
  <2>4. BlocksFit'
    BY <1>1, BlocksStep
  <2>. QED  BY <2>1, <2>2, <2>3, <2>4
<1>2. CASE EngineNext
  BY <1>1, <1>2, EngineNextIsStep
<1>3. CASE UNCHANGED pagedVars
  BY <1>3, SoleFrame
<1>. QED  BY <1>2, <1>3

LEMMA SoleInduction ==
  ASSUME OneThread
  PROVE  EngineSpec => []SoleInv
  BY SoleNext, SoleInit, PTL DEF EngineSpec

(***************************************************************************)
(* KV isolation, for every size of the pool, of its blocks and of the      *)
(* requests: no request ever finds in its blocks what another wrote, or    *)
(* what an earlier life of a block left.  free() clears a block and        *)
(* nothing is written to it until it is in a table again, and then only    *)
(* by its request, each position to its own slot.                          *)
(***************************************************************************)
THEOREM KvIsolationCorrect ==
  ASSUME OneThread
  PROVE  EngineSpec => []KvIsolation
<1>1. SoleInv => KvIsolation
  <2>. SUFFICES ASSUME SoleInv, lock = NoThread
                PROVE  \A r \in Rids : \A i \in 1 .. Len(table[r]) : OwnEntries(r, i, table[r][i])
    BY DEF KvIsolation, OwnEntries
  <2>1. phase = "idle"
    BY DEF SoleInv, EngineInv, SchedInv, QueueInv, LocksFit
  <2>. QED  BY <2>1 DEF SoleInv, BlocksFit, Freeing
<1>. QED  BY <1>1, SoleInduction, PTL

(***************************************************************************)
(* Who finished and has left running_ has given everything back: the last  *)
(* loop of schedule() retires a finished request only with its blocks, and *)
(* nothing gives it blocks afterwards.                                     *)
(***************************************************************************)
THEOREM FinishedIsReapedCorrect ==
  ASSUME OneThread
  PROVE  EngineSpec => []FinishedIsReaped
<1>1. SoleInv => FinishedIsReaped
  <2>. SUFFICES ASSUME SoleInv, lock = NoThread, NEW r \in Rids, ~Contains(running, r)
                PROVE  table[r] = <<>> /\ ckpt[r] = <<>>
    BY DEF FinishedIsReaped, SoleInv, EngineInv, SchedInv, SchedTypeOK
  <2>1. phase = "idle"
    BY DEF SoleInv, EngineInv, SchedInv, QueueInv, LocksFit
  <2>2. RunningNow = running
    BY <2>1 DEF RunningNow
  <2>3. table[r] = <<>>
    BY <2>2 DEF SoleInv, TablesFit, Occurs, Contains
  <2>4. ckpt[r] = <<>>
    BY <2>1 DEF SoleInv, LoopsFit, CkptFits
  <2>. QED  BY <2>3, <2>4
<1>. QED  BY <1>1, SoleInduction, PTL

-----------------------------------------------------------------------------
(***************************************************************************)
(* The life of a request.  What each step does to its state, its queue and *)
(* its tokens.                                                             *)
(***************************************************************************)

\* A queue that loses the head of its second part loses that element and no other.
LEMMA HeadLeaves ==
  ASSUME NEW S, NEW s \in Seq(S), NEW u \in Seq(S), u # <<>>, NoneTwice(s \o u)
  PROVE  \A c : Occurs(s \o Tail(u), c) <=> Occurs(s \o u, c) /\ c # Head(u)
<1> DEFINE w == s \o u
           i == Len(s) + 1
<1>1. /\ s \o Tail(u) = RemoveAt(w, i) /\ i \in 1 .. Len(w) /\ w[i] = Head(u)
  BY HeadMoves
<1>2. w \in Seq(S) /\ NoneTwice(w)
  BY ConcatProperties
<1>. HIDE DEF w, i
<1>3. \A c : Occurs(RemoveAt(w, i), c) <=> Occurs(w, c) /\ c # w[i]
  BY <1>1, <1>2, RemoveAtHolds
<1>. QED  BY <1>1, <1>3 DEF w

\* Who is in a queue was there, or is the request the step moves.
LEMMA QueueMoves ==
  ASSUME SchedInv, NEW t \in Threads, SchedStep(t), NEW r \in Rids
  PROVE  /\ Occurs(WaitingNow', r) =>
              /\ ~(EndRemove(t) /\ r = Head(scan))
              /\ \/ Occurs(WaitingNow, r) /\ ~(AdmitCommit(t) /\ r = Head(scan))
                 \/ EvictCommit(t) /\ r = Head(scan)
                 \/ r = nextId /\ state' = state
         /\ Occurs(RunningNow', r) =>
              \/ Occurs(RunningNow, r)
              \/ (AdmitEmpty(t) \/ AdmitCommit(t)) /\ r = Head(scan)
<1>. USE DEF SchedInv, QueueInv
<1>a. /\ WaitingNow \in Seq(Rids) /\ RunningNow \in Seq(Rids)
      /\ NoneTwice(WaitingNow) /\ NoneTwice(RunningNow)
  BY NowType DEF InOneQueue
<1>1. CASE ~MovingStep(t)
  <2>1. UNCHANGED <<WaitingNow, RunningNow>>
    BY <1>1, StillStep
  <2>. QED  BY <1>1, <2>1 DEF MovingStep
<1>2. CASE \E n \in PromptLens, m \in MaxNews : Submit(t, n, m)
  <2>1. /\ WaitingNow' = Append(WaitingNow, nextId) /\ RunningNow' = RunningNow
        /\ state' = state
    BY <1>2, SubmitMoves
  <2>2. nextId \in Rids
    BY <1>2, RequestAssumption DEF SchedTypeOK, Submit, Rids
  <2>3. Occurs(WaitingNow', r) => Occurs(WaitingNow, r) \/ r = nextId
    BY <1>a, <2>1, <2>2, AppendHolds
  <2>4. ~EndRemove(t) /\ ~AdmitCommit(t)
    BY <1>2, ThreadAssumption DEF Submit, EndRemove, AdmitCommit, Admitting, Holds
  <2>. QED  BY <2>1, <2>3, <2>4
<1>3. CASE AdmitEmpty(t) \/ AdmitCommit(t)
  <2> DEFINE h == Head(scan)
  <2>1. /\ WaitingNow = kept \o scan /\ WaitingNow' = kept \o Tail(scan)
        /\ RunningNow' = Append(RunningNow, h) /\ scan # <<>> /\ h \in Rids
    BY <1>3, AdmitMoves
  <2>2. Occurs(WaitingNow', r) <=> Occurs(WaitingNow, r) /\ r # h
    BY <1>a, <2>1, HeadLeaves DEF SchedTypeOK
  <2>3. Occurs(RunningNow', r) => Occurs(RunningNow, r) \/ r = h
    BY <1>a, <2>1, AppendHolds
  <2>4. ~EndRemove(t)
    BY <1>3 DEF AdmitEmpty, AdmitCommit, EndRemove, Admitting, Holds
  <2>. QED  BY <1>3, <2>2, <2>3, <2>4
<1>4. CASE EvictCommit(t)
  <2> DEFINE h == Head(scan)
  <2>1. /\ WaitingNow = waiting /\ WaitingNow' = <<h>> \o waiting
        /\ RunningNow = running /\ RunningNow' = Without(running, h) /\ h \in Rids
    BY <1>4, EvictMoves
  <2>2. Occurs(WaitingNow', r) => Occurs(WaitingNow, r) \/ r = h
    <3>1. <<h>> \in Seq(Rids) /\ \A c : Occurs(<<h>>, c) <=> c = h
      BY <2>1 DEF Occurs
    <3>2. waiting \in Seq(Rids)
      BY DEF SchedTypeOK
    <3>3. \A c : Occurs(<<h>> \o waiting, c) <=> Occurs(<<h>>, c) \/ Occurs(waiting, c)
      <4>1. <<h>> \in Seq(Rids)
        BY <3>1
      <4>. QED  BY <3>2, <4>1, ConcatHolds
    <3>. QED  BY <2>1, <3>1, <3>3
  <2>3. Occurs(RunningNow', r) => Occurs(RunningNow, r)
    BY <1>a, <2>1, WithoutHolds
  <2>4. ~EndRemove(t) /\ ~AdmitCommit(t)
    BY <1>4 DEF EvictCommit, EndRemove, AdmitCommit, Admitting, Holds
  <2>. QED  BY <1>4, <2>2, <2>3, <2>4
<1>5. CASE RetireCommit(t)
  <2> DEFINE h == Head(scan)
  <2>1. /\ WaitingNow' = WaitingNow
        /\ RunningNow = kept \o scan /\ RunningNow' = kept \o Tail(scan)
        /\ scan # <<>> /\ h \in Rids
    BY <1>5, RetireMoves
  <2>2. Occurs(RunningNow', r) => Occurs(RunningNow, r)
    BY <1>a, <2>1, HeadLeaves DEF SchedTypeOK
  <2>3. ~EndRemove(t) /\ ~AdmitCommit(t)
    BY <1>5 DEF RetireCommit, EndRemove, AdmitCommit, Admitting, Holds
  <2>. QED  BY <2>1, <2>2, <2>3
<1>6. CASE EndRemove(t)
  <2> DEFINE h == Head(scan)
  <2>1. /\ WaitingNow = waiting /\ WaitingNow' = Without(waiting, h)
        /\ RunningNow = running /\ RunningNow' = Without(running, h)
    BY <1>6, RemoveMoves
  <2>2. /\ Occurs(WaitingNow', r) => Occurs(WaitingNow, r) /\ r # h
        /\ Occurs(RunningNow', r) => Occurs(RunningNow, r)
    BY <1>a, <2>1, WithoutHolds
  <2>3. ~AdmitCommit(t)
    BY <1>6 DEF EndRemove, AdmitCommit, Admitting, Holds
  <2>. QED  BY <2>2, <2>3
<1>. QED  BY <1>1, <1>2, <1>3, <1>4, <1>5, <1>6 DEF MovingStep

\* A token is reported to a request that runs and has tokens left.
LEMMA ReportedRuns ==
  ASSUME SchedInv, TablesFit, ReportsFit, NEW t \in Threads, ReportToken(t)
  PROVE  LET h == Head(reports)[1] IN
         /\ h \in Rids /\ h \in known /\ state[h] = "RUNNING" /\ genLen[h] < maxNew[h]
         /\ Occurs(RunningNow, h)
         /\ genLen' = [genLen EXCEPT ![h] = @ + 1]
         /\ state' = state \/ state' = [state EXCEPT ![h] = "FINISHED"]
<1> DEFINE h == Head(reports)[1]
<1>1. Holds(t, "report") /\ reports # <<>> /\ reports \in Seq(Report) /\ want[t] = 0
  BY DEF ReportToken, NotAllocating, SchedInv, SchedTypeOK
<1>2. h \in Rids /\ Occurs(ReportRids(reports), h)
  <2>1. /\ ReportRids(reports) \in Seq(Rids) /\ ReportRids(reports) # <<>>
        /\ Head(ReportRids(reports)) = h
    BY <1>1, ReportRidsTail, ReportRidsType
  <2>. HIDE DEF h
  <2>. QED  BY <2>1, HeadOccurs
<1>. HIDE DEF h
<1>3. table[h] # <<>> /\ ~Finished(h)
  BY <1>1, <1>2 DEF ReportsFit
<1>4. /\ state[h] = "RUNNING" /\ Occurs(RunningNow, h) /\ ~(genLen[h] >= maxNew[h])
  BY <1>2, <1>3 DEF TablesFit, Finished
<1>5. genLen[h] \in Nat /\ maxNew[h] \in Nat
  BY <1>2 DEF SchedInv, SchedTypeOK
<1>. QED  BY <1>2, <1>4, <1>5 DEF ReportToken, Reportable, h

\* The five ways a request's state can change, and who they happen to.
StateMove(t, r) ==
  \/ AdmitCommit(t) /\ r = Head(scan) /\ Occurs(WaitingNow, r) /\ state'[r] = "RUNNING"
  \/ EvictCommit(t) /\ r = Head(scan) /\ state[r] = "RUNNING" /\ state'[r] = "PREEMPTED"
  \/ /\ RetireBegin(t) /\ r = Head(scan) /\ Occurs(RunningNow, r) /\ Finished(r)
     /\ state'[r] = "FINISHED"
  \/ /\ ReportToken(t) /\ r = Head(reports)[1]
     /\ state[r] = "RUNNING" /\ state'[r] = "FINISHED"
  \/ EndRemove(t) /\ r = Head(scan) /\ state'[r] = "FINISHED"

LEMMA StateMoves ==
  ASSUME SchedInv, TablesFit, ReportsFit, NEW t \in Threads, SchedStep(t), NEW r \in Rids
  PROVE  state'[r] = state[r] \/ StateMove(t, r)
<1>. USE DEF SchedInv, QueueInv
<1>a. state \in [Rids -> RequestStates]
  BY DEF SchedTypeOK
<1>1. CASE AdmitCommit(t)
  <2>1. Head(scan) \in Rids /\ scan # <<>> /\ phase \in {"admit", "retry"}
    BY <1>1, AdmitMoves DEF AdmitCommit, Admitting, Holds
  <2>2. Occurs(WaitingNow, Head(scan))
    BY <2>1, HeadIsQueued
  <2>3. state' = [state EXCEPT ![Head(scan)] = "RUNNING"]
    BY <1>1 DEF AdmitCommit
  <2>. QED  BY <1>a, <1>1, <2>1, <2>2, <2>3 DEF StateMove
<1>2. CASE EvictCommit(t)
  <2>1. state[Head(scan)] = "RUNNING"
    BY <1>2 DEF EvictCommit, Holds, FreeFits
  <2>2. state' = [state EXCEPT ![Head(scan)] = "PREEMPTED"] /\ Head(scan) \in Rids
    BY <1>2, EvictMoves
  <2>. QED  BY <1>a, <1>2, <2>1, <2>2 DEF StateMove
<1>3. CASE RetireBegin(t)
  <2>1. phase = "retire" /\ scan # <<>>
    BY <1>3 DEF RetireBegin, Holds
  <2>2. Occurs(RunningNow, Head(scan)) /\ Head(scan) \in Rids
    BY <2>1, HeadIsQueued, ScanType
  <2>3. state' = [state EXCEPT ![Head(scan)] = "FINISHED"] /\ Finished(Head(scan))
    BY <1>3 DEF RetireBegin
  <2>. QED  BY <1>a, <1>3, <2>2, <2>3 DEF StateMove
<1>4. CASE ReportToken(t)
  BY <1>a, <1>4, ReportedRuns DEF StateMove
<1>5. CASE EndRemove(t)
  <2>1. state' = [state EXCEPT ![Head(scan)] = "FINISHED"] /\ Head(scan) \in Rids
    BY <1>5, RemoveMoves
  <2>. QED  BY <1>a, <1>5, <2>1 DEF StateMove
<1>6. CASE state' = state
  BY <1>6
<1>. QED  BY <1>1, <1>2, <1>3, <1>4, <1>5, <1>6, StepChanges

\* tokens stay within the limit, and who waits for the first time has none
TokensFit ==
  /\ \A r \in Rids : genLen[r] <= maxNew[r] /\ (state[r] = "WAITING" => genLen[r] = 0)
  /\ \A r \in Rids : r < nextId => promptLen[r] \in PromptLens /\ maxNew[r] \in MaxNews

\* nobody who finished waits, and only a request with nothing to compute runs unannounced
PlacesFit ==
  \A r \in Rids : /\ Occurs(WaitingNow, r) => state[r] # "FINISHED"
                  /\ Occurs(RunningNow, r) /\ state[r] = "WAITING" => SeqLen(r) = 0

LEMMA TokensStep ==
  ASSUME SchedInv, TablesFit, ReportsFit, TokensFit, NEW t \in Threads, SchedStep(t)
  PROVE  TokensFit'
<1>. USE DEF SchedInv
<1>a. /\ genLen \in [Rids -> Nat] /\ maxNew \in [Rids -> Nat] /\ promptLen \in [Rids -> Nat]
  BY DEF SchedTypeOK
<1>b. \A r \in Rids : state'[r] = "WAITING" => state[r] = "WAITING"
  BY StateMoves DEF StateMove
<1>1. CASE ReportToken(t)
  <2> DEFINE h == Head(reports)[1]
  <2>1. /\ h \in Rids /\ state[h] = "RUNNING" /\ genLen[h] < maxNew[h]
        /\ genLen' = [genLen EXCEPT ![h] = @ + 1]
    BY <1>1, ReportedRuns
  <2>2. UNCHANGED <<nextId, promptLen, maxNew>>
    BY <1>1 DEF ReportToken
  <2>. HIDE DEF h
  <2>3. \A r \in Rids : genLen'[r] = IF r = h THEN genLen[h] + 1 ELSE genLen[r]
    BY <1>a, <2>1
  <2>. QED  BY <1>a, <1>b, <2>1, <2>2, <2>3 DEF TokensFit
<1>2. CASE \E n \in PromptLens, m \in MaxNews : Submit(t, n, m)
  <2>1. PICK n \in PromptLens, m \in MaxNews : Submit(t, n, m)
    BY <1>2
  <2>2. /\ promptLen' = [promptLen EXCEPT ![nextId] = n]
        /\ maxNew' = [maxNew EXCEPT ![nextId] = m]
        /\ nextId' = nextId + 1 /\ genLen' = genLen /\ state' = state
    BY <2>1 DEF Submit
  <2>3. nextId \in Rids /\ nextId \in Nat /\ m \in Nat
    BY <2>1, RequestAssumption DEF SchedTypeOK, Submit, Rids
  <2>4. \A r \in Rids : /\ promptLen'[r] = IF r = nextId THEN n ELSE promptLen[r]
                        /\ maxNew'[r] = IF r = nextId THEN m ELSE maxNew[r]
    BY <1>a, <2>2
  <2>5. state[nextId] = "WAITING"
    BY <2>3 DEF QueueInv, StatesFit
  <2>6. ASSUME NEW r \in Rids
        PROVE  /\ genLen'[r] <= maxNew'[r] /\ (state'[r] = "WAITING" => genLen'[r] = 0)
               /\ r < nextId' => promptLen'[r] \in PromptLens /\ maxNew'[r] \in MaxNews
    <3>1. r \in Nat
      BY DEF Rids
    <3>2. CASE r = nextId
      BY <2>2, <2>3, <2>4, <2>5, <3>2 DEF TokensFit
    <3>3. CASE r # nextId
      BY <2>2, <2>3, <2>4, <3>1, <3>3 DEF TokensFit
    <3>. QED  BY <3>2, <3>3
  <2>. QED  BY <2>6 DEF TokensFit
<1>3. CASE UNCHANGED <<nextId, promptLen, maxNew, genLen>>
  BY <1>b, <1>3 DEF TokensFit
<1>. QED  BY <1>1, <1>2, <1>3, StepChanges

LEMMA PlacesStep ==
  ASSUME SchedInv, TablesFit, ReportsFit, PlacesFit, NEW t \in Threads, SchedStep(t)
  PROVE  PlacesFit'
<1>. USE DEF SchedInv
<1>1. ASSUME NEW r \in Rids, Occurs(WaitingNow', r)
      PROVE  state'[r] # "FINISHED"
  <2>1. CASE EvictCommit(t) /\ r = Head(scan)
    <3>1. state' = [state EXCEPT ![r] = "PREEMPTED"]
      BY <2>1, EvictMoves
    <3>. QED  BY <3>1 DEF SchedTypeOK
  <2>2. CASE r = nextId /\ state' = state
    BY <2>2 DEF QueueInv, StatesFit, SchedTypeOK
  <2>3. CASE Occurs(WaitingNow, r)
    <3>1. state[r] # "FINISHED" /\ ~Occurs(RunningNow, r)
      BY <2>3 DEF PlacesFit, QueueInv, InOneQueue
    <3>2. ~(EndRemove(t) /\ r = Head(scan))
      BY <1>1, QueueMoves
    <3>3. ~(ReportToken(t) /\ r = Head(reports)[1])
      BY <3>1, ReportedRuns
    <3>. QED  BY <3>1, <3>2, <3>3, StateMoves DEF StateMove
  <2>. QED  BY <1>1, <2>1, <2>2, <2>3, QueueMoves
<1>2. ASSUME NEW r \in Rids, Occurs(RunningNow', r), state'[r] = "WAITING"
      PROVE  SeqLen(r)' = 0
  <2>1. state[r] = "WAITING"
    BY <1>2, StateMoves DEF StateMove
  <2>2. CASE AdmitEmpty(t) /\ r = Head(scan)
    <3>1. ~(SeqLen(r) > 0) /\ SeqLen(r) \in Nat /\ UNCHANGED <<promptLen, genLen>>
      BY <2>2, PositiveBlocks, NumBlocksNat DEF AdmitEmpty
    <3>. QED  BY <3>1 DEF SeqLen
  <2>3. CASE AdmitCommit(t) /\ r = Head(scan)
    <3>1. state' = [state EXCEPT ![r] = "RUNNING"]
      BY <2>3 DEF AdmitCommit
    <3>. QED  BY <1>2, <3>1 DEF SchedTypeOK
  <2>4. CASE Occurs(RunningNow, r)
    <3>1. SeqLen(r) = 0 /\ r \in known
      BY <2>1, <2>4 DEF PlacesFit, QueueInv, InOneQueue
    <3>2. r # nextId
      BY <3>1 DEF QueueInv, StatesFit, SchedTypeOK, Rids
    <3>3. promptLen'[r] = promptLen[r]
      BY <3>2, StepChanges DEF Submit, SchedTypeOK
    <3>4. genLen'[r] = genLen[r]
      <4>1. CASE ReportToken(t)
        BY <2>1, <4>1, ReportedRuns DEF SchedTypeOK
      <4>. QED  BY <4>1, StepChanges
    <3>. QED  BY <3>1, <3>3, <3>4 DEF SeqLen
  <2>. QED  BY <1>2, <2>2, <2>3, <2>4, QueueMoves
<1>. QED  BY <1>1, <1>2 DEF PlacesFit

-----------------------------------------------------------------------------
(***************************************************************************)
(* Every step maps to a step of RequestLife or to none.                    *)
(***************************************************************************)

LEMMA StatusBecomes ==
  ASSUME NEW r \in Rids, NEW s, LifeStatus'[r] = s,
         \A q \in Rids : q # r => LifeStatus'[q] = LifeStatus[q]
  PROVE  Life!Becomes(r, s)
<1>1. /\ LifeStatus = [q \in Rids |-> LifeStatus[q]]
      /\ LifeStatus' = [q \in Rids |-> LifeStatus'[q]]
  BY DEF LifeStatus
<1>2. LifeStatus' = [LifeStatus EXCEPT ![r] = s]
  <2> DEFINE f == LifeStatus
             g == LifeStatus'
  <2>. HIDE DEF f, g
  <2>1. f = [q \in Rids |-> f[q]] /\ g = [q \in Rids |-> g[q]]
    BY <1>1 DEF f, g
  <2>2. g[r] = s /\ \A q \in Rids : q # r => g[q] = f[q]
    BY DEF f, g
  <2>3. g = [f EXCEPT ![r] = s]
    BY <2>1, <2>2
  <2>. QED  BY <2>3 DEF f, g
<1>. QED  BY <1>2 DEF Life!Becomes

LEMMA StatusStays ==
  ASSUME \A q \in Rids : LifeStatus'[q] = LifeStatus[q]
  PROVE  LifeStatus' = LifeStatus
  BY DEF LifeStatus

\* Nothing but its state and its place in requests_ tells a request's status.
LEMMA StatusKept ==
  ASSUME NEW q \in Rids, state'[q] = state[q], q \in known' <=> q \in known, nextId' = nextId
  PROVE  LifeStatus'[q] = LifeStatus[q]
  BY DEF LifeStatus

LEMMA LifeStep ==
  ASSUME SchedInv, TablesFit, ReportsFit, TokensFit, PlacesFit,
         0 \notin PromptLens \/ 0 \notin MaxNews, NEW t \in Threads, SchedStep(t)
  PROVE  Life!LifeNext \/ UNCHANGED Life!lifeVars
<1>. USE DEF SchedInv
<1>a. /\ state \in [Rids -> RequestStates] /\ known \subseteq Rids
      /\ genLen \in [Rids -> Nat] /\ maxNew \in [Rids -> Nat]
  BY DEF SchedTypeOK
<1>b. \A r \in known : r < nextId /\ r \in Rids
  BY <1>a DEF QueueInv, StatesFit
<1>1. CASE \E n \in PromptLens, m \in MaxNews : Submit(t, n, m)
  <2>1. PICK n \in PromptLens, m \in MaxNews : Submit(t, n, m)
    BY <1>1
  <2>2. nextId \in Rids /\ nextId \in Nat /\ nextId \notin known
    BY <1>b, <2>1, RequestAssumption DEF SchedTypeOK, Submit, Rids
  <2>3. /\ state' = state /\ known' = known \cup {nextId} /\ nextId' = nextId + 1
        /\ genLen' = genLen /\ maxNew' = [maxNew EXCEPT ![nextId] = m]
    BY <2>1 DEF Submit
  <2>4. state[nextId] = "WAITING"
    BY <2>2 DEF QueueInv, StatesFit
  <2>5. LifeStatus[nextId] = "absent" /\ LifeStatus'[nextId] = "queued"
    BY <2>2, <2>3, <2>4 DEF LifeStatus
  <2>6. ASSUME NEW q \in Rids, q # nextId
        PROVE  LifeStatus'[q] = LifeStatus[q]
    BY <2>2, <2>3, <2>6 DEF LifeStatus, Rids
  <2>7. Life!Becomes(nextId, "queued")
    BY <2>2, <2>5, <2>6, StatusBecomes
  <2>8. LifeStatus[nextId] = "absent"
    BY <2>2, <2>5 DEF LifeStatus
  <2>9. Life!Arrive(nextId)
    BY <2>3, <2>7, <2>8 DEF Life!Arrive
  <2>. QED  BY <2>2, <2>9 DEF Life!LifeNext
<1>2. CASE AdmitCommit(t)
  <2> DEFINE h == Head(scan)
  <2>1. h \in Rids /\ UNCHANGED <<known, nextId, genLen, maxNew>>
    BY <1>2, AdmitMoves DEF AdmitCommit
  <2>2. scan # <<>> /\ phase \in {"admit", "retry"}
    BY <1>2, AdmitMoves DEF AdmitCommit, Admitting, Holds
  <2>3. Occurs(WaitingNow, h) /\ state' = [state EXCEPT ![h] = "RUNNING"]
    BY <1>2, <2>2, HeadIsQueued DEF QueueInv, AdmitCommit
  <2>. HIDE DEF h
  <2>4. h \in known /\ state[h] # "FINISHED" /\ state'[h] = "RUNNING"
    BY <1>a, <2>1, <2>3 DEF PlacesFit, QueueInv, InOneQueue
  <2>5. \A q \in Rids : q # h => LifeStatus'[q] = LifeStatus[q]
    BY <1>a, <2>1, <2>3, StatusKept
  <2>6. LifeStatus[h] \in {"queued", "active"} /\ LifeStatus'[h] = "active"
    BY <1>a, <2>1, <2>4 DEF LifeStatus, RequestStates
  <2>7. CASE LifeStatus[h] = "queued"
    <3>1. LifeStatus[h] = "queued"
      BY <2>1, <2>7 DEF LifeStatus
    <3>2. Life!Becomes(h, "active")
      BY <2>1, <2>5, <2>6, StatusBecomes
    <3>. QED  BY <2>1, <3>1, <3>2 DEF Life!Start, Life!LifeNext
  <2>8. CASE LifeStatus[h] = "active"
    <3>1. \A q \in Rids : LifeStatus'[q] = LifeStatus[q]
      BY <2>5, <2>6, <2>8
    <3>. QED  BY <2>1, <3>1, StatusStays DEF Life!lifeVars
  <2>. QED  BY <2>6, <2>7, <2>8
<1>3. CASE EvictCommit(t)
  <2> DEFINE h == Head(scan)
  <2>1. /\ h \in Rids /\ UNCHANGED <<known, nextId, genLen, maxNew>>
        /\ state' = [state EXCEPT ![h] = "PREEMPTED"] /\ scan # <<>>
    BY <1>3, EvictMoves DEF EvictCommit
  <2>2. state[h] = "RUNNING" /\ phase = "evictFree"
    BY <1>3 DEF EvictCommit, Holds, QueueInv, FreeFits
  <2>3. Occurs(running, h) /\ RunningNow = running
    BY <2>1, <2>2, VictimRuns DEF RunningNow, QueueInv
  <2>. HIDE DEF h
  <2>4. h \in known /\ state'[h] = "PREEMPTED"
    BY <1>a, <2>1, <2>3 DEF QueueInv, InOneQueue
  <2>5. \A q \in Rids : q # h => LifeStatus'[q] = LifeStatus[q]
    BY <1>a, <2>1, StatusKept
  <2>6. LifeStatus[h] = "active" /\ LifeStatus'[h] = "queued"
    BY <2>1, <2>2, <2>4 DEF LifeStatus
  <2>7. LifeStatus[h] = "active"
    BY <2>1, <2>6 DEF LifeStatus
  <2>8. Life!Becomes(h, "queued")
    BY <2>1, <2>5, <2>6, StatusBecomes
  <2>. QED  BY <2>1, <2>7, <2>8 DEF Life!Preempt, Life!LifeNext
<1>4. CASE RetireBegin(t)
  <2> DEFINE h == Head(scan)
  <2>1. /\ phase = "retire" /\ scan # <<>> /\ h \in known /\ Finished(h)
        /\ UNCHANGED <<known, nextId, genLen, maxNew, promptLen>>
        /\ state' = [state EXCEPT ![h] = "FINISHED"]
    BY <1>4 DEF RetireBegin, Holds
  <2>2. Occurs(RunningNow, h) /\ h \in Rids
    BY <2>1, HeadIsQueued, ScanType DEF QueueInv
  <2>. HIDE DEF h
  <2>3. state'[h] = "FINISHED"
    BY <1>a, <2>1, <2>2
  <2>4. \A q \in Rids : q # h => LifeStatus'[q] = LifeStatus[q]
    BY <1>a, <2>1, <2>2, StatusKept
  <2>5. LifeStatus'[h] = "done"
    BY <2>1, <2>2, <2>3 DEF LifeStatus
  <2>6. CASE state[h] = "FINISHED"
    <3>1. LifeStatus[h] = "done"
      BY <2>1, <2>2, <2>6 DEF LifeStatus
    <3>2. \A q \in Rids : LifeStatus'[q] = LifeStatus[q]
      BY <2>4, <2>5, <3>1
    <3>. QED  BY <2>1, <3>2, StatusStays DEF Life!lifeVars
  <2>7. CASE state[h] # "FINISHED"
    <3>1. genLen[h] = maxNew[h]
      BY <1>a, <2>1, <2>2, <2>7 DEF Finished, TokensFit
    <3>2. state[h] # "WAITING"
      <4>1. SUFFICES ASSUME state[h] = "WAITING" PROVE FALSE
        OBVIOUS
      <4>2. SeqLen(h) = 0 /\ genLen[h] = 0
        BY <2>2, <4>1 DEF PlacesFit, TokensFit
      <4>3. promptLen[h] \in PromptLens /\ maxNew[h] \in MaxNews
        BY <1>b, <2>1 DEF TokensFit
      <4>4. promptLen[h] = 0 /\ maxNew[h] = 0
        BY <2>2, <3>1, <4>2 DEF SeqLen, SchedTypeOK
      <4>. QED  BY <4>3, <4>4
    <3>3. state[h] = "RUNNING"
      BY <1>a, <2>2, <2>7, <3>2 DEF QueueInv, StatesFit, RequestStates
    <3>4. LifeStatus[h] = "active"
      BY <2>1, <2>2, <3>3 DEF LifeStatus
    <3>5. Life!Becomes(h, "done")
      BY <2>2, <2>4, <2>5, StatusBecomes
    <3>. QED  BY <2>1, <2>2, <3>1, <3>4, <3>5 DEF Life!ReachLimit, Life!LifeNext
  <2>. QED  BY <2>6, <2>7
<1>5. CASE ReportToken(t)
  <2> DEFINE h == Head(reports)[1]
  <2>1. /\ h \in Rids /\ h \in known /\ state[h] = "RUNNING" /\ genLen[h] < maxNew[h]
        /\ genLen' = [genLen EXCEPT ![h] = @ + 1]
        /\ state' = state \/ state' = [state EXCEPT ![h] = "FINISHED"]
    BY <1>5, ReportedRuns
  <2>2. UNCHANGED <<known, nextId, maxNew>>
    BY <1>5 DEF ReportToken
  <2>. HIDE DEF h
  <2>3. LifeStatus[h] = "active" /\ LifeStatus[h] = "active"
    BY <2>1 DEF LifeStatus
  <2>4. \A q \in Rids : q # h => LifeStatus'[q] = LifeStatus[q]
    BY <1>a, <2>1, <2>2, StatusKept
  <2>5. UNCHANGED LifeStatus \/ Life!Becomes(h, "done")
    <3>1. CASE state' = state
      <4>1. \A q \in Rids : LifeStatus'[q] = LifeStatus[q]
        BY <2>2, <3>1, StatusKept
      <4>. QED  BY <4>1, StatusStays
    <3>2. CASE state' = [state EXCEPT ![h] = "FINISHED"]
      <4>1. LifeStatus'[h] = "done"
        BY <1>a, <2>1, <2>2, <3>2 DEF LifeStatus
      <4>. QED  BY <2>1, <2>4, <4>1, StatusBecomes
    <3>. QED  BY <2>1, <3>1, <3>2
  <2>6. Life!Generate(h)
    BY <2>1, <2>2, <2>3, <2>5 DEF Life!Generate
  <2>. QED  BY <2>1, <2>6 DEF Life!LifeNext
<1>6. CASE EndRemove(t)
  <2> DEFINE h == Head(scan)
  <2>1. /\ h \in Rids /\ known' = known \ {h} /\ UNCHANGED <<nextId, genLen>>
        /\ state' = [state EXCEPT ![h] = "FINISHED"]
    BY <1>6, RemoveMoves
  <2>2. h \in known /\ maxNew' = maxNew
    BY <1>6 DEF EndRemove, Holds, QueueInv, FreeFits
  <2>. HIDE DEF h
  <2>3. \A q \in Rids : q # h => LifeStatus'[q] = LifeStatus[q]
    BY <1>a, <2>1, StatusKept
  <2>4. LifeStatus'[h] = "gone"
    BY <1>b, <2>1, <2>2 DEF LifeStatus
  <2>5. LifeStatus[h] \in {"queued", "active", "done"}
    BY <2>1, <2>2 DEF LifeStatus
  <2>6. Life!Becomes(h, "gone")
    BY <2>1, <2>3, <2>4, StatusBecomes
  <2>. QED  BY <2>1, <2>2, <2>5, <2>6 DEF Life!Cancel, Life!LifeNext
<1>7. CASE UNCHANGED <<known, nextId, state, genLen, maxNew>>
  <2>1. \A q \in Rids : LifeStatus'[q] = LifeStatus[q]
    BY <1>7, StatusKept
  <2>. QED  BY <1>7, <2>1, StatusStays DEF Life!lifeVars
<1>. QED  BY <1>1, <1>2, <1>3, <1>4, <1>5, <1>6, <1>7, StepChanges

LEMMA StepOrStutter ==
  ASSUME SchedInv, EngineTypeOK, [EngineNext]_pagedVars
  PROVE  OffScheduler \/ \E t \in Threads : SchedStep(t)
<1>1. CASE EngineNext
  BY <1>1, EngineNextIsStep, EngineUsesScheduler DEF SchedInv
<1>2. CASE UNCHANGED pagedVars
  BY <1>2 DEF OffScheduler
<1>. QED  BY <1>1, <1>2

-----------------------------------------------------------------------------

LifeInv == SoleInv /\ TokensFit /\ PlacesFit

LEMMA LifeInit == EngineInit => LifeInv /\ Life!LifeInit
<1>. SUFFICES ASSUME EngineInit PROVE LifeInv /\ Life!LifeInit
  OBVIOUS
<1>1. SchedInit
  BY DEF EngineInit
<1>2. TokensFit
  BY <1>1 DEF SchedInit, TokensFit, Rids
<1>3. PlacesFit
  BY <1>1, EmptyHolds DEF SchedInit, PlacesFit, SeqLen
<1>4. Life!LifeInit
  BY <1>1 DEF SchedInit, Life!LifeInit, LifeStatus, Rids
<1>. QED  BY <1>2, <1>3, <1>4, SoleInit DEF LifeInv

LEMMA LifeInvStep ==
  ASSUME OneThread, LifeInv, [EngineNext]_pagedVars
  PROVE  LifeInv'
<1>. USE DEF LifeInv
<1>1. SoleInv'
  BY SoleNext
<1>2. CASE OffScheduler
  <2>1. TokensFit' /\ PlacesFit'
    BY <1>2 DEF OffScheduler, TokensFit, PlacesFit, WaitingNow, RunningNow, SeqLen
  <2>. QED  BY <1>1, <2>1
<1>3. ASSUME NEW t \in Threads, SchedStep(t)
      PROVE  LifeInv'
  <2>1. TokensFit' /\ PlacesFit'
    BY <1>3, TokensStep, PlacesStep DEF SoleInv, EngineInv
  <2>. QED  BY <1>1, <2>1
<1>. QED  BY <1>2, <1>3, StepOrStutter DEF SoleInv, EngineInv

(***************************************************************************)
(* The engine implements RequestLife: whatever schedule() does with its    *)
(* queues and report_output with its tokens, a request waits, runs, may be *)
(* preempted and run again, gets its tokens one by one and never more than *)
(* max_new_tokens, and stays FINISHED once it is.  (A request with neither *)
(* a prompt nor a token to generate finishes without ever running.)        *)
(***************************************************************************)
THEOREM FollowsRequestLifeCorrect ==
  ASSUME OneThread, 0 \notin PromptLens \/ 0 \notin MaxNews
  PROVE  EngineSpec => FollowsRequestLife
<1>1. LifeInv /\ [EngineNext]_pagedVars => LifeInv'
  BY LifeInvStep
<1>2. LifeInv /\ [EngineNext]_pagedVars => [Life!LifeNext]_(Life!lifeVars)
  <2>. SUFFICES ASSUME LifeInv, [EngineNext]_pagedVars
                PROVE  Life!LifeNext \/ UNCHANGED Life!lifeVars
    OBVIOUS
  <2>1. CASE OffScheduler
    BY <2>1 DEF OffScheduler, Life!lifeVars, LifeStatus
  <2>2. ASSUME NEW t \in Threads, SchedStep(t)
        PROVE  Life!LifeNext \/ UNCHANGED Life!lifeVars
    BY <2>2, LifeStep DEF LifeInv, SoleInv, EngineInv
  <2>. QED  BY <2>1, <2>2, StepOrStutter DEF LifeInv, SoleInv, EngineInv
<1>. QED  BY <1>1, <1>2, LifeInit, PTL DEF EngineSpec, FollowsRequestLife, Life!LifeSpec

-----------------------------------------------------------------------------
(***************************************************************************)
(* Callers that never call remove_request, as the server and the runner:   *)
(* what they may rely on although other threads step the same engine.      *)
(***************************************************************************)

EngineCall(t) ==
  \/ \E n \in PromptLens, m \in MaxNews : SubmitTokens(t, n, m)
  \/ StepBegin(t) \/ StepProgress(t)

NoneRemoves == \A t \in Threads : pc[t] # "remove"

\* A request that has been scheduled stays begun, and one that is over stays over: a request
\* that schedule() admits again after it finished was preempted before.
Begun(r) == r \in known /\ state[r] # "WAITING"
Over(r)  == r \in known /\ (state[r] = "FINISHED" \/ preempted[r])

\* Who waits has never run, or was preempted.
WaitFits == \A r \in Rids : Occurs(WaitingNow, r) => state[r] = "WAITING" \/ preempted[r]

\* Whatever is in flight belongs to a request that has begun; what schedule() retires is over.
FlightFits ==
  \A r \in Rids :
    /\ Occurs(JobRids(batch), r) => Begun(r)
    /\ Occurs(retired, r) => Over(r)
    /\ phase = "report" /\ Occurs(ReportRids(reports), r) => Begun(r)
    /\ \A t \in Threads :
         /\ Occurs(JobRids(job[t]), r) => Begun(r)
         /\ Occurs(ReportRids(sampled[t]), r) => Begun(r)
         /\ Decoding(t) /\ copy[t].rid = r => Begun(r)
         /\ Occurs(fins[t], r) => Over(r)

\* In one step() a request gets one token at most.
OnceFit(t) ==
  /\ pc[t] \in {"out", "schedule"} => sampled[t] = <<>>
  /\ NoneTwice(ReportRids(sampled[t]))
  /\ Executing(t) =>
       /\ NoneTwice(JobRids(job[t]))
       /\ \A r \in Rids : Occurs(JobRids(job[t]), r) => ~Occurs(ReportRids(sampled[t]), r)
  /\ Decoding(t) => /\ ~Occurs(JobRids(job[t]), copy[t].rid)
                    /\ ~Occurs(ReportRids(sampled[t]), copy[t].rid)

OnceFits == \A t \in Threads : OnceFit(t)

\* What report_output has still to do comes from the tokens its caller sampled.
HeldFits ==
  \A t \in Threads : Holds(t, "report") =>
    /\ NoneTwice(ReportRids(reports))
    /\ \A e \in Report : Occurs(reports, e) => Occurs(sampled[t], e)

\* report_output has not come to the token of r yet.
Due(t, r) == Occurs(ReportRids(reports), r) /\ ~(want[t] > 0 /\ r = Head(reports)[1])

\* The tokens t brings home from report_output.
Reported(t, r) ==
  /\ Occurs(ReportRids(sampled[t]), r)
  /\ pc[t] = "collect" \/ (pc[t] = "report" /\ ~Due(t, r))

\* A sampled end of sequence that was reported ended its request.
EndsFit ==
  \A t \in Threads, r \in Rids :
    Reported(t, r) /\ Occurs(sampled[t], <<r, "eos">>) => Over(r)

\* The output of a step names requests with their tokens first, each once, then finished
\* requests without.
OutFit(t) ==
  /\ Len(outToks[t]) <= Len(outIds[t])
  /\ pc[t] \notin {"out", "collect"} => outIds[t] = <<>>
  /\ pc[t] = "collect" /\ sampled[t] # <<>> => Len(outIds[t]) = Len(outToks[t])
  /\ \A i \in 1 .. Len(outToks[t]) : \A j \in 1 .. Len(outToks[t]) :
       outIds[t][i].rid = outIds[t][j].rid => i = j
  /\ \A i \in 1 .. Len(outToks[t]) : ~Occurs(ReportRids(sampled[t]), outIds[t][i].rid)
  /\ \A i \in 1 .. Len(outIds[t]) :
       /\ i > Len(outToks[t]) \/ outToks[t][i] = "eos" => outIds[t][i].fin
       /\ outIds[t][i].fin => Over(outIds[t][i].rid)

OutsFit == \A t \in Threads : OutFit(t)

CallsInv == /\ EngineInv /\ NoneRemoves
            /\ WaitFits /\ FlightFits /\ OnceFits /\ HeldFits
            /\ EndsFit /\ OutsFit

-----------------------------------------------------------------------------
(* A call is a step of the engine, and what it does to the thread's own variables. *)

LEMMA CallIsStep ==
  ASSUME EngineInv, NoneRemoves, NEW t \in Threads, EngineCall(t)
  PROVE  /\ EngineStep(t) /\ ~EndRemove(t)
         /\ SchedStep(t) \/ OffScheduler
         /\ SchedTypeOK /\ LoopAtRequest /\ SchedInv
<1>1. EngineStep(t)
  BY DEF EngineCall, EngineStep
<1>2. ~EndRemove(t)
  BY DEF EndRemove, Holds, EngineInv, LabelsFit, LabelFits, NoneRemoves
<1>. QED  BY <1>1, <1>2, EngineUsesScheduler DEF EngineInv, SchedInv

\* A step that leaves the thread's job, tokens and output alone.
QuietCall(t) ==
  /\ UNCHANGED <<job, fins, copy, sampled, outIds, outToks>>
  /\ \/ pc' = pc
     \/ /\ Executing(t) /\ Executing(t)' /\ (Decoding(t)' => Decoding(t))
        /\ \E label \in PagedLabels : Goto(t, label)

LEMMA CallMoves ==
  ASSUME EngineInv, NEW t \in Threads, EngineCall(t)
  PROVE  \/ StepBegin(t) \/ StepScheduled(t) \/ PickRequest(t)
         \/ \E tok \in Tokens : DecodeSample(t, tok)
         \/ StepReport(t) \/ StepReported(t)
         \/ CollectToken(t) \/ CollectFinished(t) \/ StepReturn(t)
         \/ QuietCall(t)
<1>a. pc \in [Threads -> PagedLabels]
  BY DEF EngineInv, EngineTypeOK
<1>. USE DEF QuietCall
<1>1. CASE \E n \in PromptLens, m \in MaxNews : SubmitTokens(t, n, m)
  BY <1>1 DEF SubmitTokens
<1>2. CASE InScheduler(t)
  BY <1>2 DEF InScheduler
<1>3. CASE PrefillAlloc(t)
  BY <1>3, <1>a DEF PrefillAlloc, At, Goto, Executing, Decoding, PagedLabels
<1>4. CASE PrefillWrite(t)
  BY <1>4 DEF PrefillWrite
<1>5. CASE PrefillSample(t)
  BY <1>5, <1>a DEF PrefillSample, At, Goto, Executing, Decoding, PagedLabels
<1>6. CASE PrefillEnd(t)
  BY <1>6, <1>a DEF PrefillEnd, At, Goto, Executing, Decoding, PagedLabels
<1>7. CASE DecodeWrite(t)
  BY <1>7, <1>a DEF DecodeWrite, At, Goto, Executing, Decoding, PagedLabels
<1>. QED  BY <1>1, <1>2, <1>3, <1>4, <1>5, <1>6, <1>7 DEF EngineCall, StepProgress

LEMMA OthersStand ==
  ASSUME EngineInv, NEW t \in Threads, EngineStep(t), NEW u \in Threads, u # t
  PROVE  /\ pc'[u] = pc[u] /\ job'[u] = job[u] /\ copy'[u] = copy[u]
         /\ sampled'[u] = sampled[u] /\ outIds'[u] = outIds[u] /\ outToks'[u] = outToks[u]
<1>a. /\ pc \in [Threads -> PagedLabels] /\ job \in [Threads -> Seq(BatchEntry)]
      /\ DOMAIN copy = Threads /\ sampled \in [Threads -> Seq(Report)]
      /\ DOMAIN outIds = Threads /\ DOMAIN outToks = Threads
  BY DEF EngineInv, EngineTypeOK
<1>1. pc'[u] = pc[u]
  <2>1. CASE \E label \in PagedLabels : Goto(t, label)
    BY <1>a, <2>1 DEF Goto
  <2>2. CASE InScheduler(t)
    BY <2>2 DEF InScheduler
  <2>. QED  BY <2>1, <2>2, EngineChanges
<1>2. job'[u] = job[u] /\ copy'[u] = copy[u]
  <2>1. CASE StepScheduled(t)
    BY <1>a, <2>1 DEF StepScheduled
  <2>2. CASE PickRequest(t)
    BY <1>a, <2>2 DEF PickRequest
  <2>. QED  BY <2>1, <2>2, EngineChanges
<1>3. sampled'[u] = sampled[u]
  <2>1. CASE \E tok \in Tokens : DecodeSample(t, tok)
    BY <1>a, <2>1 DEF DecodeSample
  <2>2. CASE CollectToken(t)
    BY <1>a, <2>2 DEF CollectToken
  <2>. QED  BY <2>1, <2>2, EngineChanges
<1>4. outIds'[u] = outIds[u] /\ outToks'[u] = outToks[u]
  <2>1. CASE StepBegin(t)
    BY <1>a, <2>1 DEF StepBegin
  <2>2. CASE CollectToken(t)
    BY <1>a, <2>2 DEF CollectToken
  <2>3. CASE CollectFinished(t)
    BY <1>a, <2>3 DEF CollectFinished
  <2>. QED  BY <2>1, <2>2, <2>3, EngineChanges
<1>. QED  BY <1>1, <1>2, <1>3, <1>4

LEMMA NoneRemovesStep ==
  ASSUME EngineInv, NoneRemoves, NEW t \in Threads, EngineCall(t)
  PROVE  NoneRemoves'
<1>a. pc \in [Threads -> PagedLabels]
  BY DEF EngineInv, EngineTypeOK
<1>1. CASE QuietCall(t)
  BY <1>1, <1>a DEF QuietCall, NoneRemoves, Goto, Executing
<1>2. CASE \/ StepBegin(t) \/ StepScheduled(t) \/ \E tok \in Tokens : DecodeSample(t, tok)
           \/ StepReport(t) \/ StepReported(t)
           \/ CollectToken(t) \/ CollectFinished(t) \/ StepReturn(t)
  BY <1>2, <1>a DEF NoneRemoves, Goto, StepBegin, StepScheduled, DecodeSample, StepReport,
                    StepReported, CollectToken, CollectFinished, StepReturn
<1>3. CASE PickRequest(t)
  BY <1>3, <1>a, RouteOut DEF NoneRemoves, PickRequest, Goto
<1>. QED  BY <1>1, <1>2, <1>3, CallMoves

-----------------------------------------------------------------------------
(* What a request keeps. *)

LEMMA MarksMove ==
  ASSUME NEW t \in Threads, SchedStep(t)
  PROVE  /\ \/ preempted' = preempted
            \/ EvictCommit(t) /\ preempted' = [preempted EXCEPT ![Head(scan)] = TRUE]
         /\ retired' = retired \/ retired' = <<>> \/ RetireBegin(t)
<1>1. CASE \E n \in PromptLens, m \in MaxNews : Submit(t, n, m)
  BY <1>1 DEF Submit
<1>2. CASE BeginSchedule(t)
  BY <1>2 DEF BeginSchedule
<1>3. CASE \E pairs \in Seq(Report) : BeginReport(t, pairs)
  BY <1>3 DEF BeginReport
<1>4. CASE \E r \in Rids : BeginRemove(t, r)
  BY <1>4 DEF BeginRemove
<1>5. CASE \E n \in Nat \ {0} : BeginOwnAlloc(t, n)
  BY <1>5 DEF BeginOwnAlloc
<1>6. CASE AdmitSkip(t)
  BY <1>6 DEF AdmitSkip
<1>7. CASE AdmitEmpty(t)
  BY <1>7 DEF AdmitEmpty
<1>8. CASE AdmitBegin(t)
  BY <1>8 DEF AdmitBegin
<1>9. CASE AdmitCommit(t)
  BY <1>9 DEF AdmitCommit
<1>10. CASE AdmitFail(t)
  BY <1>10 DEF AdmitFail
<1>11. CASE EndAdmit(t)
  BY <1>11 DEF EndAdmit
<1>12. CASE EndRetry(t)
  BY <1>12 DEF EndRetry
<1>13. CASE EvictSkip(t)
  BY <1>13 DEF EvictSkip
<1>14. CASE EvictBegin(t)
  BY <1>14 DEF EvictBegin
<1>15. CASE EvictCommit(t)
  BY <1>15 DEF EvictCommit
<1>16. CASE EndEvict(t)
  BY <1>16 DEF EndEvict
<1>17. CASE BatchInclude(t)
  BY <1>17 DEF BatchInclude
<1>18. CASE BatchExclude(t)
  BY <1>18 DEF BatchExclude
<1>19. CASE EndBatch(t)
  BY <1>19 DEF EndBatch
<1>20. CASE RetireKeep(t)
  BY <1>20 DEF RetireKeep
<1>21. CASE RetireBegin(t)
  BY <1>21 DEF RetireBegin
<1>22. CASE RetireCommit(t)
  BY <1>22 DEF RetireCommit
<1>23. CASE EndSchedule(t)
  BY <1>23 DEF EndSchedule
<1>24. CASE ReportUnknown(t)
  BY <1>24 DEF ReportUnknown
<1>25. CASE ReportToken(t)
  BY <1>25 DEF ReportToken
<1>26. CASE ReportCommit(t)
  BY <1>26 DEF ReportCommit
<1>27. CASE ReportFail(t)
  BY <1>27 DEF ReportFail
<1>28. CASE EndReport(t)
  BY <1>28 DEF EndReport
<1>29. CASE EndRemove(t)
  BY <1>29 DEF EndRemove
<1>30. CASE FreeHeadBlock(t)
  BY <1>30 DEF FreeHeadBlock
<1>31. CASE AllocBlock(t)
  BY <1>31 DEF AllocBlock
<1>32. CASE OwnAllocFails(t)
  BY <1>32 DEF OwnAllocFails
<1>33. CASE DropOwnBlocks(t)
  BY <1>33 DEF DropOwnBlocks
<1>. QED  BY <1>1, <1>2, <1>3, <1>4, <1>5, <1>6, <1>7, <1>8, <1>9, <1>10, <1>11, <1>12,
             <1>13, <1>14, <1>15, <1>16, <1>17, <1>18, <1>19, <1>20, <1>21, <1>22,
             <1>23, <1>24, <1>25, <1>26, <1>27, <1>28, <1>29, <1>30, <1>31, <1>32, <1>33
          DEF SchedStep, ScheduleStep, ReportStep

\* The five steps that change a request's state, and what they find.
LEMMA StateChanges ==
  ASSUME SchedInv, NEW t \in Threads, SchedStep(t), ~EndRemove(t), NEW r \in Rids,
         state'[r] # state[r]
  PROVE  \/ AdmitCommit(t) /\ r = Head(scan) /\ Occurs(WaitingNow, r) /\ state'[r] = "RUNNING"
         \/ EvictCommit(t) /\ r = Head(scan) /\ state[r] = "RUNNING" /\ state'[r] = "PREEMPTED"
         \/ RetireBegin(t) /\ r = Head(scan) /\ Occurs(RunningNow, r) /\ state'[r] = "FINISHED"
         \/ ReportToken(t) /\ r = Head(reports)[1] /\ state'[r] = "FINISHED"
<1>a. state \in [Rids -> RequestStates] /\ SchedTypeOK /\ LoopAtRequest /\ LocksFit /\ FreeFits
  BY DEF SchedInv, SchedTypeOK, QueueInv
<1>1. CASE AdmitCommit(t)
  <2>1. state' = [state EXCEPT ![Head(scan)] = "RUNNING"] /\ phase \in {"admit", "retry"}
    BY <1>1 DEF AdmitCommit, Admitting, Holds
  <2>2. scan # <<>>
    BY <1>1, <1>a, AdmitMoves
  <2>. QED  BY <1>1, <1>a, <2>1, <2>2, HeadIsQueued
<1>2. CASE EvictCommit(t)
  <2>1. state' = [state EXCEPT ![Head(scan)] = "PREEMPTED"] /\ phase = "evictFree"
    BY <1>2 DEF EvictCommit, Holds
  <2>. QED  BY <1>2, <1>a, <2>1 DEF FreeFits
<1>3. CASE RetireBegin(t)
  <2>1. /\ state' = [state EXCEPT ![Head(scan)] = "FINISHED"]
        /\ phase = "retire" /\ scan # <<>>
    BY <1>3 DEF RetireBegin, Holds
  <2>. QED  BY <1>3, <1>a, <2>1, HeadIsQueued
<1>4. CASE ReportToken(t)
  BY <1>4, <1>a DEF ReportToken
<1>. QED  BY <1>1, <1>2, <1>3, <1>4, StepChanges

LEMMA CallKeeps ==
  ASSUME EngineInv, NoneRemoves, WaitFits, NEW t \in Threads, EngineCall(t), NEW r \in Rids
  PROVE  /\ known \subseteq known'
         /\ Begun(r) => Begun(r)'
         /\ Over(r) => Over(r)'
<1>1. CASE OffScheduler
  BY <1>1 DEF OffScheduler, Begun, Over
<1>2. CASE SchedStep(t)
  <2>0. SchedInv /\ SchedTypeOK /\ ~EndRemove(t)
    BY CallIsStep
  <2>1. known \subseteq known'
    BY <1>2, <2>0, StepChanges DEF Submit
  <2>2. preempted[r] => preempted'[r]
    BY <1>2, <2>0, MarksMove DEF SchedTypeOK
  <2>3. state'[r] = state[r] \/ state'[r] # "WAITING"
    BY <1>2, <2>0, StateChanges
  <2>4. state[r] = "FINISHED" => state'[r] = "FINISHED" \/ preempted[r]
    BY <1>2, <2>0, StateChanges DEF WaitFits
  <2>. QED  BY <2>1, <2>2, <2>3, <2>4 DEF Begun, Over
<1>. QED  BY <1>1, <1>2, CallIsStep

LEMMA WaitFitsStep ==
  ASSUME EngineInv, NoneRemoves, WaitFits, FlightFits, NEW t \in Threads, EngineCall(t)
  PROVE  WaitFits'
<1>1. CASE OffScheduler
  BY <1>1 DEF OffScheduler, WaitFits, WaitingNow
<1>2. CASE SchedStep(t)
  <2>0. SchedInv /\ SchedTypeOK /\ ~EndRemove(t) /\ LoopAtRequest
    BY CallIsStep
  <2>. SUFFICES ASSUME NEW r \in Rids, Occurs(WaitingNow', r)
                PROVE  state'[r] = "WAITING" \/ preempted'[r]
    BY DEF WaitFits
  <2>1. preempted[r] => preempted'[r]
    BY <1>2, <2>0, MarksMove DEF SchedTypeOK
  <2>2. CASE EvictCommit(t) /\ r = Head(scan)
    <3>1. preempted'[r] = TRUE
      BY <2>0, <2>2 DEF EvictCommit, SchedTypeOK
    <3>. QED  BY <3>1
  <2>3. CASE r = nextId /\ state' = state
    <3>1. state[r] = "WAITING"
      BY <2>0, <2>3 DEF SchedInv, QueueInv, StatesFit, Rids, SchedTypeOK
    <3>. QED  BY <2>3, <3>1
  <2>4. CASE Occurs(WaitingNow, r) /\ ~(AdmitCommit(t) /\ r = Head(scan))
    <3>1. state[r] = "WAITING" \/ preempted[r]
      BY <2>4 DEF WaitFits
    <3>2. ~Occurs(RunningNow, r)
      BY <2>0, <2>4 DEF SchedInv, QueueInv, InOneQueue
    <3>3. ASSUME ReportToken(t), r = Head(reports)[1]
          PROVE  state[r] # "WAITING"
      <4>1. phase = "report" /\ reports # <<>> /\ reports \in Seq(Report)
        BY <2>0, <3>3 DEF ReportToken, Holds, SchedTypeOK
      <4>2. Occurs(ReportRids(reports), r)
        BY <3>3, <4>1, ReportRidsTail, ReportRidsType, HeadOccurs
      <4>. QED  BY <4>1, <4>2 DEF FlightFits, Begun
    <3>4. CASE state'[r] = state[r]
      BY <2>1, <3>1, <3>4
    <3>5. CASE state'[r] # state[r]
      <4>1. \/ AdmitCommit(t) /\ r = Head(scan)
            \/ EvictCommit(t) /\ r = Head(scan)
            \/ Occurs(RunningNow, r)
            \/ ReportToken(t) /\ r = Head(reports)[1]
        BY <1>2, <2>0, <3>5, StateChanges
      <4>. QED  BY <2>1, <2>2, <2>4, <3>1, <3>2, <3>3, <4>1
    <3>. QED  BY <3>4, <3>5
  <2>. QED  BY <1>2, <2>0, <2>2, <2>3, <2>4, QueueMoves
<1>. QED  BY <1>1, <1>2, CallIsStep

-----------------------------------------------------------------------------
(* Requests in flight. *)

LEMMA TailOccurs ==
  ASSUME NEW S, NEW s \in Seq(S), s # <<>>, NEW c, Occurs(Tail(s), c)
  PROVE  Occurs(s, c)
  BY DEF Occurs

LEMMA AppendOccurs ==
  ASSUME NEW S, NEW s \in Seq(S), NEW b \in S, NEW c, Occurs(Append(s, b), c)
  PROVE  Occurs(s, c) \/ c = b
  BY AppendHolds

LEMMA JobRidsAppend ==
  ASSUME NEW s \in Seq(BatchEntry), NEW e \in BatchEntry
  PROVE  /\ JobRids(s) \in Seq(Rids) /\ e.rid \in Rids
         /\ JobRids(Append(s, e)) = Append(JobRids(s), e.rid)
<1>1. e.rid \in Rids /\ \A i \in 1 .. Len(s) : s[i].rid \in Rids
  <2>1. \A i \in 1 .. Len(s) : s[i] \in BatchEntry
    OBVIOUS
  <2>. QED  BY <2>1 DEF BatchEntry
<1>2. JobRids(s) \in Seq(Rids) /\ Len(JobRids(s)) = Len(s)
  BY <1>1 DEF JobRids
<1>. QED  BY <1>1, <1>2 DEF JobRids

LEMMA ReportRidsTailOccurs ==
  ASSUME NEW s \in Seq(Report), s # <<>>, NEW c, Occurs(ReportRids(Tail(s)), c)
  PROVE  Occurs(ReportRids(s), c)
  BY ReportRidsTail, ReportRidsType, TailOccurs

LEMMA ReportsMove ==
  ASSUME SchedInv, NEW t \in Threads, SchedStep(t), phase' = "report"
  PROVE  \/ \E pairs \in Seq(Report) : BeginReport(t, pairs)
         \/ phase = "report" /\ reports' = reports
         \/ phase = "report" /\ reports # <<>> /\ reports' = Tail(reports)
<1>a. SchedTypeOK /\ LoopAtRequest /\ SchedTypeOK' /\ LocksFit'
  BY StepType, LocksStep DEF SchedInv, QueueInv
<1>b. PICK u \in Threads : Holds(u, "report")'
  BY <1>a DEF LocksFit, SchedTypeOK, Holds
<1>1. ReportStep(t) => reports # <<>> /\ reports' \in {reports, Tail(reports)}
  <2>1. ReportStep(t) => reports # <<>>
    <3>1. ReportUnknown(t) \/ ReportToken(t) => reports # <<>>
      BY DEF ReportUnknown, ReportToken
    <3>2. got[t] \in Seq(Blocks) /\ want[t] \in Nat
      BY <1>a DEF SchedTypeOK
    <3>3. AllocDone(t) \/ AllocFails(t) => want[t] > 0
      BY <3>2 DEF AllocDone, AllocFails
    <3>4. ReportCommit(t) \/ ReportFail(t) => Holds(t, "report") /\ want[t] > 0
      BY <3>3, Zenon DEF ReportCommit, ReportFail
    <3>5. Holds(t, "report") /\ want[t] > 0 => reports # <<>>
      BY <1>a, Zenon DEF LoopAtRequest
    <3>. QED  BY <3>1, <3>4, <3>5 DEF ReportStep
  <2>2. ReportStep(t) => reports' \in {reports, Tail(reports)}
    BY DEF ReportStep, ReportUnknown, ReportToken, ReportCommit, ReportFail
  <2>. QED  BY <2>1, <2>2
<1>2. Holds(u, "report") => phase = "report"
  BY DEF Holds
<1>. QED  BY <1>b, <1>1, <1>2, ReportsKept

\* The scheduler's part: the batch, the retired requests and the reports.
LEMMA SchedFlight ==
  ASSUME EngineInv, NoneRemoves, WaitFits, FlightFits, NEW t \in Threads, EngineCall(t),
         NEW r \in Rids
  PROVE  /\ Occurs(JobRids(batch'), r) => Begun(r)'
         /\ Occurs(retired', r) => Over(r)'
         /\ phase' = "report" /\ Occurs(ReportRids(reports'), r) => Begun(r)'
<1>0. /\ SchedInv /\ SchedTypeOK /\ ~EndRemove(t) /\ LoopAtRequest /\ LocksFit /\ EngineStep(t)
      /\ batch \in Seq(BatchEntry) /\ retired \in Seq(Rids) /\ reports \in Seq(Report)
      /\ scan \in Seq(Rids)
  BY CallIsStep DEF SchedInv, SchedTypeOK, QueueInv
<1>1. (Begun(r) => Begun(r)') /\ (Over(r) => Over(r)')
  BY CallKeeps
<1>2. Occurs(JobRids(batch'), r) => Begun(r)'
  <2>1. CASE batch' = batch
    BY <1>1, <2>1 DEF FlightFits
  <2>2. CASE BatchInclude(t)
    <3>1. /\ Head(scan) \in Rids /\ Head(scan) \in known /\ state[Head(scan)] = "RUNNING"
          /\ batch' = Append(batch, [rid |-> Head(scan), prefill |-> Head(scan) \in admitted])
      BY <1>0, <2>2 DEF BatchInclude, Batchable
    <3>2. [rid |-> Head(scan), prefill |-> Head(scan) \in admitted] \in BatchEntry
      BY <3>1 DEF BatchEntry
    <3>3. /\ JobRids(batch) \in Seq(Rids)
          /\ JobRids(batch') = Append(JobRids(batch), Head(scan))
      BY <1>0, <3>1, <3>2, JobRidsAppend
    <3>4. r = Head(scan) => Begun(r)
      BY <3>1 DEF Begun
    <3>5. Occurs(JobRids(batch'), r) => Occurs(JobRids(batch), r) \/ r = Head(scan)
      BY <3>1, <3>3, AppendOccurs
    <3>. QED  BY <1>1, <3>4, <3>5 DEF FlightFits
  <2>3. CASE batch' = <<>>
    BY <2>3, EmptyRids, EmptyHolds
  <2>4. CASE OffScheduler
    BY <2>1, <2>4 DEF OffScheduler
  <2>5. CASE SchedStep(t)
    <3>1. BatchStep(t) => BatchInclude(t) \/ batch' = batch \/ batch' = <<>>
      BY DEF BatchStep, BatchExclude, EndBatch, EndAdmit, EndRetry, EndSchedule
    <3>. QED  BY <1>0, <2>1, <2>2, <2>3, <2>5, <3>1, BatchStays
  <2>. QED  BY <2>4, <2>5, CallIsStep
<1>3. Occurs(retired', r) => Over(r)'
  <2>1. CASE retired' = retired
    BY <1>1, <2>1 DEF FlightFits
  <2>2. CASE RetireBegin(t)
    <3>1. /\ Head(scan) \in Rids /\ Head(scan) \in known' /\ state'[Head(scan)] = "FINISHED"
          /\ retired' = retired \/ retired' = Append(retired, Head(scan))
      BY <1>0, <2>2 DEF RetireBegin, SchedTypeOK
    <3>2. r = Head(scan) => Over(r)'
      BY <3>1 DEF Over
    <3>3. Occurs(retired', r) => Occurs(retired, r) \/ r = Head(scan)
      BY <1>0, <3>1, AppendOccurs
    <3>. QED  BY <1>1, <3>2, <3>3 DEF FlightFits
  <2>3. CASE retired' = <<>>
    BY <2>3, EmptyHolds
  <2>4. CASE OffScheduler
    BY <2>1, <2>4 DEF OffScheduler
  <2>5. CASE SchedStep(t)
    BY <1>0, <2>1, <2>2, <2>3, <2>5, MarksMove
  <2>. QED  BY <2>4, <2>5, CallIsStep
<1>4. ASSUME phase' = "report", Occurs(ReportRids(reports'), r)
      PROVE  Begun(r)'
  <2>1. CASE phase = "report" /\ reports' = reports
    BY <1>1, <1>4, <2>1 DEF FlightFits
  <2>2. CASE phase = "report" /\ reports # <<>> /\ reports' = Tail(reports)
    BY <1>0, <1>1, <1>4, <2>2, ReportRidsTailOccurs DEF FlightFits
  <2>3. CASE \E pairs \in Seq(Report) : BeginReport(t, pairs)
    <3>1. reports' = sampled[t]
      BY <1>0, <2>3, ReportBegins
    <3>. QED  BY <1>1, <1>4, <3>1 DEF FlightFits
  <2>4. CASE OffScheduler
    BY <1>4, <2>1, <2>4 DEF OffScheduler
  <2>5. CASE SchedStep(t)
    BY <1>0, <1>4, <2>1, <2>2, <2>3, <2>5, ReportsMove
  <2>. QED  BY <2>4, <2>5, CallIsStep
<1>. QED  BY <1>2, <1>3, <1>4

\* The threads' part: jobs, copies, tokens, finished requests.
LEMMA ThreadFlight ==
  ASSUME EngineInv, NoneRemoves, WaitFits, FlightFits, NEW t \in Threads, EngineCall(t),
         NEW r \in Rids, NEW u \in Threads
  PROVE  /\ Occurs(JobRids(job'[u]), r) => Begun(r)'
         /\ Occurs(ReportRids(sampled'[u]), r) => Begun(r)'
         /\ Decoding(u)' /\ copy'[u].rid = r => Begun(r)'
         /\ Occurs(fins'[u], r) => Over(r)'
<1>0. /\ (Begun(r) => Begun(r)') /\ (Over(r) => Over(r)')
      /\ EngineStep(t)
  BY CallKeeps, CallIsStep
<1>a. /\ pc \in [Threads -> PagedLabels] /\ job \in [Threads -> Seq(BatchEntry)]
      /\ fins \in [Threads -> Seq(Rids)] /\ sampled \in [Threads -> Seq(Report)]
      /\ copy[t].rid \in Rids
  BY DEF EngineInv, EngineTypeOK
<1>b. /\ Occurs(JobRids(job[u]), r) => Begun(r)
      /\ Occurs(ReportRids(sampled[u]), r) => Begun(r)
      /\ Decoding(u) /\ copy[u].rid = r => Begun(r)
      /\ Occurs(fins[u], r) => Over(r)
      /\ Occurs(JobRids(batch), r) => Begun(r)
      /\ Occurs(retired, r) => Over(r)
  BY DEF FlightFits
<1>1. Occurs(JobRids(job'[u]), r) => Begun(r)'
  <2>1. CASE job'[u] = job[u]
    BY <1>0, <1>b, <2>1
  <2>2. CASE StepScheduled(t)
    <3>1. job'[u] = job[u] \/ job'[u] = batch
      BY <1>a, <2>2 DEF StepScheduled
    <3>. QED  BY <1>0, <1>b, <3>1
  <2>3. CASE PickRequest(t) /\ t = u
    <3>1. job[u] \in Seq(BatchEntry) /\ job[u] # <<>> /\ job'[u] = Tail(job[u])
      BY <1>a, <2>3 DEF PickRequest
    <3>2. JobRids(job[u]) \in Seq(Rids) /\ JobRids(job[u]) # <<>>
          /\ JobRids(job'[u]) = Tail(JobRids(job[u]))
      BY <3>1, JobRidsTail
    <3>3. Occurs(JobRids(job'[u]), r) => Occurs(JobRids(job[u]), r)
      BY <3>2, TailOccurs
    <3>. QED  BY <1>0, <1>b, <3>3
  <2>4. PickRequest(t) /\ t # u => job'[u] = job[u]
    BY <1>a DEF PickRequest
  <2>. QED  BY <1>0, <2>1, <2>2, <2>3, <2>4, EngineChanges
<1>2. Occurs(ReportRids(sampled'[u]), r) => Begun(r)'
  <2>1. CASE sampled'[u] = sampled[u]
    BY <1>0, <1>b, <2>1
  <2>2. CASE (\E tok \in Tokens : DecodeSample(t, tok)) /\ t = u
    <3>1. PICK tok \in Tokens : DecodeSample(t, tok)
      BY <2>2
    <3>2. /\ sampled'[u] = Append(sampled[u], <<copy[u].rid, tok>>) /\ Decoding(u)
          /\ <<copy[u].rid, tok>> \in Report /\ sampled[u] \in Seq(Report)
      BY <1>a, <2>2, <3>1 DEF DecodeSample, At, Decoding, Report
    <3>3. /\ ReportRids(sampled[u]) \in Seq(Rids)
          /\ ReportRids(sampled'[u]) = Append(ReportRids(sampled[u]), copy[u].rid)
      BY <3>2, ReportRidsAppend, ReportRidsType
    <3>4. Occurs(ReportRids(sampled'[u]), r) =>
            Occurs(ReportRids(sampled[u]), r) \/ r = copy[u].rid
      BY <1>a, <2>2, <3>3, AppendOccurs
    <3>. QED  BY <1>0, <1>b, <3>2, <3>4
  <2>3. CASE CollectToken(t) /\ t = u
    <3>1. sampled'[u] = Tail(sampled[u]) /\ sampled[u] # <<>> /\ sampled[u] \in Seq(Report)
      BY <1>a, <2>3 DEF CollectToken
    <3>. QED  BY <1>0, <1>b, <3>1, ReportRidsTailOccurs
  <2>4. t # u => sampled'[u] = sampled[u]
    BY <1>0, OthersStand
  <2>5. sampled' = sampled => sampled'[u] = sampled[u]
    OBVIOUS
  <2>. QED  BY <1>0, <2>1, <2>2, <2>3, <2>4, <2>5, EngineChanges
<1>3. Decoding(u)' /\ copy'[u].rid = r => Begun(r)'
  <2>. SUFFICES ASSUME Decoding(u)', copy'[u].rid = r
                PROVE  Begun(r) \/ Begun(r)'
    BY <1>0
  <2>1. CASE t # u
    <3>1. pc'[u] = pc[u] /\ copy'[u] = copy[u]
      BY <1>0, <2>1, OthersStand
    <3>. QED  BY <1>b, <3>1 DEF Decoding
  <2>2. CASE t = u /\ QuietCall(t)
    BY <1>b, <2>2 DEF QuietCall, Decoding
  <2>3. CASE t = u /\ PickRequest(t)
    <3>1. /\ job[t] \in Seq(BatchEntry) /\ job[t] # <<>>
          /\ Head(job[t]).rid = r
      BY <2>3, PickFacts DEF Decoding
    <3>2. Occurs(JobRids(job[t]), r)
      BY <3>1, JobRidsTail, HeadOccurs
    <3>. QED  BY <1>b, <2>3, <3>2
  <2>4. CASE t = u /\ (\/ StepBegin(t) \/ StepScheduled(t)
                       \/ \E tok \in Tokens : DecodeSample(t, tok)
                       \/ StepReport(t) \/ StepReported(t)
                       \/ CollectToken(t) \/ CollectFinished(t) \/ StepReturn(t))
    <3>1. pc'[t] \notin {"decode", "attend"}
      BY <1>a, <2>4 DEF Goto, At, StepBegin, StepScheduled, DecodeSample, StepReport,
                    StepReported, CollectToken, CollectFinished, StepReturn
    <3>. QED  BY <2>4, <3>1 DEF Decoding
  <2>. QED  BY <2>1, <2>2, <2>3, <2>4, CallMoves
<1>4. Occurs(fins'[u], r) => Over(r)'
  <2>1. CASE fins'[u] = fins[u]
    BY <1>0, <1>b, <2>1
  <2>2. CASE StepScheduled(t)
    <3>1. fins'[u] = fins[u] \/ fins'[u] = retired
      BY <1>a, <2>2 DEF StepScheduled
    <3>. QED  BY <1>0, <1>b, <3>1
  <2>3. CASE CollectFinished(t) /\ t = u
    <3>1. fins'[u] = Tail(fins[u]) /\ fins[u] # <<>> /\ fins[u] \in Seq(Rids)
      BY <1>a, <2>3 DEF CollectFinished
    <3>. QED  BY <1>0, <1>b, <3>1, TailOccurs
  <2>4. CollectFinished(t) /\ t # u => fins'[u] = fins[u]
    BY <1>a DEF CollectFinished
  <2>. QED  BY <1>0, <2>1, <2>2, <2>3, <2>4, EngineChanges
<1>. QED  BY <1>1, <1>2, <1>3, <1>4

LEMMA FlightFitsStep ==
  ASSUME EngineInv, NoneRemoves, WaitFits, FlightFits, NEW t \in Threads, EngineCall(t)
  PROVE  FlightFits'
  BY SchedFlight, ThreadFlight DEF FlightFits

-----------------------------------------------------------------------------
(* One token for a request in a step(). *)

\* What a step may do to a report_output that has not ended.
ReportGoesOn(t, u) ==
  \/ UNCHANGED <<reports, genLen>> /\ want'[u] = want[u] /\ ~(ReportToken(t) /\ t = u)
  \/ /\ t = u /\ reports # <<>> /\ ReportToken(t) /\ want[u] = 0
     /\ \/ reports' = reports /\ want'[u] > 0
        \/ reports' = Tail(reports) /\ want'[u] = 0
  \/ /\ t = u /\ reports # <<>> /\ ~ReportToken(t) /\ genLen' = genLen
     /\ reports' = Tail(reports) /\ want'[u] = 0
     /\ want[u] > 0 \/ Head(reports)[1] \notin known

LEMMA ReportGoes ==
  ASSUME SchedTypeOK, LoopAtRequest, NEW t \in Threads, ReportStep(t)
  PROVE  ReportGoesOn(t, t)
<1>a. /\ want \in [Threads -> Nat] /\ table \in [Rids -> Seq(Blocks)]
      /\ genLen \in [Rids -> Nat]
  BY DEF SchedTypeOK
<1>c. Len(got[t]) \in Nat /\ want[t] \in Nat
  BY LenProperties DEF SchedTypeOK
<1>b. reports # <<>>
  BY DEF ReportStep, ReportUnknown, ReportToken, ReportCommit, ReportFail,
         AllocDone, AllocFails, LoopAtRequest, Holds, SchedTypeOK
<1>1. CASE ReportUnknown(t)
  <2>1. /\ Head(reports)[1] \notin known /\ want[t] = 0
        /\ UNCHANGED <<genLen, want>> /\ reports' = Tail(reports)
    BY <1>1, <1>a DEF ReportUnknown, Reportable, NotAllocating
  <2>2. ~ReportToken(t)
    BY <2>1 DEF ReportToken, Reportable
  <2>. QED  BY <1>b, <2>1, <2>2 DEF ReportGoesOn
<1>2. CASE ReportToken(t)
  <2>. DEFINE h == Head(reports)[1]
              n == BlocksFor(SeqLen(h) + 1)
              k == Len(table[h])
  <2>1. h \in Rids
    BY <1>b, ReportsType
  <2>2. SeqLen(h) \in Nat
    BY <2>1, NumBlocksNat
  <2>3. n \in Nat /\ k \in Nat
    <3>1. SeqLen(h) + 1 \in Nat
      BY <2>2
    <3>2. n \in Nat
      BY <3>1, BlocksForNat
    <3>3. k \in Nat
      BY <1>a, <2>1, LenProperties
    <3>. QED  BY <3>2, <3>3
  <2>4. /\ want[t] = 0
        /\ \/ k < n /\ reports' = reports /\ want' = [want EXCEPT ![t] = n - k]
           \/ reports' = Tail(reports) /\ want' = want
    BY <1>2 DEF ReportToken, NotAllocating
  <2>. HIDE DEF n, k
  <2>5. \/ reports' = reports /\ want'[t] > 0
        \/ reports' = Tail(reports) /\ want'[t] = 0
    BY <1>a, <2>3, <2>4
  <2>. QED  BY <1>2, <1>b, <2>4, <2>5 DEF ReportGoesOn
<1>3. CASE ReportCommit(t) \/ ReportFail(t)
  <2>1. /\ want[t] > 0 /\ want'[t] = 0
        /\ genLen' = genLen /\ reports' = Tail(reports)
    <3>1. want[t] > 0
      <4>1. want[t] > 0 \/ Len(got[t]) < want[t]
        BY <1>3 DEF ReportCommit, ReportFail, AllocDone, AllocFails
      <4>. QED  BY <1>c, <4>1
    <3>2. want' = [want EXCEPT ![t] = 0] /\ genLen' = genLen /\ reports' = Tail(reports)
      BY <1>3 DEF ReportCommit, ReportFail, EndAlloc
    <3>. QED  BY <1>a, <3>1, <3>2
  <2>2. ~ReportToken(t)
    BY <2>1, <1>a DEF ReportToken, NotAllocating
  <2>. QED  BY <1>b, <2>1, <2>2 DEF ReportGoesOn
<1>. QED  BY <1>1, <1>2, <1>3 DEF ReportStep

\* report_output goes on, or begins.
ReportKeeps(t, u) ==
  /\ pc'[u] = "report" /\ sampled'[u] = sampled[u]
  /\ \/ Holds(u, "report") /\ pc[u] = "report" /\ ReportGoesOn(t, u)
     \/ /\ t = u /\ Executing(u) /\ want'[u] = 0
        /\ reports' = sampled[u] /\ genLen' = genLen

LEMMA ReportHeld ==
  ASSUME EngineInv, NoneRemoves, NEW t \in Threads, EngineCall(t), NEW u \in Threads,
         Holds(u, "report")'
  PROVE  ReportKeeps(t, u)
<1>0. /\ SchedInv /\ SchedTypeOK /\ LoopAtRequest /\ EngineStep(t)
      /\ EngineTypeOK /\ LabelsFit /\ LabelsFit'
  BY CallIsStep, EngineInvStep DEF EngineInv
<1>a. /\ want \in [Threads -> Nat] /\ genLen \in [Rids -> Nat]
      /\ pc \in [Threads -> PagedLabels]
  BY <1>0 DEF SchedTypeOK, EngineTypeOK
<1>1. pc'[u] = "report"
  BY <1>0 DEF Holds, LabelsFit, LabelFits
<1>2. sampled'[u] = sampled[u]
  <2>1. CASE t # u
    BY <1>0, <2>1, OthersStand
  <2>2. CASE t = u /\ \E tok \in Tokens : DecodeSample(t, tok)
    BY <1>1, <1>a, <2>2 DEF DecodeSample, Goto
  <2>3. CASE t = u /\ CollectToken(t)
    BY <1>1, <1>a, <2>3 DEF CollectToken, At
  <2>. QED  BY <1>0, <2>1, <2>2, <2>3, EngineChanges
<1>3. Holds(u, "report") => pc[u] = "report"
  BY <1>0 DEF Holds, LabelsFit, LabelFits
<1>4. CASE OffScheduler
  <2>1. Holds(u, "report") /\ UNCHANGED <<reports, genLen, want>>
    BY <1>4 DEF OffScheduler, Holds
  <2>2. ~ReportToken(t)
    <3>. SUFFICES ASSUME ReportToken(t) PROVE FALSE
      OBVIOUS
    <3>1. /\ Head(reports)[1] \in Rids
          /\ genLen' = [genLen EXCEPT ![Head(reports)[1]] = @ + 1]
      BY <1>0, ReportsType DEF ReportToken
    <3>2. genLen'[Head(reports)[1]] = genLen[Head(reports)[1]] + 1
      BY <1>a, <3>1
    <3>. QED  BY <1>a, <2>1, <3>1, <3>2
  <2>. QED  BY <1>1, <1>2, <1>3, <2>1, <2>2 DEF ReportKeeps, ReportGoesOn
<1>5. CASE SchedStep(t)
  <2>1. CASE \E pairs \in Seq(Report) : BeginReport(t, pairs)
    <3>1. Executing(t) /\ reports' = sampled[t] /\ lock' = t /\ genLen' = genLen
      BY <1>0, <2>1, ReportBegins
    <3>2. t = u
      BY <3>1 DEF Holds
    <3>3. want'[t] = 0
      BY <1>a, <2>1 DEF BeginReport, Idle, NotAllocating
    <3>. QED  BY <1>1, <1>2, <3>1, <3>2, <3>3 DEF ReportKeeps
  <2>2. CASE Holds(u, "report") /\ t # u /\ UNCHANGED <<reports, genLen>> /\ want'[u] = want[u]
    BY <1>1, <1>2, <1>3, <2>2 DEF ReportKeeps, ReportGoesOn
  <2>3. CASE Holds(u, "report") /\ t = u /\ ReportStep(t)
    BY <1>0, <1>1, <1>2, <1>3, <2>3, ReportGoes DEF ReportKeeps
  <2>4. CASE Holds(u, "report") /\ t = u /\ UNCHANGED <<reports, genLen, want>> /\ ~ReportStep(t)
    BY <1>1, <1>2, <1>3, <2>4 DEF ReportKeeps, ReportGoesOn, ReportStep
  <2>. QED  BY <1>0, <1>5, <2>1, <2>2, <2>3, <2>4, ReportsKept
<1>. QED  BY <1>4, <1>5, CallIsStep

LEMMA OnceFitsStep ==
  ASSUME EngineInv, NoneRemoves, OnceFits, NEW t \in Threads, EngineCall(t)
  PROVE  OnceFits'
<1>a. /\ EngineStep(t) /\ pc \in [Threads -> PagedLabels]
      /\ job \in [Threads -> Seq(BatchEntry)] /\ copy[t].rid \in Rids
      /\ sampled \in [Threads -> Seq(Report)] /\ sampled[t] \in Seq(Report)
      /\ ReportRids(sampled[t]) \in Seq(Rids)
  BY CallIsStep, ReportRidsType DEF EngineInv, EngineTypeOK
<1>b. OnceFit(t)
  BY DEF OnceFits
<1>. SUFFICES OnceFit(t)'
  <2>. SUFFICES ASSUME NEW u \in Threads, u # t PROVE OnceFit(u)'
    BY DEF OnceFits
  <2>. QED  BY <1>a, OthersStand DEF OnceFits, OnceFit, Executing, Decoding
<1>1. CASE StepBegin(t)
  <2>1. pc[t] = "out" /\ pc'[t] = "schedule" /\ sampled' = sampled
    BY <1>1, <1>a DEF StepBegin, At, Goto
  <2>. QED  BY <1>b, <2>1 DEF OnceFit, Executing, Decoding
<1>2. CASE StepScheduled(t)
  <2>1. /\ pc[t] = "schedule" /\ pc'[t] \in {"out", "loop"} /\ sampled' = sampled
        /\ pc'[t] = "loop" => job'[t] = batch
    BY <1>2, <1>a DEF StepScheduled, At, Goto
  <2>2. sampled'[t] = <<>> /\ ReportRids(sampled'[t]) = <<>>
    BY <1>b, <2>1, EmptyRids DEF OnceFit
  <2>3. NoneTwice(JobRids(batch))
    BY JobRidsOnce DEF EngineInv, SchedInv, BatchFits, SchedTypeOK
  <2>. QED  BY <2>1, <2>2, <2>3, EmptyHolds DEF OnceFit, Executing, Decoding
<1>3. CASE PickRequest(t)
  <2>. DEFINE s == ReportRids(sampled[t])
              j == JobRids(job[t])
  <2>1. /\ job[t] \in Seq(BatchEntry) /\ job[t] # <<>> /\ pc[t] = "loop"
        /\ Head(job[t]).rid \in Rids
        /\ job'[t] = Tail(job[t]) /\ sampled'[t] = sampled[t]
        /\ Decoding(t)' => copy'[t].rid = Head(job[t]).rid
    BY <1>a, <1>3, PickFacts DEF Decoding
  <2>2. /\ j \in Seq(Rids) /\ j # <<>> /\ Head(j) = Head(job[t]).rid
        /\ JobRids(job'[t]) = Tail(j)
    BY <2>1, JobRidsTail
  <2>3. /\ NoneTwice(j) /\ NoneTwice(s)
        /\ \A r \in Rids : Occurs(j, r) => ~Occurs(s, r)
    BY <1>b, <2>1 DEF OnceFit, Executing
  <2>4. /\ NoneTwice(Tail(j)) /\ \A r : Occurs(Tail(j), r) <=> Occurs(j, r) /\ r # Head(j)
        /\ Occurs(j, Head(j))
    BY <2>2, <2>3, TailHolds
  <2>5. ReportRids(sampled'[t]) = s
    BY <2>1
  <2>6. pc'[t] \notin {"out", "schedule"}
    BY <1>a, <1>3, <2>1, RouteOut DEF PickRequest, Goto
  <2>. HIDE DEF s, j
  <2>. QED  BY <2>1, <2>2, <2>3, <2>4, <2>5, <2>6 DEF OnceFit
<1>4. CASE \E tok \in Tokens : DecodeSample(t, tok)
  <2>. DEFINE s == ReportRids(sampled[t])
              j == JobRids(job[t])
  <2>1. PICK tok \in Tokens : DecodeSample(t, tok)
    BY <1>4
  <2>2. <<copy[t].rid, tok>> \in Report
    BY <1>a DEF Report
  <2>3. /\ sampled'[t] = Append(sampled[t], <<copy[t].rid, tok>>)
        /\ job' = job /\ pc[t] = "attend" /\ pc'[t] = "loop"
    BY <1>a, <2>1 DEF DecodeSample, At, Goto
  <2>4. ReportRids(sampled'[t]) = Append(s, copy[t].rid)
    BY <1>a, <2>2, <2>3, ReportRidsAppend
  <2>5. /\ NoneTwice(j) /\ NoneTwice(s)
        /\ \A r \in Rids : Occurs(j, r) => ~Occurs(s, r)
        /\ ~Occurs(j, copy[t].rid) /\ ~Occurs(s, copy[t].rid)
    BY <1>b, <2>3 DEF OnceFit, Executing, Decoding
  <2>6. /\ NoneTwice(Append(s, copy[t].rid))
        /\ \A r : Occurs(Append(s, copy[t].rid), r) <=> Occurs(s, r) \/ r = copy[t].rid
    BY <1>a, <2>5, AppendHolds
  <2>7. JobRids(job'[t]) = j
    BY <2>3
  <2>. HIDE DEF s, j
  <2>. QED  BY <2>3, <2>4, <2>5, <2>6, <2>7 DEF OnceFit, Decoding
<1>5. CASE StepReport(t) \/ StepReported(t) \/ CollectFinished(t) \/ StepReturn(t)
  <2>1. /\ sampled' = sampled
        /\ pc'[t] \in {"report", "collect"} \/ (pc'[t] = "out" /\ sampled[t] = <<>>)
    BY <1>a, <1>5 DEF StepReport, StepReported, CollectFinished, StepReturn, At, Goto
  <2>. QED  BY <1>b, <2>1 DEF OnceFit, Executing, Decoding
<1>6. CASE CollectToken(t)
  <2>. DEFINE s == ReportRids(sampled[t])
  <2>1. /\ sampled'[t] = Tail(sampled[t]) /\ sampled[t] # <<>> /\ pc'[t] = "collect"
    BY <1>a, <1>6 DEF CollectToken, At
  <2>2. s # <<>> /\ ReportRids(sampled'[t]) = Tail(s) /\ s \in Seq(Rids) /\ NoneTwice(s)
    BY <1>a, <1>b, <2>1, ReportRidsTail DEF OnceFit
  <2>. HIDE DEF s
  <2>3. NoneTwice(Tail(s))
    BY <2>2, TailHolds
  <2>. QED  BY <2>1, <2>2, <2>3 DEF OnceFit, Executing, Decoding
<1>7. CASE QuietCall(t)
  <2>1. /\ UNCHANGED <<job, copy, sampled>>
        /\ \/ pc' = pc
           \/ Executing(t) /\ pc'[t] \notin {"out", "schedule"} /\ (Decoding(t)' => Decoding(t))
    BY <1>7 DEF QuietCall, Executing
  <2>. QED  BY <1>b, <2>1 DEF OnceFit, Executing, Decoding
<1>. QED  BY <1>1, <1>2, <1>3, <1>4, <1>5, <1>6, <1>7, CallMoves

LEMMA HeldFitsStep ==
  ASSUME EngineInv, NoneRemoves, OnceFits, HeldFits, NEW t \in Threads, EngineCall(t)
  PROVE  HeldFits'
<1>. SUFFICES ASSUME NEW u \in Threads, Holds(u, "report")'
              PROVE  /\ NoneTwice(ReportRids(reports'))
                     /\ \A e \in Report : Occurs(reports', e) => Occurs(sampled'[u], e)
  BY DEF HeldFits
<1>1. ReportKeeps(t, u)
  BY ReportHeld
<1>a. reports \in Seq(Report) /\ ReportRids(reports) \in Seq(Rids)
  BY ReportRidsType DEF EngineInv, SchedInv, SchedTypeOK
<1>2. CASE Executing(u) /\ reports' = sampled[u]
  BY <1>1, <1>2 DEF ReportKeeps, OnceFits, OnceFit
<1>3. CASE Holds(u, "report") /\ ReportGoesOn(t, u)
  <2>1. /\ NoneTwice(ReportRids(reports)) /\ sampled'[u] = sampled[u]
        /\ \A e \in Report : Occurs(reports, e) => Occurs(sampled[u], e)
    BY <1>1, <1>3 DEF HeldFits, ReportKeeps
  <2>2. CASE reports' = reports
    BY <2>1, <2>2
  <2>3. CASE reports # <<>> /\ reports' = Tail(reports)
    <3>1. /\ ReportRids(reports) # <<>>
          /\ ReportRids(reports') = Tail(ReportRids(reports))
      BY <1>a, <2>3, ReportRidsTail
    <3>2. NoneTwice(Tail(ReportRids(reports)))
      BY <1>a, <2>1, <3>1, TailHolds
    <3>3. \A e \in Report : Occurs(reports', e) => Occurs(reports, e)
      BY <1>a, <2>3, TailOccurs
    <3>. QED  BY <2>1, <3>1, <3>2, <3>3
  <2>. QED  BY <1>3, <2>2, <2>3 DEF ReportGoesOn
<1>. QED  BY <1>1, <1>2, <1>3 DEF ReportKeeps

-----------------------------------------------------------------------------
(* What comes home from report_output. *)

LEMMA SampledOnce ==
  ASSUME NEW s \in Seq(Report), NoneTwice(ReportRids(s)), NEW r \in Rids,
         NEW a, NEW b, Occurs(s, <<r, a>>), Occurs(s, <<r, b>>)
  PROVE  a = b
<1>1. PICK i \in 1 .. Len(s) : s[i] = <<r, a>>
  BY DEF Occurs
<1>2. PICK k \in 1 .. Len(s) : s[k] = <<r, b>>
  BY DEF Occurs
<1>3. ReportRids(s)[i] = r /\ ReportRids(s)[k] = r
  BY <1>1, <1>2 DEF ReportRids
<1>4. Len(ReportRids(s)) = Len(s)
  BY ReportRidsType
<1>5. i = k
  BY <1>3, <1>4 DEF NoneTwice
<1>. QED  BY <1>1, <1>2, <1>5

\* One step takes one report at most off the list that is due.
LEMMA DueChanges ==
  ASSUME reports \in Seq(Report), NEW t \in Threads, NEW u \in Threads, NEW r \in Rids,
         NoneTwice(ReportRids(reports)), want \in [Threads -> Nat],
         FlightFits, phase = "report", ReportGoesOn(t, u)
  PROVE  \/ (Due(u, r)' <=> Due(u, r)) /\ (ReportToken(t) /\ t = u => r # Head(reports)[1])
         \/ /\ Due(u, r) /\ ~Due(u, r)' /\ t = u
            /\ ReportToken(t) /\ reports # <<>> /\ r = Head(reports)[1]
<1>. DEFINE s == ReportRids(reports)
            h == Head(reports)[1]
<1>a. want[u] \in Nat
  OBVIOUS
<1>1. CASE UNCHANGED <<reports, genLen>> /\ want'[u] = want[u] /\ ~(ReportToken(t) /\ t = u)
  BY <1>1 DEF Due
<1>2. CASE reports # <<>> /\ ~(reports' = reports /\ want'[u] = want[u])
  <2>1. /\ s \in Seq(Rids) /\ s # <<>> /\ Head(s) = h /\ ReportRids(Tail(reports)) = Tail(s)
        /\ h \in Rids
    BY <1>2, ReportRidsTail, ReportRidsType
  <2>2. /\ Occurs(s, h)
        /\ \A c : Occurs(Tail(s), c) <=> Occurs(s, c) /\ c # h
    BY <2>1, TailHolds
  <2>3. h \in known
    BY <1>2, <2>1, <2>2 DEF FlightFits, Begun
  <2>4. Due(u, r) <=> Occurs(s, r) /\ ~(want[u] > 0 /\ r = h)
    BY DEF Due
  <2>5. CASE reports' = Tail(reports) /\ want'[u] = 0
    <3>0. ReportRids(reports') = Tail(s) /\ ~(want'[u] > 0)
      BY <2>1, <2>5
    <3>1. Due(u, r)' <=> Occurs(Tail(s), r)
      BY <3>0 DEF Due
    <3>2. ReportToken(t) => want[t] = 0
      BY DEF ReportToken, NotAllocating
    <3>3. t = u /\ (ReportToken(t) \/ want[u] > 0)
      BY <1>2, <2>3, <2>5 DEF ReportGoesOn
    <3>4. \/ Due(u, r) /\ r = h /\ ReportToken(t)
          \/ (Due(u, r)' <=> Due(u, r)) /\ (ReportToken(t) => r # h)
      <4>. HIDE DEF h, s
      <4>. QED  BY <1>a, <2>2, <2>4, <3>1, <3>2, <3>3
    <3>. QED  BY <1>2, <2>2, <3>1, <3>3, <3>4
  <2>6. CASE reports' = reports /\ want'[u] > 0
    <3>1. Due(u, r)' <=> Occurs(s, r) /\ r # h
      BY <2>6 DEF Due
    <3>2. t = u /\ ReportToken(t) /\ want[u] = 0
      BY <1>2, <2>6 DEF ReportGoesOn
    <3>3. Due(u, r) <=> Occurs(s, r)
      <4>. HIDE DEF h, s
      <4>. QED  BY <2>4, <3>2
    <3>4. r = h => Due(u, r) /\ ~Due(u, r)'
      <4>. HIDE DEF h, s
      <4>. QED  BY <2>2, <3>1, <3>3
    <3>5. r # h => (Due(u, r)' <=> Due(u, r))
      <4>. HIDE DEF h, s
      <4>. QED  BY <3>1, <3>3
    <3>. QED  BY <1>2, <3>2, <3>4, <3>5
  <2>. QED  BY <1>2, <2>5, <2>6 DEF ReportGoesOn
<1>. QED  BY <1>1, <1>2 DEF ReportGoesOn

\* How a token comes to be reported.
LEMMA ReportedFrom ==
  ASSUME EngineInv, NoneRemoves, FlightFits, OnceFits, HeldFits,
         NEW t \in Threads, EngineCall(t), NEW u \in Threads, NEW r \in Rids, Reported(u, r)'
  PROVE  \/ Reported(u, r)
         \/ /\ t = u /\ ReportToken(t) /\ Holds(t, "report") /\ reports # <<>>
            /\ r = Head(reports)[1] /\ pc[u] = "report" /\ pc'[u] = "report"
            /\ Due(u, r) /\ ~Due(u, r)'
            /\ sampled'[u] = sampled[u] /\ Occurs(ReportRids(sampled[u]), r)
<1>0. /\ SchedInv /\ SchedTypeOK /\ LoopAtRequest /\ EngineStep(t)
      /\ EngineTypeOK /\ LabelsFit /\ LabelsFit'
  BY CallIsStep, EngineInvStep DEF EngineInv
<1>a. /\ want \in [Threads -> Nat] /\ pc \in [Threads -> PagedLabels]
      /\ sampled \in [Threads -> Seq(Report)] /\ reports \in Seq(Report)
  BY <1>0 DEF SchedTypeOK, EngineTypeOK
<1>1. CASE pc'[u] = "report"
  <2>1. Holds(u, "report")'
    BY <1>0, <1>1 DEF Holds, LabelsFit, LabelFits
  <2>2. ReportKeeps(t, u)
    BY <2>1, ReportHeld
  <2>3. Occurs(ReportRids(sampled[u]), r) /\ sampled'[u] = sampled[u] /\ ~Due(u, r)'
    BY <1>1, <2>2 DEF ReportKeeps, Reported
  <2>4. ~(want'[u] = 0 /\ reports' = sampled[u])
    BY <2>3 DEF Due
  <2>5. Holds(u, "report") /\ pc[u] = "report" /\ ReportGoesOn(t, u)
    BY <2>2, <2>4 DEF ReportKeeps
  <2>6. NoneTwice(ReportRids(reports)) /\ phase = "report"
    BY <2>5 DEF HeldFits, Holds
  <2>7. \/ ~Due(u, r)
        \/ /\ t = u /\ ReportToken(t) /\ reports # <<>> /\ r = Head(reports)[1] /\ Due(u, r)
    BY <1>a, <2>3, <2>5, <2>6, DueChanges
  <2>. QED  BY <1>1, <2>3, <2>5, <2>7 DEF Reported
<1>2. CASE pc'[u] # "report"
  <2>1. pc'[u] = "collect" /\ Occurs(ReportRids(sampled'[u]), r)
    BY <1>2 DEF Reported
  <2>2. CASE t # u
    <3>1. pc'[u] = pc[u] /\ sampled'[u] = sampled[u]
      BY <1>0, <2>2, OthersStand
    <3>. QED  BY <2>1, <3>1 DEF Reported
  <2>3. CASE t = u /\ StepReported(t)
    <3>1. pc[u] = "report" /\ sampled' = sampled /\ reports = <<>>
      BY <2>3 DEF StepReported, At, EndReport
    <3>2. ~Due(u, r)
      BY <3>1, EmptyRids, EmptyHolds DEF Due
    <3>. QED  BY <2>1, <3>1, <3>2 DEF Reported
  <2>4. CASE t = u /\ StepReport(t)
    <3>1. sampled'[u] = <<>>
      BY <2>1, <2>4, <1>a DEF StepReport, Goto
    <3>. QED  BY <2>1, <3>1, EmptyRids, EmptyHolds
  <2>5. CASE t = u /\ CollectToken(t)
    <3>1. pc[u] = "collect" /\ sampled'[u] = Tail(sampled[u]) /\ sampled[u] # <<>>
          /\ sampled[u] \in Seq(Report)
      BY <1>a, <2>5 DEF CollectToken, At
    <3>. QED  BY <2>1, <3>1, ReportRidsTailOccurs DEF Reported
  <2>6. CASE t = u /\ CollectFinished(t)
    BY <2>1, <2>6 DEF CollectFinished, At, Reported
  <2>7. CASE t = u /\ (StepBegin(t) \/ StepScheduled(t) \/ StepReturn(t)
                       \/ \E tok \in Tokens : DecodeSample(t, tok))
    BY <1>a, <2>1, <2>7 DEF StepBegin, StepScheduled, StepReturn, DecodeSample, Goto
  <2>8. CASE t = u /\ PickRequest(t)
    <3>1. pc'[t] = "loop" \/ pc'[t] = Route(Head(job[t]))
      BY <1>a, <2>8, PickFacts DEF PickRequest, Goto
    <3>. QED  BY <2>1, <2>8, <3>1 DEF Route
  <2>9. CASE t = u /\ QuietCall(t)
    BY <2>1, <2>9 DEF QuietCall, Executing, Reported
  <2>. QED  BY <2>2, <2>3, <2>4, <2>5, <2>6, <2>7, <2>8, <2>9, CallMoves
<1>. QED  BY <1>1, <1>2

LEMMA EndsFitStep ==
  ASSUME EngineInv, NoneRemoves, WaitFits, FlightFits, OnceFits, HeldFits, EndsFit,
         NEW t \in Threads, EngineCall(t)
  PROVE  EndsFit'
<1>. SUFFICES ASSUME NEW u \in Threads, NEW r \in Rids, Reported(u, r)',
                     Occurs(sampled'[u], <<r, "eos">>)
              PROVE  Over(r)'
  BY DEF EndsFit
<1>a. /\ sampled \in [Threads -> Seq(Report)] /\ reports \in Seq(Report)
      /\ state \in [Rids -> RequestStates] /\ sampled[u] \in Seq(Report)
  BY DEF EngineInv, EngineTypeOK, SchedInv, SchedTypeOK
<1>1. CASE Reported(u, r)
  <2>1. sampled'[u] = sampled[u] \/ (sampled[u] # <<>> /\ sampled'[u] = Tail(sampled[u]))
    <3>1. CASE t # u
      BY <3>1, CallIsStep, OthersStand
    <3>2. ~(t = u /\ \E tok \in Tokens : DecodeSample(t, tok))
      BY <1>1 DEF DecodeSample, At, Reported
    <3>3. CollectToken(t) /\ t = u => sampled[u] # <<>> /\ sampled'[u] = Tail(sampled[u])
      BY <1>a DEF CollectToken
    <3>. QED  BY <3>1, <3>2, <3>3, CallIsStep, EngineChanges
  <2>2. Occurs(sampled[u], <<r, "eos">>)
    BY <1>a, <2>1, TailOccurs
  <2>. QED  BY <1>1, <2>2, CallKeeps DEF EndsFit
<1>2. CASE ~Reported(u, r)
  <2>1. /\ t = u /\ ReportToken(t) /\ Holds(u, "report") /\ reports # <<>>
        /\ r = Head(reports)[1] /\ sampled'[u] = sampled[u]
    BY <1>2, ReportedFrom
  <2>2. /\ Head(reports) \in Report /\ Occurs(reports, Head(reports))
    BY <1>a, <2>1, HeadOccurs
  <2>3. Occurs(sampled[u], Head(reports)) /\ NoneTwice(ReportRids(sampled[u]))
    BY <2>1, <2>2 DEF HeldFits, OnceFits, OnceFit
  <2>4. Head(reports) = <<r, Head(reports)[2]>>
    BY <2>1, <2>2 DEF Report
  <2>5. Head(reports)[2] = "eos"
    BY <1>a, <2>1, <2>3, <2>4, SampledOnce
  <2>6. state'[r] = "FINISHED" /\ r \in known'
    BY <1>a, <2>1, <2>5 DEF ReportToken, Reportable
  <2>. QED  BY <2>6 DEF Over
<1>. QED  BY <1>1, <1>2

-----------------------------------------------------------------------------
(* The output of a step. *)

LEMMA SeqElement ==
  ASSUME NEW S, NEW s \in Seq(S), NEW i \in 1 .. Len(s)
  PROVE  s[i] \in S
  OBVIOUS

OverThen(q) == q \in known' /\ (state'[q] = "FINISHED" \/ preempted'[q])

LEMMA AppendKeeps ==
  ASSUME NEW S, NEW s \in Seq(S), NEW e \in S, NEW i \in 1 .. Len(s)
  PROVE  Append(s, e)[i] = s[i]
  OBVIOUS

LEMMA CollectTokenFits ==
  ASSUME EngineInv, NoneRemoves, FlightFits, OnceFits, EndsFit, OutsFit,
         NEW t \in Threads, CollectToken(t)
  PROVE  OutFit(t)'
<1>. DEFINE r   == Head(sampled[t])[1]
            tok == Head(sampled[t])[2]
            s   == ReportRids(sampled[t])
            e   == [rid |-> r, fin |-> state[r] = "FINISHED" \/ tok = "eos"]
            n   == Len(outToks[t])
<1>a. /\ sampled \in [Threads -> Seq(Report)] /\ sampled[t] \in Seq(Report)
      /\ outIds \in [Threads -> Seq([rid : Rids, fin : BOOLEAN])]
      /\ outToks \in [Threads -> Seq(Tokens)]
      /\ outIds[t] \in Seq([rid : Rids, fin : BOOLEAN]) /\ outToks[t] \in Seq(Tokens)
  BY DEF EngineInv, EngineTypeOK
<1>b. /\ pc[t] = "collect" /\ sampled[t] # <<>> /\ sampled'[t] = Tail(sampled[t])
      /\ pc' = pc /\ UNCHANGED <<state, known, preempted>>
  BY <1>a DEF CollectToken, At
<1>c. /\ Head(sampled[t]) \in Report /\ Occurs(sampled[t], Head(sampled[t]))
      /\ r \in Rids /\ tok \in Tokens /\ Head(sampled[t]) = <<r, tok>>
  <2>1. Head(sampled[t]) \in Report /\ Occurs(sampled[t], Head(sampled[t]))
    BY <1>a, <1>b, HeadOccurs
  <2>. QED  BY <2>1 DEF Report
<1>d. /\ s \in Seq(Rids) /\ s # <<>> /\ Head(s) = r /\ ReportRids(sampled'[t]) = Tail(s)
      /\ NoneTwice(s)
  BY <1>a, <1>b, ReportRidsType, ReportRidsTail DEF OnceFits, OnceFit
<1>e. /\ Occurs(s, r) /\ \A c : Occurs(Tail(s), c) <=> Occurs(s, c) /\ c # r
  <2>. HIDE DEF s
  <2>. QED  BY <1>d, TailHolds
<1>f. r \in known
  BY <1>c, <1>e DEF FlightFits, Begun
<1>g. /\ outIds'[t] = Append(outIds[t], e) /\ outToks'[t] = Append(outToks[t], tok)
  BY <1>a, <1>f DEF CollectToken, FinishFlag
<1>h. /\ Len(outIds[t]) = n /\ n \in Nat
      /\ \A i \in 1 .. n : \A j \in 1 .. n : outIds[t][i].rid = outIds[t][j].rid => i = j
      /\ \A i \in 1 .. n : ~Occurs(s, outIds[t][i].rid)
      /\ \A i \in 1 .. n : /\ outToks[t][i] = "eos" => outIds[t][i].fin
                           /\ outIds[t][i].fin => Over(outIds[t][i].rid)
  BY <1>a, <1>b, LenProperties DEF OutsFit, OutFit
<1>i. e.fin => Over(r)
  <2>1. tok = "eos" => Over(r)
    <3>1. Reported(t, r)
      BY <1>b, <1>e DEF Reported
    <3>. QED  BY <1>c, <3>1 DEF EndsFit
  <2>. QED  BY <1>f, <2>1 DEF Over
<1>j. e \in [rid : Rids, fin : BOOLEAN] /\ e.rid = r /\ (tok = "eos" => e.fin)
  BY <1>c
<1>k. \A q : OverThen(q) <=> Over(q)
  BY <1>b DEF Over, OverThen
<1>. HIDE DEF e, s, r, tok
<1>l. /\ Len(outIds'[t]) = n + 1 /\ outIds'[t][n + 1] = e
      /\ Len(outToks'[t]) = n + 1 /\ outToks'[t][n + 1] = tok
      /\ \A i \in 1 .. n : outIds'[t][i] = outIds[t][i] /\ outToks'[t][i] = outToks[t][i]
  BY <1>a, <1>c, <1>g, <1>h, <1>j
<1>. HIDE DEF n
<1>m. \A i \in 1 .. n + 1 : i \in 1 .. n \/ i = n + 1
  BY <1>h
<1>1. Len(outToks'[t]) <= Len(outIds'[t]) /\ Len(outToks'[t]) = Len(outIds'[t])
  BY <1>h, <1>l
<1>2. \A i \in 1 .. n + 1 : \A j \in 1 .. n + 1 :
         outIds'[t][i].rid = outIds'[t][j].rid => i = j
  <2>. SUFFICES ASSUME NEW i \in 1 .. n + 1, NEW j \in 1 .. n + 1,
                       outIds'[t][i].rid = outIds'[t][j].rid
                PROVE  i = j
    OBVIOUS
  <2>1. i \in 1 .. n => outIds'[t][i].rid = outIds[t][i].rid /\ ~Occurs(s, outIds[t][i].rid)
    BY <1>h, <1>l
  <2>2. j \in 1 .. n => outIds'[t][j].rid = outIds[t][j].rid /\ ~Occurs(s, outIds[t][j].rid)
    BY <1>h, <1>l
  <2>3. i = n + 1 => outIds'[t][i].rid = r
    BY <1>l, <1>j
  <2>4. j = n + 1 => outIds'[t][j].rid = r
    BY <1>l, <1>j
  <2>. QED  BY <1>e, <1>h, <1>m, <2>1, <2>2, <2>3, <2>4
<1>3. \A i \in 1 .. n + 1 : ~Occurs(Tail(s), outIds'[t][i].rid)
  BY <1>e, <1>h, <1>j, <1>l, <1>m
<1>4. \A i \in 1 .. n + 1 :
        /\ outToks'[t][i] = "eos" => outIds'[t][i].fin
        /\ outIds'[t][i].fin => OverThen(outIds'[t][i].rid)
  <2>. SUFFICES ASSUME NEW i \in 1 .. n + 1
                PROVE  /\ outToks'[t][i] = "eos" => outIds'[t][i].fin
                       /\ outIds'[t][i].fin => Over(outIds'[t][i].rid)
    BY <1>k
  <2>1. CASE i \in 1 .. n
    <3>1. outIds'[t][i] = outIds[t][i] /\ outToks'[t][i] = outToks[t][i]
      BY <1>l, <2>1
    <3>2. /\ outToks[t][i] = "eos" => outIds[t][i].fin
          /\ outIds[t][i].fin => Over(outIds[t][i].rid)
      BY <1>h, <2>1
    <3>. QED  BY <3>1, <3>2 DEF Over
  <2>2. CASE i = n + 1
    <3>1. outIds'[t][i] = e /\ outToks'[t][i] = tok
      BY <1>l, <2>2
    <3>2. outIds'[t][i].rid = r /\ (outIds'[t][i].fin <=> e.fin)
      BY <1>j, <3>1
    <3>3. outIds'[t][i].fin => Over(outIds'[t][i].rid)
      BY <1>i, <3>2 DEF Over
    <3>. QED  BY <1>j, <3>1, <3>2, <3>3
  <2>. QED  BY <1>m, <2>1, <2>2
<1>5. pc'[t] = "collect"
  BY <1>b
<1>6. \A i \in 1 .. n + 1 : ~(i > n + 1)
  BY <1>h
<1>. QED  BY <1>1, <1>2, <1>3, <1>4, <1>5, <1>6, <1>d, <1>l DEF OutFit, Over, OverThen

LEMMA CollectFinishedFits ==
  ASSUME EngineInv, NoneRemoves, FlightFits, OutsFit, NEW t \in Threads, CollectFinished(t)
  PROVE  OutFit(t)'
<1>. DEFINE r == Head(fins[t])
            e == [rid |-> r, fin |-> TRUE]
            n == Len(outToks[t])
            m == Len(outIds[t])
<1>a. /\ fins[t] \in Seq(Rids) /\ outIds \in [Threads -> Seq([rid : Rids, fin : BOOLEAN])]
      /\ outIds[t] \in Seq([rid : Rids, fin : BOOLEAN]) /\ outToks[t] \in Seq(Tokens)
      /\ n \in Nat /\ m \in Nat
  BY LenProperties DEF EngineInv, EngineTypeOK
<1>b. /\ pc[t] = "collect" /\ sampled[t] = <<>> /\ fins[t] # <<>>
      /\ pc' = pc /\ UNCHANGED <<state, known, preempted, sampled, outToks>>
  BY DEF CollectFinished, At
<1>c. r \in Rids /\ Occurs(fins[t], r)
  BY <1>a, <1>b, HeadOccurs
<1>d. Over(r) /\ r \in known
  BY <1>c DEF FlightFits, Over
<1>e. outIds'[t] = Append(outIds[t], e) /\ e \in [rid : Rids, fin : BOOLEAN]
  BY <1>a, <1>c, <1>d DEF CollectFinished
<1>f. \A q : OverThen(q) <=> Over(q)
  BY <1>b DEF Over, OverThen
<1>g. e.fin /\ e.rid = r
  OBVIOUS
<1>h. OutFit(t)
  BY DEF OutsFit
<1>i. n <= m
  BY <1>h DEF OutFit
<1>. HIDE DEF e, r
<1>j. /\ Len(outIds'[t]) = m + 1 /\ outIds'[t][m + 1] = e
      /\ \A i \in 1 .. m : outIds'[t][i] = outIds[t][i]
  BY <1>a, <1>e
<1>k. \A i \in 1 .. n : outIds'[t][i] = outIds[t][i]
  BY <1>a, <1>i, <1>j
<1>l. Len(outToks'[t]) = n /\ outToks'[t] = outToks[t] /\ sampled'[t] = <<>> /\ pc'[t] = "collect"
  BY <1>b
<1>1. n <= m + 1
  BY <1>a, <1>i
<1>2. /\ \A i \in 1 .. n : \A j \in 1 .. n : outIds'[t][i].rid = outIds'[t][j].rid => i = j
      /\ \A i \in 1 .. n : ~Occurs(ReportRids(sampled'[t]), outIds'[t][i].rid)
  BY <1>h, <1>k, <1>l, EmptyRids, EmptyHolds DEF OutFit
<1>3. ASSUME NEW i \in 1 .. m + 1
      PROVE  /\ i > n \/ outToks[t][i] = "eos" => outIds'[t][i].fin
             /\ outIds'[t][i].fin => Over(outIds'[t][i].rid)
  <2>1. i \in 1 .. m \/ i = m + 1
    BY <1>a
  <2>2. CASE i \in 1 .. m
    BY <1>h, <1>j, <2>2 DEF OutFit
  <2>3. CASE i = m + 1
    BY <1>d, <1>g, <1>j, <2>3
  <2>. QED  BY <2>1, <2>2, <2>3
<1>4. \A i \in 1 .. m + 1 :
        /\ i > n \/ outToks'[t][i] = "eos" => outIds'[t][i].fin
        /\ outIds'[t][i].fin => OverThen(outIds'[t][i].rid)
  BY <1>3, <1>f, <1>l
<1>. HIDE DEF n, m
<1>. QED  BY <1>1, <1>2, <1>4, <1>j, <1>l DEF OutFit, Over, OverThen

LEMMA OutFitKept ==
  ASSUME EngineInv, NoneRemoves, WaitFits, NEW t \in Threads, EngineCall(t),
         NEW u \in Threads, OutFit(u),
         outIds'[u] = outIds[u], outToks'[u] = outToks[u],
         outToks[u] # <<>> => sampled'[u] = sampled[u],
         pc'[u] \in {"out", "collect"} \/ outIds[u] = <<>>,
         pc'[u] = "collect" /\ sampled'[u] # <<>> =>
           outIds[u] = <<>> \/ (pc[u] = "collect" /\ sampled[u] # <<>>)
  PROVE  OutFit(u)'
<1>a. outIds[u] \in Seq([rid : Rids, fin : BOOLEAN]) /\ outToks[u] \in Seq(Tokens)
  BY DEF EngineInv, EngineTypeOK
<1>1. \A i \in 1 .. Len(outIds[u]) : outIds[u][i].rid \in Rids
  <2>1. \A i \in 1 .. Len(outIds[u]) : outIds[u][i] \in [rid : Rids, fin : BOOLEAN]
    BY <1>a, SeqElement
  <2>. QED  BY <2>1
<1>2. \A i \in 1 .. Len(outIds[u]) :
         outIds[u][i].fin => OverThen(outIds'[u][i].rid)
  <2>. SUFFICES ASSUME NEW i \in 1 .. Len(outIds[u]), outIds[u][i].fin
                PROVE  OverThen(outIds'[u][i].rid)
    OBVIOUS
  <2>1. PICK q \in Rids : q = outIds[u][i].rid
    BY <1>1
  <2>2. Over(q)
    BY <2>1 DEF OutFit
  <2>3. OverThen(q)
    BY <2>2, CallKeeps DEF Over, OverThen
  <2>. QED  BY <2>1, <2>3
<1>3. pc'[u] \notin {"out", "collect"} => outIds'[u] = <<>>
  OBVIOUS
<1>4. outToks[u] = <<>> => Len(outToks[u]) = 0
  OBVIOUS
<1>5. \A i \in 1 .. Len(outToks'[u]) : ~Occurs(ReportRids(sampled'[u]), outIds'[u][i].rid)
  <2>1. CASE outToks[u] = <<>>
    BY <2>1
  <2>2. CASE outToks[u] # <<>>
    BY <2>2 DEF OutFit
  <2>. QED  BY <2>1, <2>2
<1>6. pc'[u] = "collect" /\ sampled'[u] # <<>> => Len(outIds'[u]) = Len(outToks'[u])
  <2>1. CASE outIds[u] = <<>>
    <3>1. Len(outToks[u]) <= 0 /\ Len(outToks[u]) \in Nat
      BY <1>a, <2>1, LenProperties DEF OutFit
    <3>. QED  BY <2>1, <3>1
  <2>2. CASE pc[u] = "collect" /\ sampled[u] # <<>>
    BY <2>2 DEF OutFit
  <2>. QED  BY <2>1, <2>2
<1>7. /\ Len(outToks'[u]) <= Len(outIds'[u])
      /\ \A i \in 1 .. Len(outToks'[u]) : \A j \in 1 .. Len(outToks'[u]) :
           outIds'[u][i].rid = outIds'[u][j].rid => i = j
      /\ \A i \in 1 .. Len(outIds'[u]) :
           i > Len(outToks'[u]) \/ outToks'[u][i] = "eos" => outIds'[u][i].fin
  BY DEF OutFit
<1>8. \A i \in 1 .. Len(outIds'[u]) : outIds'[u][i].fin => OverThen(outIds'[u][i].rid)
  BY <1>2
<1>. QED  BY <1>3, <1>5, <1>6, <1>7, <1>8 DEF OutFit, Over, OverThen

LEMMA OutsFitStep ==
  ASSUME EngineInv, NoneRemoves, WaitFits, FlightFits, OnceFits, EndsFit, OutsFit,
         NEW t \in Threads, EngineCall(t)
  PROVE  OutsFit'
<1>. SUFFICES ASSUME NEW u \in Threads PROVE OutFit(u)'
  BY DEF OutsFit
<1>a. /\ pc \in [Threads -> PagedLabels] /\ EngineStep(t)
      /\ DOMAIN outIds = Threads /\ DOMAIN outToks = Threads
      /\ outToks[u] \in Seq(Tokens) /\ OutFit(u)
  BY CallIsStep DEF EngineInv, EngineTypeOK, OutsFit
<1>b. outIds[u] = <<>> => outToks[u] = <<>>
  <2>. HAVE outIds[u] = <<>>
  <2>1. Len(outToks[u]) <= 0 /\ Len(outToks[u]) \in Nat
    BY <1>a, LenProperties DEF OutFit
  <2>. QED  BY <1>a, <2>1, EmptySeq
<1>c. /\ pc[u] \notin {"out", "collect"} => outIds[u] = <<>>
      /\ pc[u] = "out" => sampled[u] = <<>>
  BY <1>a DEF OutFit, OnceFits, OnceFit
<1>1. CASE t # u
  <2>1. /\ outIds'[u] = outIds[u] /\ outToks'[u] = outToks[u]
        /\ pc'[u] = pc[u] /\ sampled'[u] = sampled[u]
    BY <1>1, <1>a, OthersStand
  <2>. QED  BY <1>a, <1>c, <2>1, OutFitKept
<1>2. CASE t = u /\ CollectToken(t)
  BY <1>2, CollectTokenFits
<1>3. CASE t = u /\ CollectFinished(t)
  BY <1>3, CollectFinishedFits
<1>4. CASE t = u /\ StepBegin(t)
  <2>1. outIds'[u] = <<>> /\ outToks'[u] = <<>> /\ pc'[u] = "schedule"
    BY <1>4, <1>a DEF StepBegin, Goto
  <2>2. Len(outIds'[u]) = 0 /\ Len(outToks'[u]) = 0
    BY <2>1
  <2>. QED  BY <2>1, <2>2 DEF OutFit
<1>5. CASE t = u /\ (StepScheduled(t) \/ \E tok \in Tokens : DecodeSample(t, tok))
  <2>1. pc[u] \in {"schedule", "attend"} /\ outIds' = outIds /\ outToks' = outToks
    BY <1>5 DEF StepScheduled, DecodeSample, At
  <2>. QED  BY <1>a, <1>b, <1>c, <2>1, OutFitKept
<1>6. CASE t = u /\ (PickRequest(t) \/ StepReport(t) \/ StepReported(t))
  <2>1. pc[u] \in {"loop", "report"} /\ outIds' = outIds /\ outToks' = outToks
    BY <1>6 DEF PickRequest, StepReport, StepReported, At
  <2>. QED  BY <1>a, <1>b, <1>c, <2>1, OutFitKept
<1>7. CASE t = u /\ StepReturn(t)
  <2>1. /\ pc'[u] = "out" /\ sampled'[u] = sampled[u]
        /\ outIds' = outIds /\ outToks' = outToks
    BY <1>7, <1>a DEF StepReturn, Goto
  <2>. QED  BY <1>a, <2>1, OutFitKept
<1>8. CASE t = u /\ QuietCall(t)
  <2>1. UNCHANGED <<sampled, outIds, outToks>>
    BY <1>8 DEF QuietCall
  <2>2. CASE pc' = pc
    BY <1>a, <1>c, <2>1, <2>2, OutFitKept
  <2>3. CASE Executing(u)
    BY <1>a, <1>b, <1>c, <2>1, <2>3, OutFitKept DEF Executing
  <2>. QED  BY <1>8, <2>2, <2>3 DEF QuietCall
<1>. QED  BY <1>1, <1>2, <1>3, <1>4, <1>5, <1>6, <1>7, <1>8, CallMoves

-----------------------------------------------------------------------------
(* The invariant of the calls. *)

LEMMA CallsInit == EngineInit => CallsInv
<1>. SUFFICES ASSUME EngineInit PROVE CallsInv
  OBVIOUS
<1>1. EngineInv
  BY EngineInitInv
<1>2. /\ pc = [t \in Threads |-> "out"] /\ phase = "idle"
      /\ waiting = <<>> /\ batch = <<>> /\ retired = <<>> /\ reports = <<>>
      /\ \A t \in Threads : /\ job[t] = <<>> /\ sampled[t] = <<>> /\ fins[t] = <<>>
                             /\ outIds[t] = <<>> /\ outToks[t] = <<>>
  BY DEF EngineInit, SchedInit
<1>3. NoneRemoves /\ WaitFits
  BY <1>2, EmptyHolds DEF NoneRemoves, WaitFits, WaitingNow
<1>4. FlightFits
  BY <1>2, EmptyRids, EmptyHolds DEF FlightFits, Decoding
<1>5. OnceFits /\ HeldFits
  BY <1>2, EmptyRids, EmptyHolds DEF OnceFits, OnceFit, HeldFits, Holds, Executing, Decoding
<1>6. EndsFit
  BY <1>2, EmptyRids, EmptyHolds DEF EndsFit, Reported
<1>7. OutsFit
  <2>1. \A t \in Threads : Len(outIds[t]) = 0 /\ Len(outToks[t]) = 0
    BY <1>2
  <2>. QED  BY <1>2, <2>1 DEF OutsFit, OutFit
<1>. QED  BY <1>1, <1>3, <1>4, <1>5, <1>6, <1>7 DEF CallsInv

LEMMA CallsStep ==
  ASSUME CallsInv, NEW t \in Threads, EngineCall(t)
  PROVE  CallsInv'
<1>. USE DEF CallsInv
<1>1. EngineInv'
  BY CallIsStep, EngineInvStep
<1>2. NoneRemoves' /\ WaitFits' /\ FlightFits'
  BY NoneRemovesStep, WaitFitsStep, FlightFitsStep
<1>3. OnceFits' /\ HeldFits'
  BY OnceFitsStep, HeldFitsStep
<1>4. EndsFit' /\ OutsFit'
  BY EndsFitStep, OutsFitStep
<1>. QED  BY <1>1, <1>2, <1>3, <1>4

LEMMA CallsFrame ==
  ASSUME CallsInv, UNCHANGED pagedVars
  PROVE  CallsInv'
<1>. USE DEF CallsInv
<1>1. EngineInv'
  BY EngineInvFrame
<1>2. NoneRemoves' /\ WaitFits' /\ FlightFits'
  BY DEF NoneRemoves, WaitFits, WaitingNow, FlightFits, Begun, Over, Decoding
<1>3. OnceFits' /\ HeldFits'
  BY DEF OnceFits, OnceFit, HeldFits, Holds, Executing, Decoding
<1>4. EndsFit' /\ OutsFit'
  BY DEF EndsFit, Reported, Due, OutsFit, OutFit, Over
<1>. QED  BY <1>1, <1>2, <1>3, <1>4

-----------------------------------------------------------------------------
(***************************************************************************)
(* The tokens in a caller's hands.                                         *)
(***************************************************************************)

\* The tokens of r that report_output has appended and that t, which reads its output from
\* place n on, has still to read.
InHand(t, r, n) ==
  \/ Reported(t, r)
  \/ \E j \in n .. Len(outToks[t]) : outIds[t][j].rid = r

LEMMA TokensCounted ==
  ASSUME EngineInv, NoneRemoves, NEW t \in Threads, EngineCall(t), NEW r \in Rids
  PROVE  /\ genLen[r] \in Nat /\ genLen'[r] \in Nat /\ genLen'[r] >= genLen[r]
         /\ IF ReportToken(t) /\ r = Head(reports)[1] THEN genLen'[r] = genLen[r] + 1
                                                     ELSE genLen'[r] = genLen[r]
<1>a. SchedTypeOK /\ LoopAtRequest /\ genLen \in [Rids -> Nat]
  BY CallIsStep DEF SchedTypeOK
<1>1. CASE ReportToken(t)
  <2>1. genLen' = [genLen EXCEPT ![Head(reports)[1]] = @ + 1]
    BY <1>1 DEF ReportToken
  <2>. QED  BY <1>a, <1>1, <2>1
<1>2. CASE ~ReportToken(t)
  <2>1. genLen' = genLen
    BY <1>2, CallIsStep, StepChanges DEF OffScheduler
  <2>. QED  BY <1>a, <1>2, <2>1
<1>. QED  BY <1>1, <1>2

LEMMA HandTypes ==
  ASSUME CallsInv, NEW t \in Threads, EngineCall(t), NEW u \in Threads
  PROVE  /\ EngineStep(t) /\ EngineInv /\ NoneRemoves /\ OutFit(u) /\ EngineTypeOK
         /\ outIds \in [Threads -> Seq([rid : Rids, fin : BOOLEAN])]
         /\ outToks \in [Threads -> Seq(Tokens)] /\ sampled \in [Threads -> Seq(Report)]
         /\ outIds[u] \in Seq([rid : Rids, fin : BOOLEAN]) /\ outToks[u] \in Seq(Tokens)
         /\ sampled[u] \in Seq(Report) /\ pc \in [Threads -> PagedLabels]
         /\ reports \in Seq(Report)
         /\ Len(outIds[u]) \in Nat /\ Len(outToks[u]) \in Nat /\ Len(outToks[u]) <= Len(outIds[u])
  BY CallIsStep, LenProperties DEF CallsInv, OutsFit, OutFit, EngineInv, EngineTypeOK, SchedInv, SchedTypeOK

\* What CollectToken moves from the sampled tokens to the output.
LEMMA CollectMoves ==
  ASSUME CallsInv, NEW t \in Threads, EngineCall(t), CollectToken(t), ~(UNCHANGED outputVars),
         NEW h, h = Head(sampled[t])[1]
  PROVE  /\ pc[t] = "collect" /\ h \in Rids /\ Occurs(ReportRids(sampled[t]), h)
         /\ Len(outIds[t]) = Len(outToks[t])
         /\ Len(outToks'[t]) = Len(outToks[t]) + 1
         /\ \A j \in 1 .. Len(outToks[t]) : outIds'[t][j] = outIds[t][j]
         /\ outIds'[t][Len(outToks[t]) + 1].rid = h
<1> DEFINE e == [rid |-> h, fin |-> state[h] = "FINISHED" \/ Head(sampled[t])[2] = "eos"]
<1>a. /\ outIds[t] \in Seq([rid : Rids, fin : BOOLEAN]) /\ outToks[t] \in Seq(Tokens)
      /\ sampled[t] \in Seq(Report) /\ OutFit(t)
      /\ outIds \in [Threads -> Seq([rid : Rids, fin : BOOLEAN])]
      /\ outToks \in [Threads -> Seq(Tokens)]
      /\ Len(outIds[t]) \in Nat /\ Len(outToks[t]) \in Nat
  BY HandTypes
<1>1. /\ outIds'[t] = Append(outIds[t], e)
      /\ outToks'[t] = Append(outToks[t], Head(sampled[t])[2])
      /\ pc[t] = "collect" /\ sampled[t] # <<>>
  BY <1>a DEF CollectToken, FinishFlag, At
<1>2. h \in Rids /\ Occurs(ReportRids(sampled[t]), h) /\ Head(sampled[t]) \in Report
  <2>1. /\ ReportRids(sampled[t]) \in Seq(Rids) /\ ReportRids(sampled[t]) # <<>>
        /\ Head(ReportRids(sampled[t])) = h /\ Head(sampled[t]) \in Report
    BY <1>a, <1>1, ReportRidsType, ReportRidsTail, HeadOccurs
  <2>. QED  BY <2>1, HeadOccurs
<1>3. Head(sampled[t])[2] \in Tokens /\ e \in [rid : Rids, fin : BOOLEAN] /\ e.rid = h
  BY <1>2 DEF Report
<1>4. Len(outIds[t]) = Len(outToks[t])
  BY <1>a, <1>1 DEF OutFit
<1>. HIDE DEF e
<1>5. \A j \in 1 .. Len(outToks[t]) : outIds'[t][j] = outIds[t][j]
  BY <1>a, <1>1, <1>3, <1>4, AppendKeeps
<1>. QED  BY <1>a, <1>1, <1>2, <1>3, <1>4, <1>5

\* CollectFinished appends behind what has tokens.
LEMMA FinishedBehind ==
  ASSUME CallsInv, NEW t \in Threads, EngineCall(t), CollectFinished(t)
  PROVE  /\ outToks' = outToks /\ sampled' = sampled /\ pc' = pc
         /\ \A j \in 1 .. Len(outIds[t]) : outIds'[t][j] = outIds[t][j]
<1>a. /\ outIds[t] \in Seq([rid : Rids, fin : BOOLEAN])
      /\ outIds \in [Threads -> Seq([rid : Rids, fin : BOOLEAN])] /\ EngineTypeOK
  BY HandTypes
<1> DEFINE e == [rid |-> Head(fins[t]), fin |-> TRUE]
<1>1. outIds'[t] = outIds[t] \/ outIds'[t] = Append(outIds[t], e)
  BY <1>a DEF CollectFinished
<1>2. Head(fins[t]) \in Rids
  <2>1. fins[t] \in Seq(Rids) /\ fins[t] # <<>>
    BY <1>a DEF CollectFinished, EngineTypeOK
  <2>. QED  BY <2>1, HeadOccurs
<1>3. e \in [rid : Rids, fin : BOOLEAN]
  BY <1>2
<1>. HIDE DEF e
<1>4. \A j \in 1 .. Len(outIds[t]) : Append(outIds[t], e)[j] = outIds[t][j]
  BY <1>a, <1>3, AppendKeeps
<1>. QED  BY <1>1, <1>4 DEF CollectFinished

\* A token comes into the hands of a caller only in the step of report_output that generates
\* it; a new call of step() begins with none.
LEMMA InHandFrom ==
  ASSUME CallsInv, NEW t \in Threads, EngineCall(t), NEW u \in Threads,
         NEW n \in Nat \ {0}, NEW r \in Rids, InHand(u, r, n)'
  PROVE  \/ InHand(u, r, n) /\ ~(t = u /\ StepBegin(t))
         \/ ReportToken(t) /\ r = Head(reports)[1]
<1>a. /\ EngineStep(t) /\ EngineInv /\ OutFit(u) /\ pc \in [Threads -> PagedLabels]
      /\ outToks \in [Threads -> Seq(Tokens)]
      /\ Len(outIds[u]) \in Nat /\ Len(outToks[u]) \in Nat /\ Len(outToks[u]) <= Len(outIds[u])
  BY HandTypes
<1>1. CASE t = u /\ StepBegin(t)
  <2>1. pc'[u] = "schedule" /\ outToks'[u] = <<>>
    BY <1>a, <1>1 DEF StepBegin, Goto
  <2>2. Len(outToks'[u]) = 0 /\ n .. 0 = {}
    BY <2>1
  <2>. QED  BY <2>1, <2>2 DEF InHand, Reported
<1>2. CASE Reported(u, r)' /\ ~(t = u /\ StepBegin(t))
  BY <1>2, ReportedFrom DEF InHand, CallsInv
<1>3. CASE ~Reported(u, r)' /\ ~(t = u /\ StepBegin(t))
  <2>1. PICK j \in n .. Len(outToks'[u]) : outIds'[u][j].rid = r
    BY <1>3 DEF InHand
  <2>2. CASE outIds'[u] = outIds[u] /\ outToks'[u] = outToks[u]
    BY <1>3, <2>1, <2>2 DEF InHand
  <2>3. CASE t = u /\ CollectToken(t) /\ ~(UNCHANGED outputVars)
    <3>. DEFINE h == Head(sampled[u])[1]
    <3>1. /\ pc[u] = "collect" /\ Occurs(ReportRids(sampled[u]), h)
          /\ Len(outToks'[u]) = Len(outToks[u]) + 1
          /\ \A l \in 1 .. Len(outToks[u]) : outIds'[u][l] = outIds[u][l]
          /\ outIds'[u][Len(outToks[u]) + 1].rid = h
      BY <2>3, CollectMoves
    <3>. HIDE DEF h
    <3>2. CASE j \in 1 .. Len(outToks[u])
      <4>1. j \in n .. Len(outToks[u]) /\ outIds[u][j].rid = r
        BY <1>a, <2>1, <3>1, <3>2
      <4>. QED  BY <1>3, <4>1 DEF InHand
    <3>3. CASE j = Len(outToks[u]) + 1
      BY <1>3, <2>1, <3>1, <3>3 DEF InHand, Reported
    <3>. QED  BY <1>a, <2>1, <3>1, <3>2, <3>3
  <2>4. CASE t = u /\ CollectFinished(t)
    <3>1. /\ outToks' = outToks
          /\ \A l \in 1 .. Len(outIds[u]) : outIds'[u][l] = outIds[u][l]
      BY <2>4, FinishedBehind
    <3>2. j \in n .. Len(outToks[u]) /\ j \in 1 .. Len(outIds[u])
      BY <1>a, <2>1, <3>1
    <3>. QED  BY <1>3, <2>1, <3>1, <3>2 DEF InHand
  <2>5. t # u => outIds'[u] = outIds[u] /\ outToks'[u] = outToks[u]
    BY <1>a, OthersStand
  <2>. QED  BY <1>a, <1>3, <2>2, <2>3, <2>4, <2>5, EngineChanges
<1>. QED  BY <1>1, <1>2, <1>3

\* A caller keeps in its hands what it has not read.
LEMMA InHandKept ==
  ASSUME CallsInv, NEW t \in Threads, EngineCall(t), ~StepBegin(t), NEW r \in Rids,
         InHand(t, r, 1)
  PROVE  InHand(t, r, 1)'
<1>a. /\ EngineStep(t) /\ EngineInv /\ NoneRemoves /\ OutFit(t) /\ pc \in [Threads -> PagedLabels]
      /\ sampled[t] \in Seq(Report) /\ reports \in Seq(Report) /\ FlightFits
      /\ sampled \in [Threads -> Seq(Report)]
      /\ Len(outIds[t]) \in Nat /\ Len(outToks[t]) \in Nat /\ Len(outToks[t]) <= Len(outIds[t])
  BY HandTypes DEF CallsInv
<1>1. CASE CollectToken(t)
  <2>. DEFINE h == Head(sampled[t])[1]
  <2>0. pc[t] = "collect" /\ sampled[t] # <<>> /\ sampled'[t] = Tail(sampled[t]) /\ pc' = pc
    BY <1>a, <1>1 DEF CollectToken, At
  <2>1. Occurs(ReportRids(sampled[t]), h) /\ h \in Rids
    <3>1. /\ ReportRids(sampled[t]) \in Seq(Rids) /\ ReportRids(sampled[t]) # <<>>
          /\ Head(ReportRids(sampled[t])) = h
      BY <1>a, <2>0, ReportRidsType, ReportRidsTail, HeadOccurs
    <3>. QED  BY <3>1, HeadOccurs
  <2>2. ~(UNCHANGED outputVars)
    <3>1. h \in known
      BY <2>1, <1>a DEF FlightFits, Begun
    <3>2. outToks'[t] = Append(outToks[t], Head(sampled[t])[2])
      BY <3>1, <1>1, HandTypes DEF CollectToken
    <3>3. Head(sampled[t])[2] \in Tokens
      <4>1. Head(sampled[t]) \in Report
        BY <1>a, <2>0, HeadOccurs
      <4>. QED  BY <4>1 DEF Report
    <3>4. Len(outToks'[t]) = Len(outToks[t]) + 1
      BY <3>2, <3>3, HandTypes, AppendProperties
    <3>. QED  BY <3>4, <1>a
  <2>3. /\ Len(outToks'[t]) = Len(outToks[t]) + 1
        /\ \A j \in 1 .. Len(outToks[t]) : outIds'[t][j] = outIds[t][j]
        /\ outIds'[t][Len(outToks[t]) + 1].rid = h
    BY <1>1, <2>2, CollectMoves
  <2>4. CASE r = h
    <3>1. Len(outToks[t]) + 1 \in 1 .. Len(outToks'[t])
      BY <1>a, <2>3
    <3>. QED  BY <2>3, <2>4, <3>1 DEF InHand
  <2>5. CASE Reported(t, r) /\ r # h
    <3>1. ReportRids(sampled'[t]) = Tail(ReportRids(sampled[t]))
      BY <1>a, <2>0, ReportRidsTail
    <3>2. NoneTwice(ReportRids(sampled[t])) /\ Occurs(ReportRids(sampled[t]), r)
      BY <2>5 DEF Reported, CallsInv, OnceFits, OnceFit
    <3>3. /\ ReportRids(sampled[t]) \in Seq(Rids) /\ ReportRids(sampled[t]) # <<>>
          /\ Head(ReportRids(sampled[t])) = h
      BY <1>a, <2>0, ReportRidsType, ReportRidsTail
    <3>. HIDE DEF h
    <3>4. Occurs(Tail(ReportRids(sampled[t])), r)
      BY <3>2, <3>3, <2>5, TailHolds
    <3>5. Reported(t, r)'
      BY <2>0, <3>1, <3>4 DEF Reported
    <3>. QED  BY <3>5 DEF InHand
  <2>6. CASE ~Reported(t, r)
    <3>1. PICK j \in 1 .. Len(outToks[t]) : outIds[t][j].rid = r
      BY <2>6 DEF InHand
    <3>2. j \in 1 .. Len(outToks'[t]) /\ outIds'[t][j].rid = r
      BY <1>a, <2>3, <3>1
    <3>. QED  BY <3>2 DEF InHand
  <2>. QED  BY <2>4, <2>5, <2>6
<1>2. CASE CollectFinished(t)
  <2>1. /\ outToks' = outToks /\ sampled' = sampled /\ pc' = pc /\ pc[t] = "collect"
        /\ \A j \in 1 .. Len(outIds[t]) : outIds'[t][j] = outIds[t][j]
    BY <1>2, FinishedBehind DEF CollectFinished, At
  <2>2. Reported(t, r) => Reported(t, r)'
    BY <2>1 DEF Reported
  <2>3. \A j \in 1 .. Len(outToks[t]) : j \in 1 .. Len(outIds[t])
    BY <1>a
  <2>. QED  BY <2>1, <2>2, <2>3 DEF InHand
<1>3. CASE ~CollectToken(t) /\ ~CollectFinished(t)
  <2>1. outIds' = outIds /\ outToks' = outToks
    BY <1>a, <1>3, EngineChanges
  <2>2. Reported(t, r) => Reported(t, r)'
    <3>. SUFFICES ASSUME Reported(t, r) PROVE Reported(t, r)'
      OBVIOUS
    <3>0. sampled' = sampled
      BY <1>a, <1>3, EngineChanges DEF DecodeSample, At, Reported
    <3>1. CASE pc[t] = "collect"
      <4>1. pc'[t] \in {"collect", "out"}
        <5>1. QuietCall(t) => pc' = pc
          BY <3>1 DEF QuietCall, Executing
        <5>. QED  BY <1>a, <1>3, <3>1, <5>1, CallMoves
             DEF StepScheduled, PickRequest, DecodeSample, StepReport, StepReported, StepReturn, At, Goto
      <4>2. pc'[t] # "out"
        <5>1. sampled[t] # <<>>
          BY EmptyRids, EmptyHolds DEF Reported
        <5>2. ~StepReturn(t)
          BY <5>1 DEF StepReturn
        <5>3. QuietCall(t) => pc' = pc
          BY <3>1 DEF QuietCall, Executing
        <5>. QED  BY <1>a, <1>3, <3>1, <5>2, <5>3, CallMoves
             DEF StepScheduled, PickRequest, DecodeSample, StepReport, StepReported, At, Goto
      <4>. QED  BY <3>0, <4>1, <4>2 DEF Reported
    <3>2. CASE pc[t] = "report" /\ ~Due(t, r)
      <4>1. CASE StepReported(t)
        BY <1>a, <3>0, <4>1 DEF StepReported, Goto, Reported
      <4>2. CASE ~StepReported(t)
        <5>1. pc'[t] = "report"
          <6>1. QuietCall(t) => pc' = pc
            BY <3>2 DEF QuietCall, Executing
          <6>. QED  BY <1>a, <1>3, <3>2, <4>2, <6>1, CallMoves
               DEF StepScheduled, PickRequest, DecodeSample, StepReport, StepBegin, StepReturn, At, Goto
        <5>2. Holds(t, "report")'
          BY <1>a, <5>1, CallIsStep, EngineInvStep DEF EngineInv, Holds, LabelsFit, LabelFits
        <5>3. ReportKeeps(t, t)
          BY <1>a, <5>2, ReportHeld
        <5>4. Holds(t, "report") /\ ReportGoesOn(t, t)
          BY <3>2, <5>3 DEF ReportKeeps, Executing
        <5>5. NoneTwice(ReportRids(reports)) /\ phase = "report" /\ want \in [Threads -> Nat]
          BY <1>a, <5>4 DEF HeldFits, Holds, CallsInv, EngineInv, SchedInv, SchedTypeOK
        <5>6. ~Due(t, r)'
          BY <1>a, <3>2, <5>4, <5>5, DueChanges
        <5>. QED  BY <3>0, <5>1, <5>6 DEF Reported
      <4>. QED  BY <4>1, <4>2
    <3>. QED  BY <3>1, <3>2 DEF Reported
  <2>. QED  BY <2>1, <2>2 DEF InHand
<1>. QED  BY <1>1, <1>2, <1>3

\* The step that generates a token puts it into the caller's hands, which held none.
LEMMA InHandNew ==
  ASSUME CallsInv, NEW t \in Threads, EngineCall(t), ReportToken(t), NEW r \in Rids,
         r = Head(reports)[1]
  PROVE  ~InHand(t, r, 1) /\ InHand(t, r, 1)'
<1>a. /\ EngineStep(t) /\ EngineInv /\ NoneRemoves /\ OutFit(t) /\ pc \in [Threads -> PagedLabels]
      /\ reports \in Seq(Report) /\ FlightFits /\ want \in [Threads -> Nat]
      /\ Len(outIds[t]) \in Nat /\ Len(outToks[t]) \in Nat /\ Len(outToks[t]) <= Len(outIds[t])
  BY HandTypes DEF CallsInv, EngineInv, SchedInv, SchedTypeOK
<1>1. /\ Holds(t, "report") /\ phase = "report" /\ reports # <<>> /\ want[t] = 0
      /\ lock' = lock /\ phase' = phase
  BY DEF ReportToken, Holds, NotAllocating
<1>2. pc[t] = "report"
  BY <1>a, <1>1 DEF Holds, EngineInv, LabelsFit, LabelFits
<1>3. NoneTwice(ReportRids(reports)) /\ \A e \in Report : Occurs(reports, e) => Occurs(sampled[t], e)
  BY <1>1 DEF CallsInv, HeldFits
<1>4. Due(t, r)
  <2>1. Occurs(ReportRids(reports), r)
    <3>1. /\ ReportRids(reports) \in Seq(Rids) /\ ReportRids(reports) # <<>>
          /\ Head(ReportRids(reports)) = r
      BY <1>a, <1>1, ReportRidsType, ReportRidsTail
    <3>. QED  BY <3>1, HeadOccurs
  <2>. QED  BY <2>1, <1>1 DEF Due
<1>5. Len(outToks[t]) = 0
  <2>1. outIds[t] = <<>>
    BY <1>a, <1>2 DEF OutFit
  <2>2. Len(outIds[t]) = 0
    BY <2>1
  <2>. QED  BY <1>a, <2>2
<1>6. ~InHand(t, r, 1)
  <2>1. 1 .. Len(outToks[t]) = {}
    BY <1>5
  <2>. QED  BY <1>2, <1>4, <2>1 DEF InHand, Reported
<1>7. Holds(t, "report")' /\ ReportKeeps(t, t)
  BY <1>a, <1>1, ReportHeld DEF Holds
<1>8. ReportGoesOn(t, t) /\ pc'[t] = "report" /\ sampled'[t] = sampled[t]
  BY <1>2, <1>7 DEF ReportKeeps, Executing
<1>9. ~Due(t, r)'
  BY <1>a, <1>1, <1>3, <1>8, DueChanges
<1>10. Occurs(ReportRids(sampled[t]), r)
  <2>1. Head(reports) \in Report /\ Occurs(reports, Head(reports))
    BY <1>a, <1>1, HeadOccurs
  <2>2. Occurs(sampled[t], Head(reports)) /\ sampled[t] \in Seq(Report)
    BY <1>3, <2>1, HandTypes
  <2>. QED  BY <2>2 DEF Occurs, ReportRids
<1>. QED  BY <1>6, <1>8, <1>9, <1>10 DEF InHand, Reported

=============================================================================
