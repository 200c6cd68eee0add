---------------------------- MODULE RunnerProofs ----------------------------
(***************************************************************************)
(* Proofs about the paged mode of cpu_runner: what it prints, and what it  *)
(* finds in the KV cache.                                                  *)
(***************************************************************************)
EXTENDS CpuRunner, EngineProofs

(* The tuples that UNCHANGED lists. *)
USE DEF schedVars, poolVars, requestVars, queueVars, localVars, allocVars,
        pagedVars, engineVars, jobVars, outputVars, runnerVars, mainVars

-----------------------------------------------------------------------------
(* The runner is a caller of the engine with one thread and one request.    *)

\* main() either calls the engine or reads what the call brought home.
MainCall ==
  (\E n \in PromptLens, m \in MaxNews : MainSubmit(n, m)) \/ CallStep \/ InStep

MainReads == SleepAndRetry \/ ScanOutput \/ LookAtRequest \/ LoopExhausted

LEMMA RunnerSteps == RunnerNext <=> MainCall \/ MainReads
  BY DEF RunnerNext, RunnerStep, MainCall, MainReads

LEMMA MainIsThread == Main \in Threads /\ OneThread /\ Request0 \in Rids
<1>1. Main \in Threads /\ OneThread
  BY MainAssumption DEF OneThread
<1>2. Request0 \in Rids
  BY SomeRequestAssumption, RequestAssumption DEF Rids, Request0
<1>. QED  BY <1>1, <1>2

LEMMA MainCalls ==
  ASSUME MainCall
  PROVE  EngineCall(Main)
  BY DEF MainCall, EngineCall, MainSubmit, CallStep, InStep

LEMMA MainLeaves ==
  ASSUME MainReads
  PROVE  UNCHANGED pagedVars
  BY DEF MainReads, SleepAndRetry, ScanOutput, LookAtRequest, LoopExhausted

\* The runner is one of the callers EngineSpec stands for, so what is proved of an engine
\* with one thread holds in it.
THEOREM RunnerUsesEngine == RunnerSpec => EngineSpec
<1>1. RunnerInit => EngineInit
  BY DEF RunnerInit
<1>2. [RunnerNext]_mainVars => [EngineNext]_pagedVars
  <2>1. CASE MainCall
    BY <2>1, MainCalls, MainIsThread DEF EngineCall, EngineNext
  <2>2. CASE MainReads
    BY <2>2, MainLeaves
  <2>. QED  BY <2>1, <2>2, RunnerSteps
<1>. QED  BY <1>1, <1>2, PTL DEF RunnerSpec, EngineSpec

-----------------------------------------------------------------------------
(* The invariant. *)

\* There is one request, so a step brings home one token at most and names nobody else.
OneRequest ==
  /\ known \subseteq {Request0}
  /\ run = "start" => nextId = 0 /\ genLen[Request0] = 0
  /\ \A j \in 1 .. Len(outIds[Main]) : outIds[Main][j].rid = Request0

\* main() and its call of step().
MainFits ==
  /\ run # "step" => pc[Main] = "out"
  /\ pc[Main] # "out" => k = 1

\* main() has printed every token but the one that it is about to read.
PrintFits ==
  IF run = "step" /\ InHand(Main, Request0, k)
  THEN gc + 1 = genLen[Request0]
  ELSE gc = genLen[Request0]

RunnerInv == CallsInv /\ RunnerTypeOK /\ OneRequest /\ MainFits /\ PrintFits

LEMMA RunnerTypeStep ==
  ASSUME RunnerTypeOK, MainCall \/ MainReads
  PROVE  RunnerTypeOK'
  BY DEF RunnerTypeOK, MainCall, MainReads, MainSubmit, CallStep, InStep, SleepAndRetry,
         ScanOutput, LookAtRequest, LoopExhausted

\* Inside step() a thread submits nothing and begins no other step.
LEMMA SubmitsNothing ==
  ASSUME NEW t \in Threads, StepProgress(t), ~EndRemove(t)
  PROVE  known' = known /\ nextId' = nextId
<1>1. CASE ScheduleStep(t)
  BY <1>1 DEF ScheduleStep, AdmitSkip, AdmitEmpty, AdmitBegin, AdmitCommit, AdmitFail,
     EndAdmit, EndRetry, EvictSkip, EvictBegin, EvictCommit, EndEvict, BatchInclude,
     BatchExclude, EndBatch, RetireKeep, RetireBegin, RetireCommit
<1>2. CASE ReportStep(t) \/ FreeHeadBlock(t) \/ AllocBlock(t) \/ OwnAllocFails(t)
  BY <1>2 DEF ReportStep, ReportUnknown, ReportToken, ReportCommit, ReportFail,
     FreeHeadBlock, AllocBlock, OwnAllocFails
<1>3. CASE StepScheduled(t) \/ StepReport(t) \/ StepReported(t)
  BY <1>3 DEF StepScheduled, StepReport, StepReported, EndSchedule, BeginReport, EndReport
<1>4. CASE PrefillAlloc(t) \/ PrefillWrite(t) \/ PrefillSample(t) \/ PrefillEnd(t)
  BY <1>4 DEF PrefillAlloc, PrefillWrite, PrefillSample, PrefillEnd, BeginOwnAlloc, DropOwnBlocks
<1>5. CASE \/ PickRequest(t) \/ DecodeWrite(t) \/ \E tok \in Tokens : DecodeSample(t, tok)
           \/ CollectToken(t) \/ CollectFinished(t) \/ StepReturn(t)
  BY <1>5 DEF PickRequest, DecodeWrite, DecodeSample, CollectToken, CollectFinished, StepReturn
<1>. QED  BY <1>1, <1>2, <1>3, <1>4, <1>5 DEF StepProgress, InScheduler

LEMMA InsideStep ==
  ASSUME CallsInv, NEW t \in Threads, StepProgress(t)
  PROVE  /\ ~StepBegin(t) /\ known' = known /\ nextId' = nextId
         /\ pc[t] = "out" => InScheduler(t) /\ ~ReportToken(t)
<1>a. /\ EngineStep(t) /\ EngineInv /\ ~EndRemove(t) /\ pc \in [Threads -> PagedLabels]
  BY CallIsStep DEF EngineCall, CallsInv, EngineInv, EngineTypeOK
<1>1. pc[t] = "out" => InScheduler(t)
  BY DEF StepProgress, StepScheduled, PickRequest, PrefillAlloc, PrefillWrite, PrefillSample,
         PrefillEnd, DecodeWrite, DecodeSample, StepReport, StepReported, CollectToken,
         CollectFinished, StepReturn, At
<1>2. pc[t] = "out" => ~ReportToken(t)
  BY <1>a DEF ReportToken, Holds, EngineInv, LabelsFit, LabelFits
<1>3. ~StepBegin(t)
  <2>1. StepBegin(t) => pc[t] = "out" /\ pc'[t] = "schedule"
    BY <1>a DEF StepBegin, At, Goto
  <2>2. InScheduler(t) => pc' = pc
    BY DEF InScheduler
  <2>. QED  BY <2>1, <2>2, <1>1
<1>. QED  BY <1>a, <1>1, <1>2, <1>3, SubmitsNothing

-----------------------------------------------------------------------------
(* Steps of the engine. *)

\* No step() names a request that the engine does not know.
LEMMA OutputNames ==
  ASSUME CallsInv, NEW t \in Threads, EngineCall(t), known \subseteq {Request0},
         \A j \in 1 .. Len(outIds[t]) : outIds[t][j].rid = Request0
  PROVE  \A j \in 1 .. Len(outIds'[t]) : outIds'[t][j].rid = Request0
<1>a. /\ EngineStep(t) /\ EngineTypeOK /\ pc \in [Threads -> PagedLabels]
      /\ outIds \in [Threads -> Seq([rid : Rids, fin : BOOLEAN])]
      /\ outIds[t] \in Seq([rid : Rids, fin : BOOLEAN]) /\ Len(outIds[t]) \in Nat
      /\ Request0 \in Rids
  BY HandTypes, MainIsThread
<1>1. CASE outIds'[t] = outIds[t]
  BY <1>1
<1>2. CASE outIds'[t] = <<>>
  <2>1. Len(outIds'[t]) = 0
    BY <1>2
  <2>. QED  BY <2>1
<1>3. CASE \E b \in BOOLEAN : outIds'[t] = Append(outIds[t], [rid |-> Request0, fin |-> b])
  <2>1. PICK b \in BOOLEAN : outIds'[t] = Append(outIds[t], [rid |-> Request0, fin |-> b])
    BY <1>3
  <2> DEFINE e == [rid |-> Request0, fin |-> b]
  <2>2. e \in [rid : Rids, fin : BOOLEAN] /\ e.rid = Request0
    BY <1>a
  <2>3. outIds'[t] = Append(outIds[t], e)
    BY <2>1
  <2>. HIDE DEF e
  <2>4. /\ Len(outIds'[t]) = Len(outIds[t]) + 1 /\ outIds'[t][Len(outIds[t]) + 1] = e
        /\ \A j \in 1 .. Len(outIds[t]) : outIds'[t][j] = outIds[t][j]
    BY <1>a, <2>2, <2>3, AppendProperties
  <2>5. ASSUME NEW j \in 1 .. Len(outIds'[t])
        PROVE  outIds'[t][j].rid = Request0
    <3>1. j \in 1 .. Len(outIds[t]) \/ j = Len(outIds[t]) + 1
      BY <1>a, <2>4
    <3>. QED  BY <3>1, <2>2, <2>4
  <2>. QED  BY <2>5
<1>4. StepBegin(t) => outIds'[t] = <<>>
  BY <1>a DEF StepBegin
<1>5. CASE CollectToken(t) \/ CollectFinished(t)
  <2>1. ASSUME CollectToken(t), ~(outIds'[t] = outIds[t])
        PROVE  \E b \in BOOLEAN : outIds'[t] = Append(outIds[t], [rid |-> Request0, fin |-> b])
    <3>1. Head(sampled[t])[1] = Request0
      BY <2>1 DEF CollectToken
    <3>. DEFINE b == state[Request0] = "FINISHED" \/ Head(sampled[t])[2] = "eos"
    <3>2. outIds'[t] = Append(outIds[t], [rid |-> Request0, fin |-> b])
      BY <1>a, <2>1, <3>1 DEF CollectToken, FinishFlag
    <3>. QED  BY <3>2
  <2>2. ASSUME CollectFinished(t), ~(outIds'[t] = outIds[t])
        PROVE  outIds'[t] = Append(outIds[t], [rid |-> Request0, fin |-> TRUE])
    BY <1>a, <2>2 DEF CollectFinished
  <2>. QED  BY <1>1, <1>3, <1>5, <2>1, <2>2
<1>. QED  BY <1>a, <1>1, <1>2, <1>4, <1>5, EngineChanges

\* Its output has at most one token.
LEMMA OneToken ==
  ASSUME CallsInv, OneRequest
  PROVE  /\ Len(outToks[Main]) \in {0, 1} /\ Len(outIds[Main]) \in Nat
         /\ Len(outToks[Main]) <= Len(outIds[Main])
         /\ outToks[Main] # <<>> => Len(outToks[Main]) = 1
<1>1. /\ OutFit(Main) /\ Main \in Threads
      /\ outIds[Main] \in Seq([rid : Rids, fin : BOOLEAN]) /\ outToks[Main] \in Seq(Tokens)
  BY MainIsThread DEF CallsInv, OutsFit, EngineInv, EngineTypeOK
<1>2. /\ Len(outIds[Main]) \in Nat /\ Len(outToks[Main]) \in Nat
      /\ Len(outToks[Main]) <= Len(outIds[Main])
      /\ outToks[Main] # <<>> => Len(outToks[Main]) # 0
  BY <1>1, LenProperties, EmptySeq DEF OutFit
<1>3. ~(Len(outToks[Main]) >= 2)
  <2>. SUFFICES ASSUME Len(outToks[Main]) >= 2 PROVE FALSE
    OBVIOUS
  <2>1. /\ 1 \in 1 .. Len(outToks[Main]) /\ 2 \in 1 .. Len(outToks[Main])
        /\ 1 \in 1 .. Len(outIds[Main]) /\ 2 \in 1 .. Len(outIds[Main])
    BY <1>2
  <2>2. outIds[Main][1].rid = outIds[Main][2].rid
    BY <2>1 DEF OneRequest
  <2>. QED  BY <1>1, <2>1, <2>2 DEF OutFit
<1>4. \A m \in Nat : ~(m >= 2) => m \in {0, 1}
  OBVIOUS
<1>5. Len(outToks[Main]) \in {0, 1}
  BY <1>2, <1>3, <1>4
<1>. QED  BY <1>2, <1>5

LEMMA OneRequestStep ==
  ASSUME CallsInv, OneRequest, MainFits, MainCall \/ MainReads
  PROVE  OneRequest'
<1>1. CASE \E n \in PromptLens, m \in MaxNews : MainSubmit(n, m)
  BY <1>1 DEF OneRequest, MainSubmit, SubmitTokens, Submit, Request0
<1>2. CASE CallStep
  <2>1. EngineCall(Main) /\ Main \in Threads
    BY <1>2, MainCalls, MainIsThread DEF MainCall
  <2>2. run' # "start" /\ known' = known
    BY <1>2 DEF CallStep, StepBegin, BeginSchedule
  <2>. QED  BY <2>1, <2>2, OutputNames DEF OneRequest, Request0
<1>3. CASE InStep
  <2>1. EngineCall(Main) /\ Main \in Threads
    BY <1>3, MainCalls, MainIsThread DEF MainCall
  <2>2. run' # "start" /\ known' = known
    BY <1>3, InsideStep, MainIsThread DEF InStep
  <2>. QED  BY <2>1, <2>2, OutputNames DEF OneRequest, Request0
<1>4. CASE MainReads
  BY <1>4 DEF OneRequest, MainReads, SleepAndRetry, ScanOutput, LookAtRequest, LoopExhausted, Request0
<1>. QED  BY <1>1, <1>2, <1>3, <1>4 DEF MainCall

LEMMA MainFitsStep ==
  ASSUME CallsInv, RunnerTypeOK, MainFits, MainCall \/ MainReads
  PROVE  MainFits'
<1>a. pc \in [Threads -> PagedLabels] /\ Main \in Threads
  BY MainIsThread DEF CallsInv, EngineInv, EngineTypeOK
<1>1. CASE \E n \in PromptLens, m \in MaxNews : MainSubmit(n, m)
  BY <1>1 DEF MainFits, MainSubmit, SubmitTokens
<1>2. CASE CallStep
  BY <1>2 DEF MainFits, CallStep
<1>3. CASE InStep
  <2>1. run' = "step" /\ k' = k
    BY <1>3 DEF InStep
  <2>2. pc[Main] = "out" => pc' = pc
    BY <1>a, <1>3, InsideStep DEF InStep, InScheduler
  <2>. QED  BY <2>1, <2>2 DEF MainFits
<1>4. CASE MainReads
  BY <1>4 DEF MainFits, MainReads, SleepAndRetry, ScanOutput, LookAtRequest, LoopExhausted,
              Returned, At
<1>. QED  BY <1>1, <1>2, <1>3, <1>4 DEF MainCall

-----------------------------------------------------------------------------
(* What is printed. *)

LEMMA PrintCall ==
  ASSUME RunnerInv, MainCall
  PROVE  PrintFits'
<1> DEFINE r == Request0
<1>a. /\ EngineCall(Main) /\ Main \in Threads /\ r \in Rids /\ CallsInv
      /\ EngineInv /\ NoneRemoves /\ pc \in [Threads -> PagedLabels] /\ gc \in Nat
  BY MainCalls, MainIsThread DEF RunnerInv, CallsInv, EngineInv, EngineTypeOK, RunnerTypeOK
<1>b. genLen[r] \in Nat /\ genLen'[r] \in Nat
      /\ IF ReportToken(Main) /\ r = Head(reports)[1] THEN genLen'[r] = genLen[r] + 1
                                                     ELSE genLen'[r] = genLen[r]
  BY <1>a, TokensCounted
<1>1. CASE \E n \in PromptLens, m \in MaxNews : MainSubmit(n, m)
  <2>1. run = "start" /\ run' = "loop" /\ gc' = gc /\ genLen' = genLen
    BY <1>1 DEF MainSubmit, SubmitTokens, Submit
  <2>. QED  BY <2>1 DEF RunnerInv, PrintFits
<1>2. CASE CallStep
  <2>1. /\ run = "loop" /\ StepBegin(Main) /\ k' = 1 /\ gc' = gc /\ genLen' = genLen
    BY <1>2 DEF CallStep, StepBegin, BeginSchedule
  <2>2. ~ReportToken(Main)
    BY <2>1, <1>a DEF StepBegin, At, ReportToken, Holds, EngineInv, LabelsFit, LabelFits
  <2>3. ~InHand(Main, r, 1)'
    BY <1>a, <2>1, <2>2, InHandFrom
  <2>4. ~InHand(Main, r, k)'
    BY <2>1, <2>3 DEF InHand
  <2>. QED  BY <2>1, <2>4 DEF RunnerInv, PrintFits
<1>3. CASE InStep
  <2>1. /\ run = "step" /\ run' = "step" /\ StepProgress(Main) /\ k' = k /\ gc' = gc
    BY <1>3 DEF InStep
  <2>2. ~StepBegin(Main) /\ (pc[Main] = "out" => InScheduler(Main) /\ ~ReportToken(Main))
    BY <1>a, <2>1, InsideStep
  <2>3. CASE pc[Main] = "out"
    <3>1. UNCHANGED engineVars /\ genLen'[r] = genLen[r]
      BY <1>b, <2>2, <2>3 DEF InScheduler
    <3>2. InHand(Main, r, k)' <=> InHand(Main, r, k)
      BY <2>1, <2>3, <3>1 DEF InHand, Reported
    <3>. QED  BY <2>1, <3>1, <3>2 DEF RunnerInv, PrintFits
  <2>4. CASE pc[Main] # "out"
    <3>1. k = 1
      BY <2>4 DEF RunnerInv, MainFits
    <3>2. IF InHand(Main, r, 1) THEN gc + 1 = genLen[r] ELSE gc = genLen[r]
      BY <2>1, <3>1 DEF RunnerInv, PrintFits
    <3>3. CASE ReportToken(Main) /\ r = Head(reports)[1]
      <4>1. ~InHand(Main, r, 1) /\ InHand(Main, r, 1)'
        BY <1>a, <3>3, InHandNew
      <4>2. InHand(Main, r, k)'
        BY <2>1, <3>1, <4>1 DEF InHand
      <4>. QED  BY <1>a, <1>b, <2>1, <3>2, <3>3, <4>1, <4>2 DEF PrintFits
    <3>4. CASE ~(ReportToken(Main) /\ r = Head(reports)[1])
      <4>1. InHand(Main, r, 1)' <=> InHand(Main, r, 1)
        BY <1>a, <2>2, <3>4, InHandFrom, InHandKept
      <4>2. InHand(Main, r, k)' <=> InHand(Main, r, 1)'
        BY <2>1, <3>1 DEF InHand
      <4>. QED  BY <1>b, <2>1, <3>2, <3>4, <4>1, <4>2 DEF PrintFits
    <3>. QED  BY <3>3, <3>4
  <2>. QED  BY <2>3, <2>4
<1>. QED  BY <1>1, <1>2, <1>3 DEF MainCall

LEMMA PrintRead ==
  ASSUME RunnerInv, MainReads
  PROVE  PrintFits'
<1> DEFINE r == Request0
<1>a. /\ UNCHANGED <<pc, outIds, outToks, sampled, reports, want, genLen>>
      /\ k \in Nat \ {0} /\ gc \in Nat /\ CallsInv /\ OneRequest
  BY MainLeaves DEF RunnerInv, RunnerTypeOK
<1>b. /\ Len(outToks[Main]) \in {0, 1} /\ Len(outIds[Main]) \in Nat
      /\ Len(outToks[Main]) <= Len(outIds[Main])
      /\ outToks[Main] # <<>> => Len(outToks[Main]) = 1
  BY <1>a, OneToken
<1>1. CASE LoopExhausted
  <2>1. run = "loop" /\ run' = "done" /\ gc' = gc
    BY <1>1 DEF LoopExhausted
  <2>. QED  BY <1>a, <2>1 DEF RunnerInv, PrintFits
<1>2. ASSUME run = "step", pc[Main] = "out", gc' = gc, k' \in {k, k + 1},
             k > Len(outToks[Main])
      PROVE  PrintFits'
  <2>1. k .. Len(outToks[Main]) = {} /\ k' .. Len(outToks[Main]) = {}
    BY <1>a, <1>b, <1>2
  <2>2. ~InHand(Main, r, k) /\ ~InHand(Main, r, k)'
    BY <1>a, <1>2, <2>1 DEF InHand, Reported
  <2>. QED  BY <1>a, <1>2, <2>2 DEF RunnerInv, PrintFits
<1>3. CASE SleepAndRetry
  <2>1. run = "step" /\ pc[Main] = "out" /\ gc' = gc /\ k' = k /\ outToks[Main] = <<>>
    BY <1>3 DEF SleepAndRetry, Returned, At
  <2>2. Len(outToks[Main]) = 0
    BY <2>1
  <2>. QED  BY <1>a, <1>2, <2>1, <2>2
<1>4. CASE LookAtRequest
  BY <1>4, <1>2, <1>a, <1>b DEF LookAtRequest, Returned, At
<1>5. CASE ScanOutput
  <2>1. /\ run = "step" /\ pc[Main] = "out" /\ k' = k + 1 /\ k <= Len(outIds[Main])
        /\ outToks[Main] # <<>>
    BY <1>5 DEF ScanOutput, Returned, At
  <2>2. outIds[Main][k].rid = r
    <3>1. k \in 1 .. Len(outIds[Main])
      BY <1>a, <1>b, <2>1
    <3>. QED  BY <1>a, <3>1 DEF OneRequest
  <2>3. gc' = IF k <= Len(outToks[Main]) THEN gc + 1 ELSE gc
    BY <1>5, <2>2 DEF ScanOutput, HasText
  <2>4. CASE k > Len(outToks[Main])
    <3>1. gc' = gc
      BY <1>a, <1>b, <2>3, <2>4
    <3>. QED  BY <1>2, <2>1, <2>4, <3>1
  <2>5. CASE k <= Len(outToks[Main])
    <3>1. k = 1 /\ Len(outToks[Main]) = 1 /\ k' .. Len(outToks[Main]) = {}
      <4>1. Len(outToks[Main]) = 1
        BY <1>b, <2>1
      <4>2. k = 1
        BY <1>a, <2>5, <4>1
      <4>3. k' = 2 /\ 2 .. 1 = {}
        BY <2>1, <4>2
      <4>. QED  BY <4>1, <4>2, <4>3
    <3>2. InHand(Main, r, k)
      <4>1. k \in k .. Len(outToks[Main])
        BY <3>1
      <4>. QED  BY <4>1, <2>2 DEF InHand
    <3>3. ~InHand(Main, r, k)'
      BY <1>a, <2>1, <3>1 DEF InHand, Reported
    <3>4. gc' = gc + 1 /\ gc + 1 = genLen[r]
      BY <2>1, <2>3, <2>5, <3>2 DEF RunnerInv, PrintFits
    <3>. QED  BY <1>a, <3>3, <3>4 DEF PrintFits
  <2>. QED  BY <1>a, <1>b, <2>4, <2>5
<1>. QED  BY <1>1, <1>3, <1>4, <1>5 DEF MainReads

-----------------------------------------------------------------------------
(* The theorems. *)

LEMMA RunnerInvInit == RunnerInit => RunnerInv
<1>. SUFFICES ASSUME RunnerInit PROVE RunnerInv
  OBVIOUS
<1>1. /\ EngineInit /\ run = "start" /\ k = 1 /\ gc = 0 /\ RunnerTypeOK
  BY DEF RunnerInit, RunnerTypeOK
<1>2. /\ known = {} /\ nextId = 0 /\ genLen[Request0] = 0 /\ outIds[Main] = <<>> /\ pc[Main] = "out"
  BY <1>1, MainIsThread DEF EngineInit, SchedInit
<1>3. Len(outIds[Main]) = 0
  BY <1>2
<1>. QED  BY <1>1, <1>2, <1>3, CallsInit DEF RunnerInv, OneRequest, MainFits, PrintFits

LEMMA RunnerInvStep ==
  ASSUME RunnerInv, [RunnerNext]_mainVars
  PROVE  RunnerInv'
<1>1. CASE UNCHANGED mainVars
  <2>1. CallsInv'
    BY <1>1, CallsFrame DEF RunnerInv
  <2>. QED  BY <1>1, <2>1
       DEF RunnerInv, RunnerTypeOK, OneRequest, MainFits, PrintFits, InHand, Reported, Due
<1>2. CASE MainCall
  <2>1. CallsInv'
    BY <1>2, MainCalls, MainIsThread, CallsStep DEF RunnerInv
  <2>. QED  BY <1>2, <2>1, RunnerTypeStep, OneRequestStep, MainFitsStep, PrintCall DEF RunnerInv
<1>3. CASE MainReads
  <2>1. CallsInv'
    BY <1>3, MainLeaves, CallsFrame DEF RunnerInv
  <2>. QED  BY <1>3, <2>1, RunnerTypeStep, OneRequestStep, MainFitsStep, PrintRead DEF RunnerInv
<1>. QED  BY <1>1, <1>2, <1>3, RunnerSteps

LEMMA RunnerInduction == RunnerSpec => []RunnerInv
  BY RunnerInvInit, RunnerInvStep, PTL DEF RunnerSpec

\* The type invariant of the runner's variables.
THEOREM RunnerTypeCorrect == RunnerSpec => []RunnerTypeOK
<1>1. RunnerInv => RunnerTypeOK
  BY DEF RunnerInv
<1>. QED  BY <1>1, RunnerInduction, PTL

\* When the paged mode of main() stops it has printed every token that report_output ever
\* appended to the request, each once (PrintsEveryToken), whichever of its exits it takes, for
\* every prompt, limit, pool and batch size.
THEOREM PrintsEveryTokenCorrect == RunnerSpec => []PrintsEveryToken
<1>1. RunnerInv => PrintsEveryToken
  BY DEF RunnerInv, PrintFits, PrintsEveryToken
<1>. QED  BY <1>1, RunnerInduction, PTL

-----------------------------------------------------------------------------
(***************************************************************************)
(* KV coverage.  In a pool with room for the longest request and one block *)
(* more, which run_prefill loses, no allocation fails and nothing is       *)
(* preempted; the entries that the prefill pass and each decode pass write *)
(* are all there when a later pass reads them.                             *)
(***************************************************************************)

\* Nothing but the runner's one request, and what is proved of one thread that removes nothing.
SoleRequest == LifeInv /\ CallsInv /\ known \subseteq {Request0}

\* the prefill pass of this step() is still to come or under way
Pending ==
  \/ Request0 \in admitted
  \/ job[Main] # <<>> /\ Head(job[Main]).prefill
  \/ pc[Main] = "prefill"

\* a decode pass has written the last position, and its token is not in the request yet
Owes ==
  \/ pc[Main] = "attend"
  \/ Occurs(ReportRids(sampled[Main]), Request0) /\ ~InHand(Main, Request0, 1)

\* the positions before n are in the request's blocks
Covered(n) == \A p \in 0 .. n - 1 : ReadAt(table[Request0], p) = <<Request0, p>>

NothingEvicted ==
  /\ ~preempted[Request0] /\ phase # "evictFree"
  /\ phase = "admit" /\ needed > 0 => Occurs(kept, Request0)
  /\ phase = "evict" /\ needed > 0 => Occurs(waiting, Request0)
  /\ phase \in {"idle", "report"} => needed = 0 /\ admitted = {}

\* what is allocated, and for whom
WantsFit ==
  /\ Admitting(Main) /\ want[Main] > 0 => want[Main] = NumBlocksOf(Request0)
  /\ pc[Main] \in {"loop", "decode", "attend"} => want[Main] = 0
  /\ pc[Main] \in {"prefill", "prefillEnd"} => state[Request0] \in {"RUNNING", "FINISHED"}
  /\ state[Request0] # "FINISHED" =>
       /\ pc[Main] # "prefillAlloc"
       /\ pc[Main] = "prefill" => want[Main] = 0
       /\ pc[Main] = "prefillEnd" => want[Main] <= 1

\* a request that runs is in the batch, unless it is too long for it
EntriesFit ==
  /\ pc[Main] # "loop" => job[Main] = <<>>
  /\ copy[Main].rid = Request0
  /\ \A e \in BatchEntry : Occurs(batch, e) =>
       SeqLen(Request0) <= MaxTotalTokens /\ (e.prefill <=> Request0 \in admitted)
  /\ phase = "batch" /\ Occurs(scan, Request0) => tokens = 0
  /\ Batching /\ state[Request0] = "RUNNING" =>
       \/ batch # <<>> \/ SeqLen(Request0) > MaxTotalTokens
       \/ phase = "batch" /\ Occurs(scan, Request0)
  /\ job[Main] # <<>> \/ Decoding(Main) => SeqLen(Request0) <= MaxTotalTokens

TableFits ==
  state[Request0] = "RUNNING" =>
    IF Extending(Main) THEN Len(table[Request0]) + want[Main] = NumBlocksOf(Request0)
    ELSE Len(table[Request0]) >= NumBlocksOf(Request0)

CacheFits ==
  state[Request0] = "RUNNING" =>
    /\ Pending => genLen[Request0] = 0
    /\ pc[Main] = "prefill" => Covered(pos[Main])
    /\ \/ Pending \/ SeqLen(Request0) > MaxTotalTokens
       \/ Covered(SeqLen(Request0) - (IF Owes THEN 0 ELSE 1))

\* the blocks that are not free are the request's but for one, lost when its prefill ended
TakenBlocks == {b \in Blocks : ~isFree[b]}

LostOne == ~Pending /\ state[Request0] = "RUNNING" /\ pc[Main] # "prefillEnd"

TakenFit ==
  state[Request0] # "FINISHED" =>
    Cardinality(TakenBlocks)
      <= Len(table[Request0]) + Len(got[Main]) + (IF LostOne THEN 1 ELSE 0)

CoverageInv ==
  /\ NothingEvicted /\ WantsFit /\ EntriesFit /\ TableFits /\ CacheFits /\ TakenFit

-----------------------------------------------------------------------------
(* Blocks and positions. *)

LEMMA TimesGrows ==
  ASSUME NEW a \in Nat, NEW b \in Nat, NEW c \in Nat, a < b
  PROVE  c * a \in Nat /\ c * b \in Nat /\ c * a + c <= c * b
<1> DEFINE d == b - a - 1
<1>1. d \in Nat /\ b = a + 1 + d
  OBVIOUS
<1>2. c * a \in Nat /\ c * d \in Nat
  BY <1>1
<1>. HIDE DEF d
<1>3. c * (a + 1 + d) = c * a + c + c * d
  BY <1>1
<1>4. c * b = c * a + c + c * d
  BY <1>1, <1>3
<1>. QED  BY <1>2, <1>4

\* The blocks for n tokens hold them, and the last is not empty.
LEMMA BlocksHold ==
  ASSUME NEW n \in Nat
  PROVE  /\ BlocksFor(n) \in Nat /\ BlockSize * BlocksFor(n) \in Nat
         /\ n <= BlockSize * BlocksFor(n) /\ BlockSize * BlocksFor(n) < n + BlockSize
<1> DEFINE c == BlockSize
           q == (n + c - 1) \div c
<1>1. c \in Nat \ {0} /\ n + c - 1 \in Nat
  BY BlockSizeAssumption
<1>2. \A x \in Nat, y \in Nat \ {0} : x = y * (x \div y) + (x % y) /\ x % y \in 0 .. y - 1
  OBVIOUS
<1>3. q \in Nat
  BY <1>1, DivNat
<1>4. n + c - 1 = c * q + ((n + c - 1) % c) /\ (n + c - 1) % c \in 0 .. c - 1
  BY <1>1, <1>2
<1>5. c * q \in Nat
  BY <1>1, <1>3
<1>. DEFINE w == c * q
<1>. HIDE DEF q, w, c
<1>6. n <= w /\ w < n + c
  BY <1>1, <1>4, <1>5 DEF w
<1>. QED  BY <1>3, <1>5, <1>6 DEF q, c, w, BlocksFor

LEMMA BlocksGrow ==
  ASSUME NEW n \in Nat, NEW m \in Nat, n <= m
  PROVE  BlocksFor(n) <= BlocksFor(m)
<1>1. /\ BlocksFor(n) \in Nat /\ BlocksFor(m) \in Nat /\ BlockSize \in Nat
      /\ BlockSize * BlocksFor(n) < n + BlockSize /\ m <= BlockSize * BlocksFor(m)
      /\ BlockSize * BlocksFor(n) \in Nat /\ BlockSize * BlocksFor(m) \in Nat
  BY BlocksHold, BlockSizeAssumption
<1>2. BlocksFor(m) < BlocksFor(n) =>
        BlockSize * BlocksFor(m) + BlockSize <= BlockSize * BlocksFor(n)
  BY <1>1, TimesGrows
<1>. QED  BY <1>1, <1>2

LEMMA BlocksNext ==
  ASSUME NEW n \in Nat
  PROVE  BlocksFor(n + 1) <= BlocksFor(n) + 1
<1> DEFINE q == BlocksFor(n)
           z == BlocksFor(n + 1)
<1>1. /\ q \in Nat /\ z \in Nat /\ BlockSize \in Nat \ {0}
      /\ BlockSize * z < n + 1 + BlockSize /\ n <= BlockSize * q
      /\ BlockSize * z \in Nat /\ BlockSize * q \in Nat
  BY BlocksHold, BlockSizeAssumption
<1>. HIDE DEF q, z
<1>2. q + 1 < z => BlockSize * (q + 1) + BlockSize <= BlockSize * z
  BY <1>1, TimesGrows
<1>3. BlockSize * q + BlockSize <= BlockSize * (q + 1) /\ BlockSize * (q + 1) \in Nat
  BY <1>1, TimesGrows
<1>4. ~(q + 1 < z)
  BY <1>1, <1>2, <1>3
<1>. QED  BY <1>1, <1>4 DEF q, z

LEMMA PositionReached ==
  ASSUME NEW n \in Nat, NEW p \in Nat, p < n
  PROVE  p \div BlockSize \in Nat /\ p \div BlockSize < BlocksFor(n)
<1> DEFINE d == p \div BlockSize
<1>1. /\ BlocksFor(n) \in Nat /\ BlockSize \in Nat \ {0} /\ n <= BlockSize * BlocksFor(n)
      /\ BlockSize * BlocksFor(n) \in Nat /\ d \in Nat
  BY BlocksHold, BlockSizeAssumption, DivNat
<1>2. p = BlockSize * d + (p % BlockSize) /\ p % BlockSize \in 0 .. BlockSize - 1
  BY BlockSizeAssumption
<1>. HIDE DEF d
<1>3. BlockSize * d \in Nat
  BY <1>1
<1>4. BlockSize * d <= p
  BY <1>1, <1>2, <1>3
<1>5. BlocksFor(n) < d => BlockSize * BlocksFor(n) + BlockSize <= BlockSize * d
  BY <1>1, TimesGrows
<1>6. d < BlocksFor(n)
  BY <1>1, <1>3, <1>4, <1>5
<1>. QED  BY <1>1, <1>6 DEF d

\* A sequence without repetition in which only c occurs.
LEMMA OnlyElement ==
  ASSUME NEW S, NEW s \in Seq(S), s # <<>>, NoneTwice(s), NEW c,
         \A e \in S : Occurs(s, e) => e = c
  PROVE  Head(s) = c /\ Tail(s) = <<>> /\ Len(s) = 1
<1>1. Len(s) \in Nat \ {0}
  BY EmptySeq
<1>2. \A x \in 1 .. Len(s) : s[x] = c
  BY ElementOfSeq DEF Occurs
<1>3. Len(s) = 1
  <2>1. ASSUME Len(s) > 1 PROVE FALSE
    <3>1. 1 \in 1 .. Len(s) /\ 2 \in 1 .. Len(s)
      BY <1>1, <2>1
    <3>2. s[1] = s[2]
      BY <1>2, <3>1
    <3>. QED  BY <3>1, <3>2 DEF NoneTwice
  <2>2. \A m \in Nat \ {0} : ~(m > 1) => m = 1
    OBVIOUS
  <2>. QED  BY <1>1, <2>1, <2>2
<1>4. Head(s) = c
  BY HeadOccurs
<1>5. Tail(s) \in Seq(S) /\ Len(Tail(s)) = 0
  BY <1>3, HeadTailProperties
<1>6. Tail(s) = <<>>
  BY <1>5, EmptySeq
<1>. QED  BY <1>3, <1>4, <1>6

LEMMA TakenFinite ==
  /\ IsFiniteSet(TakenBlocks) /\ Cardinality(TakenBlocks) \in Nat
  /\ PoolExhausted => Cardinality(TakenBlocks) = NumBlocks
<1>1. IsFiniteSet(Blocks) /\ Cardinality(Blocks) = NumBlocks
  <2>1. /\ 0 \in Int /\ NumBlocks - 1 \in Int
        /\ (IF 0 > NumBlocks - 1 THEN 0 ELSE NumBlocks - 1 - 0 + 1) = NumBlocks
    BY NumBlocksAssumption
  <2>. QED  BY <2>1, FS_Interval DEF Blocks
<1>2. TakenBlocks \subseteq Blocks
  BY DEF TakenBlocks
<1>3. IsFiniteSet(TakenBlocks) /\ Cardinality(TakenBlocks) \in Nat
  BY <1>1, <1>2, FS_Subset, FS_CardinalityType
<1>4. PoolExhausted => TakenBlocks = Blocks
  BY DEF PoolExhausted, TakenBlocks
<1>. QED  BY <1>1, <1>3, <1>4

-----------------------------------------------------------------------------
(* One request and one thread. *)

LEMMA SoleParts ==
  ASSUME SoleRequest
  PROVE  /\ SchedInv /\ SchedTypeOK /\ LoopAtRequest /\ BlockOwnership /\ QueueInv /\ BatchFits
         /\ EngineInv /\ EngineTypeOK /\ LabelsFit
         /\ LoopsFit /\ TablesFit /\ ReportsFit /\ JobFits /\ CopyFits /\ BlocksFit
         /\ TokensFit /\ PlacesFit
         /\ CallsInv /\ NoneRemoves /\ WaitFits /\ FlightFits /\ OnceFits /\ HeldFits /\ OutsFit
         /\ Main \in Threads /\ Request0 \in Rids
  BY MainIsThread DEF SoleRequest, LifeInv, SoleInv, CallsInv, EngineInv, SchedInv

LEMMA OnlyRequest ==
  ASSUME SoleRequest, NEW r \in Rids,
         table[r] # <<>> \/ Occurs(WaitingNow, r) \/ Occurs(RunningNow, r) \/ Begun(r)
  PROVE  r = Request0 /\ Request0 \in known
<1>1. table[r] # <<>> => Occurs(RunningNow, r)
  BY SoleParts DEF TablesFit
<1>2. Occurs(WaitingNow, r) \/ Occurs(RunningNow, r) => r \in known
  BY SoleParts DEF QueueInv, InOneQueue
<1>. QED  BY <1>1, <1>2 DEF Begun, SoleRequest

\* A request that was never preempted waits for the first time, runs or has finished.
LEMMA StateIs ==
  ASSUME SoleRequest, ~preempted[Request0]
  PROVE  /\ Occurs(WaitingNow, Request0) => state[Request0] = "WAITING"
         /\ Request0 \in known => state[Request0] \in {"WAITING", "RUNNING", "FINISHED"}
         /\ state[Request0] = "WAITING" => table[Request0] = <<>>
<1>1. Occurs(WaitingNow, Request0) => state[Request0] = "WAITING"
  BY SoleParts DEF WaitFits
<1>2. Request0 \in known => state[Request0] # "PREEMPTED"
  BY <1>1, SoleParts DEF QueueInv, InOneQueue, StatesFit
<1>3. state[Request0] \in RequestStates
  BY SoleParts DEF SchedTypeOK
<1>4. state[Request0] = "WAITING" => table[Request0] = <<>>
  BY SoleParts DEF TablesFit
<1>. QED  BY <1>1, <1>2, <1>3, <1>4 DEF RequestStates

\* A loop over a queue is at the one request there is, and it is the last.
LEMMA ScanIsOne ==
  ASSUME SoleRequest, scan # <<>>, phase \in {"admit", "retry", "retire", "retireFree"}
  PROVE  /\ Head(scan) = Request0 /\ Tail(scan) = <<>> /\ kept = <<>> /\ Request0 \in known
         /\ phase \in {"admit", "retry"} => Occurs(WaitingNow, Request0)
         /\ phase \in {"retire", "retireFree"} => Occurs(RunningNow, Request0)
<1>a. scan \in Seq(Rids) /\ kept \in Seq(Rids)
  BY SoleParts DEF SchedTypeOK
<1>1. phase \in {"admit", "retry"} => WaitingNow = kept \o scan
  BY DEF WaitingNow
<1>2. phase \in {"retire", "retireFree"} => RunningNow = kept \o scan
  BY DEF RunningNow
<1>3. NoneTwice(kept \o scan)
  BY <1>1, <1>2, SoleParts DEF QueueInv, InOneQueue
<1>4. \A r \in Rids : Occurs(kept \o scan, r) => r = Request0
  BY <1>1, <1>2, OnlyRequest
<1>5. kept \o scan \in Seq(Rids) /\ Len(kept \o scan) = Len(kept) + Len(scan)
      /\ Len(kept) \in Nat /\ Len(scan) \in Nat \ {0}
  BY <1>a, ConcatProperties, EmptySeq, LenProperties
<1>6. kept \o scan # <<>>
  BY <1>5, EmptySeq
<1>7. Len(kept \o scan) = 1
  BY <1>3, <1>4, <1>5, <1>6, OnlyElement
<1>8. Len(kept) = 0 /\ Len(scan) = 1
  <2>1. \A x \in Nat, y \in Nat \ {0} : x + y = 1 => x = 0 /\ y = 1
    OBVIOUS
  <2>. QED  BY <1>5, <1>7, <2>1
<1>9. Len(Tail(scan)) = 0 /\ Tail(scan) \in Seq(Rids) /\ Head(scan) \in Rids
  BY <1>a, <1>8, HeadTailProperties
<1>10. kept = <<>> /\ Tail(scan) = <<>>
  BY <1>a, <1>8, <1>9, EmptySeq
<1>11. /\ phase \in {"admit", "retry"} => Occurs(WaitingNow, Head(scan))
       /\ phase \in {"retire", "retireFree"} => Occurs(RunningNow, Head(scan))
  BY SoleParts, HeadIsQueued DEF QueueInv
<1>. QED  BY <1>9, <1>10, <1>11, OnlyRequest

\* Where the thread is says whether it holds the mutex, and in which method.
LEMMA LabelSays ==
  ASSUME SoleRequest
  PROVE  /\ lock \in {Main, NoThread} /\ Main # NoThread
         /\ pc[Main] \in PagedLabels \ {"remove"}
         /\ pc[Main] \in {"schedule", "report"} <=> lock = Main
         /\ pc[Main] = "report" <=> phase = "report"
         /\ lock = NoThread <=> phase = "idle"
         /\ phase # "removeFree"
<1>1. lock \in {Main, NoThread} /\ Main # NoThread
  BY SoleParts, MainAssumption, ThreadAssumption DEF SchedTypeOK
<1>2. pc[Main] \in PagedLabels \ {"remove"}
  BY SoleParts DEF EngineTypeOK, NoneRemoves
<1>3. LabelFits(Main)
  BY SoleParts DEF LabelsFit
<1>4. lock = NoThread <=> phase = "idle"
  BY SoleParts DEF QueueInv, LocksFit
<1>. QED  BY <1>1, <1>2, <1>3, <1>4 DEF LabelFits

\* The batch and what is left of it.
LEMMA JobIsOne ==
  ASSUME SoleRequest
  PROVE  /\ batch # <<>> => Head(batch).rid = Request0 /\ Occurs(batch, Head(batch))
         /\ pc[Main] = "loop" /\ job[Main] # <<>> =>
              /\ Head(job[Main]).rid = Request0 /\ Head(job[Main]) \in BatchEntry
              /\ Tail(job[Main]) = <<>>
              /\ Begun(Request0)
<1>a. batch \in Seq(BatchEntry) /\ job[Main] \in Seq(BatchEntry)
  BY SoleParts DEF SchedTypeOK, EngineTypeOK
<1>b. \A r \in Rids : /\ Occurs(JobRids(batch), r) => Begun(r)
                      /\ Occurs(JobRids(job[Main]), r) => Begun(r)
  BY SoleParts DEF FlightFits
<1>1. ASSUME batch # <<>>
      PROVE  Head(batch).rid = Request0 /\ Occurs(batch, Head(batch))
  <2>1. /\ JobRids(batch) \in Seq(Rids) /\ JobRids(batch) # <<>>
        /\ Head(JobRids(batch)) = Head(batch).rid
    BY <1>a, <1>1, JobRidsTail
  <2>2. Head(batch).rid \in Rids /\ Occurs(JobRids(batch), Head(batch).rid)
    BY <2>1, HeadOccurs
  <2>. QED  BY <1>a, <1>b, <1>1, <2>2, OnlyRequest, HeadOccurs
<1>2. ASSUME pc[Main] = "loop", job[Main] # <<>>
      PROVE  /\ Head(job[Main]).rid = Request0 /\ Head(job[Main]) \in BatchEntry
             /\ Tail(job[Main]) = <<>>
             /\ Begun(Request0)
  <2> DEFINE s == JobRids(job[Main])
  <2>1. /\ s \in Seq(Rids) /\ s # <<>> /\ Head(s) = Head(job[Main]).rid
    BY <1>a, <1>2, JobRidsTail
  <2>2. NoneTwice(s)
    BY <1>2, SoleParts DEF JobFits, Executing
  <2>3. \A r \in Rids : Occurs(s, r) => r = Request0
    BY <1>b, OnlyRequest
  <2>4. Head(s) = Request0 /\ Len(s) = 1
    BY <2>1, <2>2, <2>3, OnlyElement
  <2>5. Len(job[Main]) = 1
    BY <2>4, <1>a, LenProperties DEF JobRids
  <2>6. /\ Len(Tail(job[Main])) = 0 /\ Tail(job[Main]) \in Seq(BatchEntry)
        /\ Head(job[Main]) \in BatchEntry
    BY <1>a, <1>2, <2>5, HeadTailProperties
  <2>7. Tail(job[Main]) = <<>>
    BY <2>6, EmptySeq
  <2>8. Begun(Request0)
    BY <1>b, <2>1, <2>4, HeadOccurs
  <2>. QED  BY <2>1, <2>4, <2>6, <2>7, <2>8
<1>. QED  BY <1>1, <1>2

-----------------------------------------------------------------------------
(* What cannot happen. *)

LEMMA CannotEvict ==
  ASSUME SoleRequest, NothingEvicted
  PROVE  ~EvictBegin(Main) /\ ~EvictCommit(Main) /\ ~EndRemove(Main)
<1>1. ~EvictCommit(Main) /\ ~EndRemove(Main)
  BY LabelSays DEF NothingEvicted, EvictCommit, EndRemove, Holds
<1>2. ASSUME EvictBegin(Main) PROVE FALSE
  <2>1. /\ phase = "evict" /\ freed < needed /\ scan # <<>>
    BY <1>2 DEF EvictBegin, Holds, EvictMore
  <2>2. needed > 0
    BY <2>1, SoleParts DEF SchedTypeOK
  <2>3. Occurs(waiting, Request0) /\ WaitingNow = waiting /\ RunningNow = running
    BY <2>1, <2>2 DEF NothingEvicted, WaitingNow, RunningNow
  <2>4. Occurs(running, Head(scan)) /\ Head(scan) \in Rids
    BY <2>1, SoleParts, VictimRuns, ScanType DEF QueueInv
  <2>5. Head(scan) = Request0
    BY <2>3, <2>4, OnlyRequest
  <2>. QED  BY <2>3, <2>4, <2>5, SoleParts DEF QueueInv, InOneQueue
<1>. QED  BY <1>1, <1>2

\* The request fits into the pool, with a block to spare.
LEMMA RequestFits ==
  ASSUME SoleRequest, PoolIsRoomy, Request0 \in known
  PROVE  NumBlocksOf(Request0) \in Nat /\ NumBlocksOf(Request0) < NumBlocks
<1>a. /\ promptLen[Request0] \in Nat /\ maxNew[Request0] \in Nat /\ genLen[Request0] \in Nat
      /\ NumBlocks \in Nat
  BY SoleParts, NumBlocksAssumption DEF SchedTypeOK
<1>1. Request0 < nextId
  BY SoleParts DEF QueueInv, StatesFit
<1>2. /\ promptLen[Request0] \in PromptLens /\ maxNew[Request0] \in MaxNews
      /\ genLen[Request0] <= maxNew[Request0]
  BY <1>1, SoleParts DEF TokensFit
<1>3. BlocksFor(promptLen[Request0] + maxNew[Request0]) < NumBlocks
  BY <1>2 DEF PoolIsRoomy
<1>4. /\ SeqLen(Request0) \in Nat /\ promptLen[Request0] + maxNew[Request0] \in Nat
      /\ SeqLen(Request0) <= promptLen[Request0] + maxNew[Request0]
  BY <1>a, <1>2 DEF SeqLen
<1>5. /\ BlocksFor(SeqLen(Request0)) <= BlocksFor(promptLen[Request0] + maxNew[Request0])
      /\ BlocksFor(SeqLen(Request0)) \in Nat
      /\ BlocksFor(promptLen[Request0] + maxNew[Request0]) \in Nat
  BY <1>4, BlocksGrow, BlocksHold
<1>. QED  BY <1>a, <1>3, <1>5 DEF NumBlocksOf

LEMMA CannotFail ==
  ASSUME SoleRequest, CoverageInv, PoolIsRoomy
  PROVE  ~AdmitFail(Main) /\ (ReportFail(Main) => state[Request0] = "FINISHED")
<1>a. /\ Len(got[Main]) \in Nat /\ want[Main] \in Nat /\ Len(table[Request0]) \in Nat
      /\ Cardinality(TakenBlocks) \in Nat /\ NumBlocks \in Nat
  <2>1. want[Main] \in Nat /\ got[Main] \in Seq(Blocks) /\ table[Request0] \in Seq(Blocks)
    BY SoleParts DEF SchedTypeOK
  <2>. QED  BY <2>1, LenProperties, TakenFinite, NumBlocksAssumption
<1>1. ASSUME AdmitFail(Main) PROVE FALSE
  <2>1. Admitting(Main) /\ Len(got[Main]) < want[Main] /\ PoolExhausted
    BY <1>1 DEF AdmitFail, AllocFails
  <2>2. want[Main] > 0
    BY <1>a, <2>1
  <2>3. scan # <<>> /\ phase \in {"admit", "retry"}
    BY <2>1, <2>2, SoleParts DEF LoopAtRequest, Admitting, Holds
  <2>4. Request0 \in known /\ state[Request0] = "WAITING" /\ table[Request0] = <<>>
    BY <2>3, ScanIsOne, StateIs DEF CoverageInv, NothingEvicted
  <2>5. Len(table[Request0]) = 0
    BY <2>4
  <2>6. Cardinality(TakenBlocks) <= Len(got[Main])
    BY <1>a, <2>4, <2>5 DEF CoverageInv, TakenFit, LostOne
  <2>7. want[Main] = NumBlocksOf(Request0)
    BY <2>1, <2>2 DEF CoverageInv, WantsFit
  <2>. QED  BY <1>a, <2>1, <2>4, <2>6, <2>7, TakenFinite, RequestFits
<1>2. ASSUME ReportFail(Main), state[Request0] # "FINISHED" PROVE FALSE
  <2>1. Holds(Main, "report") /\ Len(got[Main]) < want[Main] /\ PoolExhausted
    BY <1>2 DEF ReportFail, AllocFails
  <2>2. want[Main] > 0
    BY <1>a, <2>1
  <2>3. reports # <<>> /\ reports \in Seq(Report)
    BY <2>1, <2>2, SoleParts DEF LoopAtRequest, SchedTypeOK
  <2> DEFINE h == Head(reports)[1]
  <2>4. h \in Rids /\ Occurs(ReportRids(reports), h)
    BY <2>3, ReportRidsTail, ReportRidsType, HeadOccurs
  <2>5. table[h] # <<>>
    BY <2>1, <2>4, SoleParts DEF ReportsFit
  <2>6. h = Request0 /\ Request0 \in known
    BY <2>4, <2>5, OnlyRequest
  <2>7. state[Request0] = "RUNNING"
    BY <1>2, <2>5, <2>6, SoleParts DEF TablesFit
  <2>8. Len(table[Request0]) + want[Main] = NumBlocksOf(Request0)
    BY <2>1, <2>2, <2>7 DEF CoverageInv, TableFits, Extending
  <2>9. Cardinality(TakenBlocks) <= Len(table[Request0]) + Len(got[Main]) + 1
    <3>1. Cardinality(TakenBlocks)
            <= Len(table[Request0]) + Len(got[Main]) + (IF LostOne THEN 1 ELSE 0)
      BY <1>2 DEF CoverageInv, TakenFit
    <3>2. \A x \in 0 .. 1, y, z, w \in Nat : w <= y + z + x => w <= y + z + 1
      OBVIOUS
    <3>3. (IF LostOne THEN 1 ELSE 0) \in 0 .. 1
      OBVIOUS
    <3>. QED  BY <1>a, <3>1, <3>2, <3>3
  <2>10. /\ NumBlocksOf(Request0) < NumBlocks /\ Cardinality(TakenBlocks) = NumBlocks
         /\ NumBlocksOf(Request0) \in Nat
    BY <2>1, <2>6, RequestFits, TakenFinite
  <2>11. \A x, g, w, n, m \in Nat : m <= x + g + 1 /\ g < w /\ x + w = n => ~(n < m)
    OBVIOUS
  <2>. QED  BY <1>a, <2>1, <2>8, <2>9, <2>10, <2>11
<1>. QED  BY <1>1, <1>2

LEMMA CallParts ==
  ASSUME SoleRequest, EngineCall(Main)
  PROVE  /\ EngineStep(Main)
         /\ SchedStep(Main) \/ OffScheduler
         /\ ~EndRemove(Main)
  BY SoleParts, CallIsStep

\* How the state of the request changes.
LEMMA StateSteps ==
  ASSUME SoleRequest, NothingEvicted, EngineCall(Main)
  PROVE  \/ state'[Request0] = state[Request0]
         \/ /\ AdmitCommit(Main) /\ Head(scan) = Request0
            /\ state[Request0] = "WAITING" /\ state'[Request0] = "RUNNING"
         \/ state[Request0] # "FINISHED" /\ state'[Request0] = "FINISHED"
<1>1. CASE OffScheduler
  BY <1>1 DEF OffScheduler
<1>2. CASE SchedStep(Main)
  <2>1. state'[Request0] = state[Request0] \/ StateMove(Main, Request0)
    BY <1>2, SoleParts, StateMoves
  <2>2. Occurs(WaitingNow, Request0) => state[Request0] = "WAITING"
    BY StateIs DEF NothingEvicted
  <2>3. ~EvictBegin(Main) /\ ~EvictCommit(Main) /\ ~EndRemove(Main)
    BY CannotEvict
  <2>. QED  BY <2>1, <2>2, <2>3 DEF StateMove
<1>. QED  BY <1>1, <1>2, CallParts

-----------------------------------------------------------------------------
(* Which steps of the scheduler change its locals, its phase and what is allocated. *)

LEMMA LocalsMove ==
  ASSUME NEW t \in Threads, SchedStep(t)
  PROVE  /\ AdmitSkip(t) \/ AdmitFail(t) \/ EndSchedule(t) \/ needed' = needed
         /\ AdmitEmpty(t) \/ AdmitCommit(t) \/ EndSchedule(t) \/ admitted' = admitted
         /\ BatchInclude(t) \/ EndSchedule(t) \/ batch' = batch
         /\ BatchInclude(t) \/ BatchExclude(t) \/ EndSchedule(t) \/ tokens' = tokens
         /\ \/ AllocBlock(t) \/ AdmitCommit(t) \/ AdmitFail(t) \/ ReportCommit(t)
            \/ ReportFail(t) \/ DropOwnBlocks(t) \/ got' = got
         /\ \/ AdmitBegin(t) \/ AdmitCommit(t) \/ AdmitFail(t)
            \/ ReportToken(t) \/ ReportCommit(t) \/ ReportFail(t)
            \/ (\E n \in Nat \ {0} : BeginOwnAlloc(t, n)) \/ OwnAllocFails(t) \/ DropOwnBlocks(t)
            \/ want' = want
         /\ AllocBlock(t) \/ FreeHeadBlock(t) \/ isFree' = isFree
<1>1. CASE \E n \in PromptLens, m \in MaxNews : Submit(t, n, m)
  BY <1>1 DEF Submit, Holds
<1>2. CASE BeginSchedule(t)
  BY <1>2 DEF BeginSchedule, Holds
<1>3. CASE \E pairs \in Seq(Report) : BeginReport(t, pairs)
  BY <1>3 DEF BeginReport, Holds
<1>4. CASE \E r \in Rids : BeginRemove(t, r)
  BY <1>4 DEF BeginRemove, Holds
<1>5. CASE \E n \in Nat \ {0} : BeginOwnAlloc(t, n)
  BY <1>5 DEF BeginOwnAlloc, Holds
<1>6. CASE AdmitSkip(t)
  BY <1>6 DEF AdmitSkip, Holds
<1>7. CASE AdmitEmpty(t)
  BY <1>7 DEF AdmitEmpty, Holds
<1>8. CASE AdmitBegin(t)
  BY <1>8 DEF AdmitBegin, Holds
<1>9. CASE AdmitCommit(t)
  BY <1>9 DEF AdmitCommit, Holds
<1>10. CASE AdmitFail(t)
  BY <1>10 DEF AdmitFail, Holds
<1>11. CASE EndAdmit(t)
  BY <1>11 DEF EndAdmit, Holds
<1>12. CASE EndRetry(t)
  BY <1>12 DEF EndRetry, Holds
<1>13. CASE EvictSkip(t)
  BY <1>13 DEF EvictSkip, Holds
<1>14. CASE EvictBegin(t)
  BY <1>14 DEF EvictBegin, Holds
<1>15. CASE EvictCommit(t)
  BY <1>15 DEF EvictCommit, Holds
<1>16. CASE EndEvict(t)
  BY <1>16 DEF EndEvict, Holds
<1>17. CASE BatchInclude(t)
  BY <1>17 DEF BatchInclude, Holds
<1>18. CASE BatchExclude(t)
  BY <1>18 DEF BatchExclude, Holds
<1>19. CASE EndBatch(t)
  BY <1>19 DEF EndBatch, Holds
<1>20. CASE RetireKeep(t)
  BY <1>20 DEF RetireKeep, Holds
<1>21. CASE RetireBegin(t)
  BY <1>21 DEF RetireBegin, Holds
<1>22. CASE RetireCommit(t)
  BY <1>22 DEF RetireCommit, Holds
<1>23. CASE EndSchedule(t)
  BY <1>23 DEF EndSchedule, Holds
<1>24. CASE ReportUnknown(t)
  BY <1>24 DEF ReportUnknown, Holds
<1>25. CASE ReportToken(t)
  BY <1>25 DEF ReportToken, Holds
<1>26. CASE ReportCommit(t)
  BY <1>26 DEF ReportCommit, Holds
<1>27. CASE ReportFail(t)
  BY <1>27 DEF ReportFail, Holds
<1>28. CASE EndReport(t)
  BY <1>28 DEF EndReport, Holds
<1>29. CASE EndRemove(t)
  BY <1>29 DEF EndRemove, Holds
<1>30. CASE FreeHeadBlock(t)
  BY <1>30 DEF FreeHeadBlock, Holds
<1>31. CASE AllocBlock(t)
  BY <1>31 DEF AllocBlock, Holds, Alloc
<1>32. CASE OwnAllocFails(t)
  BY <1>32 DEF OwnAllocFails, Holds
<1>33. CASE DropOwnBlocks(t)
  BY <1>33 DEF DropOwnBlocks, Holds
<1>. QED  BY <1>1, <1>2, <1>3, <1>4, <1>5, <1>6, <1>7, <1>8, <1>9, <1>10, <1>11, <1>12, <1>13,
     <1>14, <1>15, <1>16, <1>17, <1>18, <1>19, <1>20, <1>21, <1>22, <1>23, <1>24, <1>25, <1>26,
     <1>27, <1>28, <1>29, <1>30, <1>31, <1>32, <1>33, ZenonT(60)
     DEF SchedStep, ScheduleStep, ReportStep

LEMMA PhaseMoves ==
  ASSUME NEW t \in Threads, SchedStep(t)
  PROVE  /\ phase' = "admit" =>
              \/ BeginSchedule(t)
              \/ phase = "admit" /\ (AdmitSkip(t) \/ AdmitFail(t) \/ kept' = kept)
         /\ phase' = "evict" =>
              \/ EndAdmit(t) \/ EvictCommit(t)
              \/ phase = "evict" /\ waiting' = waiting
              \/ \E n \in PromptLens, m \in MaxNews : Submit(t, n, m)
         /\ phase' = "evictFree" => EvictBegin(t) \/ phase = "evictFree"
         /\ phase = "batch" =>
              \/ EndBatch(t) \/ phase' = "batch" \/ BeginSchedule(t)
              \/ \E pairs \in Seq(Report) : BeginReport(t, pairs)
              \/ \E r \in Rids : BeginRemove(t, r)
         /\ phase' \in {"idle", "report"} =>
              \/ EndSchedule(t) \/ EndRemove(t) \/ phase \in {"idle", "report"}
              \/ \E pairs \in Seq(Report) : BeginReport(t, pairs)
<1>1. CASE \E n \in PromptLens, m \in MaxNews : Submit(t, n, m)
  BY <1>1 DEF Submit, Holds
<1>2. CASE BeginSchedule(t)
  BY <1>2 DEF BeginSchedule, Holds
<1>3. CASE \E pairs \in Seq(Report) : BeginReport(t, pairs)
  BY <1>3 DEF BeginReport, Holds
<1>4. CASE \E r \in Rids : BeginRemove(t, r)
  BY <1>4 DEF BeginRemove, Holds
<1>5. CASE \E n \in Nat \ {0} : BeginOwnAlloc(t, n)
  BY <1>5 DEF BeginOwnAlloc, Holds
<1>6. CASE AdmitSkip(t)
  BY <1>6 DEF AdmitSkip, Holds
<1>7. CASE AdmitEmpty(t)
  BY <1>7 DEF AdmitEmpty, Holds
<1>8. CASE AdmitBegin(t)
  BY <1>8 DEF AdmitBegin, Holds
<1>9. CASE AdmitCommit(t)
  BY <1>9 DEF AdmitCommit, Holds
<1>10. CASE AdmitFail(t)
  BY <1>10 DEF AdmitFail, Holds
<1>11. CASE EndAdmit(t)
  BY <1>11 DEF EndAdmit, Holds
<1>12. CASE EndRetry(t)
  BY <1>12 DEF EndRetry, Holds
<1>13. CASE EvictSkip(t)
  BY <1>13 DEF EvictSkip, Holds
<1>14. CASE EvictBegin(t)
  BY <1>14 DEF EvictBegin, Holds
<1>15. CASE EvictCommit(t)
  BY <1>15 DEF EvictCommit, Holds
<1>16. CASE EndEvict(t)
  BY <1>16 DEF EndEvict, Holds
<1>17. CASE BatchInclude(t)
  BY <1>17 DEF BatchInclude, Holds
<1>18. CASE BatchExclude(t)
  BY <1>18 DEF BatchExclude, Holds
<1>19. CASE EndBatch(t)
  BY <1>19 DEF EndBatch, Holds
<1>20. CASE RetireKeep(t)
  BY <1>20 DEF RetireKeep, Holds
<1>21. CASE RetireBegin(t)
  BY <1>21 DEF RetireBegin, Holds
<1>22. CASE RetireCommit(t)
  BY <1>22 DEF RetireCommit, Holds
<1>23. CASE EndSchedule(t)
  BY <1>23 DEF EndSchedule, Holds
<1>24. CASE ReportUnknown(t)
  BY <1>24 DEF ReportUnknown, Holds
<1>25. CASE ReportToken(t)
  BY <1>25 DEF ReportToken, Holds
<1>26. CASE ReportCommit(t)
  BY <1>26 DEF ReportCommit, Holds
<1>27. CASE ReportFail(t)
  BY <1>27 DEF ReportFail, Holds
<1>28. CASE EndReport(t)
  BY <1>28 DEF EndReport, Holds
<1>29. CASE EndRemove(t)
  BY <1>29 DEF EndRemove, Holds
<1>30. CASE FreeHeadBlock(t)
  BY <1>30 DEF FreeHeadBlock, Holds
<1>31. CASE AllocBlock(t)
  BY <1>31 DEF AllocBlock, Holds, Alloc
<1>32. CASE OwnAllocFails(t)
  BY <1>32 DEF OwnAllocFails, Holds
<1>33. CASE DropOwnBlocks(t)
  BY <1>33 DEF DropOwnBlocks, Holds
<1>. QED  BY <1>1, <1>2, <1>3, <1>4, <1>5, <1>6, <1>7, <1>8, <1>9, <1>10, <1>11, <1>12, <1>13,
     <1>14, <1>15, <1>16, <1>17, <1>18, <1>19, <1>20, <1>21, <1>22, <1>23, <1>24, <1>25, <1>26,
     <1>27, <1>28, <1>29, <1>30, <1>31, <1>32, <1>33
     DEF SchedStep, ScheduleStep, ReportStep

LEMMA NothingEvictedStep ==
  ASSUME SoleRequest, SoleRequest', CoverageInv, PoolIsRoomy, EngineCall(Main)
  PROVE  NothingEvicted'
<1>a. NothingEvicted /\ SchedTypeOK /\ Main \in Threads /\ Request0 \in Rids
  BY SoleParts DEF CoverageInv
<1>1. CASE OffScheduler
  BY <1>a, <1>1 DEF OffScheduler, NothingEvicted
<1>2. CASE SchedStep(Main)
  <2>1. ~preempted'[Request0] /\ phase' # "evictFree"
    BY <1>a, <1>2, CannotEvict, MarksMove, PhaseMoves DEF NothingEvicted
  <2>2. ASSUME phase' = "admit", needed' > 0 PROVE Occurs(kept', Request0)
    <3>1. CASE BeginSchedule(Main)
      <4>1. needed = 0 /\ needed' = needed
        BY <1>a, <3>1, LabelSays DEF NothingEvicted, BeginSchedule
      <4>. QED  BY <2>2, <4>1
    <3>2. CASE phase = "admit" /\ AdmitSkip(Main)
      <4>1. scan # <<>> /\ KeepWaiting(Head(scan))
        BY <3>2 DEF AdmitSkip
      <4>2. Head(scan) = Request0 /\ Request0 \in known
        BY <3>2, <4>1, ScanIsOne
      <4>3. kept' = Append(kept, Request0) /\ kept \in Seq(Rids)
        BY <1>a, <4>1, <4>2 DEF KeepWaiting, SchedTypeOK
      <4>. QED  BY <1>a, <4>3, AppendHolds
    <3>3. CASE phase = "admit" /\ kept' = kept /\ ~AdmitSkip(Main)
      <4>1. ~EndSchedule(Main) /\ ~AdmitFail(Main)
        BY <2>2, CannotFail DEF EndSchedule
      <4>2. needed' = needed
        BY <1>a, <1>2, <3>3, <4>1, LocalsMove
      <4>. QED  BY <1>a, <2>2, <3>3, <4>2 DEF NothingEvicted
    <3>. QED  BY <1>a, <1>2, <2>2, <3>1, <3>2, <3>3, PhaseMoves, CannotFail
  <2>3. ASSUME phase' = "evict", needed' > 0 PROVE Occurs(waiting', Request0)
    <3>1. ~EndSchedule(Main) /\ ~AdmitFail(Main) /\ ~AdmitSkip(Main)
      BY <2>3, CannotFail DEF EndSchedule, AdmitSkip, Admitting, Holds
    <3>2. needed' = needed
      BY <1>a, <1>2, <3>1, LocalsMove
    <3>3. CASE EndAdmit(Main)
      <4>1. phase = "admit" /\ waiting' = kept
        BY <3>3 DEF EndAdmit, Holds
      <4>. QED  BY <1>a, <2>3, <3>2, <4>1 DEF NothingEvicted
    <3>4. ~ \E n \in PromptLens, m \in MaxNews : Submit(Main, n, m)
      BY <2>3, LabelSays DEF Submit
    <3>5. CASE phase = "evict" /\ waiting' = waiting
      BY <1>a, <2>3, <3>2, <3>5 DEF NothingEvicted
    <3>. QED  BY <1>a, <1>2, <2>3, <3>3, <3>4, <3>5, PhaseMoves, CannotEvict
  <2>4. ASSUME phase' \in {"idle", "report"} PROVE needed' = 0 /\ admitted' = {}
    <3>1. CASE EndSchedule(Main)
      BY <3>1 DEF EndSchedule
    <3>2. CASE ~EndSchedule(Main)
      <4>1. phase \in {"idle", "report"}
        <5>1. (\E pairs \in Seq(Report) : BeginReport(Main, pairs)) => lock = NoThread
          BY DEF BeginReport
        <5>. QED  BY <1>a, <1>2, <2>4, <3>2, <5>1, PhaseMoves, CannotEvict, LabelSays
      <4>2. ~AdmitSkip(Main) /\ ~AdmitFail(Main) /\ ~AdmitEmpty(Main) /\ ~AdmitCommit(Main)
        BY <4>1 DEF AdmitSkip, AdmitFail, AdmitEmpty, AdmitCommit, Admitting, Holds
      <4>3. needed' = needed /\ admitted' = admitted
        BY <1>a, <1>2, <3>2, <4>2, LocalsMove
      <4>. QED  BY <1>a, <4>1, <4>3 DEF NothingEvicted
    <3>. QED  BY <3>1, <3>2
  <2>. QED  BY <2>1, <2>2, <2>3, <2>4 DEF NothingEvicted
<1>. QED  BY <1>1, <1>2, CallParts

-----------------------------------------------------------------------------
(* The thread inside step(). *)

Inside == StepBegin(Main) \/ StepProgress(Main)

LEMMA InsideParts ==
  ASSUME SoleRequest, Inside
  PROVE  /\ EngineCall(Main) /\ EngineStep(Main)
         /\ SchedStep(Main) \/ OffScheduler
         /\ UNCHANGED <<nextId, known, promptLen, maxNew>>
         /\ ReportToken(Main) \/ genLen' = genLen
<1>1. EngineCall(Main)
  BY DEF Inside, EngineCall
<1>2. known' = known /\ nextId' = nextId
  <2>1. StepBegin(Main) => known' = known /\ nextId' = nextId
    BY DEF StepBegin, BeginSchedule
  <2>2. StepProgress(Main) => known' = known /\ nextId' = nextId
    BY SoleParts, InsideStep
  <2>. QED  BY <2>1, <2>2 DEF Inside
<1>3. CASE OffScheduler
  BY <1>1, <1>2, <1>3, CallParts DEF OffScheduler
<1>4. CASE SchedStep(Main)
  <2>1. ~ \E n \in PromptLens, m \in MaxNews : Submit(Main, n, m)
    <3>1. (\E n \in PromptLens, m \in MaxNews : Submit(Main, n, m)) => nextId' = nextId + 1
      BY DEF Submit
    <3>2. nextId \in Nat
      BY SoleParts DEF SchedTypeOK
    <3>. QED  BY <1>2, <3>1, <3>2
  <2>. QED  BY <1>1, <1>2, <1>4, <2>1, SoleParts, CallParts, StepChanges
<1>. QED  BY <1>1, <1>3, <1>4, CallParts

\* report_output has counted a token of the request.
LEMMA TokenSteps ==
  ASSUME SoleRequest, Inside, ReportToken(Main)
  PROVE  /\ Head(reports)[1] = Request0 /\ state[Request0] = "RUNNING"
         /\ SeqLen(Request0)' = SeqLen(Request0) + 1
         /\ phase = "report" /\ pc[Main] = "report" /\ ~Batching
         /\ UNCHANGED <<engineVars, localVars, table, isFree, got, kv, phase, lock>>
<1>1. phase = "report" /\ lock = Main /\ reports # <<>>
  BY DEF ReportToken, Holds
<1>2. pc[Main] = "report"
  BY <1>1, LabelSays
<1>3. UNCHANGED engineVars
  <2>1. ~StepReported(Main)
    BY <1>1 DEF StepReported, EndReport
  <2>. QED  BY <1>2, <2>1 DEF Inside, StepBegin, StepProgress, InScheduler, StepScheduled,
         PickRequest, PrefillAlloc, PrefillWrite, PrefillSample, PrefillEnd, DecodeWrite,
         DecodeSample, StepReport, CollectToken, CollectFinished, StepReturn, At
<1>4. UNCHANGED <<localVars, table, isFree, got, kv, phase, lock>>
  BY DEF ReportToken
<1> DEFINE h == Head(reports)[1]
<1>5. /\ h \in Rids /\ h \in known /\ state[h] = "RUNNING"
      /\ genLen' = [genLen EXCEPT ![h] = @ + 1]
  BY SoleParts, ReportedRuns
<1>6. h = Request0
  BY <1>5 DEF SoleRequest
<1>7. genLen \in [Rids -> Nat] /\ promptLen \in [Rids -> Nat]
  BY SoleParts DEF SchedTypeOK
<1>8. genLen'[Request0] = genLen[Request0] + 1 /\ promptLen' = promptLen
  BY <1>5, <1>6, <1>7, InsideParts
<1>9. SeqLen(Request0)' = SeqLen(Request0) + 1
  BY <1>7, <1>8, SoleParts DEF SeqLen
<1>. QED  BY <1>1, <1>2, <1>3, <1>4, <1>5, <1>6, <1>9 DEF Batching

LEMMA LenSteps ==
  ASSUME SoleRequest, Inside
  PROVE  ReportToken(Main) \/ SeqLen(Request0)' = SeqLen(Request0)
  BY InsideParts DEF SeqLen

\* A request that runs has blocks and is in the running queue.
LEMMA RunsWithBlocks ==
  ASSUME SoleRequest, TableFits, state[Request0] = "RUNNING"
  PROVE  /\ table[Request0] # <<>> /\ Occurs(RunningNow, Request0) /\ Request0 \in known
         /\ SeqLen(Request0) \in Nat \ {0} /\ NumBlocksOf(Request0) \in Nat \ {0}
<1>1. SeqLen(Request0) \in Nat \ {0} /\ NumBlocksOf(Request0) \in Nat \ {0}
  BY SoleParts, NumBlocksNat, PositiveBlocks DEF QueueInv, StatesFit
<1>2. table[Request0] # <<>>
  <2>1. CASE Extending(Main)
    <3>1. Holds(Main, "report") /\ reports # <<>> /\ reports \in Seq(Report)
      BY <2>1, SoleParts DEF Extending, LoopAtRequest, SchedTypeOK
    <3> DEFINE h == Head(reports)[1]
    <3>2. h \in Rids /\ Occurs(ReportRids(reports), h)
      BY <3>1, ReportRidsTail, ReportRidsType, HeadOccurs
    <3>3. table[h] # <<>>
      BY <3>1, <3>2, SoleParts DEF ReportsFit
    <3>. QED  BY <3>2, <3>3, OnlyRequest
  <2>2. CASE ~Extending(Main)
    <3>1. Len(table[Request0]) >= NumBlocksOf(Request0)
      BY <2>2 DEF TableFits
    <3>2. Len(<<>>) = 0
      OBVIOUS
    <3>. QED  BY <1>1, <3>1, <3>2
  <2>. QED  BY <2>1, <2>2
<1>. QED  BY <1>1, <1>2, SoleParts, OnlyRequest DEF TablesFit

-----------------------------------------------------------------------------
(* The batch and its execution. *)

\* The thread's job is at most the one entry it is at.
LEMMA JobStepsOne ==
  ASSUME SoleRequest, EntriesFit, Inside
  PROVE  /\ pc'[Main] # "loop" => job'[Main] = <<>>
         /\ copy'[Main].rid = Request0
         /\ job'[Main] # <<>> \/ Decoding(Main)' =>
              \/ job[Main] # <<>> \/ Decoding(Main)
              \/ StepScheduled(Main) /\ batch # <<>>
<1>a. /\ pc \in [Threads -> PagedLabels] /\ job \in [Threads -> Seq(BatchEntry)]
      /\ Main \in Threads /\ EngineInv /\ EngineStep(Main) /\ EngineCall(Main)
      /\ pc[Main] # "loop" => job[Main] = <<>>
      /\ copy[Main].rid = Request0
  <2>1. Main \in Threads /\ EngineInv /\ EngineTypeOK
    BY SoleParts
  <2>2. EngineStep(Main) /\ EngineCall(Main)
    BY InsideParts
  <2>3. pc \in [Threads -> PagedLabels] /\ job \in [Threads -> Seq(BatchEntry)]
    BY <2>1 DEF EngineTypeOK
  <2>4. (pc[Main] # "loop" => job[Main] = <<>>) /\ copy[Main].rid = Request0
    BY DEF EntriesFit
  <2>. QED  BY <2>1, <2>2, <2>3, <2>4
<1>1. CASE PickRequest(Main)
  <2>1. /\ pc[Main] = "loop" /\ job[Main] # <<>> /\ job'[Main] = Tail(job[Main])
    BY <1>a, <1>1 DEF PickRequest, At
  <2>2. Tail(job[Main]) = <<>> /\ Head(job[Main]).rid = Request0
    BY <2>1, JobIsOne
  <2>3. copy'[Main].rid = Request0
    BY <1>a, <1>1, <2>2, PickFacts
  <2>. QED  BY <2>1, <2>2, <2>3
<1>2. CASE StepScheduled(Main)
  <2>1. /\ pc[Main] = "schedule" /\ copy' = copy
        /\ IF batch = <<>> THEN pc'[Main] = "out" /\ job' = job
                           ELSE pc'[Main] = "loop" /\ job'[Main] = batch
    BY <1>a, <1>2 DEF StepScheduled, At, Goto
  <2>. QED  BY <1>a, <1>2, <2>1 DEF Decoding
<1>3. CASE ~PickRequest(Main) /\ ~StepScheduled(Main)
  <2>1. job' = job /\ copy' = copy
    BY <1>a, <1>3, EngineChanges
  <2>2. pc[Main] = "loop" => pc'[Main] = "loop" \/ job[Main] = <<>>
    <3>1. ASSUME pc[Main] = "loop" PROVE InScheduler(Main) \/ StepReport(Main)
      BY <1>3, <3>1 DEF Inside, StepBegin, StepProgress, PrefillAlloc, PrefillWrite,
         PrefillSample, PrefillEnd, DecodeWrite, DecodeSample, StepReported, CollectToken,
         CollectFinished, StepReturn, At
    <3>. QED  BY <3>1 DEF InScheduler, StepReport
  <2>3. Decoding(Main)' => Decoding(Main)
    BY <1>a, <1>3 DEF Inside, InScheduler, StepBegin, StepProgress, PrefillAlloc, PrefillWrite,
       PrefillSample, PrefillEnd, DecodeWrite, DecodeSample, StepReport, StepReported,
       CollectToken, CollectFinished, StepReturn, At, Goto, Decoding
  <2>. QED  BY <1>a, <2>1, <2>2, <2>3
<1>. QED  BY <1>1, <1>2, <1>3

\* What is true of the batch and of the loop that builds it.
BatchSound ==
  /\ \A e \in BatchEntry : Occurs(batch, e) =>
       SeqLen(Request0) <= MaxTotalTokens /\ (e.prefill <=> Request0 \in admitted)
  /\ phase = "batch" /\ Occurs(scan, Request0) => tokens = 0
  /\ Batching /\ state[Request0] = "RUNNING" =>
       \/ batch # <<>> \/ SeqLen(Request0) > MaxTotalTokens
       \/ phase = "batch" /\ Occurs(scan, Request0)

LEMMA BatchGrows ==
  ASSUME SoleRequest, CoverageInv, Inside, BatchInclude(Main)
  PROVE  BatchSound'
<1>a. /\ phase = "batch" /\ phase' = "batch" /\ scan # <<>> /\ scan' = Tail(scan)
      /\ Head(scan) \in known /\ tokens + SeqLen(Head(scan)) <= MaxTotalTokens
      /\ batch' = Append(batch, [rid |-> Head(scan), prefill |-> Head(scan) \in admitted])
      /\ admitted' = admitted
  BY DEF BatchInclude, Holds, Batchable, FitsBatch
<1>b. /\ scan \in Seq(Rids) /\ batch \in Seq(BatchEntry) /\ tokens \in Nat
      /\ SeqLen(Request0) \in Nat /\ MaxTotalTokens \in Nat /\ Request0 \in Rids
      /\ NoneTwice(scan)
  BY <1>a, SoleParts, NumBlocksNat, LimitAssumption DEF SchedTypeOK, BatchFits
<1>1. Head(scan) = Request0
  BY <1>a DEF SoleRequest
<1>2. SeqLen(Request0)' = SeqLen(Request0) /\ SeqLen(Request0) <= MaxTotalTokens
  <2>1. ~ReportToken(Main)
    BY <1>a DEF ReportToken, Holds
  <2>. QED  BY <1>a, <1>b, <1>1, <2>1, LenSteps
<1> DEFINE n == [rid |-> Request0, prefill |-> Request0 \in admitted]
<1>3. n \in BatchEntry /\ batch' = Append(batch, n)
  BY <1>a, <1>b, <1>1 DEF BatchEntry
<1>4. n.prefill <=> Request0 \in admitted
  OBVIOUS
<1>. HIDE DEF n
<1>5. \A e \in BatchEntry : Occurs(batch', e) => e = n \/ Occurs(batch, e)
  BY <1>b, <1>3, AppendHolds
<1>6. batch' # <<>>
  BY <1>b, <1>3, AppendProperties
<1>7. ~Occurs(scan', Request0)
  BY <1>a, <1>b, <1>1, TailHolds
<1>8. \A e \in BatchEntry : Occurs(batch, e) => (e.prefill <=> Request0 \in admitted)
  BY DEF CoverageInv, EntriesFit
<1>. QED  BY <1>a, <1>2, <1>4, <1>5, <1>6, <1>7, <1>8 DEF BatchSound

LEMMA BatchPasses ==
  ASSUME SoleRequest, CoverageInv, Inside, BatchExclude(Main)
  PROVE  BatchSound'
<1>a. /\ phase = "batch" /\ phase' = "batch" /\ scan # <<>> /\ scan' = Tail(scan)
      /\ ~(Batchable(Head(scan)) /\ FitsBatch(Head(scan)))
      /\ tokens' = IF Batchable(Head(scan)) THEN tokens + SeqLen(Head(scan)) ELSE tokens
      /\ batch' = batch /\ admitted' = admitted /\ state' = state
  BY DEF BatchExclude, Holds
<1>b. /\ scan \in Seq(Rids) /\ SeqLen(Request0) \in Nat /\ MaxTotalTokens \in Nat
      /\ Request0 \in Rids /\ NoneTwice(scan) /\ Batching /\ BatchSound
  BY <1>a, SoleParts, NumBlocksNat, LimitAssumption
     DEF SchedTypeOK, BatchFits, Batching, CoverageInv, EntriesFit, BatchSound
<1>2. SeqLen(Request0)' = SeqLen(Request0)
  <2>1. ~ReportToken(Main)
    BY <1>a DEF ReportToken, Holds
  <2>. QED  BY <2>1, LenSteps
<1>3. CASE Head(scan) = Request0
  <2>1. ~Occurs(scan', Request0) /\ Occurs(scan, Request0)
    BY <1>a, <1>b, <1>3, TailHolds
  <2>2. state[Request0] = "RUNNING" => SeqLen(Request0) > MaxTotalTokens
    <3>1. tokens = 0
      BY <1>a, <1>b, <2>1 DEF BatchSound
    <3>2. state[Request0] = "RUNNING" => ~(tokens + SeqLen(Request0) <= MaxTotalTokens)
      BY <1>a, <1>3, RunsWithBlocks DEF Batchable, FitsBatch, CoverageInv
    <3>. QED  BY <1>b, <3>1, <3>2
  <2>. QED  BY <1>a, <1>b, <1>2, <2>1, <2>2 DEF BatchSound
<1>4. CASE Head(scan) # Request0
  <2>1. Occurs(scan', Request0) <=> Occurs(scan, Request0)
    BY <1>a, <1>b, <1>4, TailHolds
  <2>2. tokens' = tokens
    BY <1>a, <1>4 DEF Batchable, SoleRequest
  <2>. QED  BY <1>a, <1>b, <1>2, <2>1, <2>2 DEF BatchSound, Batching
<1>. QED  BY <1>3, <1>4

LEMMA BatchSoundStep ==
  ASSUME SoleRequest, CoverageInv, Inside
  PROVE  BatchSound'
<1>a. /\ BatchSound /\ Main \in Threads /\ SchedTypeOK /\ LocksFit
      /\ ~Batching => batch = <<>> /\ tokens = 0
  BY SoleParts DEF CoverageInv, EntriesFit, BatchSound, BatchFits, QueueInv
<1>b. \A e : ~Occurs(<<>>, e)
  BY EmptyHolds
<1>1. CASE OffScheduler
  <2>1. /\ UNCHANGED <<batch, admitted, phase, scan, tokens, state>>
        /\ SeqLen(Request0)' = SeqLen(Request0)
    BY <1>1 DEF OffScheduler, SeqLen
  <2>. QED  BY <1>a, <2>1 DEF BatchSound, Batching
<1>2. CASE SchedStep(Main) /\ ~BatchStep(Main)
  <2>1. /\ UNCHANGED <<batch, tokens>>
        /\ Batching <=> Batching'
        /\ phase' = "batch" => phase = "batch" /\ UNCHANGED scan
    BY <1>a, <1>2, BatchStays
  <2>2. CASE ~Batching
    BY <1>a, <1>b, <2>1, <2>2 DEF BatchSound, Batching
  <2>3. CASE Batching
    <3>1. SeqLen(Request0)' = SeqLen(Request0)
      BY <2>3, LenSteps, TokenSteps
    <3>2. admitted' = admitted
      <4>1. ~AdmitEmpty(Main) /\ ~AdmitCommit(Main)
        BY <2>3 DEF Batching, AdmitEmpty, AdmitCommit, Admitting, Holds
      <4>. QED  BY <1>a, <1>2, <4>1, LocalsMove DEF BatchStep
    <3>3. phase = "batch" => phase' = "batch"
      <4>1. lock # NoThread
        BY <2>3, LabelSays DEF Batching
      <4>2. /\ ~BeginSchedule(Main) /\ ~(\E r \in Rids : BeginRemove(Main, r))
            /\ ~(\E pairs \in Seq(Report) : BeginReport(Main, pairs))
        BY <4>1 DEF BeginSchedule, BeginRemove, BeginReport
      <4>. QED  BY <1>a, <1>2, <4>2, PhaseMoves DEF BatchStep
    <3>4. state'[Request0] = "RUNNING" => state[Request0] = "RUNNING"
      <4>1. ~AdmitCommit(Main)
        BY <2>3 DEF Batching, AdmitCommit, Admitting, Holds
      <4>2. NothingEvicted /\ EngineCall(Main)
        BY InsideParts DEF CoverageInv
      <4>3. state'[Request0] = state[Request0] \/ state'[Request0] = "FINISHED"
        BY <4>1, <4>2, StateSteps
      <4>. QED  BY <4>3
    <3>. QED  BY <1>a, <2>1, <2>3, <3>1, <3>2, <3>3, <3>4 DEF BatchSound
  <2>. QED  BY <2>2, <2>3
<1>3. CASE BatchInclude(Main) \/ BatchExclude(Main)
  BY <1>3, BatchGrows, BatchPasses
<1>4. CASE EndBatch(Main)
  <2>1. /\ phase = "batch" /\ scan = <<>> /\ phase' = "retire"
        /\ UNCHANGED <<batch, admitted, state, promptLen, genLen>>
    BY <1>4 DEF EndBatch, Holds
  <2>2. ~Occurs(scan, Request0) /\ SeqLen(Request0)' = SeqLen(Request0)
    BY <1>b, <2>1 DEF SeqLen
  <2>. QED  BY <1>a, <2>1, <2>2 DEF BatchSound, Batching
<1>5. CASE EndAdmit(Main) \/ EndRetry(Main)
  <2>1. /\ phase \in {"admit", "retry"} /\ batch' = batch /\ tokens' = tokens
        /\ state' = state /\ phase' \in {"batch", "evict"}
        /\ phase' = "batch" => scan' = running
    BY <1>5 DEF EndAdmit, EndRetry, Holds
  <2>2. batch = <<>> /\ tokens = 0 /\ RunningNow = running
    BY <1>a, <2>1 DEF Batching, RunningNow
  <2>3. state[Request0] = "RUNNING" => Occurs(running, Request0)
    BY <2>2, RunsWithBlocks DEF CoverageInv
  <2>. QED  BY <1>b, <2>1, <2>2, <2>3 DEF BatchSound, Batching
<1>6. CASE EndSchedule(Main)
  <2>1. phase' = "idle" /\ batch' = <<>>
    BY <1>6 DEF EndSchedule
  <2>. QED  BY <1>b, <2>1 DEF BatchSound, Batching
<1>. QED  BY <1>1, <1>2, <1>3, <1>4, <1>5, <1>6, InsideParts DEF BatchStep

LEMMA EntriesFitStep ==
  ASSUME SoleRequest, CoverageInv, Inside
  PROVE  EntriesFit'
<1>1. ASSUME job'[Main] # <<>> \/ Decoding(Main)'
      PROVE  SeqLen(Request0)' <= MaxTotalTokens
  <2>1. CASE ReportToken(Main)
    <3>1. pc[Main] = "report" /\ job' = job /\ pc' = pc
      BY <2>1, TokenSteps
    <3>. QED  BY <1>1, <3>1 DEF CoverageInv, EntriesFit, Decoding
  <2>2. CASE ~ReportToken(Main)
    <3>1. SeqLen(Request0)' = SeqLen(Request0)
      BY <2>2, LenSteps
    <3>2. batch # <<>> => SeqLen(Request0) <= MaxTotalTokens
      <4>1. ASSUME batch # <<>> PROVE Head(batch) \in BatchEntry /\ Occurs(batch, Head(batch))
        BY <4>1, SoleParts, HeadOccurs DEF SchedTypeOK
      <4>. QED  BY <4>1 DEF CoverageInv, EntriesFit
    <3>. QED  BY <1>1, <3>1, <3>2, JobStepsOne DEF CoverageInv, EntriesFit
  <2>. QED  BY <2>1, <2>2
<1>. QED  BY <1>1, JobStepsOne, BatchSoundStep DEF EntriesFit, BatchSound, CoverageInv

-----------------------------------------------------------------------------
(* Steps that the request does not notice. *)

LEMMA SameCache ==
  ASSUME CacheFits, state[Request0] = "RUNNING" => SeqLen(Request0)' = SeqLen(Request0),
         UNCHANGED <<admitted, job, pc, sampled, reports, want, outIds, outToks, table, kv,
                     pos, state, genLen>>
  PROVE  CacheFits'
<1>1. (Pending' <=> Pending) /\ (Owes' <=> Owes)
  BY DEF Pending, Owes, InHand, Reported, Due
<1>2. \A x : Covered(x)' <=> Covered(x)
  BY DEF Covered, ReadAt, Reaches, BlockAt
<1>. QED  BY <1>1, <1>2 DEF CacheFits

LEMMA SubmitKeeps ==
  ASSUME SoleRequest, CoverageInv, NEW n \in PromptLens, NEW m \in MaxNews,
         SubmitTokens(Main, n, m)
  PROVE  WantsFit' /\ EntriesFit' /\ TableFits' /\ CacheFits' /\ TakenFit'
<1>1. /\ lock = NoThread /\ lock' = NoThread /\ pc[Main] = "out" /\ pc' = pc
      /\ promptLen' = [promptLen EXCEPT ![nextId] = n]
      /\ UNCHANGED <<isFree, kv, genLen, state, table, phase, localVars, reports, want, got>>
      /\ UNCHANGED engineVars
  BY DEF SubmitTokens, Submit, At
<1>2. phase = "idle" /\ batch = <<>> /\ Main # NoThread /\ ~Batching
  BY <1>1, SoleParts, LabelSays DEF BatchFits, Batching
<1>3. state[Request0] = "RUNNING" => SeqLen(Request0)' = SeqLen(Request0)
  <2>1. nextId = Request0 => state[Request0] = "WAITING"
    BY SoleParts DEF SchedTypeOK, QueueInv, StatesFit
  <2>2. nextId # Request0 => promptLen'[Request0] = promptLen[Request0]
    BY <1>1, SoleParts DEF SchedTypeOK
  <2>. QED  BY <1>1, <2>1, <2>2 DEF SeqLen
<1>4. WantsFit'
  BY <1>1, <1>2 DEF WantsFit, Admitting, Holds
<1>5. EntriesFit'
  <2>1. job[Main] = <<>> /\ copy[Main].rid = Request0
    BY <1>1 DEF CoverageInv, EntriesFit
  <2>2. \A e : ~Occurs(batch', e)
    BY <1>1, <1>2, EmptyHolds
  <2>. QED  BY <1>1, <1>2, <2>1, <2>2 DEF EntriesFit, Batching, Decoding
<1>6. TableFits'
  <2>1. Extending(Main)' <=> Extending(Main)
    BY <1>1, <1>2 DEF Extending, Holds
  <2>2. state[Request0] = "RUNNING" => NumBlocksOf(Request0)' = NumBlocksOf(Request0)
    BY <1>3 DEF NumBlocksOf
  <2>. QED  BY <1>1, <2>1, <2>2 DEF CoverageInv, TableFits
<1>7. CacheFits'
  BY <1>1, <1>3, SameCache DEF CoverageInv
<1>8. TakenFit'
  BY <1>1 DEF CoverageInv, TakenFit, TakenBlocks, LostOne, Pending
<1>. QED  BY <1>4, <1>5, <1>6, <1>7, <1>8

-----------------------------------------------------------------------------
(* What is allocated. *)

\* The thread is outside the scheduler: what its allocation changes.
LEMMA OutsideMoves ==
  ASSUME SoleRequest, InScheduler(Main), lock # Main
  PROVE  /\ AllocBlock(Main) \/ OwnAllocFails(Main)
         /\ UNCHANGED engineVars
         /\ UNCHANGED <<requestVars, table, lock, phase, localVars, reports, kv>>
         /\ want'[Main] \in Nat /\ want'[Main] <= want[Main]
<1>a. /\ Main \in Threads /\ want \in [Threads -> Nat] /\ got \in [Threads -> Seq(Blocks)]
      /\ Len(got[Main]) <= want[Main]
  BY SoleParts DEF SchedTypeOK, LoopsFit, GotFits
<1>1. AllocBlock(Main) \/ OwnAllocFails(Main)
  BY <1>a, OutsideSteps
<1>2. UNCHANGED engineVars
  BY DEF InScheduler
<1>3. CASE AllocBlock(Main)
  <2>1. /\ want' = want /\ kv' = kv
        /\ UNCHANGED <<requestVars, table, lock, phase, localVars, reports>>
    BY <1>3 DEF AllocBlock, Alloc
  <2>2. want'[Main] \in Nat /\ want'[Main] <= want[Main]
    BY <1>a, <2>1
  <2>. QED  BY <1>1, <1>2, <2>1, <2>2
<1>4. CASE OwnAllocFails(Main)
  <2>1. want' = [want EXCEPT ![Main] = Len(got[Main])]
    BY <1>4 DEF OwnAllocFails
  <2>2. want'[Main] = Len(got[Main]) /\ Len(got[Main]) \in Nat
    BY <1>a, <2>1
  <2>3. UNCHANGED <<requestVars, table, lock, phase, localVars, reports, kv>>
    BY <1>4 DEF OwnAllocFails
  <2>. QED  BY <1>a, <1>1, <1>2, <2>2, <2>3
<1>. QED  BY <1>1, <1>3, <1>4

\* Under the mutex the loop over the waiting queue allocates for the request.
LEMMA AdmittingWants ==
  ASSUME SoleRequest, CoverageInv, Inside, Admitting(Main)', want'[Main] > 0
  PROVE  want'[Main] = NumBlocksOf(Request0)'
<1>a. /\ Main \in Threads /\ want \in [Threads -> Nat] /\ SchedTypeOK
      /\ lock' = Main /\ phase' \in {"admit", "retry"} /\ Main # NoThread
  BY SoleParts, LabelSays DEF SchedTypeOK, Admitting, Holds
<1>1. NumBlocksOf(Request0)' = NumBlocksOf(Request0)
  <2>1. ~ReportToken(Main)
    BY <1>a DEF ReportToken, Holds
  <2>. QED  BY <2>1, LenSteps DEF NumBlocksOf
<1>2. CASE StepBegin(Main)
  <2>1. want'[Main] = 0
    BY <1>2 DEF StepBegin, BeginSchedule, Idle
  <2>. QED  BY <2>1, <1>a
<1>3. CASE InScheduler(Main) /\ lock = Main
  <2>1. SchedStep(Main)
    BY <1>3 DEF InScheduler, SchedStep
  <2>0. want[Main] > 0 => phase \in {"admit", "retry", "report"}
    BY <1>a, <1>3, SoleParts DEF LoopAtRequest
  <2>2. phase # "report"
    BY <1>a, <1>3, InSchedulerStays
  <2>3. CASE AdmitBegin(Main)
    <3>1. /\ scan # <<>> /\ phase \in {"admit", "retry"}
          /\ want' = [want EXCEPT ![Main] = NumBlocksOf(Head(scan))]
      BY <2>3 DEF AdmitBegin, Admitting, Holds
    <3>2. Head(scan) = Request0
      BY <3>1, ScanIsOne
    <3>. QED  BY <1>a, <1>1, <3>1, <3>2
  <2>4. CASE AdmitCommit(Main) \/ AdmitFail(Main)
    <3>1. want' = [want EXCEPT ![Main] = 0]
      BY <2>4 DEF AdmitCommit, AdmitFail, EndAlloc
    <3>. QED  BY <1>a, <3>1
  <2>5. CASE want' = want
    <3>1. Admitting(Main)
      BY <1>a, <1>3, <2>0, <2>2, <2>5 DEF Admitting, Holds
    <3>. QED  BY <1>a, <1>1, <2>5, <3>1 DEF CoverageInv, WantsFit
  <2>6. /\ ~ReportToken(Main) /\ ~ReportCommit(Main) /\ ~ReportFail(Main)
        /\ ~(\E n \in Nat \ {0} : BeginOwnAlloc(Main, n))
        /\ ~OwnAllocFails(Main) /\ ~DropOwnBlocks(Main)
    BY <1>3, <2>2 DEF ReportToken, ReportCommit, ReportFail, BeginOwnAlloc, OwnAllocFails,
       DropOwnBlocks, Holds
  <2>7. \/ AdmitBegin(Main) \/ AdmitCommit(Main) \/ AdmitFail(Main)
        \/ ReportToken(Main) \/ ReportCommit(Main) \/ ReportFail(Main)
        \/ (\E n \in Nat \ {0} : BeginOwnAlloc(Main, n))
        \/ OwnAllocFails(Main) \/ DropOwnBlocks(Main) \/ want' = want
    BY <1>a, <2>1, LocalsMove
  <2>. QED  BY <2>3, <2>4, <2>5, <2>6, <2>7
<1>4. CASE ~StepBegin(Main) /\ ~(InScheduler(Main) /\ lock = Main)
  <2>1. CASE InScheduler(Main)
    BY <1>a, <1>4, <2>1, OutsideMoves
  <2>2. CASE StepScheduled(Main) \/ StepReported(Main)
    BY <1>a, <2>2 DEF StepScheduled, EndSchedule, StepReported, EndReport
  <2>3. CASE StepReport(Main)
    <3>1. pc[Main] = "loop" /\ (phase' = "report" \/ lock' = lock)
      BY <2>3 DEF StepReport, BeginReport, At
    <3>. QED  BY <1>a, <3>1, LabelSays
  <2>4. CASE \/ PickRequest(Main) \/ PrefillAlloc(Main) \/ PrefillWrite(Main)
             \/ PrefillSample(Main) \/ PrefillEnd(Main)
             \/ DecodeWrite(Main) \/ \E tok \in Tokens : DecodeSample(Main, tok)
             \/ CollectToken(Main) \/ CollectFinished(Main) \/ StepReturn(Main)
    <3>1. lock' = lock /\ pc[Main] \notin {"schedule", "report"}
      BY <2>4 DEF PickRequest, PrefillAlloc, PrefillWrite, PrefillSample, PrefillEnd,
         DecodeWrite, DecodeSample, CollectToken, CollectFinished, StepReturn, BeginOwnAlloc,
         DropOwnBlocks, At
    <3>. QED  BY <1>a, <3>1, LabelSays
  <2>. QED  BY <1>4, <2>1, <2>2, <2>3, <2>4 DEF Inside, StepProgress
<1>. QED  BY <1>2, <1>3, <1>4

\* The token that run_prefill adds to its copy needs one block at most.
LEMMA SampleWants ==
  ASSUME SoleRequest, CoverageInv, Inside, PrefillSample(Main), state[Request0] # "FINISHED"
  PROVE  want'[Main] <= 1
<1>a. /\ Main \in Threads /\ want \in [Threads -> Nat] /\ table[Request0] \in Seq(Blocks)
      /\ pc[Main] = "prefill" /\ lock = NoThread /\ Main # NoThread
      /\ copy[Main].rid = Request0 /\ want[Main] = 0 /\ state[Request0] = "RUNNING"
  <2>1. pc[Main] = "prefill" /\ lock = NoThread
    BY DEF PrefillSample, At
  <2>2. /\ Main \in Threads /\ want \in [Threads -> Nat] /\ table[Request0] \in Seq(Blocks)
    BY SoleParts DEF SchedTypeOK
  <2>3. copy[Main].rid = Request0 /\ want[Main] = 0 /\ state[Request0] = "RUNNING"
    BY <2>1 DEF CoverageInv, EntriesFit, WantsFit
  <2>. QED  BY <2>1, <2>2, <2>3, LabelSays
<1> DEFINE total == BlocksFor(SeqLen(Request0) + 1)
<1>1. CASE Request0 \in known /\ Len(table[Request0]) < total
  <2>1. want' = [want EXCEPT ![Main] = @ + (total - Len(table[Request0]))]
    BY <1>a, <1>1 DEF PrefillSample, BeginOwnAlloc
  <2>2. state[Request0] = "RUNNING"
    BY <1>a
  <2>3. Len(table[Request0]) >= NumBlocksOf(Request0)
    BY <1>a, <2>2 DEF CoverageInv, TableFits, Extending, Holds
  <2>4. SeqLen(Request0) \in Nat
    BY <2>2, RunsWithBlocks DEF CoverageInv
  <2>5. total <= NumBlocksOf(Request0) + 1 /\ NumBlocksOf(Request0) \in Nat /\ total \in Nat
    BY <2>4, BlocksNext, BlocksForNat DEF NumBlocksOf
  <2>6. Len(table[Request0]) \in Nat
    BY <1>a
  <2>7. want'[Main] = 0 + (total - Len(table[Request0]))
    BY <1>a, <2>1
  <2>. HIDE DEF total
  <2>8. \A a, b, c \in Nat : a <= b + 1 /\ c >= b => 0 + (a - c) <= 1
    OBVIOUS
  <2>. QED  BY <2>3, <2>5, <2>6, <2>7, <2>8
<1>2. CASE ~(Request0 \in known /\ Len(table[Request0]) < total)
  <2>1. want' = want
    BY <1>a, <1>2 DEF PrefillSample
  <2>. QED  BY <1>a, <2>1
<1>. QED  BY <1>1, <1>2

LEMMA WantsFitStep ==
  ASSUME SoleRequest, CoverageInv, Inside
  PROVE  WantsFit'
<1>a. /\ Main \in Threads /\ want \in [Threads -> Nat] /\ pc \in [Threads -> PagedLabels]
      /\ WantsFit /\ EngineInv /\ LoopsFit
  BY SoleParts DEF SchedTypeOK, EngineTypeOK, CoverageInv
<1>b. Admitting(Main)' /\ want'[Main] > 0 => want'[Main] = NumBlocksOf(Request0)'
  BY AdmittingWants
<1>c. Executing(Main) => state' = state
  BY <1>a, InsideParts, ExecutingLeaves
<1> DEFINE Rest ==
  /\ pc'[Main] \in {"loop", "decode", "attend"} => want'[Main] = 0
  /\ pc'[Main] \in {"prefill", "prefillEnd"} => state'[Request0] \in {"RUNNING", "FINISHED"}
  /\ state'[Request0] # "FINISHED" =>
       /\ pc'[Main] # "prefillAlloc"
       /\ pc'[Main] = "prefill" => want'[Main] = 0
       /\ pc'[Main] = "prefillEnd" => want'[Main] <= 1
<1>1. CASE InScheduler(Main)
  <2>1. CASE lock = Main
    <3>1. pc' = pc /\ pc[Main] \in {"schedule", "report"}
      BY <1>1, <2>1, LabelSays DEF InScheduler
    <3>2. Rest
      BY <3>1
    <3>. QED  BY <1>b, <3>2 DEF WantsFit
  <2>2. CASE lock # Main
    <3>1. pc' = pc /\ state' = state /\ want'[Main] \in Nat /\ want'[Main] <= want[Main]
      BY <1>1, <2>2, OutsideMoves
    <3>2. want[Main] = 0 => want'[Main] = 0
      BY <3>1
    <3>3. want[Main] <= 1 => want'[Main] <= 1
      BY <1>a, <3>1
    <3>4. Rest
      BY <1>a, <3>1, <3>2, <3>3 DEF WantsFit
    <3>. QED  BY <1>b, <3>4 DEF WantsFit
  <2>. QED  BY <2>1, <2>2
<1>2. CASE PickRequest(Main)
  <2>1. /\ pc[Main] = "loop" /\ job[Main] # <<>> /\ want' = want /\ state' = state
    BY <1>2 DEF PickRequest, At
  <2>2. want[Main] = 0 /\ Head(job[Main]).rid = Request0 /\ Begun(Request0)
    BY <1>a, <2>1, JobIsOne DEF WantsFit
  <2>3. pc'[Main] = "prefillAlloc" => table[Request0] = <<>>
    BY <1>2, <1>a, <2>2, PickFacts
  <2>4. state[Request0] \in {"RUNNING", "FINISHED"}
    <3>1. state[Request0] # "WAITING" /\ Request0 \in known
      BY <2>2 DEF Begun
    <3>2. ~preempted[Request0]
      BY DEF CoverageInv, NothingEvicted
    <3>. QED  BY <3>1, <3>2, StateIs
  <2>5. state[Request0] # "FINISHED" => table[Request0] # <<>>
    BY <2>4, RunsWithBlocks DEF CoverageInv
  <2>6. Rest
    BY <2>1, <2>2, <2>3, <2>4, <2>5
  <2>. QED  BY <1>b, <2>6 DEF WantsFit
<1>3. CASE PrefillAlloc(Main)
  <2>1. pc[Main] = "prefillAlloc" /\ pc'[Main] = "prefill"
    BY <1>a, <1>3 DEF PrefillAlloc, At, Goto
  <2>2. state' = state /\ state[Request0] = "FINISHED"
    BY <1>a, <1>c, <2>1 DEF WantsFit, Executing
  <2>3. Rest
    BY <2>1, <2>2
  <2>. QED  BY <1>b, <2>3 DEF WantsFit
<1>4. CASE PrefillWrite(Main)
  <2>1. pc' = pc /\ want' = want /\ state' = state
    BY <1>4 DEF PrefillWrite
  <2>2. Rest
    BY <1>a, <2>1 DEF WantsFit
  <2>. QED  BY <1>b, <2>2 DEF WantsFit
<1>5. CASE PrefillSample(Main)
  <2>1. pc[Main] = "prefill" /\ pc'[Main] = "prefillEnd"
    BY <1>a, <1>5 DEF PrefillSample, At, Goto
  <2>2. state' = state /\ state[Request0] \in {"RUNNING", "FINISHED"}
    BY <1>a, <1>c, <2>1 DEF WantsFit, Executing
  <2>3. state[Request0] # "FINISHED" => want'[Main] <= 1
    BY <1>5, SampleWants
  <2>4. Rest
    BY <2>1, <2>2, <2>3
  <2>. QED  BY <1>b, <2>4 DEF WantsFit
<1>6. CASE PrefillEnd(Main)
  <2>1. pc'[Main] = "loop"
    BY <1>a, <1>6 DEF PrefillEnd, Goto
  <2>2. want'[Main] = 0
    <3>1. CASE want[Main] > 0
      <4>1. want' = [want EXCEPT ![Main] = 0]
        BY <1>6, <3>1 DEF PrefillEnd, DropOwnBlocks, EndAlloc
      <4>. QED  BY <1>a, <4>1
    <3>2. CASE ~(want[Main] > 0)
      <4>1. want' = want
        BY <1>6, <3>2 DEF PrefillEnd
      <4>. QED  BY <1>a, <3>2, <4>1
    <3>. QED  BY <3>1, <3>2
  <2>3. Rest
    BY <2>1, <2>2
  <2>. QED  BY <1>b, <2>3 DEF WantsFit
<1>7. CASE DecodeWrite(Main) \/ \E tok \in Tokens : DecodeSample(Main, tok)
  <2>1. /\ pc[Main] \in {"decode", "attend"} /\ pc'[Main] \in {"attend", "loop"}
        /\ want' = want
    BY <1>a, <1>7 DEF DecodeWrite, DecodeSample, At, Goto
  <2>2. Rest
    BY <1>a, <2>1 DEF WantsFit
  <2>. QED  BY <1>b, <2>2 DEF WantsFit
<1>8. CASE StepScheduled(Main)
  <2>1. /\ lock = Main /\ phase = "retire" /\ want' = want
        /\ pc'[Main] \in {"out", "loop"}
    BY <1>a, <1>8 DEF StepScheduled, EndSchedule, Holds, Goto
  <2>2. want[Main] = 0
    BY <1>a, <2>1, SoleParts DEF LoopAtRequest
  <2>3. Rest
    BY <2>1, <2>2
  <2>. QED  BY <1>b, <2>3 DEF WantsFit
<1>9. CASE \/ StepBegin(Main) \/ StepReport(Main) \/ StepReported(Main)
           \/ CollectToken(Main) \/ CollectFinished(Main) \/ StepReturn(Main)
  <2>1. pc'[Main] \in {"schedule", "report", "collect", "out"}
    BY <1>a, <1>9 DEF StepBegin, StepReport, StepReported, CollectToken, CollectFinished,
       StepReturn, At, Goto
  <2>2. Rest
    BY <2>1
  <2>. QED  BY <1>b, <2>2 DEF WantsFit
<1>. QED  BY <1>1, <1>2, <1>3, <1>4, <1>5, <1>6, <1>7, <1>8, <1>9 DEF Inside, StepProgress

-----------------------------------------------------------------------------
(* The block table. *)

LEMMA ExtendingParts ==
  ASSUME SoleRequest, Extending(Main)
  PROVE  /\ lock = Main /\ phase = "report" /\ pc[Main] = "report" /\ want[Main] > 0
         /\ reports # <<>> /\ Head(reports)[1] = Request0
<1>1. lock = Main /\ phase = "report" /\ want[Main] > 0
  BY DEF Extending, Holds
<1>2. reports # <<>> /\ reports \in Seq(Report)
  BY <1>1, SoleParts DEF LoopAtRequest, SchedTypeOK, Holds
<1> DEFINE h == Head(reports)[1]
<1>3. h \in Rids /\ Occurs(ReportRids(reports), h)
  BY <1>2, ReportRidsTail, ReportRidsType, HeadOccurs
<1>4. table[h] # <<>>
  BY <1>1, <1>3, SoleParts DEF ReportsFit, Holds
<1>5. h = Request0
  BY <1>3, <1>4, OnlyRequest
<1>. QED  BY <1>1, <1>2, <1>5, LabelSays

\* Blocks are appended until they are all there.
LEMMA ExtendingStays ==
  ASSUME SoleRequest, Inside, Extending(Main), ~ReportCommit(Main), ~ReportFail(Main)
  PROVE  want' = want /\ Extending(Main)'
<1>1. /\ lock = Main /\ phase = "report" /\ pc[Main] = "report" /\ want[Main] > 0
      /\ reports # <<>>
  BY ExtendingParts
<1>2. InScheduler(Main)
  BY <1>1 DEF Inside, StepBegin, StepProgress, StepScheduled, PickRequest, PrefillAlloc,
     PrefillWrite, PrefillSample, PrefillEnd, DecodeWrite, DecodeSample, StepReport,
     StepReported, EndReport, CollectToken, CollectFinished, StepReturn, At
<1>3. lock' = lock /\ phase' = "report"
  BY <1>1, <1>2, SoleParts, InSchedulerStays
<1>4. want' = want
  <2>1. SchedStep(Main)
    BY <1>2 DEF InScheduler, SchedStep
  <2>2. /\ ~AdmitBegin(Main) /\ ~AdmitCommit(Main) /\ ~AdmitFail(Main) /\ ~ReportToken(Main)
        /\ ~(\E n \in Nat \ {0} : BeginOwnAlloc(Main, n))
        /\ ~OwnAllocFails(Main) /\ ~DropOwnBlocks(Main)
    BY <1>1 DEF AdmitBegin, AdmitCommit, AdmitFail, ReportToken, BeginOwnAlloc, OwnAllocFails,
       DropOwnBlocks, Admitting, Holds, NotAllocating
  <2>3. \/ AdmitBegin(Main) \/ AdmitCommit(Main) \/ AdmitFail(Main)
        \/ ReportToken(Main) \/ ReportCommit(Main) \/ ReportFail(Main)
        \/ (\E n \in Nat \ {0} : BeginOwnAlloc(Main, n))
        \/ OwnAllocFails(Main) \/ DropOwnBlocks(Main) \/ want' = want
    BY <2>1, SoleParts, LocalsMove
  <2>. QED  BY <2>2, <2>3
<1>. QED  BY <1>1, <1>3, <1>4 DEF Extending, Holds

\* What admission gives the request.
LEMMA AdmitsTable ==
  ASSUME SoleRequest, CoverageInv, Inside, AdmitCommit(Main)
  PROVE  /\ Head(scan) = Request0 /\ Occurs(WaitingNow, Request0)
         /\ state[Request0] = "WAITING" /\ state'[Request0] = "RUNNING"
         /\ table'[Request0] = got[Main] /\ table[Request0] = <<>>
         /\ got'[Main] = <<>>
         /\ Len(table'[Request0]) = NumBlocksOf(Request0)'
         /\ Request0 \in admitted' /\ ~Extending(Main)'
<1>a. /\ Main \in Threads /\ want \in [Threads -> Nat] /\ got \in [Threads -> Seq(Blocks)]
      /\ table \in [Rids -> Seq(Blocks)] /\ state \in [Rids -> RequestStates]
      /\ Request0 \in Rids
  BY SoleParts DEF SchedTypeOK
<1>1. /\ Admitting(Main) /\ want[Main] > 0 /\ Len(got[Main]) = want[Main]
      /\ phase \in {"admit", "retry"} /\ phase' = phase
      /\ table' = [table EXCEPT ![Head(scan)] = got[Main]]
      /\ state' = [state EXCEPT ![Head(scan)] = "RUNNING"]
      /\ got' = [got EXCEPT ![Main] = <<>>]
      /\ admitted' = admitted \cup {Head(scan)}
  BY DEF AdmitCommit, AllocDone, Admitting, Holds, EndAlloc
<1>2. scan # <<>>
  BY <1>a, <1>1, SoleParts DEF LoopAtRequest
<1>3. Head(scan) = Request0 /\ Occurs(WaitingNow, Request0)
  BY <1>1, <1>2, ScanIsOne
<1>4. state[Request0] = "WAITING" /\ table[Request0] = <<>>
  <2>1. ~preempted[Request0]
    BY DEF CoverageInv, NothingEvicted
  <2>. QED  BY <1>3, <2>1, StateIs
<1>5. NumBlocksOf(Request0)' = NumBlocksOf(Request0)
  <2>1. ~ReportToken(Main)
    BY <1>1 DEF ReportToken, Holds
  <2>. QED  BY <2>1, LenSteps DEF NumBlocksOf
<1>6. want[Main] = NumBlocksOf(Request0)
  BY <1>1 DEF CoverageInv, WantsFit
<1>7. ~Extending(Main)'
  BY <1>1 DEF Extending, Holds
<1>8. table'[Request0] = got[Main] /\ state'[Request0] = "RUNNING" /\ got'[Main] = <<>>
  BY <1>a, <1>1, <1>3
<1>. QED  BY <1>1, <1>3, <1>4, <1>5, <1>6, <1>7, <1>8

\* What a token does to the table: its block is being allocated, or is there already.
LEMMA TokenTable ==
  ASSUME SoleRequest, CoverageInv, Inside, ReportToken(Main)
  PROVE  TableFits'
<1>a. /\ Main \in Threads /\ want \in [Threads -> Nat] /\ table[Request0] \in Seq(Blocks)
      /\ SeqLen(Request0) \in Nat /\ Request0 \in Rids
  BY SoleParts, NumBlocksNat DEF SchedTypeOK
<1>b. /\ Head(reports)[1] = Request0 /\ state[Request0] = "RUNNING"
      /\ SeqLen(Request0)' = SeqLen(Request0) + 1
      /\ phase = "report" /\ UNCHANGED <<table, phase, lock>>
  BY TokenSteps
<1> DEFINE total == BlocksFor(SeqLen(Request0) + 1)
<1>1. /\ Holds(Main, "report") /\ want[Main] = 0
      /\ IF Len(table[Request0]) < total
         THEN want' = [want EXCEPT ![Main] = total - Len(table[Request0])]
         ELSE want' = want
  BY <1>b DEF ReportToken, NotAllocating
<1>2. NumBlocksOf(Request0)' = total /\ total \in Nat /\ Len(table[Request0]) \in Nat
  <2>1. NumBlocksOf(Request0)' = total
    BY <1>b DEF NumBlocksOf
  <2>2. total \in Nat
    <3>1. SeqLen(Request0) + 1 \in Nat
      BY <1>a
    <3>. QED  BY <3>1, BlocksForNat
  <2>3. Len(table[Request0]) \in Nat
    BY <1>a, LenProperties
  <2>. QED  BY <2>1, <2>2, <2>3
<1>. HIDE DEF total
<1>3. CASE Len(table[Request0]) < total
  <2>1. want'[Main] = total - Len(table[Request0])
    BY <1>a, <1>1, <1>3
  <2>2. \A a, b \in Nat : b < a => a - b > 0 /\ b + (a - b) = a
    OBVIOUS
  <2>3. want'[Main] > 0 /\ Len(table[Request0]) + want'[Main] = total
    BY <1>2, <1>3, <2>1, <2>2
  <2>4. Extending(Main)'
    BY <1>b, <1>1, <2>3 DEF Extending, Holds
  <2>. QED  BY <1>b, <1>2, <2>3, <2>4 DEF TableFits
<1>4. CASE ~(Len(table[Request0]) < total)
  <2>1. ~Extending(Main)'
    BY <1>a, <1>1, <1>4 DEF Extending
  <2>2. Len(table[Request0]) >= total
    BY <1>2, <1>4
  <2>. QED  BY <1>b, <1>2, <2>1, <2>2 DEF TableFits
<1>. QED  BY <1>3, <1>4

\* Blocks are freed only when the request has finished.
LEMMA FreesFinished ==
  ASSUME SoleRequest, NothingEvicted, FreeHeadBlock(Main)
  PROVE  Head(scan) = Request0 /\ state[Request0] = "FINISHED" /\ state' = state
<1>1. phase \in {"evictFree", "retireFree", "removeFree"} /\ state' = state
  BY DEF FreeHeadBlock, Holds
<1>2. phase = "retireFree"
  BY <1>1, LabelSays DEF NothingEvicted
<1>3. scan # <<>>
  BY <1>2, SoleParts DEF LoopAtRequest
<1>4. Head(scan) = Request0
  BY <1>2, <1>3, ScanIsOne
<1>. QED  BY <1>1, <1>2, <1>4, SoleParts DEF QueueInv, FreeFits

\* While the request runs its table changes when it is admitted and when blocks are appended.
LEMMA TableStays ==
  ASSUME SoleRequest, CoverageInv, PoolIsRoomy, Inside, state'[Request0] = "RUNNING",
         ~AdmitCommit(Main)
  PROVE  /\ state[Request0] = "RUNNING"
         /\ ReportCommit(Main) \/ table' = table
         /\ ~ReportFail(Main) /\ ~FreeHeadBlock(Main)
<1>1. NothingEvicted /\ EngineCall(Main)
  BY InsideParts DEF CoverageInv
<1>2. state[Request0] = "RUNNING"
  BY <1>1, StateSteps
<1>3. ~ReportFail(Main)
  BY <1>2, CannotFail
<1>4. ~FreeHeadBlock(Main)
  BY <1>1, <1>2, FreesFinished
<1>5. ReportCommit(Main) \/ table' = table
  <2>1. CASE OffScheduler
    BY <2>1 DEF OffScheduler
  <2>2. CASE SchedStep(Main)
    BY <1>4, <2>2, SoleParts, StepChanges
  <2>. QED  BY <2>1, <2>2, InsideParts
<1>. QED  BY <1>2, <1>3, <1>4, <1>5

\* What report_output appends.
LEMMA CommitTable ==
  ASSUME SoleRequest, CoverageInv, Inside, ReportCommit(Main)
  PROVE  /\ Extending(Main) /\ want[Main] = Len(got[Main])
         /\ table'[Request0] = table[Request0] \o got[Main] /\ got'[Main] = <<>>
         /\ ~Extending(Main)' /\ state' = state
         /\ got[Main] \in Seq(Blocks) /\ table[Request0] \in Seq(Blocks)
<1>a. /\ Main \in Threads /\ want \in [Threads -> Nat] /\ got \in [Threads -> Seq(Blocks)]
      /\ table \in [Rids -> Seq(Blocks)] /\ Request0 \in Rids
  BY SoleParts DEF SchedTypeOK
<1>1. /\ Holds(Main, "report") /\ want[Main] > 0 /\ Len(got[Main]) = want[Main]
      /\ table' = [table EXCEPT ![Head(reports)[1]] = @ \o got[Main]]
      /\ want' = [want EXCEPT ![Main] = 0] /\ got' = [got EXCEPT ![Main] = <<>>]
      /\ state' = state
  BY DEF ReportCommit, AllocDone, EndAlloc
<1>2. Extending(Main)
  BY <1>1 DEF Extending
<1>3. Head(reports)[1] = Request0
  BY <1>2, ExtendingParts
<1>4. ~Extending(Main)'
  BY <1>a, <1>1 DEF Extending
<1>. QED  BY <1>a, <1>1, <1>2, <1>3, <1>4

LEMMA TableFitsStep ==
  ASSUME SoleRequest, CoverageInv, PoolIsRoomy, Inside
  PROVE  TableFits'
<1>1. CASE ReportToken(Main)
  BY <1>1, TokenTable
<1>2. CASE AdmitCommit(Main)
  <2>1. ~Extending(Main)' /\ Len(table'[Request0]) = NumBlocksOf(Request0)'
    BY <1>2, AdmitsTable
  <2>2. SeqLen(Request0)' = SeqLen(Request0)
    <3>1. ~ReportToken(Main)
      BY <1>2 DEF AdmitCommit, ReportToken, Admitting, Holds
    <3>. QED  BY <3>1, LenSteps
  <2>3. NumBlocksOf(Request0)' \in Nat
    BY <2>2, SoleParts, NumBlocksNat DEF NumBlocksOf
  <2>. QED  BY <2>1, <2>3 DEF TableFits
<1>3. ASSUME ~ReportToken(Main), ~AdmitCommit(Main), state'[Request0] = "RUNNING"
      PROVE  IF Extending(Main)' THEN Len(table'[Request0]) + want'[Main] = NumBlocksOf(Request0)'
             ELSE Len(table'[Request0]) >= NumBlocksOf(Request0)'
  <2>1. NumBlocksOf(Request0)' = NumBlocksOf(Request0)
    BY <1>3, LenSteps DEF NumBlocksOf
  <2>2. /\ state[Request0] = "RUNNING"
        /\ ReportCommit(Main) \/ table' = table
        /\ ~ReportFail(Main)
    BY <1>3, TableStays
  <2>3. IF Extending(Main) THEN Len(table[Request0]) + want[Main] = NumBlocksOf(Request0)
        ELSE Len(table[Request0]) >= NumBlocksOf(Request0)
    BY <2>2 DEF CoverageInv, TableFits
  <2>4. CASE ReportCommit(Main)
    <3>1. /\ Extending(Main) /\ ~Extending(Main)' /\ want[Main] = Len(got[Main])
          /\ table'[Request0] = table[Request0] \o got[Main]
          /\ got[Main] \in Seq(Blocks) /\ table[Request0] \in Seq(Blocks)
      BY <2>4, CommitTable
    <3>2. Len(table'[Request0]) = Len(table[Request0]) + want[Main]
      BY <3>1
    <3>3. NumBlocksOf(Request0) \in Nat
      BY SoleParts, NumBlocksNat
    <3>4. Len(table'[Request0]) = NumBlocksOf(Request0)
      BY <2>3, <3>1, <3>2
    <3>5. \A a, b \in Nat : a = b => a >= b
      OBVIOUS
    <3>. QED  BY <2>1, <3>1, <3>3, <3>4, <3>5
  <2>5. CASE ~ReportCommit(Main) /\ Extending(Main)
    <3>1. want' = want /\ Extending(Main)'
      BY <2>2, <2>5, ExtendingStays
    <3>. QED  BY <2>1, <2>2, <2>3, <2>5, <3>1
  <2>6. CASE ~ReportCommit(Main) /\ ~Extending(Main)
    <3>1. ~Extending(Main)'
      <4>1. CASE OffScheduler
        BY <2>6, <4>1 DEF OffScheduler, Extending, Holds
      <4>2. CASE SchedStep(Main)
        BY <1>3, <2>6, <4>2, SoleParts, ExtendingStep
      <4>. QED  BY <4>1, <4>2, InsideParts
    <3>. QED  BY <2>1, <2>2, <2>3, <2>6, <3>1
  <2>. QED  BY <2>4, <2>5, <2>6
<1>. QED  BY <1>1, <1>2, <1>3 DEF TableFits

-----------------------------------------------------------------------------
(* What is in the blocks. *)

\* A write through a table without repetition changes the position written and no other.
LEMMA WrittenReads ==
  ASSUME kv \in [Blocks -> [Slots -> {Blank} \cup (Rids \X Nat)]],
         NEW blocks \in Seq(Blocks), NoneTwice(blocks), NEW p \in Nat, NEW q \in Nat, NEW e,
         kv' = Written(blocks, q, e)
  PROVE  ReadAt(blocks, p)' = IF p = q /\ Reaches(blocks, q) THEN e ELSE ReadAt(blocks, p)
<1> DEFINE x == p \div BlockSize
           y == q \div BlockSize
<1>1. /\ x \in Nat /\ SlotAt(p) \in Slots /\ (x + 1 - 1) * BlockSize + SlotAt(p) = p
      /\ y \in Nat /\ SlotAt(q) \in Slots /\ (y + 1 - 1) * BlockSize + SlotAt(q) = q
  BY PositionSlot
<1>2. /\ Reaches(blocks, p) <=> x < Len(blocks)
      /\ Reaches(blocks, q) <=> y < Len(blocks)
      /\ BlockAt(blocks, p) = blocks[x + 1] /\ BlockAt(blocks, q) = blocks[y + 1]
  BY DEF Reaches, BlockAt
<1>. HIDE DEF x, y
<1>3. x < Len(blocks) => x + 1 \in 1 .. Len(blocks) /\ blocks[x + 1] \in Blocks
  BY <1>1
<1>4. y < Len(blocks) => y + 1 \in 1 .. Len(blocks) /\ blocks[y + 1] \in Blocks
  BY <1>1
<1>5. x < Len(blocks) /\ y < Len(blocks) /\ blocks[x + 1] = blocks[y + 1] => x = y
  <2>1. \A a, b \in Nat : a + 1 = b + 1 => a = b
    OBVIOUS
  <2>. QED  BY <1>1, <1>3, <1>4, <2>1 DEF NoneTwice
<1>6. CASE ~Reaches(blocks, q)
  BY <1>6 DEF Written, ReadAt, Reaches, BlockAt
<1>7. CASE Reaches(blocks, q)
  <2>1. kv' = [kv EXCEPT ![blocks[y + 1]][SlotAt(q)] = e]
    BY <1>2, <1>7 DEF Written
  <2>2. CASE ~Reaches(blocks, p)
    <3>1. p # q
      BY <1>7, <2>2
    <3>. QED  BY <2>2, <3>1 DEF ReadAt, Reaches
  <2>3. CASE Reaches(blocks, p)
    <3>1. /\ ReadAt(blocks, p) = kv[blocks[x + 1]][SlotAt(p)]
          /\ ReadAt(blocks, p)' = kv'[blocks[x + 1]][SlotAt(p)]
      BY <1>2, <2>3 DEF ReadAt, Reaches, BlockAt
    <3>2. kv'[blocks[x + 1]][SlotAt(p)]
            = IF blocks[x + 1] = blocks[y + 1] /\ SlotAt(p) = SlotAt(q) THEN e
              ELSE kv[blocks[x + 1]][SlotAt(p)]
      BY <1>1, <1>2, <1>3, <1>4, <1>7, <2>1, <2>3
    <3>3. blocks[x + 1] = blocks[y + 1] /\ SlotAt(p) = SlotAt(q) <=> p = q
      <4>1. ASSUME blocks[x + 1] = blocks[y + 1], SlotAt(p) = SlotAt(q) PROVE p = q
        <5>1. x = y
          BY <1>2, <1>5, <1>7, <2>3, <4>1
        <5>. QED  BY <1>1, <4>1, <5>1
      <4>2. p = q => blocks[x + 1] = blocks[y + 1] /\ SlotAt(p) = SlotAt(q)
        BY <1>2
      <4>. QED  BY <4>1, <4>2
    <3>. QED  BY <1>7, <3>1, <3>2, <3>3
  <2>. QED  BY <2>2, <2>3
<1>. QED  BY <1>6, <1>7

\* The same of a table that the step leaves alone.
LEMMA WrittenReadsHere ==
  ASSUME kv \in [Blocks -> [Slots -> {Blank} \cup (Rids \X Nat)]], Request0 \in Rids,
         table[Request0] \in Seq(Blocks), NoneTwice(table[Request0]), NEW p \in Nat,
         NEW q \in Nat, NEW e, kv' = Written(table[Request0], q, e), table' = table,
         Reaches(table[Request0], q)
  PROVE  ReadAt(table[Request0], p)' = IF p = q THEN e ELSE ReadAt(table[Request0], p)
<1>1. \A blocks : ReadAt(blocks, p)' =
        IF p \div BlockSize < Len(blocks)
        THEN kv'[blocks[p \div BlockSize + 1]][SlotAt(p)] ELSE Blank
  BY DEF ReadAt, Reaches, BlockAt
<1>2. ReadAt(table[Request0], p)' =
        IF p \div BlockSize < Len(table[Request0])
        THEN kv'[table[Request0][p \div BlockSize + 1]][SlotAt(p)] ELSE Blank
  BY DEF ReadAt, Reaches, BlockAt
<1>3. \A blocks : blocks = table[Request0] =>
        ReadAt(blocks, p)' = IF p = q THEN e ELSE ReadAt(blocks, p)
  <2> SUFFICES ASSUME NEW blocks, blocks = table[Request0]
               PROVE  ReadAt(blocks, p)' = IF p = q THEN e ELSE ReadAt(blocks, p)
    OBVIOUS
  <2>1. /\ blocks \in Seq(Blocks) /\ NoneTwice(blocks) /\ kv' = Written(blocks, q, e)
        /\ Reaches(blocks, q)
    OBVIOUS
  <2>. QED  BY <2>1, WrittenReads
<1>. QED  BY <1>1, <1>2, <1>3

\* What the passes of run_prefill and run_decode write, and through which table.
LEMMA WritesEntry ==
  ASSUME SoleRequest, CoverageInv, Inside, state[Request0] = "RUNNING",
         PrefillWrite(Main) \/ DecodeWrite(Main),
         NEW q, q = IF pc[Main] = "prefill" THEN pos[Main] ELSE SeqLen(Request0) - 1
  PROVE  /\ kv' = Written(table[Request0], q, <<Request0, q>>)
         /\ q \in Nat /\ q < SeqLen(Request0) /\ Reaches(table[Request0], q)
         /\ pc[Main] \in {"prefill", "decode"} /\ lock = NoThread
         /\ UNCHANGED <<table, state, genLen>>
<1>a. /\ Main \in Threads /\ Request0 \in Rids /\ table[Request0] \in Seq(Blocks)
      /\ pos \in [Threads -> Nat]
      /\ promptLen[Request0] \in Nat /\ genLen[Request0] \in Nat
      /\ copy[Main].rid = Request0
  BY SoleParts DEF SchedTypeOK, EngineTypeOK, CoverageInv, EntriesFit
<1>b. /\ table[Request0] # <<>> /\ SeqLen(Request0) \in Nat \ {0}
      /\ NumBlocksOf(Request0) \in Nat \ {0}
  BY RunsWithBlocks DEF CoverageInv
<1>1. /\ pc[Main] \in {"prefill", "decode"} /\ UNCHANGED <<table, state, genLen>>
      /\ PrefillWrite(Main) <=> pc[Main] = "prefill"
  BY DEF PrefillWrite, DecodeWrite, At
<1>2. copy[Main].table = table[Request0] /\ copy[Main].seq = SeqLen(Request0)
  BY <1>a, <1>1, SoleParts DEF CopyFits
<1>3. lock = NoThread
  BY <1>1, LabelSays
<1>4. kv' = Written(table[Request0], q, <<Request0, q>>)
  <2>1. CASE PrefillWrite(Main)
    <3>1. CopyTable(Main) = table[Request0]
      BY <1>b, <1>2 DEF CopyTable
    <3>. QED  BY <1>a, <1>1, <2>1, <3>1 DEF PrefillWrite
  <2>2. CASE DecodeWrite(Main)
    <3>1. ~(pc[Main] = "prefill")
      BY <2>2 DEF DecodeWrite, At
    <3>. QED  BY <1>a, <1>2, <2>2, <3>1 DEF DecodeWrite
  <2>. QED  BY <2>1, <2>2
<1>5. q \in Nat /\ q < SeqLen(Request0)
  <2>1. CASE pc[Main] = "prefill"
    <3>1. q = pos[Main] /\ pos[Main] \in Nat /\ pos[Main] < promptLen[Request0]
      BY <1>a, <1>1, <2>1 DEF PrefillWrite
    <3>. QED  BY <1>a, <3>1 DEF SeqLen
  <2>2. CASE pc[Main] # "prefill"
    BY <1>b, <2>2
  <2>. QED  BY <2>1, <2>2
<1>6. Reaches(table[Request0], q)
  <2>1. q \div BlockSize \in Nat /\ q \div BlockSize < NumBlocksOf(Request0)
    BY <1>b, <1>5, PositionReached DEF NumBlocksOf
  <2>2. NumBlocksOf(Request0) <= Len(table[Request0])
    <3>1. ~Extending(Main)
      BY <1>3, LabelSays DEF Extending, Holds
    <3>2. Len(table[Request0]) >= NumBlocksOf(Request0)
      BY <3>1 DEF CoverageInv, TableFits
    <3>3. Len(table[Request0]) \in Nat
      BY <1>a
    <3>. QED  BY <1>b, <3>2, <3>3
  <2>3. Len(table[Request0]) \in Nat
    BY <1>a
  <2>. QED  BY <1>b, <2>1, <2>2, <2>3 DEF Reaches
<1>. QED  BY <1>1, <1>3, <1>4, <1>5, <1>6

\* An entry stays where it is as long as the request runs.
LEMMA EntryStays ==
  ASSUME SoleRequest, CoverageInv, PoolIsRoomy, Inside, state'[Request0] = "RUNNING",
         ~AdmitCommit(Main), NEW p \in Nat, ReadAt(table[Request0], p) = <<Request0, p>>
  PROVE  ReadAt(table[Request0], p)' = <<Request0, p>>
<1>a. /\ Main \in Threads /\ Request0 \in Rids /\ SchedTypeOK
      /\ kv \in [Blocks -> [Slots -> {Blank} \cup (Rids \X Nat)]]
      /\ table[Request0] \in Seq(Blocks) /\ NoneTwice(table[Request0])
  BY SoleParts DEF SchedTypeOK, EngineTypeOK, BlockOwnership, HeldOnce
<1>b. /\ state[Request0] = "RUNNING" /\ ~FreeHeadBlock(Main)
      /\ ReportCommit(Main) \/ table' = table
  BY TableStays
<1>c. Reaches(table[Request0], p)
  <2>1. <<Request0, p>> # <<>>
    OBVIOUS
  <2>. QED  BY <2>1 DEF ReadAt, Blank
<1>1. CASE PrefillWrite(Main) \/ DecodeWrite(Main)
  <2> DEFINE q == IF pc[Main] = "prefill" THEN pos[Main] ELSE SeqLen(Request0) - 1
  <2>1. q = IF pc[Main] = "prefill" THEN pos[Main] ELSE SeqLen(Request0) - 1
    OBVIOUS
  <2>. HIDE DEF q
  <2>2. kv' = Written(table[Request0], q, <<Request0, q>>) /\ q \in Nat /\ table' = table
        /\ Reaches(table[Request0], q)
    BY <1>1, <1>b, <2>1, WritesEntry
  <2>4. ReadAt(table[Request0], p)' = IF p = q THEN <<Request0, q>> ELSE ReadAt(table[Request0], p)
    BY <1>a, <1>c, <2>2, WrittenReadsHere
  <2>. QED  BY <2>4
<1>2. CASE ~PrefillWrite(Main) /\ ~DecodeWrite(Main)
  <2>1. kv' = kv
    BY <1>a, <1>b, <1>2, InsideParts, KvChanges
  <2>2. CASE table' = table
    BY <2>1, <2>2 DEF ReadAt, Reaches, BlockAt
  <2>3. CASE ReportCommit(Main)
    <3>1. /\ table'[Request0] = table[Request0] \o got[Main]
          /\ got[Main] \in Seq(Blocks)
      BY <2>3, CommitTable
    <3>2. p \div BlockSize \in Nat /\ p \div BlockSize < Len(table[Request0])
      BY <1>c, PositionSlot DEF Reaches
    <3>3. \A s, u \in Seq(Blocks), x \in Nat :
            x < Len(s) => x < Len(s \o u) /\ (s \o u)[x + 1] = s[x + 1]
      OBVIOUS
    <3>4. \A x \in Nat : x < Len(table[Request0]) =>
            x < Len(table'[Request0]) /\ table'[Request0][x + 1] = table[Request0][x + 1]
      <4>1. table[Request0] \in Seq(Blocks) /\ got[Main] \in Seq(Blocks)
        BY <1>a, <3>1
      <4>2. \A x \in Nat : x < Len(table[Request0]) =>
              /\ x < Len(table[Request0] \o got[Main])
              /\ (table[Request0] \o got[Main])[x + 1] = table[Request0][x + 1]
        BY <4>1, <3>3, ZenonT(60)
      <4>. QED  BY <4>2, <3>1, ZenonT(60)
    <3>5. /\ p \div BlockSize < Len(table'[Request0])
          /\ table'[Request0][p \div BlockSize + 1] = table[Request0][p \div BlockSize + 1]
      BY <3>2, <3>4, ZenonT(60)
    <3>. QED  BY <2>1, <3>2, <3>5 DEF ReadAt, Reaches, BlockAt
  <2>. QED  BY <1>b, <2>2, <2>3
<1>. QED  BY <1>1, <1>2

LEMMA CoveredStays ==
  ASSUME SoleRequest, CoverageInv, PoolIsRoomy, Inside, state'[Request0] = "RUNNING",
         ~AdmitCommit(Main), NEW x \in Nat, Covered(x)
  PROVE  Covered(x)'
<1>1. ASSUME NEW p \in 0 .. x - 1 PROVE ReadAt(table[Request0], p)' = <<Request0, p>>
  <2>1. p \in Nat /\ ReadAt(table[Request0], p) = <<Request0, p>>
    BY DEF Covered
  <2>. QED  BY <2>1, EntryStays
<1>. QED  BY <1>1 DEF Covered

LEMMA CoveredLess ==
  ASSUME NEW x \in Nat, NEW y \in Nat, x <= y, Covered(y)
  PROVE  Covered(x)
<1>1. 0 .. x - 1 \subseteq 0 .. y - 1
  OBVIOUS
<1>. QED  BY <1>1 DEF Covered

\* The pass writes the position after those that are covered.
LEMMA WriteCovers ==
  ASSUME SoleRequest, CoverageInv, PoolIsRoomy, Inside, state'[Request0] = "RUNNING",
         PrefillWrite(Main) \/ DecodeWrite(Main), NEW q \in Nat,
         q = IF pc[Main] = "prefill" THEN pos[Main] ELSE SeqLen(Request0) - 1,
         Covered(q)
  PROVE  Covered(q + 1)'
<1>a. /\ Main \in Threads /\ Request0 \in Rids
      /\ kv \in [Blocks -> [Slots -> {Blank} \cup (Rids \X Nat)]]
      /\ table[Request0] \in Seq(Blocks) /\ NoneTwice(table[Request0])
  BY SoleParts DEF SchedTypeOK, EngineTypeOK, BlockOwnership, HeldOnce
<1>1. ~AdmitCommit(Main) /\ state[Request0] = "RUNNING"
  <2>1. state' = state /\ table' = table /\ pc[Main] \in {"prefill", "decode"}
    BY DEF PrefillWrite, DecodeWrite, At
  <2>2. lock = NoThread /\ Main # NoThread
    BY <2>1, LabelSays
  <2>. QED  BY <2>1, <2>2 DEF AdmitCommit, Admitting, Holds
<1>2. /\ kv' = Written(table[Request0], q, <<Request0, q>>)
      /\ Reaches(table[Request0], q) /\ table' = table
  BY <1>1, WritesEntry
<1>3. ReadAt(table[Request0], q)' = <<Request0, q>>
  BY <1>a, <1>2, WrittenReadsHere
<1>4. Covered(q)'
  BY <1>1, CoveredStays
<1>5. \A p \in 0 .. q + 1 - 1 : p \in 0 .. q - 1 \/ p = q
  OBVIOUS
<1>. QED  BY <1>3, <1>4, <1>5 DEF Covered

-----------------------------------------------------------------------------
(* The prefill pass that is to come, and the token that a decode pass owes. *)

LEMMA PendingFrom ==
  ASSUME SoleRequest, CoverageInv, Inside, state'[Request0] = "RUNNING", ~AdmitCommit(Main),
         Pending'
  PROVE  Pending
<1>a. /\ Main \in Threads /\ pc \in [Threads -> PagedLabels]
      /\ job \in [Threads -> Seq(BatchEntry)] /\ EngineInv /\ EngineStep(Main)
      /\ batch \in Seq(BatchEntry)
  <2>1. EngineInv /\ EngineTypeOK /\ SchedTypeOK /\ Main \in Threads
    BY SoleParts
  <2>. QED  BY <2>1, InsideParts DEF SchedTypeOK, EngineTypeOK
<1>b. state[Request0] = "RUNNING"
  <2>1. NothingEvicted /\ EngineCall(Main)
    BY InsideParts DEF CoverageInv
  <2>. QED  BY <2>1, StateSteps
<1>1. CASE Request0 \in admitted'
  <2>1. ~EndSchedule(Main)
    BY <1>1 DEF EndSchedule
  <2>2. ~AdmitEmpty(Main)
    <3>1. ASSUME AdmitEmpty(Main) PROVE FALSE
      <4>1. scan # <<>> /\ phase \in {"admit", "retry"} /\ NumBlocksOf(Head(scan)) = 0
        BY <3>1 DEF AdmitEmpty, Admitting, Holds
      <4>2. NumBlocksOf(Request0) = 0
        BY <4>1, ScanIsOne
      <4>. QED  BY <1>b, <4>2, RunsWithBlocks DEF CoverageInv
    <3>. QED  BY <3>1
  <2>3. admitted' = admitted
    <3>1. CASE OffScheduler
      BY <3>1 DEF OffScheduler
    <3>2. CASE SchedStep(Main)
      BY <1>a, <2>1, <2>2, <3>2, LocalsMove
    <3>. QED  BY <3>1, <3>2, InsideParts
  <2>. QED  BY <1>1, <2>3 DEF Pending
<1>2. CASE job'[Main] # <<>> /\ Head(job'[Main]).prefill
  <2>1. CASE StepScheduled(Main)
    <3>1. IF batch = <<>> THEN job' = job ELSE job'[Main] = batch
      BY <1>a, <2>1 DEF StepScheduled
    <3>2. CASE batch = <<>>
      BY <1>2, <3>1, <3>2 DEF Pending
    <3>3. CASE batch # <<>>
      <4>1. Head(batch) \in BatchEntry /\ Occurs(batch, Head(batch))
        BY <1>a, <3>3, HeadOccurs
      <4>2. Head(batch).prefill
        BY <1>2, <3>1, <3>3
      <4>. QED  BY <4>1, <4>2 DEF CoverageInv, EntriesFit, Pending
    <3>. QED  BY <3>2, <3>3
  <2>2. CASE PickRequest(Main)
    <3>1. job[Main] # <<>> /\ pc[Main] = "loop" /\ job'[Main] = Tail(job[Main])
      BY <1>a, <2>2 DEF PickRequest, At
    <3>. QED  BY <1>2, <3>1, JobIsOne
  <2>3. CASE ~StepScheduled(Main) /\ ~PickRequest(Main)
    <3>1. job' = job
      BY <1>a, <2>3, EngineChanges
    <3>. QED  BY <1>2, <3>1 DEF Pending
  <2>. QED  BY <2>1, <2>2, <2>3
<1>3. CASE pc'[Main] = "prefill" /\ pc[Main] # "prefill"
  <2>1. PickRequest(Main) \/ PrefillAlloc(Main)
    BY <1>a, <1>3 DEF Inside, StepBegin, StepProgress, InScheduler, StepScheduled, PrefillWrite,
       PrefillSample, PrefillEnd, DecodeWrite, DecodeSample, StepReport, StepReported,
       CollectToken, CollectFinished, StepReturn, At, Goto
  <2>2. ~PrefillAlloc(Main)
    BY <1>b DEF PrefillAlloc, At, CoverageInv, WantsFit
  <2>3. /\ job[Main] # <<>> /\ pc[Main] = "loop"
        /\ pc'[Main] = "prefill" => Route(Head(job[Main])) = "prefill"
    BY <1>a, <1>3, <2>1, <2>2 DEF PickRequest, At, Goto
  <2>4. Head(job[Main]).rid = Request0
    BY <2>3, JobIsOne
  <2>5. table[Request0] # <<>>
    BY <1>b, RunsWithBlocks DEF CoverageInv
  <2>6. Head(job[Main]).prefill
    BY <1>3, <2>3, <2>4, <2>5 DEF Route
  <2>. QED  BY <2>3, <2>6 DEF Pending
<1>. QED  BY <1>1, <1>2, <1>3 DEF Pending

\* The prefill pass stays to come until it has been, unless the request is too long.
LEMMA PendingKept ==
  ASSUME SoleRequest, CoverageInv, Inside, state'[Request0] = "RUNNING", ~AdmitCommit(Main),
         Pending, ~PrefillSample(Main), SeqLen(Request0) <= MaxTotalTokens
  PROVE  Pending'
<1>a. /\ Main \in Threads /\ pc \in [Threads -> PagedLabels]
      /\ job \in [Threads -> Seq(BatchEntry)] /\ EngineInv /\ EngineStep(Main)
      /\ batch \in Seq(BatchEntry) /\ admitted \subseteq Rids
      /\ SeqLen(Request0) \in Nat /\ MaxTotalTokens \in Nat
  <2>1. EngineInv /\ EngineTypeOK /\ SchedTypeOK /\ Main \in Threads /\ Request0 \in Rids
    BY SoleParts
  <2>2. SeqLen(Request0) \in Nat
    BY <2>1, NumBlocksNat
  <2>. QED  BY <2>1, <2>2, InsideParts, LimitAssumption DEF SchedTypeOK, EngineTypeOK
<1>b. state[Request0] = "RUNNING"
  <2>1. NothingEvicted /\ EngineCall(Main)
    BY InsideParts DEF CoverageInv
  <2>. QED  BY <2>1, StateSteps
<1>1. CASE Request0 \in admitted
  <2>1. CASE EndSchedule(Main)
    <3>1. StepScheduled(Main)
      <4>1. ~InScheduler(Main)
        <5>1. lock = Main /\ lock' = NoThread /\ Main # NoThread
          BY <2>1, LabelSays DEF EndSchedule, Holds
        <5>. QED  BY <1>a, <5>1, InSchedulerStays
      <4>2. pc[Main] = "schedule"
        <5>1. lock = Main /\ phase # "report"
          BY <2>1 DEF EndSchedule, Holds
        <5>. QED  BY <5>1, LabelSays
      <4>. QED  BY <4>1, <4>2 DEF Inside, StepBegin, StepProgress, PickRequest, PrefillAlloc,
             PrefillWrite, PrefillSample, PrefillEnd, DecodeWrite, DecodeSample, StepReport,
             StepReported, CollectToken, CollectFinished, StepReturn, At
    <3>2. batch # <<>>
      <4>1. phase = "retire"
        BY <2>1 DEF EndSchedule, Holds
      <4>2. \/ batch # <<>> \/ SeqLen(Request0) > MaxTotalTokens
        BY <1>b, <4>1 DEF CoverageInv, EntriesFit, Batching
      <4>. QED  BY <1>a, <4>2
    <3>3. job'[Main] = batch
      BY <1>a, <3>1, <3>2 DEF StepScheduled
    <3>4. Head(batch) \in BatchEntry /\ Occurs(batch, Head(batch))
      BY <1>a, <3>2, HeadOccurs
    <3>5. Head(batch).prefill
      BY <1>1, <3>4 DEF CoverageInv, EntriesFit
    <3>. QED  BY <3>2, <3>3, <3>5 DEF Pending
  <2>2. CASE ~EndSchedule(Main)
    <3>1. Request0 \in admitted'
      <4>1. CASE OffScheduler
        BY <1>1, <4>1 DEF OffScheduler
      <4>2. CASE SchedStep(Main)
        <5>1. AdmitEmpty(Main) => admitted \subseteq admitted'
          BY DEF AdmitEmpty
        <5>. QED  BY <1>1, <1>a, <2>2, <4>2, <5>1, LocalsMove
      <4>. QED  BY <4>1, <4>2, InsideParts
    <3>. QED  BY <3>1 DEF Pending
  <2>. QED  BY <2>1, <2>2
<1>2. CASE job[Main] # <<>> /\ Head(job[Main]).prefill
  <2>1. pc[Main] = "loop"
    BY <1>2 DEF CoverageInv, EntriesFit
  <2>2. CASE PickRequest(Main)
    <3>1. Head(job[Main]).rid = Request0 /\ Begun(Request0)
      BY <1>2, <2>1, JobIsOne
    <3>2. Request0 \in known
      BY <3>1 DEF Begun
    <3>3. pc'[Main] = Route(Head(job[Main]))
      BY <1>a, <2>2, <3>1, <3>2 DEF PickRequest, Goto
    <3>4. table[Request0] # <<>>
      BY <1>b, RunsWithBlocks DEF CoverageInv
    <3>5. promptLen[Request0] # 0
      <4>1. genLen[Request0] = 0
        BY <1>b, <1>2 DEF CoverageInv, CacheFits, Pending
      <4>2. SeqLen(Request0) \in Nat \ {0}
        BY <1>b, RunsWithBlocks DEF CoverageInv
      <4>. QED  BY <4>1, <4>2 DEF SeqLen
    <3>6. Route(Head(job[Main])) = "prefill"
      BY <1>2, <3>1, <3>4, <3>5 DEF Route
    <3>. QED  BY <3>3, <3>6 DEF Pending
  <2>3. CASE ~PickRequest(Main)
    <3>1. ~StepScheduled(Main)
      BY <2>1 DEF StepScheduled, At
    <3>2. job' = job
      BY <1>a, <2>3, <3>1, EngineChanges
    <3>. QED  BY <1>2, <3>2 DEF Pending
  <2>. QED  BY <2>2, <2>3
<1>3. CASE pc[Main] = "prefill"
  <2>1. pc' = pc
    BY <1>a, <1>3 DEF Inside, StepBegin, StepProgress, InScheduler, StepScheduled, PickRequest,
       PrefillAlloc, PrefillWrite, PrefillSample, PrefillEnd, DecodeWrite, DecodeSample,
       StepReport, StepReported, CollectToken, CollectFinished, StepReturn, At
  <2>. QED  BY <1>3, <2>1 DEF Pending
<1>. QED  BY <1>1, <1>2, <1>3 DEF Pending

LEMMA OwesFrom ==
  ASSUME SoleRequest, Inside, Owes'
  PROVE  Owes \/ DecodeWrite(Main)
<1>a. /\ Main \in Threads /\ Request0 \in Rids /\ pc \in [Threads -> PagedLabels]
      /\ sampled \in [Threads -> Seq(Report)] /\ CallsInv
  BY SoleParts DEF EngineTypeOK
<1>1. CASE pc'[Main] = "attend"
  <2>1. DecodeWrite(Main) \/ pc[Main] = "attend" \/ PickRequest(Main)
    BY <1>a, <1>1 DEF Inside, StepBegin, StepProgress, InScheduler, StepScheduled, PrefillAlloc,
       PrefillWrite, PrefillSample, PrefillEnd, DecodeSample, StepReport, StepReported,
       CollectToken, CollectFinished, StepReturn, At, Goto
  <2>2. ~PickRequest(Main)
    <3>1. PickRequest(Main) => pc'[Main] \in {"loop", "decode", "prefillAlloc", "prefill"}
      BY <1>a DEF PickRequest, Goto, Route, At
    <3>. QED  BY <1>1, <3>1
  <2>. QED  BY <2>1, <2>2 DEF Owes
<1>2. CASE pc'[Main] # "attend"
  <2>1. Occurs(ReportRids(sampled'[Main]), Request0) /\ ~InHand(Main, Request0, 1)'
    BY <1>2 DEF Owes
  <2>2. EngineCall(Main) /\ EngineStep(Main)
    BY InsideParts
  <2>3. ~StepBegin(Main)
    <3>1. ASSUME StepBegin(Main) PROVE FALSE
      <4>1. pc[Main] = "out" /\ sampled' = sampled
        BY <3>1 DEF StepBegin, At
      <4>2. sampled[Main] = <<>>
        BY <1>a, <4>1, SoleParts DEF LoopsFit, SampledFits
      <4>3. ReportRids(sampled'[Main]) = <<>>
        BY <4>1, <4>2, EmptyRids
      <4>. QED  BY <2>1, <4>3, EmptyHolds
    <3>. QED  BY <3>1
  <2>4. ~InHand(Main, Request0, 1)
    BY <1>a, <2>1, <2>2, <2>3, InHandKept
  <2>5. CASE \E tok \in Tokens : DecodeSample(Main, tok)
    BY <2>5 DEF DecodeSample, At, Owes
  <2>6. CASE CollectToken(Main)
    <3>1. sampled[Main] # <<>> /\ sampled'[Main] = Tail(sampled[Main])
      BY <1>a, <2>6 DEF CollectToken
    <3>2. Occurs(ReportRids(sampled[Main]), Request0)
      BY <1>a, <2>1, <3>1, ReportRidsTailOccurs
    <3>. QED  BY <2>4, <3>2 DEF Owes
  <2>7. CASE sampled' = sampled
    BY <2>1, <2>4, <2>7 DEF Owes
  <2>. QED  BY <1>a, <2>2, <2>5, <2>6, <2>7, EngineChanges
<1>. QED  BY <1>1, <1>2

\* report_output pays what is owed.
LEMMA TokenPays ==
  ASSUME SoleRequest, Inside, ReportToken(Main)
  PROVE  Owes /\ ~Owes'
<1>a. /\ Main \in Threads /\ Request0 \in Rids /\ sampled \in [Threads -> Seq(Report)]
      /\ reports \in Seq(Report) /\ CallsInv /\ EngineCall(Main)
  <2>1. /\ Main \in Threads /\ Request0 \in Rids /\ CallsInv /\ EngineTypeOK /\ SchedTypeOK
    BY SoleParts
  <2>. QED  BY <2>1, InsideParts DEF SchedTypeOK, EngineTypeOK
<1>b. /\ Head(reports)[1] = Request0 /\ pc[Main] = "report"
      /\ UNCHANGED engineVars
  BY TokenSteps
<1>1. ~InHand(Main, Request0, 1) /\ InHand(Main, Request0, 1)'
  BY <1>a, <1>b, InHandNew
<1>2. Occurs(ReportRids(sampled[Main]), Request0)
  <2>1. Holds(Main, "report") /\ reports # <<>>
    BY DEF ReportToken
  <2>2. Head(reports) \in Report /\ Occurs(reports, Head(reports))
    BY <1>a, <2>1, HeadOccurs
  <2>3. Occurs(sampled[Main], Head(reports))
    BY <1>a, <2>1, <2>2, SoleParts DEF HeldFits
  <2>4. PICK j \in 1 .. Len(sampled[Main]) : sampled[Main][j] = Head(reports)
    BY <2>3 DEF Occurs
  <2>5. ReportRids(sampled[Main])[j] = Request0
    BY <1>b, <2>4 DEF ReportRids
  <2>6. Len(ReportRids(sampled[Main])) = Len(sampled[Main])
    BY <1>a, ReportRidsType
  <2>. QED  BY <2>4, <2>5, <2>6 DEF Occurs
<1>3. pc'[Main] # "attend"
  BY <1>b
<1>. QED  BY <1>1, <1>2, <1>3 DEF Owes

\* A request that is admitted has its prefill pass to come and no token.
LEMMA AdmitCache ==
  ASSUME SoleRequest, CoverageInv, Inside, AdmitCommit(Main)
  PROVE  CacheFits'
<1>1. Request0 \in admitted' /\ state[Request0] = "WAITING"
  BY AdmitsTable
<1>2. lock = Main /\ phase \in {"admit", "retry"}
  BY DEF AdmitCommit, Admitting, Holds
<1>3. genLen' = genLen
  BY <1>2, InsideParts DEF ReportToken, Holds
<1>4. genLen[Request0] = 0
  BY <1>1, SoleParts DEF TokensFit
<1>5. pc'[Main] # "prefill"
  <2>1. pc[Main] = "schedule"
    BY <1>2, LabelSays
  <2>2. InScheduler(Main)
    BY <1>2, <2>1 DEF Inside, StepBegin, StepProgress, StepScheduled, EndSchedule, PickRequest,
       PrefillAlloc, PrefillWrite, PrefillSample, PrefillEnd, DecodeWrite, DecodeSample,
       StepReport, StepReported, CollectToken, CollectFinished, StepReturn, At, Holds
  <2>. QED  BY <2>1, <2>2 DEF InScheduler
<1>. QED  BY <1>1, <1>3, <1>4, <1>5 DEF CacheFits, Pending

\* Nothing is pending while report_output runs.
LEMMA TokenAfterPrefill ==
  ASSUME SoleRequest, CoverageInv, Inside, ReportToken(Main)
  PROVE  ~Pending
<1>1. phase = "report" /\ pc[Main] = "report"
  BY TokenSteps
<1>2. admitted = {} /\ job[Main] = <<>>
  BY <1>1 DEF CoverageInv, NothingEvicted, EntriesFit
<1>. QED  BY <1>1, <1>2 DEF Pending

LEMMA CoveredAt ==
  ASSUME NEW x, x = pos'[Main], Covered(x)'
  PROVE  Covered(pos[Main])'
  BY DEF Covered

\* The prefill pass.
LEMMA PrefillCovers ==
  ASSUME SoleRequest, CoverageInv, PoolIsRoomy, Inside, state'[Request0] = "RUNNING",
         ~AdmitCommit(Main), pc'[Main] = "prefill"
  PROVE  Covered(pos[Main])'
<1>a. /\ Main \in Threads /\ pc \in [Threads -> PagedLabels] /\ pos \in [Threads -> Nat]
      /\ EngineStep(Main)
  <2>1. Main \in Threads /\ EngineTypeOK
    BY SoleParts
  <2>. QED  BY <2>1, InsideParts DEF EngineTypeOK
<1>b. state[Request0] = "RUNNING"
  BY TableStays
<1>1. CASE PickRequest(Main)
  <2>1. pos'[Main] = 0
    BY <1>a, <1>1 DEF PickRequest
  <2>2. \A p : p \notin 0 .. 0 - 1
    OBVIOUS
  <2>3. Covered(0)'
    BY <2>2 DEF Covered
  <2>. QED  BY <2>1, <2>3, CoveredAt
<1>2. CASE PrefillWrite(Main)
  <2>0. PICK q \in Nat : q = pos[Main]
    BY <1>a
  <2>1. /\ q \in Nat /\ pc[Main] = "prefill" /\ pos'[Main] = q + 1
    BY <1>a, <1>2, <2>0 DEF PrefillWrite, At
  <2>2. Covered(q)
    BY <1>b, <2>0, <2>1 DEF CoverageInv, CacheFits
  <2>3. q = IF pc[Main] = "prefill" THEN pos[Main] ELSE SeqLen(Request0) - 1
    BY <2>0, <2>1
  <2>4. Covered(q + 1)'
    BY <1>2, <2>1, <2>2, <2>3, WriteCovers
  <2>. QED  BY <2>1, <2>4, CoveredAt
<1>3. CASE ~PickRequest(Main) /\ ~PrefillWrite(Main)
  <2>1. pos' = pos
    BY <1>a, <1>3, EngineChanges
  <2>2. pc[Main] = "prefill"
    <3>1. ~PrefillAlloc(Main)
      BY <1>b DEF PrefillAlloc, At, CoverageInv, WantsFit
    <3>. QED  BY <1>a, <1>3, <3>1 DEF Inside, StepBegin, StepProgress, InScheduler,
           StepScheduled, PrefillSample, PrefillEnd, DecodeWrite, DecodeSample, StepReport,
           StepReported, CollectToken, CollectFinished, StepReturn, At, Goto
  <2>0. PICK x \in Nat : x = pos[Main]
    BY <1>a
  <2>3. x \in Nat /\ Covered(x) /\ x = pos'[Main]
    BY <1>b, <2>0, <2>1, <2>2 DEF CoverageInv, CacheFits
  <2>4. Covered(x)'
    BY <2>3, CoveredStays
  <2>. QED  BY <2>3, <2>4, CoveredAt
<1>. QED  BY <1>1, <1>2, <1>3

\* What is covered when no prefill pass is to come.
LEMMA LengthCovers ==
  ASSUME SoleRequest, CoverageInv, PoolIsRoomy, Inside, state'[Request0] = "RUNNING",
         ~AdmitCommit(Main), ~Pending', SeqLen(Request0)' <= MaxTotalTokens,
         NEW n, n = SeqLen(Request0)'
  PROVE  IF Owes' THEN Covered(n)' ELSE Covered(n - 1)'
<1>a. /\ Main \in Threads /\ SeqLen(Request0) \in Nat \ {0} /\ MaxTotalTokens \in Nat
      /\ state[Request0] = "RUNNING"
  <2>1. state[Request0] = "RUNNING" /\ TableFits
    BY TableStays DEF CoverageInv
  <2>. QED  BY <2>1, SoleParts, RunsWithBlocks, LimitAssumption
<1>b. CacheFits
  BY DEF CoverageInv
<1>c. PICK m \in Nat \ {0} : m = SeqLen(Request0)
  BY <1>a
<1>d. Pending \/ m > MaxTotalTokens \/ Covered(m - (IF Owes THEN 0 ELSE 1))
  BY <1>a, <1>b, <1>c DEF CacheFits
<1>1. CASE ReportToken(Main)
  <2>1. n = m + 1 /\ Owes /\ ~Owes' /\ ~Pending
    BY <1>1, <1>c, TokenSteps, TokenPays, TokenAfterPrefill
  <2>2. Covered(m)
    <3>1. ~(m > MaxTotalTokens) /\ m - 0 = m
      BY <1>a, <1>c, <2>1
    <3>. QED  BY <1>d, <2>1, <3>1
  <2>3. Covered(m)'
    BY <1>c, <2>2, CoveredStays
  <2>4. n - 1 = m
    BY <1>c, <2>1
  <2>. QED  BY <2>1, <2>3, <2>4
<1>2. CASE ~ReportToken(Main)
  <2>1. n = m /\ ~(m > MaxTotalTokens)
    BY <1>2, <1>a, <1>c, LenSteps
  <2>2. m - 0 = m /\ m - 1 \in Nat /\ m - 1 <= m /\ m - 1 + 1 = m
    BY <1>c
  <2>3. CASE Pending
    <3>1. PrefillSample(Main)
      <4>1. SeqLen(Request0) <= MaxTotalTokens
        BY <1>a, <1>c, <2>1
      <4>. QED  BY <2>3, <4>1, PendingKept
    <3>2. pc[Main] = "prefill" /\ pos[Main] = promptLen[Request0]
      <4>1. copy[Main].rid = Request0
        BY DEF CoverageInv, EntriesFit
      <4>. QED  BY <3>1, <4>1 DEF PrefillSample, At
    <3>3. genLen[Request0] = 0 /\ Covered(pos[Main])
      BY <1>a, <1>b, <2>3, <3>2 DEF CacheFits
    <3>4. pos[Main] = m
      <4>1. promptLen[Request0] \in Nat
        BY SoleParts DEF SchedTypeOK
      <4>. QED  BY <1>c, <3>2, <3>3, <4>1 DEF SeqLen
    <3>5. Covered(m) /\ Covered(m - 1)
      <4>1. Covered(m)
        BY <3>3, <3>4
      <4>. QED  BY <1>c, <2>2, <4>1, CoveredLess
    <3>6. Covered(m)' /\ Covered(m - 1)'
      BY <1>c, <2>2, <3>5, CoveredStays
    <3>. QED  BY <2>1, <2>2, <3>6
  <2>4. CASE ~Pending /\ Owes
    <3>1. Covered(m)
      BY <1>d, <2>1, <2>2, <2>4
    <3>2. Covered(m - 1)
      BY <1>c, <2>2, <3>1, CoveredLess
    <3>3. Covered(m)' /\ Covered(m - 1)'
      BY <1>c, <2>2, <3>1, <3>2, CoveredStays
    <3>. QED  BY <2>1, <2>2, <3>3
  <2>5. CASE ~Pending /\ ~Owes
    <3>1. Covered(m - 1)
      BY <1>d, <2>1, <2>5
    <3>2. Covered(m - 1)'
      BY <2>2, <3>1, CoveredStays
    <3>3. Owes' => Covered(m)'
      <4> HAVE Owes'
      <4>1. DecodeWrite(Main)
        BY <2>5, OwesFrom
      <4>2. pc[Main] = "decode"
        BY <4>1 DEF DecodeWrite, At
      <4>0. PICK q \in Nat : q = m - 1
        BY <2>2
      <4>3. /\ q \in Nat /\ Covered(q) /\ q + 1 = m
            /\ q = IF pc[Main] = "prefill" THEN pos[Main] ELSE SeqLen(Request0) - 1
        BY <1>c, <2>2, <3>1, <4>0, <4>2
      <4>4. Covered(q + 1)'
        BY <4>1, <4>3, WriteCovers
      <4>. QED  BY <4>3, <4>4
    <3>. QED  BY <2>1, <2>2, <3>2, <3>3
  <2>. QED  BY <2>3, <2>4, <2>5
<1>. QED  BY <1>1, <1>2

LEMMA LenIsNat ==
  ASSUME SoleRequest, Inside
  PROVE  SeqLen(Request0)' \in Nat
<1>1. SeqLen(Request0) \in Nat
  BY SoleParts, NumBlocksNat
<1>. QED  BY <1>1, LenSteps, TokenSteps

LEMMA CacheFitsStep ==
  ASSUME SoleRequest, CoverageInv, PoolIsRoomy, Inside
  PROVE  CacheFits'
<1>1. CASE AdmitCommit(Main)
  BY <1>1, AdmitCache
<1>2. ASSUME ~AdmitCommit(Main), state'[Request0] = "RUNNING"
      PROVE  /\ Pending' => genLen'[Request0] = 0
             /\ pc'[Main] = "prefill" => Covered(pos[Main])'
             /\ \/ Pending' \/ SeqLen(Request0)' > MaxTotalTokens
                \/ Covered(SeqLen(Request0) - (IF Owes THEN 0 ELSE 1))'
  <2>1. Pending' => genLen'[Request0] = 0
    <3> HAVE Pending'
    <3>1. Pending /\ state[Request0] = "RUNNING"
      BY <1>2, PendingFrom, TableStays
    <3>2. genLen' = genLen
      BY <3>1, InsideParts, TokenAfterPrefill
    <3>. QED  BY <3>1, <3>2 DEF CoverageInv, CacheFits
  <2>2. pc'[Main] = "prefill" => Covered(pos[Main])'
    BY <1>2, PrefillCovers
  <2>3. ASSUME ~Pending', ~(SeqLen(Request0)' > MaxTotalTokens)
        PROVE  Covered(SeqLen(Request0) - (IF Owes THEN 0 ELSE 1))'
    <3>1. PICK n : n = SeqLen(Request0)'
      OBVIOUS
    <3>2. SeqLen(Request0)' <= MaxTotalTokens
      <4>1. SeqLen(Request0)' \in Nat /\ MaxTotalTokens \in Nat
        BY LenIsNat, LimitAssumption
      <4>. QED  BY <2>3, <4>1
    <3>3. IF Owes' THEN Covered(n)' ELSE Covered(n - 1)'
      BY <1>2, <2>3, <3>1, <3>2, LengthCovers
    <3>4. n \in Nat
      BY <3>1, LenIsNat
    <3>5. n - 0 = n
      BY <3>4
    <3>. QED  BY <3>1, <3>3, <3>5 DEF Covered
  <2>. QED  BY <2>1, <2>2, <2>3
<1>. QED  BY <1>1, <1>2 DEF CacheFits

-----------------------------------------------------------------------------
(* The blocks that are taken. *)

LEMMA LostStays ==
  ASSUME SoleRequest, CoverageInv, Inside, LostOne, state'[Request0] # "FINISHED"
  PROVE  LostOne'
<1>a. /\ Main \in Threads /\ pc \in [Threads -> PagedLabels]
      /\ ~Pending /\ state[Request0] = "RUNNING" /\ pc[Main] # "prefillEnd"
  BY SoleParts DEF EngineTypeOK, LostOne
<1>1. ~AdmitCommit(Main)
  BY <1>a, AdmitsTable
<1>2. state'[Request0] = "RUNNING"
  <2>1. NothingEvicted /\ EngineCall(Main)
    BY InsideParts DEF CoverageInv
  <2>. QED  BY <1>1, <1>a, <2>1, StateSteps
<1>3. ~Pending'
  BY <1>1, <1>2, <1>a, PendingFrom
<1>4. pc'[Main] # "prefillEnd"
  <2>1. ~PrefillSample(Main)
    BY <1>a DEF PrefillSample, At, Pending
  <2>2. PickRequest(Main) => pc'[Main] \in {"loop", "decode", "prefillAlloc", "prefill"}
    BY <1>a DEF PickRequest, Goto, Route, At
  <2>. QED  BY <1>a, <2>1, <2>2 DEF Inside, StepBegin, StepProgress, InScheduler, StepScheduled,
         PrefillAlloc, PrefillWrite, PrefillEnd, DecodeWrite, DecodeSample, StepReport,
         StepReported, CollectToken, CollectFinished, StepReturn, At, Goto
<1>. QED  BY <1>2, <1>3, <1>4 DEF LostOne

\* A block of its own that the thread drops is the one that is lost.
LEMMA DropLoses ==
  ASSUME SoleRequest, CoverageInv, Inside, DropOwnBlocks(Main), state'[Request0] # "FINISHED"
  PROVE  /\ ~LostOne /\ LostOne'
         /\ Len(got[Main]) <= 1 /\ Len(got'[Main]) = 0 /\ table' = table
<1>a. /\ Main \in Threads /\ pc \in [Threads -> PagedLabels]
      /\ got \in [Threads -> Seq(Blocks)] /\ WantsFit
  BY SoleParts DEF EngineTypeOK, SchedTypeOK, CoverageInv
<1>1. /\ lock # Main /\ want[Main] > 0 /\ want[Main] = Len(got[Main])
      /\ got' = [got EXCEPT ![Main] = <<>>] /\ want' = [want EXCEPT ![Main] = 0]
      /\ state' = state /\ table' = table /\ phase' = phase
  BY DEF DropOwnBlocks, EndAlloc
<1>2. PrefillEnd(Main)
  <2>1. want' # want
    BY <1>1, <1>a, SoleParts DEF SchedTypeOK
  <2>2. ~InScheduler(Main)
    <3>1. InScheduler(Main) => AllocBlock(Main) \/ OwnAllocFails(Main)
      BY <1>1, OutsideMoves
    <3>2. AllocBlock(Main) => want' = want
      BY DEF AllocBlock
    <3>3. OwnAllocFails(Main) => got' = got /\ Len(got[Main]) < want[Main]
      BY DEF OwnAllocFails, AllocFails
    <3>4. got'[Main] = <<>> /\ Len(<<>>) = 0
      BY <1>a, <1>1
    <3>. QED  BY <1>1, <2>1, <3>1, <3>2, <3>3, <3>4
  <2>3. ~StepScheduled(Main) /\ ~StepReported(Main)
    BY <1>1 DEF StepScheduled, EndSchedule, StepReported, EndReport, Holds
  <2>4. ~PrefillAlloc(Main) /\ ~PrefillSample(Main)
    <3>1. want'[Main] = 0 /\ want[Main] \in Nat
      BY <1>a, <1>1, SoleParts DEF SchedTypeOK
    <3>2. ASSUME NEW n, BeginOwnAlloc(Main, n) PROVE got' = got /\ want[Main] = Len(got[Main])
      BY <3>2 DEF BeginOwnAlloc
    <3>3. got'[Main] # got[Main]
      <4>1. Len(got'[Main]) = 0
        BY <1>a, <1>1
      <4>. QED  BY <1>1, <4>1
    <3>4. got' # got
      BY <3>3
    <3>. QED  BY <2>1, <3>2, <3>4 DEF PrefillAlloc, PrefillSample
  <2>5. ~StepReport(Main)
    BY <2>1 DEF StepReport, BeginReport
  <2>. QED  BY <2>1, <2>2, <2>3, <2>4, <2>5 DEF Inside, StepBegin, BeginSchedule, StepProgress,
         PickRequest, PrefillWrite, DecodeWrite, DecodeSample, CollectToken, CollectFinished,
         StepReturn
<1>3. pc[Main] = "prefillEnd" /\ pc'[Main] = "loop"
  BY <1>a, <1>2 DEF PrefillEnd, At, Goto
<1>4. state[Request0] = "RUNNING" /\ want[Main] <= 1
  BY <1>1, <1>3, <1>a DEF WantsFit
<1>5. ~Pending'
  <2>1. ~Pending
    <3>1. lock = NoThread /\ phase = "idle"
      BY <1>3, LabelSays
    <3>2. admitted = {} /\ job[Main] = <<>>
      BY <1>3, <3>1 DEF CoverageInv, NothingEvicted, EntriesFit
    <3>. QED  BY <1>3, <3>2 DEF Pending
  <2>2. ~AdmitCommit(Main)
    BY <1>1 DEF AdmitCommit, Admitting, Holds
  <2>. QED  BY <1>1, <1>4, <2>1, <2>2, PendingFrom
<1>6. Len(got'[Main]) = 0
  BY <1>a, <1>1
<1>. QED  BY <1>1, <1>3, <1>4, <1>5, <1>6 DEF LostOne

LEMMA AllocTakes ==
  ASSUME SoleRequest, AllocBlock(Main)
  PROVE  /\ Cardinality(TakenBlocks)' = Cardinality(TakenBlocks) + 1
         /\ Len(got'[Main]) = Len(got[Main]) + 1 /\ table' = table
<1>a. /\ Main \in Threads /\ isFree \in [Blocks -> BOOLEAN] /\ got \in [Threads -> Seq(Blocks)]
  BY SoleParts DEF SchedTypeOK
<1>1. PICK b \in Blocks : Alloc(b) /\ got' = [got EXCEPT ![Main] = Append(@, b)]
  BY DEF AllocBlock
<1>2. isFree[b] /\ isFree' = [isFree EXCEPT ![b] = FALSE]
  BY <1>1 DEF Alloc, FirstFree
<1>3. TakenBlocks' = TakenBlocks \cup {b} /\ b \notin TakenBlocks
  BY <1>a, <1>2 DEF TakenBlocks
<1>4. Cardinality(TakenBlocks') = Cardinality(TakenBlocks) + 1
  BY <1>3, TakenFinite, FS_AddElement
<1>5. Len(got'[Main]) = Len(got[Main]) + 1
  BY <1>a, <1>1
<1>6. table' = table
  BY DEF AllocBlock
<1>. QED  BY <1>4, <1>5, <1>6

\* The blocks that the request and the thread hold, and the one that is lost.
LEMMA HoldSteps ==
  ASSUME SoleRequest, CoverageInv, PoolIsRoomy, Inside, state'[Request0] # "FINISHED",
         ~AllocBlock(Main)
  PROVE  \/ /\ Len(table[Request0]) + Len(got[Main]) = Len(table'[Request0]) + Len(got'[Main])
            /\ LostOne => LostOne'
         \/ /\ ~LostOne /\ LostOne' /\ table' = table
            /\ Len(got[Main]) <= 1 /\ Len(got'[Main]) = 0
<1>a. /\ Main \in Threads /\ Request0 \in Rids /\ table[Request0] \in Seq(Blocks)
      /\ got[Main] \in Seq(Blocks) /\ NothingEvicted /\ EngineCall(Main)
  BY SoleParts, InsideParts DEF SchedTypeOK, CoverageInv
<1>b. LostOne => LostOne'
  BY LostStays
<1>c. state[Request0] # "FINISHED"
  BY <1>a, StateSteps
<1>1. CASE OffScheduler
  BY <1>b, <1>1 DEF OffScheduler
<1>2. CASE AdmitCommit(Main)
  <2>1. /\ table[Request0] = <<>> /\ table'[Request0] = got[Main] /\ got'[Main] = <<>>
    BY <1>2, AdmitsTable
  <2>2. Len(table[Request0]) = 0 /\ Len(got'[Main]) = 0 /\ Len(got[Main]) \in Nat
    BY <1>a, <2>1
  <2>. QED  BY <1>b, <2>1, <2>2
<1>3. CASE ReportCommit(Main)
  <2>1. table'[Request0] = table[Request0] \o got[Main] /\ got'[Main] = <<>>
    BY <1>3, CommitTable
  <2>2. /\ Len(table'[Request0]) = Len(table[Request0]) + Len(got[Main])
        /\ Len(got'[Main]) = 0 /\ Len(got[Main]) \in Nat /\ Len(table[Request0]) \in Nat
    BY <1>a, <2>1
  <2>. QED  BY <1>b, <2>2
<1>4. CASE DropOwnBlocks(Main)
  BY <1>4, DropLoses
<1>5. CASE SchedStep(Main) /\ ~AdmitCommit(Main) /\ ~ReportCommit(Main) /\ ~DropOwnBlocks(Main)
  <2>1. ~FreeHeadBlock(Main) /\ ~AdmitFail(Main) /\ ~ReportFail(Main)
    BY <1>a, <1>c, FreesFinished, CannotFail
  <2>2. table' = table
    BY <1>a, <1>5, <2>1, StepChanges
  <2>3. got' = got
    BY <1>a, <1>5, <2>1, LocalsMove
  <2>. QED  BY <1>b, <2>2, <2>3
<1>. QED  BY <1>1, <1>2, <1>3, <1>4, <1>5, InsideParts

LEMMA SoleTypes ==
  ASSUME SoleRequest'
  PROVE  SchedTypeOK'
  BY DEF SoleRequest, LifeInv, SoleInv, EngineInv, SchedInv

LEMMA TakenFitStep ==
  ASSUME SoleRequest, SoleRequest', CoverageInv, PoolIsRoomy, Inside
  PROVE  TakenFit'
<1> SUFFICES ASSUME state'[Request0] # "FINISHED"
             PROVE  Cardinality(TakenBlocks)'
                      <= Len(table'[Request0]) + Len(got'[Main]) + (IF LostOne' THEN 1 ELSE 0)
  BY DEF TakenFit
<1>a. /\ Main \in Threads /\ Request0 \in Rids /\ EngineCall(Main) /\ NothingEvicted
      /\ SchedTypeOK /\ Cardinality(TakenBlocks) \in Nat
  BY SoleParts, InsideParts, TakenFinite DEF CoverageInv
<1>b. /\ Len(table[Request0]) \in Nat /\ Len(got[Main]) \in Nat
      /\ Len(table'[Request0]) \in Nat /\ Len(got'[Main]) \in Nat
  <2>1. table[Request0] \in Seq(Blocks) /\ got[Main] \in Seq(Blocks)
    BY <1>a DEF SchedTypeOK
  <2>2. SchedTypeOK'
    BY SoleTypes
  <2>3. table'[Request0] \in Seq(Blocks) /\ got'[Main] \in Seq(Blocks)
    BY <1>a, <2>2 DEF SchedTypeOK
  <2>. QED  BY <2>1, <2>3, LenProperties
<1>c. /\ state[Request0] # "FINISHED"
      /\ Cardinality(TakenBlocks)
           <= Len(table[Request0]) + Len(got[Main]) + (IF LostOne THEN 1 ELSE 0)
  <2>1. state[Request0] # "FINISHED"
    BY <1>a, StateSteps
  <2>. QED  BY <2>1 DEF CoverageInv, TakenFit
<1>1. CASE AllocBlock(Main)
  <2>1. /\ Cardinality(TakenBlocks)' = Cardinality(TakenBlocks) + 1
        /\ Len(got'[Main]) = Len(got[Main]) + 1 /\ table' = table
    BY <1>1, AllocTakes
  <2>2. \A c, l, g \in Nat, x, y \in 0 .. 1 : c <= l + g + x /\ x <= y => c + 1 <= l + (g + 1) + y
    OBVIOUS
  <2>3. /\ (IF LostOne THEN 1 ELSE 0) \in 0 .. 1 /\ (IF LostOne' THEN 1 ELSE 0) \in 0 .. 1
        /\ (IF LostOne THEN 1 ELSE 0) <= (IF LostOne' THEN 1 ELSE 0)
    BY LostStays
  <2>4. Cardinality(TakenBlocks) + 1
          <= Len(table[Request0]) + (Len(got[Main]) + 1) + (IF LostOne' THEN 1 ELSE 0)
    BY <1>a, <1>b, <1>c, <2>2, <2>3, ZenonT(60)
  <2>. QED  BY <2>1, <2>4
<1>2. CASE ~AllocBlock(Main)
  <2>1. Cardinality(TakenBlocks)' = Cardinality(TakenBlocks)
    <3>1. isFree' = isFree
      <4>1. ~FreeHeadBlock(Main)
        BY <1>a, <1>c, FreesFinished
      <4>2. CASE OffScheduler
        BY <4>2 DEF OffScheduler
      <4>3. CASE SchedStep(Main)
        BY <1>a, <1>2, <4>1, <4>3, LocalsMove
      <4>. QED  BY <4>2, <4>3, InsideParts
    <3>. QED  BY <3>1 DEF TakenBlocks
  <2>2. \/ /\ Len(table[Request0]) + Len(got[Main]) = Len(table'[Request0]) + Len(got'[Main])
           /\ LostOne => LostOne'
        \/ /\ ~LostOne /\ LostOne' /\ table' = table
           /\ Len(got[Main]) <= 1 /\ Len(got'[Main]) = 0
    BY <1>2, HoldSteps
  <2>3. CASE /\ Len(table[Request0]) + Len(got[Main]) = Len(table'[Request0]) + Len(got'[Main])
             /\ LostOne => LostOne'
    <3>1. \A c, l, g, m, h \in Nat, x, y \in 0 .. 1 :
            c <= l + g + x /\ l + g = m + h /\ x <= y => c <= m + h + y
      OBVIOUS
    <3>2. /\ (IF LostOne THEN 1 ELSE 0) \in 0 .. 1 /\ (IF LostOne' THEN 1 ELSE 0) \in 0 .. 1
          /\ (IF LostOne THEN 1 ELSE 0) <= (IF LostOne' THEN 1 ELSE 0)
      BY <2>3
    <3>. QED  BY <1>a, <1>b, <1>c, <2>1, <2>3, <3>1, <3>2
  <2>4. CASE /\ ~LostOne /\ LostOne' /\ table' = table
             /\ Len(got[Main]) <= 1 /\ Len(got'[Main]) = 0
    <3>1. \A c, l, g \in Nat : c <= l + g + 0 /\ g <= 1 => c <= l + 0 + 1
      OBVIOUS
    <3>2. Cardinality(TakenBlocks) <= Len(table[Request0]) + Len(got[Main]) + 0
      BY <1>c, <2>4
    <3>3. Cardinality(TakenBlocks) <= Len(table[Request0]) + 0 + 1
      BY <1>a, <1>b, <2>4, <3>1, <3>2
    <3>. QED  BY <2>1, <2>4, <3>3
  <2>. QED  BY <2>2, <2>3, <2>4
<1>. QED  BY <1>1, <1>2

-----------------------------------------------------------------------------
(* The invariant of the runner's cache, and the theorem. *)

CacheInv == RunnerInv /\ LifeInv /\ CoverageInv

LEMMA CacheIsSole == CacheInv => SoleRequest
  BY DEF CacheInv, RunnerInv, OneRequest, SoleRequest

LEMMA CoverageInit == EngineInit => CoverageInv
<1> SUFFICES ASSUME EngineInit PROVE CoverageInv
  OBVIOUS
<1>1. /\ isFree = [b \in Blocks |-> TRUE] /\ known = {} /\ preempted = [r \in Rids |-> FALSE]
      /\ state = [r \in Rids |-> "WAITING"] /\ phase = "idle" /\ lock = NoThread
      /\ needed = 0 /\ admitted = {} /\ batch = <<>> /\ tokens = 0
      /\ Main \in Threads /\ Request0 \in Rids /\ NoThread # Main
  <2>1. SchedInit /\ Main \in Threads /\ Request0 \in Rids
    BY MainIsThread DEF EngineInit
  <2>2. NoThread # Main
    BY <2>1, ThreadAssumption
  <2>. QED  BY <2>1, <2>2 DEF SchedInit, PoolInit
<1>2. /\ pc[Main] = "out" /\ job[Main] = <<>> /\ copy[Main].rid = 0
  BY <1>1 DEF EngineInit, NoCopy
<1>3. NothingEvicted
  BY <1>1 DEF NothingEvicted
<1>4. WantsFit
  BY <1>1, <1>2 DEF WantsFit, Admitting, Holds
<1>5. EntriesFit
  <2>1. \A e : ~Occurs(batch, e)
    BY <1>1, EmptyHolds
  <2>. QED  BY <1>1, <1>2, <2>1 DEF EntriesFit, Batching, Decoding, Request0
<1>6. TableFits /\ CacheFits
  BY <1>1 DEF TableFits, CacheFits
<1>7. TakenFit
  <2>1. TakenBlocks = {}
    BY <1>1 DEF TakenBlocks
  <2>2. Cardinality(TakenBlocks) = 0
    BY <2>1, FS_EmptySet
  <2>3. ~LostOne
    BY <1>1 DEF LostOne
  <2>4. table[Request0] = <<>> /\ got[Main] = <<>>
    BY <1>1 DEF EngineInit, SchedInit
  <2>. QED  BY <2>2, <2>3, <2>4 DEF TakenFit
<1>. QED  BY <1>3, <1>4, <1>5, <1>6, <1>7 DEF CoverageInv

LEMMA CoverageStep ==
  ASSUME SoleRequest, SoleRequest', CoverageInv, PoolIsRoomy, MainCall
  PROVE  CoverageInv'
<1>1. EngineCall(Main) /\ NothingEvicted'
  BY MainCalls, NothingEvictedStep
<1>2. CASE Inside
  <2>1. WantsFit' /\ EntriesFit' /\ TableFits' /\ CacheFits' /\ TakenFit'
    BY <1>2, WantsFitStep, EntriesFitStep, TableFitsStep, CacheFitsStep, TakenFitStep
  <2>. QED  BY <1>1, <2>1 DEF CoverageInv
<1>3. ASSUME NEW n \in PromptLens, NEW m \in MaxNews, SubmitTokens(Main, n, m)
      PROVE  CoverageInv'
  BY <1>1, <1>3, SubmitKeeps DEF CoverageInv
<1>. QED  BY <1>2, <1>3 DEF MainCall, MainSubmit, CallStep, InStep, Inside

LEMMA CoverageFrame ==
  ASSUME CoverageInv, UNCHANGED pagedVars
  PROVE  CoverageInv'
<1>1. NothingEvicted' /\ WantsFit'
  BY DEF CoverageInv, NothingEvicted, WantsFit, Admitting, Holds, NumBlocksOf, SeqLen
<1>2. EntriesFit'
  BY DEF CoverageInv, EntriesFit, SeqLen, Batching, Decoding
<1>3. TableFits'
  BY DEF CoverageInv, TableFits, Extending, Holds, NumBlocksOf, SeqLen
<1>4. CacheFits'
  BY SameCache DEF CoverageInv, SeqLen
<1>5. TakenFit'
  BY DEF CoverageInv, TakenFit, TakenBlocks, LostOne, Pending
<1>. QED  BY <1>1, <1>2, <1>3, <1>4, <1>5 DEF CoverageInv

LEMMA CacheInvStep ==
  ASSUME PoolIsRoomy, CacheInv, [RunnerNext]_mainVars
  PROVE  CacheInv'
<1>1. RunnerInv'
  BY RunnerInvStep DEF CacheInv
<1>2. LifeInv'
  <2>1. [EngineNext]_pagedVars
    BY RunnerSteps, MainCalls, MainLeaves, MainIsThread DEF EngineCall, EngineNext
  <2>. QED  BY <2>1, LifeInvStep, MainIsThread DEF CacheInv
<1>3. SoleRequest /\ SoleRequest'
  BY <1>1, <1>2, CacheIsSole DEF CacheInv, RunnerInv, OneRequest, SoleRequest
<1>4. CoverageInv'
  <2>1. CASE MainCall
    BY <1>3, <2>1, CoverageStep DEF CacheInv
  <2>2. CASE UNCHANGED pagedVars
    BY <2>2, CoverageFrame DEF CacheInv
  <2>. QED  BY <2>1, <2>2, RunnerSteps, MainLeaves
<1>. QED  BY <1>1, <1>2, <1>4 DEF CacheInv

LEMMA CacheCovered == CacheInv => KvCoverage
<1> SUFFICES ASSUME CacheInv, pc[Main] = "attend"
             PROVE  \A p \in 0 .. copy[Main].seq - 1 :
                      ReadAt(copy[Main].table, p) = <<copy[Main].rid, p>>
  BY MainAssumption DEF KvCoverage, At
<1>1. SoleRequest /\ CoverageInv
  BY CacheIsSole DEF CacheInv
<1>2. copy[Main].rid = Request0 /\ job[Main] = <<>> /\ SeqLen(Request0) <= MaxTotalTokens
  BY <1>1 DEF CoverageInv, EntriesFit, Decoding
<1>3. /\ copy[Main].table = table[Request0] /\ copy[Main].seq = SeqLen(Request0)
      /\ table[Request0] # <<>>
  BY <1>1, <1>2, SoleParts DEF CopyFits, Decoding
<1>4. state[Request0] = "RUNNING"
  BY <1>1, <1>3, SoleParts DEF TablesFit, JobFits, Executing, Finished
<1>5. ~Pending /\ Owes
  BY <1>1, <1>2, LabelSays DEF CoverageInv, NothingEvicted, Pending, Owes
<1>6. SeqLen(Request0) \in Nat
  BY <1>1, <1>4, RunsWithBlocks DEF CoverageInv
<1>7. Covered(SeqLen(Request0))
  <2>1. Covered(SeqLen(Request0) - (IF Owes THEN 0 ELSE 1))
    BY <1>1, <1>2, <1>4, <1>5, <1>6, LimitAssumption DEF CoverageInv, CacheFits
  <2>2. SeqLen(Request0) - (IF Owes THEN 0 ELSE 1) = SeqLen(Request0)
    BY <1>5, <1>6
  <2>. QED  BY <2>1, <2>2 DEF Covered
<1>. QED  BY <1>2, <1>3, <1>7 DEF Covered

LEMMA CacheInduction ==
  ASSUME PoolIsRoomy
  PROVE  RunnerSpec => []CacheInv
<1>1. RunnerInit => CacheInv
  BY RunnerInvInit, LifeInit, CoverageInit DEF RunnerInit, CacheInv
<1>2. CacheInv /\ [RunnerNext]_mainVars => CacheInv'
  BY CacheInvStep
<1>. QED  BY <1>1, <1>2, PTL DEF RunnerSpec

\* In the paged mode every decode pass of paged_attention finds the entry of each of its
\* positions, those that the prefill pass wrote and those that the decode passes before it
\* did (KvCoverage), for every prompt, limit and batch size, in a pool with one block more
\* than the longest request needs.
THEOREM KvCoverageCorrect ==
  ASSUME PoolIsRoomy
  PROVE  RunnerSpec => []KvCoverage
  BY CacheCovered, CacheInduction, PTL

=============================================================================
