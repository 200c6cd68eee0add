--------------------------- MODULE SchedulerProofs ---------------------------
(***************************************************************************)
(* Proofs about the scheduler under its most general caller, for every     *)
(* number of threads, requests and blocks and every limit: types and the   *)
(* ownership of blocks; the queues, in which no request is lost or         *)
(* duplicated and the order is kept; the batch, which is within its limits.*)
(***************************************************************************)
EXTENDS SchedulerProps, SumLemmas, FiniteSetTheorems, SequenceTheorems, TLAPS

(* The tuples that UNCHANGED lists. *)
USE DEF schedVars, poolVars, requestVars, queueVars, localVars, allocVars

(***************************************************************************)
(* A step of the scheduler for any caller: the steps of SchedNext with no  *)
(* bound on what is reported and allocated.  The lemmas are about these,   *)
(* so that they hold of the engine's use of the scheduler as well.         *)
(***************************************************************************)
SchedStep(t) ==
  \/ \E n \in PromptLens, m \in MaxNews : Submit(t, n, m)
  \/ BeginSchedule(t) \/ ScheduleStep(t) \/ EndSchedule(t)
  \/ \E pairs \in Seq(Report) : BeginReport(t, pairs)
  \/ ReportStep(t) \/ EndReport(t)
  \/ \E r \in Rids : BeginRemove(t, r)
  \/ EndRemove(t)
  \/ FreeHeadBlock(t) \/ AllocBlock(t)
  \/ \E n \in Nat \ {0} : BeginOwnAlloc(t, n)
  \/ OwnAllocFails(t) \/ DropOwnBlocks(t)

LEMMA NextIsStep == SchedNext => \E t \in Threads : SchedStep(t)
<1>1. Reports \subseteq Seq(Report)
  BY RequestAssumption DEF Reports, SeqOf
<1>2. OwnSizes \subseteq Nat \ {0}
  BY RequestAssumption
<1>. QED  BY <1>1, <1>2 DEF SchedNext, SchedStep

-----------------------------------------------------------------------------
(* The operators of the scheduler have the types one expects. *)

LEMMA DivNat == \A a \in Nat, b \in Nat \ {0} : a \div b \in Nat
  OBVIOUS

LEMMA AddNat == \A a \in Nat, b \in Nat : a + b \in Nat
  OBVIOUS

LEMMA BlocksForNat ==
  ASSUME NEW n \in Nat
  PROVE  BlocksFor(n) \in Nat
<1>1. n + BlockSize - 1 \in Nat
  BY BlockSizeAssumption
<1>. QED  BY <1>1, DivNat, BlockSizeAssumption DEF BlocksFor

LEMMA NumBlocksNat ==
  ASSUME SchedTypeOK, NEW r \in Rids
  PROVE  SeqLen(r) \in Nat /\ NumBlocksOf(r) \in Nat
<1>0. promptLen \in [Rids -> Nat] /\ genLen \in [Rids -> Nat]
  BY DEF SchedTypeOK
<1>1. SeqLen(r) \in Nat
  BY <1>0 DEF SeqLen
<1>. QED  BY <1>1, BlocksForNat DEF NumBlocksOf

LEMMA WithoutType ==
  ASSUME NEW S, NEW s \in Seq(S), NEW e
  PROVE  Without(s, e) \in Seq(S)
<1>1. CASE Contains(s, e)
  <2> DEFINE i == CHOOSE k \in 1 .. Len(s) : s[k] = e
  <2>1. i \in 1 .. Len(s)
    BY <1>1 DEF Contains
  <2>. HIDE DEF i
  <2>2. /\ \A j \in 1 .. i - 1 : s[j] \in S
        /\ \A j \in i + 1 .. Len(s) : s[j] \in S
    BY <2>1, LenProperties, ElementOfSeq
  <2>3. SubSeq(s, 1, i - 1) \in Seq(S) /\ SubSeq(s, i + 1, Len(s)) \in Seq(S)
    BY <2>1, <2>2, SubSeqProperties, LenProperties
  <2>4. SubSeq(s, 1, i - 1) \o SubSeq(s, i + 1, Len(s)) \in Seq(S)
    BY <2>3, ConcatProperties
  <2>. QED  BY <1>1, <2>4 DEF Without, RemoveAt, i
<1>2. CASE ~Contains(s, e)
  BY <1>2 DEF Without
<1>. QED  BY <1>1, <1>2

LEMMA ReverseType ==
  ASSUME NEW S, NEW s \in Seq(S)
  PROVE  Reverse(s) \in Seq(S)
  BY DEF Reverse

\* The request a loop is at, when it has not ended.
LEMMA ScanType ==
  ASSUME SchedTypeOK, scan # <<>>
  PROVE  /\ Head(scan) \in Rids /\ Tail(scan) \in Seq(Rids)
         /\ NumBlocksOf(Head(scan)) \in Nat /\ SeqLen(Head(scan)) \in Nat
<1>1. Head(scan) \in Rids /\ Tail(scan) \in Seq(Rids)
  BY HeadTailProperties DEF SchedTypeOK
<1>. QED  BY <1>1, NumBlocksNat

LEMMA KeepWaitingType ==
  ASSUME SchedTypeOK, NEW r \in Rids, KeepWaiting(r)
  PROVE  kept' \in Seq(Rids) /\ needed' \in Nat
<1>1. NumBlocksOf(r) \in Nat
  BY NumBlocksNat
<1>2. kept \in Seq(Rids) /\ needed \in Nat
  BY DEF SchedTypeOK
<1>3. Append(kept, r) \in Seq(Rids)
  BY <1>2, AppendProperties
<1>. QED  BY <1>1, <1>2, <1>3 DEF KeepWaiting

-----------------------------------------------------------------------------
(***************************************************************************)
(* Every action keeps the types.                                           *)
(***************************************************************************)

LEMMA InitType == SchedInit => SchedTypeOK
  BY ThreadAssumption, RequestAssumption DEF SchedInit, PoolInit, SchedTypeOK, RequestStates

\* Allocation, by any thread.
LEMMA AllocType ==
  ASSUME SchedTypeOK, NEW t \in Threads,
         \/ AllocBlock(t) \/ OwnAllocFails(t) \/ DropOwnBlocks(t)
         \/ \E n \in Nat \ {0} : BeginOwnAlloc(t, n)
  PROVE  SchedTypeOK'
<1>1. CASE AllocBlock(t)
  <2>1. PICK b \in Blocks : Alloc(b) /\ got' = [got EXCEPT ![t] = Append(@, b)]
    BY <1>1 DEF AllocBlock
  <2>2. Append(got[t], b) \in Seq(Blocks)
    BY AppendProperties DEF SchedTypeOK
  <2>. QED  BY <1>1, <2>1, <2>2 DEF SchedTypeOK, AllocBlock, Alloc
<1>2. CASE OwnAllocFails(t)
  <2>1. Len(got[t]) \in Nat
    BY LenProperties DEF SchedTypeOK
  <2>. QED  BY <1>2, <2>1 DEF SchedTypeOK, OwnAllocFails
<1>3. CASE DropOwnBlocks(t)
  <2>1. <<>> \in Seq(Blocks)
    OBVIOUS
  <2>2. got' \in [Threads -> Seq(Blocks)] /\ want' \in [Threads -> Nat]
    BY <1>3, <2>1 DEF SchedTypeOK, DropOwnBlocks, EndAlloc
  <2>. QED  BY <1>3, <2>2 DEF SchedTypeOK, DropOwnBlocks
<1>4. CASE \E n \in Nat \ {0} : BeginOwnAlloc(t, n)
  <2>1. PICK n \in Nat \ {0} : BeginOwnAlloc(t, n)
    BY <1>4
  <2>2. want[t] \in Nat
    BY DEF SchedTypeOK
  <2>3. want[t] + n \in Nat
    BY <2>2
  <2>4. want' \in [Threads -> Nat]
    BY <2>1, <2>3 DEF SchedTypeOK, BeginOwnAlloc
  <2>. QED  BY <2>1, <2>4 DEF SchedTypeOK, BeginOwnAlloc
<1>. QED  BY <1>1, <1>2, <1>3, <1>4

LEMMA SubmitType ==
  ASSUME SchedTypeOK, NEW t \in Threads, NEW n \in PromptLens, NEW m \in MaxNews,
         Submit(t, n, m)
  PROVE  SchedTypeOK'
<1>1. nextId \in Rids /\ nextId + 1 \in 0 .. MaxRequests
  BY RequestAssumption DEF SchedTypeOK, Submit, Rids
<1>2. Append(waiting, nextId) \in Seq(Rids)
  BY <1>1, AppendProperties DEF SchedTypeOK
<1>. QED  BY <1>1, <1>2, RequestAssumption DEF SchedTypeOK, Submit

\* The loop over the waiting queue.
LEMMA AdmitType ==
  ASSUME SchedTypeOK, NEW t \in Threads,
         \/ BeginSchedule(t) \/ AdmitSkip(t) \/ AdmitEmpty(t) \/ AdmitBegin(t)
         \/ EndAdmit(t) \/ EndRetry(t)
  PROVE  SchedTypeOK'
<1>1. CASE BeginSchedule(t)
  BY <1>1 DEF SchedTypeOK, BeginSchedule
<1>2. CASE AdmitSkip(t)
  <2>1. Head(scan) \in Rids /\ Tail(scan) \in Seq(Rids)
    BY <1>2, ScanType DEF AdmitSkip
  <2>2. kept' \in Seq(Rids) /\ needed' \in Nat
    BY <1>2, <2>1, KeepWaitingType DEF AdmitSkip
  <2>. QED  BY <1>2, <2>1, <2>2 DEF SchedTypeOK, AdmitSkip
<1>3. CASE AdmitEmpty(t)
  <2>1. Head(scan) \in Rids /\ Tail(scan) \in Seq(Rids)
    BY <1>3, ScanType DEF AdmitEmpty
  <2>2. Append(running, Head(scan)) \in Seq(Rids)
    BY <2>1, AppendProperties DEF SchedTypeOK
  <2>. QED  BY <1>3, <2>1, <2>2 DEF SchedTypeOK, AdmitEmpty
<1>4. CASE AdmitBegin(t)
  <2>1. NumBlocksOf(Head(scan)) \in Nat
    BY <1>4, ScanType DEF AdmitBegin
  <2>. QED  BY <1>4, <2>1 DEF SchedTypeOK, AdmitBegin
<1>5. CASE EndAdmit(t)
  <2>1. Reverse(running) \in Seq(Rids)
    BY ReverseType DEF SchedTypeOK
  <2>. QED  BY <1>5, <2>1 DEF SchedTypeOK, EndAdmit
<1>6. CASE EndRetry(t)
  BY <1>6 DEF SchedTypeOK, EndRetry
<1>. QED  BY <1>1, <1>2, <1>3, <1>4, <1>5, <1>6

LEMMA EndAllocType ==
  ASSUME SchedTypeOK, NEW t \in Threads, EndAlloc(t)
  PROVE  want' \in [Threads -> Nat] /\ got' \in [Threads -> Seq(Blocks)]
<1>1. <<>> \in Seq(Blocks)
  OBVIOUS
<1>. QED  BY <1>1 DEF SchedTypeOK, EndAlloc

LEMMA AdmitCommitType ==
  ASSUME SchedTypeOK, LoopAtRequest, NEW t \in Threads, AdmitCommit(t)
  PROVE  SchedTypeOK'
<1>0. scan # <<>>
  BY LenProperties DEF SchedTypeOK, LoopAtRequest, AdmitCommit, AllocDone, AllocFails
<1>1. Head(scan) \in Rids /\ Tail(scan) \in Seq(Rids)
  BY <1>0, ScanType
<1>2. want' \in [Threads -> Nat] /\ got' \in [Threads -> Seq(Blocks)]
  BY EndAllocType DEF AdmitCommit
<1>3. Append(running, Head(scan)) \in Seq(Rids) /\ got[t] \in Seq(Blocks)
  BY <1>1, AppendProperties DEF SchedTypeOK
<1>4. /\ table' \in [Rids -> Seq(Blocks)]
      /\ state' \in [Rids -> RequestStates]
  BY <1>1, <1>3 DEF SchedTypeOK, AdmitCommit, RequestStates
<1>. QED  BY <1>1, <1>2, <1>3, <1>4 DEF SchedTypeOK, AdmitCommit

LEMMA AdmitFailType ==
  ASSUME SchedTypeOK, LoopAtRequest, NEW t \in Threads, AdmitFail(t)
  PROVE  SchedTypeOK'
<1>0. scan # <<>>
  BY LenProperties DEF SchedTypeOK, LoopAtRequest, AdmitFail, AllocDone, AllocFails
<1>1. Head(scan) \in Rids /\ Tail(scan) \in Seq(Rids)
  BY <1>0, ScanType
<1>2. want' \in [Threads -> Nat] /\ got' \in [Threads -> Seq(Blocks)]
  BY EndAllocType DEF AdmitFail
<1>3. kept' \in Seq(Rids) /\ needed' \in Nat
  BY <1>1, KeepWaitingType DEF AdmitFail
<1>. QED  BY <1>1, <1>2, <1>3 DEF SchedTypeOK, AdmitFail

\* free_request_blocks and the eviction loop.
LEMMA EvictType ==
  ASSUME SchedTypeOK, LoopAtRequest, NEW t \in Threads,
         \/ FreeHeadBlock(t) \/ EvictSkip(t) \/ EvictBegin(t) \/ EvictCommit(t)
         \/ EndEvict(t)
  PROVE  SchedTypeOK'
<1>1. CASE FreeHeadBlock(t)
  <2> DEFINE r == Head(scan)
             b == Head(table[r])
  <2>1. scan # <<>>
    BY <1>1 DEF FreeHeadBlock, LoopAtRequest, Holds
  <2>2. r \in Rids
    BY <2>1, ScanType
  <2>3. table[r] \in Seq(Blocks) /\ table[r] # <<>>
    BY <1>1, <2>2 DEF SchedTypeOK, FreeHeadBlock
  <2>4. b \in Blocks /\ Tail(table[r]) \in Seq(Blocks)
    BY <2>3, HeadTailProperties
  <2>5. refCount[b] \in Nat
    BY <2>4 DEF SchedTypeOK
  <2>. HIDE DEF r, b
  <2>6. Free(b) /\ table' = [table EXCEPT ![r] = Tail(@)]
    BY <1>1 DEF FreeHeadBlock, r, b
  <2>7. (IF LastRef(b) THEN 0 ELSE refCount[b] - 1) \in Nat
    BY <2>5 DEF LastRef
  <2>8. refCount' \in [Blocks -> Nat]
    BY <2>4, <2>6, <2>7 DEF SchedTypeOK, Free
  <2>9. isFree' \in [Blocks -> BOOLEAN]
    BY <2>4, <2>6 DEF SchedTypeOK, Free
  <2>10. table' \in [Rids -> Seq(Blocks)]
    BY <2>2, <2>4, <2>6 DEF SchedTypeOK
  <2>. QED  BY <1>1, <2>8, <2>9, <2>10 DEF SchedTypeOK, FreeHeadBlock
<1>2. CASE EvictSkip(t)
  <2>1. Tail(scan) \in Seq(Rids)
    BY <1>2, ScanType DEF EvictSkip, EvictMore
  <2>. QED  BY <1>2, <2>1 DEF SchedTypeOK, EvictSkip
<1>3. CASE EvictBegin(t)
  <2>1. Head(scan) \in Rids
    BY <1>3, ScanType DEF EvictBegin, EvictMore
  <2>. QED  BY <1>3, <2>1 DEF SchedTypeOK, EvictBegin
<1>4. CASE EvictCommit(t)
  <2> DEFINE r == Head(scan)
  <2>1. scan # <<>>
    BY <1>4 DEF EvictCommit, LoopAtRequest, Holds
  <2>2. r \in Rids /\ Tail(scan) \in Seq(Rids) /\ NumBlocksOf(r) \in Nat
    BY <2>1, ScanType
  <2>. HIDE DEF r
  <2>3. Without(running, r) \in Seq(Rids)
    BY WithoutType DEF SchedTypeOK
  <2>4. <<r>> \o waiting \in Seq(Rids)
    BY <2>2, ConcatProperties DEF SchedTypeOK
  <2>5. /\ ckpt' = [ckpt EXCEPT ![r] = <<>>]
        /\ state' = [state EXCEPT ![r] = "PREEMPTED"]
        /\ preempted' = [preempted EXCEPT ![r] = TRUE]
        /\ freed' = freed + NumBlocksOf(r)
        /\ running' = Without(running, r)
        /\ waiting' = <<r>> \o waiting
    BY <1>4 DEF EvictCommit, r
  <2>6. <<>> \in Seq(Blocks)
    OBVIOUS
  <2>7. ckpt' \in [Rids -> Seq(Blocks)]
    BY <2>2, <2>5, <2>6 DEF SchedTypeOK
  <2>8. state' \in [Rids -> RequestStates] /\ preempted' \in [Rids -> BOOLEAN]
    BY <2>2, <2>5 DEF SchedTypeOK, RequestStates
  <2>9. freed' \in Nat
    <3>1. freed \in Nat
      BY DEF SchedTypeOK
    <3>. QED  BY <2>2, <2>5, <3>1, AddNat
  <2>. QED  BY <1>4, <2>2, <2>3, <2>4, <2>5, <2>7, <2>8, <2>9 DEF SchedTypeOK, EvictCommit
<1>5. CASE EndEvict(t)
  BY <1>5 DEF SchedTypeOK, EndEvict
<1>. QED  BY <1>1, <1>2, <1>3, <1>4, <1>5

\* Phases 3 and 4.
LEMMA BatchType ==
  ASSUME SchedTypeOK, NEW t \in Threads,
         BatchInclude(t) \/ BatchExclude(t) \/ EndBatch(t)
  PROVE  SchedTypeOK'
<1>1. CASE BatchInclude(t)
  <2> DEFINE entry == [rid |-> Head(scan), prefill |-> Head(scan) \in admitted]
  <2>1. /\ Head(scan) \in Rids /\ Tail(scan) \in Seq(Rids)
        /\ SeqLen(Head(scan)) \in Nat
    BY <1>1, ScanType DEF BatchInclude
  <2>2. Append(batch, entry) \in Seq(BatchEntry)
    BY <2>1, AppendProperties DEF SchedTypeOK, BatchEntry
  <2>3. batch' \in Seq(BatchEntry)
    BY <1>1, <2>2 DEF BatchInclude
  <2>4. tokens \in Nat
    BY DEF SchedTypeOK
  <2>5. tokens + SeqLen(Head(scan)) \in Nat
    BY <2>1, <2>4, AddNat
  <2>. QED  BY <1>1, <2>1, <2>3, <2>5 DEF SchedTypeOK, BatchInclude
<1>2. CASE BatchExclude(t)
  <2>1. Tail(scan) \in Seq(Rids) /\ SeqLen(Head(scan)) \in Nat
    BY <1>2, ScanType DEF BatchExclude
  <2>2. tokens \in Nat
    BY DEF SchedTypeOK
  <2>3. tokens + SeqLen(Head(scan)) \in Nat
    BY <2>1, <2>2, AddNat
  <2>4. tokens' \in Nat
    BY <1>2, <2>2, <2>3 DEF BatchExclude
  <2>. QED  BY <1>2, <2>1, <2>4 DEF SchedTypeOK, BatchExclude
<1>3. CASE EndBatch(t)
  BY <1>3 DEF SchedTypeOK, EndBatch
<1>. QED  BY <1>1, <1>2, <1>3

LEMMA RetireType ==
  ASSUME SchedTypeOK, LoopAtRequest, NEW t \in Threads,
         RetireKeep(t) \/ RetireBegin(t) \/ RetireCommit(t) \/ EndSchedule(t)
  PROVE  SchedTypeOK'
<1>1. CASE RetireKeep(t)
  <2>1. Head(scan) \in Rids /\ Tail(scan) \in Seq(Rids)
    BY <1>1, ScanType DEF RetireKeep
  <2>2. kept' \in Seq(Rids)
    BY <1>1, <2>1, AppendProperties DEF SchedTypeOK, RetireKeep
  <2>. QED  BY <1>1, <2>1, <2>2 DEF SchedTypeOK, RetireKeep
<1>2. CASE RetireBegin(t)
  <2>1. Head(scan) \in Rids
    BY <1>2, ScanType DEF RetireBegin
  <2>2. retired' \in Seq(Rids)
    BY <1>2, <2>1, AppendProperties DEF SchedTypeOK, RetireBegin
  <2>3. state' \in [Rids -> RequestStates]
    BY <1>2, <2>1 DEF SchedTypeOK, RetireBegin, RequestStates
  <2>. QED  BY <1>2, <2>2, <2>3 DEF SchedTypeOK, RetireBegin
<1>3. CASE RetireCommit(t)
  <2>1. scan # <<>>
    BY <1>3 DEF RetireCommit, LoopAtRequest, Holds
  <2>2. Head(scan) \in Rids /\ Tail(scan) \in Seq(Rids)
    BY <2>1, ScanType
  <2>3. <<>> \in Seq(Blocks)
    OBVIOUS
  <2>4. ckpt' \in [Rids -> Seq(Blocks)]
    BY <1>3, <2>2, <2>3 DEF SchedTypeOK, RetireCommit
  <2>. QED  BY <1>3, <2>2, <2>4 DEF SchedTypeOK, RetireCommit
<1>4. CASE EndSchedule(t)
  <2>1. <<>> \in Seq(BatchEntry) /\ <<>> \in Seq(Rids)
    OBVIOUS
  <2>. QED  BY <1>4, <2>1 DEF SchedTypeOK, EndSchedule
<1>. QED  BY <1>1, <1>2, <1>3, <1>4

LEMMA ReportType ==
  ASSUME SchedTypeOK, LoopAtRequest, NEW t \in Threads,
         \/ \E pairs \in Seq(Report) : BeginReport(t, pairs)
         \/ ReportUnknown(t) \/ ReportToken(t) \/ ReportCommit(t) \/ ReportFail(t)
         \/ EndReport(t)
  PROVE  SchedTypeOK'
<1>1. CASE \E pairs \in Seq(Report) : BeginReport(t, pairs)
  <2>1. PICK pairs \in Seq(Report) : BeginReport(t, pairs)
    BY <1>1
  <2>. QED  BY <2>1 DEF SchedTypeOK, BeginReport
<1>a. ASSUME reports # <<>>
      PROVE  /\ Head(reports) \in Report /\ Tail(reports) \in Seq(Report)
             /\ Head(reports)[1] \in Rids
  <2>1. Head(reports) \in Report /\ Tail(reports) \in Seq(Report)
    BY <1>a, HeadTailProperties DEF SchedTypeOK
  <2>. QED  BY <2>1 DEF Report
<1>2. CASE ReportUnknown(t)
  BY <1>2, <1>a DEF SchedTypeOK, ReportUnknown
<1>3. CASE ReportToken(t)
  <2> DEFINE r     == Head(reports)[1]
             total == BlocksFor(SeqLen(r) + 1)
  <2>1. r \in Rids /\ Tail(reports) \in Seq(Report)
    BY <1>3, <1>a DEF ReportToken
  <2>2. SeqLen(r) + 1 \in Nat
    BY <2>1, NumBlocksNat
  <2>3. total \in Nat
    BY <2>2, BlocksForNat
  <2>. HIDE DEF r, total
  <2>4. Len(table[r]) \in Nat /\ genLen[r] + 1 \in Nat
    <3>1. table[r] \in Seq(Blocks) /\ genLen[r] \in Nat
      BY <2>1 DEF SchedTypeOK
    <3>. QED  BY <3>1, LenProperties
  <2>5. /\ genLen' = [genLen EXCEPT ![r] = @ + 1]
        /\ state' \in {[state EXCEPT ![r] = "FINISHED"], state}
        /\ \/ /\ Len(table[r]) < total
              /\ want' = [want EXCEPT ![t] = total - Len(table[r])]
              /\ reports' = reports
           \/ reports' = Tail(reports) /\ want' = want
    BY <1>3 DEF ReportToken, r, total
  <2>6. genLen' \in [Rids -> Nat] /\ state' \in [Rids -> RequestStates]
    BY <2>1, <2>4, <2>5 DEF SchedTypeOK, RequestStates
  <2>7. want' \in [Threads -> Nat] /\ reports' \in Seq(Report)
    <3>1. CASE Len(table[r]) < total
      <4>1. total - Len(table[r]) \in Nat
        BY <2>3, <2>4, <3>1
      <4>. QED  BY <2>1, <2>5, <4>1 DEF SchedTypeOK
    <3>2. CASE ~(Len(table[r]) < total)
      BY <2>1, <2>5, <3>2 DEF SchedTypeOK
    <3>. QED  BY <3>1, <3>2
  <2>. QED  BY <1>3, <2>6, <2>7 DEF SchedTypeOK, ReportToken
<1>4. CASE ReportCommit(t)
  <2>1. reports # <<>>
    BY <1>4 DEF SchedTypeOK, LoopAtRequest, ReportCommit, AllocDone
  <2>2. Head(reports)[1] \in Rids /\ Tail(reports) \in Seq(Report)
    BY <2>1, <1>a
  <2>3. table[Head(reports)[1]] \o got[t] \in Seq(Blocks)
    BY <2>2, ConcatProperties DEF SchedTypeOK
  <2>4. want' \in [Threads -> Nat] /\ got' \in [Threads -> Seq(Blocks)]
    BY <1>4, EndAllocType DEF ReportCommit
  <2>. QED  BY <1>4, <2>2, <2>3, <2>4 DEF SchedTypeOK, ReportCommit
<1>5. CASE ReportFail(t)
  <2>1. reports # <<>>
    BY <1>5, LenProperties DEF SchedTypeOK, LoopAtRequest, ReportFail, AllocFails
  <2>2. Tail(reports) \in Seq(Report)
    BY <2>1, <1>a
  <2>3. want' \in [Threads -> Nat] /\ got' \in [Threads -> Seq(Blocks)]
    BY <1>5, EndAllocType DEF ReportFail
  <2>. QED  BY <1>5, <2>2, <2>3 DEF SchedTypeOK, ReportFail
<1>6. CASE EndReport(t)
  BY <1>6 DEF SchedTypeOK, EndReport
<1>. QED  BY <1>1, <1>2, <1>3, <1>4, <1>5, <1>6

LEMMA RemoveType ==
  ASSUME SchedTypeOK, LoopAtRequest, NEW t \in Threads,
         (\E r \in Rids : BeginRemove(t, r)) \/ EndRemove(t)
  PROVE  SchedTypeOK'
<1>1. CASE \E r \in Rids : BeginRemove(t, r)
  <2>1. PICK r \in Rids : BeginRemove(t, r)
    BY <1>1
  <2>2. <<r>> \in Seq(Rids)
    OBVIOUS
  <2>. QED  BY <2>1, <2>2 DEF SchedTypeOK, BeginRemove
<1>2. CASE EndRemove(t)
  <2> DEFINE r == Head(scan)
  <2>1. r \in Rids
    BY <1>2, ScanType DEF EndRemove, LoopAtRequest, Holds
  <2>2. Without(waiting, r) \in Seq(Rids) /\ Without(running, r) \in Seq(Rids)
    BY WithoutType DEF SchedTypeOK
  <2>3. <<>> \in Seq(Blocks) /\ <<>> \in Seq(Rids)
    OBVIOUS
  <2>4. ckpt' \in [Rids -> Seq(Blocks)]
    BY <1>2, <2>1, <2>3 DEF SchedTypeOK, EndRemove
  <2>5. state' \in [Rids -> RequestStates]
    BY <1>2, <2>1 DEF SchedTypeOK, EndRemove, RequestStates
  <2>. QED  BY <1>2, <2>2, <2>3, <2>4, <2>5 DEF SchedTypeOK, EndRemove
<1>. QED  BY <1>1, <1>2

-----------------------------------------------------------------------------
(***************************************************************************)
(* Types, and the loops being where they say they are, hold for ever.      *)
(***************************************************************************)

\* One case per method: how a step of it keeps each loop at its request.
LEMMA LoopStep ==
  ASSUME SchedTypeOK, LoopAtRequest, NEW t \in Threads, SchedStep(t)
  PROVE  LoopAtRequest'
<1>. USE DEF LoopAtRequest, Admitting, Holds
<1>a. want \in [Threads -> Nat] /\ \A u \in Threads : u # NoThread
  BY ThreadAssumption DEF SchedTypeOK
<1>1. CASE \E n \in PromptLens, m \in MaxNews : Submit(t, n, m)
  BY <1>1 DEF Submit
<1>2. CASE BeginSchedule(t)
  BY <1>2 DEF BeginSchedule, Idle
<1>3. CASE \E pairs \in Seq(Report) : BeginReport(t, pairs)
  BY <1>3, <1>a DEF BeginReport, Idle
<1>4. CASE \E r \in Rids : BeginRemove(t, r)
  BY <1>4, <1>a DEF BeginRemove, Idle
<1>5. CASE \E n \in Nat \ {0} : BeginOwnAlloc(t, n)
  BY <1>5, <1>a DEF BeginOwnAlloc
<1>6. CASE AdmitSkip(t)
  BY <1>6, <1>a DEF AdmitSkip, NotAllocating
<1>7. CASE AdmitEmpty(t)
  BY <1>7, <1>a DEF AdmitEmpty, NotAllocating
<1>8. CASE AdmitBegin(t)
  BY <1>8, <1>a DEF AdmitBegin, NotAllocating
<1>9. CASE AdmitCommit(t)
  BY <1>9, <1>a DEF AdmitCommit, EndAlloc
<1>10. CASE AdmitFail(t)
  BY <1>10, <1>a DEF AdmitFail, EndAlloc
<1>11. CASE EndAdmit(t)
  BY <1>11, <1>a DEF EndAdmit, NotAllocating
<1>12. CASE EndRetry(t)
  BY <1>12, <1>a DEF EndRetry, NotAllocating
<1>13. CASE EvictSkip(t)
  BY <1>13, <1>a DEF EvictSkip, EvictMore
<1>14. CASE EvictBegin(t)
  BY <1>14, <1>a DEF EvictBegin, EvictMore
<1>15. CASE EvictCommit(t)
  BY <1>15, <1>a DEF EvictCommit
<1>16. CASE EndEvict(t)
  BY <1>16, <1>a DEF EndEvict, EvictMore
<1>17. CASE BatchInclude(t)
  BY <1>17, <1>a DEF BatchInclude
<1>18. CASE BatchExclude(t)
  BY <1>18, <1>a DEF BatchExclude
<1>19. CASE EndBatch(t)
  BY <1>19, <1>a DEF EndBatch
<1>20. CASE RetireKeep(t)
  BY <1>20, <1>a DEF RetireKeep
<1>21. CASE RetireBegin(t)
  BY <1>21, <1>a DEF RetireBegin
<1>22. CASE RetireCommit(t)
  BY <1>22, <1>a DEF RetireCommit
<1>23. CASE EndSchedule(t)
  BY <1>23, <1>a DEF EndSchedule
<1>24. CASE ReportUnknown(t)
  BY <1>24, <1>a DEF ReportUnknown, NotAllocating
<1>25. CASE ReportToken(t)
  BY <1>25, <1>a DEF ReportToken, NotAllocating
<1>26. CASE ReportCommit(t)
  BY <1>26, <1>a DEF ReportCommit, EndAlloc
<1>27. CASE ReportFail(t)
  BY <1>27, <1>a DEF ReportFail, EndAlloc
<1>28. CASE EndReport(t)
  BY <1>28, <1>a DEF EndReport
<1>29. CASE EndRemove(t)
  BY <1>29, <1>a DEF EndRemove
<1>30. CASE FreeHeadBlock(t)
  BY <1>30, <1>a DEF FreeHeadBlock
<1>31. CASE AllocBlock(t)
  BY <1>31, <1>a DEF AllocBlock
<1>32. CASE OwnAllocFails(t)
  BY <1>32, <1>a DEF OwnAllocFails
<1>33. CASE DropOwnBlocks(t)
  BY <1>33, <1>a DEF DropOwnBlocks, EndAlloc
<1>. QED  BY <1>1, <1>2, <1>3, <1>4, <1>5, <1>6, <1>7, <1>8, <1>9, <1>10, <1>11, <1>12, <1>13, <1>14, <1>15, <1>16, <1>17, <1>18, <1>19, <1>20, <1>21, <1>22, <1>23, <1>24, <1>25, <1>26, <1>27, <1>28, <1>29, <1>30, <1>31, <1>32, <1>33 DEF SchedStep, ScheduleStep, ReportStep

LEMMA StepType ==
  ASSUME SchedTypeOK, LoopAtRequest, NEW t \in Threads, SchedStep(t)
  PROVE  SchedTypeOK'
<1>2. CASE \E n \in PromptLens, m \in MaxNews : Submit(t, n, m)
  BY <1>2, SubmitType
<1>3. CASE ScheduleStep(t)
  <2>. USE <1>3 DEF ScheduleStep
  <2>1. CASE \/ AdmitSkip(t) \/ AdmitEmpty(t) \/ AdmitBegin(t)
             \/ EndAdmit(t) \/ EndRetry(t)
    BY <2>1, AdmitType
  <2>2. CASE AdmitCommit(t) \/ AdmitFail(t)
    BY <2>2, AdmitCommitType, AdmitFailType
  <2>3. CASE EvictSkip(t) \/ EvictBegin(t) \/ EvictCommit(t) \/ EndEvict(t)
    BY <2>3, EvictType
  <2>4. CASE BatchInclude(t) \/ BatchExclude(t) \/ EndBatch(t)
    BY <2>4, BatchType
  <2>5. CASE RetireKeep(t) \/ RetireBegin(t) \/ RetireCommit(t)
    BY <2>5, RetireType
  <2>. QED  BY <2>1, <2>2, <2>3, <2>4, <2>5
<1>4. CASE BeginSchedule(t) \/ EndSchedule(t) \/ FreeHeadBlock(t)
  BY <1>4, AdmitType, RetireType, EvictType
<1>5. CASE \/ \E pairs \in Seq(Report) : BeginReport(t, pairs)
           \/ ReportStep(t) \/ EndReport(t)
  BY <1>5, ReportType DEF ReportStep
<1>6. CASE (\E r \in Rids : BeginRemove(t, r)) \/ EndRemove(t)
  BY <1>6, RemoveType
<1>7. CASE \/ AllocBlock(t) \/ OwnAllocFails(t) \/ DropOwnBlocks(t)
           \/ \E n \in Nat \ {0} : BeginOwnAlloc(t, n)
  BY <1>7, AllocType
<1>. QED  BY <1>2, <1>3, <1>4, <1>5, <1>6, <1>7 DEF SchedStep

\* Neither depends on anything else.
LEMMA TypeInduction == SchedSpec => [](SchedTypeOK /\ LoopAtRequest)
<1>1. SchedInit => SchedTypeOK /\ LoopAtRequest
  BY InitType, ThreadAssumption
     DEF SchedInit, LoopAtRequest, Admitting, Holds
<1>2. SchedTypeOK /\ LoopAtRequest /\ [SchedNext]_schedVars
        => (SchedTypeOK /\ LoopAtRequest)'
  <2>1. CASE SchedNext
    BY <2>1, NextIsStep, StepType, LoopStep
  <2>2. CASE UNCHANGED schedVars
    BY <2>2 DEF SchedTypeOK, LoopAtRequest, Admitting, Holds
  <2>. QED  BY <2>1, <2>2
<1>. QED  BY <1>1, <1>2, PTL DEF SchedSpec

(***************************************************************************)
(* The scheduler's and the pool's variables keep their types: no loop of   *)
(* schedule(), report_output() or remove_request() applies a table, a      *)
(* queue or an allocation vector outside its range.                        *)
(***************************************************************************)
THEOREM TypeCorrect == SchedSpec => []SchedTypeOK
  BY TypeInduction, PTL

-----------------------------------------------------------------------------
(***************************************************************************)
(* What the sequence operations of the loops do to the blocks that occur   *)
(* in a table or in an allocation vector.                                  *)
(***************************************************************************)

LEMMA EmptyHolds == NoneTwice(<<>>) /\ \A c : ~Occurs(<<>>, c)
  BY DEF NoneTwice, Occurs

LEMMA AppendHolds ==
  ASSUME NEW S, NEW s \in Seq(S), NEW b \in S
  PROVE  /\ \A c : Occurs(Append(s, b), c) <=> Occurs(s, c) \/ c = b
         /\ NoneTwice(s) /\ ~Occurs(s, b) => NoneTwice(Append(s, b))
<1>1. /\ Len(s) \in Nat /\ Len(Append(s, b)) = Len(s) + 1
      /\ \A i \in 1 .. Len(s) : Append(s, b)[i] = s[i]
      /\ Append(s, b)[Len(s) + 1] = b
  BY AppendProperties, LenProperties
<1>2. \A i : i \in 1 .. Len(s) + 1 <=> i \in 1 .. Len(s) \/ i = Len(s) + 1
  BY <1>1
<1>. QED  BY <1>1, <1>2 DEF Occurs, NoneTwice

LEMMA TailHolds ==
  ASSUME NEW S, NEW s \in Seq(S), s # <<>>, NoneTwice(s)
  PROVE  /\ Head(s) \in S /\ Occurs(s, Head(s))
         /\ \A c : Occurs(Tail(s), c) <=> Occurs(s, c) /\ c # Head(s)
         /\ NoneTwice(Tail(s))
<1>1. /\ Len(s) \in Nat \ {0} /\ Len(Tail(s)) = Len(s) - 1
      /\ \A i \in 1 .. Len(s) - 1 : Tail(s)[i] = s[i + 1]
      /\ Head(s) = s[1] /\ Head(s) \in S
  BY HeadTailProperties, LenProperties, EmptySeq
<1>2. \A i \in 1 .. Len(s) - 1 : i + 1 \in 1 .. Len(s) /\ i + 1 # 1
  BY <1>1
<1>3. \A i \in 1 .. Len(s) : i = 1 \/ (i - 1 \in 1 .. Len(s) - 1 /\ (i - 1) + 1 = i)
  BY <1>1
<1>4. 1 \in 1 .. Len(s)
  BY <1>1
<1>5. Occurs(s, Head(s))
  BY <1>1, <1>4 DEF Occurs
<1>6. ASSUME NEW c, Occurs(Tail(s), c)
      PROVE  Occurs(s, c) /\ c # Head(s)
  <2>1. PICK i \in 1 .. Len(s) - 1 : s[i + 1] = c
    BY <1>1, <1>6 DEF Occurs
  <2>. QED  BY <1>1, <1>2, <1>4, <2>1 DEF Occurs, NoneTwice
<1>7. ASSUME NEW c, Occurs(s, c), c # Head(s)
      PROVE  Occurs(Tail(s), c)
  <2>1. PICK i \in 1 .. Len(s) : s[i] = c
    BY <1>7 DEF Occurs
  <2>2. i # 1
    BY <1>1, <1>7, <2>1
  <2>. QED  BY <1>1, <1>3, <2>1, <2>2 DEF Occurs
<1>8. NoneTwice(Tail(s))
  <2>. SUFFICES ASSUME NEW i \in 1 .. Len(s) - 1, NEW j \in 1 .. Len(s) - 1,
                       s[i + 1] = s[j + 1]
                PROVE  i = j
    BY <1>1 DEF NoneTwice
  <2>1. i + 1 = j + 1
    BY <1>2 DEF NoneTwice
  <2>. QED  BY <2>1
<1>. QED  BY <1>1, <1>5, <1>6, <1>7, <1>8

LEMMA ConcatHolds ==
  ASSUME NEW S, NEW s \in Seq(S), NEW u \in Seq(S)
  PROVE  /\ \A c : Occurs(s \o u, c) <=> Occurs(s, c) \/ Occurs(u, c)
         /\ NoneTwice(s) /\ NoneTwice(u) /\ (\A c \in S : ~(Occurs(s, c) /\ Occurs(u, c)))
              => NoneTwice(s \o u)
<1>1. /\ Len(s) \in Nat /\ Len(u) \in Nat /\ Len(s \o u) = Len(s) + Len(u)
      /\ \A i \in 1 .. Len(s) + Len(u) :
           (s \o u)[i] = IF i <= Len(s) THEN s[i] ELSE u[i - Len(s)]
  BY ConcatProperties, LenProperties
<1>2. /\ \A i \in 1 .. Len(s) : i \in 1 .. Len(s) + Len(u) /\ i <= Len(s)
      /\ \A i \in 1 .. Len(u) : /\ i + Len(s) \in 1 .. Len(s) + Len(u)
                                /\ ~(i + Len(s) <= Len(s)) /\ (i + Len(s)) - Len(s) = i
      /\ \A i \in 1 .. Len(s) + Len(u) :
           IF i <= Len(s) THEN i \in 1 .. Len(s) ELSE i - Len(s) \in 1 .. Len(u)
  BY <1>1
<1>3. \A i \in 1 .. Len(s) : (s \o u)[i] = s[i]
  BY <1>1, <1>2
<1>4. \A i \in 1 .. Len(u) : (s \o u)[i + Len(s)] = u[i]
  BY <1>1, <1>2
<1>5. \A c : Occurs(s \o u, c) <=> Occurs(s, c) \/ Occurs(u, c)
  <2>1. ASSUME NEW c, Occurs(s \o u, c)
        PROVE  Occurs(s, c) \/ Occurs(u, c)
    BY <1>1, <1>2, <2>1 DEF Occurs
  <2>2. ASSUME NEW c, Occurs(s, c)
        PROVE  Occurs(s \o u, c)
    BY <1>1, <1>2, <1>3, <2>2 DEF Occurs
  <2>3. ASSUME NEW c, Occurs(u, c)
        PROVE  Occurs(s \o u, c)
    BY <1>1, <1>2, <1>4, <2>3 DEF Occurs
  <2>. QED  BY <2>1, <2>2, <2>3
<1>6. ASSUME NoneTwice(s), NoneTwice(u),
             \A c \in S : ~(Occurs(s, c) /\ Occurs(u, c))
      PROVE  NoneTwice(s \o u)
  <2>. SUFFICES ASSUME NEW i \in 1 .. Len(s) + Len(u), NEW j \in 1 .. Len(s) + Len(u),
                       (s \o u)[i] = (s \o u)[j]
                PROVE  i = j
    BY <1>1 DEF NoneTwice
  <2>1. \A k \in 1 .. Len(s) : s[k] \in S
    BY ElementOfSeq
  <2>2. CASE i <= Len(s) /\ j <= Len(s)
    BY <1>1, <1>2, <1>6, <2>2 DEF NoneTwice
  <2>3. CASE ~(i <= Len(s)) /\ ~(j <= Len(s))
    <3>1. i - Len(s) = j - Len(s)
      BY <1>1, <1>2, <1>6, <2>3 DEF NoneTwice
    <3>. QED  BY <1>1, <3>1
  <2>4. CASE i <= Len(s) /\ ~(j <= Len(s))
    BY <1>1, <1>2, <1>6, <2>1, <2>4 DEF Occurs
  <2>5. CASE ~(i <= Len(s)) /\ j <= Len(s)
    BY <1>1, <1>2, <1>6, <2>1, <2>5 DEF Occurs
  <2>. QED  BY <2>2, <2>3, <2>4, <2>5
<1>. QED  BY <1>5, <1>6

-----------------------------------------------------------------------------
(***************************************************************************)
(* Block ownership, step by step.                                          *)
(***************************************************************************)

LEMMA OwnershipFrame ==
  ASSUME BlockOwnership, UNCHANGED <<isFree, refCount, table, got>>
  PROVE  BlockOwnership'
  BY DEF BlockOwnership, HeldIsAllocated, HeldOnce, InTable, InGot, Occurs, NoneTwice

\* A block that is handed out was free, hence in no table and no vector.
LEMMA AllocOwnership ==
  ASSUME SchedTypeOK, BlockOwnership, NEW t \in Threads, AllocBlock(t)
  PROVE  BlockOwnership'
<1>1. PICK b \in Blocks : Alloc(b) /\ got' = [got EXCEPT ![t] = Append(@, b)]
  BY DEF AllocBlock
<1>2. /\ \A r \in Rids : ~Occurs(table[r], b)
      /\ \A u \in Threads : ~Occurs(got[u], b)
  BY <1>1 DEF BlockOwnership, HeldIsAllocated, Alloc, FirstFree, InTable, InGot
<1>3. table' = table
  BY DEF AllocBlock
<1>4. got \in [Threads -> Seq(Blocks)]
  BY DEF SchedTypeOK
<1>5. \A u \in Threads : got'[u] = IF u = t THEN Append(got[t], b) ELSE got[u]
  BY <1>1, <1>4
<1>6. \A u \in Threads, c \in Blocks :
        Occurs(got'[u], c) <=> Occurs(got[u], c) \/ (u = t /\ c = b)
  BY <1>4, <1>5, AppendHolds
<1>7. \A u \in Threads : NoneTwice(got'[u])
  BY <1>2, <1>4, <1>5, AppendHolds DEF BlockOwnership, HeldOnce
<1>8. \A c \in Blocks : /\ isFree'[c] = IF c = b THEN FALSE ELSE isFree[c]
                        /\ refCount'[c] = IF c = b THEN 1 ELSE refCount[c]
  BY <1>1 DEF SchedTypeOK, Alloc
<1>9. HeldIsAllocated'
  <2>. SUFFICES ASSUME NEW c \in Blocks,
                       \/ \E r \in Rids : Occurs(table'[r], c)
                       \/ \E u \in Threads : Occurs(got'[u], c)
                PROVE  ~isFree'[c] /\ refCount'[c] = 1
    BY DEF HeldIsAllocated, InTable, InGot
  <2>1. CASE c = b
    BY <1>8, <2>1
  <2>2. CASE c # b
    <3>1. \/ \E r \in Rids : Occurs(table[r], c)
          \/ \E u \in Threads : Occurs(got[u], c)
      BY <1>3, <1>6, <2>2
    <3>2. ~isFree[c] /\ refCount[c] = 1
      BY <3>1 DEF BlockOwnership, HeldIsAllocated, InTable, InGot
    <3>. QED  BY <1>8, <2>2, <3>2
  <2>. QED  BY <2>1, <2>2
<1>10. HeldOnce'
  BY <1>2, <1>3, <1>6, <1>7 DEF BlockOwnership, HeldOnce, InTable, InGot
<1>. QED  BY <1>9, <1>10 DEF BlockOwnership

\* The block freed is held by this table only, so its one reference is the last.
LEMMA FreeOwnership ==
  ASSUME SchedTypeOK, LoopAtRequest, BlockOwnership, NEW t \in Threads, FreeHeadBlock(t)
  PROVE  BlockOwnership'
<1> DEFINE r == Head(scan)
           b == Head(table[r])
<1>1. r \in Rids
  BY ScanType DEF LoopAtRequest, FreeHeadBlock, Holds
<1>. HIDE DEF r
<1>2. /\ table[r] # <<>> /\ Free(b) /\ got' = got
      /\ table' = [table EXCEPT ![r] = Tail(@)]
  BY DEF FreeHeadBlock, r
<1>3. table \in [Rids -> Seq(Blocks)] /\ table[r] \in Seq(Blocks)
  BY <1>1 DEF SchedTypeOK
<1>4. NoneTwice(table[r])
  BY <1>1 DEF BlockOwnership, HeldOnce
<1>5. /\ b \in Blocks /\ Occurs(table[r], b)
      /\ \A c : Occurs(Tail(table[r]), c) <=> Occurs(table[r], c) /\ c # b
      /\ NoneTwice(Tail(table[r]))
  BY <1>2, <1>3, <1>4, TailHolds
<1>. HIDE DEF b
<1>6. /\ \A q \in Rids : table'[q] = IF q = r THEN Tail(table[r]) ELSE table[q]
  BY <1>2, <1>3
<1>7. \A q \in Rids, c \in Blocks :
        Occurs(table'[q], c) <=> Occurs(table[q], c) /\ ~(q = r /\ c = b)
  BY <1>5, <1>6
<1>8. /\ \A q \in Rids : Occurs(table[q], b) => q = r
      /\ \A u \in Threads : ~Occurs(got[u], b)
  BY <1>1, <1>5 DEF BlockOwnership, HeldOnce, InTable, InGot
<1>9. \A c \in Blocks : c # b => isFree'[c] = isFree[c] /\ refCount'[c] = refCount[c]
  BY <1>2, <1>5 DEF SchedTypeOK, Free
<1>10. HeldIsAllocated'
  BY <1>2, <1>7, <1>8, <1>9 DEF BlockOwnership, HeldIsAllocated, InTable, InGot
<1>11. \A q \in Rids : NoneTwice(table'[q])
  BY <1>5, <1>6 DEF BlockOwnership, HeldOnce
<1>12. HeldOnce'
  BY <1>2, <1>7, <1>11 DEF BlockOwnership, HeldOnce, InTable, InGot
<1>. QED  BY <1>10, <1>12 DEF BlockOwnership

\* A vector that is dropped takes its blocks with it.
LEMMA DropOwnership ==
  ASSUME SchedTypeOK, BlockOwnership, NEW t \in Threads, EndAlloc(t),
         UNCHANGED <<isFree, refCount, table>>
  PROVE  BlockOwnership'
<1>1. \A u \in Threads : got'[u] = IF u = t THEN <<>> ELSE got[u]
  BY DEF SchedTypeOK, EndAlloc
<1>2. \A u \in Threads, c \in Blocks : Occurs(got'[u], c) => Occurs(got[u], c)
  BY <1>1, EmptyHolds
<1>3. \A u \in Threads : NoneTwice(got'[u])
  BY <1>1, EmptyHolds DEF BlockOwnership, HeldOnce
<1>4. HeldIsAllocated'
  BY <1>2 DEF BlockOwnership, HeldIsAllocated, InTable, InGot
<1>5. HeldOnce'
  BY <1>2, <1>3 DEF BlockOwnership, HeldOnce, InTable, InGot
<1>. QED  BY <1>4, <1>5 DEF BlockOwnership

\* The blocks of a vector move into a table, in place of what it held or after it.
LEMMA MoveOwnership ==
  ASSUME SchedTypeOK, BlockOwnership, NEW t \in Threads, NEW r \in Rids, EndAlloc(t),
         UNCHANGED <<isFree, refCount>>,
         \/ table' = [table EXCEPT ![r] = got[t]]
         \/ table' = [table EXCEPT ![r] = @ \o got[t]]
  PROVE  BlockOwnership'
<1>1. table \in [Rids -> Seq(Blocks)] /\ got \in [Threads -> Seq(Blocks)]
  BY DEF SchedTypeOK
<1>2. \A u \in Threads : got'[u] = IF u = t THEN <<>> ELSE got[u]
  BY <1>1 DEF EndAlloc
<1>3. \A u \in Threads, c \in Blocks : Occurs(got'[u], c) <=> u # t /\ Occurs(got[u], c)
  BY <1>2, EmptyHolds
<1>4. \A u \in Threads : NoneTwice(got'[u])
  BY <1>2, EmptyHolds DEF BlockOwnership, HeldOnce
<1>5. \A q \in Rids : q # r => table'[q] = table[q]
  BY <1>1
<1>6. /\ \A c \in Blocks : Occurs(table'[r], c) => Occurs(table[r], c) \/ Occurs(got[t], c)
      /\ NoneTwice(table'[r])
  <2>1. NoneTwice(table[r]) /\ NoneTwice(got[t])
    BY DEF BlockOwnership, HeldOnce
  <2>2. CASE table'[r] = got[t]
    BY <2>1, <2>2
  <2>3. CASE table'[r] = table[r] \o got[t]
    <3>1. \A c \in Blocks : ~(Occurs(table[r], c) /\ Occurs(got[t], c))
      BY DEF BlockOwnership, HeldOnce, InTable, InGot
    <3>2. table[r] \in Seq(Blocks) /\ got[t] \in Seq(Blocks)
      BY <1>1
    <3>. QED  BY <2>1, <2>3, <3>1, <3>2, ConcatHolds
  <2>. QED  BY <1>1, <2>2, <2>3
<1>7. \A q \in Rids, c \in Blocks :
        Occurs(table'[q], c) => Occurs(table[q], c) \/ (q = r /\ Occurs(got[t], c))
  BY <1>5, <1>6
<1>8. HeldIsAllocated'
  BY <1>3, <1>7 DEF BlockOwnership, HeldIsAllocated, InTable, InGot
<1>9. \A q \in Rids : NoneTwice(table'[q])
  BY <1>5, <1>6 DEF BlockOwnership, HeldOnce
<1>10. HeldOnce'
  BY <1>3, <1>4, <1>7, <1>9 DEF BlockOwnership, HeldOnce, InTable, InGot
<1>. QED  BY <1>8, <1>10 DEF BlockOwnership

LEMMA OwnershipStep ==
  ASSUME SchedTypeOK, LoopAtRequest, BlockOwnership, NEW t \in Threads, SchedStep(t)
  PROVE  BlockOwnership'
<1>2. CASE AdmitCommit(t)
  <2>1. Head(scan) \in Rids
    BY <1>2, ScanType DEF SchedTypeOK, LoopAtRequest, AdmitCommit, AllocDone
  <2>. QED  BY <1>2, <2>1, MoveOwnership DEF AdmitCommit
<1>3. CASE ReportCommit(t)
  <2>1. reports # <<>>
    BY <1>3 DEF SchedTypeOK, LoopAtRequest, ReportCommit, AllocDone
  <2>2. Head(reports) \in Report
    BY <2>1, HeadTailProperties DEF SchedTypeOK
  <2>3. Head(reports)[1] \in Rids
    BY <2>2 DEF Report
  <2>. QED  BY <1>3, <2>3, MoveOwnership DEF ReportCommit
<1>4. CASE AdmitFail(t) \/ ReportFail(t) \/ DropOwnBlocks(t)
  BY <1>4, DropOwnership DEF AdmitFail, ReportFail, DropOwnBlocks
<1>5. CASE AllocBlock(t)
  BY <1>5, AllocOwnership
<1>6. CASE FreeHeadBlock(t)
  BY <1>6, FreeOwnership
<1>7. CASE ScheduleStep(t) /\ ~AdmitCommit(t) /\ ~AdmitFail(t)
  <2>1. UNCHANGED <<isFree, refCount, table, got>>
    BY <1>7 DEF ScheduleStep, AdmitSkip, AdmitEmpty, AdmitBegin, EndAdmit, EndRetry,
                EvictSkip, EvictBegin, EvictCommit, EndEvict, BatchInclude, BatchExclude,
                EndBatch, RetireKeep, RetireBegin, RetireCommit
  <2>. QED  BY <2>1, OwnershipFrame
<1>8. CASE \/ BeginSchedule(t) \/ EndSchedule(t) \/ ReportUnknown(t) \/ ReportToken(t)
           \/ EndReport(t) \/ EndRemove(t) \/ OwnAllocFails(t)
  <2>1. UNCHANGED <<isFree, refCount, table, got>>
    BY <1>8 DEF BeginSchedule, EndSchedule, ReportUnknown, ReportToken, EndReport,
                EndRemove, OwnAllocFails
  <2>. QED  BY <2>1, OwnershipFrame
<1>9. CASE \/ \E n \in PromptLens, m \in MaxNews : Submit(t, n, m)
           \/ \E pairs \in Seq(Report) : BeginReport(t, pairs)
           \/ \E r \in Rids : BeginRemove(t, r)
           \/ \E n \in Nat \ {0} : BeginOwnAlloc(t, n)
  <2>1. UNCHANGED <<isFree, refCount, table, got>>
    BY <1>9 DEF Submit, BeginReport, BeginRemove, BeginOwnAlloc
  <2>. QED  BY <2>1, OwnershipFrame
<1>. QED  BY <1>2, <1>3, <1>4, <1>5, <1>6, <1>7, <1>8, <1>9 DEF SchedStep, ReportStep

(***************************************************************************)
(* No two holders share a block, and nobody frees a block somebody else    *)
(* still uses: for every number of threads, requests and blocks, and with  *)
(* allocations outside the scheduler's mutex interleaved in any way with   *)
(* its loops.                                                              *)
(***************************************************************************)
THEOREM OwnershipCorrect == SchedSpec => []BlockOwnership
<1>1. SchedInit => BlockOwnership
  BY EmptyHolds DEF SchedInit, BlockOwnership, HeldIsAllocated, HeldOnce, InTable, InGot
<1>2. SchedTypeOK /\ LoopAtRequest /\ BlockOwnership /\ [SchedNext]_schedVars
        => BlockOwnership'
  <2>1. CASE UNCHANGED schedVars
    BY <2>1, OwnershipFrame
  <2>. QED  BY <2>1, NextIsStep, OwnershipStep
<1>. QED  BY <1>1, <1>2, TypeInduction, PTL DEF SchedSpec

-----------------------------------------------------------------------------
(***************************************************************************)
(* Sequences without repetition: what the loops' operations do to who is   *)
(* in them and in which order.                                             *)
(***************************************************************************)

LEMMA RemoveAtHolds ==
  ASSUME NEW S, NEW s \in Seq(S), NEW i \in 1 .. Len(s), NoneTwice(s)
  PROVE  LET u == RemoveAt(s, i) IN
         /\ u \in Seq(S) /\ Len(u) = Len(s) - 1
         /\ \A j \in 1 .. Len(s) - 1 : u[j] = IF j < i THEN s[j] ELSE s[j + 1]
         /\ \A c : Occurs(u, c) <=> Occurs(s, c) /\ c # s[i]
         /\ NoneTwice(u)
         /\ \A c, d : Before(u, c, d) => Before(s, c, d)
<1> DEFINE u == RemoveAt(s, i)
           a == SubSeq(s, 1, i - 1)
           b == SubSeq(s, i + 1, Len(s))
<1>1. Len(s) \in Nat /\ DOMAIN s = 1 .. Len(s) /\ \A j \in 1 .. Len(s) : s[j] \in S
  BY LenProperties, ElementOfSeq
<1>0. Len(s) \in Int /\ i \in Int /\ 1 <= i /\ i <= Len(s)
  BY <1>1
<1>2. /\ a \in Seq(S) /\ Len(a) = i - 1
      /\ \A j \in 1 .. i - 1 : a[j] = s[j]
  <2>1. /\ a \in Seq(S)
        /\ Len(a) = IF 1 <= i - 1 THEN (i - 1) - 1 + 1 ELSE 0
        /\ \A j \in 1 .. (i - 1) - 1 + 1 : a[j] = s[1 + j - 1]
    BY <1>1, SubSeqProperties
  <2>. QED  BY <1>1, <2>1
<1>3. /\ b \in Seq(S) /\ Len(b) = Len(s) - i
      /\ \A j \in 1 .. Len(s) - i : b[j] = s[i + j]
  <2>1. /\ b \in Seq(S)
        /\ Len(b) = IF i + 1 <= Len(s) THEN Len(s) - (i + 1) + 1 ELSE 0
        /\ \A j \in 1 .. Len(s) - (i + 1) + 1 : b[j] = s[(i + 1) + j - 1]
    BY <1>1, SubSeqProperties
  <2>3. Len(b) = Len(s) - i
    BY <1>0, <2>1
  <2>4. ASSUME NEW j \in 1 .. Len(s) - i
        PROVE  b[j] = s[i + j]
    <3>1. j \in 1 .. Len(s) - (i + 1) + 1 /\ (i + 1) + j - 1 = i + j
      BY <1>0
    <3>. QED  BY <2>1, <3>1
  <2>. QED  BY <2>1, <2>3, <2>4
<1>. HIDE DEF a, b
<1>4. u = a \o b
  BY DEF RemoveAt, a, b
<1>. HIDE DEF u
<1>5. /\ u \in Seq(S) /\ Len(u) = Len(s) - 1
      /\ \A j \in 1 .. Len(s) - 1 : u[j] = IF j < i THEN s[j] ELSE s[j + 1]
  <2>1. /\ u \in Seq(S) /\ Len(u) = Len(a) + Len(b)
        /\ \A j \in 1 .. Len(a) + Len(b) : u[j] = IF j <= Len(a) THEN a[j] ELSE b[j - Len(a)]
    BY <1>2, <1>3, <1>4, ConcatProperties
  <2>2. Len(a) + Len(b) = Len(s) - 1
    BY <1>0, <1>2, <1>3
  <2>3. ASSUME NEW j \in 1 .. Len(s) - 1, j < i
        PROVE  u[j] = s[j]
    <3>1. j <= Len(a) /\ j \in 1 .. i - 1
      BY <1>0, <1>2, <2>3
    <3>. QED  BY <1>2, <2>1, <2>2, <3>1
  <2>4. ASSUME NEW j \in 1 .. Len(s) - 1, ~(j < i)
        PROVE  u[j] = s[j + 1]
    <3>1. /\ ~(j <= Len(a)) /\ j - Len(a) \in 1 .. Len(s) - i
          /\ i + (j - Len(a)) = j + 1
      BY <1>0, <1>2, <2>4
    <3>. QED  BY <1>3, <2>1, <2>2, <3>1
  <2>. QED  BY <2>1, <2>2, <2>3, <2>4
<1>6. DOMAIN u = 1 .. Len(s) - 1
  BY <1>5, LenProperties
<1>7. ASSUME NEW c, Occurs(u, c)
      PROVE  Occurs(s, c) /\ c # s[i]
  <2>1. PICK j \in 1 .. Len(s) - 1 : u[j] = c
    BY <1>5, <1>7 DEF Occurs
  <2>2. PICK k \in 1 .. Len(s) : k # i /\ s[k] = c
    <3>1. CASE j < i
      BY <1>1, <1>5, <2>1, <3>1
    <3>2. CASE ~(j < i)
      <4>1. j + 1 \in 1 .. Len(s) /\ j + 1 # i /\ s[j + 1] = c
        BY <1>1, <1>5, <2>1, <3>2
      <4>. QED  BY <4>1
    <3>. QED  BY <3>1, <3>2
  <2>. QED  BY <2>2 DEF Occurs, NoneTwice
<1>8. ASSUME NEW c, Occurs(s, c), c # s[i]
      PROVE  Occurs(u, c)
  <2>1. PICK j \in 1 .. Len(s) : s[j] = c
    BY <1>8 DEF Occurs
  <2>2. CASE j < i
    <3>1. j \in 1 .. Len(s) - 1 /\ u[j] = s[j]
      BY <1>1, <1>5, <2>1, <2>2
    <3>. QED  BY <1>5, <2>1, <3>1 DEF Occurs
  <2>3. CASE j > i
    <3>1. j - 1 \in 1 .. Len(s) - 1
      BY <1>1, <2>1, <2>3
    <3>2. u[j - 1] = s[(j - 1) + 1] /\ (j - 1) + 1 = j
      BY <1>1, <1>5, <2>1, <2>3, <3>1
    <3>. QED  BY <1>5, <2>1, <3>1, <3>2 DEF Occurs
  <2>. QED  BY <1>1, <1>8, <2>1, <2>2, <2>3
<1>9. NoneTwice(u)
  BY <1>1, <1>5 DEF NoneTwice
<1>10. ASSUME NEW c, NEW d, Before(u, c, d)
       PROVE  Before(s, c, d)
  <2>1. PICK j \in 1 .. Len(s) - 1, k \in 1 .. Len(s) - 1 : j < k /\ u[j] = c /\ u[k] = d
    BY <1>6, <1>10 DEF Before
  <2> DEFINE at(m) == IF m < i THEN m ELSE m + 1
  <2>2. at(j) \in 1 .. Len(s) /\ at(k) \in 1 .. Len(s) /\ at(j) < at(k)
    BY <1>1, <2>1
  <2>3. s[at(j)] = c /\ s[at(k)] = d
    BY <1>5, <2>1
  <2>. HIDE DEF at
  <2>. QED  BY <1>1, <2>2, <2>3 DEF Before
<1>11. \A c : Occurs(u, c) <=> Occurs(s, c) /\ c # s[i]
  BY <1>7, <1>8
<1>12. \A c, d : Before(u, c, d) => Before(s, c, d)
  BY <1>10
<1>. QED  BY <1>5, <1>9, <1>11, <1>12 DEF u

LEMMA WithoutHolds ==
  ASSUME NEW S, NEW s \in Seq(S), NEW e, NoneTwice(s)
  PROVE  LET u == Without(s, e) IN
         /\ u \in Seq(S)
         /\ \A c : Occurs(u, c) <=> Occurs(s, c) /\ c # e
         /\ NoneTwice(u)
         /\ \A c, d : Before(u, c, d) => Before(s, c, d)
         /\ \A i \in 1 .. Len(s) : s[i] = e => u = RemoveAt(s, i)
<1>1. CASE Contains(s, e)
  <2>1. PICK i \in 1 .. Len(s) : s[i] = e
    BY <1>1 DEF Contains
  <2>2. \A k \in 1 .. Len(s) : s[k] = e => k = i
    BY <2>1 DEF NoneTwice
  <2>3. Without(s, e) = RemoveAt(s, i)
    BY <1>1, <2>1, <2>2 DEF Without
  <2>. QED  BY <2>1, <2>2, <2>3, RemoveAtHolds
<1>2. CASE ~Contains(s, e)
  BY <1>2 DEF Without, Contains, Occurs
<1>. QED  BY <1>1, <1>2

\* Moving the head of one sequence behind another, or dropping it.
LEMMA HeadMoves ==
  ASSUME NEW S, NEW s \in Seq(S), NEW u \in Seq(S), u # <<>>
  PROVE  /\ Append(s, Head(u)) \o Tail(u) = s \o u
         /\ s \o Tail(u) = RemoveAt(s \o u, Len(s) + 1)
         /\ Len(s) + 1 \in 1 .. Len(s \o u)
         /\ (s \o u)[Len(s) + 1] = Head(u)
<1>1. /\ Len(s) \in Nat /\ Len(u) \in Nat \ {0} /\ Head(u) \in S /\ Head(u) = u[1]
      /\ Tail(u) \in Seq(S) /\ Len(Tail(u)) = Len(u) - 1
      /\ \A j \in 1 .. Len(u) - 1 : Tail(u)[j] = u[j + 1]
  BY HeadTailProperties, LenProperties, EmptySeq
<1>2. /\ Append(s, Head(u)) \in Seq(S) /\ Len(Append(s, Head(u))) = Len(s) + 1
      /\ \A j \in 1 .. Len(s) : Append(s, Head(u))[j] = s[j]
      /\ Append(s, Head(u))[Len(s) + 1] = Head(u)
  BY <1>1, AppendProperties
<1>3. /\ s \o u \in Seq(S) /\ Len(s \o u) = Len(s) + Len(u)
      /\ \A j \in 1 .. Len(s) + Len(u) :
           (s \o u)[j] = IF j <= Len(s) THEN s[j] ELSE u[j - Len(s)]
  BY ConcatProperties
<1>4. Append(s, Head(u)) \o Tail(u) = s \o u
  <2> DEFINE v == Append(s, Head(u)) \o Tail(u)
  <2>1. /\ v \in Seq(S) /\ Len(v) = (Len(s) + 1) + (Len(u) - 1)
        /\ \A j \in 1 .. (Len(s) + 1) + (Len(u) - 1) :
             v[j] = IF j <= Len(s) + 1 THEN Append(s, Head(u))[j]
                                       ELSE Tail(u)[j - (Len(s) + 1)]
    BY <1>1, <1>2, ConcatProperties
  <2>. HIDE DEF v
  <2>2. Len(v) = Len(s \o u)
    BY <1>1, <1>3, <2>1
  <2>3. \A j \in 1 .. Len(v) : v[j] = (s \o u)[j]
    BY <1>1, <1>2, <1>3, <2>1
  <2>4. v = s \o u
    BY <1>3, <2>1, <2>2, <2>3, SeqEqual
  <2>. QED  BY <2>4 DEF v
<1>5. s \o Tail(u) = RemoveAt(s \o u, Len(s) + 1)
  <2> DEFINE z == s \o u
             v == s \o Tail(u)
             a == SubSeq(z, 1, Len(s))
             b == SubSeq(z, Len(s) + 2, Len(z))
  <2>1. \A j \in 1 .. Len(z) : z[j] \in S
    BY <1>3, ElementOfSeq
  <2>2. a = s
    <3>1. /\ a \in Seq(S) /\ Len(a) = IF 1 <= Len(s) THEN Len(s) - 1 + 1 ELSE 0
          /\ \A j \in 1 .. Len(s) - 1 + 1 : a[j] = z[1 + j - 1]
      BY <1>1, <1>3, <2>1, SubSeqProperties
    <3>2. Len(a) = Len(s) /\ \A j \in 1 .. Len(s) : a[j] = s[j]
      BY <1>1, <1>3, <3>1
    <3>. QED  BY <3>1, <3>2, SeqEqual
  <2>3. b = Tail(u)
    <3>1. /\ b \in Seq(S)
          /\ Len(b) = IF Len(s) + 2 <= Len(z) THEN Len(z) - (Len(s) + 2) + 1 ELSE 0
          /\ \A j \in 1 .. Len(z) - (Len(s) + 2) + 1 : b[j] = z[(Len(s) + 2) + j - 1]
      <4>1. \A j \in Len(s) + 2 .. Len(z) : z[j] \in S
        BY <1>1, <1>3, <2>1
      <4>2. Len(z) \in Int /\ Len(s) + 2 \in Int
        BY <1>1, <1>3
      <4>. HIDE DEF z
      <4>. QED  BY <4>1, <4>2, SubSeqProperties
    <3>2. Len(b) = Len(Tail(u)) /\ \A j \in 1 .. Len(b) : b[j] = Tail(u)[j]
      BY <1>1, <1>3, <3>1
    <3>. QED  BY <1>1, <3>1, <3>2, SeqEqual
  <2>4. (Len(s) + 1) - 1 = Len(s) /\ (Len(s) + 1) + 1 = Len(s) + 2
    BY <1>1
  <2>. HIDE DEF a, b, z
  <2>5. RemoveAt(z, Len(s) + 1) = a \o b
    BY <2>4 DEF RemoveAt, a, b
  <2>. QED  BY <2>2, <2>3, <2>5 DEF z
<1>6. Len(s) + 1 \in 1 .. Len(s \o u) /\ (s \o u)[Len(s) + 1] = Head(u)
  BY <1>1, <1>3
<1>. QED  BY <1>4, <1>5, <1>6

LEMMA ScanMoves ==
  ASSUME SchedTypeOK, scan # <<>>
  PROVE  /\ kept \o Tail(scan) = RemoveAt(kept \o scan, Len(kept) + 1)
         /\ Len(kept) + 1 \in 1 .. Len(kept \o scan)
         /\ (kept \o scan)[Len(kept) + 1] = Head(scan)
<1>1. kept \in Seq(Rids) /\ scan \in Seq(Rids)
  BY DEF SchedTypeOK
<1>. QED  BY <1>1, HeadMoves

LEMMA AppendOrder ==
  ASSUME NEW S, NEW s \in Seq(S), NEW x \in S
  PROVE  \A c, d : Before(Append(s, x), c, d) <=> Before(s, c, d) \/ (Occurs(s, c) /\ d = x)
<1>1. /\ Len(s) \in Nat /\ Len(Append(s, x)) = Len(s) + 1
      /\ DOMAIN s = 1 .. Len(s) /\ DOMAIN Append(s, x) = 1 .. Len(s) + 1
      /\ \A i \in 1 .. Len(s) : Append(s, x)[i] = s[i]
      /\ Append(s, x)[Len(s) + 1] = x
  BY AppendProperties, LenProperties
<1>2. ASSUME NEW c, NEW d, Before(Append(s, x), c, d)
      PROVE  Before(s, c, d) \/ (Occurs(s, c) /\ d = x)
  <2>1. PICK i \in 1 .. Len(s) + 1, j \in 1 .. Len(s) + 1 :
               i < j /\ Append(s, x)[i] = c /\ Append(s, x)[j] = d
    BY <1>1, <1>2 DEF Before
  <2>2. i \in 1 .. Len(s) /\ s[i] = c
    BY <1>1, <2>1
  <2>3. CASE j = Len(s) + 1
    BY <1>1, <2>1, <2>2, <2>3 DEF Occurs
  <2>4. CASE j # Len(s) + 1
    BY <1>1, <2>1, <2>2, <2>4 DEF Before
  <2>. QED  BY <2>3, <2>4
<1>3. ASSUME NEW c, NEW d, Before(s, c, d)
      PROVE  Before(Append(s, x), c, d)
  <2>1. PICK i \in 1 .. Len(s), j \in 1 .. Len(s) : i < j /\ s[i] = c /\ s[j] = d
    BY <1>1, <1>3 DEF Before
  <2>. QED  BY <1>1, <2>1 DEF Before
<1>4. ASSUME NEW c, Occurs(s, c)
      PROVE  Before(Append(s, x), c, x)
  <2>1. PICK i \in 1 .. Len(s) : s[i] = c
    BY <1>4 DEF Occurs
  <2>2. i < Len(s) + 1 /\ i \in 1 .. Len(s) + 1 /\ Len(s) + 1 \in 1 .. Len(s) + 1
    BY <1>1, <2>1
  <2>. QED  BY <1>1, <2>1, <2>2 DEF Before
<1>. QED  BY <1>2, <1>3, <1>4

LEMMA ConcatOrder ==
  ASSUME NEW S, NEW s \in Seq(S), NEW u \in Seq(S)
  PROVE  \A c, d : Before(s \o u, c, d) <=>
                     \/ Before(s, c, d) \/ Before(u, c, d)
                     \/ Occurs(s, c) /\ Occurs(u, d)
<1>1. /\ Len(s) \in Nat /\ Len(u) \in Nat
      /\ DOMAIN s = 1 .. Len(s) /\ DOMAIN u = 1 .. Len(u)
      /\ DOMAIN (s \o u) = 1 .. Len(s) + Len(u)
      /\ \A i \in 1 .. Len(s) + Len(u) :
           (s \o u)[i] = IF i <= Len(s) THEN s[i] ELSE u[i - Len(s)]
  BY ConcatProperties, LenProperties
<1>2. /\ \A i \in 1 .. Len(s) : i \in 1 .. Len(s) + Len(u) /\ (s \o u)[i] = s[i]
      /\ \A i \in 1 .. Len(u) : /\ i + Len(s) \in 1 .. Len(s) + Len(u)
                                /\ (s \o u)[i + Len(s)] = u[i]
  BY <1>1
<1>3. ASSUME NEW c, NEW d, Before(s \o u, c, d)
      PROVE  Before(s, c, d) \/ Before(u, c, d) \/ (Occurs(s, c) /\ Occurs(u, d))
  <2>1. PICK i \in 1 .. Len(s) + Len(u), j \in 1 .. Len(s) + Len(u) :
               i < j /\ (s \o u)[i] = c /\ (s \o u)[j] = d
    BY <1>1, <1>3 DEF Before
  <2>2. CASE j <= Len(s)
    <3>1. i \in 1 .. Len(s) /\ j \in 1 .. Len(s) /\ s[i] = c /\ s[j] = d
      BY <1>1, <2>1, <2>2
    <3>. QED  BY <1>1, <2>1, <3>1 DEF Before
  <2>3. CASE i <= Len(s) /\ ~(j <= Len(s))
    <3>1. i \in 1 .. Len(s) /\ j - Len(s) \in 1 .. Len(u) /\ s[i] = c /\ u[j - Len(s)] = d
      BY <1>1, <2>1, <2>3
    <3>. QED  BY <3>1 DEF Occurs
  <2>4. CASE ~(i <= Len(s))
    <3>1. /\ i - Len(s) \in 1 .. Len(u) /\ j - Len(s) \in 1 .. Len(u)
          /\ i - Len(s) < j - Len(s) /\ u[i - Len(s)] = c /\ u[j - Len(s)] = d
      BY <1>1, <2>1, <2>4
    <3>. QED  BY <1>1, <3>1 DEF Before
  <2>. QED  BY <1>1, <2>1, <2>2, <2>3, <2>4
<1>4. ASSUME NEW c, NEW d, Before(s, c, d)
      PROVE  Before(s \o u, c, d)
  <2>1. PICK i \in 1 .. Len(s), j \in 1 .. Len(s) : i < j /\ s[i] = c /\ s[j] = d
    BY <1>1, <1>4 DEF Before
  <2>. QED  BY <1>1, <1>2, <2>1 DEF Before
<1>5. ASSUME NEW c, NEW d, Before(u, c, d)
      PROVE  Before(s \o u, c, d)
  <2>1. PICK i \in 1 .. Len(u), j \in 1 .. Len(u) : i < j /\ u[i] = c /\ u[j] = d
    BY <1>1, <1>5 DEF Before
  <2>2. i + Len(s) < j + Len(s)
    BY <1>1, <2>1
  <2>. QED  BY <1>1, <1>2, <2>1, <2>2 DEF Before
<1>6. ASSUME NEW c, NEW d, Occurs(s, c), Occurs(u, d)
      PROVE  Before(s \o u, c, d)
  <2>1. PICK i \in 1 .. Len(s), j \in 1 .. Len(u) : s[i] = c /\ u[j] = d
    BY <1>6 DEF Occurs
  <2>2. i < j + Len(s)
    BY <1>1, <2>1
  <2>. QED  BY <1>1, <1>2, <2>1, <2>2 DEF Before
<1>. QED  BY <1>3, <1>4, <1>5, <1>6

\* In a sequence without repetition two elements have one order.
LEMMA OneOrder ==
  ASSUME NEW S, NEW s \in Seq(S), NoneTwice(s)
  PROVE  \A c, d : Before(s, c, d) =>
                     /\ Occurs(s, c) /\ Occurs(s, d) /\ c # d
                     /\ ~Before(s, d, c)
<1>1. Len(s) \in Nat /\ DOMAIN s = 1 .. Len(s)
  BY LenProperties
<1>2. SUFFICES ASSUME NEW c, NEW d, Before(s, c, d)
      PROVE  Occurs(s, c) /\ Occurs(s, d) /\ c # d /\ ~Before(s, d, c)
  OBVIOUS
<1>3. PICK i \in 1 .. Len(s), j \in 1 .. Len(s) : i < j /\ s[i] = c /\ s[j] = d
  BY <1>1, <1>2 DEF Before
<1>4. Occurs(s, c) /\ Occurs(s, d) /\ c # d
  BY <1>1, <1>3 DEF Occurs, NoneTwice
<1>5. ASSUME NEW k \in 1 .. Len(s), NEW l \in 1 .. Len(s), k < l, s[k] = d, s[l] = c
      PROVE  FALSE
  <2>1. k = j /\ l = i
    BY <1>3, <1>5 DEF NoneTwice
  <2>. QED  BY <1>1, <1>3, <1>5, <2>1
<1>. QED  BY <1>1, <1>4, <1>5 DEF Before

LEMMA EmptyOrder == \A c, d : ~Before(<<>>, c, d)
  BY DEF Before

-----------------------------------------------------------------------------
(***************************************************************************)
(* The inductive invariant.                                                *)
(***************************************************************************)
WaitingNow == IF phase \in {"admit", "retry"} THEN kept \o scan ELSE waiting
RunningNow == IF phase \in {"retire", "retireFree"} THEN kept \o scan ELSE running

InOneQueue ==
  /\ NoneTwice(WaitingNow) /\ NoneTwice(RunningNow)
  /\ \A r \in Rids : ~(Occurs(WaitingNow, r) /\ Occurs(RunningNow, r))
  /\ \A r \in Rids : Occurs(WaitingNow, r) \/ Occurs(RunningNow, r) => r \in known
  /\ \A r \in known : state[r] # "FINISHED" =>
                        Occurs(WaitingNow, r) \/ Occurs(RunningNow, r)

InOrder ==
  /\ NoneTwice(waiting) /\ NoneTwice(running)
  /\ \A r, q \in Rids : /\ Before(WaitingNow, r, q) => Before(waiting, r, q)
                        /\ Before(RunningNow, r, q) => Before(running, r, q)

StatesFit ==
  /\ \A r \in known : r < nextId
  /\ \A r \in Rids : r >= nextId => state[r] = "WAITING"
  /\ \A r \in Rids : state[r] \in {"RUNNING", "PREEMPTED"} => SeqLen(r) > 0
  /\ \A r \in Rids : state[r] = "PREEMPTED" => ~Occurs(RunningNow, r)

LocksFit ==
  /\ lock = NoThread <=> phase = "idle"
  /\ phase \notin {"admit", "retry", "retire", "retireFree"} => kept = <<>>

FreeFits ==
  /\ phase = "retireFree" => state[Head(scan)] = "FINISHED"
  /\ phase = "evictFree"  => state[Head(scan)] = "RUNNING"
  /\ phase = "removeFree" => Head(scan) \in known

AllocFits == \A t \in Threads : Admitting(t) /\ want[t] > 0 => SeqLen(Head(scan)) > 0

EvictFits ==
  phase \in {"evict", "evictFree"} =>
    /\ Len(scan) <= Len(running)
    /\ \A i \in 1 .. Len(scan) : scan[i] = running[Len(scan) + 1 - i]
    /\ \A j \in 1 .. Len(running) : j > Len(scan) => state[running[j]] # "RUNNING"

QueueInv ==
  /\ InOneQueue /\ InOrder /\ StatesFit
  /\ LocksFit /\ FreeFits /\ AllocFits /\ EvictFits

LEMMA NowType ==
  ASSUME SchedTypeOK
  PROVE  WaitingNow \in Seq(Rids) /\ RunningNow \in Seq(Rids)
<1>1. kept \in Seq(Rids) /\ scan \in Seq(Rids) /\ waiting \in Seq(Rids) /\ running \in Seq(Rids)
  BY DEF SchedTypeOK
<1>2. kept \o scan \in Seq(Rids)
  BY <1>1, ConcatProperties
<1>. QED  BY <1>1, <1>2 DEF WaitingNow, RunningNow

\* What the steps about blocks and reported tokens leave alone.
QuietStep(t) ==
  \/ AdmitBegin(t) \/ FreeHeadBlock(t) \/ AllocBlock(t)
  \/ ReportUnknown(t) \/ ReportToken(t) \/ ReportCommit(t) \/ ReportFail(t)
  \/ \E n \in Nat \ {0} : BeginOwnAlloc(t, n)
  \/ OwnAllocFails(t) \/ DropOwnBlocks(t)

LEMMA QuietLeaves ==
  ASSUME NEW t \in Threads, QuietStep(t)
  PROVE  /\ UNCHANGED <<nextId, known, promptLen, waiting, running, lock, phase, scan, kept>>
         /\ ReportToken(t) \/ UNCHANGED <<state, genLen>>
  BY DEF QuietStep, AdmitBegin, FreeHeadBlock, AllocBlock, ReportUnknown, ReportToken,
         ReportCommit, ReportFail, BeginOwnAlloc, OwnAllocFails, DropOwnBlocks

LEMMA LocksStep ==
  ASSUME LocksFit, NEW t \in Threads, SchedStep(t)
  PROVE  LocksFit'
<1>. USE ThreadAssumption DEF LocksFit
<1>1. CASE QuietStep(t)
  BY <1>1, QuietLeaves
<1>2. CASE \E n \in PromptLens, m \in MaxNews : Submit(t, n, m)
  BY <1>2 DEF Submit, Holds, Admitting
<1>3. CASE BeginSchedule(t)
  BY <1>3 DEF BeginSchedule, Holds, Admitting
<1>4. CASE \E pairs \in Seq(Report) : BeginReport(t, pairs)
  BY <1>4 DEF BeginReport, Holds, Admitting
<1>5. CASE \E r \in Rids : BeginRemove(t, r)
  BY <1>5 DEF BeginRemove, Holds, Admitting
<1>6. CASE AdmitSkip(t)
  BY <1>6 DEF AdmitSkip, Holds, Admitting
<1>7. CASE AdmitEmpty(t)
  BY <1>7 DEF AdmitEmpty, Holds, Admitting
<1>8. CASE AdmitCommit(t)
  BY <1>8 DEF AdmitCommit, Holds, Admitting
<1>9. CASE AdmitFail(t)
  BY <1>9 DEF AdmitFail, Holds, Admitting
<1>10. CASE EndAdmit(t)
  BY <1>10 DEF EndAdmit, Holds, Admitting
<1>11. CASE EndRetry(t)
  BY <1>11 DEF EndRetry, Holds, Admitting
<1>12. CASE EvictSkip(t)
  BY <1>12 DEF EvictSkip, Holds, Admitting
<1>13. CASE EvictBegin(t)
  BY <1>13 DEF EvictBegin, Holds, Admitting
<1>14. CASE EvictCommit(t)
  BY <1>14 DEF EvictCommit, Holds, Admitting
<1>15. CASE EndEvict(t)
  BY <1>15 DEF EndEvict, Holds, Admitting
<1>16. CASE BatchInclude(t)
  BY <1>16 DEF BatchInclude, Holds, Admitting
<1>17. CASE BatchExclude(t)
  BY <1>17 DEF BatchExclude, Holds, Admitting
<1>18. CASE EndBatch(t)
  BY <1>18 DEF EndBatch, Holds, Admitting
<1>19. CASE RetireKeep(t)
  BY <1>19 DEF RetireKeep, Holds, Admitting
<1>20. CASE RetireBegin(t)
  BY <1>20 DEF RetireBegin, Holds, Admitting
<1>21. CASE RetireCommit(t)
  BY <1>21 DEF RetireCommit, Holds, Admitting
<1>22. CASE EndSchedule(t)
  BY <1>22 DEF EndSchedule, Holds, Admitting
<1>23. CASE EndReport(t)
  BY <1>23 DEF EndReport, Holds, Admitting
<1>24. CASE EndRemove(t)
  BY <1>24 DEF EndRemove, Holds, Admitting
<1>. QED  BY <1>1, <1>2, <1>3, <1>4, <1>5, <1>6, <1>7, <1>8, <1>9, <1>10, <1>11, <1>12, <1>13, <1>14, <1>15, <1>16, <1>17, <1>18, <1>19, <1>20, <1>21, <1>22, <1>23, <1>24 DEF SchedStep, ScheduleStep, ReportStep, QuietStep

LEMMA FreeFitsStep ==
  ASSUME LocksFit, FreeFits, SchedTypeOK, LoopAtRequest, NEW t \in Threads, SchedStep(t)
  PROVE  FreeFits'
<1>. USE ThreadAssumption DEF FreeFits
<1>1. CASE QuietStep(t)
  BY <1>1, QuietLeaves DEF ReportToken, Holds
<1>2. CASE \E n \in PromptLens, m \in MaxNews : Submit(t, n, m)
  BY <1>2 DEF Submit, LocksFit
<1>3. CASE BeginSchedule(t)
  BY <1>3 DEF BeginSchedule, Holds, Admitting
<1>4. CASE \E pairs \in Seq(Report) : BeginReport(t, pairs)
  BY <1>4 DEF BeginReport, Holds, Admitting
<1>5. CASE \E r \in Rids : BeginRemove(t, r)
  BY <1>5 DEF BeginRemove, Idle, LocksFit
<1>6. CASE AdmitSkip(t)
  BY <1>6 DEF AdmitSkip, Holds, Admitting
<1>7. CASE AdmitEmpty(t)
  BY <1>7 DEF AdmitEmpty, Holds, Admitting
<1>8. CASE AdmitCommit(t)
  BY <1>8 DEF AdmitCommit, Holds, Admitting
<1>9. CASE AdmitFail(t)
  BY <1>9 DEF AdmitFail, Holds, Admitting
<1>10. CASE EndAdmit(t)
  BY <1>10 DEF EndAdmit, Holds, Admitting
<1>11. CASE EndRetry(t)
  BY <1>11 DEF EndRetry, Holds, Admitting
<1>12. CASE EvictSkip(t)
  BY <1>12 DEF EvictSkip, Holds, Admitting
<1>13. CASE EvictBegin(t)
  BY <1>13 DEF EvictBegin, Evictable, Holds, Admitting
<1>14. CASE EvictCommit(t)
  BY <1>14 DEF EvictCommit, Holds, Admitting
<1>15. CASE EndEvict(t)
  BY <1>15 DEF EndEvict, Holds, Admitting
<1>16. CASE BatchInclude(t)
  BY <1>16 DEF BatchInclude, Holds, Admitting
<1>17. CASE BatchExclude(t)
  BY <1>17 DEF BatchExclude, Holds, Admitting
<1>18. CASE EndBatch(t)
  BY <1>18 DEF EndBatch, Holds, Admitting
<1>19. CASE RetireKeep(t)
  BY <1>19 DEF RetireKeep, Holds, Admitting
<1>20. CASE RetireBegin(t)
  <2>1. Head(scan) \in Rids /\ state \in [Rids -> RequestStates]
    BY <1>20, ScanType DEF RetireBegin, SchedTypeOK
  <2>. QED  BY <1>20, <2>1 DEF RetireBegin
<1>21. CASE RetireCommit(t)
  BY <1>21 DEF RetireCommit, Holds, Admitting
<1>22. CASE EndSchedule(t)
  BY <1>22 DEF EndSchedule, Holds, Admitting
<1>23. CASE EndReport(t)
  BY <1>23 DEF EndReport, Holds, Admitting
<1>24. CASE EndRemove(t)
  BY <1>24 DEF EndRemove, Holds, Admitting
<1>. QED  BY <1>1, <1>2, <1>3, <1>4, <1>5, <1>6, <1>7, <1>8, <1>9, <1>10, <1>11,
             <1>12, <1>13, <1>14, <1>15, <1>16, <1>17, <1>18, <1>19, <1>20, <1>21,
             <1>22, <1>23, <1>24
          DEF SchedStep, ScheduleStep, ReportStep, QuietStep

\* An empty sequence needs no block.
LEMMA BlocksPositive ==
  ASSUME SchedTypeOK, NEW r \in Rids, NumBlocksOf(r) > 0
  PROVE  SeqLen(r) > 0
<1>1. SeqLen(r) \in Nat
  BY NumBlocksNat
<1>2. BlocksFor(0) = 0
  BY BlockSizeAssumption DEF BlocksFor
<1>. QED  BY <1>1, <1>2 DEF NumBlocksOf

LEMMA AllocStep ==
  ASSUME LocksFit, AllocFits, SchedTypeOK, LoopAtRequest, NEW t \in Threads, SchedStep(t)
  PROVE  AllocFits'
<1>. USE ThreadAssumption DEF AllocFits, Holds, Admitting, SeqLen
<1>a. want \in [Threads -> Nat]
  BY DEF SchedTypeOK
<1>1. CASE AdmitBegin(t)
  <2>1. SeqLen(Head(scan)) > 0
    BY <1>1, ScanType, BlocksPositive DEF AdmitBegin
  <2>. QED  BY <1>1, <1>a, <2>1 DEF AdmitBegin
<1>2. CASE FreeHeadBlock(t)
  BY <1>2, <1>a DEF FreeHeadBlock, NotAllocating, EndAlloc, Idle
<1>3. CASE AllocBlock(t)
  BY <1>3, <1>a DEF AllocBlock, NotAllocating, EndAlloc, Idle
<1>4. CASE ReportUnknown(t)
  BY <1>4, <1>a DEF ReportUnknown, NotAllocating, EndAlloc, Idle
<1>5. CASE ReportToken(t)
  BY <1>5, <1>a DEF ReportToken, NotAllocating, EndAlloc, Idle
<1>6. CASE ReportCommit(t)
  BY <1>6, <1>a DEF ReportCommit, NotAllocating, EndAlloc, Idle
<1>7. CASE ReportFail(t)
  BY <1>7, <1>a DEF ReportFail, NotAllocating, EndAlloc, Idle
<1>8. CASE \E n \in Nat \ {0} : BeginOwnAlloc(t, n)
  BY <1>8, <1>a DEF BeginOwnAlloc, NotAllocating, EndAlloc, Idle
<1>9. CASE OwnAllocFails(t)
  BY <1>9, <1>a DEF OwnAllocFails, NotAllocating, EndAlloc, Idle
<1>10. CASE DropOwnBlocks(t)
  BY <1>10, <1>a DEF DropOwnBlocks, NotAllocating, EndAlloc, Idle
<1>11. CASE \E n \in PromptLens, m \in MaxNews : Submit(t, n, m)
  BY <1>11, <1>a DEF Submit, NotAllocating, EndAlloc, Idle
<1>12. CASE BeginSchedule(t)
  BY <1>12, <1>a DEF BeginSchedule, NotAllocating, EndAlloc, Idle
<1>13. CASE \E pairs \in Seq(Report) : BeginReport(t, pairs)
  BY <1>13, <1>a DEF BeginReport, NotAllocating, EndAlloc, Idle
<1>14. CASE \E r \in Rids : BeginRemove(t, r)
  BY <1>14, <1>a DEF BeginRemove, NotAllocating, EndAlloc, Idle
<1>15. CASE AdmitSkip(t)
  BY <1>15, <1>a DEF AdmitSkip, NotAllocating, EndAlloc, Idle
<1>16. CASE AdmitEmpty(t)
  BY <1>16, <1>a DEF AdmitEmpty, NotAllocating, EndAlloc, Idle
<1>17. CASE AdmitCommit(t)
  BY <1>17, <1>a DEF AdmitCommit, NotAllocating, EndAlloc, Idle
<1>18. CASE AdmitFail(t)
  BY <1>18, <1>a DEF AdmitFail, NotAllocating, EndAlloc, Idle
<1>19. CASE EndAdmit(t)
  BY <1>19, <1>a DEF EndAdmit, NotAllocating, EndAlloc, Idle
<1>20. CASE EndRetry(t)
  BY <1>20, <1>a DEF EndRetry, NotAllocating, EndAlloc, Idle
<1>21. CASE EvictSkip(t)
  BY <1>21, <1>a DEF EvictSkip, NotAllocating, EndAlloc, Idle
<1>22. CASE EvictBegin(t)
  BY <1>22, <1>a DEF EvictBegin, NotAllocating, EndAlloc, Idle
<1>23. CASE EvictCommit(t)
  BY <1>23, <1>a DEF EvictCommit, NotAllocating, EndAlloc, Idle
<1>24. CASE EndEvict(t)
  BY <1>24, <1>a DEF EndEvict, LoopAtRequest
<1>25. CASE BatchInclude(t)
  BY <1>25, <1>a DEF BatchInclude, NotAllocating, EndAlloc, Idle
<1>26. CASE BatchExclude(t)
  BY <1>26, <1>a DEF BatchExclude, NotAllocating, EndAlloc, Idle
<1>27. CASE EndBatch(t)
  BY <1>27, <1>a DEF EndBatch, NotAllocating, EndAlloc, Idle
<1>28. CASE RetireKeep(t)
  BY <1>28, <1>a DEF RetireKeep, NotAllocating, EndAlloc, Idle
<1>29. CASE RetireBegin(t)
  BY <1>29, <1>a DEF RetireBegin, NotAllocating, EndAlloc, Idle
<1>30. CASE RetireCommit(t)
  BY <1>30, <1>a DEF RetireCommit, NotAllocating, EndAlloc, Idle
<1>31. CASE EndSchedule(t)
  BY <1>31, <1>a DEF EndSchedule, NotAllocating, EndAlloc, Idle
<1>32. CASE EndReport(t)
  BY <1>32, <1>a DEF EndReport, NotAllocating, EndAlloc, Idle
<1>33. CASE EndRemove(t)
  BY <1>33, <1>a DEF EndRemove, NotAllocating, EndAlloc, Idle
<1>. QED  BY <1>1, <1>2, <1>3, <1>4, <1>5, <1>6, <1>7, <1>8, <1>9, <1>10, <1>11,
             <1>12, <1>13, <1>14, <1>15, <1>16, <1>17, <1>18, <1>19, <1>20, <1>21,
             <1>22, <1>23, <1>24, <1>25, <1>26, <1>27, <1>28, <1>29, <1>30, <1>31,
             <1>32, <1>33
          DEF SchedStep, ScheduleStep, ReportStep, QuietStep


-----------------------------------------------------------------------------
(* What each step does to WaitingNow and RunningNow. *)

\* The request a loop is at is in the queue the loop goes over.
LEMMA HeadIsQueued ==
  ASSUME SchedTypeOK, LocksFit, scan # <<>>
  PROVE  /\ phase \in {"admit", "retry"} => Occurs(WaitingNow, Head(scan))
         /\ phase \in {"retire", "retireFree"} => Occurs(RunningNow, Head(scan))
<1>1. kept \in Seq(Rids) /\ scan \in Seq(Rids)
  BY DEF SchedTypeOK
<1>2. Occurs(kept \o scan, Head(scan))
  BY <1>1, HeadMoves DEF Occurs
<1>. QED  BY <1>2 DEF WaitingNow, RunningNow

\* A sequence to which nothing is left to add.
LEMMA NothingLeft ==
  ASSUME SchedTypeOK
  PROVE  /\ scan = <<>> => kept \o scan = kept
         /\ kept = <<>> => kept \o scan = scan
         /\ <<>> \o waiting = waiting /\ <<>> \o running = running
  BY ConcatEmptySeq DEF SchedTypeOK

\* The steps that move a request between queues, take one in or drop one.
MovingStep(t) ==
  \/ \E n \in PromptLens, m \in MaxNews : Submit(t, n, m)
  \/ AdmitEmpty(t) \/ AdmitCommit(t) \/ EvictCommit(t) \/ RetireCommit(t) \/ EndRemove(t)

LEMMA StillStep ==
  ASSUME SchedTypeOK, LoopAtRequest, LocksFit, InOneQueue,
         NEW t \in Threads, SchedStep(t), ~MovingStep(t)
  PROVE  UNCHANGED <<WaitingNow, RunningNow, known, nextId>>
<1>. USE DEF WaitingNow, RunningNow
<1>a. ASSUME Admitting(t), scan # <<>>, KeepWaiting(Head(scan)), scan' = Tail(scan),
             UNCHANGED <<known, phase, waiting, running>>
      PROVE  UNCHANGED <<WaitingNow, RunningNow>>
  <2>1. Head(scan) \in known
    BY <1>a, HeadIsQueued, ScanType DEF InOneQueue, Admitting, Holds
  <2>2. kept' \o scan' = kept \o scan
    BY <1>a, <2>1, HeadMoves DEF KeepWaiting, SchedTypeOK
  <2>. QED  BY <1>a, <2>2 DEF Admitting, Holds
<1>1. CASE QuietStep(t)
  BY <1>1, QuietLeaves
<1>2. CASE \E n \in PromptLens, m \in MaxNews : Submit(t, n, m)
  BY <1>2 DEF MovingStep
<1>3. CASE BeginSchedule(t)
  BY <1>3, NothingLeft DEF BeginSchedule, LocksFit, Holds, Admitting
<1>4. CASE \E pairs \in Seq(Report) : BeginReport(t, pairs)
  BY <1>4, NothingLeft DEF BeginReport, LocksFit, Holds, Admitting
<1>5. CASE \E r \in Rids : BeginRemove(t, r)
  BY <1>5, NothingLeft DEF BeginRemove, LocksFit, Holds, Admitting
<1>6. CASE AdmitSkip(t)
  BY <1>6, <1>a DEF AdmitSkip
<1>7. CASE AdmitEmpty(t)
  BY <1>7 DEF MovingStep
<1>8. CASE AdmitCommit(t)
  BY <1>8 DEF MovingStep
<1>9. CASE AdmitFail(t)
  <2>1. scan # <<>>
    BY <1>9, LenProperties DEF SchedTypeOK, LoopAtRequest, AdmitFail, AllocFails
  <2>. QED  BY <1>9, <1>a, <2>1 DEF AdmitFail
<1>10. CASE EndAdmit(t)
  BY <1>10, NothingLeft DEF EndAdmit, LocksFit, Holds, Admitting
<1>11. CASE EndRetry(t)
  BY <1>11, NothingLeft DEF EndRetry, LocksFit, Holds, Admitting
<1>12. CASE EvictSkip(t)
  BY <1>12, NothingLeft DEF EvictSkip, LocksFit, Holds, Admitting
<1>13. CASE EvictBegin(t)
  BY <1>13, NothingLeft DEF EvictBegin, LocksFit, Holds, Admitting
<1>14. CASE EvictCommit(t)
  BY <1>14 DEF MovingStep
<1>15. CASE EndEvict(t)
  BY <1>15, NothingLeft DEF EndEvict, LocksFit, Holds, Admitting
<1>16. CASE BatchInclude(t)
  BY <1>16, NothingLeft DEF BatchInclude, LocksFit, Holds, Admitting
<1>17. CASE BatchExclude(t)
  BY <1>17, NothingLeft DEF BatchExclude, LocksFit, Holds, Admitting
<1>18. CASE EndBatch(t)
  BY <1>18, NothingLeft DEF EndBatch, LocksFit, Holds, Admitting
<1>19. CASE RetireKeep(t)
  <2>1. Head(scan) \in known
    BY <1>19, HeadIsQueued, ScanType DEF InOneQueue, RetireKeep, Holds
  <2>2. kept' \o scan' = kept \o scan
    BY <1>19, <2>1, HeadMoves DEF RetireKeep, SchedTypeOK
  <2>. QED  BY <1>19, <2>2 DEF RetireKeep, Holds
<1>20. CASE RetireBegin(t)
  BY <1>20, NothingLeft DEF RetireBegin, LocksFit, Holds, Admitting
<1>21. CASE RetireCommit(t)
  BY <1>21 DEF MovingStep
<1>22. CASE EndSchedule(t)
  BY <1>22, NothingLeft DEF EndSchedule, LocksFit, Holds, Admitting
<1>23. CASE EndReport(t)
  BY <1>23, NothingLeft DEF EndReport, LocksFit, Holds, Admitting
<1>24. CASE EndRemove(t)
  BY <1>24 DEF MovingStep
<1>. QED  BY <1>1, <1>2, <1>3, <1>4, <1>5, <1>6, <1>7, <1>8, <1>9, <1>10, <1>11,
             <1>12, <1>13, <1>14, <1>15, <1>16, <1>17, <1>18, <1>19, <1>20, <1>21,
             <1>22, <1>23, <1>24
          DEF SchedStep, ScheduleStep, ReportStep, QuietStep

LEMMA SubmitMoves ==
  ASSUME LocksFit, NEW t \in Threads, NEW n \in PromptLens, NEW m \in MaxNews,
         Submit(t, n, m)
  PROVE  /\ WaitingNow' = Append(WaitingNow, nextId) /\ RunningNow' = RunningNow
         /\ WaitingNow = waiting /\ RunningNow = running
         /\ nextId' = nextId + 1 /\ known' = known \cup {nextId} /\ state' = state
  BY DEF Submit, LocksFit, WaitingNow, RunningNow

LEMMA AdmitMoves ==
  ASSUME SchedTypeOK, LoopAtRequest, NEW t \in Threads, AdmitEmpty(t) \/ AdmitCommit(t)
  PROVE  /\ WaitingNow = kept \o scan /\ WaitingNow' = kept \o Tail(scan)
         /\ RunningNow' = Append(RunningNow, Head(scan))
         /\ scan # <<>> /\ Head(scan) \in Rids
         /\ waiting' = waiting /\ running' = Append(running, Head(scan)) /\ RunningNow = running
         /\ \A r \in Rids : r # Head(scan) => state'[r] = state[r]
         /\ UNCHANGED <<known, nextId, promptLen, genLen>>
<1>1. scan # <<>>
  BY DEF SchedTypeOK, LoopAtRequest, AdmitEmpty, AdmitCommit, AllocDone
<1>2. Head(scan) \in Rids
  BY <1>1, ScanType
<1>3. \A r \in Rids : r # Head(scan) => state'[r] = state[r]
  BY <1>2 DEF AdmitEmpty, AdmitCommit, SchedTypeOK
<1>. QED  BY <1>1, <1>2, <1>3
          DEF AdmitEmpty, AdmitCommit, Admitting, Holds, WaitingNow, RunningNow

LEMMA EvictMoves ==
  ASSUME SchedTypeOK, LoopAtRequest, NEW t \in Threads, EvictCommit(t)
  PROVE  /\ WaitingNow = waiting /\ WaitingNow' = <<Head(scan)>> \o waiting
         /\ RunningNow = running /\ RunningNow' = Without(running, Head(scan))
         /\ waiting' = WaitingNow' /\ running' = RunningNow'
         /\ scan # <<>> /\ Head(scan) \in Rids
         /\ state' = [state EXCEPT ![Head(scan)] = "PREEMPTED"]
         /\ UNCHANGED <<known, nextId, promptLen, genLen>>
<1>1. scan # <<>>
  BY DEF LoopAtRequest, EvictCommit, Holds
<1>2. Head(scan) \in Rids
  BY <1>1, ScanType
<1>. QED  BY <1>1, <1>2 DEF EvictCommit, Holds, WaitingNow, RunningNow

LEMMA RetireMoves ==
  ASSUME SchedTypeOK, LoopAtRequest, NEW t \in Threads, RetireCommit(t)
  PROVE  /\ WaitingNow' = WaitingNow
         /\ RunningNow = kept \o scan /\ RunningNow' = kept \o Tail(scan)
         /\ scan # <<>> /\ Head(scan) \in Rids /\ phase = "retireFree"
         /\ UNCHANGED <<known, nextId, state, promptLen, genLen, waiting, running>>
<1>1. scan # <<>>
  BY DEF LoopAtRequest, RetireCommit, Holds
<1>2. Head(scan) \in Rids
  BY <1>1, ScanType
<1>. QED  BY <1>1, <1>2 DEF RetireCommit, Holds, WaitingNow, RunningNow

LEMMA RemoveMoves ==
  ASSUME SchedTypeOK, LoopAtRequest, NEW t \in Threads, EndRemove(t)
  PROVE  /\ WaitingNow = waiting /\ WaitingNow' = Without(waiting, Head(scan))
         /\ RunningNow = running /\ RunningNow' = Without(running, Head(scan))
         /\ waiting' = WaitingNow' /\ running' = RunningNow'
         /\ Head(scan) \in Rids
         /\ known' = known \ {Head(scan)}
         /\ state' = [state EXCEPT ![Head(scan)] = "FINISHED"]
         /\ UNCHANGED <<nextId, promptLen, genLen>>
<1>1. scan # <<>>
  BY DEF LoopAtRequest, EndRemove, Holds
<1>2. Head(scan) \in Rids
  BY <1>1, ScanType
<1>. QED  BY <1>1, <1>2 DEF EndRemove, Holds, WaitingNow, RunningNow

\* A step that moves nobody changes no state but to FINISHED.
LEMMA StillStates ==
  ASSUME SchedTypeOK, NEW t \in Threads, SchedStep(t), ~MovingStep(t)
  PROVE  \A r \in Rids : state'[r] \in {state[r], "FINISHED"}
<1>a. state \in [Rids -> RequestStates]
  BY DEF SchedTypeOK
<1>1. CASE AdmitBegin(t)
  BY <1>1 DEF AdmitBegin
<1>2. CASE FreeHeadBlock(t)
  BY <1>2 DEF FreeHeadBlock
<1>3. CASE AllocBlock(t)
  BY <1>3 DEF AllocBlock
<1>4. CASE ReportUnknown(t)
  BY <1>4 DEF ReportUnknown
<1>5. CASE ReportToken(t)
  BY <1>5, <1>a DEF ReportToken
<1>6. CASE ReportCommit(t)
  BY <1>6 DEF ReportCommit
<1>7. CASE ReportFail(t)
  BY <1>7 DEF ReportFail
<1>8. CASE \E n \in Nat \ {0} : BeginOwnAlloc(t, n)
  BY <1>8 DEF BeginOwnAlloc
<1>9. CASE OwnAllocFails(t)
  BY <1>9 DEF OwnAllocFails
<1>10. CASE DropOwnBlocks(t)
  BY <1>10 DEF DropOwnBlocks
<1>11. CASE \E n \in PromptLens, m \in MaxNews : Submit(t, n, m)
  BY <1>11 DEF MovingStep
<1>12. CASE BeginSchedule(t)
  BY <1>12 DEF BeginSchedule
<1>13. CASE \E pairs \in Seq(Report) : BeginReport(t, pairs)
  BY <1>13 DEF BeginReport
<1>14. CASE \E r \in Rids : BeginRemove(t, r)
  BY <1>14 DEF BeginRemove
<1>15. CASE AdmitSkip(t)
  BY <1>15 DEF AdmitSkip
<1>16. CASE AdmitEmpty(t)
  BY <1>16 DEF MovingStep
<1>17. CASE AdmitCommit(t)
  BY <1>17 DEF MovingStep
<1>18. CASE AdmitFail(t)
  BY <1>18 DEF AdmitFail
<1>19. CASE EndAdmit(t)
  BY <1>19 DEF EndAdmit
<1>20. CASE EndRetry(t)
  BY <1>20 DEF EndRetry
<1>21. CASE EvictSkip(t)
  BY <1>21 DEF EvictSkip
<1>22. CASE EvictBegin(t)
  BY <1>22 DEF EvictBegin
<1>23. CASE EvictCommit(t)
  BY <1>23 DEF MovingStep
<1>24. CASE EndEvict(t)
  BY <1>24 DEF EndEvict
<1>25. CASE BatchInclude(t)
  BY <1>25 DEF BatchInclude
<1>26. CASE BatchExclude(t)
  BY <1>26 DEF BatchExclude
<1>27. CASE EndBatch(t)
  BY <1>27 DEF EndBatch
<1>28. CASE RetireKeep(t)
  BY <1>28 DEF RetireKeep
<1>29. CASE RetireBegin(t)
  BY <1>29, <1>a DEF RetireBegin
<1>30. CASE RetireCommit(t)
  BY <1>30 DEF MovingStep
<1>31. CASE EndSchedule(t)
  BY <1>31 DEF EndSchedule
<1>32. CASE EndReport(t)
  BY <1>32 DEF EndReport
<1>33. CASE EndRemove(t)
  BY <1>33 DEF MovingStep
<1>. QED  BY <1>1, <1>2, <1>3, <1>4, <1>5, <1>6, <1>7, <1>8, <1>9, <1>10, <1>11,
             <1>12, <1>13, <1>14, <1>15, <1>16, <1>17, <1>18, <1>19, <1>20, <1>21,
             <1>22, <1>23, <1>24, <1>25, <1>26, <1>27, <1>28, <1>29, <1>30, <1>31,
             <1>32, <1>33
          DEF SchedStep, ScheduleStep, ReportStep, QuietStep

\* The next victim is the youngest running request the loop has not passed.
LEMMA VictimRuns ==
  ASSUME SchedTypeOK, EvictFits, phase \in {"evict", "evictFree"}, scan # <<>>
  PROVE  /\ Len(scan) \in 1 .. Len(running) /\ running[Len(scan)] = Head(scan)
         /\ Occurs(running, Head(scan))
<1>1. Len(scan) \in Nat \ {0} /\ Head(scan) = scan[1] /\ Len(running) \in Nat
  BY EmptySeq, LenProperties DEF SchedTypeOK
<1>2. Len(scan) <= Len(running) /\ scan[1] = running[Len(scan) + 1 - 1]
  BY <1>1 DEF EvictFits
<1>3. Len(scan) + 1 - 1 = Len(scan)
  BY <1>1
<1>. QED  BY <1>1, <1>2, <1>3 DEF Occurs

LEMMA OneQueueStep ==
  ASSUME SchedTypeOK, LoopAtRequest, QueueInv, NEW t \in Threads, SchedStep(t)
  PROVE  InOneQueue'
<1>. USE DEF QueueInv
<1>a. WaitingNow \in Seq(Rids) /\ RunningNow \in Seq(Rids)
  BY NowType
<1>b. state \in [Rids -> RequestStates] /\ known \subseteq Rids
  BY DEF SchedTypeOK
<1>1. CASE ~MovingStep(t)
  <2>1. UNCHANGED <<WaitingNow, RunningNow, known>>
    BY <1>1, StillStep
  <2>2. \A r \in known : state'[r] # "FINISHED" => state[r] # "FINISHED"
    BY <1>1, <1>b, StillStates
  <2>. QED  BY <2>1, <2>2 DEF InOneQueue
<1>2. CASE \E n \in PromptLens, m \in MaxNews : Submit(t, n, m)
  <2>1. /\ WaitingNow' = Append(WaitingNow, nextId) /\ RunningNow' = RunningNow
        /\ known' = known \cup {nextId} /\ state' = state
    BY <1>2, SubmitMoves
  <2>2. nextId \in Rids
    BY <1>2, RequestAssumption DEF SchedTypeOK, Submit, Rids
  <2>3. nextId \notin known
    BY <2>2 DEF StatesFit, Rids
  <2>4. ~Occurs(WaitingNow, nextId) /\ ~Occurs(RunningNow, nextId)
    BY <2>2, <2>3 DEF InOneQueue
  <2>5. /\ \A c : Occurs(WaitingNow', c) <=> Occurs(WaitingNow, c) \/ c = nextId
        /\ NoneTwice(WaitingNow')
    BY <1>a, <2>1, <2>2, <2>4, AppendHolds DEF InOneQueue
  <2>. QED  BY <2>1, <2>4, <2>5 DEF InOneQueue
<1>3. CASE AdmitEmpty(t) \/ AdmitCommit(t)
  <2> DEFINE h == Head(scan)
  <2>1. /\ WaitingNow = kept \o scan /\ WaitingNow' = kept \o Tail(scan)
        /\ RunningNow' = Append(RunningNow, h)
        /\ scan # <<>> /\ h \in Rids
        /\ \A r \in Rids : r # h => state'[r] = state[r]
        /\ known' = known
    BY <1>3, AdmitMoves
  <2>2. /\ Len(kept) + 1 \in 1 .. Len(WaitingNow) /\ WaitingNow[Len(kept) + 1] = h
        /\ WaitingNow' = RemoveAt(WaitingNow, Len(kept) + 1)
    BY <2>1, ScanMoves
  <2>. HIDE DEF h
  <2>3. Occurs(WaitingNow, h)
    BY <2>2 DEF Occurs
  <2>4. /\ \A c : Occurs(WaitingNow', c) <=> Occurs(WaitingNow, c) /\ c # h
        /\ NoneTwice(WaitingNow')
    <3>1. NoneTwice(WaitingNow)
      BY DEF InOneQueue
    <3>. QED  BY <1>a, <2>2, <3>1, RemoveAtHolds
  <2>5. ~Occurs(RunningNow, h) /\ h \in known
    BY <2>1, <2>3 DEF InOneQueue
  <2>6. /\ \A c : Occurs(RunningNow', c) <=> Occurs(RunningNow, c) \/ c = h
        /\ NoneTwice(RunningNow')
    BY <1>a, <2>1, <2>5, AppendHolds DEF InOneQueue
  <2>. QED  BY <1>b, <2>1, <2>4, <2>5, <2>6 DEF InOneQueue
<1>4. CASE EvictCommit(t)
  <2> DEFINE h == Head(scan)
  <2>1. /\ WaitingNow = waiting /\ WaitingNow' = <<h>> \o waiting
        /\ RunningNow = running /\ RunningNow' = Without(running, h)
        /\ scan # <<>> /\ h \in Rids
        /\ state' = [state EXCEPT ![h] = "PREEMPTED"] /\ known' = known
    BY <1>4, EvictMoves
  <2>2. Occurs(RunningNow, h)
    BY <1>4, <2>1, VictimRuns DEF EvictCommit, Holds
  <2>. HIDE DEF h
  <2>3. ~Occurs(waiting, h) /\ h \in known
    BY <2>1, <2>2 DEF InOneQueue
  <2>4. /\ <<h>> \in Seq(Rids) /\ NoneTwice(<<h>>)
        /\ \A c : Occurs(<<h>>, c) <=> c = h
    BY <2>1 DEF NoneTwice, Occurs
  <2>5. /\ \A c : Occurs(WaitingNow', c) <=> c = h \/ Occurs(WaitingNow, c)
        /\ NoneTwice(WaitingNow')
    <3>1. waiting \in Seq(Rids) /\ NoneTwice(waiting)
      BY <1>a, <2>1 DEF InOneQueue
    <3>2. /\ \A c : Occurs(<<h>> \o waiting, c) <=> Occurs(<<h>>, c) \/ Occurs(waiting, c)
          /\ NoneTwice(<<h>> \o waiting)
      <4>1. \A c \in Rids : ~(Occurs(<<h>>, c) /\ Occurs(waiting, c))
        BY <2>3, <2>4
      <4>2. <<h>> \in Seq(Rids) /\ NoneTwice(<<h>>)
        BY <2>4
      <4>. QED  BY <3>1, <4>1, <4>2, ConcatHolds
    <3>. QED  BY <2>1, <2>4, <3>2
  <2>6. /\ \A c : Occurs(RunningNow', c) <=> Occurs(RunningNow, c) /\ c # h
        /\ NoneTwice(RunningNow')
    BY <1>a, <2>1, WithoutHolds DEF InOneQueue
  <2>. QED  BY <1>b, <2>1, <2>3, <2>5, <2>6 DEF InOneQueue
<1>5. CASE RetireCommit(t)
  <2> DEFINE h == Head(scan)
  <2>1. /\ WaitingNow' = WaitingNow
        /\ RunningNow = kept \o scan /\ RunningNow' = kept \o Tail(scan)
        /\ scan # <<>> /\ h \in Rids /\ phase = "retireFree"
        /\ known' = known /\ state' = state
    BY <1>5, RetireMoves
  <2>2. /\ Len(kept) + 1 \in 1 .. Len(RunningNow) /\ RunningNow[Len(kept) + 1] = h
        /\ RunningNow' = RemoveAt(RunningNow, Len(kept) + 1)
    BY <2>1, ScanMoves
  <2>3. state[h] = "FINISHED"
    BY <2>1 DEF FreeFits
  <2>. HIDE DEF h
  <2>4. /\ \A c : Occurs(RunningNow', c) <=> Occurs(RunningNow, c) /\ c # h
        /\ NoneTwice(RunningNow')
    <3>1. NoneTwice(RunningNow)
      BY DEF InOneQueue
    <3>. QED  BY <1>a, <2>2, <3>1, RemoveAtHolds
  <2>. QED  BY <2>1, <2>3, <2>4 DEF InOneQueue
<1>6. CASE EndRemove(t)
  <2> DEFINE h == Head(scan)
  <2>1. /\ WaitingNow = waiting /\ WaitingNow' = Without(waiting, h)
        /\ RunningNow = running /\ RunningNow' = Without(running, h)
        /\ h \in Rids /\ known' = known \ {h}
        /\ state' = [state EXCEPT ![h] = "FINISHED"]
    BY <1>6, RemoveMoves
  <2>. HIDE DEF h
  <2>2. /\ \A c : Occurs(WaitingNow', c) <=> Occurs(WaitingNow, c) /\ c # h
        /\ NoneTwice(WaitingNow')
    BY <1>a, <2>1, WithoutHolds DEF InOneQueue
  <2>3. /\ \A c : Occurs(RunningNow', c) <=> Occurs(RunningNow, c) /\ c # h
        /\ NoneTwice(RunningNow')
    BY <1>a, <2>1, WithoutHolds DEF InOneQueue
  <2>. QED  BY <1>b, <2>1, <2>2, <2>3 DEF InOneQueue
<1>. QED  BY <1>1, <1>2, <1>3, <1>4, <1>5, <1>6 DEF MovingStep

-----------------------------------------------------------------------------
(* The order of the queues, step by step. *)

\* Either the queue is exactly the one at hand, or it is left alone while the loop
\* over it drops elements from its copy.
LEMMA QueueOrCopy ==
  ASSUME SchedTypeOK, LoopAtRequest, QueueInv, NEW t \in Threads, SchedStep(t)
  PROVE  /\ \/ waiting' = WaitingNow'
            \/ waiting' = waiting /\ \A c, d : Before(WaitingNow', c, d) => Before(WaitingNow, c, d)
         /\ \/ running' = RunningNow'
            \/ running' = running /\ \A c, d : Before(RunningNow', c, d) => Before(RunningNow, c, d)
<1>. USE DEF QueueInv
<1>a. WaitingNow \in Seq(Rids) /\ RunningNow \in Seq(Rids)
  BY NowType
<1>1. CASE ~MovingStep(t)
  <2>1. UNCHANGED <<WaitingNow, RunningNow>>
    BY <1>1, StillStep
  <2>2. /\ waiting' = WaitingNow' \/ waiting' = waiting
        /\ running' = RunningNow' \/ running' = running
    <3>1. CASE EndAdmit(t) \/ EndRetry(t)
      BY <3>1 DEF EndAdmit, EndRetry, WaitingNow
    <3>2. CASE EndSchedule(t)
      BY <3>2 DEF EndSchedule, RunningNow
    <3>3. CASE ~(EndAdmit(t) \/ EndRetry(t) \/ EndSchedule(t))
      <4>1. waiting' = waiting /\ running' = running
        BY <1>1, <3>3, Zenon DEF SchedStep, ScheduleStep, ReportStep, MovingStep,
             BeginSchedule, BeginReport, BeginRemove, AdmitSkip, AdmitFail, AdmitBegin,
             EvictSkip, EvictBegin, EndEvict, BatchInclude, BatchExclude, EndBatch,
             RetireKeep, RetireBegin, EndReport, FreeHeadBlock, AllocBlock, ReportUnknown,
             ReportToken, ReportCommit, ReportFail, BeginOwnAlloc, OwnAllocFails,
             DropOwnBlocks
      <4>. QED  BY <4>1, Zenon
    <3>. QED  BY <3>1, <3>2, <3>3
  <2>. QED  BY <2>1, <2>2
<1>2. CASE \E n \in PromptLens, m \in MaxNews : Submit(t, n, m)
  BY <1>2, SubmitMoves DEF Submit
<1>3. CASE AdmitEmpty(t) \/ AdmitCommit(t)
  <2>1. /\ WaitingNow = kept \o scan /\ WaitingNow' = kept \o Tail(scan)
        /\ scan # <<>> /\ waiting' = waiting /\ running' = RunningNow'
    BY <1>3, AdmitMoves
  <2>2. /\ Len(kept) + 1 \in 1 .. Len(WaitingNow)
        /\ WaitingNow' = RemoveAt(WaitingNow, Len(kept) + 1)
    BY <2>1, ScanMoves
  <2>3. \A c, d : Before(WaitingNow', c, d) => Before(WaitingNow, c, d)
    BY <1>a, <2>2, RemoveAtHolds DEF InOneQueue
  <2>. QED  BY <2>1, <2>3
<1>4. CASE EvictCommit(t)
  BY <1>4, EvictMoves
<1>5. CASE RetireCommit(t)
  <2>1. /\ RunningNow = kept \o scan /\ RunningNow' = kept \o Tail(scan)
        /\ scan # <<>> /\ running' = running
        /\ waiting' = waiting /\ WaitingNow' = WaitingNow
    BY <1>5, RetireMoves
  <2>2. /\ Len(kept) + 1 \in 1 .. Len(RunningNow)
        /\ RunningNow' = RemoveAt(RunningNow, Len(kept) + 1)
    BY <2>1, ScanMoves
  <2>3. \A c, d : Before(RunningNow', c, d) => Before(RunningNow, c, d)
    BY <1>a, <2>2, RemoveAtHolds DEF InOneQueue
  <2>. QED  BY <2>1, <2>3
<1>6. CASE EndRemove(t)
  BY <1>6, RemoveMoves
<1>. QED  BY <1>1, <1>2, <1>3, <1>4, <1>5, <1>6 DEF MovingStep

LEMMA InOrderStep ==
  ASSUME SchedTypeOK, LoopAtRequest, QueueInv, NEW t \in Threads, SchedStep(t)
  PROVE  InOrder'
<1>1. InOneQueue'
  BY OneQueueStep
<1>2. NoneTwice(waiting') /\ NoneTwice(running')
  BY <1>1, QueueOrCopy DEF InOneQueue, QueueInv, InOrder
<1>3. \A r, q \in Rids : /\ Before(WaitingNow', r, q) => Before(waiting', r, q)
                         /\ Before(RunningNow', r, q) => Before(running', r, q)
  BY QueueOrCopy DEF QueueInv, InOrder
<1>. QED  BY <1>2, <1>3 DEF InOrder

-----------------------------------------------------------------------------
(* States and the eviction loop, step by step. *)

LEMMA PositiveBlocks ==
  ASSUME SchedTypeOK, NEW r \in Rids, SeqLen(r) > 0
  PROVE  NumBlocksOf(r) > 0
<1>1. SeqLen(r) \in Nat
  BY NumBlocksNat
<1>2. \A a \in Nat, b \in Nat \ {0} : a >= b => a \div b > 0
  OBVIOUS
<1>3. SeqLen(r) + BlockSize - 1 \in Nat /\ SeqLen(r) + BlockSize - 1 >= BlockSize
  BY <1>1, BlockSizeAssumption
<1>. QED  BY <1>2, <1>3, BlockSizeAssumption DEF NumBlocksOf, BlocksFor

LEMMA StatesStep ==
  ASSUME SchedTypeOK, LoopAtRequest, QueueInv, NEW t \in Threads, SchedStep(t)
  PROVE  StatesFit'
<1>b. /\ state \in [Rids -> RequestStates] /\ known \subseteq Rids /\ Rids \subseteq Nat
      /\ nextId \in Nat
      /\ promptLen \in [Rids -> Nat] /\ genLen \in [Rids -> Nat]
  BY DEF SchedTypeOK, Rids
<1>a. WaitingNow \in Seq(Rids) /\ RunningNow \in Seq(Rids)
  BY NowType
<1>. USE DEF QueueInv
<1>1. CASE ~MovingStep(t)
  <2>1. UNCHANGED <<RunningNow, known, nextId>>
    BY <1>1, StillStep
  <2>2. \A r \in Rids : state'[r] \in {state[r], "FINISHED"}
    BY <1>1, StillStates
  <2>3. \A r \in Rids : state'[r] # state[r] => r \in known
    BY <1>1, <1>b, Zenon DEF SchedStep, ScheduleStep, ReportStep, MovingStep,
             BeginSchedule, BeginReport, BeginRemove, AdmitSkip, AdmitFail, AdmitBegin,
             EndAdmit, EndRetry, EndSchedule,
             EvictSkip, EvictBegin, EndEvict, BatchInclude, BatchExclude, EndBatch,
             RetireKeep, RetireBegin, EndReport, FreeHeadBlock, AllocBlock, ReportUnknown,
             ReportToken, Reportable, ReportCommit, ReportFail, BeginOwnAlloc, OwnAllocFails,
             DropOwnBlocks
  <2>4. promptLen' = promptLen /\ (ReportToken(t) \/ genLen' = genLen)
    BY <1>1, Zenon DEF SchedStep, ScheduleStep, ReportStep, MovingStep,
             BeginSchedule, BeginReport, BeginRemove, AdmitSkip, AdmitFail, AdmitBegin,
             EndAdmit, EndRetry, EndSchedule,
             EvictSkip, EvictBegin, EndEvict, BatchInclude, BatchExclude, EndBatch,
             RetireKeep, RetireBegin, EndReport, FreeHeadBlock, AllocBlock, ReportUnknown,
             ReportToken, ReportCommit, ReportFail, BeginOwnAlloc, OwnAllocFails,
             DropOwnBlocks
  <2>5. \A r \in Rids : genLen'[r] >= genLen[r] /\ genLen'[r] \in Nat
    BY <1>b, <2>4 DEF ReportToken
  <2>6. \A r \in Rids : SeqLen(r) > 0 => SeqLen(r)' > 0
    BY <1>b, <2>4, <2>5 DEF SeqLen
  <2>. QED  BY <1>b, <2>1, <2>2, <2>3, <2>6 DEF StatesFit
<1>2. CASE \E n \in PromptLens, m \in MaxNews : Submit(t, n, m)
  <2>1. /\ RunningNow' = RunningNow /\ nextId' = nextId + 1
        /\ known' = known \cup {nextId} /\ state' = state
    BY <1>2, SubmitMoves
  <2>2. \A r \in Rids : r < nextId => SeqLen(r)' = SeqLen(r)
    BY <1>2, <1>b DEF Submit, SeqLen
  <2>3. \A r \in Rids : state[r] \in {"RUNNING", "PREEMPTED"} => SeqLen(r)' > 0
    BY <1>b, <2>2 DEF StatesFit
  <2>. QED  BY <1>b, <2>1, <2>3 DEF StatesFit
<1>3. CASE AdmitEmpty(t) \/ AdmitCommit(t)
  <2> DEFINE h == Head(scan)
  <2>1. /\ RunningNow' = Append(RunningNow, h)
        /\ scan # <<>> /\ h \in Rids
        /\ \A r \in Rids : r # h => state'[r] = state[r]
        /\ UNCHANGED <<known, nextId, promptLen, genLen>>
    BY <1>3, AdmitMoves
  <2>2. h \in known
    BY <1>3, <2>1, HeadIsQueued DEF InOneQueue, AdmitEmpty, AdmitCommit, Admitting, Holds
  <2>3. state'[h] # "PREEMPTED" /\ (state'[h] = "RUNNING" => SeqLen(h) > 0)
    <3>1. CASE AdmitEmpty(t)
      BY <2>1, <3>1, PositiveBlocks DEF AdmitEmpty, StatesFit
    <3>2. CASE AdmitCommit(t)
      <4>1. Admitting(t) /\ want[t] > 0 /\ state' = [state EXCEPT ![h] = "RUNNING"]
        BY <3>2 DEF AdmitCommit, AllocDone
      <4>2. SeqLen(h) > 0
        BY <4>1 DEF AllocFits
      <4>. QED  BY <1>b, <2>1, <4>1, <4>2
    <3>. QED  BY <1>3, <3>1, <3>2
  <2>. HIDE DEF h
  <2>4. \A c : Occurs(RunningNow', c) <=> Occurs(RunningNow, c) \/ c = h
    BY <1>a, <2>1, AppendHolds
  <2>5. \A r \in Rids : SeqLen(r)' = SeqLen(r)
    BY <2>1 DEF SeqLen
  <2>. QED  BY <1>b, <2>1, <2>2, <2>3, <2>4, <2>5 DEF StatesFit
<1>4. CASE EvictCommit(t)
  <2> DEFINE h == Head(scan)
  <2>1. /\ RunningNow = running /\ RunningNow' = Without(running, h)
        /\ scan # <<>> /\ h \in Rids
        /\ state' = [state EXCEPT ![h] = "PREEMPTED"]
        /\ UNCHANGED <<known, nextId, promptLen, genLen>>
    BY <1>4, EvictMoves
  <2>2. Occurs(RunningNow, h) /\ state[h] = "RUNNING"
    BY <1>4, <2>1, VictimRuns DEF EvictCommit, Holds, FreeFits
  <2>. HIDE DEF h
  <2>3. h \in known /\ SeqLen(h) > 0
    BY <2>1, <2>2 DEF InOneQueue, StatesFit
  <2>4. \A c : Occurs(RunningNow', c) <=> Occurs(RunningNow, c) /\ c # h
    BY <1>a, <2>1, WithoutHolds DEF InOneQueue
  <2>5. \A r \in Rids : SeqLen(r)' = SeqLen(r)
    BY <2>1 DEF SeqLen
  <2>. QED  BY <1>b, <2>1, <2>3, <2>4, <2>5 DEF StatesFit
<1>5. CASE RetireCommit(t)
  <2> DEFINE h == Head(scan)
  <2>1. /\ RunningNow = kept \o scan /\ RunningNow' = kept \o Tail(scan) /\ scan # <<>>
        /\ UNCHANGED <<known, nextId, state, promptLen, genLen>>
    BY <1>5, RetireMoves
  <2>2. /\ Len(kept) + 1 \in 1 .. Len(RunningNow) /\ RunningNow[Len(kept) + 1] = h
        /\ RunningNow' = RemoveAt(RunningNow, Len(kept) + 1)
    BY <2>1, ScanMoves
  <2>. HIDE DEF h
  <2>3. \A c : Occurs(RunningNow', c) <=> Occurs(RunningNow, c) /\ c # h
    <3>1. NoneTwice(RunningNow)
      BY DEF InOneQueue
    <3>. QED  BY <1>a, <2>2, <3>1, RemoveAtHolds
  <2>4. \A r \in Rids : SeqLen(r)' = SeqLen(r)
    BY <2>1 DEF SeqLen
  <2>. QED  BY <2>1, <2>3, <2>4 DEF StatesFit
<1>6. CASE EndRemove(t)
  <2> DEFINE h == Head(scan)
  <2>1. /\ RunningNow = running /\ RunningNow' = Without(running, h)
        /\ h \in Rids /\ known' = known \ {h}
        /\ state' = [state EXCEPT ![h] = "FINISHED"]
        /\ UNCHANGED <<nextId, promptLen, genLen>>
    BY <1>6, RemoveMoves
  <2>2. h \in known
    BY <1>6 DEF EndRemove, Holds, FreeFits
  <2>. HIDE DEF h
  <2>3. \A c : Occurs(RunningNow', c) <=> Occurs(RunningNow, c) /\ c # h
    BY <1>a, <2>1, WithoutHolds DEF InOneQueue
  <2>4. \A r \in Rids : SeqLen(r)' = SeqLen(r)
    BY <2>1 DEF SeqLen
  <2>. QED  BY <1>b, <2>1, <2>2, <2>3, <2>4 DEF StatesFit
<1>. QED  BY <1>1, <1>2, <1>3, <1>4, <1>5, <1>6 DEF MovingStep

LEMMA EvictFitsStep ==
  ASSUME SchedTypeOK, LoopAtRequest, QueueInv, NEW t \in Threads, SchedStep(t)
  PROVE  EvictFits'
<1>a. scan \in Seq(Rids) /\ running \in Seq(Rids)
  BY DEF SchedTypeOK
<1>b. Len(scan) \in Nat /\ Len(running) \in Nat
  BY <1>a, LenProperties
<1>c. ASSUME scan # <<>>
      PROVE  /\ Len(scan) \in Nat \ {0} /\ Len(Tail(scan)) = Len(scan) - 1
             /\ \A i \in 1 .. Len(scan) - 1 : Tail(scan)[i] = scan[i + 1]
  BY <1>a, <1>c, EmptySeq, HeadTailProperties
<1>1. CASE AdmitBegin(t)
  BY <1>1 DEF AdmitBegin, QueueInv, EvictFits, LocksFit, Holds, Admitting
<1>2. CASE FreeHeadBlock(t)
  BY <1>2 DEF FreeHeadBlock, QueueInv, EvictFits, LocksFit, Holds, Admitting
<1>3. CASE AllocBlock(t)
  BY <1>3 DEF AllocBlock, QueueInv, EvictFits, LocksFit, Holds, Admitting
<1>4. CASE ReportUnknown(t)
  BY <1>4 DEF ReportUnknown, QueueInv, EvictFits, LocksFit, Holds, Admitting
<1>5. CASE ReportToken(t)
  BY <1>5 DEF ReportToken, QueueInv, EvictFits, LocksFit, Holds, Admitting
<1>6. CASE ReportCommit(t)
  BY <1>6 DEF ReportCommit, QueueInv, EvictFits, LocksFit, Holds, Admitting
<1>7. CASE ReportFail(t)
  BY <1>7 DEF ReportFail, QueueInv, EvictFits, LocksFit, Holds, Admitting
<1>8. CASE \E n \in Nat \ {0} : BeginOwnAlloc(t, n)
  BY <1>8 DEF BeginOwnAlloc, QueueInv, EvictFits, LocksFit, Holds, Admitting
<1>9. CASE OwnAllocFails(t)
  BY <1>9 DEF OwnAllocFails, QueueInv, EvictFits, LocksFit, Holds, Admitting
<1>10. CASE DropOwnBlocks(t)
  BY <1>10 DEF DropOwnBlocks, QueueInv, EvictFits, LocksFit, Holds, Admitting
<1>11. CASE \E n \in PromptLens, m \in MaxNews : Submit(t, n, m)
  BY <1>11 DEF Submit, QueueInv, EvictFits, LocksFit, Holds, Admitting
<1>12. CASE BeginSchedule(t)
  BY <1>12 DEF BeginSchedule, QueueInv, EvictFits, LocksFit, Holds, Admitting
<1>13. CASE \E pairs \in Seq(Report) : BeginReport(t, pairs)
  BY <1>13 DEF BeginReport, QueueInv, EvictFits, LocksFit, Holds, Admitting
<1>14. CASE \E r \in Rids : BeginRemove(t, r)
  BY <1>14 DEF BeginRemove, QueueInv, EvictFits, LocksFit, Holds, Admitting
<1>15. CASE AdmitSkip(t)
  BY <1>15 DEF AdmitSkip, QueueInv, EvictFits, LocksFit, Holds, Admitting
<1>16. CASE AdmitEmpty(t)
  BY <1>16 DEF AdmitEmpty, QueueInv, EvictFits, LocksFit, Holds, Admitting
<1>17. CASE AdmitCommit(t)
  BY <1>17 DEF AdmitCommit, QueueInv, EvictFits, LocksFit, Holds, Admitting
<1>18. CASE AdmitFail(t)
  BY <1>18 DEF AdmitFail, QueueInv, EvictFits, LocksFit, Holds, Admitting
<1>19. CASE EndAdmit(t)
  <2>1. CASE needed > 0
    <3>1. Len(Reverse(running)) = Len(running)
      BY <1>a, ReverseType, LenProperties DEF Reverse
    <3>2. \A i \in 1 .. Len(running) :
            /\ Reverse(running)[i] = running[Len(running) - i + 1]
            /\ Len(running) + 1 - i = Len(running) - i + 1
      BY <1>b DEF Reverse
    <3>3. \A j \in 1 .. Len(running) : ~(j > Len(running))
      BY <1>b
    <3>4. scan' = Reverse(running) /\ running' = running /\ state' = state
      BY <1>19, <2>1 DEF EndAdmit
    <3>. QED  BY <1>b, <3>1, <3>2, <3>3, <3>4 DEF EvictFits
  <2>. QED  BY <1>19, <2>1 DEF EndAdmit, EvictFits
<1>20. CASE EndRetry(t)
  BY <1>20 DEF EndRetry, QueueInv, EvictFits, LocksFit, Holds, Admitting
<1>21. CASE EvictSkip(t)
  <2>1. /\ scan # <<>> /\ phase = "evict" /\ state[Head(scan)] # "RUNNING"
        /\ scan' = Tail(scan) /\ UNCHANGED <<running, state>>
    BY <1>21 DEF EvictSkip, Holds, EvictMore, Evictable
  <2>2. Len(scan) \in 1 .. Len(running) /\ running[Len(scan)] = Head(scan)
    BY <2>1, VictimRuns DEF QueueInv
  <2>3. ASSUME NEW i \in 1 .. Len(scan) - 1
        PROVE  Tail(scan)[i] = running[(Len(scan) - 1) + 1 - i]
    <3>1. i + 1 \in 1 .. Len(scan) /\ Len(scan) + 1 - (i + 1) = (Len(scan) - 1) + 1 - i
      BY <1>b
    <3>2. scan[i + 1] = running[Len(scan) + 1 - (i + 1)]
      BY <2>1, <3>1 DEF QueueInv, EvictFits
    <3>. QED  BY <1>c, <2>1, <3>1, <3>2
  <2>4. ASSUME NEW j \in 1 .. Len(running), j > Len(scan) - 1
        PROVE  state[running[j]] # "RUNNING"
    <3>1. j = Len(scan) \/ j > Len(scan)
      BY <1>b, <2>4
    <3>. QED  BY <2>1, <2>2, <3>1 DEF QueueInv, EvictFits
  <2>5. Len(Tail(scan)) = Len(scan) - 1 /\ Len(scan) - 1 <= Len(running)
    BY <1>b, <1>c, <2>1, <2>2
  <2>. QED  BY <2>1, <2>3, <2>4, <2>5 DEF EvictFits
<1>22. CASE EvictBegin(t)
  BY <1>22 DEF EvictBegin, QueueInv, EvictFits, LocksFit, Holds, Admitting
<1>23. CASE EvictCommit(t)
  <2> DEFINE n == Len(scan)
  <2>1. /\ scan # <<>> /\ phase = "evictFree" /\ Head(scan) \in Rids
        /\ scan' = Tail(scan) /\ running' = Without(running, Head(scan))
        /\ state' = [state EXCEPT ![Head(scan)] = "PREEMPTED"]
    BY <1>23, EvictMoves DEF EvictCommit, Holds
  <2>2. n \in 1 .. Len(running) /\ running[n] = Head(scan)
    BY <2>1, VictimRuns DEF QueueInv
  <2>3. NoneTwice(running)
    BY DEF QueueInv, InOrder
  <2>4. running' = RemoveAt(running, n)
    BY <1>a, <2>1, <2>2, <2>3, WithoutHolds
  <2>5. /\ Len(running') = Len(running) - 1
        /\ \A j \in 1 .. Len(running) - 1 :
             running'[j] = IF j < n THEN running[j] ELSE running[j + 1]
    BY <1>a, <2>2, <2>3, <2>4, RemoveAtHolds
  <2>6. ASSUME NEW i \in 1 .. n - 1
        PROVE  Tail(scan)[i] = running'[(n - 1) + 1 - i]
    <3>1. /\ i + 1 \in 1 .. n /\ n + 1 - (i + 1) = (n - 1) + 1 - i
          /\ (n - 1) + 1 - i < n /\ (n - 1) + 1 - i \in 1 .. Len(running) - 1
      BY <1>b, <2>2
    <3>2. scan[i + 1] = running[n + 1 - (i + 1)]
      BY <2>1, <3>1 DEF QueueInv, EvictFits
    <3>3. Tail(scan)[i] = scan[i + 1]
      BY <1>c, <2>1
    <3>. QED  BY <2>5, <3>1, <3>2, <3>3
  <2>7. ASSUME NEW j \in 1 .. Len(running) - 1, j > n - 1
        PROVE  state'[running'[j]] # "RUNNING"
    <3>1. ~(j < n) /\ j + 1 > n /\ j + 1 \in 1 .. Len(running)
      BY <1>b, <2>2, <2>7
    <3>2. state[running[j + 1]] # "RUNNING"
      BY <2>1, <3>1 DEF QueueInv, EvictFits
    <3>3. running[j + 1] \in Rids /\ state \in [Rids -> RequestStates]
      BY <1>a, <3>1, ElementOfSeq DEF SchedTypeOK
    <3>4. running'[j] = running[j + 1]
      BY <2>5, <3>1
    <3>. QED  BY <2>1, <3>2, <3>3, <3>4
  <2>8. Len(Tail(scan)) = n - 1 /\ n - 1 <= Len(running) - 1
    BY <1>b, <1>c, <2>1, <2>2
  <2>. QED  BY <2>1, <2>5, <2>6, <2>7, <2>8 DEF EvictFits
<1>24. CASE EndEvict(t)
  BY <1>24 DEF EndEvict, QueueInv, EvictFits, LocksFit, Holds, Admitting
<1>25. CASE BatchInclude(t)
  BY <1>25 DEF BatchInclude, QueueInv, EvictFits, LocksFit, Holds, Admitting
<1>26. CASE BatchExclude(t)
  BY <1>26 DEF BatchExclude, QueueInv, EvictFits, LocksFit, Holds, Admitting
<1>27. CASE EndBatch(t)
  BY <1>27 DEF EndBatch, QueueInv, EvictFits, LocksFit, Holds, Admitting
<1>28. CASE RetireKeep(t)
  BY <1>28 DEF RetireKeep, QueueInv, EvictFits, LocksFit, Holds, Admitting
<1>29. CASE RetireBegin(t)
  BY <1>29 DEF RetireBegin, QueueInv, EvictFits, LocksFit, Holds, Admitting
<1>30. CASE RetireCommit(t)
  BY <1>30 DEF RetireCommit, QueueInv, EvictFits, LocksFit, Holds, Admitting
<1>31. CASE EndSchedule(t)
  BY <1>31 DEF EndSchedule, QueueInv, EvictFits, LocksFit, Holds, Admitting
<1>32. CASE EndReport(t)
  BY <1>32 DEF EndReport, QueueInv, EvictFits, LocksFit, Holds, Admitting
<1>33. CASE EndRemove(t)
  BY <1>33 DEF EndRemove, QueueInv, EvictFits, LocksFit, Holds, Admitting
<1>. QED  BY <1>1, <1>2, <1>3, <1>4, <1>5, <1>6, <1>7, <1>8, <1>9, <1>10, <1>11,
             <1>12, <1>13, <1>14, <1>15, <1>16, <1>17, <1>18, <1>19, <1>20, <1>21,
             <1>22, <1>23, <1>24, <1>25, <1>26, <1>27, <1>28, <1>29, <1>30, <1>31,
             <1>32, <1>33
          DEF SchedStep, ScheduleStep, ReportStep, QuietStep

-----------------------------------------------------------------------------
(***************************************************************************)
(* The invariant holds for ever, and what follows from it.                 *)
(***************************************************************************)

LEMMA QueueStep ==
  ASSUME SchedTypeOK, LoopAtRequest, QueueInv, NEW t \in Threads, SchedStep(t)
  PROVE  QueueInv'
<1>1. LocksFit' /\ FreeFits' /\ AllocFits'
  BY LocksStep, FreeFitsStep, AllocStep DEF QueueInv
<1>. QED  BY <1>1, OneQueueStep, InOrderStep, StatesStep, EvictFitsStep DEF QueueInv

\* A step that leaves the scheduler's own variables alone.
LEMMA QueueFrame ==
  ASSUME QueueInv, UNCHANGED <<requestVars, queueVars, lock, phase, scan, kept, want>>
  PROVE  QueueInv'
<1>1. InOneQueue' /\ InOrder' /\ StatesFit'
  <2>1. WaitingNow' = WaitingNow /\ RunningNow' = RunningNow
    BY DEF WaitingNow, RunningNow
  <2>2. InOneQueue'
    BY <2>1 DEF QueueInv, InOneQueue, NoneTwice, Occurs
  <2>3. InOrder'
    BY <2>1 DEF QueueInv, InOrder, NoneTwice, Before
  <2>4. StatesFit'
    BY <2>1 DEF QueueInv, StatesFit, Occurs, SeqLen
  <2>. QED  BY <2>2, <2>3, <2>4
<1>2. LocksFit' /\ FreeFits'
  BY DEF QueueInv, LocksFit, FreeFits
<1>3. AllocFits'
  BY DEF QueueInv, AllocFits, Admitting, Holds, SeqLen
<1>4. EvictFits'
  BY DEF QueueInv, EvictFits
<1>. QED  BY <1>1, <1>2, <1>3, <1>4 DEF QueueInv

LEMMA QueueInit == SchedInit => QueueInv
<1>. SUFFICES ASSUME SchedInit PROVE QueueInv
  OBVIOUS
<1>1. WaitingNow = <<>> /\ RunningNow = <<>>
  BY DEF SchedInit, WaitingNow, RunningNow
<1>2. NoneTwice(<<>>) /\ \A c : ~Occurs(<<>>, c)
  BY EmptyHolds
<1>3. InOneQueue
  BY <1>1, <1>2 DEF InOneQueue, SchedInit
<1>4. InOrder
  BY <1>1, <1>2, EmptyOrder DEF InOrder, SchedInit
<1>5. StatesFit
  BY <1>1, <1>2 DEF StatesFit, SchedInit
<1>6. LocksFit /\ FreeFits /\ AllocFits /\ EvictFits
  BY DEF SchedInit, LocksFit, FreeFits, AllocFits, EvictFits, Admitting, Holds
<1>. QED  BY <1>3, <1>4, <1>5, <1>6 DEF QueueInv

LEMMA QueueInduction == SchedSpec => [](SchedTypeOK /\ LoopAtRequest /\ QueueInv)
<1>1. SchedTypeOK /\ LoopAtRequest /\ QueueInv /\ [SchedNext]_schedVars => QueueInv'
  <2>1. CASE SchedNext
    BY <2>1, NextIsStep, QueueStep
  <2>2. CASE UNCHANGED schedVars
    BY <2>2, QueueFrame
  <2>. QED  BY <2>1, <2>2
<1>. QED  BY <1>1, QueueInit, TypeInduction, PTL DEF SchedSpec

\* How often a request is in a queue that holds nothing twice.
LEMMA PlacesIn ==
  ASSUME NEW s \in Seq(Rids), NoneTwice(s), NEW r
  PROVE  Cardinality({i \in DOMAIN s : s[i] = r}) = IF Occurs(s, r) THEN 1 ELSE 0
<1>1. DOMAIN s = 1 .. Len(s)
  BY LenProperties
<1>2. CASE Occurs(s, r)
  <2>1. PICK i \in 1 .. Len(s) : s[i] = r
    BY <1>2 DEF Occurs
  <2>2. {j \in DOMAIN s : s[j] = r} = {i}
    BY <1>1, <2>1 DEF NoneTwice
  <2>. QED  BY <1>2, <2>2, FS_Singleton
<1>3. CASE ~Occurs(s, r)
  <2>1. {j \in DOMAIN s : s[j] = r} = {}
    BY <1>1, <1>3 DEF Occurs
  <2>. QED  BY <1>3, <2>1, FS_EmptySet
<1>. QED  BY <1>2, <1>3

LEMMA QueuesHoldAll ==
  ASSUME SchedTypeOK, QueueInv
  PROVE  NoRequestLost
<1>. SUFFICES ASSUME lock = NoThread, NEW r \in Rids
              PROVE  /\ r \in known /\ state[r] # "FINISHED" => Places(r) = 1
                     /\ Places(r) <= 1
                     /\ r \notin known => Places(r) = 0
  BY DEF NoRequestLost
<1>1. WaitingNow = waiting /\ RunningNow = running
  BY DEF QueueInv, LocksFit, WaitingNow, RunningNow
<1>2. Places(r) = (IF Occurs(waiting, r) THEN 1 ELSE 0) + (IF Occurs(running, r) THEN 1 ELSE 0)
  BY <1>1, PlacesIn DEF Places, QueueInv, InOneQueue, SchedTypeOK
<1>. QED  BY <1>1, <1>2 DEF QueueInv, InOneQueue

(***************************************************************************)
(* No request is lost: whenever no method is in progress, every request    *)
(* that has not finished is in exactly one queue, once, and no request     *)
(* that was removed is in any.                                             *)
(***************************************************************************)
THEOREM NoRequestLostCorrect == SchedSpec => []NoRequestLost
  BY QueueInduction, QueuesHoldAll, PTL

-----------------------------------------------------------------------------
(* The order of the queues. *)

LEMMA WaitingOrder ==
  ASSUME SchedTypeOK, LoopAtRequest, QueueInv, NEW t \in Threads, SchedStep(t),
         NEW r, NEW q, r \in Rids, q \in Rids, Before(waiting, r, q)
  PROVE  ~Before(waiting', q, r)
<1>a. /\ waiting \in Seq(Rids) /\ NoneTwice(waiting)
      /\ Occurs(waiting, r) /\ Occurs(waiting, q) /\ ~Before(waiting, q, r)
  BY OneOrder DEF SchedTypeOK, QueueInv, InOrder
<1>1. CASE ~MovingStep(t)
  <2>1. WaitingNow' = WaitingNow
    BY <1>1, StillStep DEF QueueInv
  <2>2. CASE waiting' = waiting
    BY <1>a, <2>2
  <2>3. CASE waiting' = WaitingNow'
    BY <1>a, <2>1, <2>3 DEF QueueInv, InOrder
  <2>. QED  BY <2>2, <2>3, QueueOrCopy
<1>2. CASE \E n \in PromptLens, m \in MaxNews : Submit(t, n, m)
  <2>1. nextId \in Rids /\ nextId \notin known
    BY <1>2, RequestAssumption DEF SchedTypeOK, Submit, Rids, QueueInv, StatesFit
  <2>2. waiting' = Append(waiting, nextId) /\ WaitingNow = waiting
    BY <1>2, SubmitMoves DEF Submit, QueueInv
  <2>3. r # nextId /\ q # nextId
    BY <1>a, <2>1, <2>2 DEF QueueInv, InOneQueue
  <2>. QED  BY <1>a, <2>1, <2>2, <2>3, AppendOrder
<1>3. CASE AdmitEmpty(t) \/ AdmitCommit(t) \/ RetireCommit(t)
  BY <1>3, <1>a, AdmitMoves, RetireMoves
<1>4. CASE EvictCommit(t)
  <2> DEFINE h == Head(scan)
  <2>1. /\ waiting' = <<h>> \o waiting /\ WaitingNow = waiting /\ RunningNow = running
        /\ scan # <<>> /\ h \in Rids
    BY <1>4, EvictMoves
  <2>2. Occurs(RunningNow, h)
    BY <1>4, <2>1, VictimRuns DEF EvictCommit, Holds, QueueInv
  <2>. HIDE DEF h
  <2>3. ~Occurs(waiting, h)
    BY <2>1, <2>2 DEF QueueInv, InOneQueue
  <2>4. <<h>> \in Seq(Rids) /\ (\A c : Occurs(<<h>>, c) <=> c = h)
        /\ \A c, d : ~Before(<<h>>, c, d)
    BY <2>1 DEF Occurs, Before
  <2>5. Before(<<h>> \o waiting, q, r) =>
          Before(<<h>>, q, r) \/ Before(waiting, q, r) \/ (Occurs(<<h>>, q) /\ Occurs(waiting, r))
    BY <1>a, <2>4, ConcatOrder
  <2>. QED  BY <1>a, <2>1, <2>3, <2>4, <2>5
<1>5. CASE EndRemove(t)
  <2>1. waiting' = Without(waiting, Head(scan))
    BY <1>5, RemoveMoves
  <2>. QED  BY <1>a, <2>1, WithoutHolds
<1>. QED  BY <1>1, <1>2, <1>3, <1>4, <1>5 DEF MovingStep

LEMMA RunningOrder ==
  ASSUME SchedTypeOK, LoopAtRequest, QueueInv, NEW t \in Threads, SchedStep(t),
         NEW r, NEW q, r \in Rids, q \in Rids, Before(running, r, q)
  PROVE  ~Before(running', q, r)
<1>a. /\ running \in Seq(Rids) /\ NoneTwice(running)
      /\ Occurs(running, r) /\ Occurs(running, q) /\ ~Before(running, q, r)
  BY OneOrder DEF SchedTypeOK, QueueInv, InOrder
<1>1. CASE ~MovingStep(t)
  <2>1. RunningNow' = RunningNow
    BY <1>1, StillStep DEF QueueInv
  <2>2. CASE running' = running
    BY <1>a, <2>2
  <2>3. CASE running' = RunningNow'
    BY <1>a, <2>1, <2>3 DEF QueueInv, InOrder
  <2>. QED  BY <2>2, <2>3, QueueOrCopy
<1>2. CASE (\E n \in PromptLens, m \in MaxNews : Submit(t, n, m)) \/ RetireCommit(t)
  BY <1>2, <1>a, RetireMoves DEF Submit
<1>3. CASE AdmitEmpty(t) \/ AdmitCommit(t)
  <2> DEFINE h == Head(scan)
  <2>1. /\ running' = Append(running, h) /\ RunningNow = running
        /\ scan # <<>> /\ h \in Rids
    BY <1>3, AdmitMoves
  <2>2. Occurs(WaitingNow, h)
    BY <1>3, <2>1, HeadIsQueued DEF QueueInv, AdmitEmpty, AdmitCommit, Admitting, Holds
  <2>. HIDE DEF h
  <2>3. ~Occurs(running, h)
    BY <2>1, <2>2 DEF QueueInv, InOneQueue
  <2>. QED  BY <1>a, <2>1, <2>3, AppendOrder
<1>4. CASE EvictCommit(t) \/ EndRemove(t)
  <2>1. running' = Without(running, Head(scan))
    BY <1>4, EvictMoves, RemoveMoves
  <2>. QED  BY <1>a, <2>1, WithoutHolds
<1>. QED  BY <1>1, <1>2, <1>3, <1>4 DEF MovingStep

\* A preempted request goes before everything that waits, and only requests that cannot
\* be preempted are left after it in running_.
LEMMA PreemptionOrder ==
  ASSUME SchedTypeOK, LoopAtRequest, QueueInv, NEW t \in Threads, SchedStep(t),
         phase = "evictFree",
         NEW r, NEW q, r \in Rids, q \in Rids, Preemptible(r), Preemptible(q),
         Before(running \o waiting, r, q)
  PROVE  ~Before(running' \o waiting', q, r)
<1> DEFINE s == running \o waiting
<1>a. waiting \in Seq(Rids) /\ running \in Seq(Rids) /\ s \in Seq(Rids)
  BY ConcatProperties DEF SchedTypeOK
<1>b. WaitingNow = waiting /\ RunningNow = running
  BY DEF WaitingNow, RunningNow
<1>c. NoneTwice(s)
  BY <1>a, <1>b, ConcatHolds DEF QueueInv, InOneQueue
<1>d. ~Before(s, q, r)
  BY <1>a, <1>c, OneOrder
<1>e. \A c, d : \/ Before(running, c, d) \/ Before(waiting, c, d)
                \/ Occurs(running, c) /\ Occurs(waiting, d)
                => Before(s, c, d)
  BY <1>a, ConcatOrder
<1>. HIDE DEF s
<1>1. CASE EvictCommit(t)
  <2> DEFINE h == Head(scan)
             n == Len(scan)
             u == Without(running, h)
             w == <<h>> \o waiting
  <2>1. /\ running' = u /\ waiting' = w /\ scan # <<>> /\ h \in Rids
    BY <1>1, EvictMoves
  <2>2. n \in 1 .. Len(running) /\ running[n] = h /\ Occurs(running, h)
    BY <2>1, VictimRuns DEF QueueInv
  <2>. HIDE DEF h
  <2>3. <<h>> \in Seq(Rids) /\ (\A c : Occurs(<<h>>, c) <=> c = h)
        /\ \A c, d : ~Before(<<h>>, c, d)
    BY <2>1 DEF Occurs, Before
  <2>4. w \in Seq(Rids)
    BY <1>a, <2>3, ConcatProperties
  <2>5. \A c, d : Before(w, c, d) => Before(waiting, c, d) \/ (c = h /\ Occurs(waiting, d))
    BY <1>a, <2>3, ConcatOrder
  <2>6. \A c : Occurs(w, c) => c = h \/ Occurs(waiting, c)
    BY <1>a, <2>3, ConcatHolds
  <2>7. /\ u \in Seq(Rids)
        /\ \A c : Occurs(u, c) => Occurs(running, c) /\ c # h
        /\ \A c, d : Before(u, c, d) => Before(running, c, d)
    BY <1>a, WithoutHolds DEF QueueInv, InOrder
  <2>8. ASSUME Occurs(running, q), q # h, r = h
        PROVE  Before(running, q, r)
    <3>1. PICK j \in 1 .. Len(running) : running[j] = q
      BY <2>8 DEF Occurs
    <3>2. DOMAIN running = 1 .. Len(running) /\ n \in Int /\ j \in Int
      BY <1>a, <2>2, LenProperties
    <3>3. ~(j > n)
      <4>1. state[q] # "PREEMPTED"
        BY <1>b, <2>8 DEF QueueInv, StatesFit
      <4>2. j > n => state[q] # "RUNNING"
        BY <3>1 DEF QueueInv, EvictFits
      <4>. QED  BY <4>1, <4>2 DEF Preemptible
    <3>4. j < n
      BY <2>2, <2>8, <3>1, <3>2, <3>3
    <3>. QED  BY <2>2, <2>8, <3>1, <3>2, <3>4 DEF Before
  <2>. HIDE DEF u, w
  <2>9. ASSUME Before(u \o w, q, r)
        PROVE  FALSE
    <3>1. Before(u, q, r) \/ Before(w, q, r) \/ (Occurs(u, q) /\ Occurs(w, r))
      BY <2>4, <2>7, <2>9, ConcatOrder
    <3>2. ~Before(u, q, r)
      BY <1>d, <1>e, <2>7
    <3>3. ~Before(w, q, r)
      BY <1>d, <1>e, <2>2, <2>5
    <3>4. CASE Occurs(u, q) /\ Occurs(waiting, r)
      BY <1>d, <1>e, <2>7, <3>4
    <3>5. CASE Occurs(u, q) /\ r = h
      BY <1>d, <1>e, <2>7, <2>8, <3>5
    <3>. QED  BY <2>6, <3>1, <3>2, <3>3, <3>4, <3>5
  <2>. QED  BY <2>1, <2>9
<1>2. CASE ~EvictCommit(t)
  <2>1. ~MovingStep(t)
    BY <1>2 DEF MovingStep, Submit, AdmitEmpty, AdmitCommit, RetireCommit, EndRemove,
                Admitting, Holds, QueueInv, LocksFit
  <2>2. UNCHANGED <<WaitingNow, RunningNow>>
    BY <2>1, StillStep DEF QueueInv
  <2>3. waiting' = waiting /\ running' = running
    BY <1>b, <2>2, QueueOrCopy
  <2>. QED  BY <1>d, <2>3 DEF s
<1>. QED  BY <1>1, <1>2

(***************************************************************************)
(* Both queues are first-in first-out, and preemption keeps the order of   *)
(* those it moves.                                                         *)
(***************************************************************************)
THEOREM QueueOrderCorrect == SchedSpec => QueueOrderKept
<1> DEFINE Kept ==
      \A r, q \in Rids :
       /\ Before(waiting, r, q) => ~Before(waiting', q, r)
       /\ Before(running, r, q) => ~Before(running', q, r)
       /\ phase = "evictFree" /\ Preemptible(r) /\ Preemptible(q) =>
            (Before(running \o waiting, r, q) => ~Before(running' \o waiting', q, r))
<1>1. SchedTypeOK /\ LoopAtRequest /\ QueueInv /\ [SchedNext]_schedVars => [Kept]_schedVars
  <2>. SUFFICES ASSUME SchedTypeOK, LoopAtRequest, QueueInv, SchedNext
                PROVE  Kept
    OBVIOUS
  <2>1. PICK t \in Threads : SchedStep(t)
    BY NextIsStep
  <2>. QED  BY <2>1, WaitingOrder, RunningOrder, PreemptionOrder
<1>2. [][SchedTypeOK /\ LoopAtRequest /\ QueueInv /\ [SchedNext]_schedVars]_schedVars
        => [][Kept]_schedVars
  BY <1>1, PTL
<1>3. QueueOrderKept <=> [][Kept]_schedVars
  BY DEF QueueOrderKept
<1>. QED  BY <1>1, <1>3, QueueInduction, PTL DEF SchedSpec

-----------------------------------------------------------------------------
(***************************************************************************)
(* The batch.                                                              *)
(***************************************************************************)

Batching == phase \in {"batch", "retire", "retireFree"}

\* what a batch entry counts: SumFunction of it is BatchTokens
BatchLens == [i \in DOMAIN batch |-> SeqLen(batch[i].rid)]

BatchFits ==
  /\ ~Batching => batch = <<>> /\ tokens = 0
  /\ BatchTokens <= tokens /\ BatchTokens <= MaxTotalTokens
  /\ \A i, j \in DOMAIN batch : batch[i].rid = batch[j].rid => i = j
  /\ phase = "batch" =>
       /\ NoneTwice(scan)
       /\ \A i \in DOMAIN batch, j \in 1 .. Len(scan) : batch[i].rid # scan[j]

\* the steps that neither touch the batch nor the loop that builds it
BatchStep(t) ==
  \/ BatchInclude(t) \/ BatchExclude(t) \/ EndBatch(t)
  \/ EndAdmit(t) \/ EndRetry(t) \/ EndSchedule(t)

LEMMA BatchStays ==
  ASSUME LocksFit, SchedTypeOK, NEW t \in Threads, SchedStep(t), ~BatchStep(t)
  PROVE  /\ UNCHANGED <<batch, tokens>>
         /\ Batching <=> Batching'
         /\ Batching => UNCHANGED <<promptLen, genLen>>
         /\ phase' = "batch" => phase = "batch" /\ UNCHANGED scan
<1>. USE ThreadAssumption DEF LocksFit, Batching, BatchStep, Holds, Admitting
<1>1. CASE AdmitBegin(t)
  BY <1>1 DEF AdmitBegin
<1>2. CASE FreeHeadBlock(t)
  BY <1>2 DEF FreeHeadBlock
<1>3. CASE AllocBlock(t)
  BY <1>3 DEF AllocBlock
<1>4. CASE ReportUnknown(t)
  BY <1>4 DEF ReportUnknown
<1>5. CASE ReportToken(t)
  BY <1>5 DEF ReportToken
<1>6. CASE ReportCommit(t)
  BY <1>6 DEF ReportCommit
<1>7. CASE ReportFail(t)
  BY <1>7 DEF ReportFail
<1>8. CASE \E n \in Nat \ {0} : BeginOwnAlloc(t, n)
  BY <1>8 DEF BeginOwnAlloc
<1>9. CASE OwnAllocFails(t)
  BY <1>9 DEF OwnAllocFails
<1>10. CASE DropOwnBlocks(t)
  BY <1>10 DEF DropOwnBlocks
<1>11. CASE \E n \in PromptLens, m \in MaxNews : Submit(t, n, m)
  BY <1>11 DEF Submit
<1>12. CASE BeginSchedule(t)
  BY <1>12 DEF BeginSchedule
<1>13. CASE \E pairs \in Seq(Report) : BeginReport(t, pairs)
  BY <1>13 DEF BeginReport
<1>14. CASE \E r \in Rids : BeginRemove(t, r)
  BY <1>14 DEF BeginRemove
<1>15. CASE AdmitSkip(t)
  BY <1>15 DEF AdmitSkip
<1>16. CASE AdmitEmpty(t)
  BY <1>16 DEF AdmitEmpty
<1>17. CASE AdmitCommit(t)
  BY <1>17 DEF AdmitCommit
<1>18. CASE AdmitFail(t)
  BY <1>18 DEF AdmitFail
<1>19. CASE EvictSkip(t)
  BY <1>19 DEF EvictSkip
<1>20. CASE EvictBegin(t)
  BY <1>20 DEF EvictBegin
<1>21. CASE EvictCommit(t)
  BY <1>21 DEF EvictCommit
<1>22. CASE EndEvict(t)
  BY <1>22 DEF EndEvict
<1>23. CASE RetireKeep(t)
  BY <1>23 DEF RetireKeep
<1>24. CASE RetireBegin(t)
  BY <1>24 DEF RetireBegin
<1>25. CASE RetireCommit(t)
  BY <1>25 DEF RetireCommit
<1>26. CASE EndReport(t)
  BY <1>26 DEF EndReport
<1>27. CASE EndRemove(t)
  BY <1>27 DEF EndRemove
<1>. QED  BY <1>1, <1>2, <1>3, <1>4, <1>5, <1>6, <1>7, <1>8, <1>9, <1>10, <1>11,
             <1>12, <1>13, <1>14, <1>15, <1>16, <1>17, <1>18, <1>19, <1>20, <1>21,
             <1>22, <1>23, <1>24, <1>25, <1>26, <1>27
          DEF SchedStep, ScheduleStep, ReportStep

LEMMA BatchLensType ==
  ASSUME SchedTypeOK
  PROVE  /\ IsFiniteSet(DOMAIN batch) /\ BatchLens \in [DOMAIN batch -> Nat]
         /\ BatchTokens = SumFunction(BatchLens)
         /\ BatchTokens \in Nat
<1>1. Len(batch) \in Nat /\ DOMAIN batch = 1 .. Len(batch)
      /\ \A i \in DOMAIN batch : batch[i] \in BatchEntry
  BY LenProperties, ElementOfSeq DEF SchedTypeOK
<1>2. IsFiniteSet(DOMAIN batch)
  BY <1>1, FS_Interval
<1>3. ASSUME NEW i \in DOMAIN batch PROVE SeqLen(batch[i].rid) \in Nat
  <2>1. batch[i].rid \in Rids
    BY <1>1 DEF BatchEntry
  <2>. QED  BY <2>1, NumBlocksNat
<1>4. BatchLens \in [DOMAIN batch -> Nat]
  BY <1>3 DEF BatchLens
<1>5. BatchTokens = SumFunction(BatchLens)
  BY DEF BatchTokens, BatchLens
<1>. QED  BY <1>2, <1>4, <1>5, SumBounds

LEMMA EmptyBatch ==
  ASSUME batch = <<>>
  PROVE  BatchTokens = 0
<1> DEFINE w == [i \in DOMAIN <<>> |-> SeqLen(<<>>[i].rid)]
<1>1. w \in [{} -> Int]
  OBVIOUS
<1>2. BatchTokens = SumFunction(w)
  BY DEF BatchTokens
<1>. HIDE DEF w
<1>. QED  BY <1>1, <1>2, SumNone

LEMMA BatchStayFits ==
  ASSUME BatchFits, LocksFit, SchedTypeOK, NEW t \in Threads, SchedStep(t), ~BatchStep(t)
  PROVE  BatchFits'
<1>1. /\ UNCHANGED <<batch, tokens>>
      /\ Batching <=> Batching'
      /\ Batching => UNCHANGED <<promptLen, genLen>>
      /\ phase' = "batch" => phase = "batch" /\ UNCHANGED scan
  BY BatchStays
<1>2. BatchTokens' = BatchTokens
  <2>1. CASE Batching
    BY <1>1, <2>1 DEF BatchTokens, SeqLen
  <2>2. CASE ~Batching
    <3>1. batch = <<>> /\ batch' = <<>>
      BY <1>1, <2>2 DEF BatchFits
    <3>2. BatchTokens = 0
      BY <3>1, EmptyBatch
    <3>3. BatchTokens' = 0
      <4> DEFINE w == [i \in DOMAIN <<>> |-> SeqLen(<<>>[i].rid)']
      <4>1. w \in [{} -> Int]
        OBVIOUS
      <4>2. BatchTokens' = SumFunction(w)
        BY <3>1 DEF BatchTokens
      <4>. HIDE DEF w
      <4>. QED  BY <4>1, <4>2, SumNone
    <3>. QED  BY <3>2, <3>3
  <2>. QED  BY <2>1, <2>2
<1>. QED  BY <1>1, <1>2 DEF BatchFits, NoneTwice

LEMMA BatchMoves ==
  ASSUME SchedTypeOK, LoopAtRequest, LocksFit, InOrder, BatchFits,
         NEW t \in Threads, BatchStep(t)
  PROVE  BatchFits'
<1>. USE DEF Holds
<1>1. CASE EndAdmit(t) \/ EndRetry(t)
  <2>1. /\ UNCHANGED <<batch, tokens, promptLen, genLen, running>>
        /\ ~Batching
        /\ phase' = "batch" => scan' = running
    BY <1>1 DEF EndAdmit, EndRetry, Batching
  <2>2. batch = <<>> /\ tokens = 0
    BY <2>1 DEF BatchFits
  <2>3. BatchTokens' = BatchTokens
    BY <2>1 DEF BatchTokens, SeqLen
  <2>4. NoneTwice(running)
    BY DEF InOrder
  <2>. QED  BY <2>1, <2>2, <2>3, <2>4 DEF BatchFits
<1>2. CASE EndSchedule(t)
  <2>1. batch' = <<>> /\ tokens' = 0 /\ phase' = "idle"
    BY <1>2 DEF EndSchedule
  <2>2. BatchTokens' = 0
    <4> DEFINE w == [i \in DOMAIN <<>> |-> SeqLen(<<>>[i].rid)']
    <4>1. w \in [{} -> Int]
      OBVIOUS
    <4>2. BatchTokens' = SumFunction(w)
      BY <2>1 DEF BatchTokens
    <4>. HIDE DEF w
    <4>. QED  BY <4>1, <4>2, SumNone
  <2>. QED  BY <2>1, <2>2, LimitAssumption DEF BatchFits
<1>3. CASE EndBatch(t)
  <2>1. /\ UNCHANGED <<batch, tokens, promptLen, genLen>>
        /\ Batching /\ Batching' /\ phase' = "retire"
    BY <1>3 DEF EndBatch, Batching
  <2>2. BatchTokens' = BatchTokens
    BY <2>1 DEF BatchTokens, SeqLen
  <2>. QED  BY <2>1, <2>2 DEF BatchFits
<1>4. CASE BatchExclude(t)
  <2>1. /\ UNCHANGED <<batch, promptLen, genLen, phase>>
        /\ phase = "batch" /\ scan # <<>> /\ scan' = Tail(scan)
        /\ tokens' = tokens \/ tokens' = tokens + SeqLen(Head(scan))
    BY <1>4 DEF BatchExclude
  <2>2. BatchTokens' = BatchTokens
    BY <2>1 DEF BatchTokens, SeqLen
  <2>3. BatchTokens <= tokens'
    <3>1. Head(scan) \in Rids
      BY <2>1, ScanType
    <3>2. SeqLen(Head(scan)) \in Nat /\ tokens \in Nat
      BY <3>1, AddNat DEF SchedTypeOK, SeqLen
    <3>3. BatchTokens <= tokens /\ BatchTokens \in Nat
      BY BatchLensType DEF BatchFits
    <3>. QED  BY <2>1, <3>2, <3>3
  <2>4. NoneTwice(scan') /\ \A c : Occurs(scan', c) => Occurs(scan, c)
    <3>1. scan \in Seq(Rids) /\ NoneTwice(scan)
      BY <2>1 DEF SchedTypeOK, BatchFits
    <3>. QED  BY <2>1, <3>1, TailHolds
  <2>. QED  BY <2>1, <2>2, <2>3, <2>4 DEF BatchFits, Batching, Occurs
<1>5. CASE BatchInclude(t)
  <2> DEFINE r == Head(scan)
             e == [rid |-> r, prefill |-> r \in admitted]
             n == Len(batch)
  <2>1. /\ UNCHANGED <<promptLen, genLen, phase>>
        /\ phase = "batch" /\ scan # <<>> /\ scan' = Tail(scan)
        /\ tokens + SeqLen(r) <= MaxTotalTokens
        /\ tokens' = tokens + SeqLen(r)
        /\ batch' = Append(batch, e)
    BY <1>5 DEF BatchInclude, FitsBatch
  <2>2. /\ scan \in Seq(Rids) /\ NoneTwice(scan) /\ r \in Rids
        /\ batch \in Seq(BatchEntry) /\ e \in BatchEntry /\ e.rid = r
        /\ tokens \in Nat /\ SeqLen(r) \in Nat
    <3>1. scan \in Seq(Rids) /\ NoneTwice(scan) /\ r \in Rids
      BY <2>1, ScanType DEF SchedTypeOK, BatchFits
    <3>2. batch \in Seq(BatchEntry) /\ e \in BatchEntry /\ e.rid = r
      BY <3>1 DEF SchedTypeOK, BatchEntry
    <3>3. tokens \in Nat /\ SeqLen(r) \in Nat
      BY <3>1, AddNat DEF SchedTypeOK, SeqLen
    <3>. QED  BY <3>1, <3>2, <3>3
  <2>. HIDE DEF e, r
  <2>3. /\ n \in Nat /\ DOMAIN batch = 1 .. n /\ DOMAIN batch' = 1 .. n + 1
        /\ \A i \in 1 .. n : batch'[i] = batch[i]
        /\ batch'[n + 1] = e
    BY <2>1, <2>2, AppendProperties, LenProperties
  <2>. HIDE DEF n
  <2>4. BatchTokens' = BatchTokens + SeqLen(r)
    <3> DEFINE S == DOMAIN batch
               x == n + 1
               g == [i \in DOMAIN batch' |-> SeqLen(batch'[i].rid)]
    <3>1. DOMAIN batch' = S \cup {x} /\ x \notin S
      BY <2>3
    <3>2. \A y \in S : g[y] = BatchLens[y]
      BY <2>3, <3>1 DEF BatchLens
    <3>3. g[x] = SeqLen(r)
      BY <2>2, <2>3, <3>1
    <3>4. IsFiniteSet(S) /\ BatchLens \in [S -> Nat] /\ BatchTokens = SumFunction(BatchLens)
      BY BatchLensType
    <3>5. BatchTokens' = SumFunction(g)
      BY <2>1 DEF BatchTokens, SeqLen
    <3>6. DOMAIN g = S \cup {x} /\ g = [i \in S \cup {x} |-> g[i]]
      BY <3>1
    <3>. HIDE DEF S, x, g
    <3>7. \A i \in S \cup {x} : g[i] \in Int
      <4>1. g[x] \in Int
        BY <2>2, <3>3
      <4>2. \A i \in S : g[i] \in Int
        BY <3>2, <3>4
      <4>. QED  BY <4>1, <4>2
    <3>8. g \in [S \cup {x} -> Int] /\ BatchLens \in [S -> Int]
      BY <3>4, <3>6, <3>7
    <3>9. IsFiniteSet(S)
      BY <3>4
    <3>10. SumFunction(g) = SumFunction(BatchLens) + g[x]
      BY <3>1, <3>2, <3>8, <3>9, SumExtend
    <3>. QED  BY <3>3, <3>4, <3>5, <3>10
  <2>5. BatchTokens' <= tokens' /\ BatchTokens' <= MaxTotalTokens
    <3>1. BatchTokens <= tokens /\ BatchTokens \in Nat /\ MaxTotalTokens \in Nat
      BY BatchLensType, LimitAssumption DEF BatchFits
    <3>. QED  BY <2>1, <2>2, <2>4, <3>1
  <2>6. NoneTwice(scan') /\ Occurs(scan, r) /\ \A c : Occurs(scan', c) <=> Occurs(scan, c) /\ c # r
    BY <2>1, <2>2, TailHolds DEF r
  <2>7. \A i \in DOMAIN batch : ~Occurs(scan, batch[i].rid)
    BY <2>1 DEF BatchFits, Occurs
  <2>8. \A i \in DOMAIN batch' : ~Occurs(scan', batch'[i].rid)
    <3>. SUFFICES ASSUME NEW i \in 1 .. n + 1 PROVE ~Occurs(scan', batch'[i].rid)
      BY <2>3
    <3>1. CASE i = n + 1
      BY <3>1, <2>2, <2>3, <2>6
    <3>2. CASE i # n + 1
      <4>1. i \in 1 .. n
        BY <2>3, <3>2
      <4>. QED  BY <4>1, <2>3, <2>6, <2>7
    <3>. QED  BY <3>1, <3>2
  <2>9. ASSUME NEW i \in DOMAIN batch', NEW j \in DOMAIN batch', batch'[i].rid = batch'[j].rid
        PROVE  i = j
    <3>1. \A k \in 1 .. n : batch'[k].rid # r
      BY <2>3, <2>6, <2>7
    <3>2. batch'[n + 1].rid = r
      BY <2>2, <2>3
    <3>3. \A k \in 1 .. n + 1 : k = n + 1 \/ k \in 1 .. n
      BY <2>3
    <3>4. (i \in 1 .. n /\ j \in 1 .. n) \/ (i = n + 1 /\ j = n + 1)
      BY <2>3, <2>9, <3>1, <3>2, <3>3
    <3>. QED  BY <2>3, <2>9, <3>4 DEF BatchFits
  <2>10. Batching' /\ (phase' = "batch" =>
           \A i \in DOMAIN batch', j \in 1 .. Len(scan') : batch'[i].rid # scan'[j])
    BY <2>1, <2>8 DEF Occurs, Batching
  <2>. QED  BY <2>5, <2>6, <2>9, <2>10 DEF BatchFits
<1>. QED  BY <1>1, <1>2, <1>3, <1>4, <1>5 DEF BatchStep

LEMMA BatchFitsStep ==
  ASSUME SchedTypeOK, LoopAtRequest, QueueInv, BatchFits, NEW t \in Threads, SchedStep(t)
  PROVE  BatchFits'
  BY BatchStayFits, BatchMoves DEF QueueInv

LEMMA BatchFitsFrame ==
  ASSUME BatchFits, UNCHANGED <<promptLen, genLen, phase, scan, batch, tokens>>
  PROVE  BatchFits'
<1>1. BatchTokens' = BatchTokens
  BY DEF BatchTokens, SeqLen
<1>. QED  BY <1>1 DEF BatchFits, Batching, NoneTwice

LEMMA BatchFitsInit == SchedInit => BatchFits
<1>. SUFFICES ASSUME SchedInit PROVE BatchFits
  OBVIOUS
<1>1. batch = <<>> /\ tokens = 0 /\ phase = "idle" /\ DOMAIN batch = {}
  BY DEF SchedInit
<1>2. BatchTokens = 0
  BY <1>1, EmptyBatch
<1>. QED  BY <1>1, <1>2, LimitAssumption DEF BatchFits

\* A schedule() call never hands out a batch above max_total_tokens_, nor one that names
\* a request twice.
THEOREM BatchWithinLimitsCorrect == SchedSpec => []BatchWithinLimits
<1>1. SchedInit => BatchFits
  BY BatchFitsInit
<1>2. SchedTypeOK /\ LoopAtRequest /\ QueueInv /\ BatchFits /\ [SchedNext]_schedVars => BatchFits'
  <2>. SUFFICES ASSUME SchedTypeOK, LoopAtRequest, QueueInv, BatchFits, [SchedNext]_schedVars
                PROVE  BatchFits'
    OBVIOUS
  <2>1. CASE SchedNext
    BY <2>1, NextIsStep, BatchFitsStep
  <2>2. CASE UNCHANGED schedVars
    BY <2>2, BatchFitsFrame
  <2>. QED  BY <2>1, <2>2
<1>3. BatchFits => BatchWithinLimits
  BY DEF BatchFits, BatchWithinLimits
<1>. QED  BY <1>1, <1>2, <1>3, QueueInduction, PTL DEF SchedSpec

=============================================================================
