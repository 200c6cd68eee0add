------------------------------ MODULE TPProofs ------------------------------
(***************************************************************************)
(* Proofs about a tensor-parallel job, for every number of ranks, every    *)
(* checkpoint, every batch and every number of errors.                     *)
(***************************************************************************)
EXTENDS TensorParallel, FiniteSetTheorems, SequenceTheorems, TLAPS

USE DEF tpVars, initRest, forwardRest

-----------------------------------------------------------------------------
(* The splitting arithmetic.                                                *)

LEMMA DivMod ==
  ASSUME NEW d \in Nat, NEW n \in Nat \ {0}
  PROVE  /\ d \div n \in Nat /\ d % n \in 0 .. n - 1
         /\ d = n * (d \div n) + (d % n)
  OBVIOUS

LEMMA TimesNat == \A a, b \in Nat : a * b \in Nat
  OBVIOUS

LEMMA Distributes == \A q, k \in Int : q * (k + 1) = q * k + q
  OBVIOUS

LEMMA Commutes == \A a, b \in Int : a * b = b * a
  OBVIOUS

LEMMA OneMore ==
  ASSUME NEW a \in Nat, NEW b \in Nat
  PROVE  a * b \in Nat /\ (a + 1) * b = a * b + b
<1>1. (a + 1) * b = b * (a + 1) /\ b * a = a * b
  BY Commutes
<1>2. b * (a + 1) = b * a + b
  BY Distributes
<1>. QED  BY <1>1, <1>2, TimesNat

LEMMA TimesGrows ==
  ASSUME NEW a \in Nat, NEW b \in Nat, NEW c \in Nat
  PROVE  /\ a <= b => a * c <= b * c
         /\ a < b /\ c > 0 => a * c < b * c
<1>1. ASSUME a <= b
      PROVE  b * c = a * c + (b - a) * c /\ b - a \in Nat
  BY <1>1
<1>2. ASSUME a < b
      PROVE  (b - a) * c >= c
  BY <1>2
<1>3. ASSUME a <= b
      PROVE  (b - a) * c \in Nat
  BY <1>1, <1>3, TimesNat
<1>4. a * c \in Nat /\ b * c \in Nat
  BY TimesNat
<1>. QED  BY <1>1, <1>2, <1>3, <1>4

\* What is a multiple of n divides without a rest.
LEMMA Multiple ==
  ASSUME NEW n \in Nat \ {0}, NEW m \in Nat
  PROVE  (m * n) \div n = m /\ (m * n) % n = 0
  OBVIOUS

LEMMA SplitDimType ==
  ASSUME NEW d \in Nat, NEW n \in Nat \ {0}, NEW k \in 0 .. n - 1
  PROVE  SplitDim(d, n, k).off \in Nat /\ SplitDim(d, n, k).len \in Nat
<1> DEFINE q == d \div n
           m == d % n
<1>1. q \in Nat /\ m \in Nat /\ q * k \in Nat
  BY DivMod, TimesNat
<1>2. /\ SplitDim(d, n, k).off = q * k + (IF k < m THEN k ELSE m)
      /\ SplitDim(d, n, k).len = q + (IF k < m THEN 1 ELSE 0)
  BY DEF SplitDim
<1>. HIDE DEF q, m
<1>. QED  BY <1>1, <1>2

\* tp_split_dim covers the dimension: it starts at 0, a part begins where the one before ends,
\* and the last one ends where the dimension does.
LEMMA SplitDimTiles ==
  ASSUME NEW d \in Nat, NEW n \in Nat \ {0}, NEW k \in 0 .. n - 1
  PROVE  /\ SplitDim(d, n, 0).off = 0
         /\ k + 1 < n => SplitDim(d, n, k).off + SplitDim(d, n, k).len = SplitDim(d, n, k + 1).off
         /\ k + 1 = n => SplitDim(d, n, k).off + SplitDim(d, n, k).len = d
<1> DEFINE q == d \div n
           m == d % n
           p == q * k
<1>1. /\ q \in Nat /\ m \in 0 .. n - 1
      /\ d = n * q + m
  BY DivMod
<1>2. /\ p \in Nat /\ q * (k + 1) = p + q /\ q * 0 = 0
      /\ k + 1 = n => n * q = p + q
  BY <1>1, TimesNat, Distributes, Commutes
<1>3. /\ SplitDim(d, n, 0).off = q * 0 + (IF 0 < m THEN 0 ELSE m)
      /\ SplitDim(d, n, k).off = p + (IF k < m THEN k ELSE m)
      /\ SplitDim(d, n, k).len = q + (IF k < m THEN 1 ELSE 0)
      /\ SplitDim(d, n, k + 1).off = q * (k + 1) + (IF k + 1 < m THEN k + 1 ELSE m)
  BY DEF SplitDim
<1>. HIDE DEF q, m, p
<1>. QED  BY <1>1, <1>2, <1>3

LEMMA SplitHeadsSame ==
  ASSUME NEW d, NEW n, NEW j, NEW k
  PROVE  SplitHeads(d, n, j).len = SplitHeads(d, n, k).len
  BY DEF SplitHeads

-----------------------------------------------------------------------------
(* Types.                                                                   *)

LEMMA JobType ==
  ASSUME job \in Jobs
  PROVE  /\ job.size \in Nat \ {0} /\ job.passes \in Nat
         /\ job.files.heads \in Nat \ {0} /\ job.files.hidden \in Nat \ {0}
         /\ job.files.kvHeads \in Nat /\ job.files.headDim \in Nat /\ job.files.ffn \in Nat
         /\ job.files.layers \in Nat /\ job.files.experts \in Nat
         /\ job.batch \in Nat /\ job.seq \in Nat
  BY JobsAssumption

LEMMA TypeInit == TPInit => TPTypeOK
  BY JobType DEF TPInit, TPTypeOK, Ranks, Sites

\* Where a host thread may be.
Places == Sites \cup {"start", "join", "failed", "ready", "loaded", "sync", "aborted", "freed", "done"}

Configs == [size : Nat, rank : Nat, comm : BOOLEAN, stream : BOOLEAN]

LEMMA TypeParts ==
  TPTypeOK <=> /\ job \in Jobs /\ sharedId \in BOOLEAN
               /\ g_tp \in [Ranks -> Configs] /\ pc \in [Ranks -> Places]
               /\ layer \in [Ranks -> Nat] /\ forwards \in [Ranks -> 0 .. job.passes]
               /\ ran \in Nat /\ failed \subseteq Ranks
  BY DEF TPTypeOK, Configs, Places

LEMMA GotoType ==
  ASSUME pc \in [Ranks -> Places], NEW r \in Ranks, NEW p \in Places, Goto(r, p)
  PROVE  pc' \in [Ranks -> Places]
  BY DEF Goto

LEMMA SetRankType ==
  ASSUME TPTypeOK, NEW r \in Ranks, SetRank(r)
  PROVE  /\ g_tp' \in [Ranks -> Configs]
         /\ g_tp'[r].size = job.size /\ g_tp'[r].rank = r
         /\ \A q \in Ranks \ {r} : g_tp'[q] = g_tp[q]
<1>1. r \in Nat /\ job.size \in Nat /\ g_tp[r] \in Configs /\ g_tp \in [Ranks -> Configs]
  BY JobType, TypeParts DEF Ranks
<1>2. g_tp' = [g_tp EXCEPT ![r] = [[g_tp[r] EXCEPT !.size = job.size] EXCEPT !.rank = r]]
  BY <1>1 DEF SetRank, Configs
<1>3. [[g_tp[r] EXCEPT !.size = job.size] EXCEPT !.rank = r] \in Configs
  BY <1>1 DEF Configs
<1>4. /\ [[g_tp[r] EXCEPT !.size = job.size] EXCEPT !.rank = r].size = job.size
      /\ [[g_tp[r] EXCEPT !.size = job.size] EXCEPT !.rank = r].rank = r
  BY <1>1 DEF Configs
<1>. QED  BY <1>1, <1>2, <1>3, <1>4

LEMMA AdvanceType ==
  ASSUME pc \in [Ranks -> Places], layer \in [Ranks -> Nat], NEW r \in Ranks, Advance(r)
  PROVE  pc' \in [Ranks -> Places] /\ layer' \in [Ranks -> Nat]
<1>1. {"q", "k", "v", "o", "mlp", "sync"} \subseteq Places
  BY DEF Places, Sites
<1>2. CASE LayerEnds(r)
  BY <1>1, <1>2, GotoType DEF LayerEnds
<1>3. CASE UNCHANGED layer /\ \E p \in Places : Goto(r, p)
  BY <1>3, GotoType
<1>. QED  BY <1>1, <1>2, <1>3 DEF Advance

LEMMA TypeHost ==
  ASSUME TPTypeOK, NEW r \in Ranks, HostStep(r)
  PROVE  TPTypeOK'
<1>1. /\ job \in Jobs /\ sharedId \in BOOLEAN
      /\ g_tp \in [Ranks -> Configs] /\ pc \in [Ranks -> Places]
      /\ layer \in [Ranks -> Nat] /\ forwards \in [Ranks -> 0 .. job.passes]
      /\ ran \in Nat /\ failed \subseteq Ranks
  BY TypeParts
<1>2. /\ {"failed", "ready", "join", "loaded", "freed", "done", "q", "sync"} \subseteq Places
      /\ r \in Nat /\ job.passes \in Nat
  BY <1>1, JobType DEF Places, Sites, Ranks
<1>3. job' = job => Ranks' = Ranks
  BY DEF Ranks
<1>4. ASSUME job' = job, sharedId' = sharedId, g_tp' \in [Ranks -> Configs], pc' \in [Ranks -> Places],
             layer' \in [Ranks -> Nat], forwards' \in [Ranks -> 0 .. job.passes],
             ran' = ran, failed' = failed
      PROVE  TPTypeOK'
  BY <1>1, <1>3, <1>4 DEF TPTypeOK, Configs, Places
<1>5. CASE InitRejects(r)
  BY <1>5, <1>1, <1>2, <1>4, GotoType DEF InitRejects
<1>6. CASE InitAlone(r)
  <2>1. [size |-> 1, rank |-> r, comm |-> FALSE, stream |-> TRUE] \in Configs
    BY <1>2 DEF Configs
  <2>. QED  BY <2>1, <1>6, <1>1, <1>2, <1>4, GotoType DEF InitAlone
<1>7. CASE BeginJoin(r)
  BY <1>7, <1>1, <1>2, <1>4, GotoType, SetRankType DEF BeginJoin
<1>8. CASE Load(r)
  BY <1>8, <1>1, <1>2, <1>4, GotoType DEF Load
<1>9. CASE BeginForward(r)
  <2>1. layer' \in [Ranks -> Nat] /\ pc' \in [Ranks -> Places]
    BY <1>9, <1>1, <1>2, GotoType DEF BeginForward
  <2>2. forwards[r] + 1 \in 0 .. job.passes
    BY <1>9, <1>1, <1>2 DEF BeginForward
  <2>3. forwards' \in [Ranks -> 0 .. job.passes]
    BY <1>9, <1>1, <2>2 DEF BeginForward
  <2>. QED  BY <2>1, <2>3, <1>9, <1>1, <1>4 DEF BeginForward
<1>10. CASE Enqueue(r) \/ PassSite(r)
  <2>1. pc' \in [Ranks -> Places] /\ layer' \in [Ranks -> Nat]
    BY <1>10, <1>1, AdvanceType DEF Enqueue, PassSite
  <2>. QED  BY <2>1, <1>10, <1>1, <1>4 DEF Enqueue, PassSite
<1>11. CASE EndForward(r)
  BY <1>11, <1>1, <1>2, <1>4, GotoType DEF EndForward
<1>12. CASE Free(r)
  BY <1>12, <1>1, <1>2, <1>4, GotoType DEF Free
<1>13. CASE Finalize(r)
  <2>1. [size |-> 1, rank |-> 0, comm |-> FALSE, stream |-> FALSE] \in Configs
    BY DEF Configs
  <2>. QED  BY <2>1, <1>13, <1>1, <1>2, <1>4, GotoType DEF Finalize
<1>. QED  BY <1>5, <1>6, <1>7, <1>8, <1>9, <1>10, <1>11, <1>12, <1>13 DEF HostStep

LEMMA TypeFault ==
  ASSUME TPTypeOK, NEW r \in Ranks, Fault(r)
  PROVE  TPTypeOK'
<1>1. /\ job \in Jobs /\ sharedId \in BOOLEAN
      /\ g_tp \in [Ranks -> Configs] /\ pc \in [Ranks -> Places]
      /\ layer \in [Ranks -> Nat] /\ forwards \in [Ranks -> 0 .. job.passes]
      /\ ran \in Nat /\ failed \subseteq Ranks
  BY TypeParts
<1>2. {"failed", "aborted"} \subseteq Places
  BY DEF Places
<1>3. job' = job => Ranks' = Ranks
  BY DEF Ranks
<1>4. ASSUME job' = job, sharedId' = sharedId, g_tp' \in [Ranks -> Configs], pc' \in [Ranks -> Places],
             layer' \in [Ranks -> Nat], forwards' = forwards, ran' = ran, failed' \subseteq Ranks
      PROVE  TPTypeOK'
  BY <1>1, <1>3, <1>4 DEF TPTypeOK, Configs, Places
<1>5. CASE SetDeviceFails(r)
  BY <1>5, <1>1, <1>2, <1>4, GotoType, SetRankType DEF SetDeviceFails
<1>6. CASE JoinFails(r)
  BY <1>6, <1>1, <1>2, <1>4, GotoType DEF JoinFails
<1>7. CASE EnqueueFails(r)
  <2>1. pc' \in [Ranks -> Places] /\ layer' \in [Ranks -> Nat]
    BY <1>7, <1>1, AdvanceType DEF EnqueueFails
  <2>. QED  BY <2>1, <1>7, <1>1, <1>4 DEF EnqueueFails
<1>8. CASE CudaAborts(r)
  BY <1>8, <1>1, <1>2, <1>4, GotoType DEF CudaAborts
<1>. QED  BY <1>5, <1>6, <1>7, <1>8 DEF Fault

LEMMA TypeStep ==
  ASSUME TPTypeOK, [TPNext]_tpVars
  PROVE  TPTypeOK'
<1>1. CASE JoinAll
  <2>1. \A q \in Ranks : [g_tp[q] EXCEPT !.comm = TRUE, !.stream = TRUE] \in Configs
    BY TypeParts DEF Configs
  <2>2. g_tp' \in [Ranks -> Configs]
    BY <1>1, <2>1 DEF JoinAll
  <2>3. pc' \in [Ranks -> Places]
    BY <1>1 DEF JoinAll, Places
  <2>. QED  BY <1>1, <2>2, <2>3, TypeParts DEF JoinAll, TPTypeOK, Configs, Places, Ranks
<1>2. CASE RunCollective
  <2>1. ran' = ran + 1 /\ UNCHANGED <<job, sharedId, g_tp, pc, layer, forwards, failed>>
    BY <1>2 DEF RunCollective
  <2>2. ran' \in Nat
    BY <2>1, TypeParts
  <2>. QED  BY <2>1, <2>2 DEF TPTypeOK, Ranks
<1>3. CASE UNCHANGED tpVars
  BY <1>3 DEF TPTypeOK, Ranks
<1>4. CASE \E r \in Ranks : HostStep(r) \/ Fault(r)
  BY <1>4, TypeHost, TypeFault
<1>5. TPNext => JoinAll \/ RunCollective \/ \E r \in Ranks : HostStep(r) \/ Fault(r)
  BY Zenon DEF TPNext
<1>. QED  BY <1>1, <1>2, <1>3, <1>4, <1>5, Zenon

\* The variables of a job keep their types, whatever fails (TPTypeOK).
THEOREM TPTypeCorrect == TPSpec => []TPTypeOK
  BY TypeInit, TypeStep, PTL DEF TPSpec

-----------------------------------------------------------------------------
(* What a rank knows of the job, and the model it has loaded.               *)

\* A rank on its way through the job has the size and the rank it was started with, and the
\* slices that are its own.
RankKnowsJob ==
  /\ DOMAIN model = Ranks
  /\ \A r \in Ranks :
       /\ pc[r] \in {"join", "ready", "loaded", "sync"} \cup Sites =>
            g_tp[r].size = job.size /\ g_tp[r].rank = r
       /\ pc[r] \in {"loaded", "sync"} \cup Sites => model[r] = LoadModel(job.files, job.size, r)
       /\ model[r] # NoModel => model[r] = LoadModel(job.files, job.size, r)

LEMMA KnowsInit == TPInit => RankKnowsJob
  BY DEF TPInit, RankKnowsJob, Sites

\* A rank that moves on without touching its model or its place in the job.
LEMMA KnowsMove ==
  ASSUME TPTypeOK, RankKnowsJob, NEW r \in Ranks, UNCHANGED <<job, g_tp, model>>,
         pc' = [pc EXCEPT ![r] = pc'[r]],
         \/ pc'[r] \in {"failed", "aborted", "freed"}
         \/ pc[r] \in {"loaded", "sync"} \cup Sites
  PROVE  RankKnowsJob'
  BY TypeParts DEF RankKnowsJob, Ranks, Sites

LEMMA KnowsHost ==
  ASSUME TPTypeOK, RankKnowsJob, NEW r \in Ranks, HostStep(r)
  PROVE  RankKnowsJob'
<1>1. g_tp \in [Ranks -> Configs] /\ pc \in [Ranks -> Places] /\ (job' = job => Ranks' = Ranks)
  BY TypeParts DEF Ranks
<1>2. CASE InitRejects(r)
  BY <1>2, <1>1, KnowsMove DEF InitRejects, Goto
<1>3. CASE InitAlone(r)
  BY <1>3, <1>1 DEF InitAlone, RankKnowsJob, Goto, Sites
<1>4. CASE BeginJoin(r)
  BY <1>4, <1>1, SetRankType DEF BeginJoin, RankKnowsJob, Goto, Sites
<1>5. CASE Load(r)
  <2>1. g_tp[r].size = job.size /\ g_tp[r].rank = r
    BY <1>5 DEF Load, RankKnowsJob
  <2>. QED  BY <2>1, <1>5, <1>1 DEF Load, RankKnowsJob, Goto
<1>6. CASE BeginForward(r)
  BY <1>6, <1>1, KnowsMove DEF BeginForward, Goto
<1>7. CASE Enqueue(r) \/ PassSite(r)
  BY <1>7, <1>1, KnowsMove DEF Enqueue, PassSite, Advance, LayerEnds, Goto
<1>8. CASE EndForward(r)
  BY <1>8, <1>1, KnowsMove DEF EndForward, Goto
<1>9. CASE Free(r)
  BY <1>9, <1>1 DEF Free, RankKnowsJob, Goto, Sites
<1>10. CASE Finalize(r)
  BY <1>10, <1>1 DEF Finalize, RankKnowsJob, Goto, Sites
<1>. QED  BY <1>2, <1>3, <1>4, <1>5, <1>6, <1>7, <1>8, <1>9, <1>10 DEF HostStep

LEMMA KnowsFault ==
  ASSUME TPTypeOK, RankKnowsJob, NEW r \in Ranks, Fault(r)
  PROVE  RankKnowsJob'
<1>1. g_tp \in [Ranks -> Configs] /\ pc \in [Ranks -> Places] /\ (job' = job => Ranks' = Ranks)
  BY TypeParts DEF Ranks
<1>2. CASE SetDeviceFails(r)
  BY <1>2, <1>1, SetRankType DEF SetDeviceFails, RankKnowsJob, Goto, Sites
<1>3. CASE JoinFails(r)
  BY <1>3, <1>1, KnowsMove DEF JoinFails, Goto
<1>4. CASE EnqueueFails(r)
  BY <1>4, <1>1, KnowsMove DEF EnqueueFails, Advance, LayerEnds, Goto
<1>5. CASE CudaAborts(r)
  BY <1>5, <1>1, KnowsMove DEF CudaAborts, Goto
<1>. QED  BY <1>2, <1>3, <1>4, <1>5 DEF Fault

LEMMA KnowsStep ==
  ASSUME TPTypeOK, RankKnowsJob, [TPNext]_tpVars
  PROVE  RankKnowsJob'
<1>1. CASE JoinAll
  <2>1. \A q \in Ranks : /\ g_tp'[q].size = g_tp[q].size /\ g_tp'[q].rank = g_tp[q].rank
                        /\ pc[q] = "join" /\ pc'[q] = "ready"
    BY <1>1, TypeParts DEF JoinAll, Configs
  <2>2. job' = job /\ model' = model /\ Ranks' = Ranks
    BY <1>1 DEF JoinAll, Ranks
  <2>. QED  BY <2>1, <2>2 DEF RankKnowsJob, Sites
<1>2. CASE RunCollective \/ UNCHANGED tpVars
  BY <1>2 DEF RunCollective, RankKnowsJob, Ranks
<1>3. CASE \E r \in Ranks : HostStep(r) \/ Fault(r)
  BY <1>3, KnowsHost, KnowsFault
<1>. QED  BY <1>1, <1>2, <1>3 DEF TPNext

LEMMA Knows == TPSpec => [](TPTypeOK /\ RankKnowsJob)
<1>1. TPInit => TPTypeOK /\ RankKnowsJob
  BY TypeInit, KnowsInit
<1>2. TPTypeOK /\ RankKnowsJob /\ [TPNext]_tpVars => (TPTypeOK /\ RankKnowsJob)'
  BY TypeStep, KnowsStep
<1>. QED  BY <1>1, <1>2, PTL DEF TPSpec

-----------------------------------------------------------------------------
(* The slices.                                                              *)

LEMMA ShapeType ==
  ASSUME job \in Jobs, NEW t
  PROVE  ShapeOf(job.files, t).rows \in Nat /\ ShapeOf(job.files, t).cols \in Nat
<1>1. HeadDim(job.files) \in Nat /\ KvHeads(job.files) \in Nat
  BY JobType, DivMod DEF HeadDim, KvHeads
<1>2. /\ job.files.heads * HeadDim(job.files) \in Nat
      /\ KvHeads(job.files) * HeadDim(job.files) \in Nat
  BY <1>1, JobType, TimesNat
<1>. QED  BY <1>2, JobType DEF ShapeOf

\* the full length of a split weight and a rank's part of it
Full(t)    == IF SplitOf(t) = 0 THEN ShapeOf(job.files, t).rows ELSE ShapeOf(job.files, t).cols
Part(t, r) == IF job.size > 1 THEN SplitDim(Full(t), job.size, r) ELSE Whole(Full(t))

LEMMA PartOfSlice ==
  ASSUME TPTypeOK, RankKnowsJob, NEW r \in Ranks, Loaded(r), NEW t \in Matrices(job.files)
  PROVE  (IF SplitOf(t) = 0 THEN model[r].slice[t].rows ELSE model[r].slice[t].cols) = Part(t, r)
<1>1. model[r].slice[t] = SliceOf(job.files, t, job.size, r)
  BY DEF RankKnowsJob, Loaded, LoadModel
<1>2. SplitOf(t) \in {0, 1}
  BY DEF Matrices, SplitOf, NoSplit
<1>. QED  BY <1>1, <1>2 DEF SliceOf, LoadSlice, Part, Full

LEMMA SlicesTileStep ==
  ASSUME TPTypeOK, RankKnowsJob
  PROVE  SlicesTile
<1>1. job \in Jobs /\ job.size \in Nat \ {0}
  BY JobType DEF TPTypeOK
<1>2. ASSUME NEW t \in Matrices(job.files), NEW r \in Ranks
      PROVE  /\ r = 0 => Part(t, r).off = 0
             /\ r + 1 \in Ranks => Part(t, r).off + Part(t, r).len = Part(t, r + 1).off
             /\ r + 1 \notin Ranks => Part(t, r).off + Part(t, r).len = Full(t)
  <2>1. Full(t) \in Nat /\ r \in 0 .. job.size - 1
    BY <1>1, ShapeType DEF Full, Ranks
  <2>2. CASE job.size > 1
    BY <1>1, <2>1, <2>2, SplitDimTiles DEF Part, Ranks
  <2>3. CASE job.size = 1
    BY <2>1, <2>3 DEF Part, Ranks, Whole
  <2>. QED  BY <1>1, <2>2, <2>3
<1> DEFINE Slice(t, r) == IF SplitOf(t) = 0 THEN model[r].slice[t].rows
                                             ELSE model[r].slice[t].cols
<1>3. ASSUME NEW t \in Matrices(job.files), NEW r \in Ranks, Loaded(r)
      PROVE  Slice(t, r) = Part(t, r)
  BY <1>3, PartOfSlice
<1>4. ASSUME NEW t \in Matrices(job.files), NEW r \in Ranks, Loaded(r)
      PROVE  /\ r = 0 => Slice(t, r).off = 0
             /\ r + 1 \in Ranks /\ Loaded(r + 1) =>
                  Slice(t, r).off + Slice(t, r).len = Slice(t, r + 1).off
             /\ r + 1 \notin Ranks => Slice(t, r).off + Slice(t, r).len = Full(t)
  <2>. HIDE DEF Slice
  <2>1. Slice(t, r) = Part(t, r)
    BY <1>3, <1>4
  <2>2. ASSUME r + 1 \in Ranks, Loaded(r + 1)
        PROVE  Slice(t, r + 1) = Part(t, r + 1)
    BY <1>3, <2>2
  <2>. QED  BY <1>2, <2>1, <2>2
<1>. QED
  <2>. SUFFICES ASSUME NEW t \in Matrices(job.files), NEW r \in Ranks, Loaded(r)
               PROVE  /\ r = 0 => Slice(t, r).off = 0
                      /\ r + 1 \in Ranks /\ Loaded(r + 1) =>
                           Slice(t, r).off + Slice(t, r).len = Slice(t, r + 1).off
                      /\ r + 1 \notin Ranks => Slice(t, r).off + Slice(t, r).len = Full(t)
    BY DEF SlicesTile, Full
  <2>. QED  BY <1>4

\* The ranks' slices tile every split weight, for every number of ranks and every shape
\* (SlicesTile: tp_split_dim, load_slice, tp_load_model).
THEOREM SlicesTileCorrect == TPSpec => []SlicesTile
  BY Knows, SlicesTileStep, PTL

-----------------------------------------------------------------------------
(* The dimensions of the GEMMs.                                             *)

LEMMA EvenSplit ==
  ASSUME NEW h \in Nat, NEW w \in Nat, NEW n \in Nat \ {0}, NEW k \in 0 .. n - 1, Divides(n, h)
  PROVE  SplitDim(h * w, n, k).len = SplitHeads(h, n, k).len * w
<1> DEFINE m == h \div n
<1>1. m \in Nat /\ h = n * m
  BY DivMod DEF Divides
<1>. HIDE DEF m
<1>2. m * w \in Nat /\ h * w = (m * w) * n
  BY <1>1
<1>3. (h * w) \div n = m * w /\ (h * w) % n = 0
  BY <1>2, Multiple
<1>4. SplitHeads(h, n, k).len = m
  BY DEF SplitHeads, m
<1>. QED  BY <1>2, <1>3, <1>4 DEF SplitDim

\* ffn_intermediate is taken for n times a local slice; its share is the slice again.
LEMMA FfnAgain ==
  ASSUME NEW g \in Nat, NEW n \in Nat \ {0}, NEW k \in 0 .. n - 1
  PROVE  SplitDim(g * n, n, k).len = g
  BY Multiple DEF SplitDim

LEMMA GemmsFitStep ==
  ASSUME TPTypeOK, RankKnowsJob
  PROVE  GemmsFitSlices
<1> DEFINE c == job.files
           n == job.size
<1>1. /\ job \in Jobs /\ n \in Nat \ {0} /\ c.heads \in Nat
      /\ HeadDim(c) \in Nat /\ KvHeads(c) \in Nat
  BY JobType, DivMod DEF TPTypeOK, HeadDim, KvHeads
<1>2. SUFFICES ASSUME NEW r \in Ranks, NEW t \in Matrices(c), Loaded(r)
               PROVE  LET s == model[r].slice[t]
                          even == Divides(n, c.heads) /\ Divides(n, KvHeads(c))
                      IN  /\ even /\ t[1] = "q"             => s.rows.len = model[r].local_q
                          /\ even /\ t[1] \in {"k", "v"}    => s.rows.len = model[r].local_kv
                          /\ even /\ t[1] = "o"             => s.cols.len = model[r].local_q
                          /\ t[1] \in {"gate", "up"}        => s.rows.len = model[r].local_ffn
                          /\ t[1] = "down"                  => s.cols.len = model[r].local_ffn
  BY DEF GemmsFitSlices
<1>3. r \in 0 .. n - 1
  BY DEF Ranks
<1>4. /\ model[r].slice[t] = SliceOf(c, t, n, r)
      /\ model[r].local_q = LocalHeads(c, n, r) * HeadDim(c)
      /\ model[r].local_kv = LocalKvHeads(c, n, r) * HeadDim(c)
      /\ model[r].local_ffn = LocalFfn(c, n, r)
  BY <1>2 DEF RankKnowsJob, Loaded, LoadModel
<1>5. LocalFfn(c, n, r) = IF n > 1 THEN SplitDim(c.ffn, n, r).len ELSE c.ffn
  <2>1. c.ffn \in Nat
    BY <1>1, JobType
  <2>2. SliceOf(c, <<"gate", 0, 0>>, n, r).rows.len = IF n > 1 THEN SplitDim(c.ffn, n, r).len ELSE c.ffn
    BY DEF SliceOf, LoadSlice, ShapeOf, SplitOf, Whole
  <2>3. SliceOf(c, <<"gate", 0, 0>>, n, r).rows.len \in Nat
    BY <2>1, <2>2, <1>1, <1>3, SplitDimType
  <2>. QED  BY <2>2, <2>3, <1>1, <1>3, FfnAgain DEF LocalFfn
<1>6. CASE n = 1
  BY <1>4, <1>5, <1>6 DEF SliceOf, LoadSlice, ShapeOf, SplitOf, Whole, LocalHeads, LocalKvHeads
<1>7. CASE n > 1
  <2>1. Divides(n, c.heads) => SplitDim(c.heads * HeadDim(c), n, r).len = LocalHeads(c, n, r) * HeadDim(c)
    BY <1>1, <1>3, <1>7, EvenSplit DEF LocalHeads
  <2>2. Divides(n, KvHeads(c)) => SplitDim(KvHeads(c) * HeadDim(c), n, r).len = LocalKvHeads(c, n, r) * HeadDim(c)
    BY <1>1, <1>3, <1>7, EvenSplit DEF LocalKvHeads
  <2>3. LocalFfn(c, n, r) = SplitDim(c.ffn, n, r).len
    BY <1>5, <1>7
  <2>4. t[1] = "q" => model[r].slice[t].rows = SplitDim(c.heads * HeadDim(c), n, r)
    BY <1>4, <1>7 DEF SliceOf, LoadSlice, ShapeOf, SplitOf
  <2>5. t[1] \in {"k", "v"} => model[r].slice[t].rows = SplitDim(KvHeads(c) * HeadDim(c), n, r)
    BY <1>4, <1>7 DEF SliceOf, LoadSlice, ShapeOf, SplitOf
  <2>6. t[1] = "o" => model[r].slice[t].cols = SplitDim(c.heads * HeadDim(c), n, r)
    BY <1>4, <1>7 DEF SliceOf, LoadSlice, ShapeOf, SplitOf
  <2>7. /\ t[1] \in {"gate", "up"} => model[r].slice[t].rows = SplitDim(c.ffn, n, r)
        /\ t[1] = "down" => model[r].slice[t].cols = SplitDim(c.ffn, n, r)
    BY <1>4, <1>7 DEF SliceOf, LoadSlice, ShapeOf, SplitOf
  <2>. QED  BY <2>1, <2>2, <2>3, <2>4, <2>5, <2>6, <2>7, <1>4, Zenon
<1>. QED  BY <1>1, <1>6, <1>7

\* The GEMMs are given the dimensions of the slices they multiply with: for the MLP always, for
\* attention where the heads divide (GemmsFitSlices: tp_load_model, tp_forward_pass).
THEOREM GemmsFitCorrect == TPSpec => []GemmsFitSlices
  BY Knows, GemmsFitStep, PTL

-----------------------------------------------------------------------------
(* The collectives.  A place is a site in a layer; a rank's calls go from   *)
(* place to place in one order, from the first place of a pass to the last  *)
(* and round again, and a place determines the call.                        *)

Place(s, l) == [site |-> s, layer |-> l]

First == Place("q", 0)

After(p) ==
  CASE p.site = "q" -> Place("k", p.layer)
    [] p.site = "k" -> Place("v", p.layer)
    [] p.site = "v" -> Place("o", p.layer)
    [] p.site = "o" /\ ~IsMoe(job.files) -> Place("mlp", p.layer)
    [] OTHER -> Place("q", IF p.layer + 1 < job.files.layers THEN p.layer + 1 ELSE 0)

\* the call made at a place, whoever makes it
CallFor(p) ==
  [kind  |-> KindOf(p.site),
   count |-> CASE p.site = "q"          -> Positions * (LocalHeads(job.files, job.size, 0) * HeadDim(job.files))
               [] p.site \in {"k", "v"} -> Positions * (LocalKvHeads(job.files, job.size, 0) * HeadDim(job.files))
               [] OTHER                 -> Positions * job.files.hidden,
   site  |-> p.site,
   layer |-> p.layer]

\* the place after a call
Following(call) == After(Place(call.site, call.layer))

\* where the next collective of a rank belongs
Due(r) == IF calls[r] = <<>> THEN First ELSE Following(calls[r][Len(calls[r])])

AnyCall == [kind : {"allgather", "allreduce"}, count : {CallFor(Place(s, 0)).count : s \in Sites}, site : Sites, layer : Nat]

Chain(r) ==
  /\ calls[r] # <<>> => calls[r][1] = CallFor(First)
  /\ \A n \in 1 .. Len(calls[r]) - 1 : calls[r][n + 1] = CallFor(Following(calls[r][n]))

AtDue(r) ==
  /\ pc[r] \in Sites => Due(r) = Place(pc[r], layer[r])
  /\ pc[r] \in {"start", "join", "ready", "loaded", "sync"} => Due(r) = First

\* While no collective has failed, every rank is where its next call is due.
CallsFollow ==
  /\ calls \in [Ranks -> Seq(AnyCall)]
  /\ failed = {} => \A r \in Ranks : Chain(r) /\ (job.size > 1 => AtDue(r))

LEMMA CallsInit == TPInit => CallsFollow /\ CollectivesAgree
<1>. SUFFICES ASSUME TPInit PROVE CallsFollow /\ CollectivesAgree
  OBVIOUS
<1>1. \A r \in Ranks : pc[r] = "start" /\ calls[r] = <<>> /\ Len(calls[r]) = 0
  BY EmptySeq DEF TPInit
<1>2. calls \in [Ranks -> Seq(AnyCall)]
  BY EmptySeq DEF TPInit
<1>. QED  BY <1>1, <1>2 DEF CallsFollow, Chain, AtDue, CollectivesAgree, Due, Sites

LEMMA SameJob ==
  ASSUME job' = job
  PROVE  /\ Ranks' = Ranks /\ AnyCall' = AnyCall
         /\ \A p : CallFor(p)' = CallFor(p)
         /\ \A x : Following(x)' = Following(x)
  BY DEF Ranks, AnyCall, CallFor, Following, After, Place, Positions, IsMoe

\* A step that calls no collective keeps the chain when it leaves the rank where its next call
\* is due.
LEMMA FollowMove ==
  ASSUME TPTypeOK, CallsFollow, CollectivesAgree, NEW r \in Ranks,
         UNCHANGED <<job, calls, failed>>,
         \A q \in Ranks \ {r} : pc'[q] = pc[q] /\ layer'[q] = layer[q],
         (failed = {} /\ job.size > 1) =>
            /\ pc'[r] \in Sites => Due(r) = Place(pc'[r], layer'[r])
            /\ pc'[r] \in {"start", "join", "ready", "loaded", "sync"} => Due(r) = First
  PROVE  CallsFollow' /\ CollectivesAgree'
<1>1. \A q : Due(q)' = Due(q)
  BY SameJob DEF Due, First, Place
<1>2. CollectivesAgree'
  BY SameJob DEF CollectivesAgree
<1>3. ASSUME NEW q \in Ranks, Chain(q)
      PROVE  Chain(q)'
  BY <1>3, SameJob DEF Chain, First, Place
<1>4. ASSUME NEW q \in Ranks, failed = {}, job.size > 1, AtDue(q)
      PROVE  AtDue(q)'
  <2>1. CASE q = r
    BY <2>1, <1>1, <1>4 DEF AtDue, First, Place
  <2>2. CASE q # r
    <3>1. pc'[q] = pc[q] /\ layer'[q] = layer[q]
      BY <2>2
    <3>. QED  BY <3>1, <1>1, <1>4 DEF AtDue, First, Place
  <2>. QED  BY <2>1, <2>2
<1>5. CallsFollow'
  BY <1>3, <1>4, SameJob DEF CallsFollow
<1>. QED  BY <1>2, <1>5

\* Advance takes a rank to the place after the one it was at, or to the end of the pass.
LEMMA AdvanceFollows ==
  ASSUME TPTypeOK, NEW r \in Ranks, pc[r] \in Sites, Advance(r)
  PROVE  /\ pc'[r] \in Sites \cup {"sync"}
         /\ pc'[r] \in Sites => After(Place(pc[r], layer[r])) = Place(pc'[r], layer'[r])
         /\ pc'[r] = "sync" => After(Place(pc[r], layer[r])) = First
         /\ \A q \in Ranks \ {r} : pc'[q] = pc[q] /\ layer'[q] = layer[q]
<1>1. pc \in [Ranks -> Places] /\ layer \in [Ranks -> Nat]
  BY TypeParts
<1>2. /\ Place(pc[r], layer[r]).site = pc[r]
      /\ Place(pc[r], layer[r]).layer = layer[r]
  BY DEF Place
<1>3. CASE LayerEnds(r) /\ (pc[r] = "mlp" \/ (pc[r] = "o" /\ IsMoe(job.files)))
  <2>1. After(Place(pc[r], layer[r])) = Place("q", IF layer[r] + 1 < job.files.layers THEN layer[r] + 1 ELSE 0)
    BY <1>2, <1>3 DEF After
  <2>. QED  BY <2>1, <1>1, <1>3 DEF LayerEnds, Goto, Sites, First
<1>4. CASE /\ UNCHANGED layer
           /\ \/ pc[r] = "q" /\ Goto(r, "k")
              \/ pc[r] = "k" /\ Goto(r, "v")
              \/ pc[r] = "v" /\ Goto(r, "o")
              \/ pc[r] = "o" /\ ~IsMoe(job.files) /\ Goto(r, "mlp")
  BY <1>1, <1>2, <1>4 DEF Goto, Sites, After
<1>. QED  BY <1>3, <1>4 DEF Advance

\* The place determines the call: counts do not depend on the rank.
LEMMA CallOfPlace ==
  ASSUME TPTypeOK, RankKnowsJob, NEW r \in Ranks, pc[r] \in Sites
  PROVE  /\ CallAt(r, pc[r]) = CallFor(Place(pc[r], layer[r]))
         /\ CallAt(r, pc[r]) \in AnyCall
         /\ Following(CallAt(r, pc[r])) = After(Place(pc[r], layer[r]))
<1>1. /\ model[r].local_q = LocalHeads(job.files, job.size, 0) * HeadDim(job.files)
      /\ model[r].local_kv = LocalKvHeads(job.files, job.size, 0) * HeadDim(job.files)
  <2>1. model[r] = LoadModel(job.files, job.size, r)
    BY DEF RankKnowsJob
  <2>2. /\ LocalHeads(job.files, job.size, r) = LocalHeads(job.files, job.size, 0)
        /\ LocalKvHeads(job.files, job.size, r) = LocalKvHeads(job.files, job.size, 0)
    BY SplitHeadsSame DEF LocalHeads, LocalKvHeads
  <2>. QED  BY <2>1, <2>2 DEF LoadModel
<1>2. layer[r] \in Nat
  BY TypeParts
<1>3. CallAt(r, pc[r]) = CallFor(Place(pc[r], layer[r]))
  BY <1>1 DEF CallAt, CallFor, CountOf, Place
<1>4. /\ KindOf(pc[r]) \in {"allgather", "allreduce"}
      /\ CallFor(Place(pc[r], layer[r])).count = CallFor(Place(pc[r], 0)).count
  BY DEF KindOf, CallFor, Place
<1>5. CallAt(r, pc[r]) \in AnyCall
  BY <1>2, <1>3, <1>4 DEF AnyCall, CallFor, Place
<1>. QED  BY <1>3, <1>5 DEF Following, CallAt

LEMMA FollowEnqueue ==
  ASSUME TPTypeOK, RankKnowsJob, CallsFollow, CollectivesAgree, NEW r \in Ranks, Enqueue(r)
  PROVE  CallsFollow' /\ CollectivesAgree'
<1> DEFINE c == CallAt(r, pc[r])
           m == Len(calls[r])
<1>1. /\ pc[r] \in Sites /\ job' = job /\ failed' = failed
      /\ calls' = [calls EXCEPT ![r] = Append(@, c)]
      /\ Advance(r)
  BY DEF Enqueue
<1>2. job.size > 1
  BY <1>1 DEF Enqueue, Enabled, RankKnowsJob
<1>3. c = CallFor(Place(pc[r], layer[r])) /\ c \in AnyCall /\ Following(c) = After(Place(pc[r], layer[r]))
  BY <1>1, CallOfPlace
<1>. HIDE DEF c
<1>4. /\ calls \in [Ranks -> Seq(AnyCall)]
      /\ calls[r] \in Seq(AnyCall) /\ m \in Nat
      /\ calls'[r] = Append(calls[r], c)
      /\ calls' \in [Ranks -> Seq(AnyCall)]
      /\ \A q \in Ranks \ {r} : calls'[q] = calls[q]
  BY <1>1, <1>3, LenProperties, AppendProperties DEF CallsFollow
<1>5. /\ Len(calls'[r]) = m + 1 /\ calls'[r][m + 1] = c /\ calls'[r] # <<>>
      /\ \A n \in 1 .. m : calls'[r][n] = calls[r][n]
      /\ calls[r] = <<>> <=> m = 0
  BY <1>3, <1>4, AppendProperties, EmptySeq
<1>6. SUFFICES ASSUME failed = {}
               PROVE  CallsFollow' /\ CollectivesAgree'
  BY <1>1, <1>4, SameJob DEF CallsFollow, CollectivesAgree
<1>7. Due(r) = Place(pc[r], layer[r])
  BY <1>1, <1>2, <1>6 DEF CallsFollow, AtDue
<1>8. c = CallFor(Due(r))
  BY <1>3, <1>7
<1>9. CollectivesAgree'
  <2>1. ASSUME NEW q \in Ranks \ {r}, m + 1 <= Len(calls[q])
        PROVE  calls[q][m + 1] = c
    <3>1. calls[q] \in Seq(AnyCall) /\ Len(calls[q]) \in Nat /\ calls[q] # <<>>
      BY <1>4, <2>1, LenProperties, EmptySeq
    <3>2. CASE m = 0
      BY <3>1, <3>2, <1>5, <1>6, <1>8 DEF CallsFollow, Chain, Due
    <3>3. CASE m > 0
      <4>1. calls[q][m + 1] = CallFor(Following(calls[q][m]))
        BY <3>1, <3>3, <2>1, <1>4, <1>6 DEF CallsFollow, Chain
      <4>2. calls[q][m] = calls[r][m]
        BY <3>1, <3>3, <2>1, <1>4, <1>6 DEF CollectivesAgree
      <4>. QED  BY <4>1, <4>2, <3>3, <1>5, <1>8 DEF Due
    <3>. QED  BY <3>2, <3>3, <1>4
  <2>2. \A q \in Ranks : Len(calls[q]) \in Nat
    BY <1>4, LenProperties
  <2>3. ASSUME NEW p \in Ranks, NEW q \in Ranks, NEW n \in 1 .. Len(calls'[p]), n <= Len(calls'[q])
        PROVE  calls'[p][n] = calls'[q][n]
    <3>1. CASE n <= m \/ (p # r /\ q # r)
      <4>1. n \in 1 .. Len(calls[p]) /\ n <= Len(calls[q])
        BY <3>1, <2>2, <2>3, <1>4, <1>5
      <4>2. ASSUME NEW s \in {p, q}
            PROVE  calls'[s][n] = calls[s][n]
        <5>1. CASE s = r
          <6>1. n \in 1 .. m
            BY <5>1, <4>1, <3>1, <1>4
          <6>. QED  BY <6>1, <5>1, <1>5
        <5>2. CASE s # r
          BY <5>2, <1>4
        <5>. QED  BY <5>1, <5>2
      <4>. QED  BY <4>1, <4>2, <1>6 DEF CollectivesAgree
    <3>a. \A s \in Ranks : n <= Len(calls'[s]) /\ n > m => n = m + 1 \/ s # r
      BY <2>3, <1>4, <1>5
    <3>b. n \in Nat /\ Len(calls'[p]) \in Nat /\ n <= Len(calls'[p])
      BY <2>3, <1>4, LenProperties
    <3>c. ASSUME NEW s \in Ranks, n = m + 1, n <= Len(calls'[s])
          PROVE  calls'[s][n] = c
      <4>1. CASE s = r
        BY <3>c, <4>1, <1>5
      <4>2. CASE s # r
        BY <3>c, <4>2, <2>1, <1>4
      <4>. QED  BY <4>1, <4>2
    <3>2. CASE n > m /\ p = r
      <4>1. n = m + 1
        BY <3>2, <3>a, <3>b
      <4>. QED  BY <4>1, <3>b, <3>c, <2>3
    <3>3. CASE n > m /\ q = r
      <4>1. n = m + 1
        BY <3>3, <3>a, <2>3
      <4>. QED  BY <4>1, <3>b, <3>c, <2>3
    <3>. QED  BY <3>1, <3>2, <3>3, <1>4
  <2>. QED  BY <2>3, <1>1, SameJob DEF CollectivesAgree
<1>10. CallsFollow'
  <2>1. calls'[r][1] = CallFor(First)
    BY <1>4, <1>5, <1>6, <1>8 DEF CallsFollow, Chain, Due
  <2>2. ASSUME NEW n \in 1 .. m
        PROVE  calls'[r][n + 1] = CallFor(Following(calls'[r][n]))
    <3>1. CASE n = m
      BY <3>1, <1>4, <1>5, <1>8 DEF Due
    <3>2. CASE n < m
      BY <3>2, <1>4, <1>5, <1>6 DEF CallsFollow, Chain
    <3>. QED  BY <3>1, <3>2, <1>4
  <2>3. Due(r)' = After(Place(pc[r], layer[r]))
    BY <1>1, <1>3, <1>5, SameJob DEF Due
  <2>4. \A q \in Ranks \ {r} : Due(q)' = Due(q)
    BY <1>1, <1>4, SameJob DEF Due, First, Place
  <2>5. /\ pc'[r] \in Sites => Due(r)' = Place(pc'[r], layer'[r])
        /\ pc'[r] \in {"start", "join", "ready", "loaded", "sync"} => Due(r)' = First
        /\ \A q \in Ranks \ {r} : pc'[q] = pc[q] /\ layer'[q] = layer[q]
    <3>1. /\ pc'[r] \in Sites \cup {"sync"}
          /\ pc'[r] \in Sites => After(Place(pc[r], layer[r])) = Place(pc'[r], layer'[r])
          /\ pc'[r] = "sync" => After(Place(pc[r], layer[r])) = First
          /\ \A q \in Ranks \ {r} : pc'[q] = pc[q] /\ layer'[q] = layer[q]
      BY <1>1, AdvanceFollows
    <3>. QED  BY <3>1, <2>3 DEF Sites
  <2>6. \A n \in 1 .. Len(calls'[r]) - 1 : calls'[r][n + 1] = CallFor(Following(calls'[r][n]))
    BY <2>2, <1>4, <1>5
  <2>7. ASSUME NEW q \in Ranks \ {r}
        PROVE  Chain(q)' /\ AtDue(q)'
    <3>1. Chain(q) /\ AtDue(q)
      BY <1>2, <1>6 DEF CallsFollow
    <3>2. calls'[q] = calls[q] /\ pc'[q] = pc[q] /\ layer'[q] = layer[q] /\ Due(q)' = Due(q)
      BY <1>4, <2>4, <2>5
    <3>. QED  BY <3>1, <3>2, <1>1, SameJob DEF Chain, AtDue, First, Place
  <2>8. Chain(r)' /\ AtDue(r)'
    BY <2>1, <2>5, <2>6, <1>1, SameJob DEF Chain, AtDue, First, Place
  <2>. QED  BY <2>7, <2>8, <1>1, <1>4, SameJob DEF CallsFollow
<1>. QED  BY <1>9, <1>10

LEMMA FollowHost ==
  ASSUME TPTypeOK, RankKnowsJob, CallsFollow, CollectivesAgree, NEW r \in Ranks, HostStep(r)
  PROVE  CallsFollow' /\ CollectivesAgree'
<1>1. pc \in [Ranks -> Places] /\ layer \in [Ranks -> Nat]
  BY TypeParts
<1>2. (failed = {} /\ job.size > 1) => AtDue(r)
  BY DEF CallsFollow
<1>3. CASE InitRejects(r)
  BY <1>1, <1>3, FollowMove DEF InitRejects, Goto, Sites
<1>4. CASE InitAlone(r)
  BY <1>1, <1>2, <1>4, FollowMove DEF InitAlone, Goto, Sites, AtDue
<1>5. CASE BeginJoin(r)
  BY <1>1, <1>2, <1>5, FollowMove DEF BeginJoin, Goto, Sites, AtDue
<1>6. CASE Load(r)
  BY <1>1, <1>2, <1>6, FollowMove DEF Load, Goto, Sites, AtDue
<1>7. CASE BeginForward(r)
  <2>1. (failed = {} /\ job.size > 1) => Due(r) = First
    BY <1>2, <1>7 DEF BeginForward, AtDue
  <2>2. /\ layer'[r] = 0 /\ pc'[r] \in {"q", "sync"} /\ UNCHANGED <<job, calls, failed>>
        /\ \A q \in Ranks \ {r} : pc'[q] = pc[q] /\ layer'[q] = layer[q]
    BY <1>1, <1>7 DEF BeginForward, Goto
  <2>. QED  BY <2>1, <2>2, FollowMove DEF First, Sites
<1>8. CASE Enqueue(r)
  BY <1>8, FollowEnqueue
<1>9. CASE PassSite(r)
  <2>1. ~(job.size > 1)
    BY <1>9 DEF PassSite, Enabled, RankKnowsJob
  <2>2. \A q \in Ranks \ {r} : pc'[q] = pc[q] /\ layer'[q] = layer[q]
    BY <1>9, AdvanceFollows DEF PassSite
  <2>. QED  BY <2>1, <2>2, <1>9, FollowMove DEF PassSite
<1>10. CASE EndForward(r)
  BY <1>1, <1>2, <1>10, FollowMove DEF EndForward, Goto, Sites, AtDue
<1>11. CASE Free(r)
  BY <1>1, <1>11, FollowMove DEF Free, Goto, Sites
<1>12. CASE Finalize(r)
  BY <1>1, <1>12, FollowMove DEF Finalize, Goto, Sites
<1>. QED  BY <1>3, <1>4, <1>5, <1>6, <1>7, <1>8, <1>9, <1>10, <1>11, <1>12 DEF HostStep

LEMMA FollowFault ==
  ASSUME TPTypeOK, CallsFollow, CollectivesAgree, NEW r \in Ranks, Fault(r)
  PROVE  CallsFollow' /\ CollectivesAgree'
<1>1. pc \in [Ranks -> Places]
  BY TypeParts
<1>2. CASE SetDeviceFails(r)
  BY <1>1, <1>2, FollowMove DEF SetDeviceFails, Goto, Sites
<1>3. CASE JoinFails(r)
  BY <1>1, <1>3, FollowMove DEF JoinFails, Goto, Sites
<1>4. CASE EnqueueFails(r)
  <2>1. failed' # {} /\ UNCHANGED <<job, calls>>
    BY <1>4 DEF EnqueueFails
  <2>. QED  BY <2>1, SameJob DEF CallsFollow, CollectivesAgree
<1>5. CASE CudaAborts(r)
  BY <1>1, <1>5, FollowMove DEF CudaAborts, Goto, Sites
<1>. QED  BY <1>2, <1>3, <1>4, <1>5 DEF Fault

LEMMA FollowStep ==
  ASSUME TPTypeOK, RankKnowsJob, CallsFollow, CollectivesAgree, [TPNext]_tpVars
  PROVE  CallsFollow' /\ CollectivesAgree'
<1>1. CASE JoinAll
  <2>1. /\ UNCHANGED <<job, calls, failed, layer>>
        /\ \A q \in Ranks : pc[q] = "join" /\ pc'[q] = "ready"
    BY <1>1 DEF JoinAll
  <2>2. \A q : Due(q)' = Due(q)
    BY <2>1, SameJob DEF Due, First, Place
  <2>3. \A q \in Ranks : (Chain(q) => Chain(q)') /\ (AtDue(q) => AtDue(q)')
    BY <2>1, <2>2, SameJob DEF Chain, AtDue, First, Place, Sites
  <2>. QED  BY <2>1, <2>3, SameJob DEF CallsFollow, CollectivesAgree
<1>2. CASE RunCollective \/ UNCHANGED tpVars
  <2>1. UNCHANGED <<job, calls, failed, layer, pc>>
    BY <1>2 DEF RunCollective
  <2>2. \A q : Due(q)' = Due(q)
    BY <2>1, SameJob DEF Due, First, Place
  <2>3. \A q \in Ranks : (Chain(q) => Chain(q)') /\ (AtDue(q) => AtDue(q)')
    BY <2>1, <2>2, SameJob DEF Chain, AtDue, First, Place
  <2>. QED  BY <2>1, <2>3, SameJob DEF CallsFollow, CollectivesAgree
<1>3. CASE \E r \in Ranks : HostStep(r) \/ Fault(r)
  BY <1>3, FollowHost, FollowFault
<1>. QED  BY <1>1, <1>2, <1>3 DEF TPNext

\* As long as none has failed, the ranks' collectives agree call by call, in place, kind and
\* count, whatever the model and however the ranks interleave (CollectivesAgree:
\* tp_forward_pass, tp_allreduce, tp_allgather).
THEOREM CollectivesAgreeCorrect == TPSpec => []CollectivesAgree
<1> DEFINE Inv == TPTypeOK /\ RankKnowsJob /\ CallsFollow /\ CollectivesAgree
<1>1. TPInit => Inv
  BY TypeInit, KnowsInit, CallsInit
<1>2. Inv /\ [TPNext]_tpVars => Inv'
  BY TypeStep, KnowsStep, FollowStep
<1>. QED  BY <1>1, <1>2, PTL DEF TPSpec

-----------------------------------------------------------------------------
(* How far the ranks are.                                                   *)

\* the collectives of a layer, how many come before a place in it, those of a pass
PerLayer == IF IsMoe(job.files) THEN 4 ELSE 5

Earlier(s) == CASE s = "q" -> 0 [] s = "k" -> 1 [] s = "v" -> 2 [] s = "o" -> 3 [] OTHER -> 4

PerPass == job.files.layers * PerLayer

\* A rank has made the calls of the passes it has finished, and of the one it is in those up to
\* where it is.
CallsCounted(r) ==
  /\ Len(calls[r]) <= forwards[r] * PerPass
  /\ pc[r] \in Sites =>
       /\ forwards[r] > 0 /\ layer[r] < job.files.layers
       /\ pc[r] = "mlp" => ~IsMoe(job.files)
       /\ Len(calls[r]) = (forwards[r] - 1) * PerPass + (layer[r] * PerLayer + Earlier(pc[r]))
  /\ pc[r] \notin Sites \cup {"aborted"} => Len(calls[r]) = forwards[r] * PerPass

\* The devices have executed only what every rank has handed in.
ProgressFits ==
  /\ \A r \in Ranks : ran <= Len(calls[r])
  /\ failed = {} /\ job.size > 1 => \A r \in Ranks : CallsCounted(r)

LEMMA ProgressInit == TPInit => ProgressFits
<1>. SUFFICES ASSUME TPInit PROVE ProgressFits
  OBVIOUS
<1>1. \A r \in Ranks : pc[r] = "start" /\ calls[r] = <<>> /\ Len(calls[r]) = 0 /\ forwards[r] = 0
  BY EmptySeq DEF TPInit
<1>2. ran = 0 /\ job \in Jobs
  BY DEF TPInit
<1>3. PerPass \in Nat
  BY <1>2, JobType, TimesNat DEF PerPass, PerLayer
<1>4. 0 * PerPass = 0
  BY <1>3
<1>. QED  BY <1>1, <1>2, <1>4 DEF ProgressFits, CallsCounted, Sites

LEMMA ProgressTypes ==
  ASSUME TPTypeOK, CallsFollow
  PROVE  /\ job.files.layers \in Nat /\ PerLayer \in Nat \ {0} /\ PerPass \in Nat /\ ran \in Nat
         /\ \A r \in Ranks : /\ calls[r] \in Seq(AnyCall) /\ Len(calls[r]) \in Nat
                             /\ forwards[r] \in Nat /\ layer[r] \in Nat /\ pc[r] \in Places
<1>1. /\ job \in Jobs /\ layer \in [Ranks -> Nat] /\ forwards \in [Ranks -> 0 .. job.passes]
      /\ pc \in [Ranks -> Places] /\ ran \in Nat
  BY TypeParts
<1>2. job.files.layers \in Nat /\ job.passes \in Nat
  BY <1>1, JobType
<1>3. PerLayer \in Nat \ {0}
  BY DEF PerLayer
<1>4. PerPass \in Nat
  BY <1>2, <1>3, TimesNat DEF PerPass
<1>5. \A r \in Ranks : calls[r] \in Seq(AnyCall) /\ Len(calls[r]) \in Nat
  BY LenProperties DEF CallsFollow
<1>. QED  BY <1>1, <1>2, <1>3, <1>4, <1>5

\* A step of one rank that calls no collective.
LEMMA ProgressMove ==
  ASSUME ProgressFits, NEW r \in Ranks, UNCHANGED <<job, calls, failed, ran>>,
         \A q \in Ranks \ {r} : pc'[q] = pc[q] /\ layer'[q] = layer[q] /\ forwards'[q] = forwards[q],
         (failed = {} /\ job.size > 1 /\ CallsCounted(r)) => CallsCounted(r)'
  PROVE  ProgressFits'
<1>1. \A q \in Ranks \ {r} : CallsCounted(q) => CallsCounted(q)'
  BY DEF CallsCounted, PerPass, PerLayer, IsMoe
<1>. QED  BY <1>1, SameJob DEF ProgressFits

\* The next place is one call further, and so is the end of the pass.
LEMMA AdvanceCounts ==
  ASSUME TPTypeOK, CallsFollow, NEW r \in Ranks, pc[r] \in Sites, Advance(r),
         forwards'[r] = forwards[r], job' = job, CallsCounted(r),
         Len(calls'[r]) = Len(calls[r]) + 1
  PROVE  CallsCounted(r)'
<1> DEFINE f == forwards[r]
           l == layer[r]
<1>1. /\ job.files.layers \in Nat /\ PerPass \in Nat /\ Len(calls[r]) \in Nat
      /\ f \in Nat \ {0} /\ l \in Nat /\ l < job.files.layers
      /\ Len(calls[r]) = (f - 1) * PerPass + (l * PerLayer + Earlier(pc[r]))
      /\ pc[r] = "mlp" => ~IsMoe(job.files)
  BY ProgressTypes DEF CallsCounted
<1>2. f * PerPass = (f - 1) * PerPass + PerPass /\ (f - 1) * PerPass \in Nat
  <2> DEFINE e == f - 1
  <2>0. f \in Nat \ {0} /\ PerPass \in Nat
    BY <1>1
  <2>1. e \in Nat /\ e + 1 = f /\ PerPass \in Nat
    <3>. HIDE DEF f
    <3>. QED  BY <2>0
  <2>. HIDE DEF e, f
  <2>2. e * PerPass \in Nat /\ (e + 1) * PerPass = e * PerPass + PerPass
    BY <2>1, OneMore
  <2>3. e = f - 1
    BY DEF e
  <2>. QED  BY <2>1, <2>2, <2>3
<1>a. PerLayer' = PerLayer /\ PerPass' = PerPass
  BY DEF PerLayer, PerPass, IsMoe
<1>4. pc \in [Ranks -> Places] /\ layer \in [Ranks -> Nat]
  BY TypeParts
<1> DEFINE base == (f - 1) * PerPass
<1>5. f * PerPass = base + PerPass /\ base \in Nat
  BY <1>2
<1>b. /\ l * PerLayer \in Nat /\ (l + 1) * PerLayer = l * PerLayer + PerLayer
      /\ PerLayer \in Nat /\ Earlier(pc[r]) \in Nat
  <2>1. PerLayer \in Nat /\ Earlier(pc[r]) \in Nat
    BY DEF PerLayer, Earlier
  <2>2. l \in Nat
    BY <1>1
  <2>3. l * PerLayer \in Nat /\ (l + 1) * PerLayer = l * PerLayer + PerLayer
    <3>. HIDE DEF l
    <3>. QED  BY <2>1, <2>2, OneMore
  <2>. QED  BY <2>1, <2>3
<1>. HIDE DEF base, f, l
<1>6. Len(calls'[r]) = base + (l * PerLayer + Earlier(pc[r]) + 1)
  BY <1>1, <1>5, <1>b DEF base
<1>7. /\ l + 1 <= job.files.layers
      /\ (l + 1) * PerLayer <= PerPass
      /\ l + 1 = job.files.layers => (l + 1) * PerLayer = PerPass
  <2>1. l + 1 \in Nat /\ l + 1 <= job.files.layers
    BY <1>1
  <2>2. PerPass = job.files.layers * PerLayer
    BY DEF PerPass
  <2>. QED  BY <2>1, <2>2, <1>1, <1>b, TimesGrows
<1>8. ASSUME LayerEnds(r), Earlier(pc[r]) + 1 = PerLayer
      PROVE  CallsCounted(r)'
  <2>1. Len(calls'[r]) = base + (l + 1) * PerLayer
    BY <1>5, <1>6, <1>8, <1>b
  <2>2. /\ layer'[r] = l + 1
        /\ pc'[r] = IF l + 1 < job.files.layers THEN "q" ELSE "sync"
    BY <1>4, <1>8 DEF LayerEnds, Goto, l
  <2>3. CASE l + 1 < job.files.layers
    <3>1. Earlier("q") = 0
      BY DEF Earlier
    <3>2. f > 0 /\ Len(calls'[r]) <= f * PerPass
      <4> DEFINE w == (l + 1) * PerLayer
      <4>1. w \in Nat
        BY <1>b
      <4>a. w <= PerPass /\ PerPass \in Nat /\ base \in Nat
        BY <1>1, <1>5, <1>7
      <4>2. Len(calls'[r]) = base + w
        BY <2>1
      <4>3. f * PerPass = base + PerPass /\ f > 0
        BY <1>1, <1>5
      <4>. HIDE DEF w, base
      <4>. QED  BY <4>1, <4>a, <4>2, <4>3
    <3>. QED  BY <2>1, <2>2, <2>3, <3>1, <3>2, <1>1, <1>a, <1>b DEF CallsCounted, Sites, f, base
  <2>4. CASE l + 1 = job.files.layers
    <3>1. Len(calls'[r]) = f * PerPass
      BY <2>1, <2>4, <1>5, <1>7
    <3>. QED  BY <2>2, <2>4, <3>1, <1>1, <1>a, <1>5 DEF CallsCounted, Sites, f
  <2>. QED  BY <2>3, <2>4, <1>1, <1>7
<1>9. ASSUME UNCHANGED layer, NEW s \in Sites, Goto(r, s), Earlier(s) = Earlier(pc[r]) + 1,
             Earlier(s) < PerLayer, s = "mlp" => ~IsMoe(job.files)
      PROVE  CallsCounted(r)'
  <2>1. pc'[r] = s /\ layer'[r] = l
    BY <1>4, <1>9 DEF Goto, l
  <2>2. Len(calls'[r]) = base + (l * PerLayer + Earlier(s))
    BY <1>5, <1>6, <1>9, <1>b
  <2>3. l * PerLayer + Earlier(s) <= PerPass /\ Earlier(s) \in Nat
    <3>1. Earlier(s) \in Nat /\ Earlier(s) <= PerLayer
      BY <1>9, <1>b
    <3> DEFINE u == l * PerLayer
               w == (l + 1) * PerLayer
    <3>2. u \in Nat /\ w = u + PerLayer /\ PerLayer \in Nat /\ w <= PerPass /\ PerPass \in Nat
      BY <1>b, <1>1, <1>7
    <3>. HIDE DEF u, w
    <3>3. u + Earlier(s) <= PerPass
      BY <3>1, <3>2
    <3>. QED  BY <3>1, <3>3 DEF u
  <2>4. f > 0 /\ Len(calls'[r]) <= f * PerPass
    <3>1. l * PerLayer + Earlier(s) \in Nat
      BY <2>3, <1>b
    <3>2. Len(calls'[r]) <= base + PerPass
      <4> DEFINE w == l * PerLayer + Earlier(s)
      <4>1. base \in Nat /\ PerPass \in Nat /\ w \in Nat /\ w <= PerPass
        BY <1>1, <1>5, <2>3, <3>1
      <4>2. Len(calls'[r]) = base + w
        BY <2>2
      <4>. HIDE DEF base, w
      <4>. QED  BY <4>1, <4>2
    <3>3. f > 0
      BY <1>1
    <3>. QED  BY <3>2, <3>3, <1>5
  <2>5. pc'[r] \in Sites /\ forwards'[r] = f /\ layer'[r] = l /\ Earlier(pc'[r]) = Earlier(s)
    BY <2>1, <1>9 DEF f
  <2>6. Len(calls'[r]) <= forwards'[r] * PerPass' /\ forwards'[r] > 0
    BY <1>a, <2>4, <2>5, Zenon
  <2>7. Len(calls'[r]) = (forwards'[r] - 1) * PerPass' + (layer'[r] * PerLayer' + Earlier(pc'[r]))
    BY <1>a, <2>2, <2>5, Zenon DEF base
  <2>8. layer'[r] < job'.files.layers /\ (pc'[r] = "mlp" => ~IsMoe(job'.files))
    BY <2>1, <1>1, <1>9
  <2>. QED  BY <2>5, <2>6, <2>7, <2>8, Zenon DEF CallsCounted
<1>10. CASE pc[r] = "mlp" \/ (pc[r] = "o" /\ IsMoe(job.files))
  <2>1. LayerEnds(r)
    BY <1>10 DEF Advance
  <2>2. Earlier(pc[r]) + 1 = PerLayer
    <3>1. pc[r] = "mlp" => ~IsMoe(job.files)
      BY <1>1, Zenon
    <3>. QED  BY <1>10, <3>1 DEF Earlier, PerLayer
  <2>. QED  BY <1>8, <2>1, <2>2
<1>11. CASE pc[r] \in {"q", "k", "v"} \/ (pc[r] = "o" /\ ~IsMoe(job.files))
  <2>1. CASE pc[r] = "q"
    <3>1. UNCHANGED layer /\ Goto(r, "k")
      BY <2>1 DEF Advance
    <3>2. Earlier("k") = Earlier(pc[r]) + 1 /\ Earlier("k") < PerLayer /\ "k" \in Sites
      BY <2>1 DEF Earlier, PerLayer, Sites
    <3>. QED  BY <1>9, <3>1, <3>2
  <2>2. CASE pc[r] = "k"
    <3>1. UNCHANGED layer /\ Goto(r, "v")
      BY <2>2 DEF Advance
    <3>2. Earlier("v") = Earlier(pc[r]) + 1 /\ Earlier("v") < PerLayer /\ "v" \in Sites
      BY <2>2 DEF Earlier, PerLayer, Sites
    <3>. QED  BY <1>9, <3>1, <3>2
  <2>3. CASE pc[r] = "v"
    <3>1. UNCHANGED layer /\ Goto(r, "o")
      BY <2>3 DEF Advance
    <3>2. Earlier("o") = Earlier(pc[r]) + 1 /\ Earlier("o") < PerLayer /\ "o" \in Sites
      BY <2>3 DEF Earlier, PerLayer, Sites
    <3>. QED  BY <1>9, <3>1, <3>2
  <2>4. CASE pc[r] = "o" /\ ~IsMoe(job.files)
    <3>1. UNCHANGED layer /\ Goto(r, "mlp")
      BY <2>4 DEF Advance
    <3>2. Earlier("mlp") = Earlier(pc[r]) + 1 /\ Earlier("mlp") < PerLayer /\ "mlp" \in Sites
      BY <2>4 DEF Earlier, PerLayer, Sites
    <3>. QED  BY <1>9, <2>4, <3>1, <3>2
  <2>. QED  BY <1>11, <2>1, <2>2, <2>3, <2>4
<1>. QED  BY <1>10, <1>11 DEF Sites

LEMMA ProgressHost ==
  ASSUME TPTypeOK, RankKnowsJob, CallsFollow, ProgressFits, NEW r \in Ranks, HostStep(r)
  PROVE  ProgressFits'
<1>1. pc \in [Ranks -> Places] /\ layer \in [Ranks -> Nat] /\ forwards \in [Ranks -> 0 .. job.passes]
  BY TypeParts
<1>2. CASE InitRejects(r) \/ InitAlone(r) \/ BeginJoin(r) \/ Load(r) \/ EndForward(r)
           \/ Free(r) \/ Finalize(r)
  <2>1. UNCHANGED <<job, calls, failed, ran, layer, forwards>>
    BY <1>2 DEF InitRejects, InitAlone, BeginJoin, Load, EndForward, Free, Finalize
  <2>2. /\ pc[r] \notin Sites \cup {"aborted"} /\ pc'[r] \notin Sites \cup {"aborted"}
        /\ \A q \in Ranks \ {r} : pc'[q] = pc[q]
    BY <1>1, <1>2 DEF InitRejects, InitAlone, BeginJoin, Load, EndForward, Free, Finalize, Goto, Sites
  <2>3. CallsCounted(r) => CallsCounted(r)'
    BY <2>1, <2>2 DEF CallsCounted, PerPass, PerLayer, IsMoe
  <2>. QED  BY <2>1, <2>2, <2>3, ProgressMove
<1>3. CASE BeginForward(r)
  <2>1. /\ UNCHANGED <<job, calls, failed, ran>> /\ layer'[r] = 0
        /\ pc[r] = "loaded" /\ forwards'[r] = forwards[r] + 1
        /\ pc'[r] = IF job.files.layers > 0 THEN "q" ELSE "sync"
        /\ \A q \in Ranks \ {r} : pc'[q] = pc[q] /\ layer'[q] = layer[q] /\ forwards'[q] = forwards[q]
    BY <1>1, <1>3 DEF BeginForward, Goto
  <2>2. ASSUME CallsCounted(r)
        PROVE  CallsCounted(r)'
    <3>1. Len(calls'[r]) = forwards[r] * PerPass
      BY <2>1, <2>2 DEF CallsCounted, Sites
    <3>2. /\ forwards[r] \in Nat /\ PerPass \in Nat /\ job.files.layers \in Nat
          /\ PerPass' = PerPass /\ PerLayer' = PerLayer
      BY <2>1, ProgressTypes DEF PerPass, PerLayer, IsMoe
    <3>3. (forwards[r] + 1) * PerPass = forwards[r] * PerPass + PerPass /\ forwards[r] * PerPass \in Nat
      BY <3>2, Commutes, Distributes, TimesNat
    <3>4. job.files.layers = 0 => PerPass = 0
      BY DEF PerPass, PerLayer
    <3>5. 0 * PerLayer = 0
      BY DEF PerLayer
    <3>6. forwards'[r] - 1 = forwards[r]
      BY <2>1, <3>2
    <3> DEFINE u == forwards[r] * PerPass
    <3>7. u \in Nat /\ Len(calls'[r]) = u /\ forwards'[r] * PerPass' = u + PerPass
          /\ (forwards'[r] - 1) * PerPass' = u /\ layer'[r] * PerLayer' = 0
      BY <2>1, <3>1, <3>2, <3>3, <3>5, <3>6
    <3>8. CASE job.files.layers > 0
      <4>1. Earlier("q") = 0 /\ pc'[r] = "q" /\ "q" \in Sites /\ "q" # "mlp"
        BY <2>1, <3>8 DEF Earlier, Sites
      <4>2. forwards'[r] > 0 /\ layer'[r] < job'.files.layers
        BY <2>1, <3>2, <3>8
      <4>. HIDE DEF u
      <4>. QED  BY <3>2, <3>7, <4>1, <4>2 DEF CallsCounted
    <3>9. CASE job.files.layers = 0
      <4>1. pc'[r] = "sync" /\ "sync" \notin Sites \cup {"aborted"} /\ PerPass = 0
        BY <2>1, <3>4, <3>9 DEF Sites
      <4>. HIDE DEF u
      <4>. QED  BY <3>7, <4>1 DEF CallsCounted
    <3>. QED  BY <3>2, <3>8, <3>9
  <2>. QED  BY <2>1, <2>2, ProgressMove
<1>4. CASE Enqueue(r)
  <2>1. /\ UNCHANGED <<job, failed, ran, forwards>> /\ pc[r] \in Sites /\ Advance(r)
        /\ calls' = [calls EXCEPT ![r] = Append(@, CallAt(r, pc[r]))]
    BY <1>4 DEF Enqueue
  <2>2. /\ Len(calls'[r]) = Len(calls[r]) + 1 /\ Len(calls[r]) \in Nat /\ ran \in Nat
        /\ \A q \in Ranks \ {r} : calls'[q] = calls[q]
    <3>1. CallAt(r, pc[r]) \in AnyCall
      BY <2>1, CallOfPlace
    <3>. QED  BY <2>1, <3>1, ProgressTypes, AppendProperties DEF CallsFollow
  <2>3. \A q \in Ranks \ {r} : pc'[q] = pc[q] /\ layer'[q] = layer[q] /\ forwards'[q] = forwards[q]
    BY <2>1, AdvanceFollows
  <2>4. \A q \in Ranks : CallsCounted(q) => CallsCounted(q)'
    <3>1. CallsCounted(r) => CallsCounted(r)'
      BY <2>1, <2>2, AdvanceCounts
    <3>2. \A q \in Ranks \ {r} : CallsCounted(q) => CallsCounted(q)'
      BY <2>1, <2>2, <2>3 DEF CallsCounted, PerPass, PerLayer, IsMoe
    <3>. QED  BY <3>1, <3>2
  <2>5. \A q \in Ranks : ran' <= Len(calls'[q])
    BY <2>1, <2>2 DEF ProgressFits
  <2>. QED  BY <2>1, <2>4, <2>5, SameJob DEF ProgressFits
<1>5. CASE PassSite(r)
  <2>1. ~(job.size > 1)
    BY <1>5 DEF PassSite, Enabled, RankKnowsJob
  <2>2. UNCHANGED <<job, calls, failed, ran, forwards>> /\ pc[r] \in Sites /\ Advance(r)
    BY <1>5 DEF PassSite
  <2>. QED  BY <2>1, <2>2, SameJob DEF ProgressFits
<1>. QED  BY <1>2, <1>3, <1>4, <1>5 DEF HostStep

LEMMA ProgressStep ==
  ASSUME TPTypeOK, RankKnowsJob, CallsFollow, ProgressFits, [TPNext]_tpVars
  PROVE  ProgressFits'
<1>1. pc \in [Ranks -> Places]
  BY TypeParts
<1>2. ASSUME NEW r \in Ranks, SetDeviceFails(r) \/ JoinFails(r) \/ CudaAborts(r)
      PROVE  ProgressFits'
  <2>1. /\ UNCHANGED <<job, calls, failed, ran, layer, forwards>>
        /\ \A q \in Ranks \ {r} : pc'[q] = pc[q]
        /\ \/ pc'[r] = "aborted"
           \/ pc[r] \in {"start", "join"} /\ pc'[r] = "failed"
    BY <1>1, <1>2 DEF SetDeviceFails, JoinFails, CudaAborts, Goto
  <2>2. CallsCounted(r) => CallsCounted(r)'
    BY <2>1 DEF CallsCounted, PerPass, PerLayer, IsMoe, Sites
  <2>. QED  BY <2>1, <2>2, ProgressMove
<1>3. ASSUME NEW r \in Ranks, EnqueueFails(r)
      PROVE  ProgressFits'
  BY <1>3, SameJob DEF EnqueueFails, ProgressFits
<1>4. CASE JoinAll
  <2>1. /\ UNCHANGED <<job, calls, failed, ran, layer, forwards>>
        /\ \A q \in Ranks : pc[q] = "join" /\ pc'[q] = "ready"
    BY <1>4 DEF JoinAll
  <2>2. \A q \in Ranks : CallsCounted(q) => CallsCounted(q)'
    BY <2>1 DEF CallsCounted, PerPass, PerLayer, IsMoe, Sites
  <2>. QED  BY <2>1, <2>2, SameJob DEF ProgressFits
<1>5. CASE RunCollective \/ UNCHANGED tpVars
  <2>1. UNCHANGED <<job, calls, failed, layer, forwards, pc>>
    BY <1>5 DEF RunCollective
  <2>2. \A q \in Ranks : ran' <= Len(calls'[q])
    BY <2>1, <1>5, ProgressTypes DEF RunCollective, ProgressFits
  <2>3. \A q \in Ranks : CallsCounted(q) => CallsCounted(q)'
    BY <2>1 DEF CallsCounted, PerPass, PerLayer, IsMoe
  <2>. QED  BY <2>1, <2>2, <2>3, SameJob DEF ProgressFits
<1>. QED  BY <1>2, <1>3, <1>4, <1>5, ProgressHost DEF TPNext, Fault

\* Who leaves a forward pass has waited for all its collectives, which every rank has made; and
\* as many calls are as many passes.
LEMMA ReturnStep ==
  ASSUME TPTypeOK, RankKnowsJob, CallsFollow, ProgressFits, [TPNext]_tpVars,
         NEW r \in Ranks, pc[r] = "sync", pc'[r] = "loaded", Enabled(r), failed = {},
         NEW q \in Ranks
  PROVE  Len(calls[q]) >= Len(calls[r]) /\ (job.files.layers > 0 => forwards[q] >= forwards[r])
<1>1. ran >= Len(calls[r])
  <2>1. pc \in [Ranks -> Places]
    BY TypeParts
  <2>2. ASSUME NEW p \in Ranks, HostStep(p) \/ Fault(p), ~EndForward(p)
        PROVE  FALSE
    BY <2>1, <2>2 DEF HostStep, Fault, InitRejects, InitAlone, BeginJoin, Load, BeginForward, Enqueue,
            PassSite, Free, Finalize, SetDeviceFails, JoinFails, EnqueueFails, CudaAborts, Advance,
            LayerEnds, Goto, Sites
  <2>3. CASE \E p \in Ranks : EndForward(p)
    BY <2>1, <2>3 DEF EndForward, Goto
  <2>4. CASE JoinAll \/ RunCollective \/ UNCHANGED tpVars
    BY <2>4 DEF JoinAll, RunCollective
  <2>. QED  BY <2>2, <2>3, <2>4 DEF TPNext
<1>2. /\ Len(calls[q]) \in Nat /\ Len(calls[r]) \in Nat /\ ran \in Nat
      /\ forwards[q] \in Nat /\ forwards[r] \in Nat /\ PerPass \in Nat
  BY ProgressTypes
<1>3. Len(calls[q]) >= Len(calls[r])
  BY <1>1, <1>2 DEF ProgressFits
<1>4. ASSUME job.files.layers > 0
      PROVE  forwards[q] >= forwards[r]
  <2>1. job.size > 1
    BY DEF Enabled, RankKnowsJob
  <2>2. Len(calls[r]) = forwards[r] * PerPass /\ Len(calls[q]) <= forwards[q] * PerPass
    BY <2>1 DEF ProgressFits, CallsCounted, Sites
  <2>3. PerPass > 0
    BY <1>4, ProgressTypes DEF PerPass, PerLayer
  <2>4. forwards[q] < forwards[r] => forwards[q] * PerPass < forwards[r] * PerPass
    BY <1>2, <2>3, TimesGrows
  <2>5. forwards[r] * PerPass \in Nat /\ forwards[q] * PerPass \in Nat
    BY <1>2, TimesNat
  <2>6. ~(forwards[q] < forwards[r])
    BY <2>2, <2>4, <2>5, <1>2, <1>3
  <2>. QED  BY <2>6, <1>2
<1>. QED  BY <1>3, <1>4

\* A forward pass returns on a rank only when every rank has entered that pass and made all the
\* collectives this rank made in it (ReturnsTogether: the cudaFree calls that end
\* tp_forward_pass), however the ranks interleave, as long as no collective has failed.
THEOREM ReturnsTogetherCorrect == TPSpec => ReturnsTogether
<1> DEFINE Inv == TPTypeOK /\ RankKnowsJob /\ CallsFollow /\ CollectivesAgree /\ ProgressFits
           Returns ==
             \A r \in Ranks :
               (pc[r] = "sync" /\ pc'[r] = "loaded" /\ Enabled(r) /\ failed = {})
                 => \A q \in Ranks : Len(calls[q]) >= Len(calls[r])
                                     /\ (job.files.layers > 0 => forwards[q] >= forwards[r])
<1>1. TPInit => Inv
  BY TypeInit, KnowsInit, CallsInit, ProgressInit
<1>2. Inv /\ [TPNext]_tpVars => Inv'
  BY TypeStep, KnowsStep, FollowStep, ProgressStep
<1>3. Inv /\ [TPNext]_tpVars => [Returns]_tpVars
  BY ReturnStep
<1>. QED  BY <1>1, <1>2, <1>3, PTL DEF TPSpec, ReturnsTogether

-----------------------------------------------------------------------------
(* What is freed.                                                           *)

LEMMA TwoThings ==
  ASSUME NEW x, NEW y, x # y
  PROVE  Cardinality({x} \cup {y}) = 2
<1>1. IsFiniteSet({x}) /\ Cardinality({x}) = 1
  BY FS_Singleton
<1>2. y \notin {x}
  OBVIOUS
<1>3. Cardinality({x} \cup {y}) = Cardinality({x}) + 1
  BY <1>1, <1>2, FS_AddElement
<1>. QED  BY <1>1, <1>3

\* The field that tp_load_model reads a tensor into.
OwnField(c, t) ==
  <<IF t \in {"embed", "lm_head", "final_norm", "rope"} \X {0} \X {0} THEN "model"
    ELSE IF IsMoe(c) /\ t[1] \in MlpNames THEN "experts" ELSE "layer", t[1], t[2], t[3]>>

\* Every tensor has a field of tp_free_model's list to itself.
LEMMA OwnFieldFreed ==
  ASSUME NEW c, NEW t \in TensorsOf(c)
  PROVE  OwnField(c, t) \in FreedFields(c) /\ Held(c, OwnField(c, t)) = t
<1>1. CASE t \in ({"embed", "final_norm", "rope"}
                   \cup (IF c.tied THEN {} ELSE {"lm_head"})) \X {0} \X {0}
  <2>1. t = <<t[1], t[2], t[3]>> /\ t[1] \in ModelFields /\ t[2] = 0 /\ t[3] = 0
    BY <1>1 DEF ModelFields
  <2>2. OwnField(c, t) = <<"model", t[1], t[2], t[3]>>
    BY <1>1, <2>1 DEF OwnField
  <2>3. OwnField(c, t) \in FreedFields(c)
    BY <2>1, <2>2 DEF FreedFields
  <2>4. ~(t[1] = "lm_head" /\ c.tied)
    BY <1>1
  <2>. QED  BY <2>1, <2>2, <2>3, <2>4 DEF Held
<1>2. CASE t \in (AttnNames \cup (IF c.biases THEN BiasNames ELSE {})) \X LayerIds(c) \X {0}
  <2>1. /\ t = <<t[1], t[2], t[3]>> /\ t[1] \in AttnNames \cup BiasNames
        /\ t[2] \in LayerIds(c) /\ t[3] = 0
    BY <1>2
  <2>2. t[1] \in LayerFields /\ t[1] \notin MlpNames /\ t[1] \notin ModelFields
    BY <2>1 DEF AttnNames, BiasNames, MlpNames, LayerFields, ModelFields
  <2>3. OwnField(c, t) = <<"layer", t[1], t[2], t[3]>>
    BY <2>1, <2>2 DEF OwnField, ModelFields
  <2>4. OwnField(c, t) \in FreedFields(c)
    BY <2>1, <2>2, <2>3 DEF FreedFields
  <2>. QED  BY <2>1, <2>2, <2>3, <2>4 DEF Held, ModelFields
<1>3. CASE IsMoe(c) /\ t \in {"moe_gate"} \X LayerIds(c) \X {0}
  <2>1. t = <<t[1], t[2], t[3]>> /\ t[1] = "moe_gate" /\ t[2] \in LayerIds(c) /\ t[3] = 0
    BY <1>3
  <2>2. OwnField(c, t) = <<"layer", t[1], t[2], t[3]>>
    BY <2>1 DEF OwnField, MlpNames
  <2>3. OwnField(c, t) \in FreedFields(c)
    BY <2>1, <2>2 DEF FreedFields, LayerFields
  <2>. QED  BY <2>1, <2>2, <2>3 DEF Held, MlpNames
<1>4. CASE IsMoe(c) /\ t \in MlpNames \X LayerIds(c) \X Experts(c)
  <2>1. /\ t = <<t[1], t[2], t[3]>> /\ t[1] \in MlpNames
        /\ t[2] \in LayerIds(c) /\ t[3] \in Experts(c)
    BY <1>4
  <2>2. OwnField(c, t) = <<"experts", t[1], t[2], t[3]>>
    BY <1>4, <2>1 DEF OwnField, MlpNames
  <2>3. OwnField(c, t) \in FreedFields(c)
    BY <1>4, <2>1, <2>2 DEF FreedFields, ExpertFields, MlpNames
  <2>. QED  BY <2>1, <2>2, <2>3 DEF Held, MlpNames
<1>5. CASE ~IsMoe(c) /\ t \in MlpNames \X LayerIds(c) \X {0}
  <2>1. /\ t = <<t[1], t[2], t[3]>> /\ t[1] \in MlpNames
        /\ t[2] \in LayerIds(c) /\ t[3] = 0
    BY <1>5
  <2>2. OwnField(c, t) = <<"layer", t[1], t[2], t[3]>>
    BY <1>5, <2>1 DEF OwnField, MlpNames
  <2>3. OwnField(c, t) \in FreedFields(c)
    BY <2>1, <2>2 DEF FreedFields, LayerFields, MlpNames
  <2>. QED  BY <1>5, <2>1, <2>2, <2>3 DEF Held, MlpNames
<1>. QED  BY <1>1, <1>2, <1>3, <1>4, <1>5 DEF TensorsOf

\* Another field holds the tensor only if it is lm_head, with tied embeddings.
LEMMA HeldApart ==
  ASSUME NEW c, NEW t \in TensorsOf(c), NEW f \in FreedFields(c), Held(c, f) = t
  PROVE  \/ f = OwnField(c, t)
         \/ c.tied /\ t = <<"embed", 0, 0>> /\ f = <<"model", "lm_head", 0, 0>>
<1>1. t # NullPointer
  <2>1. t[1] \in {"embed", "final_norm", "rope", "lm_head", "moe_gate"}
                  \cup AttnNames \cup BiasNames \cup MlpNames
    BY DEF TensorsOf
  <2>2. t[1] # "nullptr"
    BY <2>1 DEF AttnNames, BiasNames, MlpNames
  <2>. QED  BY <2>2 DEF NullPointer
<1>2. CASE f[2] = "lm_head" /\ c.tied
  <2>1. t = <<"embed", 0, 0>>
    BY <1>2 DEF Held
  <2>2. f = <<"model", "lm_head", 0, 0>>
    BY <1>2 DEF FreedFields, ModelFields, LayerFields, ExpertFields
  <2>. QED  BY <1>2, <2>1, <2>2
<1>3. CASE ~(f[2] = "lm_head" /\ c.tied)
  <2>1. t = <<f[2], f[3], f[4]>> /\ ~(f[1] = "layer" /\ f[2] \in MlpNames /\ IsMoe(c))
    BY <1>1, <1>3 DEF Held
  <2>2. t[1] = f[2] /\ t[2] = f[3] /\ t[3] = f[4]
    BY <2>1
  <2>3. CASE f \in {"model"} \X ModelFields \X {0} \X {0}
    BY <2>1, <2>2, <2>3 DEF OwnField, ModelFields
  <2>4. CASE f \in {"layer"} \X LayerFields \X LayerIds(c) \X {0}
    <3>1. f = <<"layer", f[2], f[3], f[4]>> /\ f[2] \in LayerFields
      BY <2>4
    <3>2. t \notin {"embed", "lm_head", "final_norm", "rope"} \X {0} \X {0}
      BY <2>1, <3>1 DEF LayerFields
    <3>. QED  BY <2>1, <2>2, <3>1, <3>2 DEF OwnField
  <2>5. CASE IsMoe(c) /\ f \in {"experts"} \X ExpertFields \X LayerIds(c) \X Experts(c)
    <3>1. f = <<"experts", f[2], f[3], f[4]>> /\ f[2] \in MlpNames
      BY <2>5 DEF ExpertFields, MlpNames
    <3>2. t \notin {"embed", "lm_head", "final_norm", "rope"} \X {0} \X {0}
      BY <2>1, <3>1 DEF MlpNames
    <3>. QED  BY <2>2, <2>5, <3>1, <3>2 DEF OwnField
  <2>. QED  BY <2>3, <2>4, <2>5 DEF FreedFields
<1>. QED  BY <1>2, <1>3

\* The fields that name a tensor's memory: its own, and for tied embeddings lm_head's too.
LEMMA FreesOnce ==
  ASSUME NEW c, NEW t \in TensorsOf(c)
  PROVE  Frees(c)[t] = IF c.tied /\ t = <<"embed", 0, 0>> THEN 2 ELSE 1
<1> DEFINE F    == {f \in FreedFields(c) : Held(c, f) = t}
           head == <<"model", "lm_head", 0, 0>>
           own  == OwnField(c, t)
<1>1. Frees(c)[t] = Cardinality(F)
  BY DEF Frees
<1>2. own \in F
  BY OwnFieldFreed
<1>3. CASE c.tied /\ t = <<"embed", 0, 0>>
  <2>1. head \in F /\ own = <<"model", "embed", 0, 0>>
    BY <1>3 DEF FreedFields, ModelFields, Held, OwnField
  <2>2. F = {own} \cup {head} /\ own # head
    BY <1>2, <2>1, HeldApart
  <2>3. Cardinality({own} \cup {head}) = 2
    BY <2>2, TwoThings, Zenon
  <2>. QED  BY <1>1, <1>3, <2>2, <2>3
<1>4. CASE ~(c.tied /\ t = <<"embed", 0, 0>>)
  <2>1. F = {own}
    BY <1>2, <1>4, HeldApart
  <2>2. Cardinality({own}) = 1
    BY FS_Singleton
  <2>. QED  BY <1>1, <1>4, <2>1, <2>2
<1>. QED  BY <1>3, <1>4

\* A rank is past tp_free_model only by way of it.
FreedByFree ==
  DOMAIN freed = Ranks /\ \A r \in Ranks : pc[r] \in {"freed", "done"} => freed[r] = Frees(job.files)

LEMMA FreedStep ==
  ASSUME TPTypeOK, FreedByFree, [TPNext]_tpVars
  PROVE  FreedByFree'
<1>1. pc \in [Ranks -> Places]
  BY TypeParts
<1>2. ASSUME NEW r \in Ranks, Free(r)
      PROVE  FreedByFree'
  BY <1>1, <1>2, SameJob DEF Free, FreedByFree, Goto
<1>3. ASSUME NEW r \in Ranks, Finalize(r)
      PROVE  FreedByFree'
  BY <1>1, <1>3, SameJob DEF Finalize, FreedByFree, Goto
<1>4. ASSUME NEW r \in Ranks, HostStep(r) \/ Fault(r), ~Free(r), ~Finalize(r)
      PROVE  FreedByFree'
  <2>1. UNCHANGED <<job, freed>>
    BY <1>4 DEF HostStep, Fault, InitRejects, InitAlone, BeginJoin, Load, BeginForward, Enqueue,
                PassSite, EndForward, SetDeviceFails, JoinFails, EnqueueFails, CudaAborts
  <2>2. \E where \in Places \ {"freed", "done"} : Goto(r, where)
    BY <1>4 DEF HostStep, Fault, InitRejects, InitAlone, BeginJoin, Load, BeginForward, Enqueue,
                PassSite, EndForward, SetDeviceFails, JoinFails, EnqueueFails, CudaAborts,
                Advance, LayerEnds, Goto, Places, Sites
  <2>. QED  BY <1>1, <2>1, <2>2, SameJob DEF FreedByFree, Goto
<1>5. CASE JoinAll \/ RunCollective \/ UNCHANGED tpVars
  BY <1>1, <1>5, SameJob DEF JoinAll, RunCollective, FreedByFree
<1>. QED  BY <1>2, <1>3, <1>4, <1>5 DEF TPNext

\* When a rank has left tp_free_model every tensor's memory was freed, and not twice where
\* one field holds it, whatever the checkpoint's layers and experts.
THEOREM FreedExactlyOnceCorrect == TPSpec => []FreedExactlyOnce
<1>1. TPInit => TPTypeOK /\ FreedByFree
  BY TypeInit DEF TPInit, FreedByFree
<1>2. TPTypeOK /\ FreedByFree /\ [TPNext]_tpVars => (TPTypeOK /\ FreedByFree)'
  BY TypeStep, FreedStep
<1>3. FreedByFree => FreedExactlyOnce
  BY FreesOnce DEF FreedByFree, FreedExactlyOnce
<1>. QED  BY <1>1, <1>2, <1>3, PTL DEF TPSpec

=============================================================================
