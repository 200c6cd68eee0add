---------------------------- MODULE ServerProofs ----------------------------
(***************************************************************************)
(* Proofs about the server, for any number of client threads.              *)
(*                                                                         *)
(* Threads inside step() interfere with each other.  What no other thread  *)
(* undoes is CallsInv, of EngineProofs: a request stays Begun and Over, a  *)
(* thread samples a request once per step, and its output is made of what  *)
(* it sampled.  From these, what a client has read follows (ClientFits,    *)
(* CountFits).                                                             *)
(***************************************************************************)
EXTENDS ServerProps, EngineProofs

(* The tuples that UNCHANGED lists. *)
USE DEF schedVars, poolVars, requestVars, queueVars, localVars, allocVars,
        pagedVars, engineVars, jobVars, outputVars, clientVars, serverVars

\* A client thread and its call of step(); what it has answered.
ClientFit(t) ==
  /\ conn[t] # "step" => pc[t] = "out"
  /\ conn[t] = "new" => outIds[t] = <<>> /\ text[t] = 0 /\ stray[t] = 0 /\ ~done[t]
  /\ conn[t] \in {"generate", "closed"} => idx[t] > Len(outToks[t])
  /\ pc[t] # "out" => idx[t] = 1
  /\ conn[t] # "new" => rid[t] \in known
  /\ conn[t] = "closed" => done[t]
  /\ done[t] => Over(rid[t])

ClientFits == \A t \in Threads : ClientFit(t)

\* The tokens of r that report_output has appended and that t has still to hand out.
Owed(t, r) == InHand(t, r, idx[t])

\* A reply holds tokens that were generated, and not the one it is still owed.
CountFit(t) ==
  conn[t] # "new" =>
    /\ text[t] - stray[t] <= genLen[rid[t]]
    /\ Owed(t, rid[t]) => text[t] - stray[t] < genLen[rid[t]]

CountFits == \A t \in Threads : CountFit(t)

ServerInv == /\ CallsInv /\ ServerTypeOK /\ ClientFits /\ CountFits

-----------------------------------------------------------------------------
(* The client threads are callers of the engine. *)

\* A client thread either calls the engine or reads what the call brought home.
ClientCall(t) ==
  (\E n \in PromptLens, m \in MaxNews : Accept(t, n, m)) \/ CallStep(t) \/ InStep(t)

ClientReads(t) == SkipEntry(t) \/ TakeToken(t) \/ Fault(t) \/ EndScan(t) \/ Reply(t)

LEMMA ClientCalls ==
  ASSUME NEW t \in Threads, ClientCall(t)
  PROVE  EngineCall(t)
  BY DEF ClientCall, EngineCall, Accept, CallStep, InStep

LEMMA ClientLeaves ==
  ASSUME NEW t \in Threads, ClientReads(t)
  PROVE  UNCHANGED pagedVars
  BY DEF ClientReads, SkipEntry, TakeToken, Fault, EndScan, Reply

\* The server is one of the callers EngineSpec stands for, so what is proved of an engine
\* with any number of threads holds in it.
THEOREM ServerUsesEngine == ServerSpec => EngineSpec
<1>1. ServerInit => EngineInit
  BY DEF ServerInit
<1>2. [ServerNext]_serverVars => [EngineNext]_pagedVars
  <2>1. ASSUME ServerNext
        PROVE  EngineNext \/ UNCHANGED pagedVars
    <3>1. PICK t \in Threads : ClientCall(t) \/ ClientReads(t)
      BY <2>1 DEF ServerNext, ClientStep, ClientCall, ClientReads
    <3>. QED  BY <3>1, ClientCalls, ClientLeaves DEF EngineCall, EngineNext
  <2>. QED  BY <2>1
<1>. QED  BY <1>1, <1>2, PTL DEF ServerSpec, EngineSpec

\* A thread writes the variables of its own connection only.
LEMMA ClientsStand ==
  ASSUME ServerTypeOK, NEW t \in Threads, ClientCall(t) \/ ClientReads(t),
         NEW u \in Threads, u # t
  PROVE  /\ conn'[u] = conn[u] /\ rid'[u] = rid[u] /\ idx'[u] = idx[u]
         /\ text'[u] = text[u] /\ stray'[u] = stray[u] /\ done'[u] = done[u]
<1>a. /\ conn \in [Threads -> {"new", "generate", "step", "closed"}]
      /\ DOMAIN rid = Threads /\ DOMAIN idx = Threads /\ DOMAIN text = Threads
      /\ DOMAIN stray = Threads /\ DOMAIN done = Threads
  BY DEF ServerTypeOK
<1>1. CASE \E n \in PromptLens, m \in MaxNews : Accept(t, n, m)
  BY <1>1, <1>a DEF Accept
<1>2. CASE CallStep(t)
  BY <1>2, <1>a DEF CallStep
<1>3. CASE InStep(t) \/ SkipEntry(t) \/ Fault(t) \/ EndScan(t) \/ Reply(t)
  BY <1>3, <1>a DEF InStep, SkipEntry, Fault, EndScan, Reply
<1>4. CASE TakeToken(t)
  BY <1>4, <1>a DEF TakeToken
<1>. QED  BY <1>1, <1>2, <1>3, <1>4 DEF ClientCall, ClientReads

LEMMA SubmitNames ==
  ASSUME SchedTypeOK, NEW t \in Threads, NEW n \in PromptLens, NEW m \in MaxNews,
         Submit(t, n, m)
  PROVE  nextId \in Rids /\ nextId \in known'
  BY RequestAssumption DEF Submit, SchedTypeOK, Rids

LEMMA ServerTypeStep ==
  ASSUME SchedTypeOK, ServerTypeOK, NEW t \in Threads, ClientCall(t) \/ ClientReads(t)
  PROVE  ServerTypeOK'
<1>. USE DEF ServerTypeOK
<1>1. CASE \E n \in PromptLens, m \in MaxNews : Accept(t, n, m)
  BY <1>1, SubmitNames DEF Accept, SubmitTokens
<1>2. CASE CallStep(t)
  BY <1>2 DEF CallStep
<1>3. CASE InStep(t) \/ Fault(t) \/ EndScan(t) \/ Reply(t)
  BY <1>3 DEF InStep, Fault, EndScan, Reply
<1>4. CASE SkipEntry(t)
  BY <1>4 DEF SkipEntry
<1>5. CASE TakeToken(t)
  <2>1. text' \in [Threads -> Nat] /\ stray' \in [Threads -> Nat]
    BY <1>5 DEF TakeToken
  <2>2. idx' \in [Threads -> Nat \ {0}]
    BY <1>5 DEF TakeToken
  <2>3. done' \in [Threads -> BOOLEAN]
    BY <1>5 DEF TakeToken
  <2>. QED  BY <1>5, <2>1, <2>2, <2>3 DEF TakeToken
<1>. QED  BY <1>1, <1>2, <1>3, <1>4, <1>5 DEF ClientCall, ClientReads

LEMMA OutStays ==
  ASSUME EngineInv, NEW t \in Threads, pc[t] = "out", StepProgress(t)
  PROVE  pc'[t] = "out"
  BY DEF StepProgress, InScheduler, StepScheduled, PickRequest, PrefillAlloc, PrefillWrite,
         PrefillSample, PrefillEnd, DecodeWrite, DecodeSample, StepReport, StepReported,
         CollectToken, CollectFinished, StepReturn, At

LEMMA ClientCallFits ==
  ASSUME CallsInv, ServerTypeOK, ClientFits, NEW t \in Threads, ClientCall(t)
  PROVE  ClientFits'
<1>. SUFFICES ASSUME NEW u \in Threads PROVE ClientFit(u)'
  BY DEF ClientFits
<1>a. /\ EngineCall(t) /\ EngineStep(t) /\ EngineInv /\ NoneRemoves /\ WaitFits
      /\ SchedTypeOK /\ ClientFit(u) /\ OutFit(u)
      /\ pc \in [Threads -> PagedLabels] /\ DOMAIN outIds = Threads /\ DOMAIN outToks = Threads
  BY ClientCalls, CallIsStep DEF CallsInv, EngineInv, EngineTypeOK, ClientFits, OutsFit
<1>b. rid[u] \in Rids /\ idx[u] \in Nat \ {0}
  BY DEF ServerTypeOK
<1>c. (rid[u] \in known => rid[u] \in known') /\ (Over(rid[u]) => OverThen(rid[u]))
  <2>1. PICK q \in Rids : q = rid[u]
    BY <1>b
  <2>2. (q \in known => q \in known') /\ (Over(q) => OverThen(q))
    BY <1>a, CallKeeps DEF Over, OverThen
  <2>. QED  BY <2>1, <2>2
<1>. USE DEF Over, OverThen
<1>1. CASE t # u
  <2>1. /\ pc'[u] = pc[u] /\ outIds'[u] = outIds[u] /\ outToks'[u] = outToks[u]
    BY <1>1, <1>a, OthersStand
  <2>. QED  BY <1>1, <1>a, <1>c, <2>1, ClientsStand DEF ClientFit
<1>2. CASE t = u /\ \E n \in PromptLens, m \in MaxNews : Accept(t, n, m)
  <2>1. /\ conn[t] = "new" /\ conn'[t] = "generate" /\ rid'[t] = nextId /\ nextId \in known'
        /\ UNCHANGED <<pc, outIds, outToks, idx, done>>
    BY <1>2, <1>a, SubmitNames DEF Accept, SubmitTokens, ServerTypeOK, ConnAt
  <2>2. pc[t] = "out" /\ outIds[t] = <<>> /\ ~done[t]
    BY <1>2, <1>a, <2>1 DEF ClientFit
  <2>3. Len(outToks[t]) <= 0 /\ Len(outToks[t]) \in Nat
    <3>1. outToks[t] \in Seq(Tokens)
      BY <1>a DEF EngineInv, EngineTypeOK
    <3>. QED  BY <1>2, <1>a, <2>2, <3>1, LenProperties DEF OutFit
  <2>4. idx[t] > Len(outToks[t])
    BY <1>2, <1>b, <2>3
  <2>. QED  BY <1>2, <2>1, <2>2, <2>4 DEF ClientFit
<1>3. CASE t = u /\ CallStep(t)
  <2>1. /\ conn'[t] = "step" /\ idx'[t] = 1 /\ conn[t] = "generate"
        /\ UNCHANGED <<rid, done>>
    BY <1>3 DEF CallStep, ServerTypeOK, ConnAt
  <2>. QED  BY <1>3, <1>a, <1>c, <2>1 DEF ClientFit
<1>4. CASE t = u /\ InStep(t)
  <2>1. conn[t] = "step" /\ UNCHANGED <<conn, rid, idx, done>>
    BY <1>4 DEF InStep, ConnAt
  <2>2. pc'[t] # "out" => pc[t] # "out"
    BY <1>4, <1>a, OutStays DEF InStep
  <2>. QED  BY <1>4, <1>a, <1>c, <2>1, <2>2 DEF ClientFit
<1>. QED  BY <1>1, <1>2, <1>3, <1>4 DEF ClientCall

LEMMA ClientReadFits ==
  ASSUME CallsInv, ServerTypeOK, ClientFits, NEW t \in Threads, ClientReads(t)
  PROVE  ClientFits'
<1>. SUFFICES ASSUME NEW u \in Threads PROVE ClientFit(u)'
  BY DEF ClientFits
<1>a. /\ UNCHANGED <<pc, outIds, outToks, known, state, preempted>> /\ ClientFit(u) /\ OutFit(u)
  BY ClientLeaves DEF ClientFits, CallsInv, OutsFit
<1>. USE DEF Over
<1>1. CASE t # u
  BY <1>1, <1>a, ClientsStand DEF ClientFit
<1>2. CASE t = u /\ (SkipEntry(t) \/ Fault(t))
  <2>1. conn[t] = "step" /\ pc[t] = "out" /\ UNCHANGED <<conn, rid, text, stray, done>>
    BY <1>2 DEF SkipEntry, Fault, ReadFaults, Scanning, ConnAt, At
  <2>. QED  BY <1>2, <1>a, <2>1 DEF ClientFit
<1>3. CASE t = u /\ TakeToken(t)
  <2>1. /\ conn[t] = "step" /\ pc[t] = "out" /\ idx[t] <= Len(outIds[t])
        /\ outIds[t][idx[t]].rid = rid[t] /\ UNCHANGED <<conn, rid>>
    BY <1>3 DEF TakeToken, Scanning, OwnEntry, ConnAt, At
  <2>2. idx[t] \in Nat \ {0} /\ Len(outIds[t]) \in Nat /\ Len(outToks[t]) \in Nat
    BY LenProperties DEF ServerTypeOK, CallsInv, EngineInv, EngineTypeOK
  <2>3. idx[t] \in 1 .. Len(outIds[t])
    BY <2>1, <2>2
  <2>4. /\ idx[t] > Len(outToks[t]) \/ outToks[t][idx[t]] = "eos" => outIds[t][idx[t]].fin
        /\ outIds[t][idx[t]].fin => Over(rid[t])
    BY <1>3, <1>a, <2>1, <2>3 DEF OutFit
  <2>5. PICK tid \in TokenRead(t) :
          done' = [done EXCEPT ![t] = @ \/ tid = "eos" \/ outIds[t][idx[t]].fin]
    BY <1>3 DEF TakeToken
  <2>6. tid = "eos" => outIds[t][idx[t]].fin
    <3>1. idx[t] <= Len(outToks[t]) \/ idx[t] > Len(outToks[t])
      BY <2>2
    <3>2. idx[t] <= Len(outToks[t]) => tid = outToks[t][idx[t]]
      BY <2>5 DEF TokenRead
    <3>. QED  BY <2>4, <3>1, <3>2
  <2>7. done'[t] => done[t] \/ outIds[t][idx[t]].fin
    BY <2>5, <2>6 DEF ServerTypeOK
  <2>. QED  BY <1>3, <1>a, <2>1, <2>4, <2>7 DEF ClientFit
<1>4. CASE t = u /\ EndScan(t)
  <2>1. /\ conn[t] = "step" /\ conn'[t] = "generate" /\ pc[t] = "out" /\ idx[t] > Len(outIds[t])
        /\ UNCHANGED <<rid, idx, done>>
    BY <1>4 DEF EndScan, ConnAt, At, ServerTypeOK
  <2>2. idx[t] \in Nat /\ Len(outIds[t]) \in Nat /\ Len(outToks[t]) \in Nat
    BY LenProperties DEF ServerTypeOK, CallsInv, EngineInv, EngineTypeOK
  <2>3. Len(outToks[t]) <= Len(outIds[t])
    BY <1>4, <1>a DEF OutFit
  <2>4. idx[t] > Len(outToks[t])
    BY <2>1, <2>2, <2>3
  <2>. QED  BY <1>4, <1>a, <2>1, <2>4 DEF ClientFit
<1>5. CASE t = u /\ Reply(t)
  <2>1. /\ conn[t] = "generate" /\ conn'[t] = "closed" /\ done[t]
        /\ UNCHANGED <<rid, idx, done, text, stray>>
    BY <1>5 DEF Reply, ConnAt, ServerTypeOK
  <2>. QED  BY <1>5, <1>a, <2>1 DEF ClientFit
<1>. QED  BY <1>1, <1>2, <1>3, <1>4, <1>5 DEF ClientReads

-----------------------------------------------------------------------------
(* No token reaches a client twice. *)

\* A token is owed anew only by the step of report_output that generates it.
LEMMA OwedFrom ==
  ASSUME CallsInv, ServerTypeOK, NEW t \in Threads, EngineCall(t), NEW u \in Threads,
         (t = u /\ StepBegin(t) /\ idx'[u] = 1) \/ idx'[u] = idx[u], NEW r \in Rids, Owed(u, r)'
  PROVE  Owed(u, r) \/ (ReportToken(t) /\ r = Head(reports)[1])
<1>1. \A n \in Nat \ {0} : n = idx'[u] => InHand(u, r, n)'
  BY DEF Owed, InHand
<1>2. idx[u] \in Nat \ {0} /\ idx'[u] \in Nat \ {0}
  BY DEF ServerTypeOK
<1>3. \A n \in Nat \ {0} : n = idx'[u] =>
        \/ InHand(u, r, n) /\ ~(t = u /\ StepBegin(t))
        \/ ReportToken(t) /\ r = Head(reports)[1]
  BY <1>1, InHandFrom
<1>. QED  BY <1>2, <1>3 DEF Owed

\* CountFits after a step, request by request.
LEMMA CountSuffices ==
  ASSUME ServerTypeOK',
         \A u \in Threads, r \in Rids : conn'[u] # "new" /\ r = rid'[u] =>
           /\ text'[u] - stray'[u] <= genLen'[r]
           /\ Owed(u, r)' => text'[u] - stray'[u] < genLen'[r]
  PROVE  CountFits'
<1>1. \A u \in Threads : rid'[u] \in Rids
  BY DEF ServerTypeOK
<1>. QED  BY <1>1 DEF CountFits, CountFit, Owed, InHand, Reported, Due

LEMMA CountNow ==
  ASSUME CountFits, NEW u \in Threads, NEW r \in Rids, conn[u] # "new", r = rid[u]
  PROVE  /\ text[u] - stray[u] <= genLen[r]
         /\ Owed(u, r) => text[u] - stray[u] < genLen[r]
  BY DEF CountFits, CountFit, Owed, InHand, Reported, Due

LEMMA CountCallFits ==
  ASSUME CallsInv, ServerTypeOK, ClientFits, CountFits, NEW t \in Threads, ClientCall(t)
  PROVE  CountFits'
<1>a. /\ EngineCall(t) /\ EngineStep(t) /\ EngineInv /\ NoneRemoves
      /\ SchedTypeOK /\ pc \in [Threads -> PagedLabels]
  BY ClientCalls, CallIsStep DEF CallsInv, EngineInv, EngineTypeOK
<1>0. ServerTypeOK'
  BY <1>a, ServerTypeStep
<1>. SUFFICES ASSUME NEW u \in Threads, NEW r \in Rids, conn'[u] # "new", r = rid'[u]
              PROVE  /\ text'[u] - stray'[u] <= genLen'[r]
                     /\ Owed(u, r)' => text'[u] - stray'[u] < genLen'[r]
  BY <1>0, CountSuffices
<1>b. /\ text[u] \in Nat /\ stray[u] \in Nat
      /\ genLen[r] \in Nat /\ genLen'[r] \in Nat /\ genLen'[r] >= genLen[r]
      /\ ReportToken(t) /\ r = Head(reports)[1] => genLen'[r] = genLen[r] + 1
  BY <1>a, TokensCounted DEF ServerTypeOK
<1>1. CASE conn[u] # "new" /\ rid[u] = r
  <2>1. /\ text[u] - stray[u] <= genLen[r]
        /\ Owed(u, r) => text[u] - stray[u] < genLen[r]
    BY <1>1, CountNow
  <2>2. text' = text /\ stray' = stray
    BY DEF ClientCall, Accept, CallStep, InStep
  <2>3. (t = u /\ StepBegin(t) /\ idx'[u] = 1) \/ idx'[u] = idx[u]
    <3>1. t # u => idx'[u] = idx[u]
      BY ClientsStand
    <3>2. t = u => (StepBegin(t) /\ idx'[u] = 1) \/ idx'[u] = idx[u]
      BY DEF ClientCall, Accept, CallStep, InStep, ServerTypeOK
    <3>. QED  BY <3>1, <3>2
  <2>4. Owed(u, r)' => Owed(u, r) \/ (ReportToken(t) /\ r = Head(reports)[1])
    BY <1>a, <2>3, OwedFrom
  <2>5. Owed(u, r)' => text[u] - stray[u] < genLen'[r]
    BY <1>b, <2>1, <2>4
  <2>6. text[u] - stray[u] <= genLen'[r]
    BY <1>b, <2>1
  <2>. QED  BY <2>2, <2>5, <2>6
<1>2. CASE ~(conn[u] # "new" /\ rid[u] = r)
  <2>1. t = u
    BY <1>2, ClientsStand
  <2>2. \E n \in PromptLens, m \in MaxNews : Accept(t, n, m)
    <3>1. CASE CallStep(t)
      BY <1>2, <2>1, <3>1 DEF CallStep, ConnAt
    <3>2. CASE InStep(t)
      BY <1>2, <2>1, <3>2 DEF InStep, ConnAt
    <3>. QED  BY <3>1, <3>2 DEF ClientCall
  <2>3. /\ conn[u] = "new" /\ UNCHANGED <<pc, outIds, outToks, idx, text, stray>>
    BY <2>1, <2>2 DEF Accept, SubmitTokens, ConnAt
  <2>4. pc[u] = "out" /\ outIds[u] = <<>> /\ text[u] = 0 /\ stray[u] = 0
    BY <2>3 DEF ClientFits, ClientFit
  <2>5. Len(outToks[u]) = 0
    <3>1. outToks[u] \in Seq(Tokens) /\ Len(outToks[u]) <= 0
      BY <2>4 DEF CallsInv, EngineInv, EngineTypeOK, OutsFit, OutFit
    <3>. QED  BY <3>1, LenProperties
  <2>6. ~Owed(u, r)'
    <3>1. ~Reported(u, r)'
      BY <2>3, <2>4 DEF Reported
    <3>2. idx'[u] .. Len(outToks'[u]) = {}
      <4>1. idx[u] \in Nat \ {0}
        BY DEF ServerTypeOK
      <4>. QED  BY <2>3, <2>5, <4>1
    <3>. QED  BY <3>1, <3>2 DEF Owed, InHand
  <2>. QED  BY <1>b, <2>3, <2>4, <2>6
<1>. QED  BY <1>1, <1>2

LEMMA CountReadFits ==
  ASSUME CallsInv, ServerTypeOK, ClientFits, CountFits, NEW t \in Threads, ClientReads(t)
  PROVE  CountFits'
<1>a. /\ UNCHANGED <<pc, outIds, outToks, sampled, reports, want, genLen>>
      /\ ServerTypeOK' /\ rid' = rid
  BY ClientLeaves, ServerTypeStep
     DEF CallsInv, EngineInv, SchedInv, ClientReads, SkipEntry, TakeToken, Fault, EndScan, Reply
<1>. SUFFICES ASSUME NEW u \in Threads, NEW r \in Rids, conn'[u] # "new", r = rid'[u]
              PROVE  /\ text'[u] - stray'[u] <= genLen'[r]
                     /\ Owed(u, r)' => text'[u] - stray'[u] < genLen'[r]
  BY <1>a, CountSuffices
<1>b. /\ text[u] \in Nat /\ stray[u] \in Nat /\ genLen[r] \in Nat
      /\ idx[u] \in Nat \ {0} /\ Len(outIds[u]) \in Nat /\ Len(outToks[u]) \in Nat
      /\ Len(outToks[u]) <= Len(outIds[u])
  BY LenProperties DEF ServerTypeOK, CallsInv, EngineInv, EngineTypeOK, SchedInv, SchedTypeOK,
                       OutsFit, OutFit
<1>c. conn[u] # "new"
  <2>1. t # u => conn'[u] = conn[u]
    BY ClientsStand
  <2>2. ClientReads(t) => conn[t] # "new"
    BY DEF ClientReads, SkipEntry, TakeToken, Fault, ReadFaults, EndScan, Reply, Scanning, ConnAt
  <2>. QED  BY <2>1, <2>2
<1>d. /\ text[u] - stray[u] <= genLen[r]
      /\ Owed(u, r) => text[u] - stray[u] < genLen[r]
  BY <1>a, <1>c, CountNow
<1>e. Reported(u, r)' <=> Reported(u, r)
  BY <1>a DEF Reported, Due
<1>1. CASE text'[u] = text[u] /\ stray'[u] = stray[u] /\ idx'[u] \in {idx[u], idx[u] + 1}
  <2>1. Owed(u, r)' => Owed(u, r)
    <3>1. idx'[u] .. Len(outToks[u]) \subseteq idx[u] .. Len(outToks[u])
      BY <1>b, <1>1
    <3>. QED  BY <1>a, <1>e, <3>1 DEF Owed, InHand
  <2>. QED  BY <1>1, <1>a, <1>d, <2>1
<1>2. CASE t = u /\ TakeToken(t)
  <2>1. /\ pc[u] = "out" /\ idx[u] <= Len(outIds[u]) /\ outIds[u][idx[u]].rid = r
        /\ idx'[u] = idx[u] + 1
    BY <1>2, <1>a DEF TakeToken, Scanning, OwnEntry, At, ServerTypeOK
  <2>2. \/ text'[u] = text[u] /\ stray'[u] = stray[u]
        \/ text'[u] = text[u] + 1 /\ idx[u] > Len(outToks[u]) /\ stray'[u] = stray[u] + 1
        \/ text'[u] = text[u] + 1 /\ ~(idx[u] > Len(outToks[u])) /\ stray'[u] = stray[u]
    BY <1>2 DEF TakeToken, ServerTypeOK
  <2>3. ~Reported(u, r)'
    BY <1>a, <2>1 DEF Reported
  <2>4. CASE idx[u] > Len(outToks[u])
    <3>1. idx'[u] .. Len(outToks'[u]) = {}
      BY <1>a, <1>b, <2>1, <2>4
    <3>2. ~Owed(u, r)'
      BY <2>3, <3>1 DEF Owed, InHand
    <3>3. text'[u] - stray'[u] = text[u] - stray[u]
      <4>1. \/ text'[u] = text[u] /\ stray'[u] = stray[u]
            \/ text'[u] = text[u] + 1 /\ stray'[u] = stray[u] + 1
        BY <2>2, <2>4, Zenon
      <4>2. text[u] \in Nat /\ stray[u] \in Nat
        BY <1>b
      <4>. QED  BY <4>1, <4>2
    <3>. QED  BY <1>a, <1>d, <3>2, <3>3
  <2>5. CASE ~(idx[u] > Len(outToks[u]))
    <3>1. idx[u] \in 1 .. Len(outToks[u]) /\ idx[u] \in idx[u] .. Len(outToks[u])
      BY <1>b, <2>5
    <3>2. Owed(u, r)
      BY <2>1, <3>1 DEF Owed, InHand
    <3>3. ~Owed(u, r)'
      <4>. SUFFICES ASSUME NEW i \in idx'[u] .. Len(outToks'[u]), outIds'[u][i].rid = r
                    PROVE  FALSE
        BY <2>3 DEF Owed, InHand
      <4>1. i \in 1 .. Len(outToks[u]) /\ i # idx[u] /\ outIds[u][i].rid = outIds[u][idx[u]].rid
        BY <1>a, <1>b, <2>1
      <4>. QED  BY <3>1, <4>1 DEF CallsInv, OutsFit, OutFit
    <3>4. text[u] - stray[u] < genLen[r]
      BY <1>d, <3>2
    <3>5. text'[u] - stray'[u] <= genLen[r]
      BY <1>b, <2>2, <2>5, <3>4
    <3>. QED  BY <1>a, <3>3, <3>5
  <2>. QED  BY <2>4, <2>5
<1>3. CASE t # u
  BY <1>1, <1>3, ClientsStand
<1>4. CASE t = u /\ ~TakeToken(t)
  <2>1. text'[u] = text[u] /\ stray'[u] = stray[u] /\ idx'[u] \in {idx[u], idx[u] + 1}
    <3>1. idx \in [Threads -> Nat \ {0}]
      BY DEF ServerTypeOK
    <3>. QED  BY <1>4, <3>1 DEF ClientReads, SkipEntry, Fault, EndScan, Reply
  <2>. QED  BY <1>1, <2>1, Zenon
<1>. QED  BY <1>2, <1>3, <1>4

-----------------------------------------------------------------------------
(* The theorems. *)

LEMMA ServerInvInit == ServerInit => ServerInv
<1>. SUFFICES ASSUME ServerInit PROVE ServerInv
  OBVIOUS
<1>1. CallsInv
  BY CallsInit DEF ServerInit
<1>2. ServerTypeOK
  <2>1. 0 \in Rids
    BY RequestAssumption, SomeRequestAssumption DEF Rids
  <2>2. /\ conn \in [Threads -> {"new", "generate", "step", "closed"}]
        /\ done \in [Threads -> BOOLEAN] /\ crashed \in BOOLEAN
    BY DEF ServerInit
  <2>3. rid \in [Threads -> Rids]
    BY <2>1 DEF ServerInit
  <2>4. idx \in [Threads -> Nat \ {0}] /\ text \in [Threads -> Nat] /\ stray \in [Threads -> Nat]
    BY DEF ServerInit
  <2>. QED  BY <2>2, <2>3, <2>4 DEF ServerTypeOK
<1>3. \A t \in Threads : conn[t] = "new" /\ text[t] = 0 /\ stray[t] = 0 /\ done[t] = FALSE
  BY DEF ServerInit
<1>4. ClientFits
  <2>1. \A t \in Threads : pc[t] = "out" /\ outIds[t] = <<>>
    BY DEF ServerInit, EngineInit
  <2>. QED  BY <1>3, <2>1 DEF ClientFits, ClientFit
<1>5. CountFits
  BY <1>3 DEF CountFits, CountFit
<1>. QED  BY <1>1, <1>2, <1>4, <1>5 DEF ServerInv

LEMMA ServerInvFrame ==
  ASSUME ServerInv, UNCHANGED serverVars
  PROVE  ServerInv'
<1>1. CallsInv'
  BY CallsFrame DEF ServerInv
<1>2. ServerTypeOK' /\ ClientFits' /\ CountFits'
  BY DEF ServerInv, ServerTypeOK, ClientFits, ClientFit, Over, CountFits, CountFit, Owed, InHand,
         Reported, Due
<1>. QED  BY <1>1, <1>2 DEF ServerInv

LEMMA ServerInvStep ==
  ASSUME ServerInv, ServerNext
  PROVE  ServerInv'
<1>1. PICK t \in Threads : ClientCall(t) \/ ClientReads(t)
  BY DEF ServerNext, ClientStep, ClientCall, ClientReads
<1>2. SchedTypeOK
  BY DEF ServerInv, CallsInv, EngineInv, SchedInv
<1>3. ServerTypeOK'
  BY <1>1, <1>2, ServerTypeStep DEF ServerInv
<1>4. CASE ClientCall(t)
  <2>1. CallsInv'
    BY <1>4, ClientCalls, CallsStep DEF ServerInv
  <2>2. ClientFits' /\ CountFits'
    BY <1>4, ClientCallFits, CountCallFits DEF ServerInv
  <2>. QED  BY <1>3, <2>1, <2>2 DEF ServerInv
<1>5. CASE ClientReads(t)
  <2>1. CallsInv'
    BY <1>5, ClientLeaves, CallsFrame DEF ServerInv
  <2>2. ClientFits' /\ CountFits'
    BY <1>5, ClientReadFits, CountReadFits DEF ServerInv
  <2>. QED  BY <1>3, <2>1, <2>2 DEF ServerInv
<1>. QED  BY <1>1, <1>4, <1>5

LEMMA ServerInduction == ServerSpec => []ServerInv
<1>1. ServerInv /\ [ServerNext]_serverVars => ServerInv'
  BY ServerInvStep, ServerInvFrame
<1>. QED  BY <1>1, ServerInvInit, PTL DEF ServerSpec

\* The type invariant of the client threads.
THEOREM ServerTypeCorrect == ServerSpec => []ServerTypeOK
<1>1. ServerInv => ServerTypeOK
  BY DEF ServerInv
<1>. QED  BY <1>1, ServerInduction, PTL

\* However many threads are in step() at once, and whichever of them executes a request's
\* batch entry, the reply of server.cpp holds no more tokens than report_output appended
\* to the request, the strays it read past the end of new_token_ids apart.
THEOREM NoTokenTwiceCorrect == ServerSpec => []NoTokenTwice
<1>1. ServerInv => NoTokenTwice
  BY DEF ServerInv, CountFits, CountFit, NoTokenTwice, ConnAt
<1>. QED  BY <1>1, ServerInduction, PTL

-----------------------------------------------------------------------------
(* The history of the requests, beside the server's invariant. *)

\* Whatever the engine keeps that says a request has ended is borne out by its history.
EndTraced(r) ==
  /\ state[r] = "FINISHED" => r \in ended
  /\ Occurs(retired, r) => r \in ended
  /\ \A t \in Threads :
       /\ Occurs(fins[t], r) => r \in ended
       /\ Reported(t, r) /\ Occurs(sampled[t], <<r, "eos">>) => r \in ended

EndsTraced == \A r \in Rids : EndTraced(r)

\* So is what an output says, and what a client took from it.
OutTraced(t) ==
  \A i \in 1 .. Len(outIds[t]) : outIds[t][i].fin => outIds[t][i].rid \in ended

OutsTraced == \A t \in Threads : OutTraced(t)

DoneTraced == \A t \in Threads : done[t] => rid[t] \in ended

\* What a step of the history variable does.
Remembers ==
  /\ ended \subseteq ended'
  /\ \A r \in Rids : state'[r] = "FINISHED" => r \in ended'

LEMMA RetiredTraced ==
  ASSUME CallsInv, EndsTraced, Remembers, NEW t \in Threads, EngineCall(t), NEW r \in Rids,
         Occurs(retired', r)
  PROVE  r \in ended'
<1>a. /\ EngineInv /\ NoneRemoves
  BY DEF CallsInv
<1>b. /\ SchedTypeOK /\ retired \in Seq(Rids) /\ scan \in Seq(Rids)
      /\ state \in [Rids -> RequestStates]
  BY <1>a, CallIsStep DEF SchedTypeOK
<1>1. CASE retired' = retired
  BY <1>1 DEF EndsTraced, EndTraced, Remembers
<1>2. CASE RetireBegin(t)
  <2>1. /\ Head(scan) \in Rids /\ state'[Head(scan)] = "FINISHED"
        /\ retired' = retired \/ retired' = Append(retired, Head(scan))
    BY <1>b, <1>2 DEF RetireBegin
  <2>2. Occurs(retired', r) => Occurs(retired, r) \/ r = Head(scan)
    BY <1>b, <2>1, AppendOccurs
  <2>. QED  BY <2>1, <2>2 DEF EndsTraced, EndTraced, Remembers
<1>3. CASE retired' = <<>>
  BY <1>3, EmptyHolds
<1>4. CASE OffScheduler
  BY <1>1, <1>4 DEF OffScheduler
<1>5. CASE SchedStep(t)
  BY <1>1, <1>2, <1>3, <1>5, MarksMove
<1>. QED  BY <1>a, <1>4, <1>5, CallIsStep

LEMMA FinsTraced ==
  ASSUME CallsInv, EndsTraced, Remembers, NEW t \in Threads, EngineCall(t), NEW r \in Rids,
         NEW u \in Threads, Occurs(fins'[u], r)
  PROVE  r \in ended'
<1>a. /\ EngineInv /\ NoneRemoves
  BY DEF CallsInv
<1>b. fins \in [Threads -> Seq(Rids)] /\ EngineStep(t)
  BY <1>a, CallIsStep DEF EngineInv, EngineTypeOK
<1>1. CASE fins'[u] = fins[u]
  BY <1>1 DEF EndsTraced, EndTraced, Remembers
<1>2. CASE StepScheduled(t)
  <2>1. fins'[u] = fins[u] \/ fins'[u] = retired
    BY <1>b, <1>2 DEF StepScheduled
  <2>. QED  BY <2>1 DEF EndsTraced, EndTraced, Remembers
<1>3. CASE CollectFinished(t) /\ t = u
  <2>1. fins'[u] = Tail(fins[u]) /\ fins[u] # <<>> /\ fins[u] \in Seq(Rids)
    BY <1>b, <1>3 DEF CollectFinished
  <2>2. Occurs(fins[u], r)
    BY <2>1, TailOccurs
  <2>. QED  BY <2>2 DEF EndsTraced, EndTraced, Remembers
<1>4. CollectFinished(t) /\ t # u => fins'[u] = fins[u]
  BY <1>b DEF CollectFinished
<1>. QED  BY <1>b, <1>a, <1>1, <1>2, <1>3, <1>4, EngineChanges

\* A reported end of sequence was applied by report_output, which finished the request.
LEMMA EosTraced ==
  ASSUME CallsInv, EndsTraced, Remembers, NEW t \in Threads, EngineCall(t), NEW r \in Rids,
         NEW u \in Threads, Reported(u, r)', Occurs(sampled'[u], <<r, "eos">>)
  PROVE  r \in ended'
<1>a. /\ EngineInv /\ NoneRemoves /\ WaitFits /\ FlightFits /\ OnceFits /\ HeldFits
  BY DEF CallsInv
<1>b. /\ sampled \in [Threads -> Seq(Report)] /\ reports \in Seq(Report)
      /\ state \in [Rids -> RequestStates] /\ sampled[u] \in Seq(Report) /\ EngineStep(t)
  BY <1>a, CallIsStep DEF EngineInv, EngineTypeOK, SchedInv, SchedTypeOK
<1>1. CASE Reported(u, r)
  <2>1. sampled'[u] = sampled[u] \/ (sampled[u] # <<>> /\ sampled'[u] = Tail(sampled[u]))
    <3>1. CASE t # u
      BY <1>a, <1>b, <3>1, OthersStand
    <3>2. ~(t = u /\ \E tok \in Tokens : DecodeSample(t, tok))
      BY <1>1 DEF DecodeSample, At, Reported
    <3>3. CollectToken(t) /\ t = u => sampled[u] # <<>> /\ sampled'[u] = Tail(sampled[u])
      BY <1>b DEF CollectToken
    <3>. QED  BY <1>a, <1>b, <3>1, <3>2, <3>3, EngineChanges
  <2>2. Occurs(sampled[u], <<r, "eos">>)
    BY <1>b, <2>1, TailOccurs
  <2>. QED  BY <1>1, <2>2 DEF EndsTraced, EndTraced, Remembers
<1>2. CASE ~Reported(u, r)
  <2>1. /\ t = u /\ ReportToken(t) /\ Holds(u, "report") /\ reports # <<>>
        /\ r = Head(reports)[1] /\ sampled'[u] = sampled[u]
    BY <1>a, <1>2, ReportedFrom
  <2>2. /\ Head(reports) \in Report /\ Occurs(reports, Head(reports))
    BY <1>b, <2>1, HeadOccurs
  <2>3. Occurs(sampled[u], Head(reports)) /\ NoneTwice(ReportRids(sampled[u]))
    BY <1>a, <2>1, <2>2 DEF HeldFits, OnceFits, OnceFit
  <2>4. Head(reports) = <<r, Head(reports)[2]>>
    BY <2>1, <2>2 DEF Report
  <2>5. Head(reports)[2] = "eos"
    BY <1>b, <2>1, <2>3, <2>4, SampledOnce
  <2>6. state'[r] = "FINISHED"
    BY <1>b, <2>1, <2>5 DEF ReportToken
  <2>. QED  BY <2>6 DEF Remembers
<1>. QED  BY <1>1, <1>2

LEMMA EndsTracedStep ==
  ASSUME CallsInv, EndsTraced, Remembers, NEW t \in Threads, EngineCall(t)
  PROVE  EndsTraced'
<1>1. ASSUME NEW r \in Rids
      PROVE  EndTraced(r)'
  <2>1. state'[r] = "FINISHED" => r \in ended'
    BY DEF Remembers
  <2>2. Occurs(retired', r) => r \in ended'
    BY RetiredTraced
  <2>3. ASSUME NEW u \in Threads
        PROVE  /\ Occurs(fins'[u], r) => r \in ended'
               /\ Reported(u, r)' /\ Occurs(sampled'[u], <<r, "eos">>) => r \in ended'
    BY FinsTraced, EosTraced
  <2>. QED  BY <2>1, <2>2, <2>3 DEF EndTraced
<1>. QED  BY <1>1 DEF EndsTraced

Entry == [rid : Rids, fin : BOOLEAN]

LEMMA AppendTraced ==
  ASSUME NEW s \in Seq(Entry), NEW e \in Entry, NEW A, NEW B,
         A \subseteq B, \A i \in 1 .. Len(s) : s[i].fin => s[i].rid \in A,
         e.fin => e.rid \in B,
         NEW i \in 1 .. Len(Append(s, e)), Append(s, e)[i].fin
  PROVE  Append(s, e)[i].rid \in B
<1>1. i \in 1 .. Len(s) \/ (i = Len(s) + 1 /\ Append(s, e)[i] = e)
  OBVIOUS
<1>2. i \in 1 .. Len(s) => Append(s, e)[i] = s[i]
  BY AppendKeeps
<1>. QED  BY <1>1, <1>2

LEMMA CollectTokenTraced ==
  ASSUME CallsInv, EndsTraced, OutsTraced, Remembers, NEW t \in Threads, CollectToken(t)
  PROVE  OutTraced(t)'
<1>. DEFINE r   == Head(sampled[t])[1]
            tok == Head(sampled[t])[2]
            e   == [rid |-> r, fin |-> FinishFlag(r, tok)]
<1>a. /\ sampled[t] \in Seq(Report) /\ outIds \in [Threads -> Seq(Entry)]
      /\ outIds[t] \in Seq(Entry)
  BY DEF CallsInv, EngineInv, EngineTypeOK, Entry
<1>b. pc[t] = "collect" /\ sampled[t] # <<>>
  BY DEF CollectToken, At
<1>c. /\ Head(sampled[t]) \in Report /\ Occurs(sampled[t], Head(sampled[t]))
      /\ r \in Rids /\ tok \in Tokens /\ Head(sampled[t]) = <<r, tok>>
  <2>1. Head(sampled[t]) \in Report /\ Occurs(sampled[t], Head(sampled[t]))
    BY <1>a, <1>b, HeadOccurs
  <2>. QED  BY <2>1 DEF Report
<1>d. Reported(t, r)
  <2>1. /\ ReportRids(sampled[t]) \in Seq(Rids) /\ ReportRids(sampled[t]) # <<>>
        /\ Head(ReportRids(sampled[t])) = r
    BY <1>a, <1>b, ReportRidsType, ReportRidsTail
  <2>. QED  BY <1>b, <2>1, HeadOccurs DEF Reported
<1>e. e \in Entry /\ e.rid = r /\ (e.fin => state[r] = "FINISHED" \/ tok = "eos")
  BY <1>c DEF Entry, FinishFlag
<1>f. e.fin => e.rid \in ended'
  BY <1>c, <1>d, <1>e DEF EndsTraced, EndTraced, Remembers
<1>g. outIds'[t] = outIds[t] \/ outIds'[t] = Append(outIds[t], e)
  BY <1>a DEF CollectToken
<1>. HIDE DEF e
<1>1. CASE outIds'[t] = outIds[t]
  BY <1>1 DEF OutsTraced, OutTraced, Remembers
<1>2. CASE outIds'[t] = Append(outIds[t], e)
  BY <1>2, <1>a, <1>e, <1>f, AppendTraced DEF OutsTraced, OutTraced, Remembers
<1>. QED  BY <1>g, <1>1, <1>2

LEMMA CollectFinishedTraced ==
  ASSUME CallsInv, EndsTraced, OutsTraced, Remembers, NEW t \in Threads, CollectFinished(t)
  PROVE  OutTraced(t)'
<1>. DEFINE r == Head(fins[t])
            e == [rid |-> r, fin |-> TRUE]
<1>a. /\ fins[t] \in Seq(Rids) /\ outIds \in [Threads -> Seq(Entry)]
      /\ outIds[t] \in Seq(Entry) /\ fins[t] # <<>>
  BY DEF CallsInv, EngineInv, EngineTypeOK, Entry, CollectFinished
<1>b. r \in Rids /\ Occurs(fins[t], r)
  BY <1>a, HeadOccurs
<1>c. e \in Entry /\ e.rid \in ended'
  BY <1>b DEF Entry, EndsTraced, EndTraced, Remembers
<1>d. outIds'[t] = outIds[t] \/ outIds'[t] = Append(outIds[t], e)
  BY <1>a DEF CollectFinished
<1>. HIDE DEF e
<1>1. CASE outIds'[t] = outIds[t]
  BY <1>1 DEF OutsTraced, OutTraced, Remembers
<1>2. CASE outIds'[t] = Append(outIds[t], e)
  BY <1>2, <1>a, <1>c, AppendTraced DEF OutsTraced, OutTraced, Remembers
<1>. QED  BY <1>d, <1>1, <1>2

LEMMA OutsTracedStep ==
  ASSUME CallsInv, EndsTraced, OutsTraced, Remembers, NEW t \in Threads, EngineCall(t)
  PROVE  OutsTraced'
<1>. SUFFICES ASSUME NEW u \in Threads PROVE OutTraced(u)'
  BY DEF OutsTraced
<1>a. /\ EngineInv /\ NoneRemoves /\ DOMAIN outIds = Threads /\ EngineStep(t)
  BY CallIsStep DEF CallsInv, EngineInv, EngineTypeOK
<1>1. CASE outIds'[u] = outIds[u]
  BY <1>1 DEF OutsTraced, OutTraced, Remembers
<1>2. CASE t = u /\ StepBegin(t)
  BY <1>2, <1>a DEF StepBegin, OutTraced
<1>3. CASE t = u /\ CollectToken(t)
  BY <1>3, CollectTokenTraced
<1>4. CASE t = u /\ CollectFinished(t)
  BY <1>4, CollectFinishedTraced
<1>5. t # u => outIds'[u] = outIds[u]
  BY <1>a, OthersStand
<1>. QED  BY <1>a, <1>1, <1>2, <1>3, <1>4, <1>5, EngineChanges

\* What a client takes out of its output, as ClientReadFits reads it.
LEMMA DoneTracedStep ==
  ASSUME ServerInv, EndsTraced, OutsTraced, DoneTraced, Remembers, NEW t \in Threads,
         ClientCall(t) \/ ClientReads(t)
  PROVE  DoneTraced'
<1>. SUFFICES ASSUME NEW u \in Threads, done'[u] PROVE rid'[u] \in ended'
  BY DEF DoneTraced
<1>a. CallsInv /\ ServerTypeOK /\ ClientFit(u) /\ OutFit(u)
  BY DEF ServerInv, CallsInv, ClientFits, OutsFit
<1>b. DoneTraced /\ ended \subseteq ended'
  BY DEF Remembers
<1>1. CASE t # u
  BY <1>1, <1>a, <1>b, ClientsStand DEF DoneTraced
<1>2. CASE t = u /\ \E n \in PromptLens, m \in MaxNews : Accept(t, n, m)
  <2>1. conn[u] = "new" /\ done'[u] = done[u]
    BY <1>2 DEF Accept, ConnAt
  <2>. QED  BY <1>a, <2>1 DEF ClientFit
<1>3. CASE rid' = rid /\ done' = done
  BY <1>3, <1>b DEF DoneTraced
<1>4. CASE t = u /\ TakeToken(t)
  <2>1. /\ idx[u] <= Len(outIds[u]) /\ outIds[u][idx[u]].rid = rid[u] /\ rid' = rid
    BY <1>4 DEF TakeToken, Scanning, OwnEntry
  <2>2. idx[u] \in Nat \ {0} /\ Len(outIds[u]) \in Nat /\ Len(outToks[u]) \in Nat
    BY <1>a, LenProperties DEF ServerTypeOK, CallsInv, EngineInv, EngineTypeOK
  <2>3. idx[u] \in 1 .. Len(outIds[u])
    BY <2>1, <2>2
  <2>4. /\ idx[u] > Len(outToks[u]) \/ outToks[u][idx[u]] = "eos" => outIds[u][idx[u]].fin
    BY <1>a, <2>3 DEF OutFit
  <2>5. PICK tid \in TokenRead(u) :
          done' = [done EXCEPT ![u] = @ \/ tid = "eos" \/ outIds[u][idx[u]].fin]
    BY <1>4 DEF TakeToken
  <2>6. tid = "eos" => outIds[u][idx[u]].fin
    <3>1. idx[u] <= Len(outToks[u]) \/ idx[u] > Len(outToks[u])
      BY <2>2
    <3>2. idx[u] <= Len(outToks[u]) => tid = outToks[u][idx[u]]
      BY <2>5 DEF TokenRead
    <3>. QED  BY <2>4, <3>1, <3>2
  <2>7. done[u] \/ outIds[u][idx[u]].fin
    BY <1>a, <2>5, <2>6 DEF ServerTypeOK
  <2>8. outIds[u][idx[u]].fin => rid[u] \in ended
    BY <2>1, <2>3 DEF OutsTraced, OutTraced
  <2>. QED  BY <1>b, <2>1, <2>7, <2>8 DEF DoneTraced
<1>. QED  BY <1>1, <1>2, <1>3, <1>4
          DEF ClientCall, ClientReads, CallStep, InStep, SkipEntry, Fault, EndScan, Reply

TracedInv == ServerInv /\ EndsTraced /\ OutsTraced /\ DoneTraced

LEMMA TracedInvInit == TracedInit => TracedInv
<1>. SUFFICES ASSUME TracedInit PROVE TracedInv
  OBVIOUS
<1>1. ServerInv
  BY ServerInvInit DEF TracedInit
<1>2. /\ \A r \in Rids : state[r] = "WAITING" /\ retired = <<>>
      /\ \A t \in Threads : fins[t] = <<>> /\ sampled[t] = <<>> /\ outIds[t] = <<>> /\ ~done[t]
  BY DEF TracedInit, ServerInit, EngineInit, SchedInit
<1>3. EndsTraced
  <2>1. \A r \in Rids : state[r] # "FINISHED" /\ ~Occurs(retired, r)
    BY <1>2, EmptyHolds
  <2>2. \A r \in Rids, t \in Threads : ~Occurs(fins[t], r) /\ ~Occurs(sampled[t], <<r, "eos">>)
    BY <1>2, EmptyHolds
  <2>. QED  BY <2>1, <2>2 DEF EndsTraced, EndTraced
<1>4. OutsTraced /\ DoneTraced
  <2>1. \A t \in Threads : 1 .. Len(outIds[t]) = {}
    BY <1>2
  <2>. QED  BY <1>2, <2>1 DEF OutsTraced, OutTraced, DoneTraced
<1>. QED  BY <1>1, <1>3, <1>4 DEF TracedInv

LEMMA TracedInvStep ==
  ASSUME TracedInv, TracedNext
  PROVE  TracedInv'
<1>1. PICK t \in Threads : ClientCall(t) \/ ClientReads(t)
  BY DEF TracedNext, ServerNext, ClientStep, ClientCall, ClientReads
<1>2. Remembers
  BY DEF TracedNext, Remembers
<1>3. ServerInv'
  BY ServerInvStep DEF TracedInv, TracedNext
<1>4. DoneTraced'
  BY <1>1, <1>2, DoneTracedStep DEF TracedInv
<1>5. EndsTraced' /\ OutsTraced'
  <2>1. CASE ClientCall(t)
    BY <1>2, <2>1, ClientCalls, EndsTracedStep, OutsTracedStep DEF TracedInv, ServerInv
  <2>2. CASE ClientReads(t)
    <3>1. /\ UNCHANGED <<state, retired, fins, sampled, outIds, pc, reports, want>>
          /\ ended \subseteq ended'
      BY <1>2, <2>2, ClientLeaves DEF Remembers
    <3>. QED  BY <3>1 DEF TracedInv, EndsTraced, EndTraced, Reported, Due, OutsTraced, OutTraced
  <2>. QED  BY <1>1, <2>1, <2>2
<1>. QED  BY <1>3, <1>4, <1>5 DEF TracedInv

LEMMA TracedInvFrame ==
  ASSUME TracedInv, UNCHANGED tracedVars
  PROVE  TracedInv'
<1>1. ServerInv'
  BY ServerInvFrame DEF TracedInv, tracedVars
<1>2. EndsTraced' /\ OutsTraced' /\ DoneTraced'
  BY DEF tracedVars, TracedInv, EndsTraced, EndTraced, Reported, Due, OutsTraced, OutTraced,
         DoneTraced
<1>. QED  BY <1>1, <1>2 DEF TracedInv

\* A client_thread answers only a request that has been FINISHED, and whose state says so
\* still unless it was preempted: report_output then finished it by the token that was in
\* flight, and schedule() admitted it again.
THEOREM AnsweredIsFinishedCorrect == TracedSpec => []AnsweredIsFinished
<1>1. TracedInv => AnsweredIsFinished
  BY DEF TracedInv, DoneTraced, ServerInv, ClientFits, ClientFit, Over, AnsweredIsFinished, ConnAt
<1>2. TracedInv /\ [TracedNext]_tracedVars => TracedInv'
  BY TracedInvStep, TracedInvFrame
<1>. QED  BY <1>1, <1>2, TracedInvInit, PTL DEF TracedSpec

=============================================================================
