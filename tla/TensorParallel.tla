---------------------------- MODULE TensorParallel ----------------------------
(***************************************************************************)
(* A tensor-parallel job: one process per GPU, each running                *)
(* tp_init, tp_load_model, tp_forward_pass any number of times,            *)
(* tp_free_model, tp_finalize.  The host enqueues NCCL collectives on its  *)
(* stream and runs ahead; the device executes a collective when every rank *)
(* has reached it.  The cudaFree calls that end a forward pass wait for    *)
(* the stream.                                                             *)
(*                                                                         *)
(* The repository has no launcher, so the order of the calls is external:  *)
(* every rank makes the same calls with the same arguments, and stops when *)
(* tp_init fails.  What may go wrong is what the code itself looks at: a   *)
(* missing device, a communicator that cannot be made, a CUDA call that    *)
(* fails, a collective that returns an error (nobody looks).               *)
(***************************************************************************)
EXTENDS TensorShard, Sequences

CONSTANTS
  Jobs,         (* what the ranks of a job may be started with: records     *)
                (* [size, files, batch, seq, passes]; files as in TensorShard *)
  MaxErrors,    (* bound: collectives that return an error                  *)
  NoModel

ASSUME JobsAssumption ==
  \A j \in Jobs :
    /\ {j.size, j.files.heads, j.files.hidden} \subseteq Nat \ {0}
    /\ {j.files.kvHeads, j.files.headDim, j.files.ffn, j.files.layers, j.files.experts,
        j.batch, j.seq, j.passes} \subseteq Nat

MaxSize == 8

VARIABLES
  job,       (* what every rank is started with                              *)
  sharedId,  (* NCCL_UNIQUE_ID is set                                       *)
  g_tp,      (* per rank: TPConfig                                          *)
  pc,        (* per rank: where its host thread is                          *)
  model,     (* per rank: TPModel                                           *)
  layer,     (* per rank: l                                                 *)
  forwards,  (* per rank: forward passes begun                              *)
  calls,     (* per rank: collectives enqueued so far, in order             *)
  ran,       (* collectives the devices have executed                       *)
  failed,    (* ranks that got an error from a collective                   *)
  freed      (* per rank: cudaFree calls per tensor                         *)

tpVars == <<job, sharedId, g_tp, pc, model, layer, forwards, calls, ran, failed, freed>>

Ranks == 0 .. job.size - 1

NoFrees == [t \in {} |-> 0]

TPInit ==
  /\ job \in Jobs /\ sharedId \in BOOLEAN
  /\ g_tp     = [r \in Ranks |-> [size |-> 1, rank |-> 0, comm |-> FALSE, stream |-> FALSE]]
  /\ pc       = [r \in Ranks |-> "start"]
  /\ model    = [r \in Ranks |-> NoModel]
  /\ layer    = [r \in Ranks |-> 0]
  /\ forwards = [r \in Ranks |-> 0]
  /\ calls    = [r \in Ranks |-> <<>>]
  /\ ran      = 0
  /\ failed   = {}
  /\ freed    = [r \in Ranks |-> NoFrees]

Goto(r, where) == pc' = [pc EXCEPT ![r] = where]

Enabled(r) == g_tp[r].size > 1

-----------------------------------------------------------------------------
(* tp_init                                                                  *)

initRest == <<job, sharedId, model, layer, forwards, calls, ran, failed, freed>>

InitRejects(r) ==
  /\ pc[r] = "start" /\ job.size > MaxSize
  /\ Goto(r, "failed")
  /\ UNCHANGED <<g_tp, initRest>>

\* the size and the rank are set before the device is
SetRank(r) == g_tp' = [g_tp EXCEPT ![r].size = job.size, ![r].rank = r]

SetDeviceFails(r) ==
  /\ pc[r] = "start" /\ job.size <= MaxSize
  /\ SetRank(r) /\ Goto(r, "failed")
  /\ UNCHANGED initRest

InitAlone(r) ==
  /\ pc[r] = "start" /\ job.size = 1
  /\ g_tp' = [g_tp EXCEPT ![r] = [size |-> 1, rank |-> r, comm |-> FALSE, stream |-> TRUE]]
  /\ Goto(r, "ready")
  /\ UNCHANGED initRest

BeginJoin(r) ==
  /\ pc[r] = "start" /\ job.size > 1 /\ job.size <= MaxSize
  /\ SetRank(r) /\ Goto(r, "join")
  /\ UNCHANGED initRest

\* ncclCommInitRank returns when every rank has called it with the same id; without
\* NCCL_UNIQUE_ID every process has an id of its own and waits for ever
JoinAll ==
  /\ sharedId /\ \A r \in Ranks : pc[r] = "join"
  /\ g_tp' = [r \in Ranks |-> [g_tp[r] EXCEPT !.comm = TRUE, !.stream = TRUE]]
  /\ pc'   = [r \in Ranks |-> "ready"]
  /\ UNCHANGED initRest

JoinFails(r) ==
  /\ pc[r] = "join"
  /\ Goto(r, "failed")
  /\ UNCHANGED <<g_tp, initRest>>

-----------------------------------------------------------------------------
(* tp_load_model, tp_free_model, tp_finalize                                *)

Load(r) ==
  /\ pc[r] = "ready"
  /\ model' = [model EXCEPT ![r] = LoadModel(job.files, g_tp[r].size, g_tp[r].rank)]
  /\ Goto(r, "loaded")
  /\ UNCHANGED <<job, sharedId, g_tp, layer, forwards, calls, ran, failed, freed>>

Free(r) ==
  /\ pc[r] = "loaded" /\ forwards[r] >= job.passes
  /\ freed' = [freed EXCEPT ![r] = Frees(job.files)]
  /\ model' = [model EXCEPT ![r] = NoModel]
  /\ Goto(r, "freed")
  /\ UNCHANGED <<job, sharedId, g_tp, layer, forwards, calls, ran, failed>>

\* mutant: the rank is reset to "none"
FinalizeNoRank(r) ==
  /\ pc[r] = "freed"
  /\ g_tp' = [g_tp EXCEPT ![r] = [size |-> 1, rank |-> -1, comm |-> FALSE, stream |-> FALSE]]
  /\ Goto(r, "done")
  /\ UNCHANGED initRest

Finalize(r) ==
  /\ pc[r] = "freed"
  /\ g_tp' = [g_tp EXCEPT ![r] = [size |-> 1, rank |-> 0, comm |-> FALSE, stream |-> FALSE]]
  /\ Goto(r, "done")
  /\ UNCHANGED initRest

-----------------------------------------------------------------------------
(* tp_forward_pass: the host enqueues what a layer needs.                   *)

Sites == {"q", "k", "v", "o", "mlp"}

Positions == job.batch * job.seq    (* N *)

KindOf(s) == IF s \in {"o", "mlp"} THEN "allreduce" ELSE "allgather"

CountOf(r, s) ==
  CASE s = "q"          -> Positions * model[r].local_q
    [] s \in {"k", "v"} -> Positions * model[r].local_kv
    [] OTHER            -> Positions * job.files.hidden

CallAt(r, s) == [kind |-> KindOf(s), count |-> CountOf(r, s), site |-> s, layer |-> layer[r]]

forwardRest == <<job, sharedId, g_tp, model, ran, freed>>

BeginForward(r) ==
  /\ pc[r] = "loaded" /\ forwards[r] < job.passes
  /\ forwards' = [forwards EXCEPT ![r] = @ + 1]
  /\ layer' = [layer EXCEPT ![r] = 0]
  /\ Goto(r, IF job.files.layers > 0 THEN "q" ELSE "sync")
  /\ UNCHANGED <<forwardRest, calls, failed>>

LayerEnds(r) ==
  /\ layer' = [layer EXCEPT ![r] = @ + 1]
  /\ Goto(r, IF layer[r] + 1 < job.files.layers THEN "q" ELSE "sync")

\* an expert layer has no collective after attention: its MLP is a placeholder
Advance(r) ==
  \/ pc[r] = "q" /\ Goto(r, "k") /\ UNCHANGED layer
  \/ pc[r] = "k" /\ Goto(r, "v") /\ UNCHANGED layer
  \/ pc[r] = "v" /\ Goto(r, "o") /\ UNCHANGED layer
  \/ pc[r] = "o" /\ ~IsMoe(job.files) /\ Goto(r, "mlp") /\ UNCHANGED layer
  \/ pc[r] = "o" /\ IsMoe(job.files) /\ LayerEnds(r)
  \/ pc[r] = "mlp" /\ LayerEnds(r)

\* mutant: only rank 0 asks for the sum of the MLP
EnqueueRankZero(r) ==
  /\ pc[r] \in Sites /\ Enabled(r)
  /\ calls' = IF pc[r] = "mlp" /\ r # 0 THEN calls
              ELSE [calls EXCEPT ![r] = Append(@, CallAt(r, pc[r]))]
  /\ Advance(r)
  /\ UNCHANGED <<forwardRest, forwards, failed>>

\* tp_allgather or tp_allreduce hands the call to NCCL
Enqueue(r) ==
  /\ pc[r] \in Sites /\ Enabled(r)
  /\ calls' = [calls EXCEPT ![r] = Append(@, CallAt(r, pc[r]))]
  /\ Advance(r)
  /\ UNCHANGED <<forwardRest, forwards, failed>>

\* it returns -1 and the forward pass goes on
EnqueueFails(r) ==
  /\ pc[r] \in Sites /\ Enabled(r) /\ Cardinality(failed) < MaxErrors
  /\ failed' = failed \cup {r}
  /\ Advance(r)
  /\ UNCHANGED <<forwardRest, forwards, calls>>

\* with one GPU there is nothing to exchange
PassSite(r) ==
  /\ pc[r] \in Sites /\ ~Enabled(r)
  /\ Advance(r)
  /\ UNCHANGED <<forwardRest, forwards, calls, failed>>

\* the devices meet: NCCL does its work when the calls fit together and hangs otherwise
RunCollective ==
  /\ \A r \in Ranks : ran < Len(calls[r]) /\ pc[r] # "aborted"
  /\ \A r, q \in Ranks : /\ calls[r][ran + 1].kind = calls[q][ran + 1].kind
                         /\ calls[r][ran + 1].count = calls[q][ran + 1].count
  /\ ran' = ran + 1
  /\ UNCHANGED <<job, sharedId, g_tp, pc, model, layer, forwards, calls, failed, freed>>

\* mutant: the buffers are released without waiting for the stream
EndForwardAtOnce(r) ==
  /\ pc[r] = "sync"
  /\ Goto(r, "loaded")
  /\ UNCHANGED <<forwardRest, layer, forwards, calls, failed>>

\* cudaFree waits for the device
EndForward(r) ==
  /\ pc[r] = "sync" /\ ran >= Len(calls[r])
  /\ Goto(r, "loaded")
  /\ UNCHANGED <<forwardRest, layer, forwards, calls, failed>>

\* a CUDA call fails and CUDA_CHECK, in a VLLM_CUDA_DEBUG build, exits; in the other build the
\* rank goes on as though it had not
CudaAborts(r) ==
  /\ pc[r] \in Sites \cup {"ready", "sync"}
  /\ Goto(r, "aborted")
  /\ UNCHANGED <<forwardRest, layer, forwards, calls, failed>>

-----------------------------------------------------------------------------

HostStep(r) ==
  \/ InitRejects(r) \/ InitAlone(r) \/ BeginJoin(r)
  \/ Load(r) \/ BeginForward(r) \/ Enqueue(r) \/ PassSite(r) \/ EndForward(r)
  \/ Free(r) \/ Finalize(r)

Fault(r) == SetDeviceFails(r) \/ JoinFails(r) \/ EnqueueFails(r) \/ CudaAborts(r)

TPNext ==
  \/ \E r \in Ranks : HostStep(r) \/ Fault(r)
  \/ JoinAll
  \/ RunCollective

\* every host thread and the devices keep running; nothing has to fail
TPSpec == /\ TPInit /\ [][TPNext]_tpVars
          /\ \A r \in 0 .. MaxSize - 1 : WF_tpVars(r \in Ranks /\ HostStep(r))
          /\ WF_tpVars(JoinAll) /\ WF_tpVars(RunCollective)

-----------------------------------------------------------------------------

\* Type invariant of the job.
TPTypeOK ==
  /\ job \in Jobs /\ sharedId \in BOOLEAN
  /\ g_tp \in [Ranks -> [size : Nat, rank : Nat, comm : BOOLEAN, stream : BOOLEAN]]
  /\ pc \in [Ranks -> Sites \cup {"start", "join", "failed", "ready", "loaded", "sync",
                                  "aborted", "freed", "done"}]
  /\ layer \in [Ranks -> Nat] /\ forwards \in [Ranks -> 0 .. job.passes]
  /\ ran \in Nat /\ failed \subseteq Ranks

Loaded(r) == model[r] # NoModel

\* The slices that the ranks hold of a split weight follow each other without a gap or an
\* overlap, from the first row (or column) of the tensor to the last, whatever divides what.
SlicesTile ==
  \A t \in Matrices(job.files) :
    LET Part(r) == IF SplitOf(t) = 0 THEN model[r].slice[t].rows ELSE model[r].slice[t].cols
        full    == IF SplitOf(t) = 0 THEN ShapeOf(job.files, t).rows ELSE ShapeOf(job.files, t).cols
    IN  \A r \in Ranks : Loaded(r) =>
          /\ r = 0 => Part(r).off = 0
          /\ r + 1 \in Ranks /\ Loaded(r + 1) => Part(r).off + Part(r).len = Part(r + 1).off
          /\ r + 1 \notin Ranks => Part(r).off + Part(r).len = full

\* Where heads divide evenly, as tp_split_heads asks, the dimensions that the forward pass gives
\* to its GEMMs are those of the slices it multiplies with; the MLP's are, always.
GemmsFitSlices ==
  \A r \in Ranks, t \in Matrices(job.files) : Loaded(r) =>
    LET s == model[r].slice[t]
        even == Divides(job.size, job.files.heads) /\ Divides(job.size, KvHeads(job.files))
    IN  /\ even /\ t[1] = "q"             => s.rows.len = model[r].local_q
        /\ even /\ t[1] \in {"k", "v"}    => s.rows.len = model[r].local_kv
        /\ even /\ t[1] = "o"             => s.cols.len = model[r].local_q
        /\ t[1] \in {"gate", "up"}        => s.rows.len = model[r].local_ffn
        /\ t[1] = "down"                  => s.cols.len = model[r].local_ffn

\* As long as no collective reported an error, the n-th collective of every rank is the same
\* one: same place in the same layer, same kind and same count.
CollectivesAgree ==
  failed = {} =>
    \A r, q \in Ranks : \A n \in 1 .. Len(calls[r]) :
      n <= Len(calls[q]) => calls[r][n] = calls[q][n]

\* The fields tp_free_model goes through name the memory of every weight that tp_load_model
\* loaded, dense or expert, and none of it twice.  Embeddings that serve as lm_head are not
\* held to the second: two fields name them.
FreedExactlyOnce ==
  \A r \in Ranks : pc[r] \in {"freed", "done"} =>
    \A t \in TensorsOf(job.files) :
      freed[r][t] = 1 \/ (freed[r][t] > 1 /\ job.files.tied /\ t = <<"embed", 0, 0>>)

\* A rank comes out of a forward pass that exchanges anything only when every other rank has
\* entered that pass and handed in all its collectives, unless a collective failed.
ReturnsTogether ==
  [][\A r \in Ranks :
       (pc[r] = "sync" /\ pc'[r] = "loaded" /\ Enabled(r) /\ failed = {})
         => \A q \in Ranks : Len(calls[q]) >= Len(calls[r])
                             /\ (job.files.layers > 0 => forwards[q] >= forwards[r])]_tpVars

\* Every job that has what it needs (a legal size, and an id to meet by when it is more than
\* one process) runs to its end on every rank, unless something fails: no two ranks wait for
\* each other.
JobCompletes ==
  (job.size <= MaxSize /\ (sharedId \/ job.size = 1))
    ~> (\/ \A r \in Ranks : pc[r] = "done"
        \/ failed # {} \/ \E r \in Ranks : pc[r] \in {"aborted", "failed"})

=============================================================================
