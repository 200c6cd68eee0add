# Verification of vllm-cpp

TLA+ models, TLC runs and TLAPS proofs for vllm-cpp, an LLM inference server in C++: an
HTTP server and command-line runners over an engine that batches requests continuously and
keeps their key/value cache in a pool of fixed-size blocks shared by all of them. Paths
below are relative to the repository root (`src/scheduler.cpp`, `cuda/tp.cu`).

## 1. The system

| component | state | operations | who calls it |
|---|---|---|---|
| block pool, `src/kv_cache_manager.*` | per block: `free`, `ref_count`, bytes; one mutex | under the mutex, once per operation: `alloc`, `free`, `ref`, `deref`, `reset`, `copy_to`; without it: `free_count`, and `write_kv` and `read_kv` of `KVCacheManager`, which also has vectors of the first two | scheduler, engine |
| request, `src/request.h` | tokens, `block_table`, checkpoint, state, limits | length and block arithmetic | scheduler |
| scheduler, `src/scheduler.*` | `requests_`, `waiting_`, `running_`; one mutex held for a whole method | `submit_request`, `remove_request`, `schedule`, `report_output`, `get_request` | engine |
| paged engine, `src/paged_engine.*`, `src/paged_attention.*` | scratch buffers; no lock | `submit(_tokens)`, `step` (schedule, prefill or decode each entry, report, collect), `remove_request` | server threads, `cpu_runner` |
| HTTP server, `src/server.cpp` | one detached thread per connection | completion loop around `step()` | clients |
| `cpu_runner`, `src/cpu_runner.cpp` | one thread, one request | paged mode: bounded loop around `step()`; standard mode: load, tokenize, `generate_cpu` | user |
| model, tokenizer, sampler, `src/model.*` | weights | load, `tokenize`, `forward_cpu`, `sample_token` | everything |
| quantization, `src/quant*.{h,cpp}` | packed weights | dequantize, loaders | model loading |
| MLX backend and runners, `src/mlx_*`, `src/interactive.cpp` | Apple MLX arrays | generation loop, chat history | user |
| CUDA kernels, `cuda/moe_*`, `cuda/attention*` | device buffers | routing, dispatch, combine, paged attention | tensor-parallel model |
| tensor parallelism, `cuda/tp*.cu` | rank, communicator, sharded weights | init, all-reduce, all-gather, sharded load and forward | ranks |

### Interaction

Client threads call `PagedEngine::step()` concurrently. `step()` takes the scheduler's mutex
several times (once for `schedule()`, once per `get_request`, once for `report_output`) and
works in between on *copies* of requests. `run_prefill` allocates blocks through the pool's
mutex alone, so it runs in parallel with a thread that holds the scheduler's mutex. The
blocks freed by one thread's `schedule()` may be named in another thread's copy.

### What is hard, and what makes each part correct

* **Pool.** Counts must be exact under any mix of `alloc`/`ref`/`free`/`deref`; `alloc_blocks`
  may fail half-way; `free_count` is read without the mutex. *Correct:* no block is handed
  out while somebody holds it, and one that somebody keeps is not cleared.
* **Scheduler.** Requests pass from queue to queue through three temporaries in one call;
  preemption happens whenever anything waits; admission, preemption, batching and retirement
  read states the earlier phases changed. *Correct:* every block has one holder; no request
  is lost or duplicated; the order of a queue is kept; a batch stays within its limits; the
  loops end.
* **Engine.** Stale copies, tokens reported after a request was retired, failed allocations
  that are ignored. *Correct:* a request's cache holds its own entries only and, when
  attention runs, all of them; a request has the life `request.h` describes; `step()` returns.
* **Server.** Whoever calls `step()` executes everybody's batch and takes everybody's
  output. *Correct:* a token reaches a client at most once; a client is answered, and only
  when its request finished.
* **Runner.** Indexes one vector by the length of another, and bounds its loop by calls, not
  tokens. *Correct:* it stops, having printed exactly what was generated.
* **Loader.** Tensors spread over files, any of which may be unreadable, and a read that fails
  takes back what an earlier file gave; quantized weights are put together from parts;
  `find_tensor` takes the first name that contains the one sought. *Correct:* a field holds the
  tensor of its name or nothing; a quantized weight is whole; a complete checkpoint never faults.
* **Tokenizer, sampler, quantized products.** Merges overlap and stop at a limit; ranks tie;
  tiles and groups end at different columns; zeros are looked for where GPTQ has them. *Correct:*
  tokens spell their text, a sample comes from the nucleus, a product is that of the matrix that was
  packed.
* **Expert kernels.** A thread per token takes a place in a shared buffer and fills it later;
  buffers are reused without being cleared. *Correct:* each place is filled once, nothing old
  is summed, the sum is the one the CPU computes.
* **Tensor-parallel ranks.** The host runs ahead of its device, collectives match only by
  their order, and every rank derives its dimensions for itself. *Correct:* the slices tile
  each weight; all ranks enqueue the same collectives; nobody waits for ever.

`PROJECT.json` lists these hazards, each at its line with the properties aimed at it.

## 2. Modules

| module | models |
|---|---|
| `BlockPool` | `BlockPool` and the block arithmetic of requests and paged attention. Pure state and operators, no `Next` |
| `PoolClients` | the pool under any disciplined use of its interface, prefix sharing included |
| `Scheduler` | `Scheduler` over `BlockPool`; its `SchedSpec` is its most general caller |
| `SchedulerProps` | the scheduler's properties |
| `SchedulerProofs` | their proofs: types and ownership, queues, batches |
| `PagedEngine` | `PagedEngine` over `Scheduler` |
| `RequestLife` | abstract specification: the life of a request, from `request.h` |
| `EngineProps` | the engine's properties, the mapping to `RequestLife`, the instance of `Scheduler` |
| `EngineProofs` | proofs about the engine: for one thread, for any number, and for callers that never remove a request |
| `PagedServer`, `ServerProps` | the paged build's `client_thread`s over the engine |
| `CpuRunner` | the paged loop of `cpu_runner` over the engine |
| `ModelLoader` | `load_model_safetensors` and `load_quantized_tensors`, read by read |
| `Quantization` | INT4 layout, row ranges, the tiled product. Pure operators |
| `Tokenizer` | tables, byte-pair merges, encoding, decoding. Pure operators |
| `Standalone`, `StandaloneProps` | the standard mode of `cpu_runner`, over the three above: load, tokenize, forward, sample |
| `MoeKernels` | routing, dispatch and combine of `cuda/moe_kernels.cuh`; `moe_forward` of the CPU is the reference |
| `TensorShard` | what a rank holds of each weight. Pure operators |
| `TensorParallel` | the ranks of a job over it: `cuda/tp.cu`, `cuda/tp_model.cu` |
| `ServerProofs`, `RunnerProofs` | proofs about the engine's two callers: the server, for any number of clients, and the paged mode of the runner |
| `PoolProofs`, `TPProofs` | proofs about the pool's clients and the jobs |
| `ModelProofs` | proofs about what computes with the model: the standard mode and the expert kernels |
| `SumLemmas` | sums over a finite set, folds, pieces of sequences: lemmas for the proofs that count or walk |
| `MC*` | instances for TLC |

### How state and actions correspond to the code

**Pool.** `isFree`, `refCount` are the fields of `KVsBlock`. `kv[b][s]` says what slot `s` was
last written with: `<<r, p>>` for the entry of position `p` of request `r`, or `Blank` for
zeroed bytes. All layers of a block are written and read alike by the engine, so one layer
stands for all. An operation is one action because it is one critical section.

**Scheduler.** `requests_` is split into one function per field, over ids `0 ..
MaxRequests-1`; `known` is its key set. `lock` and `phase` are the mutex and where its holder
is; `scan` is what the current loop has left to visit. Each loop iteration is an action, and
inside it each block allocated (`AllocBlock`) or freed (`FreeHeadBlock`) is one, since that is
where other threads' allocations come in. What follows keeps this equivalent to the code:

* While a thread holds the mutex the only thing others do to scheduler-visible state is
  allocate blocks. `free_count()` counts while that number only falls, in steps of one, so
  the count it gets is one the pool really had at a moment of the scan: reading it at once
  loses nothing.
* `table[r]` shrinks block by block during `free_blocks`; nobody can read the table then.
* A victim leaves `running_` as it is preempted, while the code erases all victims after the
  loop; nothing reads the queues in between, and the final order is the same.
* `std::remove` is modelled as the removal of one occurrence; `NoRequestLost` shows there is
  never a second.
* `total_needed` is summed as phase 1 keeps requests; the code sums the same list again.
* The two loops over `waiting_` (phase 1, and the retry of phase 2) share their actions;
  `phase` decides what differs, namely who is `Admissible` and whether `needed` is summed.

A caller that allocates for itself is `BeginOwnAlloc`, `AllocBlock`, `OwnAllocFails`,
`DropOwnBlocks`; the vector that goes out of scope with blocks in it is the code's behaviour.

**Engine.** `pc[t]` is where a thread is in `step()`, `copy[t]` the `Request` it copied,
`sampled[t]` the tokens it collected, `outIds`/`outToks` its `EngineOutput`. `InScheduler` is
the thread inside a scheduler method. The forward pass is abstracted to the positions it
writes and reads; the token sampled is a choice between EOS and another. Prefill samples a
token too, but drops it, which is why it appends nothing to `sampled`.

**Server.** A thread is one `client_thread` with one completion. `TokenRead` is
`output.new_token_ids[i]` without a bounds check: past the end it is any token, and a fault
if the vector is empty and so has no storage.

**Runner.** `i` and `k` are its loop variables, `gc` its count of printed tokens.

**Loader.** `tensors` is the map `load_all_tensors` fills; of a tensor's bytes the model keeps
the file they came from. `OpenFile`, `ReadTensor`/`ReadFails` (in `std::map` order) and
`CloseFile` are its loops; `CollectGroups` and `LoadGroup`, `GroupFails`, `SkipIncomplete` are the
two passes of `load_quantized_tensors`; `BindFields` is the rest. A tensor's shape and type are
taken to be what its name asks for.

**Standard mode.** `forward_cpu` is abstracted to what decides whether and on what it works: the
buffers it reads without a test (`Runnable`), the input positions that reach the last hidden
state (`Reaches`), and one element of a product with a quantized weight (`MultiplyQuantized`).
The logits are then any of a table. Scores are integers and `ExpTable` falls with the distance from
the maximum and vanishes beyond its end. A quantized weight comes with the matrix of codes, zeros
and scales that was packed, laid out as the comments of `src/quantization.{h,cpp}` say, GPTQ's zeros in
`in_features / 2` bytes to a group and AWQ's in `out_features / 2` (`IsPacked`, `ZeroBytes`); in which
order eight zeros share an int32 they do not say, and the order is that of the weights. What `unpack_zero`
finds where no zeros are is any byte. `std::sort` may leave ties in any order, so `Rankings` is a set.

**Expert kernels.** A kernel runs when the one before it has ended. In `dispatch` every
token's thread takes its place by `atomicAdd` (`TakePosition`) and fills it in a later step
(`FillPosition`); the threads of `combine` only read the buffers. `Stale` is what a place holds
when this call has not filled it, and may look like any index.

**Tensor parallelism.** A rank is one process: `pc`, `model`, `layer`, `forwards` are its host's. A
collective is appended to the rank's `calls` and executed, for all ranks, by `RunCollective` when
every rank has it and kinds and counts fit; NCCL is external and modelled so. The `cudaFree` calls
that end a forward pass wait for the stream (`EndForward`). What may fail is what the code looks
at (`SetDeviceFails`, `JoinFails`, `CudaAborts`) and a collective, whose error nobody looks at
(`EnqueueFails`). The repository has no launcher: that every rank makes the same calls in the
order of the header, and stops when `tp_init` fails, is an assumption about one.

### Mutants

An operator whose comment begins with `mutant:` is a plausible mistake in the definition
below it. It is used nowhere: replacing the definition by it must break the property that
`PROJECT.json` pairs it with, which shows that the property depends on the code.

## 3. The runs

| run | instance | shows |
|---|---|---|
| `pool` | 2 clients, 3 blocks, at most 2 references of one client to a block | `CountsAreExact`, `SharedDataSurvives` |
| `scheduler` | 2 threads, 3 requests, 2 blocks of 2 tokens, prompts of 0 and 2 tokens, limits on sequences and tokens that bind | `BlockOwnership`, `NoRequestLost`, `BatchWithinLimits`, `QueueOrderKept` |
| `engine_tight` | 1 thread, 2 requests, 3 blocks of 2: both do not fit once they grow | `KvIsolation`, `FinishedIsReaped`, `StepReturns`, `FollowsRequestLife`, `UsesSchedulerProperly` |
| `server` | 2 client threads, prompts of 2 tokens, 2 blocks, so that one preempts the other, also while a token of its is in flight | `NoTokenTwice`, `AnsweredIsFinished`, `UsesSchedulerProperly` |
| `runner` | prompts of 0 to 4 tokens, `max_new_tokens` 0 to 5, a token limit some exceed | `PrintsEveryToken`, `KvCoverage`, `RunnerStops` |
| `tensor_parallel` | jobs of 1, 2, 3 ranks and one of 9; a dense, an odd and an expert model, dimensions that divide and that do not; one or two forward passes | `SlicesTile`, `GemmsFitSlices`, `CollectivesAgree`, `FreedExactlyOnce`, `ReturnsTogether`, `JobCompletes` |
| `moe` | 3 experts, the best 2, 1 or 2 tokens, two calls over the same buffers, buffers that are large enough and buffers of one place | `SlotsFilledOnce`, `OwnEntriesOnly`, `CombinedAsOnCpu` |
| `standalone` | 8 checkpoints of one or two files (unreadable, repeated, incomplete, quantized), 2 tokenizers, 3 prompts, 6 packed weights: GPTQ and AWQ, wider than high, higher than wide, square, of one group | `FieldsNameTheirTensors`, `QuantGroupsWhole`, `CompleteNeverFaults`, `DequantExact`, `TokensSpellText`, `SampledFromNucleus` |

Each run also checks the type invariant of its module.

*Bounds.* `MaxRequests` bounds the ids ever given, `MaxGen` the reports of the general caller
(the engine needs none: `max_new_tokens` bounds it with one thread), `OwnSizes` the blocks a
thread asks for at once outside the scheduler, `MaxHandles` the references. Two requests suffice for
what relates two of them (sharing, isolation). That the order of victims is kept needs three, two
that run and a third that needs the blocks of both, and the `scheduler` run has them, with one token
reported for each: a request of 2 tokens that was preempted with a third comes back for two blocks
and evicts two requests of one. Where a request takes part in more rounds there are two requests
(`engine_tight`, `server`). 2 or 3 blocks of 2 tokens make the cases happen: a request of 3 tokens
takes two blocks, so an allocation can fail half-way; a prompt of 0 takes none; the first token of a
prompt of 2 and the second of a prompt of 1 need another. `KvCoverage` is checked where the pool is roomy, as the default
pool of the runner is: with a tight one `report_output` ignores the failed allocation and it
does not hold, the more so after preemption (below). Thread symmetry is used where only safety
is checked.

Constants of the code are made small where that only brings their boundary within reach:
`MaxMerges` 2 for 200 (one word of the texts could take a third), `BLK` 4 for the tile of 64 and
`GroupSize` 2 for 128 (rows of 2 to 8 columns end with a tile and in the middle of one),
`History` 2 for the 64 tokens that are penalised, `RepeatPenalty` 2 for 1.1, a vocabulary of 3 rows
in which two identifiers of the tokenizer have no row. `MaxFailures` 1 read, `MaxErrors` 1
collective, `MaxCalls` 2 calls of the experts: one failure or one earlier call is what the
properties tell from none. Three ranks are the fewest whose slices have a first, a middle and
a last one; nine are more than `tp_init` takes.

*Deadlock* is checked in `pool`, `scheduler` and `engine_tight`. It is off for `runner`, whose
program ends, for `server`, which stops when it has faulted or every client was answered, for
`standalone` and `moe`, which end, and for `tensor_parallel`, whose jobs end or, after a failure or
without a shared id, wait for ever (`JobCompletes` says when they may not).

*Fairness.* `StepReturns` and the server's specification assume that a thread which is inside
a method and can go on does go on (weak fairness per thread), which is what an operating
system and a `std::mutex` without a competing thread give; nothing obliges a thread to call a
method. `StepReturns` is checked with one thread, so no fairness of the mutex is assumed. The
runner's only thread runs as long as it can. `TPSpec` assumes that each rank's host thread goes on
when it can and that the communicator is made and collectives run once every rank has arrived,
which is what NCCL does; no fault has to happen.

### Where the code does not do what it says

Four runs look for a statement of the repository in the model and find it violated; each is
a finding in `PROJECT.json` with the line and what the trace shows.

| run | statement | what happens |
|---|---|---|
| `no_leak` | `src/scheduler.h:78` "Free blocks for finished/preempted requests" | a request batched by phase 3 and retired by phase 4 of one `schedule()` is prefilled on an empty copy, and the blocks allocated for the copy are lost |
| `preemption_restore` | `src/request.h:13` "can be restored" | the checkpoint is cleared as soon as it is made; only the prompt is cached again |
| `max_tokens_answered` | `README.md:60`, a completion with `max_tokens` | a request that stops by `max_tokens` is named in the output without a token; the client thread reads element 0 of an empty vector |
| `router` | `cuda/moe_dispatch.h:11` "2. Top-K: select K experts with highest scores" | selection moves the scores but not the experts they belong to: from the second pick on the wrong expert may be named |

## 4. What is proved

A theorem holds for every value of the constants that satisfies the named assumptions of the
modules: naturals where the code has counts, a positive `BLOCK_SIZE`, allocations of at least one
block, `NoThread` not a thread, a finite set of clients, at least one request. They are weaker
than what the code's configuration guarantees. An assumption beyond these stands in the theorem.

### The scheduler

`SchedulerProofs` proves about `SchedSpec`, for every number of threads, requests
and blocks, every block size, every set of prompt lengths and token limits:

* `TypeCorrect`: `SchedSpec => []SchedTypeOK`;
* `OwnershipCorrect`: `SchedSpec => []BlockOwnership`;
* `NoRequestLostCorrect`: `SchedSpec => []NoRequestLost`;
* `BatchWithinLimitsCorrect`: `SchedSpec => []BatchWithinLimits`;
* `QueueOrderCorrect`: `SchedSpec => QueueOrderKept`, an action property.

The lemmas are about `SchedStep`, which is `SchedNext` without its bounds on what a caller reports
(`MaxGen`) and allocates (`OwnSizes`), so that they serve the engine too.

*Types and ownership.* Types alone are not inductive: `AdmitCommit` takes the head of `scan`, and
that it has one depends on the loop still being at the request it began to allocate for, while
other threads take blocks. `LoopAtRequest` says so (and that the holder of the mutex allocates only
in the loops that allocate); `SchedTypeOK /\ LoopAtRequest` is inductive, one lemma per method.
On top of it `BlockOwnership` is inductive by itself, and five cases cover every action:

1. a step that touches neither flags, counts, tables nor vectors (`OwnershipFrame`);
2. a block handed out was free, so by `HeldIsAllocated` nobody holds it (`AllocOwnership`);
3. a block freed is in this table only and its one reference is the last, so nobody else loses
   it (`FreeOwnership`);
4. a vector's blocks move into a table (`MoveOwnership`): disjointness carries over;
5. a vector is dropped with its blocks (`DropOwnership`): the blocks leak, but stay allocated.

*Queues.* In the middle of a method a request may be in neither queue, since the loops collect in
`kept` what stays. `WaitingNow` and `RunningNow` are the queues as they will be when the loop ends
(`kept \o scan` while it runs), and `QueueInv` is about these:

* `InOneQueue`: no request twice, none in both, every unfinished one in one. Between two methods
  this is `NoRequestLost`.
* `InOrder`: the loop keeps the order of the vector it will replace. With it `EndRetry` and
  `EndSchedule`, which replace a queue, satisfy `QueueOrderKept`.
* `StatesFit`: unused ids are `WAITING`, a preempted request is not in `running_`, and one that ran
  has a sequence. Without it `submit_request` could meet its id in a queue.
* `LocksFit`, `FreeFits`, `AllocFits`: what the holder of the mutex is doing fits the phase, and
  the loop that frees is at a request whose state calls for it.
* `EvictFits`: the preemption loop visits `running_` from its end, and everything behind the place
  where it stands has been taken. Hence a victim is the last that still runs, and going in
  front of `waiting_` it comes before the victims that are younger.

Most actions move nothing (`QuietStep`), and one lemma settles them; the six of `MovingStep` have
one each. For the batch, `BatchFits` adds that the sum of `total_tokens` is what the code has
counted and that what remains of `running_` is not in the batch yet; a request's sequence does not
change while a batch is made, since only `report_output` appends, under the same mutex. The sums
need `SumLemmas`.

### The engine

`EngineProofs` proves about `EngineSpec`, for any number of threads inside `step()`:

* `EngineTypeCorrect`: `EngineSpec => []EngineTypeOK`;
* `SchedulerSafeUnderEngine`:
  `EngineSpec => [](SchedTypeOK /\ BlockOwnership /\ NoRequestLost /\ BatchWithinLimits)`.

An action of the engine either is a `SchedStep` or leaves the scheduler's variables alone
(`OffScheduler`), so the scheduler's invariant carries over. For this the engine's program counter
must agree with the mutex (`LabelsFit`). The types need that a request with blocks has a token
(`BlocksAreUsed`, and `DecodesUsed` of the copies): `run_decode` writes at position
`seq_len() - 1`. `UsesSchedulerProperly`, which TLC checks, says more in one respect only, namely
that the engine stays within the bounds the general caller of the `scheduler` run has; this
depends on the instance and is not provable in general.

About the data, with the hypothesis `OneThread` (no two threads call the engine):

* `KvIsolationCorrect`: `EngineSpec => []KvIsolation`;
* `FinishedIsReapedCorrect`: `EngineSpec => []FinishedIsReaped`;
* `FollowsRequestLifeCorrect`: `EngineSpec => FollowsRequestLife`, the refinement of `RequestLife`.

With several threads a thread may write through a copy whose blocks have been freed and handed to
another request, and report a token of a request that was retired meanwhile: the code does nothing
against it, and the three do not hold (section 5). With one thread they need `SoleInv`, because what
makes them true lies several steps apart: a copy is written long after it was made, and a token
reported long after its request was scheduled.

* `CopyFits`: a copy is its request as it is now, except that one whose blocks were just
  allocated has no table yet;
* `JobFits`, `ReportsFit`: what is still to be executed or reported names each request once, and
  requests that have blocks and are not finished;
* `TablesFit`: a request with blocks is in `running_`;
* `LoopsFit`: checkpoints live only within preemption, a vector holds no more than was asked for,
  what the retirement loop keeps is not finished;
* `BlocksFit`: a free block, and one just allocated inside the scheduler, is zeroed; one in a
  table holds entries of its request only, each at its place. It is `KvIsolation` made inductive.

For the refinement `TokensFit` and `PlacesFit` relate the tokens generated and the queue to the
state; `StateMoves` lists the only five ways a state changes and `LifeStep` maps each to a step of
`RequestLife`. The hypothesis `0 \notin PromptLens \/ 0 \notin MaxNews` excludes one corner: a
request with an empty prompt and a limit of 0 tokens is finished when it is admitted and goes
on to `FINISHED` without anything to run.

### The server

`ServerProofs` proves about `ServerSpec`, for any number of client threads, each inside `step()`
whenever it likes and decoding whatever is in its batch, its own request or not:

* `ServerUsesEngine`: `ServerSpec => EngineSpec`, so that what holds of the engine with any number
  of threads (`SchedulerSafeUnderEngine`) holds in the server;
* `ServerTypeCorrect`: `ServerSpec => []ServerTypeOK`;
* `NoTokenTwiceCorrect`: `ServerSpec => []NoTokenTwice`;
* `AnsweredIsFinishedCorrect`: `TracedSpec => []AnsweredIsFinished`.

`TracedSpec` is `ServerSpec` with a history variable beside it: `ended` keeps the requests that have
been `FINISHED` at some time, and restricts nothing. It is there because `FINISHED` is not final. A
request that was preempted while another thread was decoding it is finished in `waiting_` by that
thread's end of sequence, and the retry loop of `schedule()` (`src/scheduler.cpp:206`), which asks for
no state, admits it again. Its client may be answered before or after that, so the property says:
the request is `FINISHED`, or it was preempted and has been `FINISHED`. A client that is merely preempted is
not excepted. In the run's two-client instance the readmission never happens and every
answered request is `FINISHED`, while preempted requests with a token in flight do occur; the theorem is
for any number of clients.

With several threads the invariants of one thread (`SoleInv`) are gone: a request may be preempted,
restored, finished and retired between any two steps of a thread that holds a copy of it.
What is left are facts that no other thread can undo, and the argument looks for these. They hold
for every caller that never removes a request, the runner too, and so the first four are proved
in `EngineProofs` (`CallsInv`).

* The server never calls `remove_request` (`NoneRemoves`), so `Begun` (was scheduled once) and
  `Over` (finished, or preempted at least once) are stable. `CallKeeps` shows it; that
  `schedule()` admits a finished request again only if it was preempted before is `WaitFits`.
* `FlightFits`: whatever is in a batch, a job, a copy, or among sampled tokens is `Begun`,
  and what `schedule()` retires is `Over`.
* `OnceFits`, `HeldFits`: in one `step()` a thread samples at most one token for a request, and
  what `report_output` has still to do is part of what its caller sampled.
* `EndsFit`, `OutsFit`: a reported end of sequence made its request `Over`; the output names
  requests with tokens first, each once, then finished ones, and flags only what is `Over`.
* `InHand`: the tokens that `report_output` has appended and the caller has still to read. A request
  gets into a caller's hands only in the step that generates the token (`InHandFrom`), and it
  stays there until it is read (`InHandKept`).
* `ClientFits` says that who is answered saw that flag.
* `EndsTraced`, `OutsTraced`, `DoneTraced`: the same with `ended` in the place of `Over`, from the end of
  sequence that is sampled, through the output's flag, to the client. The last is `AnsweredIsFinished`.
* `CountFits` is `NoTokenTwice` made inductive: a reply holds no more tokens than were generated,
  and one fewer while the client is `Owed` one, which is `InHand` at the place where it reads. It is
  owed one at a time.

### The runner

`RunnerProofs` proves about `RunnerSpec`, the paged mode of `main()`, for every prompt, limit, pool
and batch size:

* `RunnerUsesEngine`: `RunnerSpec => EngineSpec`. With it `KvIsolationCorrect` and the other theorems
  about one thread hold in the runner, since `OneThread` does;
* `RunnerTypeCorrect`: `RunnerSpec => []RunnerTypeOK`;
* `PrintsEveryTokenCorrect`: `RunnerSpec => []PrintsEveryToken`;
* `KvCoverageCorrect`: `RunnerSpec => []KvCoverage`, in a pool with one block more than the longest
  request needs (`PoolIsRoomy`). The pool that `main()` gets has blocks for
  `MAX_CONTEXT` tokens per sequence of the batch (`src/paged_engine.cpp:187`); without room it does
  not hold (see *Bounds*).

*Argument.* `PrintFits` is `PrintsEveryToken` made inductive: `gc` is the number of tokens
`report_output` has appended to the request, or one less while the token is `InHand`. The server's
bound needs only that a token is not read twice; here none may be lost either, so a token that
was generated must get into `main()`'s hands (`InHandNew`) and, when it collects the output, stay there
until it prints it. `OneRequest` makes it one token at a time: an output names request 0 and
nothing else, and names it with a token once.

`CoverageInv` makes `KvCoverage` inductive. `CacheFits` is what decoding needs: once the prompt's
prefill has run, every position before the last is in the request's blocks, and the last
too from the decode pass that writes it until `report_output` counts the token it yields (`Owes`). The
rest says why nothing takes those entries away or leaves one without a block: `TakenFit` counts the
blocks that are not free, which are the request's, those in the thread's hands and the one that
`run_prefill` allocates for its copy and loses; so with `PoolIsRoomy` no allocation fails
(`CannotFail`), nothing is preempted (`NothingEvicted`), and the table keeps up with the length
(`TableFits`, with what is being allocated in `WantsFit`). `EntriesFit` says that a request that runs is in
the batch, or is longer than the batch may be and never decodes again.

### The pool

`PoolProofs` proves about `HolderSpec`, for any number of clients, blocks and references:
`PoolTypeCorrect` (`PoolTypeOK`), `CountsCorrect` (`CountsAreExact`) and `SharedDataCorrect`
(`SharedDataSurvives`, an action property). `ref_count` is a sum over the clients, so each
operation is a fact about a sum in which one term changes by one (`SumLemmas`); that a client still
holding a block keeps it from being cleared follows, since a sum of naturals is at least each term.

### Expert kernels

`ModelProofs` proves about `MoeSpec`, for any number of experts, tokens, picks and calls, every
table of scores and every size of buffer:

* `MoeTypeCorrect` (`MoeTypeOK`), `SlotsCorrect` (`SlotsFilledOnce`), `OwnEntriesCorrect`
  (`OwnEntriesOnly`);
* `CombinedCorrect` (`CombinedAsOnCpu`).

*Argument.* While threads are between `atomicAdd` and the write, a place below `count` is either
filled or pending with exactly one thread (`PlacesFit`). `EntriesFit` compares, per token and
expert, the places filled with the picks done; a difference means the buffer overflowed.
`CountsFit` bounds a count by the picks taken so far, so a buffer of `n * TopK` places never
overflows, and `WeightsFit` with `SumsFit` say that what is summed is this call's weight. That
selection names each score with its own rank is the loop invariant `SelectFits` of the fold
that models the router (`PicksFit`).

### The standard mode

`ModelProofs` proves about `StandaloneSpec`, for any checkpoint of any number of files and any failing
reads, any tables of the tokenizer and any prompt, any logits and packed weights:

* `StandaloneTypeCorrect` (`StandaloneTypeOK`);
* `FieldsNameTheirTensorsHold`, `QuantGroupsWholeHold`, `CompleteNeverFaultsHold`;
* `TokensSpellTextHold`, `SampledFromNucleusHolds`, `DequantExactHolds`.

The assumptions say what the data are: finite headers (`CheckpointAssumption`), a space that is not a
newline (`TextAssumption`), integer logits and positive limits (`SamplingAssumption`), weights packed as
the comments say, of any size and either format (`PackedAssumption`). One is about data the code does not check: that no two texts
of a vocabulary share an identifier (`VocabularyAssumption`); else decoding could not give the text back.

*Loader.* `LoadInv` is inductive. `PlaceFits` is the reader's place; `MapFits` says that `tensors` holds for
each name the last file tried, if its read did not fail, and nothing for a name whose last read
failed; `QuantFit` that a group is what all headers together say of it (`GroupAfter`), and that what
is loaded of it was complete; `ModelFit` that the fields are bound once, to that map. A complete
checkpoint without failures then has a tensor for every buffer `forward_cpu` reads untested.

*Tokenizer.* The code walks text and merges in loops; the model walks in folds. A fold of an operation
that appends is a run whose state after each element is spelled by the elements so far
(`RunOfFold`). Hence cutting a prompt, a merge over the pieces, and decoding, each keep the text
(`Spells`, `Spelled`), whichever merges are applied and wherever their limit falls. `ReadMerges` and the
tables are read the same way. Injectivity of the identifiers makes decoding the inverse of encoding.

*Sampler and forward pass.* Whatever `std::sort` does with ties, all that is strictly likelier than a
token stands before it (`LikelierIsBefore`), so it weighs no more than the sum at which the loop
that keeps tokens went on (`TotalPart`, `DrawnInNucleus`). `OutputFits` and `DrawFits` carry this, and
`ReachesIs`, through the generation loop: with a layer in the model, the last position sees every
token that has an embedding.

*Quantized products.* Tiles begin at the multiples of `BLK`, the last ends at the row's end, and each
column falls in exactly one (`TileOf`), so the sum over tiles is the sum over columns (`TiledSum`), whatever
is read. A byte `lo + 16 * hi` gives back both nibbles (`CodeBack`, `ZeroBack`), so a dequantized element
is the packed matrix's (`DequantIs`) wherever the place `unpack_zero` computes is that of the row's
zero in the layout (`PlaceOfZero`, from `ZerosInPlace`).

### Tensor parallelism

`TPProofs` proves about `TPSpec`, for every set of jobs (any number of ranks, any dimensions of the
checkpoint, any batch and number of passes) and every number of failing collectives:

* `TPTypeCorrect`: `TPSpec => []TPTypeOK`;
* `SlicesTileCorrect`: `TPSpec => []SlicesTile`;
* `GemmsFitCorrect`: `TPSpec => []GemmsFitSlices`;
* `CollectivesAgreeCorrect`: `TPSpec => []CollectivesAgree`;
* `ReturnsTogetherCorrect`: `TPSpec => ReturnsTogether`, an action property;
* `FreedExactlyOnceCorrect`: `TPSpec => []FreedExactlyOnce`.

The one assumption is `JobsAssumption`: dimensions are naturals, and there is a rank, a head and a
hidden dimension. Heads need not divide by ranks, nor query heads by key/value heads.

*Argument.* Three layers, each inductive on top of the one before.

1. `RankKnowsJob`: from `tp_init` on a rank knows its number and the job's size, and its model is
   what `tp_load_model` makes of these. Without it nothing relates two ranks.
2. `SplitDimTiles` is the arithmetic of `tp_split_dim`: the first part begins at 0, each begins
   where the one before ends, the last ends where the dimension does. With `RankKnowsJob` that is
   `SlicesTile`. `EvenSplit` and `FfnAgain` say that even splits are equal and that an
   `ffn_intermediate` guessed from this rank's rows and split again gives these rows back, which
   is `GemmsFitSlices`.
3. `CollectivesAgree` is not inductive: that two ranks will agree on their next call is not in
   the calls they have made. `CallsFollow` says that a rank's calls are a chain (each is the one
   that follows the one before in the order of the layers) and that the rank stands where the
   next link is due; `CallOfPlace`, that a place determines its call, since `tp_split_heads` gives
   every rank the same counts. Two chains that begin alike agree as far as both go.

`ReturnsTogether` needs a count instead (`ProgressFits`): in each pass a rank makes the same number
of calls, `PerPass`, and the devices have executed only what every rank has handed in. A rank that
has returned has seen all its calls executed, so every other rank has handed in as many and is
in the same pass.

`FreedExactlyOnce` is separate. `FreedFields` is the list of `tp_free_model`, written from it, and `Held` what
`tp_load_model` leaves in a field. Each tensor has one field of its own (`OwnField`) that is in the list
(`OwnFieldFreed`), and two fields hold different tensors unless they are those of a tied
embedding (`HeldApart`), so one field is counted (`FreesOnce`).

### Only model-checked

* Liveness and what rests on `ENABLED`: `StepReturns`, `RunnerStops`, `JobCompletes`.
* `UsesSchedulerProperly`, for the reason given above.

Every invariant that a passing run checks is also a theorem.

## 5. Not modelled

* Data races on memory that is not scheduler or pool state: the engine's scratch buffers, which
  concurrent `step()`s share, and the pool's conversion buffers for FP16 and FP8. They affect
  the numbers computed. The properties about KV data are claimed for one thread in `step()`.
* Floating-point layers: attention, norms, RoPE, activations, the experts' FFN. Of the forward
  passes only positions, buffers, dimensions and quantized sums are modelled. That
  `forward_cpu` writes the down projection over the row it reads (`src/model.cpp:1243`) and that
  the tensor-parallel pass copies full q, k and v into buffers of one rank's size
  (`cuda/tp_model.cu:699`) is listed as hazards only.
* HTTP and JSON parsing, `handle_completion_paged` of `server.cpp`, which nothing calls, and the MLX
  build of the server. The config and header parsers of the loaders are modelled by what they
  give; FP8 and activation quantization and the GGUF stub are left out.
* The MLX backend, `interactive.cpp` and `mlx_runner.cpp`: wrappers of an external library.
* `cuda/attention*`: nothing calls these kernels, and they do not compile as they are (float
  subscripts, a device lambda, an int for a pointer). The host functions that should launch the
  experts' FFN and the combination (`cuda/moe_dispatch.*`) are stubs; the kernels themselves are
  modelled. Some NCCL calls of `tp.cu` do not have NCCL's signatures and are modelled by their
  evident intent; F16 tensors that `load_slice` casts as numbers are not told apart.
* Build files and debugging scripts.

Three things the loader does are in the model but not what a reader of its comments would expect;
the properties are worded to exclude them. `find_tensor` takes layer 0's input norm for the
final norm whenever there is one (`src/model.cpp:569`). The reader of `merges.txt` drops a merge
whose second part is one byte (`src/model.cpp:604`), and merges are then recognised by what they
spell. A nested `quant_method` leaves the quantization config at its defaults, so `g_idx` is never
read (`src/quant_loader.cpp:65`). Likewise a temperature of 0 is `DrawnAtZero`, and
`SampledFromNucleus` is about the others.

Quantized zeros are another place where code and comments part. `src/quantization.cpp:196` says of AWQ:
"zeros packed into int32, different layout — handled in loaders", and `src/quantization.h:78` gives that
layout; no loader does anything about it (`src/quant_loader.cpp:406`), and `unpack_zero` reads GPTQ's. So an
AWQ weight is dequantized right only when it is square or has one group. With GPTQ the rows past
`in_features` of a weight that is higher than wide have no zeros of their own in a group of
`in_features / 2` bytes, and get the next group's. `DequantExact` claims the packed matrix where
`ZerosInPlace`, and TLC refutes it at once without that condition, for AWQ and for GPTQ alike.

Three limits that the code suggests are not stated because it does not keep them: a preempted
candidate is not counted against `max_num_seqs_` (`src/scheduler.cpp:71`); nothing stops two
threads from decoding one request at once (`src/paged_engine.cpp:256`), so that it may get more
than `max_new_tokens`, and what holds is `NoTokenTwice`; and `FINISHED` is not final, as said under *The
server*.

Hazards in `PROJECT.json` that name no property are those no property catches: where the code
simply does what it should not (a tied embedding freed twice, temperature 0, a finish that is never
reported), where the data are left out, or where the properties are claimed under a condition that
excludes them (one thread in `step()`, no failed collective). The note of each says which.

## 6. Plan

1. *(done)* `BlockPool`, `PoolClients`; `Scheduler` with its general caller; `PagedEngine` over
   it; `RequestLife`; `PagedServer`; `CpuRunner`; types and ownership proved.
2. *(done)* `TensorShard` and `TensorParallel`, their safety proved; `MoeKernels`; the standard
   mode from `ModelLoader`, `Quantization` and `Tokenizer` to `Standalone`.
3. *(done)* Proofs about the scheduler's queues and batches, the pool, the expert kernels; about the
   engine, with ownership under its calls and the refinement of `RequestLife`; about the
   server, for any number of clients, and the runner; about when ranks return; about the loader,
   the tokenizer, the sampler and quantized products.
4. *(done)* `KvCoverage` in a pool that preempts nothing.
5. `BlockLedger`: an abstract specification of pool and scheduler together (each block free, owned
   by a request, in the hands of a thread, or lost) that `SchedSpec` implements.
6. The request reader of the server.
