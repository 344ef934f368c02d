# A TLA+ verification of the inference engine

This directory holds TLA+ models of the LLM serving runtime in `src/`, the TLC
configurations that check them on small instances, and TLAPS proofs about them.
The repository's code is the reference: every definition is translated from the
lines that `PROJECT.json` (`map`) names.

## 1. The system

A FastAPI server takes prompts and streams generated text. Requests go through a
queue to one worker thread, the *engine scheduler*, which runs an iteration-level
("continuous batching") loop over a fixed number of slots. The key/value cache of
the model is paged: a *block manager* hands out fixed-size blocks of one pool.

| part | state | operations | interacts with |
|---|---|---|---|
| **KV block manager** `runtime/kv_block_manager.py` | `free_blocks` (deque), `block_tables` (dict) | `allocate_for_tokens`, `append_block`, `ensure_capacity_for_token`, `free`, queries | called by the scheduler, under its lock |
| **Work plan** `runtime/scheduler_work_plan.py` | none | builds and summarizes plans: which request works on how many tokens | called by the scheduler |
| **Engine scheduler** `runtime/engine_scheduler.py` | `waiting`, `slots`, `finished`, counters, histories, `_running` | `step()` = drain, admit, prefill, decode, record; `start`, `stop`, `snapshot` | queue, block manager, engine, metrics, policies |
| **Policies** `runtime/scheduling_policy.py` | none | `select_admissions`, `select_decode_batch` | called by the scheduler |
| **Request state** `runtime/request_state.py` | status, token counts, copy of the block table, output queue, times | `mark_*`, `append_text`, derived counts | written by scheduler and engine, its output queue read by an HTTP thread |
| **Request queue** `runtime/request_queue.py` | thread-safe FIFO | `put`, `get_nowait`, `qsize` | HTTP threads to the worker |
| **Metrics store** `runtime/metrics_store.py` | list of records | `record_finished`, `snapshot` | worker writes, HTTP threads read |
| **Server** `server.py` | the objects above | `/generate_stream`, `/generate`, `/health`, `/metrics_json`, startup, shutdown | puts on the request queue, blocks on output queues |
| **Decode engines** `engines/` | model, KV pool, per-request tensors | `count_prompt_tokens`, `prefill_chunk`, `decode_step` | called by the scheduler |
| **Model layers** `engines/llama/` | none (weights are read only) | norm, projections, rotation, MLP, attention; layers and models over whole sequences, with a contiguous cache, over the paged pool | called by the custom engine |
| **Model runner** `engines/model_runner.py` | a Hugging Face model, a cache for each request or batch | prefill and decode of a request, of a left-padded batch | legacy schedulers, HF engine |
| **KV pool, transfer, layout** `runtime/kv_cache_*.py` | K and V tensors per layer, block, slot | write at a token's position, read a sequence | engines; addresses come from block tables |
| **Decode batch, attention** `runtime/decode_batch.py`, `attention_backend.py`, `paged_attention_reference.py` | none | build and validate a batch, paged attention | engines |
| **CUDA kernels** `cuda_backend/` | shared memory per thread block | paged attention for a request, for a batch | attention backend |
| **Legacy schedulers** `legacy/` | queue, slots or batch, metrics, block manager | `step()`: static batching, continuous batching; a harness that runs one batch | model runner; not used by the server |
| **Batch metrics** `runtime/batch_metrics.py` | status, size, steps, tokens of a batch | written at prefill, at each step, at the end | static scheduler |
| benchmarks, dashboard, analysis, tests `experiments/` | - | drive the runtime and plot | - |

What is hard here. Admission *checks* a request's whole budget of blocks but
*takes* only its prompt's, so the pool can be overcommitted and requests stall or
are evicted in mid-decode. Lists are edited while a loop walks over a selection made
earlier. The engine writes the cache through copies of block tables. Prefill is
cut in chunks by a budget, and what a chunk computes depends on offsets into what
the earlier ones left. Any engine call may raise, after some of its
effects. Requests arrive at any time; clients, report handlers and, after a
restart, a second worker run beside the first. Blocks are reused uncleared. In the
kernels a hundred threads share buffers between hand-placed barriers. `PROJECT.json` (`hazards`) lists each with
its line and the properties that would notice it going wrong.

What makes each part correct:

- block manager: every block is in exactly one place; tables only grow while owned;
- work plan: the budget is spent exactly, in slot order;
- request state and metrics: a record's durations are computed exactly when both times
  were taken, and never run backwards;
- scheduler: a request is in exactly one place; slots and block tables agree; the
  copies of tables are right when used; what is written has room; counters add up;
  each stream is bounded and is closed once; every request the pool can hold ends;
- pool and attention: what attention reads at a position is what was written for
  that token of that request; paging is invisible, as if each request had its own cache;
- model: however a prompt is cut, whoever else is in the batch and whichever of the four
  forward passes computes it, a request gets the tokens of greedy generation;
- legacy schedulers: a request is in one place, ends once, is not overtaken, and its
  row of the batch's tensors is its own;
- kernels: no race, no divergent barrier, and the result of the reference attention;
- server: each client gets its whole stream, stopped workers end, and one report's
  numbers, read at different times, do not contradict each other.

## 2. Modules

| module | what it is |
|---|---|
| `BlockOwnership` | abstract: blocks move between a free pool and one owner |
| `KVBlockManager` | the block manager; implements `BlockOwnership` |
| `KVBlockManagerProofs` | the block manager's theorems |
| `SchedulerWorkPlan` | the plan builders, as operators |
| `RequestState` | the record of a request with its methods and times, and the metrics store's records |
| `ServingContract` | abstract: what the client of one streaming request is promised |
| `Selection` | the list comprehensions the schedulers select requests and slots with |
| `EngineScheduler` | `step()` with clients, engine, policies, queue and metrics; implements `ServingContract` |
| `SequenceFacts` | lemmas about lists and functions computed by counting up, with `MinExists` and `Recursion` under them; why the manager's two moves keep blocks apart, for any deque and tables |
| `EngineSchedulerProofs` | the scheduler's theorems: slots and blocks, types, one home for each request; token counts, the contract, room for tokens, copies of block tables, counters and metrics, whom evictions and admissions help |
| `PrivateKVCache` | abstract: one private cache for each request |
| `KVCachePool` | the pool, its layout and transfer, as operators on cache values |
| `PagedServing` | `EngineScheduler` + `KVCachePool`: the engine's writes and reads; implements `PrivateKVCache` |
| `DecodeBatch` | `build_decode_batch` and the padded block tables |
| `LlamaLayers`, `LlamaModel` | the layers and the four forward passes of the custom model, modulo a prime |
| `LlamaEngine` | the custom engine executing plans and batches with that model |
| `LlamaEngineProofs` | the theorem about its prefill plans: the budget is spent exactly, in slot order |
| `ModelRunner` | the Hugging Face model runner, for a request and for a batch |
| `StaticScheduler` | the static scheduler with batch metrics and runner |
| `LegacySchedulerProofs` | the theorems of the static scheduler (how often a request ends, what tensors and metrics say of a batch) and of the decode engines (blocks and tokens, what attention visits) |
| `ContinuousScheduler` | the legacy continuous scheduler with block manager and runner; implements `ServingContract` |
| `ContinuousSchedulerProofs` | its theorems: places and tables, order of admission, counts, metrics, the contract, evictions |
| `DecodeEngines` | the synthetic harness, the synthetic and the HF engine, each under its driver |
| `Server` | `EngineScheduler` + worker threads, clients' streams, `/health`, `/metrics_json` |
| `ServingProofs` | theorems of `PagedServing` (addresses, what attention reads, refinement of `PrivateKVCache`) and of `Server` (it runs the scheduler's steps, what its reports say, one worker steps) |
| `ThreadBlock` | a CUDA thread block: threads, barriers, shuffles, block and warp reductions |
| `PagedAttentionReference` | the reference attention, on symbolic numbers |
| `PagedAttentionKernel`, `PagedAttentionKernelV3` | the batched kernel (v9a) and the single-sequence kernel (v3) on a `ThreadBlock`, compared with the reference |
| `PagedAttentionKernelProofs` | the theorems of both: no race, barriers meet |
| `MC...` | instances of the above for TLC; `MCLegacySchedulers` runs one of three systems, `MCPagedAttentionKernels` one of the two kernels |

**KVBlockManager.** A Python dict is a function whose domain is its keys, so "owns
a table" is `r \in DOMAIN block_tables`. One action per operation. A call that raises
before it changes anything is no step; `EnsureCapacityForToken` can raise half-way
(it appends block by block) and is a step that keeps what was appended.

**EngineScheduler.** The whole of `step()` runs under one lock, in one thread. The
model cuts it into its loop iterations, so that arrivals (`Submit`, the HTTP thread
of `generate_stream`) can come in between and the invariants are checked in the
middle of loops, not only between steps. `phase` is the loop the worker is in and
`local` holds the local variables it carries:

| code | actions |
|---|---|
| `drain_external_queue` | `DrainOne`, `DrainEmpty` |
| `admit_waiting_requests`, `reserve_kv_for_request` | `AdmitPass` (the `while`), `AdmitOne` / `DeferOne` / `FailAdmission` (an iteration of the `for`), `AdmitPassDone` |
| `run_prefill_for_active_requests` | `PlanPrefill`, `PrefillChunk` / `FailPrefill` |
| `decode_active_requests`, `build_runnable_decode_requests` | `BeginDecode`, `EnsureRunnable` / `EnsureStalled`, `EvictOneStalledRequest` or `ChooseBatch` |
| `run_decode_batch`, the engine's `decode_step` | `RunDecodeBatch` / `FailDecodeBatch` |
| `apply_decode_output`, `finish_request` | `ApplyOutput`, `FinishRequest`, `AllApplied` |
| `except` of `decode_active_requests`, `fail_request` | `FailOneOfBatch`, `AllFailed` |

The block manager's part of each action is the operation of `KVBlockManager`
itself (`KV == INSTANCE KVBlockManager`), and the prefill plan is
`BuildPrefillWorkPlan`. The engine is what `CustomLlamaDecodeEngine` does to a
RequestState: a chunk moves `num_computed_tokens`, a decode step counts a token
for each request and says which of them ended: those at `max_new_tokens` and any
that met an end-of-sequence token, which decodes to no text. With `EngineMayFail`, tokenizing, a chunk or a
decode step may raise; a decode step after it counted any number of the batch's
tokens. `EngineHasPrefillChunk = FALSE` is an engine without that method.

Left out of it: times and latencies, `decode_steps`, `engine_step` and the history
lists (unbounded counters only the snapshot reads), texts, `past_key_values` and other
tensors. `request_id`s are unique (uuid4). `max_new_tokens` is positive and a prompt
has a token.

**PagedServing.** Extends the scheduler by the variable `cache`: layer, physical block and
offset give a cell, and a cell holds whose token's K/V was written there last, so
that a stale, foreign or missing value is a different value. The engine's four actions
get the writes of the call: a prefill chunk writes layer after layer
(`write_past_key_values_to_pool`), a batched decode one token of each request in each
layer; a call that raises leaves any prefix of its writes behind. Attention reads
through the tensor that `_build_block_tables_tensor` pads with -1. K and V are written
and read together and are one cell. The other actions leave the cache alone: no
block is ever cleared.

**LlamaEngine.** Here the data is computed. Numbers are integers modulo a prime: sums,
products, shapes, masks, positions and head groups are the code's, weights are
arbitrary, and the functions that do not exist modulo a prime (square root,
exponential, sigmoid, division) are arbitrary polynomials. Two computations agree
exactly when they combine the same numbers in the same places, up to the order of
sums; a wrong mask, offset, head or block gives another number but by an accident of
the modulus, and rounding is left out. The scheduler is reduced to what it asks of the
engine: a plan of chunks under a token budget (`Plan`, the builders of
`SchedulerWorkPlan`), its execution (`Prefill`: `prefill_chunk`, or `prefill_request`
without a budget), then `DecodeStep` for any batch of the requests that decode, because
stalls and the decode limit may leave out any. Blocks of different requests
alternate in the pool and hold stale values at the start.

**The legacy schedulers.** As in `EngineScheduler` an action is one loop iteration of
`step()`, and an arrival may come between any two. In `ContinuousScheduler` `Drain`,
`Admit` / `Defer` / `FailAdmission` and, slot by slot, `Decode` (with `Finish` in the
same iteration when the request is done), `Stall`, `FailDecode`, `Evict` are the
branches of the code; blocks are accounts of memory only, since the runner keeps its
own cache. `StaticScheduler` takes a batch, prefills it (`FailPrefill`), decodes all its rows
(`DecodeBatch`), goes through the rows (`ApplyRow`, `SkipRow`, `FinishRow`) and removes the
batch when all have ended. Request states are the records of `RequestState`, whose
`times` keep the order of the timestamps. `DecodeEngines` drives three engines over one
batch: the harness's own loop, and for the two others the calls of the engine
protocol in the scheduler's order.

**Server.** The scheduler's lock is held while `phase # "idle"`. A worker is a thread of
`_run_loop` (`Loop`, `TakeLock`, `GoOn`); `Start` makes a new one when the flag is clear,
also when an earlier one did not notice that it had been, so two may compete for the
lock. `Receive` is a client's `token_generator`. A report is `Poll` and then the reads
of its handler in the code's order, one step each: `ReadEngine` needs the lock,
`ReadMetrics` and `ReadQueue` do not. `Workers` bounds the restarts.

**The kernels.** A thread has a program counter, registers and, at a barrier, a place in
`waiting`; `Release` opens the barrier when all that did not return wait. One action
is one statement's accesses to shared memory, in any interleaving; `accesses`
remembers who touched which cell since the last barrier. Numbers are symbolic: a
product is the pair of global addresses it multiplies, a sum the bag of its terms,
a maximum the set of its operands. A wrong stride, a lost or doubled term or a stale
value is then a different result, whatever the floats; equality up to rounding is
left out. Whether the maximum and the denominator come out finite is a free choice of
the initial state, and decides between the V pass and zeros. One thread block, of any
head and sequence, stands for the grid: blocks share only read-only tensors and each
writes its own row.

## 3. Runs

| run | instance | shows |
|---|---|---|
| `kv_blocks` | 3 requests, 5 blocks of 2 tokens, counts to 7 | any sequence of calls keeps `BlocksPartitioned`, `LogicalBlocksStable`, and implements `BlockOwnership`; includes allocations of nothing, exhaustion in mid-`ensure_capacity`, and reuse of freed blocks in every order |
| `progress` | 3 requests, 2 slots, 4 one-token blocks, shapes 1+2 and the oversized 3+2, budget 2, batches of 1, an engine that may raise | `FittingRequestsEnd` under `FairSpec`; in one admission pass nobody is passed by a later request while fitting (`NobodyWhoFitsIsPassed`) |
| `paged` | 3 requests of 3+2, 1+1 or the oversized 9+2 tokens, 3 slots, 5 two-token blocks, 2 layers, budget 2, an engine that may raise in the middle of its writes | admitted requests outgrow the pool: stalls, evictions, deferrals, late arrivals, every failure path, and blocks that pass on uncleared and half-written. Homes, tables, copies, counters and the contract stay right, evictions help others, addresses exist, attention reads its own tokens, paging is invisible |
| `server_reports` | 2 requests, 2 workers, both endpoints | polls at every moment of every step: no torn snapshot, nothing counted twice by `/health`, ends reported by `/metrics_json` are in its engine part |
| `server_lifecycle` | 2 requests, 2 workers, no polls | liveness under `FairServerSpec`, with stops and restarts at every moment |
| `kernels` | v9a: 2 warps of 2 lanes, 4 query heads on 2 K/V heads, 2 sequences, head of 3, lengths 1, 3 and 5 (`MaxSeqLen`); v3: 2 heads, lengths 1, 3 and 4 | every interleaving: no race, no divergent barrier, the reference's result |
| `legacy` | continuous: 3 requests of 3+5 and 1+1 tokens, 3 blocks of 3 tokens, 2 slots; static: 1+2 and 2+1, batches of 2; engines: 6 blocks of 2, prompts and outputs to 3; a runner that may raise | each system from start to end with late arrivals: homes, tables, counts, metrics, order, evictions, the contract, and that every request ends (`MCSpec`) |
| `llama` | 2 requests, prompts of 1 to 3 tokens, up to 3 new ones, budgets 1, 2 and none; 2 layers, 4 query heads on 2 K/V heads, 5 tokens in the vocabulary | greedy generation whatever the chunks and batches; the caches hold what the full forward computes; the four ways to run the model agree; the plans spend the budget exactly, in slot order |
| `token_accounting` | the continuous part of `legacy`, with a runner that never raises | violation: see Findings |
| `kernel_long` | a length of `MaxSeqLen` + 1 | violation: see Findings |
| `hf_backend` | an engine without `prefill_chunk` | violation: see Findings |
| `eviction_deadlock` | prefill budget 1 | violation: see Findings |

Bounds. Three requests are the fewest with which one runs, one stalls and one
waits; blocks are few enough that every scheduler instance exhausts the pool, and
outputs long enough that a request outgrows its prompt's blocks twice. Two warps of
two lanes have every relation between threads that the kernels tell apart (same warp
or not, lane 0, thread 0, idle in the last round); the head is no multiple of the
lanes and longer than a warp, and lengths end inside a block and inside a round of
the warps. In `llama` a prompt of three tokens is cut in three, two or one chunks, also
across the other request's, and ends inside a block or at its end; two query heads to
a K/V head tell the two ways of sharing heads apart. In `legacy` the pool is one block
short for two growing requests, and a batch has rows of different lengths and ends. Two workers are the fewest that compete. All state is bounded by the
requests' shapes; there is no state constraint. Symmetry is used in safety runs only.
`TextsOf` lets a token have no text only until the time of the first token is taken,
because later it makes no difference. `CHECK_DEADLOCK FALSE` appears only in `llama`,
which stops when all requests are finished. A kernel that has returned stutters, and so
does a decode engine whose driver is done.

Fairness. `FairSpec` asks weak fairness of the worker's `Step` as one action: the
thread of `_run_loop` is never blocked (the lock is only held for a snapshot), and its
loop has no exit but `stop()`. No fairness is put on clients, nor on which outcome
the engine has. `FairServerSpec` asks weak fairness of each worker thread and of each
client's blocking `get`; nobody has to start, stop, submit or poll. `MCSpec` of the
legacy systems asks it of the worker's (or the driver's) step alone.
`FittingRequestsEnd` needs its premise: requests that can never fit are deferred for
ever at the head of the waiting list, and as many of them as slots take all the
places the policy selects.

Wrong variants. Definitions commented as wrong variants are used by no
specification; `PROJECT.json` (`mutants`) names for every property of a passing
run one of them that breaks it.

### Findings

- `hf_backend`: `EngineScheduler` calls `prefill_chunk` (`runtime/engine_scheduler.py:509`),
  which neither backend of `server.py` defines. The `AttributeError` is caught and
  each request ends as failed; the smoke tests assert `finished.status == "finished"`.
- `eviction_deadlock`: a stalled request is evicted when no *decode-ready* request can
  run, also while another active request is in prefill and can go on.
  `docs/runtime/kv_pressure_validation.md:62` says this happens when every active
  request stalls and no progress is possible.
- `token_accounting`: in the legacy continuous scheduler the runner counts a token
  (`engines/model_runner.py:259`) and the scheduler counts it again
  (`legacy/continuous_scheduler.py:279`), so a request is finished with half of the
  tokens it asked for, rounded up. `docs/runtime/continuous_scheduler_validation.md:13`
  says "Per-request generated token accounting matches the requested generation
  length", and lines 75-76 expect 64 + 64 + 16 + 16 = 160 tokens. What the code does
  instead is proved: `TokensAreCountedTwice`.
- `kernel_long`: for a sequence longer than `MAX_SEQ_LEN` (512) the batched kernel returns
  without writing its row of an output made by `torch::empty_like`. No caller checks the
  length, and `docs/cuda/cuda_paged_attention_runtime_integration.md` decodes 32 tokens
  after a prompt of 512 as its validated path.

More facts that contradict no document: `/metrics_json` reads the queue before the engine
and may count a request twice. After `stop()` and `start()` two workers may go on for
ever side by side, which the lock makes harmless. Requests deferred in one pass come
back in reverse order. The legacy continuous scheduler asks for blocks while
`prompt_tokens` is still zero, so the first comes only with the first decode. A batch of the static scheduler that fails late records its finished
requests a second time, as failed. In the continuous scheduler a runner that raises frees the
slot's blocks, but the pass evicts all the same if nobody was given a token: `EvictionNeeded`
states that everybody in a slot lacks a block *or* a slot was vacated in the same pass, and the
second case is one that `docs/runtime/kv_pressure_validation.md:62` would dispute as well.
The kernel v3 has a buffer of `MAX_SEQ_LEN` scores like the batched one but no check
of the length; its model is run up to that length only, beyond which its
behaviour is undefined and nothing is shown.

## 4. Proofs

**The block manager.** `KVBlockManagerProofs` proves, for every set of requests, pool
and block size, and bound on token counts (assumed: the pool and the block size are
positive naturals, the bound a natural, as `__init__` and the callers ensure):

- `TypeCorrect`: `Spec => []TypeOK`
- `BlocksStayPartitioned`: `Spec => []BlocksPartitioned`
- `LogicalBlocksAreStable`: `Spec => LogicalBlocksStable`
- `RefinesOwnership`: `Spec => ImplementsOwnership`

`BlocksPartitioned` with `TypeOK` is inductive: the invariant is a statement
about all the lists at once (the deque and each table free of duplicates, pairwise
disjoint, together all blocks), and none of its parts is inductive alone. All
operations come down to two moves, cutting the head of the deque onto the end of one
table and a whole table to the end of the deque; `StepCases` shows that every
operation is one of them. That the moves keep blocks apart is `GiveKeepsPartition`
and `TakeKeepsPartition` of `SequenceFacts`, which speak of any deque and any tables,
so that the scheduler's proofs can cite them too. They rest on `InjectiveConcat` (two
duplicate-free, disjoint sequences concatenate to one) and `CutDeque` (a cut splits
the elements).

**The scheduler.** `EngineSchedulerProofs` proves, for every set of requests and shapes, pool, number
of slots, budget and decode limit, with an engine that may fail or not (assumed: positive
prompts, lengths, pool, block size and slots; `NoRequest` is no request):

- `TablesFollowSlots`: `Spec => []SlotsOwnTables`
- `TypesAreCorrect`: `Spec => []TypeOK`
- `EveryRequestHasOneHome`: `Spec => []OneHomePerRequest`
- `CountsAgree`: `Spec => []ComputedTokensAgree`
- `RefinesContract`: `Spec => ImplementsContract`
- `TokensHaveRoom`: `Spec => []TablesCoverTokens`
- `CopiesAreValid`: `Spec => []BlockTableCopiesValid`
- `CountersAddUp`: `Spec => []CountersBalance`
- `EvictionsHelpOthers`: `Spec => EvictionHelpsOthers`
- `NobodyIsPassed`: `Spec => NobodyWhoFitsIsPassed`

None of these properties is inductive. The inductive invariants are layers, each proved with
the ones below it as known (TLC found no violation of them on small instances before they
were proved):

1. `IInv` adds four facts to the slots and blocks, each for one step that would otherwise
   break. The token counts are naturals (`CountsTyped`), or the number of missing
   blocks would mean nothing. The queue, the waiting list and the selection hold requests
   (`ListsTyped`), or `NoRequest` could be put in a slot. No request has two slots
   (`OneSlotEach`), because ending a request empties only the first slot that holds
   it. And in the middle of an admission pass the selected requests are at most as many
   as the free slots (`SelectedHaveSlots`): this is also why the loop's early returns for
   a full slot array (`admit_waiting_requests`, after `has_free_slot` and
   `first_free_slot_index`) are never taken and the model does without them.
2. `HInv` adds the types, the homes and, for each loop of `step()`, that what it still has to
   work on (the selection of an admission pass, the chunks of a plan, the requests to
   ensure, the batch, the outputs) is where the selection found it, in the status it
   had then, and once. Lists are edited under these loops by deferrals, finishes,
   evictions and failures, and a home would be lost if a second iteration met the same
   request. What a selection and a prefill plan contain is proved of the operators
   themselves (`InOrderProperties` and the lemmas after it), whatever the length of the lists:
   a fold is a function computed by counting up, that such a function exists is
   `Recursion` of `SequenceFacts`, and facts about all its values come from `CountingUp`,
   both from the least element of a set of naturals.
3. `SInv` adds `RecordsRight`, what the counters of a record may be for its status, and
   `OutputsDue`. The engine counts the tokens of a whole batch before the scheduler applies
   the first output, and a batch that raises has counted any part of it: `Uncounted` is
   the set of requests for which the two may disagree, empty between steps. The contract
   follows from `OneClient`: a step that changes the record of one request as
   `ClientStep` allows is a step of `ServingContract`; the counters say that a stream about
   to get a text is shorter than its limit.
4. `TInv` adds `Roomy`: a request in a slot has room for its tokens, and one that was found
   runnable and whose batch has not run (`Checked`) has room for one more and an engine that
   knows its whole table. The upper bound on tables (never more than counted at
   admission) needs layer 3: an append happens only for a request below its limit.

5. `CInv` adds `Balanced`: each counter is a sum over requests or a number of them,
   with what the loop in progress still owes it. Evictions, allocation failures and
   stalls are compared through the stalled requests of the step (`StallsAdd`). A sum
   changes by what one request changes; that only finitely many requests were ever
   sent, whatever `Requests` is, is a part of the proof (`FinitelyMany`: they are in
   lists and slots). The engine counts a token before the scheduler does, and a
   batch that raises leaves it ahead for good, so that what `/health` says cannot be stated
   with the engine's counts. `AInv` therefore counts what was *applied*, which shows in
   `num_computed_tokens`: `AppliedRight` says for whom the engine may be a token ahead
   (`ToApply`: the outputs or the failures to come, and those that failed), and `AppliedAdd`
   that `tokens_generated` is exactly the sum of the applied tokens, also after an
   engine raised.
6. `EInv` adds `Cramped`, for the evictions: `AdmittedFit` (what the admission check found
   stays true of a request in a slot: the pool can hold all of it) and `StalledAreShort`
   (when a request stalls, the pool is empty and its table too short). If the victim
   were the only request in a slot it would own the whole pool, which by the first is
   enough for it, against the second: so an eviction frees blocks for somebody else.
7. `OInv` is `HInv` with `PassedDoNotFit`, for the order of admissions: in the middle of an
   admission pass the selection is a stretch of the waiting list, and the
   requests before it are those the pass could not place. The pool only shrinks during
   a pass, so they still do not fit when a later one is admitted.

**The paged cache.** `ServingProofs` builds on the scheduler's `TInv` (`ServingSpec`
implies `Spec`: the cache only adds a variable) and proves, for every set of layers
numbered from 0 besides:

- `AddressesAlwaysExist`: `ServingSpec => []AddressesExist`
- `AttentionReadsTheRightTokens`: `ServingSpec => AttentionReadsOwnTokens`
- `PagingIsInvisible`: `ServingSpec => ImplementsPrivateCaches`

Its invariant `PInv` has two more layers. `CopiesReach`: the table copy the engine was given
reaches all tokens of the request, not only the manager's table. `CacheRight`: for each
request in a slot the cache holds, in every layer, its first `Held` tokens. `Held` is
`num_computed_tokens`, except for a request that is `Unapplied`, whose new token is in the
cache while its output waits to be applied. The argument is that of the comment on top of
the module: a token's cell is its layer, a block of its request's table and an offset;
tables share no block and have none twice, copies are prefixes of them, so two tokens of
requests in slots never have one cell (`CellsApart`); every write of the engine is of a
token that is not yet held (`WritesNewTokens`), so nothing held is lost, even if the
call stops in the middle (`NewTokensLand`, `SomeOfTheWrites`). The scheduler's own steps are
sorted by what they do to the requests in slots (`SlotStep`: one leaves, enters, gets a
longer table or has its token counted), so that the invariant and the refinement need
one case for each instead of one for each action.

**The server.** Also in `ServingProofs`, for every number of requests and workers besides:

- `ServerRunsScheduler`: `ServerSpec => Spec`, so that every theorem about the scheduler
  holds under the server, across stops and restarts
- `ReportsAgreeAlways`: `ServerSpec => []ReportsAgree`
- `SnapshotsAreWhole`: `ServerSpec => SnapshotsWhole`
- `OneWorkerSteps`: `ServerSpec => []LockHeld`

A report is right because of the order of its reads. The invariant (`CInv /\
ReportsRight`) says of each point between two reads what the numbers read so far
have to do with the state now: `/health` reads the engine first, and those it counted
never come back to the queue; `/metrics_json` reads the metrics first and the
engine last, and the finished list only grows. `LockHeld` says that a step is in progress
exactly when one worker, and never two, is inside it.

**The legacy continuous scheduler.** `ContinuousSchedulerProofs`, for every set of requests and
shapes, pool, number of slots and limit, with a runner that may raise or not (`MCSpec` is the
system that runs one of the legacy parts and states something of this one when
it is the one running):

- `SlotsAlwaysOwnTables`: `MCSpec => []SlotsOwnTables`
- `NobodyOvertakes`: `Spec => NoOvertaking`
- `TokensAreCountedTwice`: `MCSpec => []RunnerAndSchedulerCount`
- `MetricsAlwaysMeaningful`: `Spec => []MetricsMeaningful`
- `ContinuousRefinesContract`: `MCSpec => ContinuousImplementsContract`
- `EvictionIsNeeded`: `Spec => EvictionNeeded`

Three invariants, one on the other (TLC checked them before they were proved). `PInv` says where
requests are: each status has its place, a place holds nobody twice, no request has
two slots, blocks are in one place, and a request that has all its tokens is
ended in the turn of its slot (`InTurn`), or a second pass could meet it. All four ends
of a request make the same moves, which `EndingKeeps` treats once. `RInv` adds
`RecordsRight`, which gives each status the values its record may have. The
fact about finished requests, that they computed half of their tokens, rounded up, needs
the bound from above in `HasItsTokens`: a token adds two to a count that was below the
limit. The times of a record are one of five lists (`Admitted`, `EndedEarly`, ...), which is
why no duration is negative. `MetricsRight` says the metrics are the records of the finished
list, and `TokensAdd` that the scheduler's counter is half the sum over all requests; the sum over
the successful ones in the metrics is then at most that (`SumOfMatched`). `EInv` adds the pass
over the slots, for evictions: while nobody was given a token or left, the pool is
empty since the first stall and each slot visited lacks a block even if it got all that is
free (`PassRight`). `PlacedFit` keeps what admission checked, so that a request alone in
the pool always gets its block.

**The legacy static scheduler.** `LegacySchedulerProofs`, for every set of requests and shapes,
batch size, and a runner that may raise or not (assumed: prompts, limits and the batch size
are positive):

- `StaticAlwaysEndsOnce`: `MCSpec => []StaticEndsOnce`
- `StaticBatchesAlwaysMatch`: `MCSpec => []StaticBatchesMatchRequests`

Both properties speak of moments between steps; their invariant `BInv` speaks of every moment.
`StaticHomes`: where a request is follows from its status, also while a batch
is put together (`Forming`) or dissolved. `OneBatch`: tensors, metrics and the
active batch come and go together. `RowsRight`: a row has a token for each decode step up to the
step its request finished, in the middle of a step one more for the rows already looked at
(`Applied`); the mask is the prompt with the steps, and the shared length the largest of
them; and while failures are being marked they are the rows already looked at, so a batch
fails as a whole. `StaticRecords`: how often a request was closed and recorded, by its status,
counts and what the loop still has to record. This is where the double record of a
row that finished before its batch raised is stated exactly: such a request has two ends,
and nobody else has. `BatchesAdd`: the tokens in the metrics of all batches, with those of the step in
progress (`InProgress`), are the sum over the requests, and their sizes the number of
prefilled ones. A runner that raises in prefill leaves neither, so the sums need that a
batch becomes active only after its metrics exist.

**The decode engines.** `LegacySchedulerProofs`, for every set of requests, pool, prompt, limits,
engine and driver (assumed: the set of requests is finite, the pool and a block are
not empty, prompt and limits are natural numbers):

- `EnginesAlwaysServeAllTokens`: `MCSpec => []EnginesServeAllTokens`
- `EnginesAlwaysAttendRight`: `MCSpec => []EnginesAttendToExistingTokens`

The invariant `DInv` (checked by TLC first) has these parts. `EngineRecords`: a request whose
turn to be initialized has not come is as it was made; afterwards it is finished
only with all its tokens, and the engine's own count (computed tokens, the runner's cache)
is its position. `EngineTables`: blocks are in one place, exactly the unfinished requests
have tables, and a table holds the tokens there are and never more than those there will
be; in the middle of the loop that reserves room, requests already visited have room
for one token more. `AllBlocksThere`: free blocks and the tables' lengths add up to the
pool. Who lacks a block has a table below its final need, so by `SumOfShares` the pool,
sized for the final needs of all, has a free block: this is why `NeverShortOfBlocks`
follows from the check in the harness's constructor (`Constructible`). `EngineCache`: every token
before a request's position has its keys and values in the cell its table
gives it; a write goes to the next cell (`WritesLand`), which is in no other table, and a
table only grows at its end. `Lockstep` and `StepRecords` tie the harness's counters to the
number of steps. `BatchBuilt`: when attention runs, once for the whole batch, the batch is what
`build_decode_batch` makes of the present tables; its padded rows, with the padding
removed, are those tables (`RowsAreTables`), whatever the longest one is.

**The prefill plans.** `LlamaEngineProofs`, for every number of requests, prompts and token
budgets (or none), in chunks or whole (assumed: the prompts are finite sequences of tokens,
a budget is a natural number or unlimited):

- `BudgetAlwaysSpentExactly`: `Spec => []PlansSpendTheBudget`

The core is a lemma about the loop of `build_prefill_work_plan`, a fold over the requests
in slot order whose state is the plan and what is left of the budget. `Filling` is
its loop invariant (items in slot order, one for each request and none larger than what its prompt
has left; nobody before the last item is left out; items and the remaining budget add up to
the budget), `FillingGoesOn` its step, and `PlanMade` what it gives at the end: the
plan's items sum to the smaller of the budget and all tokens left. The invariant `LInv` carries this
through a step: what a plan will leave when it is worked off (`LeftAfter`), with
what was planned so far, is all prompt tokens; planned is the closed form of
`BudgetSpentExactly` for the number of steps (`Spent`); and the rest of a plan
is again a plan for what is left (`PlanRight`). Working off one item changes neither
(`ItemDone`), since the request loses exactly what its item granted.

**The kernels.** `PagedAttentionKernelProofs`, for every number and size of warps, head
dimension, length and interleaving:

- `NobodyRaces`: `Spec => []NoDataRace`, and `NobodyRacesInV3` for the kernel v3
- `ThreadsMeet`: `Spec => []BarriersConverge`, and `ThreadsMeetInV3`

Neither property is inductive, since both speak of threads at barriers only. The invariants `KInv`
and `KInv3` cut the kernel at its barriers: all threads are in one segment (`Segment`),
each at a statement of it or waiting at the barrier that ends it, with the same
stride of a reduction tree, and in v3 the same token position; and every access since the last
barrier is one the segment allows to that thread (`ScoresAccess`, `TreeAccess`, ...). The barrier
opens only when all wait, so the next segment starts with no accesses. Within a
segment races are excluded by arithmetic: positions on strides from different lanes or
warps never meet (`OneOnStride`), a tree step at stride `s` reads cells from `s` up and
writes those below, and no thread writes another's dimension of the row.
Assumed: warps and their number are positive (the powers of two that
`WarpAssumption` also asks for are not needed here), `HEAD_DIM` is a natural number, and in
v3 that lengths are integers. That the result is the reference's stays with TLC: it is a
sum over all tokens, a bag built by loops and by recursion.

**Only model-checked.** Liveness (`FittingRequestsEnd`, `StopEndsWorkers`, `ClientsAnswered`,
`LegacyRequestsEnd`), which is out of the prover's reach as ENABLED and fairness are;
`KernelMatchesReference`, and what `LlamaEngine` computes (`GeneratesGreedily`,
`CachesHoldFullForward`, `DecodePathsAgree`), because their values are computed by
recursion over data, about which the prover cannot do induction. `TypeOK` of the scheduler and `LockHeld` are proved and in no run.

## 5. Plan

1. (done) `KVBlockManager` with proofs, `SchedulerWorkPlan`, `EngineScheduler`.
2. (done) `PagedServing` with the pool; the kernels; `Server`.
3. (done) `RequestState` with the metrics' records; the legacy schedulers, the model
   runner and the synthetic and HF engines; the custom Llama model and its engine.
4. (done) the scheduler's proofs: slots and blocks, homes and types, counts and the
   contract, room and copies of tables, counters, evictions, the order of admissions;
   `Server` on top.
5. (done) the proofs of `PagedServing`: addresses, what attention reads, and the refinement of
   `PrivateKVCache`; `PagedAttentionKernelProofs`: races and barriers of both kernels;
   `ContinuousSchedulerProofs` and `LegacySchedulerProofs`: all safety properties of the
   legacy schedulers and of the decode engines; `LlamaEngineProofs`: the prefill plans.
6. Requests that come back without end (recycled ids). A request that fits may wait for
   ever when the slots it needs are always filled again by smaller ones; with each
   request sent once, as here, `FittingRequestsEnd` says nothing about that, and the
   hazard stands in `PROJECT.json` without a property.

Not modelled, and why:

- rounding and overflow of floating-point numbers, and the loading of weights: the
  model's and the kernels' arithmetic is exact here;
- `/generate` (it reads the whole of the stream `/generate_stream` serves), the
  playground page, argument and shape checks that only reject a call;
- snapshot histories, byte counts and latencies: numbers of the dashboard that no
  decision reads;
- benchmarks, profiles, plots, dashboards: drivers of the runtime without state
  that serving depends on.
