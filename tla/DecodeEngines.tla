---------------------------- MODULE DecodeEngines ----------------------------
(***************************************************************************)
(* The decode engines without the custom model:                            *)
(*   "harness"    legacy/synthetic_decode_engine.py, which owns requests,  *)
(*                blocks and cache and runs its batch to the end;          *)
(*   "synthetic"  engines/synthetic_cuda_decode_engine.py and              *)
(*   "hf"         engines/hf_decode_engine.py, called as the protocol of   *)
(*                runtime/decode_engine.py and the scheduler have it:      *)
(*                blocks are allocated, init_request_state called, and     *)
(*                then, step by step, capacity is ensured for everybody,   *)
(*                decode_step called once, and who is finished is freed.   *)
(* Keys and values are random numbers in the first two; what matters of    *)
(* them is which token they were drawn for. All write layer 0 only.        *)
(***************************************************************************)
EXTENDS ModelRunner, DecodeBatch

CONSTANTS
  Requests,       \* the requests there may be
  TotalBlocks,    \* total_blocks
  BlockSize,      \* block_size_tokens
  MaxPrompt,      \* bound: prompt_tokens
  MaxNewTokens    \* bound: max_new_tokens

VARIABLES
  config,          \* driver, batch_size, prompt_tokens, max_new_tokens by request
  request_state,   \* the RequestState of each request
  phase,           \* where in the loop the driver is
  local,           \* the position in the current loop, and the decode batch
  cache,           \* the KVCachePool
  step_metrics,    \* what is recorded of every decode step
  free_blocks,     \* the block manager's deque
  block_tables     \* the block manager's tables

kv_vars     == <<free_blocks, block_tables>>
engine_vars == <<config, cache, step_metrics>>
vars        == <<request_state, phase, local, kv_vars, engine_vars>>

MaxTokens == MaxPrompt + MaxNewTokens

KV   == INSTANCE KVBlockManager
Pool == INSTANCE KVCachePool WITH Layers <- {0}

Drivers == {"harness", "synthetic", "hf"}

(* Wrong variant (used by no specification): the last token is forgotten.   *)
ConstructibleOneShort(c) ==
  \A r \in Requests :
    c.batch_size * KV!BlocksNeeded(c.prompt_tokens + c.max_new_tokens[r] - 1) <= TotalBlocks

(* The constructor raises when total_blocks is less than what all requests *)
(* need in the end; for an engine, whoever sizes the pool sees to it.       *)
Constructible(c) ==
  \A r \in Requests :
    c.batch_size * KV!BlocksNeeded(c.prompt_tokens + c.max_new_tokens[r]) <= TotalBlocks

(* The harness gives all its requests the same limit. *)
Configs ==
  {c \in [driver : Drivers, batch_size : 1 .. Cardinality(Requests),
          prompt_tokens : 1 .. MaxPrompt,
          max_new_tokens : [Requests -> 1 .. MaxNewTokens]] :
     /\ Constructible(c)
     /\ c.driver = "harness" => Cardinality(Range(c.max_new_tokens)) = 1}

(* request_states of the driver, in their order. *)
Members == SubSeq(SetToSeq(Requests), 1, config.batch_size)

(* A RequestState whose next_token is set. *)
WithNextToken(q, token) ==
  [field \in DOMAIN q \cup {"next_token"} |->
     IF field = "next_token" THEN token ELSE q[field]]

(* The harness makes its requests ready to decode; an engine gets them      *)
(* admitted, their prompts counted.                                         *)
NewRequest(c, r) ==
  LET q == [NewRequestState(c.prompt_tokens, c.max_new_tokens[r])
              EXCEPT !.prompt_tokens = c.prompt_tokens]
  IN  IF c.driver = "harness" THEN WithNextToken(MarkDecoding(MarkAdmitted(q)), 0)
      ELSE WithNextToken(MarkAdmitted(q), NoToken)

Token(r, position) == [request_state |-> r, token_position |-> position]

TokenPosition(r) == request_state[r].prompt_tokens + request_state[r].generated_tokens

NoDecodeBatch == [request_ids |-> << >>, seq_lens |-> << >>, block_tables |-> << >>]

At(loop, position) ==
  phase' = loop /\ local' = [local EXCEPT !.position = position]

-----------------------------------------------------------------------------
(* The writes to the cache *)

WriteTokens(table, r, positions) ==
  cache' = Pool!AfterWrites(cache,
             [i \in DOMAIN positions |->
                Pool!Write(0, table, positions[i], Token(r, positions[i]))])

(* _fill_prompt_kv *)
FillPromptKV(r, table) ==
  WriteTokens(table, r, [i \in 1 .. request_state[r].prompt_tokens |-> i - 1])

(* initialize() of the harness, init_request_state of the engines: blocks   *)
(* for the prompt, and its K/V, save that hf has a cache of its own.        *)
Initialize ==
  LET r == Members[local.position]
  IN  /\ phase = "initialize" /\ local.position <= Len(Members)
      /\ KV!AllocateForTokens(r, request_state[r].prompt_tokens)
      /\ IF config.driver = "hf"
         THEN /\ request_state' = [request_state EXCEPT ![r] =
                   [Prefilled(@) EXCEPT !.block_table = block_tables'[r]]]
              /\ UNCHANGED cache
         ELSE /\ request_state' = [request_state EXCEPT ![r] =
                   [MarkDecoding(@) EXCEPT !.block_table = block_tables'[r], !.next_token = 0,
                      !.num_computed_tokens =
                        IF config.driver = "synthetic" THEN config.prompt_tokens ELSE 0]]
              /\ FillPromptKV(r, block_tables'[r])
      /\ At("initialize", local.position + 1)
      /\ UNCHANGED <<config, step_metrics>>

-----------------------------------------------------------------------------
(* The loop *)

Active == ActiveRequests(Members, request_state)

(* The start of an iteration. The harness builds its batch at once, an      *)
(* engine when the scheduler has ensured capacity.                          *)
BeginIteration ==
  /\ \/ phase = "initialize" /\ local.position > Len(Members)
     \/ phase = "loop"
  /\ IF Active = << >> THEN At("done", 1)
     ELSE IF config.driver = "harness" THEN At("build", 1) ELSE At("ensure", 1)
  /\ UNCHANGED <<request_state, kv_vars, engine_vars>>

(* build_decode_batch, and the attention over what it describes. *)
Build ==
  /\ phase = "build"
  /\ Buildable(Members, request_state)
  /\ phase' = "attended"
  /\ local' = [local EXCEPT !.decode_batch =
                 BuildDecodeBatch(Members, request_state, block_tables)]
  /\ UNCHANGED <<request_state, kv_vars, engine_vars>>

(* A request after its token was written. *)
Generated(q, table) ==
  LET generated == q.generated_tokens + 1
  IN  [q EXCEPT !.generated_tokens = generated, !.next_token = generated,
                !.block_table = table]

(* One request of the harness's loop: room for the token, its K/V, the      *)
(* count, and if that was the last the end.                                 *)
HarnessAdvance ==
  LET r == local.decode_batch.request_ids[local.position]
      table == block_tables[r] \o KV!FirstFree(KV!MissingBlocks(r, TokenPosition(r)))
      q == Generated(request_state[r], table)
  IN  /\ phase = "attended" /\ config.driver = "harness"
      /\ local.position <= Len(local.decode_batch.request_ids)
      /\ KV!CapacityAvailable(r, TokenPosition(r))
      /\ WriteTokens(table, r, <<TokenPosition(r)>>)
      /\ IF IsFinished(q)
         THEN /\ request_state' = [request_state EXCEPT ![r] = MarkFinished(q)]
              /\ free_blocks' = KV!AfterPop(KV!MissingBlocks(r, TokenPosition(r))) \o table
              /\ block_tables' = [x \in KV!Owners \ {r} |-> block_tables[x]]
         ELSE /\ request_state' = [request_state EXCEPT ![r] = q]
              /\ KV!EnsureCapacityForToken(r, TokenPosition(r))
      /\ At("attended", local.position + 1)
      /\ UNCHANGED <<config, step_metrics>>

(* The scheduler ensures capacity for one request after the other. *)
Ensure ==
  LET r == Active[local.position]
  IN  /\ phase = "ensure" /\ local.position <= Len(Active)
      /\ KV!CapacityAvailable(r, TokenPosition(r))
      /\ KV!EnsureCapacityForToken(r, TokenPosition(r))
      /\ request_state' = [request_state EXCEPT ![r].block_table = block_tables'[r]]
      /\ At("ensure", local.position + 1)
      /\ UNCHANGED engine_vars

Ensured ==
  /\ phase = "ensure" /\ local.position > Len(Active)
  /\ At(IF config.driver = "hf" THEN "decode" ELSE "build", 1)
  /\ UNCHANGED <<request_state, kv_vars, engine_vars>>

(* Wrong variant (used by no specification): through the table of the       *)
(* prompt.                                                                  *)
SyntheticWritesBefore(requests) ==
  [i \in DOMAIN requests |->
     Pool!Write(0, block_tables[requests[i]], TokenPosition(requests[i]) - 1,
                Token(requests[i], TokenPosition(requests[i])))]

(* What decode_step of the synthetic engine writes after attention. *)
SyntheticWrites(requests) ==
  [i \in DOMAIN requests |->
     Pool!Write(0, block_tables[requests[i]], TokenPosition(requests[i]),
                Token(requests[i], TokenPosition(requests[i])))]

SyntheticDecodeStep ==
  /\ phase = "attended" /\ config.driver = "synthetic"
  /\ cache' = Pool!AfterWrites(cache, SyntheticWrites(Active))
  /\ request_state' = [r \in Requests |->
       IF r \in Range(Active)
       THEN [Generated(request_state[r], block_tables[r]) EXCEPT
               !.num_computed_tokens = TokenPosition(r) + 1]
       ELSE request_state[r]]
  /\ At("finish", 1)
  /\ UNCHANGED <<config, step_metrics, kv_vars>>

(* decode_step of HFDecodeEngine: one token for each request that is not    *)
(* finished; it raises unless the runner counted exactly one.               *)
HFDecodeStep ==
  /\ phase = "decode"
  /\ request_state' = [r \in Requests |->
       IF r \in Range(Active) THEN Emitted(request_state[r]) ELSE request_state[r]]
  /\ \A r \in Range(Active) :
       request_state'[r].generated_tokens = request_state[r].generated_tokens + 1
  /\ At("finish", 1)
  /\ UNCHANGED <<kv_vars, engine_vars>>

(* The scheduler applies the outputs: who is finished is freed. *)
Apply ==
  LET r == Members[local.position]
  IN  /\ phase = "finish" /\ local.position <= Len(Members)
      /\ IF request_state[r].status # "finished" /\ IsFinished(request_state[r])
         THEN /\ request_state' = [request_state EXCEPT ![r] = MarkFinished(@)]
              /\ KV!Free(r)
         ELSE UNCHANGED <<request_state, kv_vars>>
      /\ At("finish", local.position + 1)
      /\ UNCHANGED engine_vars

Record ==
  Append(step_metrics,
    [active_batch_size |-> Len(local.decode_batch.request_ids),
     kv_used_blocks    |-> KV!UsedBlockCount,
     total_tokens_emitted |->
       SumFunction([i \in DOMAIN Members |-> request_state[Members[i]].generated_tokens])])

EndIteration ==
  /\ \/ phase = "attended" /\ config.driver = "harness"
        /\ local.position > Len(local.decode_batch.request_ids)
     \/ phase = "finish" /\ local.position > Len(Members)
  /\ step_metrics' = IF config.driver = "harness" THEN Record ELSE step_metrics
  /\ phase' = "loop"
  /\ local' = [position |-> 1, decode_batch |-> NoDecodeBatch]
  /\ UNCHANGED <<request_state, kv_vars, config, cache>>

-----------------------------------------------------------------------------

Init ==
  /\ config \in Configs
  /\ request_state = [r \in Requests |-> NewRequest(config, r)]
  /\ phase = "initialize"
  /\ local = [position |-> 1, decode_batch |-> NoDecodeBatch]
  /\ cache = Pool!ZeroCache
  /\ step_metrics = << >>
  /\ KV!Init

Step ==
  \/ Initialize \/ BeginIteration \/ Build \/ HarnessAdvance \/ Ensure \/ Ensured
  \/ SyntheticDecodeStep \/ HFDecodeStep \/ Apply \/ EndIteration

Spec == Init /\ [][Step]_vars

-----------------------------------------------------------------------------
(* Properties *)

(* When attention runs, the tensors of the batch lead it, for each request, *)
(* to exactly the tokens that have K/V: the prompt and what was generated,  *)
(* not the pending token and not what the blocks held for their last owner. *)
AttendsToExistingTokens ==
  phase = "attended" /\ local.position = 1 =>
    LET batch == local.decode_batch
        rows  == TensorBlockTablesToLists(batch.block_tables)
    IN  \A i \in DOMAIN batch.request_ids :
          Pool!GatherKVForSequence(cache, 0, rows[i], batch.seq_lens[i])
            = [j \in 1 .. TokenPosition(batch.request_ids[i]) |->
                 Token(batch.request_ids[i], j - 1)]

(* The check made once in the beginning is enough: no request ever finds    *)
(* the pool empty, and in the end all blocks are back.                      *)
NeverShortOfBlocks ==
  /\ phase = "ensure" /\ local.position <= Len(Active) =>
       KV!CapacityAvailable(Active[local.position], TokenPosition(Active[local.position]))
  /\ phase = "attended" /\ config.driver = "harness"
       /\ local.position <= Len(local.decode_batch.request_ids) =>
       LET r == local.decode_batch.request_ids[local.position]
       IN  KV!CapacityAvailable(r, TokenPosition(r))
  /\ phase = "done" => KV!FreeBlockCount = TotalBlocks

(* Every engine counts a token once: in the end each request has exactly    *)
(* max_new_tokens, the cache of the runner holds what a prefill followed by *)
(* as many decode steps leaves, and the harness's figures add up.           *)
TokensCountedOnce ==
  phase = "done" =>
    /\ \A r \in Range(Members) :
         LET q == request_state[r]
         IN  /\ q.status = "finished" /\ q.generated_tokens = q.max_new_tokens
             /\ config.driver = "hf" =>
                  q.past_length = DecodeFromPrefill(Prefilled(NewRequest(config, r)),
                                                    q.max_new_tokens).past_length
             /\ config.driver = "synthetic" => q.num_computed_tokens = TokenPosition(r)
    /\ config.driver = "harness" =>
         /\ \A r \in Requests : Len(step_metrics) = config.max_new_tokens[r]
         /\ \A k \in DOMAIN step_metrics :
              /\ step_metrics[k].active_batch_size = config.batch_size
              /\ step_metrics[k].total_tokens_emitted = k * config.batch_size
         /\ Last(step_metrics).kv_used_blocks = 0

=============================================================================
