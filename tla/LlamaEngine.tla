----------------------------- MODULE LlamaEngine -----------------------------
(***************************************************************************)
(* engines/llama/custom_llama_decode_engine.py with the arithmetic of its  *)
(* model: prompts are computed in the chunks of the scheduler's work plan, *)
(* on a contiguous cache of the request, whose new part goes to the paged  *)
(* pool; after the last chunk tokens are decoded in batches from the pool. *)
(*                                                                         *)
(* The requests are 1 .. N in slot order; the scheduler is reduced to what *)
(* it asks of the engine: a plan of chunks under a token budget, and then  *)
(* any batch of the requests that decode, since stalls and the decode      *)
(* policy may leave out some of them.                                      *)
(***************************************************************************)
EXTENDS LlamaModel, SchedulerWorkPlan

CONSTANTS
  N,              \* bound: number of requests
  Prompts,        \* the prompts a request may have: sequences of tokens
  Budgets,        \* what max_scheduled_tokens_per_step may be
  MaxNewTokens,   \* max_new_tokens of every request
  EosTokenId,     \* eos_token_id of the tokenizer
  BlockTable(_, _)   \* blocks of a request, and how many of them

ASSUME LlamaShapeAssumption ==
  /\ NumHiddenLayers \in Nat \ {0}
  /\ NumKeyValueHeads \in Nat \ {0}
  /\ NumAttentionHeads % NumKeyValueHeads = 0

ASSUME LlamaWorkAssumption ==
  /\ N \in Nat
  /\ Prompts \subseteq Seq(Nat)
  /\ Unlimited \notin Nat
  /\ Budgets \subseteq Nat \cup {Unlimited}

VARIABLES
  budget,          \* max_scheduled_tokens_per_step, or Unlimited
  chunked,         \* prefill by prefill_chunk, or by prefill_request?
  request_state,   \* the RequestState of each request
  cache,           \* the KVCachePool
  phase,           \* where in a scheduler step the engine is
  work_plan,       \* what is left of the step's prefill work
  steps,           \* scheduler steps planned so far
  summary,         \* SummarizeWorkPlan of the last candidate plan
  planned,         \* prefill tokens of all plans so far
  expected         \* tokens and K/V of each request by the full forward

vars == <<budget, chunked, request_state, cache, phase, work_plan, steps, summary,
          planned, expected>>

Requests == 1 .. N

NewRequestState(prompt, block_table) ==
  [status |-> "prefill", input_ids |-> prompt, prompt_tokens |-> Len(prompt),
   num_computed_tokens |-> 0, generated_tokens |-> 0, next_token |-> NoToken,
   past_key_values |-> NoPast, block_table |-> block_table]

PrefillTokensRemaining(r) ==
  request_state[r].prompt_tokens - request_state[r].num_computed_tokens

InStatus(status) ==
  InOrder([r \in Requests |-> r], {r \in Requests : request_state[r].status = status})

(* What the cache holds before a block was used for these requests. *)
Stale == [key   |-> [h \in 1 .. NumKeyValueHeads |-> <<1, 1>>],
          value |-> [h \in 1 .. NumKeyValueHeads |-> <<1, 1>>]]

Ends(token, generated_tokens) ==
  token = EosTokenId \/ generated_tokens >= MaxNewTokens

(* Greedy generation by the full forward over the whole sequence, as the    *)
(* tests of the engine compute it, and the K/V of all these tokens.         *)
Greedy(prompt) ==
  LET Continue(ids) ==
        IF Len(ids) > Len(prompt) /\ Last(ids) = EosTokenId THEN ids
        ELSE Append(ids, Argmax(Last(LlamaModelForward(ids))))
      after[n \in 0 .. MaxNewTokens] == IF n = 0 THEN prompt ELSE Continue(after[n - 1])
      Result(ids) ==
        [ids |-> ids, kv |-> LlamaModelForwardWithKVCache(ids, NoPast).present_key_values]
  IN  Result(after[MaxNewTokens])

-----------------------------------------------------------------------------

Plan ==
  LET remaining == [r \in Requests |-> PrefillTokensRemaining(r)]
      plan == BuildCandidateWorkPlan(InStatus("prefill"), InStatus("decoding"),
                                     remaining, budget)
  IN  /\ phase = "plan"
      /\ InStatus("prefill") \o InStatus("decoding") # << >>
      /\ work_plan' = WorkOfKind(plan, "prefill")
      /\ summary' = SummarizeWorkPlan(plan)
      /\ planned' = planned + summary'.prefill_scheduled_tokens
      /\ steps' = steps + 1
      /\ phase' = "prefill"
      /\ UNCHANGED <<budget, chunked, request_state, cache, expected>>

(* What is known of a request when its prompt is computed up to `end`. *)
Computed(q, end, logits, past_key_values) ==
  LET complete == end = q.prompt_tokens
  IN  [q EXCEPT !.num_computed_tokens = end,
                !.past_key_values = IF complete THEN NoPast ELSE past_key_values,
                !.next_token = IF complete THEN Argmax(Last(logits)) ELSE NoToken,
                !.status = IF complete THEN "decoding" ELSE "prefill"]

(* Wrong variant (used by no specification): the whole present cache.       *)
SliceAll(past_key_values, start, end) == past_key_values

(* _slice_new_past_key_values *)
SliceNew(past_key_values, start, end) ==
  [l \in DOMAIN past_key_values |-> SubSeq(past_key_values[l], start + 1, end)]

(* What a prefill leaves when the model computed the positions of q after   *)
(* `start`, up to `end`, and their K/V is `new`.                            *)
Prefilled(r, start, end, run, new, past_key_values) ==
  /\ cache' = Pool!AfterWrites(cache,
                Pool!PastKeyValuesWrites(request_state[r].block_table, new, start))
  /\ request_state' = [request_state EXCEPT ![r] =
       Computed(@, end, run.logits, past_key_values)]

(* prefill_chunk, and the scheduler's mark_decoding after the last one. *)
PrefillChunk(r, num_tokens) ==
  LET q     == request_state[r]
      start == q.num_computed_tokens
      end   == Min({start + num_tokens, q.prompt_tokens})
      Finish(run) ==
        Prefilled(r, start, end, run, SliceNew(run.present_key_values, start, end),
                  run.present_key_values)
  IN  IF end <= start
      THEN UNCHANGED <<request_state, cache>>
      ELSE Finish(LlamaModelForwardWithKVCache(SubSeq(q.input_ids, start + 1, end),
                                               q.past_key_values))

(* prefill_request: the whole prompt, whatever the plan says. *)
PrefillRequest(r) ==
  LET q == request_state[r]
      Finish(run) ==
        Prefilled(r, 0, q.prompt_tokens, run, run.present_key_values, NoPast)
  IN  Finish(LlamaModelForwardWithKVCache(q.input_ids, NoPast))

Prefill ==
  /\ phase = "prefill" /\ work_plan # << >>
  /\ IF chunked
     THEN PrefillChunk(Head(work_plan).request_state, Head(work_plan).num_scheduled_tokens)
     ELSE PrefillRequest(Head(work_plan).request_state)
  /\ work_plan' = Tail(work_plan)
  /\ UNCHANGED <<budget, chunked, phase, steps, summary, planned, expected>>

PrefillDone ==
  /\ phase = "prefill" /\ work_plan = << >>
  /\ phase' = IF InStatus("decoding") = << >> THEN "plan" ELSE "decode"
  /\ UNCHANGED <<budget, chunked, request_state, cache, work_plan, steps, summary,
                 planned, expected>>

TokenPosition(r) == request_state[r].prompt_tokens + request_state[r].generated_tokens

(* What decode_step hands to the model for a batch. *)
BatchOf(requests) ==
  LET tables == [i \in DOMAIN requests |-> request_state[requests[i]].block_table]
  IN  [token_positions     |-> [i \in DOMAIN requests |-> TokenPosition(requests[i])],
       block_tables        |-> tables,
       block_tables_tensor |-> PaddedTables(tables),
       seq_lens            |-> [i \in DOMAIN requests |-> TokenPosition(requests[i]) + 1]]

NextTokens(requests) ==
  [i \in DOMAIN requests |-> request_state[requests[i]].next_token]

(* A request after its pending token was emitted and the next one computed. *)
Decoded(q, logits) ==
  LET generated == q.generated_tokens + 1
      finished  == Ends(q.next_token, generated)
  IN  [q EXCEPT !.input_ids = Append(@, q.next_token),
                !.generated_tokens = generated,
                !.next_token = IF finished THEN NoToken ELSE Argmax(logits),
                !.status = IF finished THEN "finished" ELSE "decoding"]

(* decode_step for the requests in `batch`, in slot order. *)
DecodeStep(batch) ==
  LET requests == InOrder(InStatus("decoding"), batch)
      Row(r) == CHOOSE i \in DOMAIN requests : requests[i] = r
      Finish(run) ==
        /\ cache' = run.cache
        /\ request_state' = [r \in Requests |->
             IF r \in batch THEN Decoded(request_state[r], run.logits[Row(r)])
             ELSE request_state[r]]
  IN  /\ phase = "decode"
      /\ Finish(PagedDecodeBatch(NextTokens(requests), BatchOf(requests), cache))
      /\ phase' = "plan"
      /\ UNCHANGED <<budget, chunked, work_plan, steps, summary, planned, expected>>

Init ==
  /\ budget \in Budgets
  /\ chunked \in (IF budget = Unlimited THEN BOOLEAN ELSE {TRUE})
  /\ \E prompts \in [Requests -> Prompts] :
       /\ request_state = [r \in Requests |->
            NewRequestState(prompts[r],
              BlockTable(r, (Len(prompts[r]) + MaxNewTokens + BlockSize - 1) \div BlockSize))]
       /\ expected = [r \in Requests |-> Greedy(prompts[r])]
  /\ cache = [cell \in Pool!Cells |-> Stale]
  /\ phase = "plan"
  /\ work_plan = << >>
  /\ steps = 0
  /\ summary = SummarizeWorkPlan(<< >>)
  /\ planned = 0

Next ==
  \/ Plan \/ Prefill \/ PrefillDone
  \/ \E batch \in (SUBSET Range(InStatus("decoding"))) \ {{}} : DecodeStep(batch)

Spec == Init /\ [][Next]_vars

-----------------------------------------------------------------------------
(* Properties *)

(* Whatever the chunks, the batches and the order of the work, a request    *)
(* generates the tokens that the full forward over its whole sequence       *)
(* generates, and no more.                                                  *)
GeneratesGreedily ==
  \A r \in Requests :
    LET q   == request_state[r]
        ids == expected[r].ids
    IN  /\ IsPrefix(q.input_ids, ids)
        /\ q.next_token # NoToken => q.next_token = ids[Len(q.input_ids) + 1]
        /\ q.status = "finished" => q.input_ids = ids

(* The K/V of every computed position, in every layer, is what the full     *)
(* forward computes for it: in the pool, where other requests' blocks are   *)
(* written in between, and in the contiguous cache during prefill, which is *)
(* dropped with the last chunk.                                             *)
CachesHoldFullForward ==
  \A r \in Requests :
    LET q == request_state[r]
        First(n) == [l \in 1 .. NumHiddenLayers |-> SubSeq(expected[r].kv[l], 1, n)]
        computed == q.num_computed_tokens + q.generated_tokens
    IN  /\ Pool!GatherPastKeyValues(cache, q.block_table, computed) = First(computed)
        /\ q.past_key_values = IF q.status = "prefill" /\ chunked THEN First(computed)
                               ELSE NoPast

(* For the next token of a request the four ways of running the model       *)
(* agree: over the whole sequence, with the contiguous cache gathered from  *)
(* the pool, paged and alone, and paged in a batch with all others; and the *)
(* third leaves in the pool what the second would write back.               *)
DecodePathsAgree ==
  LET requests == InStatus("decoding")
      Agree(q, position, full, cached, paged, batched_logits) ==
        /\ {cached.logits[1], paged.logits[1], batched_logits} = {Last(full)}
        /\ paged.cache = Pool!AfterWrites(cache,
             Pool!LastTokenWrites(q.block_table, cached.present_key_values, position))
      AgreesWith(batched) ==
        \A i \in DOMAIN requests :
          LET q        == request_state[requests[i]]
              position == TokenPosition(requests[i])
          IN  Agree(q, position,
                    LlamaModelForward(Append(q.input_ids, q.next_token)),
                    LlamaModelForwardWithKVCache(<<q.next_token>>,
                      Pool!GatherPastKeyValues(cache, q.block_table, position)),
                    PagedDecode(q.next_token, position, q.block_table, position + 1, cache),
                    batched.logits[i])
  IN  phase = "decode" =>
        AgreesWith(PagedDecodeBatch(NextTokens(requests), BatchOf(requests), cache))

PromptTokens    == SumFunction([r \in Requests |-> request_state[r].prompt_tokens])
RemainingTokens == SumFunction([r \in Requests |-> PrefillTokensRemaining(r)])

(* What the budget allows, against the closed form: after k steps exactly   *)
(* min(k * budget, all prompt tokens) tokens are prefilled. Less would      *)
(* waste the budget, more would let long prompts hold up the decode work.   *)
BudgetSpentExactly ==
  PromptTokens - RemainingTokens =
    IF steps = 0 THEN 0
    ELSE IF budget = Unlimited \/ steps * budget >= PromptTokens THEN PromptTokens
    ELSE steps * budget

(* Prompts are prefilled in slot order: a request makes progress only when  *)
(* every earlier one is complete, so at most one contiguous cache is alive. *)
SlotOrder ==
  \A r, q \in Requests :
    q < r /\ request_state[r].num_computed_tokens > 0 => PrefillTokensRemaining(q) = 0

(* Between the steps' prefills the budget was spent exactly and in slot     *)
(* order, and the plans' summaries, kept for observability, tell of exactly *)
(* the tokens that were computed.                                           *)
PlansSpendTheBudget ==
  /\ phase = "plan" => BudgetSpentExactly
  /\ phase # "prefill" => planned = PromptTokens - RemainingTokens
  /\ summary.num_work_items = summary.num_prefill_items + summary.num_decode_items
  /\ SlotOrder

=============================================================================
