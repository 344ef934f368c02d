----------------------------- MODULE LlamaModel -----------------------------
(***************************************************************************)
(* engines/llama/model.py, cached_model.py and paged_model.py: the ways to *)
(* run the model, over whole sequences, with a contiguous cache of the     *)
(* request, and one token over the paged pool, of a request or of a batch. *)
(***************************************************************************)
EXTENDS LlamaLayers

CONSTANT VocabSize   \* tokens are 0 .. VocabSize - 1

EmbedTokens == 1
FinalNorm   == 2
LMHead      == 3

(* F.embedding *)
Embedding(input_ids) ==
  Vector([i \in DOMAIN input_ids |->
    Vector([j \in 1 .. HiddenSize |-> Weight(EmbedTokens, input_ids[i] + 1, j)])])

(* The last norm and lm_head, position by position. *)
Logits(hidden_states) ==
  Vector([i \in DOMAIN hidden_states |->
    LlamaLinear(LlamaRMSNorm(hidden_states[i], FinalNorm), LMHead, VocabSize)])

(* argmax of the logits of one position. *)
Argmax(logits) ==
  (CHOOSE i \in DOMAIN logits :
     \A j \in DOMAIN logits : logits[j] < logits[i] \/ (logits[j] = logits[i] /\ i <= j)) - 1

(* llama_model_forward: the logits of every position; after[l] is what the  *)
(* first l layers make of the input.                                        *)
LlamaModelForward(input_ids) ==
  LET after[l \in 0 .. NumHiddenLayers] ==
        IF l = 0 THEN Embedding(input_ids) ELSE DecoderLayer(after[l - 1], l - 1)
  IN  Logits(after[NumHiddenLayers])

(* past_key_values: for each layer the K/V of the first positions. *)
NoPast == [l \in 1 .. NumHiddenLayers |-> << >>]

(* llama_model_forward_with_kv_cache_from_hf_weights: input_ids are the     *)
(* positions after the past.                                                *)
LlamaModelForwardWithKVCache(input_ids, past_key_values) ==
  LET Layer(run, layer_id) ==
        [DecoderLayerWithKVCache(run.hidden_states, layer_id, past_key_values[layer_id + 1])
           EXCEPT !.present = Append(run.present, @)]
      after[l \in 0 .. NumHiddenLayers] ==
        IF l = 0 THEN [hidden_states |-> Embedding(input_ids), present |-> << >>]
        ELSE Layer(after[l - 1], l - 1)
      Result(run) ==
        [logits |-> Logits(run.hidden_states), present_key_values |-> run.present]
  IN  Result(after[NumHiddenLayers])

(* What both paged models return. *)
PagedResult(run) == [logits |-> Logits(run.hidden_states), cache |-> run.cache]

(* llama_model_decode_with_paged_attention_from_hf_weights: one token.      *)
PagedDecode(input_id, token_position, block_table, seq_len, cache) ==
  LET Layer(run, layer_id) ==
        [DecoderLayerPaged(run.hidden_states[1], layer_id, token_position, block_table,
                           seq_len, run.cache)
           EXCEPT !.hidden_states = <<@>>]
      after[l \in 0 .. NumHiddenLayers] ==
        IF l = 0 THEN [hidden_states |-> Embedding(<<input_id>>), cache |-> cache]
        ELSE Layer(after[l - 1], l - 1)
  IN  PagedResult(after[NumHiddenLayers])

(* llama_model_decode_batch_with_paged_attention_from_hf_weights: one token *)
(* of each request.                                                         *)
PagedDecodeBatch(input_ids, batch, cache) ==
  LET Layer(run, layer_id) ==
        DecoderLayerBatchPaged(run.hidden_states, layer_id, batch, run.cache)
      after[l \in 0 .. NumHiddenLayers] ==
        IF l = 0 THEN [hidden_states |-> Embedding(input_ids), cache |-> cache]
        ELSE Layer(after[l - 1], l - 1)
  IN  PagedResult(after[NumHiddenLayers])

=============================================================================
