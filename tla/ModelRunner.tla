----------------------------- MODULE ModelRunner -----------------------------
(***************************************************************************)
(* engines/model_runner.py: what a Hugging Face model does to a request,   *)
(* alone or in a batch of left-padded prompts.  Of the model's tensors the *)
(* lengths matter: of the cache, and of what the attention mask shows.     *)
(***************************************************************************)
EXTENDS RequestState

(* count_prompt_tokens: the length of the tokenized prompt. *)
CountPromptTokens(q) == q.prompt

(* prefill and init_request_state: the whole prompt is computed. *)
Prefilled(q) ==
  MarkDecoding([q EXCEPT !.prompt_tokens = CountPromptTokens(q),
                         !.past_length = CountPromptTokens(q)])

(* decode_one_token: the pending token is emitted and computed, and counted. *)
Emitted(q) == [q EXCEPT !.past_length = @ + 1, !.generated_tokens = @ + 1]

(* batch_state None. Of the tensors: the length of the shared cache and, for *)
(* each row, how many of its positions the attention mask shows.            *)
NoBatch == [past_length |-> 0, mask |-> << >>]

(* Wrong variant (used by no specification): the padding is not masked.     *)
BatchPrefilledUnmasked(qs) ==
  LET longest == Max({CountPromptTokens(qs[i]) : i \in DOMAIN qs})
  IN  [past_length |-> longest, mask |-> [i \in DOMAIN qs |-> longest]]

(* init_batch_request_states: prompts are padded on the left to the longest; *)
(* a row's mask shows its own tokens.                                       *)
BatchPrefilled(qs) ==
  LET Tokens(i) == CountPromptTokens(qs[i])
  IN  [past_length |-> Max({Tokens(i) : i \in DOMAIN qs}),
       mask        |-> [i \in DOMAIN qs |-> Tokens(i)]]

InBatchPrefilled(q) == MarkDecoding([q EXCEPT !.prompt_tokens = CountPromptTokens(q)])

(* decode_one_token_batch: every row emits its pending token, and the cache *)
(* and every mask grow by one.                                              *)
BatchDecoded(batch_state) ==
  [past_length |-> batch_state.past_length + 1,
   mask        |-> [i \in DOMAIN batch_state.mask |-> batch_state.mask[i] + 1]]

(* decode_from_prefill: as many steps as asked for; nothing ends early. *)
DecodeFromPrefill(q, max_new_tokens) ==
  LET after[i \in 0 .. max_new_tokens] == IF i = 0 THEN q ELSE Emitted(after[i - 1])
  IN  after[max_new_tokens]

=============================================================================
