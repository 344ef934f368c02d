----------------------------- MODULE DecodeBatch -----------------------------
(***************************************************************************)
(* runtime/decode_batch.py and the table handling of                       *)
(* runtime/attention_backend.py: the tensors that describe one decode      *)
(* iteration to an attention backend, and how the reference backend takes  *)
(* them apart again.  Requests are RequestState records, with next_token   *)
(* NoToken before there is one.                                            *)
(***************************************************************************)
EXTENDS Integers, SequencesExt, Selection

NoToken == -1   \* next_token is None

Padding == -1   \* fills a row of a block_tables tensor

(* One row for each table, as long as the longest. *)
PaddedTables(block_tables) ==
  LET longest == Max({0} \cup {Len(block_tables[i]) : i \in DOMAIN block_tables})
  IN  [i \in DOMAIN block_tables |->
         block_tables[i] \o [j \in 1 .. longest - Len(block_tables[i]) |-> Padding]]

(* _tensor_block_tables_to_lists: the entries of a row that name a block. *)
TensorBlockTablesToLists(tensor) ==
  [i \in DOMAIN tensor |-> InOrder(tensor[i], Nat)]

(* The members of `requests` that are not finished. *)
ActiveRequests(requests, request_state) ==
  InOrder(requests, {r \in Range(requests) : request_state[r].status # "finished"})

(* Does build_decode_batch return, rather than raise ValueError? *)
Buildable(requests, request_state) ==
  \A r \in Range(ActiveRequests(requests, request_state)) :
    request_state[r].next_token # NoToken

(* build_decode_batch: attention sees the tokens that have K/V; that of the  *)
(* pending token is written at `positions` after the step.                  *)
BuildDecodeBatch(requests, request_state, block_tables) ==
  LET active == ActiveRequests(requests, request_state)
      position == [i \in DOMAIN active |-> request_state[active[i]].prompt_tokens
                                             + request_state[active[i]].generated_tokens]
  IN  [request_ids     |-> active,
       input_token_ids |-> [i \in DOMAIN active |-> request_state[active[i]].next_token],
       positions       |-> position,
       seq_lens        |-> position,
       block_tables    |-> PaddedTables([i \in DOMAIN active |-> block_tables[active[i]]])]

=============================================================================
