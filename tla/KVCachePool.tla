----------------------------- MODULE KVCachePool -----------------------------
(***************************************************************************)
(* runtime/kv_cache_layout.py, kv_cache_pool.py and kv_cache_transfer.py:  *)
(* the physical K/V cache, addressed by layer, physical block and offset   *)
(* in the block, and reached through block tables.  key_cache and          *)
(* value_cache are always written and read together, so one cell holds     *)
(* both; what it holds is abstracted to which token it was computed for.   *)
(*                                                                         *)
(* The operators are on cache values, not on a variable, because an engine *)
(* call makes many writes in one go: a call is the sequence of its writes, *)
(* of which all, or when it raises the first few, are carried out.         *)
(***************************************************************************)
EXTENDS Integers, SequencesExt

CONSTANTS
  Layers,        \* the layer ids, 0 .. num_layers - 1
  TotalBlocks,   \* total_blocks of the layout
  BlockSize      \* block_size_tokens of the layout

Cells == Layers \X (0 .. TotalBlocks - 1) \X (0 .. BlockSize - 1)

Empty == [zeroed |-> TRUE]   \* a cell since zero_(): no token's K/V

ZeroCache == [cell \in Cells |-> Empty]

LogicalBlock(token_position) == token_position \div BlockSize

(* Does locate_token return, rather than raise IndexError? *)
Locatable(block_table, token_position) ==
  /\ LogicalBlock(token_position) < Len(block_table)
  /\ block_table[LogicalBlock(token_position) + 1] \in 0 .. TotalBlocks - 1

(* <<physical_block_id, block_offset>> of a request's token. *)
LocateToken(block_table, token_position) ==
  <<block_table[LogicalBlock(token_position) + 1], token_position % BlockSize>>

CellOf(layer_id, block_table, token_position) ==
  LET location == LocateToken(block_table, token_position)
  IN  <<layer_id, location[1], location[2]>>

ReadRequestToken(cache, layer_id, block_table, token_position) ==
  cache[CellOf(layer_id, block_table, token_position)]

(* One call of write_request_token. *)
Write(layer_id, block_table, token_position, kv) ==
  [cell |-> CellOf(layer_id, block_table, token_position), kv |-> kv]

(* The cache after a sequence of writes. *)
AfterWrites(cache, writes) ==
  LET after[i \in 0 .. Len(writes)] ==
        IF i = 0 THEN cache
        ELSE [after[i - 1] EXCEPT ![writes[i].cell] = writes[i].kv]
  IN  after[Len(writes)]

(* write_past_key_values_to_pool: layer after layer, token after token.     *)
(* past_key_values has a sequence of K/V for each layer.                    *)
PastKeyValuesWrites(block_table, past_key_values, start_token_position) ==
  LET n == Len(past_key_values[1])
  IN  [i \in 1 .. Len(past_key_values) * n |->
         LET l == (i - 1) \div n
             t == (i - 1) % n
         IN  Write(l, block_table, start_token_position + t, past_key_values[l + 1][t + 1])]

(* write_last_token_past_key_values_to_pool: of a present cache the token    *)
(* that is new.                                                             *)
LastTokenWrites(block_table, past_key_values, token_position) ==
  [i \in 1 .. Len(past_key_values) |->
     Write(i - 1, block_table, token_position, past_key_values[i][token_position + 1])]

(* gather_kv_for_sequence: what attention reads for one sequence. *)
GatherKVForSequence(cache, layer_id, block_table, seq_len) ==
  [i \in 1 .. seq_len |-> ReadRequestToken(cache, layer_id, block_table, i - 1)]

(* gather_past_key_values_from_pool: the contiguous cache of a request. *)
GatherPastKeyValues(cache, block_table, seq_len) ==
  [i \in 1 .. Cardinality(Layers) |->
     GatherKVForSequence(cache, i - 1, block_table, seq_len)]

=============================================================================
