----------------------------- MODULE LlamaLayers -----------------------------
(***************************************************************************)
(* The layers of engines/llama: rmsnorm.py, projections.py, rope.py,       *)
(* mlp.py, attention.py, layer.py, cached_layer.py and paged_layer.py.     *)
(*                                                                         *)
(* Numbers are integers modulo a prime.  Sums, products and the shapes of  *)
(* tensors are the code's; the weights are arbitrary, and the functions    *)
(* that do not exist modulo a prime (square root, exponential, sigmoid,    *)
(* division) are replaced by arbitrary ones.  Two computations that agree  *)
(* here take the same numbers to the same places, up to the order of sums, *)
(* and what rounding does to them is left out.                             *)
(*                                                                         *)
(* A hidden state is a vector; hidden_states the sequence of those of the  *)
(* positions of one request, or of one position of each request of a       *)
(* batch.  A head is a vector of HeadDim numbers.                          *)
(***************************************************************************)
EXTENDS DecodeBatch

CONSTANTS
  NumHiddenLayers,     \* num_hidden_layers
  NumAttentionHeads,   \* num_attention_heads
  NumKeyValueHeads,    \* num_key_value_heads
  TotalBlocks,         \* total_blocks of the K/V cache
  BlockSize            \* block_size_tokens of the K/V cache

HeadDim == 2   \* the rotary embedding pairs the halves of a head

HiddenSize == NumAttentionHeads * HeadDim

IntermediateSize == 3   \* of the MLP

Groups == NumAttentionHeads \div NumKeyValueHeads

Layers == 0 .. NumHiddenLayers - 1

Pool == INSTANCE KVCachePool

-----------------------------------------------------------------------------
(* Arithmetic *)

Prime == 32749

(* The sequence itself; concatenation makes TLC compute each entry once.    *)
Vector(entries) == entries \o << >>

Sum(terms) ==
  LET first[i \in 0 .. Len(terms)] ==
        IF i = 0 THEN 0 ELSE (first[i - 1] + terms[i]) % Prime
  IN  first[Len(terms)]

Dot(x, y) == Sum(Vector([i \in DOMAIN x |-> x[i] * y[i]]))

Add(x, y) == Vector([i \in DOMAIN x |-> (x[i] + y[i]) % Prime])

(* Stands for the functions that do not exist modulo a prime; `which` tells *)
(* them apart.                                                              *)
Apply(which, x) == (x * x + which * x + 3 * which) % Prime

Exp(x)        == Apply(5, x)
Reciprocal(x) == Apply(7, x)
Rsqrt(x)      == Apply(11, x)
Sigmoid(x)    == Apply(13, x)

(* The element of a weight; the weights are numbered: those of a layer, and *)
(* the three of the model around the layers.                                *)
Weight(weight, i, j) == (weight * (i + 3) + (i + weight) * j * j + 7 * j + 1) % Prime

LayerWeight(layer_id, name) ==
  100 * (layer_id + 1)
    + [input_layernorm |-> 1, q_proj |-> 2, k_proj |-> 3, v_proj |-> 4, o_proj |-> 5,
       post_attention_layernorm |-> 6, gate_proj |-> 7, up_proj |-> 8,
       down_proj |-> 9][name]

-----------------------------------------------------------------------------
(* rmsnorm.py, projections.py, mlp.py, rope.py *)

LlamaRMSNorm(x, weight) ==
  LET scale == Rsqrt(Dot(x, x))
  IN  Vector([i \in DOMAIN x |->
        (((x[i] * scale) % Prime) * Weight(weight, i, 0)) % Prime])

LlamaLinear(x, weight, out_features) ==
  Vector([i \in 1 .. out_features |-> Dot(x, [j \in DOMAIN x |-> Weight(weight, i, j)])])

LlamaSwiGLUMLP(x, layer_id) ==
  LET gate == LlamaLinear(x, LayerWeight(layer_id, "gate_proj"), IntermediateSize)
      up   == LlamaLinear(x, LayerWeight(layer_id, "up_proj"), IntermediateSize)
      activated == Vector([i \in 1 .. IntermediateSize |->
                     (((gate[i] * Sigmoid(gate[i])) % Prime) * up[i]) % Prime])
  IN  LlamaLinear(activated, LayerWeight(layer_id, "down_proj"), HiddenSize)

(* view(..., num_heads, head_dim) of the vector of one position. *)
ReshapeForAttention(x, num_heads) ==
  Vector([h \in 1 .. num_heads |-> SubSeq(x, (h - 1) * HeadDim + 1, h * HeadDim)])

(* merge_attention_heads *)
MergeAttentionHeads(heads) == FlattenSeq(heads)

ProjectQKV(x, layer_id) ==
  [q |-> ReshapeForAttention(
           LlamaLinear(x, LayerWeight(layer_id, "q_proj"), HiddenSize), NumAttentionHeads),
   k |-> ReshapeForAttention(
           LlamaLinear(x, LayerWeight(layer_id, "k_proj"), NumKeyValueHeads * HeadDim),
           NumKeyValueHeads),
   v |-> ReshapeForAttention(
           LlamaLinear(x, LayerWeight(layer_id, "v_proj"), NumKeyValueHeads * HeadDim),
           NumKeyValueHeads)]

(* model.rotary_emb: the angle of a position is the same in both halves. *)
Cos(position) == Apply(17, position + 1)
Sin(position) == Apply(19, position + 1)

RotateHalf(x) == <<(Prime - x[2]) % Prime, x[1]>>

Rotate(x, position) ==
  Vector([d \in 1 .. HeadDim |->
    (x[d] * Cos(position) + ((RotateHalf(x)[d] * Sin(position)) % Prime)) % Prime])

ApplyLlamaRope(heads, position) ==
  Vector([h \in DOMAIN heads |-> Rotate(heads[h], position)])

-----------------------------------------------------------------------------
(* attention.py, and the reference of runtime/paged_attention_reference.py *)

(* repeat_kv: the K/V head that a query head uses, after expand and reshape. *)
RepeatKV(head) == ((head - 1) \div Groups) + 1

(* repeat_kv_heads_for_query_heads: repeat_interleave of the K/V heads.     *)
RepeatKVHeads == FlattenSeq([h \in 1 .. NumKeyValueHeads |-> [i \in 1 .. Groups |-> h]])

(* Attention of one query head over the keys and values that the mask leaves *)
(* visible: a masked score is the least number, and its exponential is 0.   *)
Softmax(q, keys, values, visible) ==
  LET weight == Vector([j \in DOMAIN keys |->
                  IF j \in visible THEN Exp(Dot(q, keys[j])) ELSE 0])
      norm   == Reciprocal(Sum(weight))
  IN  Vector([d \in 1 .. HeadDim |->
        (Dot(weight, [j \in DOMAIN values |-> values[j][d]]) * norm) % Prime])

(* All query heads of one position, each on its K/V head. *)
Attention(q, kv, kv_head, visible) ==
  Vector([h \in 1 .. NumAttentionHeads |->
    Softmax(q[h], [j \in DOMAIN kv |-> kv[j].key[kv_head[h]]],
            [j \in DOMAIN kv |-> kv[j].value[kv_head[h]]], visible)])

(* llama_attention, and llama_attention_with_kv_cache on the present cache. *)
LlamaAttention(q, kv, visible) ==
  Attention(q, kv, [head \in 1 .. NumAttentionHeads |-> RepeatKV(head)], visible)

(* build_causal_mask: what triu(diagonal=1) leaves visible. *)
CausalMask(query_index, key_index) == key_index <= query_index

(* Wrong variant (used by no specification): the mask of a prefill from the *)
(* start, also in a later chunk.                                            *)
DecodeMaskWithoutPast(past_len, query_index, key_index) == key_index <= query_index

(* build_decode_attention_mask *)
DecodeAttentionMask(past_len, query_index, key_index) ==
  key_index <= past_len + query_index

(* paged_attention_decode_reference: one sequence. *)
PagedAttentionDecodeReference(q, cache, layer_id, block_table, seq_len) ==
  Attention(q, Pool!GatherKVForSequence(cache, layer_id, block_table, seq_len),
            RepeatKVHeads, 1 .. seq_len)

(* paged_attention_decode_batch_reference *)
PagedAttentionDecodeBatchReference(q, cache, layer_id, block_tables, seq_lens) ==
  Vector([i \in DOMAIN q |->
    PagedAttentionDecodeReference(q[i], cache, layer_id, block_tables[i], seq_lens[i])])

(* decode of the reference backend. *)
BackendDecode(q, cache, layer_id, block_tables, seq_lens) ==
  PagedAttentionDecodeBatchReference(q, cache, layer_id,
    TensorBlockTablesToLists(block_tables), seq_lens)

-----------------------------------------------------------------------------
(* layer.py, cached_layer.py, paged_layer.py: before and after attention    *)
(* the three kinds of layer do the same, position by position.              *)

BeforeAttention(x, layer_id, position) ==
  LET qkv == ProjectQKV(LlamaRMSNorm(x, LayerWeight(layer_id, "input_layernorm")), layer_id)
  IN  [q  |-> ApplyLlamaRope(qkv.q, position),
       kv |-> [key |-> ApplyLlamaRope(qkv.k, position), value |-> qkv.v]]

(* The heads merged and projected. *)
OutputProjection(heads, layer_id) ==
  LlamaLinear(MergeAttentionHeads(heads), LayerWeight(layer_id, "o_proj"), HiddenSize)

AfterAttention(residual, heads, layer_id) ==
  LET x == Add(residual, OutputProjection(heads, layer_id))
  IN  Add(x, LlamaSwiGLUMLP(
               LlamaRMSNorm(x, LayerWeight(layer_id, "post_attention_layernorm")), layer_id))

(* What every position has before attention; the first is at past_len. *)
Projected(hidden_states, layer_id, past_len) ==
  Vector([i \in DOMAIN hidden_states |->
    BeforeAttention(hidden_states[i], layer_id, past_len + i - 1)])

KVOf(projected) == Vector([i \in DOMAIN projected |-> projected[i].kv])

(* llama_decoder_layer_forward *)
DecoderLayer(hidden_states, layer_id) ==
  LET Outputs(projected) ==
        Vector([i \in DOMAIN hidden_states |->
          AfterAttention(hidden_states[i],
            LlamaAttention(projected[i].q, KVOf(projected),
              {j \in DOMAIN hidden_states : CausalMask(i - 1, j - 1)}),
            layer_id)])
  IN  Outputs(Projected(hidden_states, layer_id, 0))

(* concat_past_key_value *)
Present(past, kv) == past \o kv

(* llama_decoder_layer_forward_with_kv_cache *)
DecoderLayerWithKVCache(hidden_states, layer_id, past) ==
  LET Visible(i) == {j \in 1 .. Len(past) + Len(hidden_states) :
                       DecodeAttentionMask(Len(past), i - 1, j - 1)}
      Outputs(projected, present) ==
        [hidden_states |-> Vector([i \in DOMAIN hidden_states |->
           AfterAttention(hidden_states[i],
             LlamaAttention(projected[i].q, present, Visible(i)), layer_id)]),
         present |-> present]
      Attend(projected) == Outputs(projected, Present(past, KVOf(projected)))
  IN  Attend(Projected(hidden_states, layer_id, Len(past)))

(* Wrong variant (used by no specification): attention comes first. *)
SeenBeforeWriting(cache, written) == cache

(* The cache that attention reads. *)
SeenByAttention(cache, written) == written

(* llama_decoder_layer_forward_with_paged_attention: one request alone; its *)
(* K/V is written to the pool before it attends.                            *)
DecoderLayerPaged(x, layer_id, token_position, block_table, seq_len, cache) ==
  LET Attend(projected, written) ==
        LET heads == BackendDecode(<<projected.q>>, SeenByAttention(cache, written),
                                   layer_id, PaddedTables(<<block_table>>), <<seq_len>>)
        IN  [hidden_states |-> AfterAttention(x, heads[1], layer_id), cache |-> written]
      WriteAndAttend(projected) ==
        Attend(projected, Pool!AfterWrites(cache,
          <<Pool!Write(layer_id, block_table, token_position, projected.kv)>>))
  IN  WriteAndAttend(BeforeAttention(x, layer_id, token_position))

(* llama_decoder_layer_forward_batch_with_paged_attention: the K/V of all   *)
(* rows is written before any row attends.                                  *)
DecoderLayerBatchPaged(hidden_states, layer_id, batch, cache) ==
  LET rows == DOMAIN hidden_states
      Attend(projected, written) ==
        LET heads == BackendDecode([i \in rows |-> projected[i].q],
                       SeenByAttention(cache, written), layer_id,
                       batch.block_tables_tensor, batch.seq_lens)
        IN  [hidden_states |-> Vector([i \in rows |->
                                 AfterAttention(hidden_states[i], heads[i], layer_id)]),
             cache         |-> written]
      WriteAndAttend(projected) ==
        Attend(projected, Pool!AfterWrites(cache, Vector([i \in rows |->
          Pool!Write(layer_id, batch.block_tables[i], batch.token_positions[i],
                     projected[i].kv)])))
  IN  WriteAndAttend(Vector([i \in rows |->
        BeforeAttention(hidden_states[i], layer_id, batch.token_positions[i])]))

=============================================================================
