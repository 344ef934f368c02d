----------------------- MODULE PagedAttentionReference -----------------------
(***************************************************************************)
(* What decode attention computes for one query head of one sequence,      *)
(* after runtime/paged_attention_reference.py, with symbolic numbers: a    *)
(* product is the pair of addresses it multiplies, a sum the bag of its    *)
(* terms, a maximum the set of what it is taken over.  Scaling and the     *)
(* conversions of half floats, which touch every number alike, are left    *)
(* out.                                                                    *)
(***************************************************************************)
EXTENDS Integers, Bags, Sequences, SequencesExt

CONSTANTS
  LayerId,       \* layer_id
  NumBlocks,     \* num_blocks
  BlockSize,     \* block_size
  NumQueryHeads, \* num_query_heads
  NumKVHeads,    \* num_kv_heads
  HeadDim,       \* head_dim
  BlockTables    \* a row of physical blocks for each sequence, padded with -1

Dims == 0 .. HeadDim - 1

(* The element of a contiguous tensor of the shape at the index: what q[i,   *)
(* j], key_cache[l, b, o, h] and so on mean.                                *)
Element(shape, index) ==
  FoldLeft(LAMBDA element, i : element * shape[i] + index[i], 0,
           [i \in 1 .. Len(shape) |-> i])

QueryShape == <<Len(BlockTables), NumQueryHeads, HeadDim>>
CacheShape == <<LayerId + 1, NumBlocks, BlockSize, NumKVHeads, HeadDim>>

(* repeat_interleave: each K/V head serves so many query heads in a row. *)
KVHead(query_head) == query_head \div (NumQueryHeads \div NumKVHeads)

KVElement(sequence, query_head, token, d) ==
  Element(CacheShape,
    <<LayerId, BlockTables[sequence + 1][(token \div BlockSize) + 1],
      token % BlockSize, KVHead(query_head), d>>)

(* One entry of einsum("hd,shd->hs", q, keys). *)
Score(sequence, query_head, token) ==
  SetToBag({<<Element(QueryShape, <<sequence, query_head, d>>),
              KVElement(sequence, query_head, token, d)>> : d \in Dims})

Scores(sequence, query_head, seq_len) ==
  {Score(sequence, query_head, token) : token \in 0 .. seq_len - 1}

(* One entry of softmax(scores, dim=-1): its score, the maximum, and the    *)
(* terms of the denominator.                                               *)
Exp(score, max) == [score |-> score, max |-> max]

Prob(score, scores) ==
  [exp |-> Exp(score, scores), denom |-> SetToBag({Exp(s, scores) : s \in scores})]

(* One entry of einsum("hs,shd->hd", probs, values). *)
Output(sequence, query_head, seq_len, d) ==
  LET scores == Scores(sequence, query_head, seq_len)
  IN  SetToBag({[prob  |-> Prob(Score(sequence, query_head, token), scores),
                 value |-> KVElement(sequence, query_head, token, d)]
                  : token \in 0 .. seq_len - 1})

=============================================================================
