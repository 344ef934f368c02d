---------------------------- MODULE PagedServing ----------------------------
(***************************************************************************)
(* The scheduler together with the physical K/V cache of                   *)
(* CustomLlamaDecodeEngine: prefill_chunk writes the chunk's K/V through   *)
(* the block table copy of the RequestState, decode_step writes the K/V of *)
(* each request's new token, layer by layer, and in each layer lets        *)
(* attention read all tokens of each sequence through the padded           *)
(* block_tables tensor.  Blocks are reused without being cleared.          *)
(***************************************************************************)
EXTENDS EngineScheduler

CONSTANT Layers   \* the layer ids, from 0

ASSUME LayersAssumption ==
  IsFiniteSet(Layers) /\ Layers # {} /\ Layers = 0 .. Cardinality(Layers) - 1

VARIABLE cache    \* the KVCachePool

serving_vars == <<vars, cache>>

Pool == INSTANCE KVCachePool

(* What is computed for the token of r at a position. *)
Token(r, position) == [request_state |-> r, token_position |-> position]

-----------------------------------------------------------------------------

(* What a chunk computes, alike in every layer. *)
ComputedTokens(r, start, end) ==
  [l \in 1 .. Cardinality(Layers) |->
     [i \in 1 .. end - start |-> Token(r, start + i - 1)]]

(* Wrong variant (used by no specification): a chunk is written from the    *)
(* start of the prompt.                                                     *)
ChunkWritesFromZero(r, num_tokens) ==
  LET start == request_state[r].num_computed_tokens
  IN  Pool!PastKeyValuesWrites(request_state[r].block_table,
        ComputedTokens(r, start, ChunkEnd(r, num_tokens)), 0)

(* The writes of prefill_chunk: the suffix the chunk computed. *)
ChunkWrites(r, num_tokens) ==
  LET start == request_state[r].num_computed_tokens
  IN  Pool!PastKeyValuesWrites(request_state[r].block_table,
        ComputedTokens(r, start, ChunkEnd(r, num_tokens)), start)

CurrentChunkWrites ==
  ChunkWrites(Head(local.work_plan).request_state,
              Head(local.work_plan).num_scheduled_tokens)

(* The writes of a batched decode: one for each request in each layer. *)
BatchWrites(batch) ==
  LET n == Len(batch)
  IN  [i \in 1 .. Cardinality(Layers) * n |->
         LET r == batch[((i - 1) % n) + 1]
         IN  Pool!Write((i - 1) \div n, request_state[r].block_table,
                        TokenPosition(r), Token(r, TokenPosition(r)))]

(* _build_block_tables_tensor: a row for each request, padded with -1. *)
BlockTablesTensor(batch) ==
  LET lengths == {Len(request_state[r].block_table) : r \in Range(batch)}
  IN  [i \in DOMAIN batch |->
         [j \in 1 .. Max(lengths) |->
            IF j <= Len(request_state[batch[i]].block_table)
            THEN request_state[batch[i]].block_table[j] ELSE -1]]

WriteAll(writes)  == cache' = Pool!AfterWrites(cache, writes)

(* The call raised after some of its writes. *)
WriteSome(writes) ==
  \E n \in 0 .. Len(writes) : cache' = Pool!AfterWrites(cache, SubSeq(writes, 1, n))

CachedPrefillChunk == PrefillChunk /\ WriteAll(CurrentChunkWrites)

CachedFailPrefill ==
  /\ FailPrefill
  /\ IF EngineHasPrefillChunk THEN WriteSome(CurrentChunkWrites) ELSE UNCHANGED cache

CachedRunDecodeBatch == RunDecodeBatch /\ WriteAll(BatchWrites(local.decode_batch))

(* The forward pass begins when the tokens of all requests are counted. *)
CachedFailDecodeBatch ==
  /\ FailDecodeBatch
  /\ IF \A r \in Range(local.decode_batch) :
          request_state'[r].generated_tokens > request_state[r].generated_tokens
     THEN WriteSome(BatchWrites(local.decode_batch))
     ELSE UNCHANGED cache

ServingInit == Init /\ cache = Pool!ZeroCache

ServingNext ==
  \/ CachedPrefillChunk \/ CachedFailPrefill
  \/ CachedRunDecodeBatch \/ CachedFailDecodeBatch
  \/ (StepWithoutEngine \/ \E r \in Requests : Submit(r)) /\ UNCHANGED cache

ServingSpec == ServingInit /\ [][ServingNext]_serving_vars

-----------------------------------------------------------------------------
(* Properties *)

(* Every address the engine is about to write or read exists: locate_token  *)
(* does not raise, for a chunk through the table copied at admission, and   *)
(* for a batch up to the position of the new token. If it fails, requests   *)
(* fail with an IndexError in mid-stream.                                   *)
AddressesExist ==
  /\ Prefilling =>
       LET work == Head(local.work_plan)
           q    == request_state[work.request_state]
       IN  \A p \in q.num_computed_tokens
                      .. ChunkEnd(work.request_state, work.num_scheduled_tokens) - 1 :
             Pool!Locatable(q.block_table, p)
  /\ phase = "run" =>
       \A r \in Range(local.decode_batch) : \A p \in 0 .. TokenPosition(r) :
         Pool!Locatable(request_state[r].block_table, p)

(* Attention of a batch reads, for each request and in each layer, exactly  *)
(* that request's tokens in order, the new one included: not a block that   *)
(* was never written, was overwritten by another request, or is left from   *)
(* its previous owner, nor the padding of the tensor. In a layer all writes *)
(* come before attention, so what it reads is what the call leaves behind.  *)
AttentionReadsOwnTokens ==
  [][phase = "run" /\ phase' = "apply" =>
       LET tensor == BlockTablesTensor(local.decode_batch)
       IN  \A i \in DOMAIN local.decode_batch : \A l \in Layers :
             LET r == local.decode_batch[i]
             IN  Pool!GatherKVForSequence(cache', l, tensor[i], TokenPosition(r) + 1)
                   = [j \in 1 .. TokenPosition(r) + 1 |-> Token(r, j - 1)]]_serving_vars

(* What the cache holds for the computed tokens of r, until r leaves its    *)
(* slot.                                                                    *)
View(r) ==
  IF r \in InSlot
  THEN [i \in 1 .. request_state[r].num_computed_tokens |->
          [l \in Layers |->
             Pool!ReadRequestToken(cache, l, request_state[r].block_table, i - 1)]]
  ELSE << >>

PrivateCaches ==
  INSTANCE PrivateKVCache WITH private <- [r \in Requests |-> View(r)]

(* Paging is invisible: block tables, lagging copies, shared pool and       *)
(* reused blocks together behave like one private cache for each request.   *)
ImplementsPrivateCaches == PrivateCaches!Spec

=============================================================================
