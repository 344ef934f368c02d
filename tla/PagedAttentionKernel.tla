------------------------ MODULE PagedAttentionKernel ------------------------
(***************************************************************************)
(* paged_attention_decode_batch_kernel_v9a, the kernel of the CUDA         *)
(* attention backend, for one thread block: one query head of one          *)
(* sequence.  Thread blocks share nothing but read-only tensors, and write *)
(* disjoint rows of the output, so any one of them stands for all.         *)
(***************************************************************************)
EXTENDS ThreadBlock, Sequences

CONSTANTS
  MaxSeqLen,     \* MAX_SEQ_LEN
  SeqLens,       \* the values of seq_lens[sequence_id]
  LayerId, NumBlocks, BlockSize, NumQueryHeads, NumKVHeads, HeadDim, BlockTables

(* Checked by paged_attention_decode_batch and its CUDA half. *)
ASSUME LaunchAssumption ==
  /\ HeadDim \in Nat /\ HeadDim <= ThreadsPerHead
  /\ NumKVHeads > 0 /\ NumQueryHeads \in Nat /\ NumQueryHeads >= NumKVHeads
  /\ NumQueryHeads % NumKVHeads = 0
  /\ Len(BlockTables[1]) > 0

VARIABLES
  cta,      \* sequence_id, query_head_id and seq_len, and whether the maximum
            \* and the denominator turn out finite
  loc,      \* the other registers of each thread
  shared,   \* scores, shared_max and shared_denom
  output    \* the elements of the output tensor written so far

vars == <<block_vars, cta, loc, shared, output>>

Reference == INSTANCE PagedAttentionReference

MaxBlocksPerSeq == Len(BlockTables[1])   \* max_blocks_per_seq

(* The addresses the kernel computes. *)
QIdx(d) == ((cta.sequence_id * NumQueryHeads + cta.query_head_id) * HeadDim) + d
OutIdx(d) == QIdx(d)

KVHeadId == cta.query_head_id \div (NumQueryHeads \div NumKVHeads)

(* block_tables is one array: a row that is too short runs into the next. *)
PhysicalBlockId(token) ==
  LET idx == cta.sequence_id * MaxBlocksPerSeq + token \div BlockSize
  IN  BlockTables[(idx \div MaxBlocksPerSeq) + 1][(idx % MaxBlocksPerSeq) + 1]

(* Wrong variant (used by no specification): the cache has a plane for each *)
(* query head.                                                             *)
KVIdxOfQueryHead(token, d) ==
  (((LayerId * NumBlocks + PhysicalBlockId(token)) * BlockSize + (token % BlockSize))
     * NumKVHeads + cta.query_head_id) * HeadDim + d

KVIdx(token, d) ==
  (((LayerId * NumBlocks + PhysicalBlockId(token)) * BlockSize + (token % BlockSize))
     * NumKVHeads + KVHeadId) * HeadDim + d

-----------------------------------------------------------------------------

SetLoc(t, fields) ==
  loc' = [loc EXCEPT ![t] =
            [f \in DOMAIN loc[t] |-> IF f \in DOMAIN fields THEN fields[f] ELSE loc[t][f]]]

ScoreCell(token) == <<"scores", token>>

(* Wrong variant (used by no specification): a thread that owns no output   *)
(* dimension returns at once.                                              *)
EnterOwners(t) ==
  /\ Running(t, "enter")
  /\ IF cta.seq_len <= 0 \/ cta.seq_len > MaxSeqLen \/ t >= HeadDim
     THEN Goto(t, "exit") /\ UNCHANGED loc
     ELSE Goto(t, "qk") /\ SetLoc(t, [token_pos |-> WarpOf(t)])
  /\ TouchesNothing /\ UNCHANGED <<reg, reduction, cta, shared, output>>

(* The early returns, and the start of the loop over token_base. *)
Enter(t) ==
  /\ Running(t, "enter")
  /\ IF cta.seq_len <= 0 \/ cta.seq_len > MaxSeqLen
     THEN Goto(t, "exit") /\ UNCHANGED loc
     ELSE Goto(t, "qk") /\ SetLoc(t, [token_pos |-> WarpOf(t)])
  /\ TouchesNothing /\ UNCHANGED <<reg, reduction, cta, shared, output>>

(* Pass 1a: the lanes of a warp share the products of one token. *)
PartialScore(t, token) ==
  SetToBag({<<QIdx(d), KVIdx(token, d)>> :
              d \in {x \in 0 .. HeadDim - 1 : LaneOf(x) = LaneOf(t)}})

QK(t) ==
  /\ Running(t, "qk") /\ loc[t].token_pos < cta.seq_len
  /\ CallWarpReduce(t, PartialScore(t, loc[t].token_pos), "store_score")
  /\ TouchesNothing /\ UNCHANGED <<reduction, cta, loc, shared, output>>

StoreScore(t) ==
  /\ Running(t, "store_score")
  /\ IF LaneOf(t) = 0
     THEN /\ shared' = [shared EXCEPT !.scores[loc[t].token_pos] = reg[t].value]
          /\ Touches(t, {}, {ScoreCell(loc[t].token_pos)})
     ELSE UNCHANGED shared /\ TouchesNothing
  /\ SetLoc(t, [token_pos |-> loc[t].token_pos + WarpsPerBlock])
  /\ Goto(t, "qk")
  /\ UNCHANGED <<reg, reduction, cta, output>>

(* Wrong variant (used by no specification): the first v7 kernel, without   *)
(* the barrier between score writes and score reads.                       *)
QKDoneUnsynced(t) ==
  /\ Running(t, "qk") /\ loc[t].token_pos >= cta.seq_len
  /\ SetLoc(t, [token_pos |-> t]) /\ Set(t, [value |-> {}])
  /\ Goto(t, "max")
  /\ TouchesNothing /\ UNCHANGED <<reduction, cta, shared, output>>

QKDone(t) ==
  /\ Running(t, "qk") /\ loc[t].token_pos >= cta.seq_len
  /\ SetLoc(t, [token_pos |-> t]) /\ Set(t, [value |-> {}])
  /\ SyncThen(t, "max")
  /\ TouchesNothing /\ UNCHANGED <<reduction, cta, shared, output>>

(* A round of a loop that strides over the tokens and reads their scores. *)
NextToken(t, statement) ==
  /\ Running(t, statement) /\ loc[t].token_pos < cta.seq_len
  /\ SetLoc(t, [token_pos |-> loc[t].token_pos + ThreadsPerHead])
  /\ UNCHANGED <<pc, waiting, reduction, cta, output>>

LastToken(t, statement) ==
  /\ Running(t, statement) /\ loc[t].token_pos >= cta.seq_len
  /\ TouchesNothing /\ UNCHANGED <<reduction, cta, output>>

ScoreRead(t) == shared.scores[loc[t].token_pos]

(* Pass 1b: the maximum. *)
MaxPartial(t) ==
  /\ NextToken(t, "max")
  /\ Set(t, [value |-> reg[t].value \cup {ScoreRead(t)}])
  /\ Touches(t, {ScoreCell(loc[t].token_pos)}, {})
  /\ UNCHANGED shared

MaxReduce(t) ==
  /\ LastToken(t, "max")
  /\ CallBlockReduce(t, "max", reg[t].value, "share_max")
  /\ UNCHANGED <<loc, shared>>

(* Thread 0 stores what it holds, then all wait. *)
Share(t, field) ==
  IF t = 0
  THEN shared' = [shared EXCEPT ![field] = reg[t].value] /\ Touches(t, {}, {<<field, 0>>})
  ELSE UNCHANGED shared /\ TouchesNothing

ShareMax(t) ==
  /\ Running(t, "share_max")
  /\ Share(t, "shared_max") /\ SyncThen(t, "load_max")
  /\ UNCHANGED <<reg, reduction, cta, loc, output>>

LoadMax(t) ==
  /\ Running(t, "load_max")
  /\ SetLoc(t, [max_score |-> shared.shared_max, token_pos |-> t])
  /\ Touches(t, {<<"shared_max", 0>>}, {})
  /\ Set(t, [value |-> EmptyBag]) /\ Goto(t, "denom")
  /\ UNCHANGED <<reduction, cta, shared, output>>

(* The denominator. *)
DenomPartial(t) ==
  /\ NextToken(t, "denom")
  /\ Set(t, [value |-> reg[t].value
               (+) SetToBag({Reference!Exp(ScoreRead(t), loc[t].max_score)})])
  /\ Touches(t, {ScoreCell(loc[t].token_pos)}, {})
  /\ UNCHANGED shared

DenomReduce(t) ==
  /\ LastToken(t, "denom")
  /\ CallBlockReduce(t, "sum", reg[t].value, "share_denom")
  /\ UNCHANGED <<loc, shared>>

ShareDenom(t) ==
  /\ Running(t, "share_denom")
  /\ Share(t, "shared_denom") /\ SyncThen(t, "load_denom")
  /\ UNCHANGED <<reg, reduction, cta, loc, output>>

LoadDenom(t) ==
  /\ Running(t, "load_denom")
  /\ SetLoc(t, [denom |-> shared.shared_denom, token_pos |-> t])
  /\ Touches(t, {<<"shared_denom", 0>>}, {})
  /\ Goto(t, "prob")
  /\ UNCHANGED <<reg, reduction, cta, shared, output>>

(* scores[] becomes the softmax probabilities, in place. *)
Convert(t) ==
  /\ NextToken(t, "prob")
  /\ shared' = [shared EXCEPT !.scores[loc[t].token_pos] =
                  [exp   |-> Reference!Exp(@, loc[t].max_score),
                   denom |-> loc[t].denom]]
  /\ Touches(t, {ScoreCell(loc[t].token_pos)}, {ScoreCell(loc[t].token_pos)})
  /\ UNCHANGED reg

Converted(t) ==
  /\ LastToken(t, "prob")
  /\ SyncThen(t, "output")
  /\ UNCHANGED <<reg, loc, shared>>

(* The choice between zeros and the V pass. *)
Branch(t) ==
  /\ Running(t, "output")
  /\ IF ~cta.finite THEN Goto(t, "zeros") /\ UNCHANGED <<reg, loc>>
     ELSE IF t < HeadDim
     THEN Goto(t, "v") /\ Set(t, [value |-> EmptyBag]) /\ SetLoc(t, [token_pos |-> 0])
     ELSE Goto(t, "exit") /\ UNCHANGED <<reg, loc>>
  /\ TouchesNothing /\ UNCHANGED <<reduction, cta, shared, output>>

Written(terms) == [written |-> TRUE, terms |-> terms]
Unwritten == [written |-> FALSE, terms |-> EmptyBag]   \* torch::empty_like

WriteZeros(t) ==
  /\ Running(t, "zeros")
  /\ LET own == {OutIdx(d) : d \in {x \in 0 .. HeadDim - 1 : x % ThreadsPerHead = t}}
     IN  /\ output' = [e \in DOMAIN output |-> IF e \in own THEN Written(EmptyBag) ELSE output[e]]
         /\ Touches(t, {}, {<<"output", e>> : e \in own})
  /\ Goto(t, "exit")
  /\ UNCHANGED <<reg, reduction, cta, loc, shared>>

(* The V pass: thread t owns output dimension t. *)
AccumulateV(t) ==
  /\ Running(t, "v") /\ loc[t].token_pos < cta.seq_len
  /\ Set(t, [value |-> reg[t].value
               (+) SetToBag({[prob |-> ScoreRead(t), value |-> KVIdx(loc[t].token_pos, t)]})])
  /\ SetLoc(t, [token_pos |-> loc[t].token_pos + 1])
  /\ Touches(t, {ScoreCell(loc[t].token_pos)}, {})
  /\ UNCHANGED <<pc, waiting, reduction, cta, shared, output>>

WriteOutput(t) ==
  /\ Running(t, "v") /\ loc[t].token_pos >= cta.seq_len
  /\ output' = [output EXCEPT ![OutIdx(t)] = Written(reg[t].value)]
  /\ Touches(t, {}, {<<"output", OutIdx(t)>>})
  /\ Goto(t, "exit")
  /\ UNCHANGED <<reg, reduction, cta, loc, shared>>

-----------------------------------------------------------------------------

(* The tokens the table of a sequence has blocks for. *)
TokensCapacity(sequence) ==
  BlockSize * Cardinality({j \in DOMAIN BlockTables[sequence + 1] :
                             BlockTables[sequence + 1][j] >= 0})

(* grid(num_query_heads, batch_size) has a thread block for each row. *)
Init ==
  /\ BlockInit
  /\ cta \in [sequence_id   : 0 .. Len(BlockTables) - 1,
              query_head_id : 0 .. NumQueryHeads - 1,
              seq_len       : SeqLens,
              finite        : BOOLEAN]
  /\ cta.seq_len <= TokensCapacity(cta.sequence_id)
  /\ loc = [t \in Threads |-> [token_pos |-> 0, max_score |-> {}, denom |-> EmptyBag]]
  /\ shared = [scores |-> [token \in 0 .. MaxSeqLen - 1 |-> SetToBag({Garbage})],
               shared_max |-> {SetToBag({Garbage})}, shared_denom |-> SetToBag({Garbage})]
  /\ output = [e \in 0 .. Len(BlockTables) * NumQueryHeads * HeadDim - 1 |-> Unwritten]

Statement(t) ==
  \/ Enter(t)
  \/ QK(t) \/ StoreScore(t) \/ QKDone(t)
  \/ MaxPartial(t) \/ MaxReduce(t) \/ ShareMax(t) \/ LoadMax(t)
  \/ DenomPartial(t) \/ DenomReduce(t) \/ ShareDenom(t) \/ LoadDenom(t)
  \/ Convert(t) \/ Converted(t)
  \/ Branch(t) \/ WriteZeros(t) \/ AccumulateV(t) \/ WriteOutput(t)

Returned == Exited = Threads

Next ==
  \/ \E t \in Threads : Statement(t)
  \/ BlockReduce /\ UNCHANGED <<cta, loc, shared, output>>
  \/ WarpReduce /\ UNCHANGED <<cta, loc, shared, output>>
  \/ Release /\ UNCHANGED <<cta, loc, shared, output>>
  \/ Returned /\ UNCHANGED vars

Spec == Init /\ [][Next]_vars

-----------------------------------------------------------------------------
(* Properties *)

(* When the kernel has returned, the row of this query head holds what the  *)
(* reference computes, each dimension a sum over all tokens once, with the  *)
(* probabilities of the one softmax, or zeros if that is not finite; no     *)
(* other element of the output was written.                                 *)
OutputMatchesReference ==
  Returned /\ cta.seq_len \in 1 .. MaxSeqLen =>
    LET row(d) == Reference!Element(Reference!QueryShape,
                                    <<cta.sequence_id, cta.query_head_id, d>>)
    IN  /\ \A d \in Reference!Dims :
             output[row(d)] = Written(
               IF cta.finite
               THEN Reference!Output(cta.sequence_id, cta.query_head_id, cta.seq_len, d)
               ELSE EmptyBag)
        /\ \A e \in DOMAIN output \ {row(d) : d \in Reference!Dims} : output[e] = Unwritten

(* Every launch writes its row of the output. The serving harness of        *)
(* docs/cuda/cuda_paged_attention_runtime_integration.md starts at          *)
(* MAX_SEQ_LEN tokens and decodes 32 more, a "validated path" of attention  *)
(* reads.                                                                   *)
OutputWritten ==
  Returned => \A d \in Reference!Dims : output[OutIdx(d)].written

=============================================================================
