----------------------- MODULE PagedAttentionKernelV3 -----------------------
(***************************************************************************)
(* paged_attention_decode_kernel_v3, the kernel for a single sequence, for *)
(* one thread block: one head.  All threads work on one token at a time,   *)
(* and thread 0 alone keeps the scores, the maximum and the denominator.   *)
(***************************************************************************)
EXTENDS ThreadBlock, Sequences

CONSTANTS
  MaxSeqLen,     \* MAX_SEQ_LEN
  SeqLens,       \* the values of seq_len, which paged_attention_decode checks
                 \* to be positive and covered by the block table
  LayerId, NumBlocks, BlockSize, NumHeads, BlockTable,
  HeadDim        \* "For this v3, head_dim <= THREADS_PER_HEAD"

VARIABLES
  cta,      \* head_id and seq_len, and whether the softmax turns out finite
  loc,      \* the other registers of each thread
  shared,   \* scores, shared_max and shared_denom
  output    \* the elements of the output tensor written so far

vars == <<block_vars, cta, loc, shared, output>>

Reference == INSTANCE PagedAttentionReference
  WITH NumQueryHeads <- NumHeads, NumKVHeads <- NumHeads, BlockTables <- <<BlockTable>>

(* The addresses the kernel computes. *)
QIdx(d) == cta.head_id * HeadDim + d

KVIdx(token, d) ==
  (((LayerId * NumBlocks + BlockTable[(token \div BlockSize) + 1]) * BlockSize
      + (token % BlockSize)) * NumHeads + cta.head_id) * HeadDim + d

-----------------------------------------------------------------------------

SetLoc(t, fields) ==
  loc' = [loc EXCEPT ![t] =
            [f \in DOMAIN loc[t] |-> IF f \in DOMAIN fields THEN fields[f] ELSE loc[t][f]]]

ScoreCell(token) == <<"scores", token>>

(* Only thread 0 carries out the body of `if (tid == 0)`. *)
OnThread0(t, field, value, reads, cell) ==
  IF t = 0
  THEN shared' = [shared EXCEPT ![field] = value] /\ Touches(t, reads, {cell})
  ELSE UNCHANGED shared /\ TouchesNothing

(* The grid has a thread block for each head, so none returns at once. *)
Enter(t) ==
  /\ Running(t, "enter") /\ Goto(t, "qk")
  /\ TouchesNothing /\ UNCHANGED <<reg, reduction, cta, loc, shared, output>>

(* Pass 1: one token a round. *)
QK(t) ==
  /\ Running(t, "qk") /\ loc[t].token_pos < cta.seq_len
  /\ CallBlockReduce(t, "sum",
       SetToBag({<<QIdx(d), KVIdx(loc[t].token_pos, d)>> :
                   d \in {x \in 0 .. HeadDim - 1 : x % ThreadsPerHead = t}}),
       "store_score")
  /\ TouchesNothing /\ UNCHANGED <<reduction, cta, loc, shared, output>>

StoreScore(t) ==
  /\ Running(t, "store_score")
  /\ OnThread0(t, "scores", [shared.scores EXCEPT ![loc[t].token_pos] = reg[t].value],
               {}, ScoreCell(loc[t].token_pos))
  /\ IF t = 0 THEN SetLoc(t, [max_score |-> loc[t].max_score \cup {reg[t].value}])
              ELSE UNCHANGED loc
  /\ SyncThen(t, "share_max")
  /\ UNCHANGED <<reg, reduction, cta, output>>

ShareMax(t) ==
  /\ Running(t, "share_max")
  /\ OnThread0(t, "shared_max", loc[t].max_score, {}, <<"shared_max", 0>>)
  /\ SyncThen(t, "load_max")
  /\ UNCHANGED <<reg, reduction, cta, loc, output>>

LoadMax(t) ==
  /\ Running(t, "load_max")
  /\ SetLoc(t, [max_score |-> shared.shared_max, token_pos |-> loc[t].token_pos + 1])
  /\ Touches(t, {<<"shared_max", 0>>}, {})
  /\ Goto(t, "qk")
  /\ UNCHANGED <<reg, reduction, cta, shared, output>>

(* A sum over tokens. *)
SumOver(tokens, Term(_)) ==
  [x \in {Term(token) : token \in tokens} |->
     Cardinality({token \in tokens : Term(token) = x})]

(* Pass 2: thread 0 sums over all scores. *)
Denominator(t) ==
  /\ Running(t, "qk") /\ loc[t].token_pos >= cta.seq_len
  /\ LET tokens      == 0 .. cta.seq_len - 1
         Term(token) == Reference!Exp(shared.scores[token], loc[t].max_score)
     IN  OnThread0(t, "shared_denom", SumOver(tokens, Term),
                   {ScoreCell(token) : token \in tokens}, <<"shared_denom", 0>>)
  /\ SyncThen(t, "load_denom")
  /\ UNCHANGED <<reg, reduction, cta, loc, output>>

LoadDenom(t) ==
  /\ Running(t, "load_denom")
  /\ SetLoc(t, [denom |-> shared.shared_denom])
  /\ Touches(t, {<<"shared_denom", 0>>}, {})
  /\ SyncThen(t, "output")
  /\ UNCHANGED <<reg, reduction, cta, shared, output>>

Branch(t) ==
  /\ Running(t, "output")
  /\ IF ~cta.finite THEN Goto(t, "zeros") /\ UNCHANGED <<reg, loc>>
     ELSE IF t < HeadDim
     THEN Goto(t, "v") /\ Set(t, [value |-> EmptyBag]) /\ SetLoc(t, [token_pos |-> 0])
     ELSE Goto(t, "exit") /\ UNCHANGED <<reg, loc>>
  /\ TouchesNothing /\ UNCHANGED <<reduction, cta, shared, output>>

Written(terms) == [written |-> TRUE, terms |-> terms]
Unwritten == [written |-> FALSE, terms |-> EmptyBag]   \* torch::empty_like

WriteZeros(t) ==
  /\ Running(t, "zeros")
  /\ LET own == {QIdx(d) : d \in {x \in 0 .. HeadDim - 1 : x % ThreadsPerHead = t}}
     IN  /\ output' = [e \in DOMAIN output |-> IF e \in own THEN Written(EmptyBag) ELSE output[e]]
         /\ Touches(t, {}, {<<"output", e>> : e \in own})
  /\ Goto(t, "exit")
  /\ UNCHANGED <<reg, reduction, cta, loc, shared>>

Prob(t, token) ==
  [exp   |-> Reference!Exp(shared.scores[token], loc[t].max_score),
   denom |-> loc[t].denom]

(* Pass 3: thread t owns output dimension t. *)
AccumulateV(t) ==
  /\ Running(t, "v") /\ loc[t].token_pos < cta.seq_len
  /\ LET token == loc[t].token_pos
     IN  /\ Set(t, [value |-> reg[t].value
                      (+) SetToBag({[prob |-> Prob(t, token), value |-> KVIdx(token, t)]})])
         /\ Touches(t, {ScoreCell(token)}, {})
         /\ SetLoc(t, [token_pos |-> token + 1])
  /\ UNCHANGED <<pc, waiting, reduction, cta, shared, output>>

WriteOutput(t) ==
  /\ Running(t, "v") /\ loc[t].token_pos >= cta.seq_len
  /\ output' = [output EXCEPT ![QIdx(t)] = Written(reg[t].value)]
  /\ Touches(t, {}, {<<"output", QIdx(t)>>})
  /\ Goto(t, "exit")
  /\ UNCHANGED <<reg, reduction, cta, loc, shared>>

-----------------------------------------------------------------------------

Init ==
  /\ BlockInit
  /\ cta \in [head_id : 0 .. NumHeads - 1, seq_len : SeqLens, finite : BOOLEAN]
  /\ loc = [t \in Threads |-> [token_pos |-> 0, max_score |-> {}, denom |-> EmptyBag]]
  /\ shared = [scores |-> [token \in 0 .. MaxSeqLen - 1 |-> SetToBag({Garbage})],
               shared_max |-> {SetToBag({Garbage})}, shared_denom |-> SetToBag({Garbage})]
  /\ output = [e \in 0 .. NumHeads * HeadDim - 1 |-> Unwritten]

Statement(t) ==
  \/ Enter(t)
  \/ QK(t) \/ StoreScore(t) \/ ShareMax(t) \/ LoadMax(t)
  \/ Denominator(t) \/ LoadDenom(t)
  \/ Branch(t) \/ WriteZeros(t) \/ AccumulateV(t) \/ WriteOutput(t)

Returned == Exited = Threads

Next ==
  \/ \E t \in Threads : Statement(t)
  \/ BlockReduce /\ UNCHANGED <<cta, loc, shared, output>>
  \/ Release /\ UNCHANGED <<cta, loc, shared, output>>
  \/ Returned /\ UNCHANGED vars

Spec == Init /\ [][Next]_vars

-----------------------------------------------------------------------------
(* Properties *)

(* When the kernel has returned, the row of this head holds what the        *)
(* reference computes, with one softmax over all tokens although thread 0   *)
(* built it one token at a time, or zeros if that is not finite; no other   *)
(* element was written.                                                     *)
OutputMatchesReference ==
  Returned =>
    LET row(d) == Reference!Element(Reference!QueryShape, <<0, cta.head_id, d>>)
    IN  /\ \A d \in Reference!Dims :
             output[row(d)] = Written(
               IF cta.finite THEN Reference!Output(0, cta.head_id, cta.seq_len, d)
                             ELSE EmptyBag)
        /\ \A e \in DOMAIN output \ {row(d) : d \in Reference!Dims} : output[e] = Unwritten

=============================================================================
