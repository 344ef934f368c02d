---------------------- MODULE PagedAttentionKernelProofs ----------------------
(***************************************************************************)
(* Proofs that the threads of a block of the CUDA attention kernels never  *)
(* race on a cell of shared memory or of the output, and always meet at    *)
(* the same __syncthreads, for every number and size of warps, head        *)
(* dimension and sequence.  Between two barriers the threads of a block    *)
(* are all in the same segment of the kernel, and each segment gives every *)
(* thread cells that no other thread writes.                               *)
(***************************************************************************)
EXTENDS PagedAttentionKernel, TLAPS

CONSTANTS SingleMaxSeqLen, SingleSeqLens, NumHeads, BlockTable   \* of the kernel v3

V3 == INSTANCE PagedAttentionKernelV3
        WITH MaxSeqLen <- SingleMaxSeqLen, SeqLens <- SingleSeqLens

-----------------------------------------------------------------------------
(* Positions of a loop that strides *)

(* x is reached from first in steps. *)
OnStride(x, first, step) == \E k \in 0 .. x : x = first + k * step

(* The loop goes on along the stride.                                       *)
LEMMA NextOnStride ==
  ASSUME NEW x \in Nat, NEW first \in Nat, NEW step \in Nat \ {0}, OnStride(x, first, step)
  PROVE  x + step \in Nat /\ OnStride(x + step, first, step)
<1>1. PICK k \in 0 .. x : x = first + k * step
  BY DEF OnStride
<1>2. x + step = first + (k + 1) * step /\ k + 1 \in 0 .. x + step
  BY <1>1
<1>. QED  BY <1>2 DEF OnStride

(* Loops that stride from different places never meet.                      *)
LEMMA OneOnStride ==
  ASSUME NEW x, NEW step \in Nat \ {0}, NEW first \in 0 .. step - 1, NEW other \in 0 .. step - 1,
         OnStride(x, first, step), OnStride(x, other, step)
  PROVE  first = other
<1>1. PICK k \in 0 .. x : x = first + k * step
  BY DEF OnStride
<1>2. PICK l \in 0 .. x : x = other + l * step
  BY DEF OnStride
<1>3. (k - l) * step = other - first
  BY <1>1, <1>2
<1>4. ASSUME NEW m \in Nat \ {0}  PROVE m * step >= step
  BY <1>4
<1>5. ~ (k - l >= 1)
  BY <1>3, <1>4
<1>6. ~ (l - k >= 1)
  <2>1. (l - k) * step = first - other
    BY <1>3
  <2>. QED  BY <2>1, <1>4
<1>7. k = l
  BY <1>5, <1>6
<1>. QED  BY <1>1, <1>2, <1>7

(* A thread is the lane of a warp.                                          *)
LEMMA WarpsAndLanes ==
  ASSUME NEW t \in Threads
  PROVE  /\ ThreadsPerHead \in Nat \ {0}
         /\ t \in Nat /\ t < ThreadsPerHead /\ WarpOf(t) \in 0 .. WarpsPerBlock - 1
         /\ t = WarpOf(t) * WarpSize + LaneOf(t)
<1>1. WarpSize \in Nat \ {0} /\ WarpsPerBlock \in Nat \ {0}
  BY WarpAssumption
<1>2. t \in Nat /\ t < WarpSize * WarpsPerBlock
  BY <1>1 DEF Threads, ThreadsPerHead
<1>3. t = (t \div WarpSize) * WarpSize + (t % WarpSize) /\ t \div WarpSize \in Nat /\ t % WarpSize \in 0 .. WarpSize - 1
  BY <1>1, <1>2
<1>. QED BY <1>1, <1>2, <1>3 DEF WarpOf, LaneOf, ThreadsPerHead

-----------------------------------------------------------------------------
(* The segments between barriers *)

RegFields == {"value", "stride", "kind", "then"}
LocFields == {"token_pos", "max_score", "denom"}

Typed ==
  /\ DOMAIN pc = Threads /\ DOMAIN reg = Threads /\ DOMAIN loc = Threads
  /\ \A t \in Threads : DOMAIN reg[t] = RegFields /\ DOMAIN loc[t] = LocFields
  /\ waiting \subseteq Threads

At(t, statement, stride) == Running(t, statement) /\ reg[t].stride = stride

WaitsAt(t, statement, stride) ==
  t \in waiting /\ pc[t] = statement /\ reg[t].stride = stride

Reducing(t, kind, then) == reg[t].kind = kind /\ reg[t].then = then

(* The position of the loop of a thread. *)
Strides(t, first, step) == loc[t].token_pos \in Nat /\ OnStride(loc[t].token_pos, first, step)

HoldsToken(t) == Strides(t, WarpOf(t), WarpsPerBlock)

(* Where the threads are in each segment, *)
InScores(t) ==
  \/ At(t, "enter", 0)
  \/ At(t, "qk", 0) /\ HoldsToken(t)
  \/ /\ Running(t, "shuffle") /\ reg[t].stride \in Nat /\ reg[t].then = "store_score"
     /\ HoldsToken(t)
  \/ At(t, "store_score", 0) /\ HoldsToken(t)
  \/ WaitsAt(t, "max", 0)

InMax(t) ==
  \/ At(t, "max", 0)
  \/ At(t, "reduce_store", 0) /\ Reducing(t, "max", "share_max")
  \/ WaitsAt(t, "reduce_tree", ThreadsPerHead \div 2) /\ Reducing(t, "max", "share_max")

InTree(t, kind, then, stride) ==
  /\ At(t, "reduce_tree", stride) \/ WaitsAt(t, "reduce_tree", stride \div 2)
  /\ Reducing(t, kind, then)

InReturn(t, kind, then, next) ==
  \/ At(t, "reduce_tree", 0) /\ Reducing(t, kind, then)
  \/ At(t, then, 0)
  \/ WaitsAt(t, next, 0)

InDenom(t) ==
  \/ At(t, "load_max", 0) \/ At(t, "denom", 0)
  \/ At(t, "reduce_store", 0) /\ Reducing(t, "sum", "share_denom")
  \/ WaitsAt(t, "reduce_tree", ThreadsPerHead \div 2) /\ Reducing(t, "sum", "share_denom")

InProb(t) ==
  \/ At(t, "load_denom", 0)
  \/ At(t, "prob", 0) /\ Strides(t, t, ThreadsPerHead)
  \/ WaitsAt(t, "output", 0)

InEnd(t) ==
  /\ t \notin waiting /\ pc[t] \in {"output", "zeros", "v", "exit"}
  /\ pc[t] = "v" => t < HeadDim

InReturnAtOnce(t) == t \notin waiting /\ pc[t] \in {"enter", "exit"}

(* and what they may have touched in it. *)
ReadsScore(a) == a.cell[1] = "scores" /\ ~a.write

(* A score whose position a loop of the thread reaches. *)
OwnScore(a, first, step) ==
  a.cell[1] = "scores" /\ a.cell[2] \in Nat /\ OnStride(a.cell[2], first, step)

ScoresAccess(a) ==
  /\ a.thread \in Threads /\ LaneOf(a.thread) = 0
  /\ OwnScore(a, WarpOf(a.thread), WarpsPerBlock)

MaxAccess(a) == ReadsScore(a) \/ a.cell = <<"max", a.thread>>

TreeAccess(a, kind, stride) ==
  /\ a.thread \in Threads /\ a.thread < stride
  /\ \/ a.cell = <<kind, a.thread>>
     \/ a.cell = <<kind, a.thread + stride>> /\ ~a.write

ReturnAccess(a, kind, field) ==
  \/ a.cell = <<kind, 0>> /\ ~a.write
  \/ a.cell = <<field, 0>> /\ a.thread = 0

DenomAccess(a) ==
  \/ ReadsScore(a)
  \/ a.cell = <<"shared_max", 0>> /\ ~a.write
  \/ a.cell = <<"sum", a.thread>>

ProbAccess(a) ==
  \/ a.cell = <<"shared_denom", 0>> /\ ~a.write
  \/ a.thread \in Threads /\ OwnScore(a, a.thread, ThreadsPerHead)

EndAccess(a) ==
  \/ ReadsScore(a)
  \/ /\ a.thread \in Threads
     /\ \E d \in 0 .. HeadDim - 1 :
          a.cell = <<"output", QIdx(d)>> /\ d % ThreadsPerHead = a.thread

(* The sequence is one the kernel works on. *)
Valid == ~(cta.seq_len <= 0 \/ cta.seq_len > MaxSeqLen)

Segment ==
  \/ /\ \A t \in Threads : InReturnAtOnce(t)
     /\ accesses = {}
     /\ ~Valid
  \/ /\ Valid
     /\ \/ (\A t \in Threads : InScores(t)) /\ (\A a \in accesses : ScoresAccess(a))
        \/ (\A t \in Threads : InMax(t)) /\ (\A a \in accesses : MaxAccess(a))
        \/ \E kt \in {<<"max", "share_max">>, <<"sum", "share_denom">>}, stride \in 1 .. ThreadsPerHead :
             /\ \A t \in Threads : InTree(t, kt[1], kt[2], stride)
             /\ \A a \in accesses : TreeAccess(a, kt[1], stride)
        \/ /\ \A t \in Threads : InReturn(t, "max", "share_max", "load_max")
           /\ \A a \in accesses : ReturnAccess(a, "max", "shared_max")
        \/ /\ \A t \in Threads : InReturn(t, "sum", "share_denom", "load_denom")
           /\ \A a \in accesses : ReturnAccess(a, "sum", "shared_denom")
        \/ (\A t \in Threads : InDenom(t)) /\ (\A a \in accesses : DenomAccess(a))
        \/ (\A t \in Threads : InProb(t)) /\ (\A a \in accesses : ProbAccess(a))
        \/ (\A t \in Threads : InEnd(t)) /\ (\A a \in accesses : EndAccess(a))

(* The row of the output is a number. *)
RowTyped == cta.sequence_id \in Int /\ cta.query_head_id \in Int

KInv == Typed /\ RowTyped /\ Segment

-----------------------------------------------------------------------------
(* What a step of one thread leaves alone *)

(* Going on to a statement moves one thread.                                *)
LEMMA GotoKeeps ==
  ASSUME DOMAIN pc = Threads, waiting \subseteq Threads, NEW t \in Threads, NEW s, Goto(t, s)
  PROVE  /\ DOMAIN pc' = Threads /\ waiting' = waiting /\ pc'[t] = s
         /\ \A u \in Threads : u # t => pc'[u] = pc[u]
  BY DEF Goto

(* Entering a barrier moves one thread, which then waits.                   *)
LEMMA SyncKeeps ==
  ASSUME DOMAIN pc = Threads, waiting \subseteq Threads, NEW t \in Threads, NEW s, SyncThen(t, s)
  PROVE  /\ DOMAIN pc' = Threads /\ waiting' \subseteq Threads /\ pc'[t] = s /\ t \in waiting'
         /\ \A u \in Threads : u # t => pc'[u] = pc[u] /\ (u \in waiting' <=> u \in waiting)
  BY DEF SyncThen

(* Set changes the named registers of one thread.                           *)
LEMMA SetKeeps ==
  ASSUME NEW t \in Threads, DOMAIN reg = Threads,
         \A u \in Threads : DOMAIN reg[u] = RegFields,
         NEW fields, Set(t, fields)
  PROVE  /\ DOMAIN reg' = Threads
         /\ \A u \in Threads : DOMAIN reg'[u] = RegFields
         /\ \A u \in Threads : u # t => reg'[u] = reg[u]
         /\ \A f \in RegFields : reg'[t][f] = IF f \in DOMAIN fields THEN fields[f] ELSE reg[t][f]
  BY DEF Set, RegFields

(* SetLoc does so for the other registers.                                  *)
LEMMA SetLocKeeps ==
  ASSUME NEW t \in Threads, DOMAIN loc = Threads,
         \A u \in Threads : DOMAIN loc[u] = LocFields,
         NEW fields, SetLoc(t, fields)
  PROVE  /\ DOMAIN loc' = Threads
         /\ \A u \in Threads : DOMAIN loc'[u] = LocFields
         /\ \A u \in Threads : u # t => loc'[u] = loc[u]
         /\ \A f \in LocFields : loc'[t][f] = IF f \in DOMAIN fields THEN fields[f] ELSE loc[t][f]
  BY DEF SetLoc, LocFields

(* A step adds only the accesses it names.                                  *)
LEMMA Touched ==
  ASSUME NEW t, NEW reads, NEW writes, Touches(t, reads, writes), NEW a \in accesses'
  PROVE  \/ a \in accesses
         \/ a.thread = t /\ a.cell \in reads /\ ~a.write
         \/ a.thread = t /\ a.cell \in writes /\ a.write
  BY DEF Touches, Access

(* A step of one thread. *)
BlockStep(t) ==
  /\ ReduceStore(t) \/ ReduceTree(t) \/ ReduceReturn(t) \/ ShuffleReturn(t)
  /\ UNCHANGED <<cta, loc, shared, output>>

Untouched(u) ==
  /\ pc'[u] = pc[u] /\ reg'[u] = reg[u] /\ loc'[u] = loc[u]
  /\ u \in waiting' <=> u \in waiting

Alone(t) ==
  /\ Typed' /\ cta' = cta
  /\ \A u \in Threads : u # t => Untouched(u)

(* Typed has parts, each of which a step keeps by itself.                    *)
LEMMA AloneByParts ==
  ASSUME Typed, NEW t \in Threads, cta' = cta,
         \/ \E s : Goto(t, s)
         \/ \E s : SyncThen(t, s)
         \/ UNCHANGED <<pc, waiting>>,
         (\E fields : Set(t, fields)) \/ UNCHANGED reg,
         (\E fields : SetLoc(t, fields)) \/ UNCHANGED loc
  PROVE  Alone(t)
<1>1. /\ DOMAIN pc' = Threads /\ waiting' \subseteq Threads
      /\ \A u \in Threads : u # t => pc'[u] = pc[u] /\ (u \in waiting' <=> u \in waiting)
  BY GotoKeeps, SyncKeeps DEF Typed
<1>2. /\ DOMAIN reg' = Threads
      /\ \A u \in Threads : DOMAIN reg'[u] = RegFields
      /\ \A u \in Threads : u # t => reg'[u] = reg[u]
  BY SetKeeps DEF Typed
<1>3. /\ DOMAIN loc' = Threads
      /\ \A u \in Threads : DOMAIN loc'[u] = LocFields
      /\ \A u \in Threads : u # t => loc'[u] = loc[u]
  BY SetLocKeeps DEF Typed
<1>. QED  BY <1>1, <1>2, <1>3 DEF Alone, Typed, Untouched

(* Every statement of the batched kernel changes only its thread.           *)
LEMMA StatementsAlone ==
  ASSUME Typed, NEW t \in Threads, Statement(t)
  PROVE  Alone(t)
<1>1. CASE Enter(t)
  BY <1>1, AloneByParts DEF Enter
<1>2. CASE QK(t)
  BY <1>2, AloneByParts DEF QK, CallWarpReduce
<1>3. CASE StoreScore(t)
  BY <1>3, AloneByParts DEF StoreScore
<1>4. CASE QKDone(t)
  BY <1>4, AloneByParts DEF QKDone
<1>5. CASE MaxPartial(t)
  BY <1>5, AloneByParts DEF MaxPartial, NextToken
<1>6. CASE MaxReduce(t)
  BY <1>6, AloneByParts DEF MaxReduce, LastToken, CallBlockReduce
<1>7. CASE ShareMax(t)
  BY <1>7, AloneByParts DEF ShareMax
<1>8. CASE LoadMax(t)
  BY <1>8, AloneByParts DEF LoadMax
<1>9. CASE DenomPartial(t)
  BY <1>9, AloneByParts DEF DenomPartial, NextToken
<1>10. CASE DenomReduce(t)
  BY <1>10, AloneByParts DEF DenomReduce, LastToken, CallBlockReduce
<1>11. CASE ShareDenom(t)
  BY <1>11, AloneByParts DEF ShareDenom
<1>12. CASE LoadDenom(t)
  BY <1>12, AloneByParts DEF LoadDenom
<1>13. CASE Convert(t)
  BY <1>13, AloneByParts DEF Convert, NextToken
<1>14. CASE Converted(t)
  BY <1>14, AloneByParts DEF Converted, LastToken
<1>15. CASE Branch(t)
  BY <1>15, AloneByParts DEF Branch
<1>16. CASE WriteZeros(t)
  BY <1>16, AloneByParts DEF WriteZeros
<1>17. CASE AccumulateV(t)
  BY <1>17, AloneByParts DEF AccumulateV
<1>18. CASE WriteOutput(t)
  BY <1>18, AloneByParts DEF WriteOutput
<1>. QED  BY <1>1, <1>2, <1>3, <1>4, <1>5, <1>6, <1>7, <1>8, <1>9, <1>10, <1>11, <1>12,
             <1>13, <1>14, <1>15, <1>16, <1>17, <1>18 DEF Statement

(* So does every step of a reduction.                                       *)
LEMMA BlockStepsAlone ==
  ASSUME Typed, NEW t \in Threads, BlockStep(t)
  PROVE  Alone(t)
<1>1. CASE ReduceStore(t)
  BY <1>1, AloneByParts DEF ReduceStore, BlockStep
<1>2. CASE ReduceTree(t)
  BY <1>2, AloneByParts DEF ReduceTree, BlockStep
<1>3. CASE ReduceReturn(t)
  BY <1>3, AloneByParts DEF ReduceReturn, BlockStep
<1>4. CASE ShuffleReturn(t)
  BY <1>4, AloneByParts DEF ShuffleReturn, BlockStep
<1>. QED  BY <1>1, <1>2, <1>3, <1>4 DEF BlockStep

-----------------------------------------------------------------------------
(* A step keeps its thread in the segment *)

(* Which step the statement of a thread allows.                             *)
StepsFrom(t) ==
  /\ t \notin waiting
  /\ \/ pc[t] = "enter" /\ Enter(t)
     \/ pc[t] = "qk" /\ (QK(t) \/ QKDone(t))
     \/ pc[t] = "store_score" /\ StoreScore(t)
     \/ pc[t] = "max" /\ (MaxPartial(t) \/ MaxReduce(t))
     \/ pc[t] = "share_max" /\ ShareMax(t)
     \/ pc[t] = "load_max" /\ LoadMax(t)
     \/ pc[t] = "denom" /\ (DenomPartial(t) \/ DenomReduce(t))
     \/ pc[t] = "share_denom" /\ ShareDenom(t)
     \/ pc[t] = "load_denom" /\ LoadDenom(t)
     \/ pc[t] = "prob" /\ (Convert(t) \/ Converted(t))
     \/ pc[t] = "output" /\ Branch(t)
     \/ pc[t] = "zeros" /\ WriteZeros(t)
     \/ pc[t] = "v" /\ (AccumulateV(t) \/ WriteOutput(t))
     \/ pc[t] = "reduce_store" /\ ReduceStore(t) /\ loc' = loc
     \/ pc[t] = "reduce_tree" /\ reg[t].stride > 0 /\ ReduceTree(t) /\ loc' = loc
     \/ pc[t] = "reduce_tree" /\ reg[t].stride = 0 /\ ReduceReturn(t) /\ loc' = loc
     \/ pc[t] = "shuffle" /\ reg[t].stride = 0 /\ ShuffleReturn(t) /\ loc' = loc

(* The program counter says which step a thread takes.                      *)
LEMMA OneStatement ==
  ASSUME NEW t \in Threads, Statement(t) \/ BlockStep(t)
  PROVE  StepsFrom(t)
<1>1. CASE Enter(t) \/ QK(t) \/ StoreScore(t) \/ QKDone(t)
  BY <1>1 DEF Enter, QK, StoreScore, QKDone, Running, StepsFrom
<1>2. CASE MaxPartial(t) \/ MaxReduce(t) \/ ShareMax(t) \/ LoadMax(t)
  BY <1>2 DEF MaxPartial, MaxReduce, ShareMax, LoadMax, NextToken, LastToken, Running, StepsFrom
<1>3. CASE DenomPartial(t) \/ DenomReduce(t) \/ ShareDenom(t) \/ LoadDenom(t)
  BY <1>3 DEF DenomPartial, DenomReduce, ShareDenom, LoadDenom, NextToken, LastToken, Running, StepsFrom
<1>4. CASE Convert(t) \/ Converted(t)
  BY <1>4 DEF Convert, Converted, NextToken, LastToken, Running, StepsFrom
<1>5. CASE Branch(t) \/ WriteZeros(t) \/ AccumulateV(t) \/ WriteOutput(t)
  BY <1>5 DEF Branch, WriteZeros, AccumulateV, WriteOutput, Running, StepsFrom
<1>6. CASE BlockStep(t)
  BY <1>6 DEF ReduceStore, ReduceTree, ReduceReturn, ShuffleReturn, Running, StepsFrom, BlockStep
<1>. QED  BY <1>1, <1>2, <1>3, <1>4, <1>5, <1>6 DEF Statement

(* The scores: a warp takes tokens at its own stride, and lane 0 stores.    *)
LEMMA ScoresStay ==
  ASSUME Typed, NEW t \in Threads, StepsFrom(t), InScores(t), Valid
  PROVE  InScores(t)' /\ \A a \in accesses' : a \in accesses \/ ScoresAccess(a)
<1>. USE DEF Typed
<1>w. /\ WarpOf(t) \in Nat /\ WarpsPerBlock \in Nat \ {0}
  BY WarpsAndLanes, WarpAssumption
<1>1. CASE Enter(t)
  <2>1. t \notin waiting /\ reg[t].stride = 0
    BY <1>1 DEF InScores, Enter, At, Running, WaitsAt
  <2>2. pc'[t] = "qk" /\ waiting' = waiting /\ loc'[t]["token_pos"] = WarpOf(t) /\ reg' = reg /\ accesses' = accesses
    BY <1>1, GotoKeeps, SetLocKeeps DEF Enter, Valid, LocFields, TouchesNothing
  <2>3. OnStride(WarpOf(t), WarpOf(t), WarpsPerBlock)
    BY <1>w DEF OnStride
  <2>. QED  BY <1>w, <2>1, <2>2, <2>3 DEF InScores, At, Running, HoldsToken, Strides
<1>2. CASE QK(t)
  <2>1. t \notin waiting /\ HoldsToken(t)
    BY <1>2 DEF InScores, QK, At, Running, WaitsAt
  <2>2. pc'[t] = "shuffle" /\ waiting' = waiting /\ loc' = loc /\ accesses' = accesses
    BY <1>2, GotoKeeps DEF QK, CallWarpReduce, TouchesNothing
  <2>3. reg'[t]["stride"] = WarpSize \div 2 /\ reg'[t]["then"] = "store_score"
    BY <1>2, SetKeeps DEF QK, CallWarpReduce, RegFields
  <2>4. WarpSize \div 2 \in Nat
    BY WarpAssumption
  <2>. QED  BY <2>1, <2>2, <2>3, <2>4 DEF InScores, Running, HoldsToken, Strides
<1>3. CASE ShuffleReturn(t) /\ reg[t].stride = 0 /\ loc' = loc
  <2>1. t \notin waiting /\ HoldsToken(t) /\ reg[t].then = "store_score"
    BY <1>3 DEF InScores, ShuffleReturn, At, Running, WaitsAt
  <2>2. pc'[t] = "store_score" /\ waiting' = waiting /\ accesses' = accesses /\ reg' = reg
    BY <1>3, <2>1, GotoKeeps DEF ShuffleReturn
  <2>. QED  BY <1>3, <2>1, <2>2 DEF InScores, At, Running, HoldsToken, Strides

<1>4. CASE StoreScore(t)
  <2>. DEFINE x == loc[t].token_pos
  <2>1. t \notin waiting /\ HoldsToken(t) /\ reg[t].stride = 0
    BY <1>4 DEF InScores, StoreScore, At, Running, WaitsAt
  <2>2. pc'[t] = "qk" /\ waiting' = waiting /\ reg' = reg /\ loc'[t]["token_pos"] = x + WarpsPerBlock
    BY <1>4, GotoKeeps, SetLocKeeps DEF StoreScore, LocFields
  <2>3. x \in Nat /\ OnStride(x, WarpOf(t), WarpsPerBlock)
    BY <2>1 DEF HoldsToken, Strides
  <2>4. x + WarpsPerBlock \in Nat /\ OnStride(x + WarpsPerBlock, WarpOf(t), WarpsPerBlock)
    BY <2>3, <1>w, NextOnStride
  <2>5. InScores(t)'
    BY <2>1, <2>2, <2>4 DEF InScores, At, Running, HoldsToken, Strides
  <2>6. ASSUME NEW a \in accesses'
        PROVE  a \in accesses \/ ScoresAccess(a)
    <3>1. CASE LaneOf(t) = 0 /\ Touches(t, {}, {ScoreCell(x)})
      <4>1. a \in accesses \/ (a.thread = t /\ a.cell = ScoreCell(x))
        BY <3>1, Touched
      <4>. QED  BY <4>1, <3>1, <2>3 DEF ScoresAccess, OwnScore, ScoreCell
    <3>2. CASE TouchesNothing
      BY <3>2 DEF TouchesNothing
    <3>. QED  BY <1>4, <3>1, <3>2 DEF StoreScore
  <2>. QED  BY <2>5, <2>6
<1>5. CASE QKDone(t)
  <2>1. t \notin waiting /\ reg[t].stride = 0
    BY <1>5 DEF InScores, QKDone, At, Running, WaitsAt
  <2>2. pc'[t] = "max" /\ t \in waiting' /\ accesses' = accesses
    BY <1>5, SyncKeeps DEF QKDone, TouchesNothing
  <2>3. reg'[t]["stride"] = reg[t]["stride"]
    BY <1>5, SetKeeps DEF QKDone, RegFields
  <2>. QED  BY <2>1, <2>2, <2>3 DEF InScores, WaitsAt
<1>. QED  BY <1>1, <1>2, <1>3, <1>4, <1>5 DEF StepsFrom, InScores, At, Running, WaitsAt

(* A call of block_reduce: what it does to its thread.                      *)
LEMMA Calling ==
  ASSUME Typed, NEW t \in Threads, NEW kind, NEW value, NEW then,
         CallBlockReduce(t, kind, value, then)
  PROVE  /\ pc'[t] = "reduce_store" /\ waiting' = waiting
         /\ reg'[t]["stride"] = reg[t]["stride"] /\ Reducing(t, kind, then)'
<1>. USE DEF Typed, CallBlockReduce
<1>1. pc'[t] = "reduce_store" /\ waiting' = waiting
  BY GotoKeeps
<1>2. /\ reg'[t]["stride"] = reg[t]["stride"] /\ reg'[t]["kind"] = kind /\ reg'[t]["then"] = then
  BY SetKeeps DEF RegFields
<1>. QED  BY <1>1, <1>2 DEF Reducing

(* reduce_store leaves its thread at the barrier before the tree.            *)
LEMMA Storing ==
  ASSUME Typed, NEW t \in Threads, NEW kind, NEW then, ReduceStore(t), Reducing(t, kind, then)
  PROVE  /\ WaitsAt(t, "reduce_tree", ThreadsPerHead \div 2)' /\ Reducing(t, kind, then)'
         /\ \A a \in accesses' : a \in accesses \/ a.cell = <<kind, a.thread>>
<1>. USE DEF Typed, ReduceStore
<1>1. pc'[t] = "reduce_tree" /\ t \in waiting'
  BY SyncKeeps
<1>2. /\ reg'[t]["stride"] = ThreadsPerHead \div 2
      /\ reg'[t]["kind"] = reg[t]["kind"] /\ reg'[t]["then"] = reg[t]["then"]
  BY SetKeeps DEF RegFields
<1>3. ASSUME NEW a \in accesses'
      PROVE  a \in accesses \/ a.cell = <<kind, a.thread>>
  <2>1. a \in accesses \/ (a.thread = t /\ a.cell = Cell(t, t))
    BY Touched
  <2>. QED  BY <2>1 DEF Cell, Reducing
<1>. QED  BY <1>1, <1>2, <1>3 DEF Reducing, WaitsAt

(* The maximum: scores are read, each thread writes its own partial.        *)
LEMMA MaxStays ==
  ASSUME Typed, NEW t \in Threads, StepsFrom(t), InMax(t)
  PROVE  InMax(t)' /\ \A a \in accesses' : a \in accesses \/ MaxAccess(a)
<1>. USE DEF Typed
<1>1. CASE MaxPartial(t)
  <2>1. t \notin waiting /\ pc[t] = "max" /\ reg[t].stride = 0
    BY <1>1 DEF InMax, MaxPartial, NextToken, At, Running, WaitsAt
  <2>2. pc' = pc /\ waiting' = waiting
    BY <1>1 DEF MaxPartial, NextToken
  <2>3. reg'[t]["stride"] = reg[t]["stride"]
    BY <1>1, SetKeeps DEF MaxPartial, RegFields
  <2>4. ASSUME NEW a \in accesses'  PROVE a \in accesses \/ MaxAccess(a)
    <3>1. a \in accesses \/ (a.cell = ScoreCell(loc[t].token_pos) /\ ~a.write)
      BY <1>1, Touched DEF MaxPartial
    <3>. QED  BY <3>1 DEF MaxAccess, ReadsScore, ScoreCell
  <2>. QED  BY <2>1, <2>2, <2>3, <2>4 DEF InMax, At, Running
<1>2. CASE MaxReduce(t)
  <2>1. t \notin waiting /\ reg[t].stride = 0
    BY <1>2 DEF InMax, MaxReduce, LastToken, At, Running, WaitsAt
  <2>2. accesses' = accesses
    BY <1>2 DEF MaxReduce, LastToken, TouchesNothing
  <2>3. /\ pc'[t] = "reduce_store" /\ waiting' = waiting
        /\ reg'[t]["stride"] = reg[t]["stride"] /\ Reducing(t, "max", "share_max")'
    BY <1>2, Calling DEF MaxReduce
  <2>. QED  BY <2>1, <2>2, <2>3 DEF InMax, At, Running
<1>3. CASE ReduceStore(t)
  <2>1. Reducing(t, "max", "share_max")
    BY <1>3 DEF InMax, ReduceStore, At, Running, WaitsAt
  <2>. QED  BY <1>3, <2>1, Storing DEF InMax, MaxAccess
<1>. QED  BY <1>1, <1>2, <1>3 DEF StepsFrom, InMax, At, Running, WaitsAt

(* A round of the tree: the lower half reads the upper half. What is        *)
(* combined does not matter here.                                          *)
Halves(t) ==
  /\ Running(t, "reduce_tree")
  /\ IF t < reg[t].stride
     THEN Touches(t, {Cell(t, t), Cell(t, t + reg[t].stride)}, {Cell(t, t)})
     ELSE TouchesNothing
  /\ Set(t, [stride |-> reg[t].stride \div 2])
  /\ SyncThen(t, "reduce_tree")

(* A round of block_reduce touches these cells.                             *)
LEMMA TreeHalves == \A t : ReduceTree(t) => Halves(t)
  BY DEF ReduceTree, Halves

(* After its part of a round a thread waits with half the stride.           *)
LEMMA TreeStays ==
  ASSUME Typed, NEW t \in Threads, NEW kind, NEW then, NEW stride \in Nat \ {0},
         Halves(t), InTree(t, kind, then, stride)
  PROVE  InTree(t, kind, then, stride)' /\ \A a \in accesses' : a \in accesses \/ TreeAccess(a, kind, stride)
<1>. USE DEF Typed
<1>1. t \notin waiting /\ reg[t].stride = stride /\ Reducing(t, kind, then)
  BY DEF InTree, Halves, At, Running, WaitsAt
<1>2. pc'[t] = "reduce_tree" /\ t \in waiting'
  BY SyncKeeps DEF Halves
<1>3. /\ reg'[t]["stride"] = stride \div 2
      /\ reg'[t]["kind"] = reg[t]["kind"] /\ reg'[t]["then"] = reg[t]["then"]
  BY <1>1, SetKeeps DEF Halves, RegFields
<1>4. ASSUME NEW a \in accesses'  PROVE a \in accesses \/ TreeAccess(a, kind, stride)
  <2>1. CASE t < stride /\ Touches(t, {Cell(t, t), Cell(t, t + stride)}, {Cell(t, t)})
    <3>1. \/ a \in accesses
          \/ a.thread = t /\ a.cell = Cell(t, t)
          \/ a.thread = t /\ a.cell = Cell(t, t + stride) /\ ~a.write
      BY <2>1, Touched
    <3>. QED  BY <3>1, <2>1, <1>1 DEF TreeAccess, Cell, Reducing
  <2>2. CASE TouchesNothing
    BY <2>2 DEF TouchesNothing
  <2>. QED  BY <1>1, <2>1, <2>2 DEF Halves
<1>. QED  BY <1>1, <1>2, <1>3, <1>4 DEF InTree, WaitsAt, Reducing

(* The end of a reduction: all read its result, thread 0 shares it.         *)
LEMMA ReturnStays ==
  ASSUME Typed, NEW t \in Threads, NEW kind, NEW then, NEW field, NEW next,
         StepsFrom(t), InReturn(t, kind, then, next),
         \/ then = "share_max" /\ field = "shared_max" /\ next = "load_max"
         \/ then = "share_denom" /\ field = "shared_denom" /\ next = "load_denom"
  PROVE  InReturn(t, kind, then, next)' /\ \A a \in accesses' : a \in accesses \/ ReturnAccess(a, kind, field)
<1>. USE DEF Typed
<1>1. CASE ReduceReturn(t) /\ loc' = loc
  <2>1. t \notin waiting /\ reg[t].stride = 0 /\ Reducing(t, kind, then)
    BY <1>1 DEF InReturn, ReduceReturn, At, Running, WaitsAt
  <2>2. pc'[t] = then /\ waiting' = waiting
    BY <1>1, <2>1, GotoKeeps DEF ReduceReturn, Reducing
  <2>3. reg'[t]["stride"] = reg[t]["stride"]
    BY <1>1, SetKeeps DEF ReduceReturn, RegFields
  <2>4. ASSUME NEW a \in accesses'  PROVE a \in accesses \/ ReturnAccess(a, kind, field)
    <3>1. a \in accesses \/ (a.cell = Cell(t, 0) /\ ~a.write)
      BY <1>1, Touched DEF ReduceReturn
    <3>. QED  BY <3>1, <2>1 DEF ReturnAccess, Cell, Reducing
  <2>. QED  BY <2>1, <2>2, <2>3, <2>4 DEF InReturn, At, Running
<1>2. CASE \/ ShareMax(t) /\ then = "share_max"
           \/ ShareDenom(t) /\ then = "share_denom"
  <2>1. t \notin waiting /\ reg[t].stride = 0
    BY <1>2 DEF InReturn, ShareMax, ShareDenom, At, Running, WaitsAt
  <2>2. pc'[t] = next /\ t \in waiting' /\ reg' = reg
    BY <1>2, SyncKeeps DEF ShareMax, ShareDenom
  <2>3. Share(t, field)
    BY <1>2 DEF ShareMax, ShareDenom
  <2>4. ASSUME NEW a \in accesses'  PROVE a \in accesses \/ ReturnAccess(a, kind, field)
    <3>1. CASE t = 0 /\ Touches(t, {}, {<<field, 0>>})
      <4>1. a \in accesses \/ (a.thread = t /\ a.cell = <<field, 0>>)
        BY <3>1, Touched
      <4>. QED  BY <4>1, <3>1 DEF ReturnAccess
    <3>2. CASE TouchesNothing
      BY <3>2 DEF TouchesNothing
    <3>. QED  BY <2>3, <3>1, <3>2 DEF Share
  <2>. QED  BY <2>1, <2>2, <2>4 DEF InReturn, WaitsAt
<1>. QED  BY <1>1, <1>2 DEF StepsFrom, InReturn, At, Running, WaitsAt

(* The denominator: as the maximum.                                         *)
LEMMA DenomStays ==
  ASSUME Typed, NEW t \in Threads, StepsFrom(t), InDenom(t)
  PROVE  InDenom(t)' /\ \A a \in accesses' : a \in accesses \/ DenomAccess(a)
<1>. USE DEF Typed
<1>1. CASE LoadMax(t)
  <2>1. t \notin waiting /\ reg[t].stride = 0
    BY <1>1 DEF InDenom, LoadMax, At, Running, WaitsAt
  <2>2. pc'[t] = "denom" /\ waiting' = waiting
    BY <1>1, GotoKeeps DEF LoadMax
  <2>3. reg'[t]["stride"] = reg[t]["stride"]
    BY <1>1, SetKeeps DEF LoadMax, RegFields
  <2>4. ASSUME NEW a \in accesses'  PROVE a \in accesses \/ DenomAccess(a)
    <3>1. a \in accesses \/ (a.cell = <<"shared_max", 0>> /\ ~a.write)
      BY <1>1, Touched DEF LoadMax
    <3>. QED  BY <3>1 DEF DenomAccess
  <2>. QED  BY <2>1, <2>2, <2>3, <2>4 DEF InDenom, At, Running
<1>2. CASE DenomPartial(t)
  <2>1. t \notin waiting /\ pc[t] = "denom" /\ reg[t].stride = 0
    BY <1>2 DEF InDenom, DenomPartial, NextToken, At, Running, WaitsAt
  <2>2. pc' = pc /\ waiting' = waiting
    BY <1>2 DEF DenomPartial, NextToken
  <2>3. reg'[t]["stride"] = reg[t]["stride"]
    BY <1>2, SetKeeps DEF DenomPartial, RegFields
  <2>4. ASSUME NEW a \in accesses'  PROVE a \in accesses \/ DenomAccess(a)
    <3>1. a \in accesses \/ (a.cell = ScoreCell(loc[t].token_pos) /\ ~a.write)
      BY <1>2, Touched DEF DenomPartial
    <3>. QED  BY <3>1 DEF DenomAccess, ReadsScore, ScoreCell
  <2>. QED  BY <2>1, <2>2, <2>3, <2>4 DEF InDenom, At, Running
<1>3. CASE DenomReduce(t)
  <2>1. t \notin waiting /\ reg[t].stride = 0
    BY <1>3 DEF InDenom, DenomReduce, LastToken, At, Running, WaitsAt
  <2>2. accesses' = accesses
    BY <1>3 DEF DenomReduce, LastToken, TouchesNothing
  <2>3. /\ pc'[t] = "reduce_store" /\ waiting' = waiting
        /\ reg'[t]["stride"] = reg[t]["stride"] /\ Reducing(t, "sum", "share_denom")'
    BY <1>3, Calling DEF DenomReduce
  <2>. QED  BY <2>1, <2>2, <2>3 DEF InDenom, At, Running
<1>4. CASE ReduceStore(t)
  <2>1. Reducing(t, "sum", "share_denom")
    BY <1>4 DEF InDenom, ReduceStore, At, Running, WaitsAt
  <2>. QED  BY <1>4, <2>1, Storing DEF InDenom, DenomAccess
<1>. QED  BY <1>1, <1>2, <1>3, <1>4 DEF StepsFrom, InDenom, At, Running, WaitsAt

(* The probabilities: each thread converts the scores on its own stride.    *)
LEMMA ProbStays ==
  ASSUME Typed, NEW t \in Threads, StepsFrom(t), InProb(t)
  PROVE  InProb(t)' /\ \A a \in accesses' : a \in accesses \/ ProbAccess(a)
<1>. USE DEF Typed
<1>w. t \in Nat /\ ThreadsPerHead \in Nat \ {0}
  BY WarpsAndLanes
<1>1. CASE LoadDenom(t)
  <2>1. t \notin waiting /\ reg[t].stride = 0
    BY <1>1 DEF InProb, LoadDenom, At, Running, WaitsAt
  <2>2. pc'[t] = "prob" /\ waiting' = waiting /\ reg' = reg
    BY <1>1, GotoKeeps DEF LoadDenom
  <2>3. loc'[t]["token_pos"] = t
    BY <1>1, SetLocKeeps DEF LoadDenom, LocFields
  <2>4. ASSUME NEW a \in accesses'  PROVE a \in accesses \/ ProbAccess(a)
    <3>1. a \in accesses \/ (a.cell = <<"shared_denom", 0>> /\ ~a.write)
      BY <1>1, Touched DEF LoadDenom
    <3>. QED  BY <3>1 DEF ProbAccess
  <2>5. OnStride(t, t, ThreadsPerHead)
    BY <1>w DEF OnStride
  <2>. QED  BY <1>w, <2>1, <2>2, <2>3, <2>4, <2>5 DEF InProb, At, Running, Strides
<1>2. CASE Convert(t)
  <2>. DEFINE x == loc[t].token_pos
  <2>1. t \notin waiting /\ pc[t] = "prob" /\ reg[t].stride = 0 /\ Strides(t, t, ThreadsPerHead)
    BY <1>2 DEF InProb, Convert, NextToken, At, Running, WaitsAt
  <2>2. pc' = pc /\ waiting' = waiting /\ reg' = reg
    BY <1>2 DEF Convert, NextToken
  <2>3. loc'[t]["token_pos"] = x + ThreadsPerHead
    BY <1>2, SetLocKeeps DEF Convert, NextToken, LocFields
  <2>4. x \in Nat /\ OnStride(x, t, ThreadsPerHead)
    BY <2>1 DEF Strides
  <2>5. x + ThreadsPerHead \in Nat /\ OnStride(x + ThreadsPerHead, t, ThreadsPerHead)
    BY <2>4, <1>w, NextOnStride
  <2>6. ASSUME NEW a \in accesses'  PROVE a \in accesses \/ ProbAccess(a)
    <3>1. a \in accesses \/ (a.thread = t /\ a.cell = ScoreCell(x))
      BY <1>2, Touched DEF Convert
    <3>. QED  BY <3>1, <2>4 DEF ProbAccess, OwnScore, ScoreCell
  <2>7. InProb(t)'
    BY <2>1, <2>2, <2>3, <2>5 DEF InProb, At, Running, Strides
  <2>. QED  BY <2>6, <2>7
<1>3. CASE Converted(t)
  <2>1. t \notin waiting /\ reg[t].stride = 0
    BY <1>3 DEF InProb, Converted, LastToken, At, Running, WaitsAt
  <2>2. pc'[t] = "output" /\ t \in waiting' /\ reg' = reg /\ accesses' = accesses
    BY <1>3, SyncKeeps DEF Converted, LastToken, TouchesNothing
  <2>. QED  BY <2>1, <2>2 DEF InProb, WaitsAt
<1>. QED  BY <1>1, <1>2, <1>3 DEF StepsFrom, InProb, At, Running, WaitsAt

(* The output: scores are only read, a thread writes its own dimensions.    *)
LEMMA EndStays ==
  ASSUME Typed, NEW t \in Threads, StepsFrom(t), InEnd(t)
  PROVE  InEnd(t)' /\ \A a \in accesses' : a \in accesses \/ EndAccess(a)
<1>. USE DEF Typed
<1>w. t \in Nat /\ t < ThreadsPerHead /\ ThreadsPerHead \in Nat \ {0} /\ HeadDim \in Nat
  BY WarpsAndLanes, LaunchAssumption
<1>1. CASE Branch(t)
  <2>1. /\ pc'[t] \in {"zeros", "exit"} \/ (pc'[t] = "v" /\ t < HeadDim)
        /\ waiting' = waiting /\ accesses' = accesses
    BY <1>1, GotoKeeps DEF Branch, TouchesNothing
  <2>. QED  BY <2>1 DEF InEnd
<1>2. CASE WriteZeros(t)
  <2>1. pc'[t] = "exit" /\ waiting' = waiting
    BY <1>2, GotoKeeps DEF WriteZeros
  <2>2. ASSUME NEW a \in accesses'  PROVE a \in accesses \/ EndAccess(a)
    <3>. DEFINE own == {OutIdx(d) : d \in {x \in 0 .. HeadDim - 1 : x % ThreadsPerHead = t}}
    <3>1. Touches(t, {}, {<<"output", e>> : e \in own})
      BY <1>2 DEF WriteZeros
    <3>2. a \in accesses \/ (a.thread = t /\ a.cell \in {<<"output", e>> : e \in own})
      BY <3>1, Touched
    <3>. QED  BY <3>2 DEF EndAccess, OutIdx
  <2>. QED  BY <2>1, <2>2 DEF InEnd
<1>3. CASE AccumulateV(t)
  <2>1. pc' = pc /\ waiting' = waiting
    BY <1>3 DEF AccumulateV
  <2>2. ASSUME NEW a \in accesses'  PROVE a \in accesses \/ EndAccess(a)
    <3>1. a \in accesses \/ (a.cell = ScoreCell(loc[t].token_pos) /\ ~a.write)
      BY <1>3, Touched DEF AccumulateV
    <3>. QED  BY <3>1 DEF EndAccess, ReadsScore, ScoreCell
  <2>. QED  BY <2>1, <2>2 DEF InEnd
<1>4. CASE WriteOutput(t)
  <2>1. pc'[t] = "exit" /\ waiting' = waiting
    BY <1>4, GotoKeeps DEF WriteOutput
  <2>2. ASSUME NEW a \in accesses'  PROVE a \in accesses \/ EndAccess(a)
    <3>1. a \in accesses \/ (a.thread = t /\ a.cell = <<"output", OutIdx(t)>>)
      BY <1>4, Touched DEF WriteOutput
    <3>2. t < HeadDim
      BY <1>4 DEF InEnd, WriteOutput, Running
    <3>3. t \in 0 .. HeadDim - 1 /\ t % ThreadsPerHead = t
      BY <1>w, <3>2
    <3>. QED  BY <3>1, <3>3 DEF EndAccess, OutIdx
  <2>. QED  BY <2>1, <2>2 DEF InEnd
<1>. QED  BY <1>1, <1>2, <1>3, <1>4 DEF StepsFrom, InEnd

-----------------------------------------------------------------------------
(* All threads are in one segment *)

(* A thread that a step leaves alone stays in its segment.                  *)
LEMMA OthersStay ==
  ASSUME NEW u, Untouched(u)
  PROVE  /\ InScores(u) => InScores(u)'
         /\ InMax(u) => InMax(u)'
         /\ \A kind, then, stride : InTree(u, kind, then, stride) => InTree(u, kind, then, stride)'
         /\ \A kind, then, next : InReturn(u, kind, then, next) => InReturn(u, kind, then, next)'
         /\ InDenom(u) => InDenom(u)'
         /\ InProb(u) => InProb(u)'
         /\ InEnd(u) => InEnd(u)'
         /\ InReturnAtOnce(u) => InReturnAtOnce(u)'
<1>. USE DEF Untouched, At, WaitsAt, Running, Reducing, Strides, HoldsToken
<1>1. InScores(u) => InScores(u)'
  BY DEF InScores
<1>2. (InMax(u) => InMax(u)') /\ (InDenom(u) => InDenom(u)') /\ (InProb(u) => InProb(u)')
  BY DEF InMax, InDenom, InProb
<1>3. \A kind, then, stride : InTree(u, kind, then, stride) => InTree(u, kind, then, stride)'
  BY DEF InTree
<1>4. \A kind, then, next : InReturn(u, kind, then, next) => InReturn(u, kind, then, next)'
  BY DEF InReturn
<1>5. (InEnd(u) => InEnd(u)') /\ (InReturnAtOnce(u) => InReturnAtOnce(u)')
  BY DEF InEnd, InReturnAtOnce
<1>. QED  BY <1>1, <1>2, <1>3, <1>4, <1>5

(* Writes to the output stay where they were: no step changes cta.          *)
LEMMA EndAccessStays ==
  ASSUME cta' = cta, NEW a, EndAccess(a)
  PROVE  EndAccess(a)'
  BY DEF EndAccess, ReadsScore, QIdx

(* A step of one thread stays in the segment.                               *)
LEMMA SegmentStays ==
  ASSUME Typed, Segment, NEW t \in Threads, StepsFrom(t), Alone(t)
  PROVE  Segment'
<1>. USE DEF Alone
<1>1. CASE /\ \A u \in Threads : InReturnAtOnce(u)
           /\ accesses = {} /\ ~Valid
  <2>1. Enter(t)
    BY <1>1 DEF InReturnAtOnce, StepsFrom
  <2>2. pc'[t] = "exit" /\ waiting' = waiting /\ accesses' = accesses
    BY <2>1, <1>1, GotoKeeps DEF Enter, Valid, TouchesNothing, Typed
  <2>3. InReturnAtOnce(t)'
    BY <2>2 DEF StepsFrom, InReturnAtOnce
  <2>. QED  BY <2>2, <2>3, <1>1, OthersStay DEF Segment, Valid
<1>2. CASE Valid
  <2>v. Valid'
    BY <1>2 DEF Valid
  <2>1. CASE (\A u \in Threads : InScores(u)) /\ (\A a \in accesses : ScoresAccess(a))
    <3>1. InScores(t)' /\ \A a \in accesses' : a \in accesses \/ ScoresAccess(a)
      BY <2>1, <1>2, ScoresStay
    <3>2. (\A u \in Threads : InScores(u)')
      BY <3>1, <2>1, OthersStay
    <3>3. \A a \in accesses' : ScoresAccess(a)
      BY <3>1, <2>1
    <3>. QED  BY <3>2, <3>3, <2>v DEF Segment
  <2>2. CASE (\A u \in Threads : InMax(u)) /\ (\A a \in accesses : MaxAccess(a))
    <3>1. InMax(t)' /\ \A a \in accesses' : a \in accesses \/ MaxAccess(a)
      BY <2>2, MaxStays
    <3>2. (\A u \in Threads : InMax(u)')
      BY <3>1, <2>2, OthersStay
    <3>3. \A a \in accesses' : MaxAccess(a)
      BY <3>1, <2>2
    <3>. QED  BY <3>2, <3>3, <2>v DEF Segment
  <2>3. ASSUME NEW kt \in {<<"max", "share_max">>, <<"sum", "share_denom">>},
               NEW stride \in 1 .. ThreadsPerHead,
               \A u \in Threads : InTree(u, kt[1], kt[2], stride),
               \A a \in accesses : TreeAccess(a, kt[1], stride)
        PROVE  Segment'
    <3>0. stride \in Nat \ {0}
      BY WarpsAndLanes
    <3>1. InTree(t, kt[1], kt[2], stride)' /\ \A a \in accesses' : a \in accesses \/ TreeAccess(a, kt[1], stride)
      <4>1. Halves(t)
        BY <2>3, <3>0, TreeHalves DEF StepsFrom, InTree, At, WaitsAt, Running
      <4>. QED  BY <2>3, <3>0, <4>1, TreeStays
    <3>2. (\A u \in Threads : InTree(u, kt[1], kt[2], stride)')
      BY <3>1, <2>3, OthersStay
    <3>3. \A a \in accesses' : TreeAccess(a, kt[1], stride)
      BY <3>1, <2>3
    <3>. QED  BY <3>2, <3>3, <2>v DEF Segment
  <2>4. CASE /\ \A u \in Threads : InReturn(u, "max", "share_max", "load_max")
             /\ \A a \in accesses : ReturnAccess(a, "max", "shared_max")
    <3>1. /\ InReturn(t, "max", "share_max", "load_max")'
          /\ \A a \in accesses' : a \in accesses \/ ReturnAccess(a, "max", "shared_max")
      BY <2>4, ReturnStays
    <3>2. (\A u \in Threads : InReturn(u, "max", "share_max", "load_max")')
      BY <3>1, <2>4, OthersStay
    <3>3. \A a \in accesses' : ReturnAccess(a, "max", "shared_max")
      BY <3>1, <2>4
    <3>. QED  BY <3>2, <3>3, <2>v DEF Segment
  <2>5. CASE /\ \A u \in Threads : InReturn(u, "sum", "share_denom", "load_denom")
             /\ \A a \in accesses : ReturnAccess(a, "sum", "shared_denom")
    <3>1. /\ InReturn(t, "sum", "share_denom", "load_denom")'
          /\ \A a \in accesses' : a \in accesses \/ ReturnAccess(a, "sum", "shared_denom")
      BY <2>5, ReturnStays
    <3>2. (\A u \in Threads : InReturn(u, "sum", "share_denom", "load_denom")')
      BY <3>1, <2>5, OthersStay
    <3>3. \A a \in accesses' : ReturnAccess(a, "sum", "shared_denom")
      BY <3>1, <2>5
    <3>. QED  BY <3>2, <3>3, <2>v DEF Segment
  <2>6. CASE (\A u \in Threads : InDenom(u)) /\ (\A a \in accesses : DenomAccess(a))
    <3>1. InDenom(t)' /\ \A a \in accesses' : a \in accesses \/ DenomAccess(a)
      BY <2>6, DenomStays
    <3>2. (\A u \in Threads : InDenom(u)')
      BY <3>1, <2>6, OthersStay
    <3>3. \A a \in accesses' : DenomAccess(a)
      BY <3>1, <2>6
    <3>. QED  BY <3>2, <3>3, <2>v DEF Segment
  <2>7. CASE (\A u \in Threads : InProb(u)) /\ (\A a \in accesses : ProbAccess(a))
    <3>1. InProb(t)' /\ \A a \in accesses' : a \in accesses \/ ProbAccess(a)
      BY <2>7, ProbStays
    <3>2. (\A u \in Threads : InProb(u)')
      BY <3>1, <2>7, OthersStay
    <3>3. \A a \in accesses' : ProbAccess(a)
      BY <3>1, <2>7
    <3>. QED  BY <3>2, <3>3, <2>v DEF Segment
  <2>8. CASE (\A u \in Threads : InEnd(u)) /\ (\A a \in accesses : EndAccess(a))
    <3>1. InEnd(t)' /\ \A a \in accesses' : a \in accesses \/ EndAccess(a)
      BY <2>8, EndStays
    <3>2. (\A u \in Threads : InEnd(u)')
      BY <3>1, <2>8, OthersStay
    <3>3. \A a \in accesses' : EndAccess(a)'
      BY <3>1, <2>8, EndAccessStays
    <3>. QED  BY <3>2, <3>3, <2>v DEF Segment
  <2>. QED  BY <1>2, <2>1, <2>2, <2>3, <2>4, <2>5, <2>6, <2>7, <2>8 DEF Segment
<1>. QED  BY <1>1, <1>2 DEF Segment

(* No warp is empty.                                                        *)
LEMMA WarpsHaveLanes ==
  ASSUME NEW w \in 0 .. WarpsPerBlock - 1
  PROVE  LanesOf(w) # {}
<1>1. WarpSize \in Nat \ {0} /\ WarpsPerBlock \in Nat \ {0} /\ w \in Nat /\ w + 1 <= WarpsPerBlock
  BY WarpAssumption
<1>2. w * WarpSize \in Nat /\ (w * WarpSize) \div WarpSize = w
  BY <1>1
<1>3. (w + 1) * WarpSize <= WarpsPerBlock * WarpSize
  BY <1>1
<1>4. w * WarpSize < WarpSize * WarpsPerBlock
  BY <1>1, <1>3
<1>5. w * WarpSize \in LanesOf(w)
  BY <1>1, <1>2, <1>4 DEF LanesOf, WarpOf, Threads, ThreadsPerHead
<1>. QED  BY <1>5

(* A shuffle changes the registers of a warp that computes scores.          *)
LEMMA ShuffleStays ==
  ASSUME Typed, Segment, NEW w \in 0 .. WarpsPerBlock - 1, Shuffle(w), UNCHANGED <<cta, loc>>
  PROVE  Typed' /\ Segment'
<1>1. PICK offset \in 1 .. WarpSize :
        /\ \A t \in LanesOf(w) : Running(t, "shuffle") /\ reg[t].stride = offset
        /\ reg' = [t \in Threads |->
                     IF t \in LanesOf(w)
                     THEN [reg[t] EXCEPT !.value = @ (+) ShflDown(t, offset),
                                         !.stride = offset \div 2]
                     ELSE reg[t]]
        /\ UNCHANGED <<pc, waiting, reduction, accesses>>
  BY DEF Shuffle
<1>2. /\ DOMAIN reg' = Threads
      /\ \A t \in Threads \ LanesOf(w) : reg'[t] = reg[t]
      /\ \A t \in Threads : DOMAIN reg'[t] = RegFields
      /\ \A t \in LanesOf(w) : t \in Threads => reg'[t]["stride"] = offset \div 2 /\ reg'[t]["then"] = reg[t]["then"]
  BY <1>1 DEF Typed, RegFields
<1>3. Typed'
  BY <1>1, <1>2 DEF Typed
<1>4. offset \div 2 \in Nat
  BY WarpAssumption
<1>5. \A t \in LanesOf(w) : t \in Threads /\ t \notin waiting /\ pc[t] = "shuffle"
  BY <1>1 DEF LanesOf, Running
<1>6. LanesOf(w) # {}
  BY WarpsHaveLanes
<1>7. Valid /\ (\A t \in Threads : InScores(t)) /\ (\A a \in accesses : ScoresAccess(a))
  BY <1>5, <1>6 DEF Segment, InReturnAtOnce, InMax, InTree, InReturn, InDenom, InProb, InEnd, At, WaitsAt, Running
<1>8. ASSUME NEW t \in Threads  PROVE InScores(t)'
  <2>1. CASE t \in LanesOf(w)
    <3>1. reg[t].then = "store_score" /\ HoldsToken(t)
      BY <1>5, <1>7, <2>1 DEF InScores, At, WaitsAt, Running
    <3>. QED  BY <3>1, <2>1, <1>1, <1>2, <1>4, <1>5 DEF InScores, Running, HoldsToken, Strides
  <2>2. CASE t \notin LanesOf(w)
    <3>1. Untouched(t)
      BY <2>2, <1>1, <1>2 DEF Untouched
    <3>. QED  BY <3>1, <1>7, OthersStay
  <2>. QED  BY <2>1, <2>2
<1>. QED  BY <1>1, <1>3, <1>7, <1>8 DEF Segment, Valid

(* A barrier opens when all threads are through with the segment, and they  *)
(* start the next one together.                                             *)
LEMMA ReleaseStarts ==
  ASSUME Typed, Segment, Release, UNCHANGED <<cta, loc>>
  PROVE  Typed' /\ Segment'
<1>1. /\ pc' = pc /\ reg' = reg /\ waiting' = {} /\ accesses' = {}
      /\ waiting # {} /\ waiting \subseteq Threads
      /\ \A t \in Threads : t \in waiting \/ pc[t] = "exit"
  BY DEF Release, Exited, Typed
<1>2. Typed' /\ (Valid <=> Valid')
  BY <1>1 DEF Typed, Valid
<1>3. \A t, statement, stride : WaitsAt(t, statement, stride) => At(t, statement, stride)'
  BY <1>1 DEF WaitsAt, At, Running
<1>4. \A t, kind, then : Reducing(t, kind, then) => Reducing(t, kind, then)'
  BY <1>1 DEF Reducing
<1>. DEFINE half == ThreadsPerHead \div 2
            Reached(kind, then, stride) ==
              \A t \in Threads : WaitsAt(t, "reduce_tree", stride) /\ Reducing(t, kind, then)
<1>5. half \in Nat /\ half <= ThreadsPerHead /\ ThreadsPerHead \in Nat
  BY <1>1, WarpsAndLanes
<1>6. ASSUME NEW kind, NEW then, NEW next, NEW stride \in 0 .. ThreadsPerHead,
             Reached(kind, then, stride), Valid,
             \/ kind = "max" /\ then = "share_max" /\ next = "load_max"
             \/ kind = "sum" /\ then = "share_denom" /\ next = "load_denom"
      PROVE  Segment'
  <2>1. CASE stride = 0
    <3>1. \A t \in Threads : InReturn(t, kind, then, next)'
      BY <1>3, <1>4, <1>6, <2>1 DEF InReturn
    <3>. QED  BY <1>1, <1>2, <1>6, <3>1 DEF Segment
  <2>2. CASE stride # 0
    <3>1. \A t \in Threads : InTree(t, kind, then, stride)'
      BY <1>3, <1>4, <1>6 DEF InTree
    <3>2. stride \in 1 .. ThreadsPerHead
      BY <2>2, <1>5
    <3>3. <<kind, then>> \in {<<"max", "share_max">>, <<"sum", "share_denom">>}
          /\ <<kind, then>>[1] = kind /\ <<kind, then>>[2] = then
      BY <1>6
    <3>. QED  BY <1>1, <1>2, <1>6, <3>1, <3>2, <3>3 DEF Segment
  <2>. QED  BY <2>1, <2>2
<1>. HIDE DEF half
<1>7. CASE ~Valid \/ \A t \in Threads : InEnd(t)
  BY <1>1, <1>7 DEF Segment, InReturnAtOnce, InEnd
<1>8. CASE Valid /\ \A t \in Threads : InScores(t)
  <2>1. \A t \in Threads : WaitsAt(t, "max", 0)
    BY <1>1, <1>8 DEF InScores, At, Running
  <2>. QED  BY <1>1, <1>2, <1>3, <1>8, <2>1 DEF Segment, InMax
<1>9. CASE Valid /\ \A t \in Threads : InMax(t)
  <2>1. Reached("max", "share_max", half)
    BY <1>1, <1>9 DEF InMax, At, Running, half
  <2>. QED  BY <1>2, <1>5, <1>6, <1>9, <2>1
<1>10. ASSUME NEW kt \in {<<"max", "share_max">>, <<"sum", "share_denom">>},
              NEW stride \in 1 .. ThreadsPerHead, Valid,
              \A t \in Threads : InTree(t, kt[1], kt[2], stride)
       PROVE  Segment'
  <2>1. PICK next : \/ kt[1] = "max" /\ kt[2] = "share_max" /\ next = "load_max"
                    \/ kt[1] = "sum" /\ kt[2] = "share_denom" /\ next = "load_denom"
    OBVIOUS
  <2>2. stride \div 2 \in 0 .. ThreadsPerHead
    BY <1>5
  <2>3. Reached(kt[1], kt[2], stride \div 2)
    BY <1>1, <1>10 DEF InTree, At, Running
  <2>. QED  BY <1>6, <1>10, <2>1, <2>2, <2>3
<1>11. CASE Valid /\ \A t \in Threads : InReturn(t, "max", "share_max", "load_max")
  <2>1. \A t \in Threads : WaitsAt(t, "load_max", 0)
    BY <1>1, <1>11 DEF InReturn, At, Running
  <2>. QED  BY <1>1, <1>2, <1>3, <1>11, <2>1 DEF Segment, InDenom
<1>12. CASE Valid /\ \A t \in Threads : InReturn(t, "sum", "share_denom", "load_denom")
  <2>1. \A t \in Threads : WaitsAt(t, "load_denom", 0)
    BY <1>1, <1>12 DEF InReturn, At, Running
  <2>. QED  BY <1>1, <1>2, <1>3, <1>12, <2>1 DEF Segment, InProb
<1>13. CASE Valid /\ \A t \in Threads : InDenom(t)
  <2>1. Reached("sum", "share_denom", half)
    BY <1>1, <1>13 DEF InDenom, At, Running, half
  <2>. QED  BY <1>2, <1>5, <1>6, <1>13, <2>1
<1>14. CASE Valid /\ \A t \in Threads : InProb(t)
  <2>1. \A t \in Threads : WaitsAt(t, "output", 0)
    BY <1>1, <1>14 DEF InProb, At, Running
  <2>2. \A t \in Threads : InEnd(t)'
    BY <1>3, <2>1 DEF InEnd, At, Running
  <2>. QED  BY <1>1, <1>2, <1>14, <2>2 DEF Segment
<1>. QED  BY <1>2, <1>7, <1>8, <1>9, <1>10, <1>11, <1>12, <1>13, <1>14 DEF Segment

-----------------------------------------------------------------------------
(* The theorems *)

(* The block starts in its first segment.                                   *)
LEMMA KInvInit == Init => KInv
<1>. SUFFICES ASSUME Init  PROVE KInv
  OBVIOUS
<1>. USE DEF Init, BlockInit
<1>1. Typed
  BY DEF Typed, RegFields, LocFields
<1>2. \A t \in Threads : t \notin waiting /\ pc[t] = "enter" /\ reg[t].stride = 0
  OBVIOUS
<1>3. accesses = {}
  OBVIOUS
<1>4. (\A t \in Threads : InScores(t)) /\ (\A t \in Threads : InReturnAtOnce(t))
  BY <1>2 DEF InScores, InReturnAtOnce, At, Running
<1>5. RowTyped
  BY DEF RowTyped
<1>. QED  BY <1>1, <1>3, <1>4, <1>5 DEF KInv, Segment

(* Every step keeps the invariant.                                          *)
LEMMA KInvStep == KInv /\ [Next]_vars => KInv'
<1>. SUFFICES ASSUME KInv, [Next]_vars  PROVE KInv'
  OBVIOUS
<1>. USE DEF KInv, RowTyped
<1>1. ASSUME NEW t \in Threads, Statement(t) \/ BlockStep(t)
      PROVE  KInv'
  <2>1. Alone(t)
    BY <1>1, StatementsAlone, BlockStepsAlone
  <2>2. Segment'
    BY <1>1, <2>1, OneStatement, SegmentStays
  <2>. QED  BY <2>1, <2>2 DEF Alone
<1>2. ASSUME NEW w \in 0 .. WarpsPerBlock - 1, Shuffle(w), UNCHANGED <<cta, loc, shared, output>>
      PROVE  KInv'
  BY <1>2, ShuffleStays
<1>3. CASE Release /\ UNCHANGED <<cta, loc, shared, output>>
  BY <1>3, ReleaseStarts
<1>4. CASE UNCHANGED vars
  <2>1. \A t \in Threads : Untouched(t)
    BY <1>4 DEF vars, block_vars, Untouched
  <2>2. Typed'
    BY <1>4 DEF vars, block_vars, Typed
  <2>3. Segment'
    <3>1. accesses' = accesses /\ cta' = cta /\ (Valid <=> Valid')
      BY <1>4 DEF vars, block_vars, Valid
    <3>2. \A a \in accesses : EndAccess(a) => EndAccess(a)'
      BY <3>1, EndAccessStays
    <3>3. CASE (\A t \in Threads : InReturnAtOnce(t)) /\ accesses = {} /\ ~Valid
      BY <3>1, <3>3, <2>1, OthersStay DEF Segment
    <3>4. CASE Valid
      BY <3>1, <3>2, <3>4, <2>1, OthersStay, SMTT(30) DEF Segment
    <3>. QED  BY <3>3, <3>4 DEF Segment
  <2>. QED  BY <1>4, <2>2, <2>3 DEF vars
<1>. QED  BY <1>1, <1>2, <1>3, <1>4 DEF Next, BlockReduce, WarpReduce, BlockStep

(* The threads of the batched kernel are always in one segment.             *)
LEMMA KInvInvariant == Spec => []KInv
  BY KInvInit, KInvStep, PTL DEF Spec

(* No segment has a race.                                                   *)
LEMMA SegmentsDoNotRace == KInv => NoDataRace
<1>. SUFFICES ASSUME KInv, NEW a \in accesses, NEW b \in accesses, a.thread # b.thread, a.cell = b.cell
              PROVE  ~a.write /\ ~b.write
  BY DEF NoDataRace
<1>1. CASE ScoresAccess(a) /\ ScoresAccess(b)
  <2>1. WarpOf(a.thread) = WarpOf(b.thread)
    BY <1>1, WarpsAndLanes, WarpAssumption, OneOnStride DEF ScoresAccess, OwnScore
  <2>. QED  BY <1>1, <2>1, WarpsAndLanes DEF ScoresAccess
<1>2. CASE MaxAccess(a) /\ MaxAccess(b)
  BY <1>2 DEF MaxAccess, ReadsScore
<1>3. ASSUME NEW kind, NEW stride \in Nat, TreeAccess(a, kind, stride), TreeAccess(b, kind, stride)
      PROVE  ~a.write /\ ~b.write
  <2>1. a.thread \in Nat /\ b.thread \in Nat
    BY <1>3, WarpsAndLanes DEF TreeAccess
  <2>. QED  BY <1>3, <2>1 DEF TreeAccess
<1>4. ASSUME NEW kind, NEW field, kind # field, ReturnAccess(a, kind, field), ReturnAccess(b, kind, field)
      PROVE  ~a.write /\ ~b.write
  BY <1>4 DEF ReturnAccess
<1>5. CASE DenomAccess(a) /\ DenomAccess(b)
  BY <1>5 DEF DenomAccess, ReadsScore
<1>6. CASE ProbAccess(a) /\ ProbAccess(b)
  <2>1. CASE a.cell[1] = "scores"
    <3>1. /\ a.thread \in 0 .. ThreadsPerHead - 1 /\ b.thread \in 0 .. ThreadsPerHead - 1
          /\ OwnScore(a, a.thread, ThreadsPerHead) /\ OwnScore(b, b.thread, ThreadsPerHead)
      BY <1>6, <2>1 DEF ProbAccess, Threads
    <3>. QED  BY <3>1, WarpsAndLanes, OneOnStride DEF OwnScore, Threads
  <2>2. CASE a.cell[1] # "scores"
    BY <1>6, <2>2 DEF ProbAccess, OwnScore
  <2>. QED  BY <2>1, <2>2
<1>7. CASE EndAccess(a) /\ EndAccess(b)
  <2>1. CASE a.cell[1] = "scores"
    BY <1>7, <2>1 DEF EndAccess, ReadsScore
  <2>2. CASE a.cell[1] # "scores"
    <3>. DEFINE Writes(acc, d, q) ==
                  q = QIdx(d) /\ acc.cell = <<"output", q>> /\ d % ThreadsPerHead = acc.thread
    <3>1. PICK d, q : d \in 0 .. HeadDim - 1 /\ Writes(a, d, q)
      BY <1>7, <2>2 DEF EndAccess, ReadsScore
    <3>2. PICK e, r : e \in 0 .. HeadDim - 1 /\ Writes(b, e, r)
      BY <1>7, <2>2 DEF EndAccess, ReadsScore
    <3>3. q = r
      <4>1. <<"output", q>> = <<"output", r>>
        BY <3>1, <3>2
      <4>. QED  BY <4>1
    <3>4. (cta.sequence_id * NumQueryHeads + cta.query_head_id) * HeadDim \in Int
      BY LaunchAssumption DEF KInv, RowTyped
    <3>5. d = e
      BY <3>1, <3>2, <3>3, <3>4, LaunchAssumption DEF QIdx
    <3>. QED  BY <3>1, <3>2, <3>5
  <2>. QED  BY <2>1, <2>2
<1>. QED  BY <1>1, <1>2, <1>3, <1>4, <1>5, <1>6, <1>7 DEF KInv, Segment

(* In the batched kernel that the bindings launch no two threads of a block *)
(* touch a cell of shared memory or an element of the output between two    *)
(* barriers when one of them writes it, whatever the number and size of the *)
(* warps, the head dimension, the length of the sequence and the schedule.  *)
THEOREM NobodyRaces == Spec => []NoDataRace
  BY KInvInvariant, SegmentsDoNotRace, PTL

(* Each segment has one barrier at its end.                                 *)
LEMMA SegmentsMeet == KInv => BarriersConverge
<1>. SUFFICES ASSUME KInv, NEW t \in waiting
              PROVE  Exited = {} /\ \A u \in waiting : pc[u] = pc[t] /\ reg[u].stride = reg[t].stride
  BY DEF BarriersConverge
<1>1. t \in Threads /\ waiting \subseteq Threads
  BY DEF KInv, Typed
<1>2. \A u \in Threads : pc[u] # "exit"
  BY <1>1 DEF KInv, Segment, InReturnAtOnce, InScores, InMax, InTree, InReturn, InDenom, InProb, InEnd, At, WaitsAt, Running
<1>3. ASSUME NEW u \in waiting  PROVE pc[u] = pc[t] /\ reg[u].stride = reg[t].stride
  BY <1>1 DEF KInv, Segment, InReturnAtOnce, InScores, InMax, InTree, InReturn, InDenom, InProb, InEnd, At, WaitsAt, Running
<1>. QED  BY <1>2, <1>3 DEF Exited

(* All threads that wait in __syncthreads wait in the same one, in the same *)
(* round of its loop, and no thread of the block has returned meanwhile.    *)
THEOREM ThreadsMeet == Spec => []BarriersConverge
  BY KInvInvariant, SegmentsMeet, PTL

-----------------------------------------------------------------------------
(* The segments of the kernel for a single sequence *)

At3(t, statement, position) == At(t, statement, 0) /\ loc[t].token_pos = position

WaitsAt3(t, statement, stride, position) ==
  WaitsAt(t, statement, stride) /\ loc[t].token_pos = position

Summing(t) == Reducing(t, "sum", "store_score")

(* Round number `position` of the loop over tokens: all threads read the    *)
(* maximum of the last round and bring their products of the next token, or *)
(* find that there is none.                                                 *)
InRound(t, position) ==
  \/ At3(t, "enter", position) \/ At3(t, "load_max", position - 1) \/ At3(t, "qk", position)
  \/ At3(t, "reduce_store", position) /\ Summing(t) /\ position < cta.seq_len
  \/ /\ WaitsAt3(t, "reduce_tree", ThreadsPerHead \div 2, position) /\ Summing(t)
     /\ position < cta.seq_len
  \/ WaitsAt3(t, "load_denom", 0, position) /\ position >= cta.seq_len

InTree3(t, stride, position) ==
  InTree(t, "sum", "store_score", stride) /\ loc[t].token_pos = position

InStore(t, position) ==
  \/ At3(t, "reduce_tree", position) /\ Summing(t)
  \/ At3(t, "store_score", position) \/ WaitsAt3(t, "share_max", 0, position)

InShare(t, position) ==
  At3(t, "share_max", position) \/ WaitsAt3(t, "load_max", 0, position)

InLoadDenom(t) == At(t, "load_denom", 0) \/ WaitsAt(t, "output", 0)

RoundAccess(a) ==
  \/ a.cell = <<"shared_max", 0>> /\ ~a.write
  \/ a.cell = <<"sum", a.thread>>
  \/ a.cell[1] \in {"scores", "shared_denom"} /\ a.thread = 0

StoreAccess(a) ==
  \/ a.cell = <<"sum", 0>> /\ ~a.write
  \/ a.cell[1] = "scores" /\ a.thread = 0

ShareAccess(a) == a.thread = 0

LoadDenomAccess(a) == ~a.write

EndAccess3(a) ==
  \/ ReadsScore(a)
  \/ /\ a.thread \in Threads
     /\ \E d \in 0 .. HeadDim - 1 :
          a.cell = <<"output", V3!QIdx(d)>> /\ d % ThreadsPerHead = a.thread

Segment3 ==
  \/ \E position \in Nat :
       \/ (\A t \in Threads : InRound(t, position)) /\ (\A a \in accesses : RoundAccess(a))
       \/ \E stride \in 1 .. ThreadsPerHead :
            /\ \A t \in Threads : InTree3(t, stride, position)
            /\ \A a \in accesses : TreeAccess(a, "sum", stride)
       \/ (\A t \in Threads : InStore(t, position)) /\ (\A a \in accesses : StoreAccess(a))
       \/ (\A t \in Threads : InShare(t, position)) /\ (\A a \in accesses : ShareAccess(a))
  \/ (\A t \in Threads : InLoadDenom(t)) /\ (\A a \in accesses : LoadDenomAccess(a))
  \/ (\A t \in Threads : InEnd(t)) /\ (\A a \in accesses : EndAccess3(a))

RowTyped3 == cta.head_id \in Int /\ cta.seq_len \in Int

KInv3 == Typed /\ RowTyped3 /\ Segment3

-----------------------------------------------------------------------------
(* Its steps *)

(* Both kernels are built from the same steps of a thread block.            *)
LEMMA SameThreads == V3!Threads = Threads /\ V3!ThreadsPerHead = ThreadsPerHead
  BY DEF V3!Threads, V3!ThreadsPerHead, Threads, ThreadsPerHead

(* The steps of the two instances of ThreadBlock are the same.              *)
LEMMA SameSteps ==
  /\ \A t, s : V3!Running(t, s) <=> Running(t, s)
  /\ \A t, s : V3!Goto(t, s) <=> Goto(t, s)
  /\ \A t, s : V3!SyncThen(t, s) <=> SyncThen(t, s)
  /\ \A t, fields : V3!Set(t, fields) <=> Set(t, fields)
  /\ \A t, fields : V3!SetLoc(t, fields) <=> SetLoc(t, fields)
  /\ \A t, reads, writes : V3!Touches(t, reads, writes) <=> Touches(t, reads, writes)
  /\ V3!TouchesNothing <=> TouchesNothing
<1>1. \A t, s : V3!Running(t, s) <=> Running(t, s)
  BY DEF V3!Running, Running
<1>2. \A t, s : V3!Goto(t, s) <=> Goto(t, s)
  BY DEF V3!Goto, Goto
<1>3. \A t, s : V3!SyncThen(t, s) <=> SyncThen(t, s)
  BY DEF V3!SyncThen, SyncThen
<1>4. \A t, fields : V3!Set(t, fields) <=> Set(t, fields)
  BY DEF V3!Set, Set
<1>5. \A t, fields : V3!SetLoc(t, fields) <=> SetLoc(t, fields)
  BY DEF V3!SetLoc, SetLoc
<1>6. \A t, reads, writes : V3!Touches(t, reads, writes) <=> Touches(t, reads, writes)
  BY DEF V3!Touches, Touches, V3!Access, Access
<1>7. V3!TouchesNothing <=> TouchesNothing
  BY DEF V3!TouchesNothing, TouchesNothing
<1>. QED  BY <1>1, <1>2, <1>3, <1>4, <1>5, <1>6, <1>7

(* Their reductions too, but for what the tree combines.                    *)
LEMMA SameCalls ==
  /\ \A t, kind, value, then : V3!CallBlockReduce(t, kind, value, then) <=> CallBlockReduce(t, kind, value, then)
  /\ \A t : V3!ReduceStore(t) <=> ReduceStore(t)
  /\ \A t : V3!ReduceTree(t) => Halves(t)
  /\ \A t : V3!ReduceReturn(t) <=> ReduceReturn(t)
  /\ V3!Release <=> Release
<1>. USE SameSteps, SameThreads
<1>0. \A t, i : V3!Cell(t, i) = Cell(t, i)
  BY DEF V3!Cell, Cell
<1>1. \A t, kind, value, then : V3!CallBlockReduce(t, kind, value, then) <=> CallBlockReduce(t, kind, value, then)
  BY DEF V3!CallBlockReduce, CallBlockReduce
<1>2. \A t : V3!ReduceStore(t) <=> ReduceStore(t)
  BY <1>0 DEF V3!ReduceStore, ReduceStore
<1>3. \A t : V3!ReduceTree(t) => Halves(t)
  BY <1>0 DEF V3!ReduceTree, Halves
<1>4. \A t : V3!ReduceReturn(t) <=> ReduceReturn(t)
  BY <1>0 DEF V3!ReduceReturn, ReduceReturn
<1>5. V3!Release <=> Release
  BY DEF V3!Release, Release, V3!Exited, Exited
<1>. QED  BY <1>1, <1>2, <1>3, <1>4, <1>5

BlockStep3(t) ==
  /\ V3!ReduceStore(t) \/ V3!ReduceTree(t) \/ V3!ReduceReturn(t)
  /\ UNCHANGED <<cta, loc, shared, output>>

StepsFrom3(t) ==
  /\ t \notin waiting
  /\ \/ pc[t] = "enter" /\ V3!Enter(t)
     \/ pc[t] = "qk" /\ (V3!QK(t) \/ V3!Denominator(t))
     \/ pc[t] = "store_score" /\ V3!StoreScore(t)
     \/ pc[t] = "share_max" /\ V3!ShareMax(t)
     \/ pc[t] = "load_max" /\ V3!LoadMax(t)
     \/ pc[t] = "load_denom" /\ V3!LoadDenom(t)
     \/ pc[t] = "output" /\ V3!Branch(t)
     \/ pc[t] = "zeros" /\ V3!WriteZeros(t)
     \/ pc[t] = "v" /\ (V3!AccumulateV(t) \/ V3!WriteOutput(t))
     \/ pc[t] = "reduce_store" /\ ReduceStore(t) /\ loc' = loc
     \/ pc[t] = "reduce_tree" /\ reg[t].stride > 0 /\ Halves(t) /\ loc' = loc
     \/ pc[t] = "reduce_tree" /\ reg[t].stride = 0 /\ ReduceReturn(t) /\ loc' = loc

(* The program counter says which step a thread takes.                      *)
LEMMA OneStatement3 ==
  ASSUME NEW t \in Threads, V3!Statement(t) \/ BlockStep3(t)
  PROVE  StepsFrom3(t)
<1>. USE SameSteps
<1>1. CASE V3!Enter(t) \/ V3!QK(t) \/ V3!Denominator(t) \/ V3!StoreScore(t)
  BY <1>1 DEF V3!Enter, V3!QK, V3!Denominator, V3!StoreScore, Running, StepsFrom3
<1>2. CASE V3!ShareMax(t) \/ V3!LoadMax(t) \/ V3!LoadDenom(t)
  BY <1>2 DEF V3!ShareMax, V3!LoadMax, V3!LoadDenom, Running, StepsFrom3
<1>3. CASE V3!Branch(t) \/ V3!WriteZeros(t)
  BY <1>3 DEF V3!Branch, V3!WriteZeros, Running, StepsFrom3
<1>4. CASE V3!AccumulateV(t) \/ V3!WriteOutput(t)
  BY <1>4 DEF V3!AccumulateV, V3!WriteOutput, Running, StepsFrom3
<1>5. CASE BlockStep3(t)
  <2>1. loc' = loc
    BY <1>5 DEF BlockStep3
  <2>2. CASE ReduceStore(t)
    BY <2>1, <2>2 DEF ReduceStore, Running, StepsFrom3
  <2>3. CASE V3!ReduceTree(t)
    <3>1. Halves(t) /\ reg[t].stride > 0
      BY <2>3, SameCalls DEF V3!ReduceTree
    <3>. QED  BY <2>1, <3>1 DEF Halves, Running, StepsFrom3
  <2>4. CASE ReduceReturn(t)
    BY <2>1, <2>4 DEF ReduceReturn, Running, StepsFrom3
  <2>. QED  BY <1>5, <2>2, <2>3, <2>4, SameCalls DEF BlockStep3
<1>. QED  BY <1>1, <1>2, <1>3, <1>4, <1>5 DEF V3!Statement

(* Every step changes only its thread.                                      *)
LEMMA StepsAlone3 ==
  ASSUME Typed, NEW t \in Threads, V3!Statement(t) \/ BlockStep3(t)
  PROVE  Alone(t)
<1>. USE SameSteps, AloneByParts
<1>1. CASE V3!Enter(t)
  BY <1>1 DEF V3!Enter
<1>2. CASE V3!QK(t)
  BY <1>2, SameCalls DEF V3!QK, CallBlockReduce
<1>3. CASE V3!StoreScore(t)
  BY <1>3 DEF V3!StoreScore
<1>4. CASE V3!ShareMax(t)
  BY <1>4 DEF V3!ShareMax
<1>5. CASE V3!LoadMax(t)
  BY <1>5 DEF V3!LoadMax
<1>6. CASE V3!Denominator(t)
  <2>1. (\E s : SyncThen(t, s)) /\ UNCHANGED <<reg, cta, loc>>
    BY <1>6 DEF V3!Denominator
  <2>. QED  BY <2>1
<1>7. CASE V3!LoadDenom(t)
  BY <1>7 DEF V3!LoadDenom
<1>8. CASE V3!Branch(t)
  BY <1>8 DEF V3!Branch
<1>9. CASE V3!WriteZeros(t)
  BY <1>9 DEF V3!WriteZeros
<1>10. CASE V3!AccumulateV(t)
  BY <1>10 DEF V3!AccumulateV
<1>11. CASE V3!WriteOutput(t)
  BY <1>11 DEF V3!WriteOutput
<1>12. CASE BlockStep3(t)
  BY <1>12, SameCalls DEF BlockStep3, ReduceStore, Halves, ReduceReturn
<1>. QED  BY <1>1, <1>2, <1>3, <1>4, <1>5, <1>6, <1>7, <1>8, <1>9, <1>10, <1>11, <1>12 DEF V3!Statement

(* What thread 0 alone carries out.                                         *)
LEMMA OnThread0Touches ==
  ASSUME NEW t, NEW field, NEW value, NEW reads, NEW cell,
         V3!OnThread0(t, field, value, reads, cell), NEW a \in accesses'
  PROVE  \/ a \in accesses
         \/ a.thread = 0 /\ a.cell \in reads /\ ~a.write
         \/ a.thread = 0 /\ a.cell = cell /\ a.write
<1>1. CASE t = 0 /\ Touches(t, reads, {cell})
  BY <1>1, Touched
<1>2. CASE TouchesNothing
  BY <1>2 DEF TouchesNothing
<1>. QED  BY <1>1, <1>2, SameSteps DEF V3!OnThread0

(* A round: the products of a token, or the denominator after the last.     *)
LEMMA RoundStays ==
  ASSUME Typed, NEW t \in Threads, NEW position \in Nat, StepsFrom3(t), InRound(t, position),
         cta' = cta
  PROVE  InRound(t, position)' /\ \A a \in accesses' : a \in accesses \/ RoundAccess(a)
<1>. USE DEF Typed, At3, WaitsAt3, Summing
<1>1. CASE V3!Enter(t)
  <2>1. t \notin waiting /\ reg[t].stride = 0 /\ loc[t].token_pos = position
    BY <1>1, SameSteps DEF InRound, V3!Enter, At, Running, WaitsAt
  <2>2. pc'[t] = "qk" /\ waiting' = waiting /\ reg' = reg /\ loc' = loc /\ accesses' = accesses
    BY <1>1, SameSteps, GotoKeeps DEF V3!Enter, TouchesNothing
  <2>. QED  BY <2>1, <2>2 DEF InRound, At, Running
<1>2. CASE V3!LoadMax(t)
  <2>1. t \notin waiting /\ reg[t].stride = 0 /\ loc[t].token_pos = position - 1
    BY <1>2, SameSteps DEF InRound, V3!LoadMax, At, Running, WaitsAt
  <2>2. pc'[t] = "qk" /\ waiting' = waiting /\ reg' = reg
    BY <1>2, SameSteps, GotoKeeps DEF V3!LoadMax
  <2>3. loc'[t]["token_pos"] = position
    BY <1>2, <2>1, SameSteps, SetLocKeeps DEF V3!LoadMax, LocFields
  <2>4. ASSUME NEW a \in accesses'  PROVE a \in accesses \/ RoundAccess(a)
    <3>1. a \in accesses \/ (a.cell = <<"shared_max", 0>> /\ ~a.write)
      BY <1>2, SameSteps, Touched DEF V3!LoadMax
    <3>. QED  BY <3>1 DEF RoundAccess
  <2>. QED  BY <2>1, <2>2, <2>3, <2>4 DEF InRound, At, Running
<1>3. CASE V3!QK(t)
  <2>1. t \notin waiting /\ reg[t].stride = 0 /\ loc[t].token_pos = position
    BY <1>3, SameSteps DEF InRound, V3!QK, At, Running, WaitsAt
  <2>2. accesses' = accesses /\ loc' = loc /\ position < cta.seq_len
    BY <1>3, <2>1, SameSteps DEF V3!QK, TouchesNothing
  <2>3. /\ pc'[t] = "reduce_store" /\ waiting' = waiting
        /\ reg'[t]["stride"] = reg[t]["stride"] /\ Reducing(t, "sum", "store_score")'
    <3>1. \E value : CallBlockReduce(t, "sum", value, "store_score")
      BY <1>3, SameCalls DEF V3!QK
    <3>. QED  BY <3>1, Calling
  <2>. QED  BY <2>1, <2>2, <2>3 DEF InRound, At, Running
<1>4. CASE V3!Denominator(t)
  <2>1. t \notin waiting /\ reg[t].stride = 0 /\ loc[t].token_pos = position
    BY <1>4, SameSteps DEF InRound, V3!Denominator, At, Running, WaitsAt
  <2>2. pc'[t] = "load_denom" /\ t \in waiting' /\ reg' = reg /\ loc' = loc /\ position >= cta.seq_len
    BY <1>4, <2>1, SameSteps, SyncKeeps DEF V3!Denominator
  <2>3. ASSUME NEW a \in accesses'  PROVE a \in accesses \/ RoundAccess(a)
    <3>1. PICK value : V3!OnThread0(t, "shared_denom", value,
                         {V3!ScoreCell(token) : token \in 0 .. cta.seq_len - 1}, <<"shared_denom", 0>>)
      BY <1>4 DEF V3!Denominator
    <3>2. \/ a \in accesses
          \/ a.thread = 0 /\ \E token : a.cell = V3!ScoreCell(token)
          \/ a.thread = 0 /\ a.cell = <<"shared_denom", 0>>
      BY <3>1, OnThread0Touches
    <3>. QED  BY <3>2 DEF RoundAccess, V3!ScoreCell
  <2>. QED  BY <2>1, <2>2, <2>3 DEF InRound, WaitsAt
<1>5. CASE ReduceStore(t) /\ loc' = loc
  <2>1. Reducing(t, "sum", "store_score") /\ loc[t].token_pos = position /\ position < cta.seq_len
    BY <1>5 DEF InRound, ReduceStore, At, Running, WaitsAt
  <2>. QED  BY <1>5, <2>1, Storing DEF InRound, RoundAccess
<1>. QED  BY <1>1, <1>2, <1>3, <1>4, <1>5 DEF StepsFrom3, InRound, At, Running, WaitsAt

(* The score of the token: all read the sum, thread 0 stores it.            *)
LEMMA StoreStays ==
  ASSUME Typed, NEW t \in Threads, NEW position \in Nat, StepsFrom3(t), InStore(t, position)
  PROVE  InStore(t, position)' /\ \A a \in accesses' : a \in accesses \/ StoreAccess(a)
<1>. USE DEF Typed, At3, WaitsAt3, Summing
<1>1. CASE ReduceReturn(t) /\ loc' = loc
  <2>1. t \notin waiting /\ reg[t].stride = 0 /\ Reducing(t, "sum", "store_score") /\ loc[t].token_pos = position
    BY <1>1 DEF InStore, ReduceReturn, At, Running, WaitsAt
  <2>2. pc'[t] = "store_score" /\ waiting' = waiting
    BY <1>1, <2>1, GotoKeeps DEF ReduceReturn, Reducing
  <2>3. reg'[t]["stride"] = reg[t]["stride"]
    BY <1>1, SetKeeps DEF ReduceReturn, RegFields
  <2>4. ASSUME NEW a \in accesses'  PROVE a \in accesses \/ StoreAccess(a)
    <3>1. a \in accesses \/ (a.cell = Cell(t, 0) /\ ~a.write)
      BY <1>1, Touched DEF ReduceReturn
    <3>. QED  BY <3>1, <2>1 DEF StoreAccess, Cell, Reducing
  <2>. QED  BY <1>1, <2>1, <2>2, <2>3, <2>4 DEF InStore, At, Running
<1>2. CASE V3!StoreScore(t)
  <2>1. t \notin waiting /\ reg[t].stride = 0 /\ loc[t].token_pos = position
    BY <1>2, SameSteps DEF InStore, V3!StoreScore, At, Running, WaitsAt
  <2>2. pc'[t] = "share_max" /\ t \in waiting' /\ reg' = reg
    BY <1>2, SameSteps, SyncKeeps DEF V3!StoreScore
  <2>3. loc'[t]["token_pos"] = position
    BY <1>2, <2>1, SameSteps, SetLocKeeps DEF V3!StoreScore, LocFields
  <2>4. ASSUME NEW a \in accesses'  PROVE a \in accesses \/ StoreAccess(a)
    <3>1. \E value : V3!OnThread0(t, "scores", value, {}, V3!ScoreCell(loc[t].token_pos))
      BY <1>2 DEF V3!StoreScore
    <3>2. a \in accesses \/ (a.thread = 0 /\ a.cell = V3!ScoreCell(loc[t].token_pos))
      BY <3>1, OnThread0Touches
    <3>. QED  BY <3>2 DEF StoreAccess, V3!ScoreCell
  <2>. QED  BY <2>1, <2>2, <2>3, <2>4 DEF InStore, WaitsAt
<1>. QED  BY <1>1, <1>2 DEF StepsFrom3, InStore, At, Running, WaitsAt

(* Thread 0 shares the maximum so far.                                      *)
LEMMA ShareStays ==
  ASSUME Typed, NEW t \in Threads, NEW position \in Nat, StepsFrom3(t), InShare(t, position)
  PROVE  InShare(t, position)' /\ \A a \in accesses' : a \in accesses \/ ShareAccess(a)
<1>. USE DEF Typed, At3, WaitsAt3
<1>1. V3!ShareMax(t)
  BY DEF StepsFrom3, InShare, At, Running, WaitsAt
<1>2. t \notin waiting /\ reg[t].stride = 0 /\ loc[t].token_pos = position
  BY <1>1, SameSteps DEF InShare, V3!ShareMax, At, Running, WaitsAt
<1>3. pc'[t] = "load_max" /\ t \in waiting' /\ reg' = reg /\ loc' = loc
  BY <1>1, SameSteps, SyncKeeps DEF V3!ShareMax
<1>4. ASSUME NEW a \in accesses'  PROVE a \in accesses \/ ShareAccess(a)
  <2>1. a \in accesses \/ a.thread = 0
    BY <1>1, OnThread0Touches DEF V3!ShareMax
  <2>. QED  BY <2>1 DEF ShareAccess
<1>. QED  BY <1>2, <1>3, <1>4 DEF InShare, WaitsAt

(* All read the denominator.                                                *)
LEMMA LoadDenomStays ==
  ASSUME Typed, NEW t \in Threads, StepsFrom3(t), InLoadDenom(t)
  PROVE  InLoadDenom(t)' /\ \A a \in accesses' : a \in accesses \/ LoadDenomAccess(a)
<1>. USE DEF Typed
<1>1. V3!LoadDenom(t)
  BY DEF StepsFrom3, InLoadDenom, At, Running, WaitsAt
<1>2. t \notin waiting /\ reg[t].stride = 0
  BY <1>1, SameSteps DEF InLoadDenom, V3!LoadDenom, At, Running, WaitsAt
<1>3. pc'[t] = "output" /\ t \in waiting' /\ reg' = reg
  BY <1>1, SameSteps, SyncKeeps DEF V3!LoadDenom
<1>4. ASSUME NEW a \in accesses'  PROVE a \in accesses \/ LoadDenomAccess(a)
  <2>1. a \in accesses \/ ~a.write
    BY <1>1, SameSteps, Touched DEF V3!LoadDenom
  <2>. QED  BY <2>1 DEF LoadDenomAccess
<1>. QED  BY <1>2, <1>3, <1>4 DEF InLoadDenom, WaitsAt

(* The output, as in the batched kernel.                                    *)
LEMMA EndStays3 ==
  ASSUME Typed, NEW t \in Threads, StepsFrom3(t), InEnd(t)
  PROVE  InEnd(t)' /\ \A a \in accesses' : a \in accesses \/ EndAccess3(a)
<1>. USE SameSteps DEF Typed
<1>w. t \in Nat /\ t < ThreadsPerHead /\ ThreadsPerHead \in Nat \ {0} /\ HeadDim \in Nat
  BY WarpsAndLanes, LaunchAssumption
<1>1. CASE V3!Branch(t)
  <2>1. /\ pc'[t] \in {"zeros", "exit"} \/ (pc'[t] = "v" /\ t < HeadDim)
        /\ waiting' = waiting /\ accesses' = accesses
    BY <1>1, GotoKeeps DEF V3!Branch, TouchesNothing
  <2>. QED  BY <2>1 DEF InEnd
<1>2. CASE V3!WriteZeros(t)
  <2>1. pc'[t] = "exit" /\ waiting' = waiting
    BY <1>2, GotoKeeps DEF V3!WriteZeros
  <2>2. ASSUME NEW a \in accesses'  PROVE a \in accesses \/ EndAccess3(a)
    <3>. DEFINE own == {V3!QIdx(d) : d \in {x \in 0 .. HeadDim - 1 : x % ThreadsPerHead = t}}
    <3>1. Touches(t, {}, {<<"output", e>> : e \in own})
      BY <1>2, SameThreads DEF V3!WriteZeros
    <3>2. a \in accesses \/ (a.thread = t /\ a.cell \in {<<"output", e>> : e \in own})
      BY <3>1, Touched
    <3>. QED  BY <3>2 DEF EndAccess3
  <2>. QED  BY <2>1, <2>2 DEF InEnd
<1>3. CASE V3!AccumulateV(t)
  <2>1. pc' = pc /\ waiting' = waiting
    BY <1>3 DEF V3!AccumulateV
  <2>2. ASSUME NEW a \in accesses'  PROVE a \in accesses \/ EndAccess3(a)
    <3>1. a \in accesses \/ (a.cell = V3!ScoreCell(loc[t].token_pos) /\ ~a.write)
      BY <1>3, Touched DEF V3!AccumulateV
    <3>. QED  BY <3>1 DEF EndAccess3, ReadsScore, V3!ScoreCell
  <2>. QED  BY <2>1, <2>2 DEF InEnd
<1>4. CASE V3!WriteOutput(t)
  <2>1. pc'[t] = "exit" /\ waiting' = waiting
    BY <1>4, GotoKeeps DEF V3!WriteOutput
  <2>2. ASSUME NEW a \in accesses'  PROVE a \in accesses \/ EndAccess3(a)
    <3>1. a \in accesses \/ (a.thread = t /\ a.cell = <<"output", V3!QIdx(t)>>)
      BY <1>4, Touched DEF V3!WriteOutput
    <3>2. t < HeadDim
      BY <1>4 DEF InEnd, V3!WriteOutput, Running
    <3>3. t \in 0 .. HeadDim - 1 /\ t % ThreadsPerHead = t
      BY <1>w, <3>2
    <3>. QED  BY <3>1, <3>3 DEF EndAccess3
  <2>. QED  BY <2>1, <2>2 DEF InEnd
<1>. QED  BY <1>1, <1>2, <1>3, <1>4 DEF StepsFrom3, InEnd

(* All its threads are in one segment. *)
LEMMA OthersStay3 ==
  ASSUME NEW u, Untouched(u), cta' = cta
  PROVE  /\ \A position : InRound(u, position) => InRound(u, position)'
         /\ \A stride, position : InTree3(u, stride, position) => InTree3(u, stride, position)'
         /\ \A position : InStore(u, position) => InStore(u, position)'
         /\ \A position : InShare(u, position) => InShare(u, position)'
         /\ InLoadDenom(u) => InLoadDenom(u)'
         /\ InEnd(u) => InEnd(u)'
<1>. USE DEF Untouched, At, WaitsAt, Running, Reducing, At3, WaitsAt3, Summing
<1>1. \A position : InRound(u, position) => InRound(u, position)'
  BY DEF InRound
<1>2. \A stride, position : InTree3(u, stride, position) => InTree3(u, stride, position)'
  BY DEF InTree3, InTree
<1>3. \A position : (InStore(u, position) => InStore(u, position)') /\ (InShare(u, position) => InShare(u, position)')
  BY DEF InStore, InShare
<1>4. (InLoadDenom(u) => InLoadDenom(u)') /\ (InEnd(u) => InEnd(u)')
  BY DEF InLoadDenom, InEnd
<1>. QED  BY <1>1, <1>2, <1>3, <1>4

(* No step changes cta.                                                     *)
LEMMA EndAccessStays3 ==
  ASSUME cta' = cta, NEW a, EndAccess3(a)
  PROVE  EndAccess3(a)'
  BY DEF EndAccess3, ReadsScore, V3!QIdx

(* A step of one thread stays in the segment.                               *)
LEMMA SegmentStays3 ==
  ASSUME Typed, Segment3, NEW t \in Threads, StepsFrom3(t), Alone(t)
  PROVE  Segment3'
<1>. USE DEF Alone
<1>1. ASSUME NEW position \in Nat,
             \A u \in Threads : InRound(u, position),
             \A a \in accesses : RoundAccess(a)
      PROVE  Segment3'
  <2>1. InRound(t, position)' /\ \A a \in accesses' : a \in accesses \/ RoundAccess(a)
    BY <1>1, RoundStays
  <2>2. (\A u \in Threads : InRound(u, position)')
    BY <1>1, <2>1, OthersStay3
  <2>3. \A a \in accesses' : RoundAccess(a)
    BY <1>1, <2>1
  <2>. QED  BY <2>2, <2>3 DEF Segment3
<1>2. ASSUME NEW position \in Nat, NEW stride \in 1 .. ThreadsPerHead,
             \A u \in Threads : InTree3(u, stride, position),
             \A a \in accesses : TreeAccess(a, "sum", stride)
      PROVE  Segment3'
  <2>0. stride \in Nat \ {0}
    BY WarpsAndLanes
  <2>1. Halves(t) /\ loc' = loc
    BY <1>2, <2>0 DEF StepsFrom3, InTree3, InTree, At, WaitsAt, Running
  <2>2. InTree3(t, stride, position)' /\ \A a \in accesses' : a \in accesses \/ TreeAccess(a, "sum", stride)
    BY <1>2, <2>0, <2>1, TreeStays DEF InTree3
  <2>3. (\A u \in Threads : InTree3(u, stride, position)')
    BY <1>2, <2>2, OthersStay3
  <2>4. \A a \in accesses' : TreeAccess(a, "sum", stride)
    BY <1>2, <2>2
  <2>. QED  BY <2>3, <2>4 DEF Segment3
<1>3. ASSUME NEW position \in Nat,
             \A u \in Threads : InStore(u, position),
             \A a \in accesses : StoreAccess(a)
      PROVE  Segment3'
  <2>1. InStore(t, position)' /\ \A a \in accesses' : a \in accesses \/ StoreAccess(a)
    BY <1>3, StoreStays
  <2>2. (\A u \in Threads : InStore(u, position)')
    BY <1>3, <2>1, OthersStay3
  <2>3. \A a \in accesses' : StoreAccess(a)
    BY <1>3, <2>1
  <2>. QED  BY <2>2, <2>3 DEF Segment3
<1>4. ASSUME NEW position \in Nat,
             \A u \in Threads : InShare(u, position),
             \A a \in accesses : ShareAccess(a)
      PROVE  Segment3'
  <2>1. InShare(t, position)' /\ \A a \in accesses' : a \in accesses \/ ShareAccess(a)
    BY <1>4, ShareStays
  <2>2. (\A u \in Threads : InShare(u, position)')
    BY <1>4, <2>1, OthersStay3
  <2>3. \A a \in accesses' : ShareAccess(a)
    BY <1>4, <2>1
  <2>. QED  BY <2>2, <2>3 DEF Segment3
<1>5. CASE (\A u \in Threads : InLoadDenom(u)) /\ (\A a \in accesses : LoadDenomAccess(a))
  <2>1. InLoadDenom(t)' /\ \A a \in accesses' : a \in accesses \/ LoadDenomAccess(a)
    BY <1>5, LoadDenomStays
  <2>2. (\A u \in Threads : InLoadDenom(u)')
    BY <1>5, <2>1, OthersStay3
  <2>3. \A a \in accesses' : LoadDenomAccess(a)
    BY <1>5, <2>1
  <2>. QED  BY <2>2, <2>3 DEF Segment3
<1>6. CASE (\A u \in Threads : InEnd(u)) /\ (\A a \in accesses : EndAccess3(a))
  <2>1. InEnd(t)' /\ \A a \in accesses' : a \in accesses \/ EndAccess3(a)
    BY <1>6, EndStays3
  <2>2. (\A u \in Threads : InEnd(u)')
    BY <1>6, <2>1, OthersStay3
  <2>3. \A a \in accesses' : EndAccess3(a)'
    <3>1. ASSUME NEW a, EndAccess3(a)  PROVE EndAccess3(a)'
      BY <3>1, EndAccessStays3
    <3>. QED  BY <1>6, <2>1, <3>1
  <2>. QED  BY <2>2, <2>3 DEF Segment3
<1>. QED  BY <1>1, <1>2, <1>3, <1>4, <1>5, <1>6 DEF Segment3

(* A barrier starts the next segment, or the next round.                    *)
LEMMA ReleaseStarts3 ==
  ASSUME Typed, RowTyped3, Segment3, Release, UNCHANGED <<cta, loc>>
  PROVE  Typed' /\ Segment3'
<1>1. /\ pc' = pc /\ reg' = reg /\ waiting' = {} /\ accesses' = {}
      /\ waiting # {} /\ waiting \subseteq Threads
      /\ \A t \in Threads : t \in waiting \/ pc[t] = "exit"
  BY DEF Release, Exited, Typed
<1>2. Typed'
  BY <1>1 DEF Typed
<1>3. \A t, statement, stride : WaitsAt(t, statement, stride) => At(t, statement, stride)'
  BY <1>1 DEF WaitsAt, At, Running
<1>4. \A t, kind, then : Reducing(t, kind, then) => Reducing(t, kind, then)'
  BY <1>1 DEF Reducing
<1>. DEFINE half == ThreadsPerHead \div 2
            Reached(stride, position) ==
              \A t \in Threads : WaitsAt3(t, "reduce_tree", stride, position) /\ Summing(t)
<1>5. half \in Nat /\ half <= ThreadsPerHead /\ ThreadsPerHead \in Nat
  BY <1>1, WarpsAndLanes
<1>6. ASSUME NEW stride \in 0 .. ThreadsPerHead, NEW position \in Nat, Reached(stride, position)
      PROVE  Segment3'
  <2>1. CASE stride = 0
    <3>1. \A t \in Threads : InStore(t, position)'
      BY <1>3, <1>4, <1>6, <2>1 DEF InStore, At3, WaitsAt3, Summing
    <3>. QED  BY <1>1, <3>1 DEF Segment3
  <2>2. CASE stride # 0
    <3>1. \A t \in Threads : InTree3(t, stride, position)'
      BY <1>3, <1>4, <1>6 DEF InTree3, InTree, WaitsAt3, Summing
    <3>2. stride \in 1 .. ThreadsPerHead
      BY <2>2, <1>5
    <3>. QED  BY <1>1, <3>1, <3>2 DEF Segment3
  <2>. QED  BY <2>1, <2>2
<1>. HIDE DEF half
<1>7. ASSUME NEW position \in Nat, \A t \in Threads : InRound(t, position)
      PROVE  Segment3'
  <2>1. CASE position < cta.seq_len
    <3>1. ASSUME NEW t \in Threads
          PROVE  WaitsAt3(t, "reduce_tree", half, position) /\ Summing(t)
      <4>1. t \in waiting
        BY <1>1, <1>7 DEF InRound, At3, WaitsAt3, WaitsAt, At, Running
      <4>2. ~(position >= cta.seq_len)
        BY <2>1 DEF RowTyped3
      <4>. QED  BY <1>7, <4>1, <4>2 DEF InRound, At3, At, Running, half
    <3>. QED  BY <1>5, <1>6, <3>1
  <2>2. CASE ~(position < cta.seq_len)
    <3>1. \A t \in Threads : WaitsAt(t, "load_denom", 0)
      BY <1>1, <1>7, <2>2 DEF InRound, At3, WaitsAt3, WaitsAt, At, Running
    <3>2. \A t \in Threads : InLoadDenom(t)'
      BY <1>3, <3>1 DEF InLoadDenom
    <3>. QED  BY <1>1, <3>2 DEF Segment3
  <2>. QED  BY <2>1, <2>2
<1>8. ASSUME NEW stride \in 1 .. ThreadsPerHead, NEW position \in Nat,
             \A t \in Threads : InTree3(t, stride, position)
      PROVE  Segment3'
  <2>1. stride \div 2 \in 0 .. ThreadsPerHead
    BY <1>5
  <2>2. Reached(stride \div 2, position)
    BY <1>1, <1>8 DEF InTree3, InTree, WaitsAt3, Summing, At, Running
  <2>. QED  BY <1>6, <2>1, <2>2
<1>9. ASSUME NEW position \in Nat, \A t \in Threads : InStore(t, position)
      PROVE  Segment3'
  <2>1. \A t \in Threads : WaitsAt3(t, "share_max", 0, position)
    BY <1>1, <1>9 DEF InStore, At3, WaitsAt3, WaitsAt, At, Running
  <2>2. \A t \in Threads : InShare(t, position)'
    BY <1>3, <2>1 DEF InShare, At3, WaitsAt3
  <2>. QED  BY <1>1, <2>2 DEF Segment3
<1>10. ASSUME NEW position \in Nat, \A t \in Threads : InShare(t, position)
       PROVE  Segment3'
  <2>1. \A t \in Threads : WaitsAt3(t, "load_max", 0, position)
    BY <1>1, <1>10 DEF InShare, At3, WaitsAt3, WaitsAt, At, Running
  <2>2. position + 1 \in Nat /\ (position + 1) - 1 = position
    OBVIOUS
  <2>3. \A t \in Threads : InRound(t, position + 1)'
    BY <1>3, <2>1, <2>2 DEF InRound, At3, WaitsAt3
  <2>. QED  BY <1>1, <2>2, <2>3 DEF Segment3
<1>11. CASE \A t \in Threads : InLoadDenom(t)
  <2>1. \A t \in Threads : WaitsAt(t, "output", 0)
    BY <1>1, <1>11 DEF InLoadDenom, WaitsAt, At, Running
  <2>2. \A t \in Threads : InEnd(t)'
    BY <1>3, <2>1 DEF InEnd, At, Running
  <2>. QED  BY <1>1, <1>2, <2>2 DEF Segment3
<1>12. ~ \A t \in Threads : InEnd(t)
  BY <1>1 DEF InEnd
<1>. QED  BY <1>2, <1>7, <1>8, <1>9, <1>10, <1>11, <1>12 DEF Segment3

-----------------------------------------------------------------------------
(* Its theorems *)

(* The block starts in round 0.                                             *)
LEMMA KInv3Init ==
  ASSUME SingleSeqLens \subseteq Int
  PROVE  V3!Init => KInv3
<1>. SUFFICES ASSUME V3!Init  PROVE KInv3
  OBVIOUS
<1>. USE SameThreads DEF V3!Init, V3!BlockInit
<1>1. Typed
  BY DEF Typed, RegFields, LocFields
<1>2. \A t \in Threads : t \notin waiting /\ pc[t] = "enter" /\ reg[t].stride = 0 /\ loc[t].token_pos = 0
  OBVIOUS
<1>3. accesses = {}
  OBVIOUS
<1>4. \A t \in Threads : InRound(t, 0)
  BY <1>2 DEF InRound, At3, At, Running
<1>5. RowTyped3
  <2>1. cta \in [head_id : 0 .. NumHeads - 1, seq_len : SingleSeqLens, finite : BOOLEAN]
    OBVIOUS
  <2>2. cta.head_id \in 0 .. NumHeads - 1 /\ cta.seq_len \in SingleSeqLens
    BY <2>1
  <2>3. cta.head_id \in Int
    BY <2>2
  <2>. QED  BY <2>2, <2>3 DEF RowTyped3
<1>. QED  BY <1>1, <1>3, <1>4, <1>5 DEF KInv3, Segment3

(* Every step keeps the invariant.                                          *)
LEMMA KInv3Step == KInv3 /\ [V3!Next]_vars => KInv3'
<1>. SUFFICES ASSUME KInv3, [V3!Next]_vars  PROVE KInv3'
  OBVIOUS
<1>. USE DEF KInv3, RowTyped3
<1>1. ASSUME NEW t \in Threads, V3!Statement(t) \/ BlockStep3(t)
      PROVE  KInv3'
  <2>1. Alone(t)
    BY <1>1, StepsAlone3
  <2>2. Segment3'
    BY <1>1, <2>1, OneStatement3, SegmentStays3
  <2>. QED  BY <2>1, <2>2 DEF Alone
<1>2. CASE V3!Release /\ UNCHANGED <<cta, loc, shared, output>>
  BY <1>2, SameCalls, ReleaseStarts3
<1>3. CASE UNCHANGED vars
  <2>1. Typed'
    BY <1>3 DEF vars, block_vars, Typed
  <2>2. Segment3'
    <3>1. accesses' = accesses /\ cta' = cta /\ \A t \in Threads : Untouched(t)
      BY <1>3 DEF vars, block_vars, Untouched
    <3>2. \A a \in accesses : EndAccess3(a) => EndAccess3(a)'
      BY <3>1 DEF EndAccess3, ReadsScore, V3!QIdx
    <3>. QED  BY <3>1, <3>2, OthersStay3, SMTT(30) DEF Segment3
  <2>. QED  BY <1>3, <2>1, <2>2 DEF vars
<1>. QED  BY <1>1, <1>2, <1>3, SameThreads
          DEF V3!Next, V3!BlockReduce, BlockStep3, V3!vars, V3!block_vars, vars, block_vars

(* The threads of the kernel v3 are always in one segment.                  *)
LEMMA KInv3Invariant ==
  ASSUME SingleSeqLens \subseteq Int
  PROVE  V3!Spec => []KInv3
<1>1. V3!vars = vars
  BY DEF V3!vars, V3!block_vars, vars, block_vars
<1>2. KInv3 /\ [V3!Next]_(V3!vars) => KInv3'
  BY <1>1, KInv3Step DEF V3!vars, V3!block_vars, vars, block_vars
<1>. QED  BY KInv3Init, <1>2, PTL DEF V3!Spec

(* No segment has a race.                                                   *)
LEMMA SegmentsDoNotRace3 == KInv3 => NoDataRace
<1>. SUFFICES ASSUME KInv3, NEW a \in accesses, NEW b \in accesses, a.thread # b.thread, a.cell = b.cell
              PROVE  ~a.write /\ ~b.write
  BY DEF NoDataRace
<1>1. CASE RoundAccess(a) /\ RoundAccess(b)
  BY <1>1 DEF RoundAccess
<1>2. ASSUME NEW stride \in Nat, TreeAccess(a, "sum", stride), TreeAccess(b, "sum", stride)
      PROVE  ~a.write /\ ~b.write
  <2>1. a.thread \in Nat /\ b.thread \in Nat
    BY <1>2, WarpsAndLanes DEF TreeAccess
  <2>. QED  BY <1>2, <2>1 DEF TreeAccess
<1>3. CASE StoreAccess(a) /\ StoreAccess(b)
  BY <1>3 DEF StoreAccess
<1>4. CASE ShareAccess(a) /\ ShareAccess(b)
  BY <1>4 DEF ShareAccess
<1>5. CASE LoadDenomAccess(a) /\ LoadDenomAccess(b)
  BY <1>5 DEF LoadDenomAccess
<1>6. CASE EndAccess3(a) /\ EndAccess3(b)
  <2>1. CASE a.cell[1] = "scores"
    BY <1>6, <2>1 DEF EndAccess3, ReadsScore
  <2>2. CASE a.cell[1] # "scores"
    <3>. DEFINE Writes(acc, d, q) ==
                  q = V3!QIdx(d) /\ acc.cell = <<"output", q>> /\ d % ThreadsPerHead = acc.thread
    <3>1. PICK d, q : d \in 0 .. HeadDim - 1 /\ Writes(a, d, q)
      BY <1>6, <2>2 DEF EndAccess3, ReadsScore
    <3>2. PICK e, r : e \in 0 .. HeadDim - 1 /\ Writes(b, e, r)
      BY <1>6, <2>2 DEF EndAccess3, ReadsScore
    <3>3. q = r
      <4>1. <<"output", q>> = <<"output", r>>
        BY <3>1, <3>2
      <4>. QED  BY <4>1
    <3>4. cta.head_id * HeadDim \in Int
      BY LaunchAssumption DEF KInv3, RowTyped3
    <3>5. d = e
      BY <3>1, <3>2, <3>3, <3>4, LaunchAssumption DEF V3!QIdx
    <3>. QED  BY <3>1, <3>2, <3>5
  <2>. QED  BY <2>1, <2>2
<1>. QED  BY <1>1, <1>2, <1>3, <1>4, <1>5, <1>6 DEF KInv3, Segment3

(* In the kernel for a single sequence, which alternates a reduction by all *)
(* threads with statements of thread 0 for every token, no two threads race *)
(* either.                                                                  *)
THEOREM NobodyRacesInV3 ==
  ASSUME SingleSeqLens \subseteq Int
  PROVE  V3!Spec => []NoDataRace
  BY KInv3Invariant, SegmentsDoNotRace3, PTL

(* Each segment has one barrier at its end.                                 *)
LEMMA SegmentsMeet3 == KInv3 => BarriersConverge
<1>. SUFFICES ASSUME KInv3, NEW t \in waiting
              PROVE  Exited = {} /\ \A u \in waiting : pc[u] = pc[t] /\ reg[u].stride = reg[t].stride
  BY DEF BarriersConverge
<1>. USE DEF At3, WaitsAt3, At, WaitsAt, Running
<1>1. t \in Threads /\ waiting \subseteq Threads
  BY DEF KInv3, Typed
<1>2. \A u \in Threads : pc[u] # "exit"
  BY <1>1 DEF KInv3, Segment3, InRound, InTree3, InTree, InStore, InShare, InLoadDenom, InEnd
<1>3. ASSUME NEW u \in waiting  PROVE pc[u] = pc[t] /\ reg[u].stride = reg[t].stride
  <2>1. ASSUME NEW position \in Nat, InRound(t, position), InRound(u, position)
        PROVE  pc[u] = pc[t] /\ reg[u].stride = reg[t].stride
    BY <2>1 DEF InRound, KInv3, RowTyped3
  <2>2. CASE ~ \E position \in Nat : InRound(t, position) /\ InRound(u, position)
    BY <1>1, <2>2 DEF KInv3, Segment3, InTree3, InTree, InStore, InShare, InLoadDenom, InEnd
  <2>. QED  BY <2>1, <2>2
<1>. QED  BY <1>2, <1>3 DEF Exited

(* Its threads meet at the same __syncthreads too: they hold the same token *)
(* in every round, and leave the loop together.                             *)
THEOREM ThreadsMeetInV3 ==
  ASSUME SingleSeqLens \subseteq Int
  PROVE  V3!Spec => []BarriersConverge
  BY KInv3Invariant, SegmentsMeet3, PTL

=============================================================================
