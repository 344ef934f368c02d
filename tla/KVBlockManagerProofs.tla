------------------------ MODULE KVBlockManagerProofs ------------------------
(***************************************************************************)
(* Proofs about runtime/kv_block_manager.py for every set of requests,     *)
(* pool size and block size.  All operations that hand out blocks move a   *)
(* prefix of the deque to the end of one table (lemma GivePreserves), the  *)
(* only other one returns a table to the end of the deque (FreePreserves). *)
(***************************************************************************)
EXTENDS KVBlockManager, SequenceFacts

(* Type correctness and the partition of the blocks are inductive together. *)
IInv == TypeOK /\ BlocksPartitioned

-----------------------------------------------------------------------------
(* The operations preserve the invariant *)

(* The invariant is the partition of SequenceFacts, with known owners.      *)
LEMMA IInvIsPartition ==
  /\ IInv <=> /\ Owners \subseteq Requests
              /\ Partition(Blocks, free_blocks, block_tables)
  /\ IInv' <=> /\ Owners' \subseteq Requests
               /\ Partition(Blocks, free_blocks', block_tables')
BY DEF IInv, TypeOK, BlocksPartitioned, FreeDistinct, TablesDistinct, TablesDisjoint,
       FreeNotOwned, NoBlockLost, Owners, Blocks, Partition

(* Moving the first k free blocks to the end of r's table. *)
Give(r, k) ==
  /\ free_blocks'  = AfterPop(k)
  /\ block_tables' = GiveTo(block_tables, r, FirstFree(k))

(* Whoever is given popped blocks, the blocks stay partitioned.             *)
LEMMA GivePreserves ==
  ASSUME IInv, NEW r \in Requests, NEW k \in 0 .. FreeBlockCount, Give(r, k)
  PROVE  IInv'
<1>1. Partition(Blocks, free_blocks', block_tables')
  BY IInvIsPartition, GiveKeepsPartition DEF Give, AfterPop, FirstFree, FreeBlockCount
<1>2. Owners' \subseteq Requests
  BY DEF IInv, TypeOK, Give, GiveTo, Owners
<1>. QED  BY <1>1, <1>2, IInvIsPartition

(* So they do when a table returns to the tail of the deque.                *)
LEMMA FreePreserves ==
  ASSUME IInv, NEW r \in Owners, Free(r)
  PROVE  IInv'
<1>1. /\ free_blocks' = free_blocks \o block_tables[r]
      /\ block_tables' = TakeFrom(block_tables, r)
  BY DEF Free, TakeFrom, Owners
<1>2. Partition(Blocks, free_blocks', block_tables')
  BY <1>1, IInvIsPartition, TakeKeepsPartition DEF Owners
<1>3. Owners' \subseteq Requests
  BY <1>1 DEF IInv, TypeOK, TakeFrom, Owners
<1>. QED  BY <1>2, <1>3, IInvIsPartition

(* A number of blocks is a natural number. *)
LEMMA BlocksNeededNat == \A n \in Nat : BlocksNeeded(n) \in Nat
<1>. TAKE n \in Nat
<1>1. n + BlockSize - 1 \in Nat /\ BlockSize \in Nat \ {0}
  BY BlockSizeAssumption
<1>2. \A m \in Nat : m \div BlockSize \in Nat
  BY <1>1
<1>. QED  BY <1>1, <1>2 DEF BlocksNeeded

(* Every step gives popped blocks to one request or frees one table: the    *)
(* case split all theorems below share.                                     *)
LEMMA StepCases ==
  ASSUME IInv, Next
  PROVE  \/ \E r \in Requests, k \in 0 .. FreeBlockCount : Give(r, k)
         \/ \E r \in Owners : Free(r)
         \/ UNCHANGED vars
<1>. PICK r \in Requests :
       \/ \E n \in 0 .. MaxTokens : AllocateForTokens(r, n)
       \/ AppendBlock(r)
       \/ \E p \in 0 .. MaxTokens : EnsureCapacityForToken(r, p)
       \/ Free(r)
  BY DEF Next
<1>. FreeBlockCount \in Nat
  BY LenProperties DEF IInv, TypeOK, FreeBlockCount
<1>1. ASSUME NEW k, Extend(r, k), r \in Owners
      PROVE  Give(r, k)
  <2>1. Owners \cup {r} = DOMAIN block_tables /\ TableIn(block_tables, r) = block_tables[r]
    BY <1>1 DEF Owners, TableIn
  <2>. QED  BY <1>1, <2>1 DEF Extend, Give, GiveTo, IInv, TypeOK
<1>2. ASSUME NEW n \in 0 .. MaxTokens, AllocateForTokens(r, n)
      PROVE  \E k \in 0 .. FreeBlockCount : Give(r, k)
  <2>1. BlocksNeeded(n) \in 0 .. FreeBlockCount
    BY <1>2, BlocksNeededNat, MaxTokensAssumption
       DEF AllocateForTokens, AllocateBlocks, CanAllocateBlocks
  <2>2. FirstFree(BlocksNeeded(n)) \in Seq(Blocks)
    BY <2>1, CutDeque DEF FirstFree, IInv, TypeOK, FreeBlockCount
  <2>3. TableIn(block_tables, r) \o FirstFree(BlocksNeeded(n)) = FirstFree(BlocksNeeded(n))
    BY <1>2, <2>2, ConcatEmptySeq DEF TableIn, Owners, AllocateForTokens, AllocateBlocks
  <2>4. Give(r, BlocksNeeded(n))
    BY <1>2, <2>3 DEF Give, GiveTo, Owners, AllocateForTokens, AllocateBlocks
  <2>. QED  BY <2>1, <2>4
<1>3. ASSUME AppendBlock(r)
      PROVE  \E k \in 0 .. FreeBlockCount : Give(r, k)
  BY <1>1, <1>3 DEF AppendBlock
<1>4. ASSUME NEW p \in 0 .. MaxTokens, EnsureCapacityForToken(r, p)
      PROVE  \E k \in 0 .. FreeBlockCount : Give(r, k)
  <2>. DEFINE missing == MissingBlocks(r, p)
              k == IF missing <= FreeBlockCount THEN missing ELSE FreeBlockCount
  <2>1. missing \in Nat
    <3>1. BlocksNeeded(p + 1) \in Nat
      BY BlocksNeededNat, MaxTokensAssumption
    <3>2. Len(block_tables[r]) \in Nat
      BY <1>4, LenProperties DEF EnsureCapacityForToken, IInv, TypeOK
    <3>. QED  BY <3>1, <3>2 DEF MissingBlocks
  <2>. HIDE DEF missing
  <2>2. k \in 0 .. FreeBlockCount
    BY <2>1
  <2>3. Extend(r, k) /\ r \in Owners
    BY <1>4 DEF EnsureCapacityForToken, missing
  <2>. QED  BY <1>1, <2>2, <2>3
<1>5. ASSUME Free(r)
      PROVE  (\E q \in Owners : Free(q)) \/ UNCHANGED vars
  BY <1>5 DEF Free
<1>. QED  BY <1>2, <1>3, <1>4, <1>5

-----------------------------------------------------------------------------
(* The theorems *)

(* The partition of the blocks, with type correctness, is an invariant.     *)
LEMMA IInvInvariant == Spec => []IInv
<1>1. Init => IInv
  <2>. SUFFICES ASSUME Init  PROVE  IInv
    OBVIOUS
  <2>1. /\ free_blocks = [i \in 1 .. TotalBlocks |-> i - 1]
        /\ Owners = {} /\ block_tables = [r \in {} |-> << >>]
    BY DEF Init, Owners
  <2>2. free_blocks \in Seq(Blocks) /\ DOMAIN free_blocks = 1 .. TotalBlocks
    BY <2>1, TotalBlocksAssumption, IsASeq DEF Blocks
  <2>3. TypeOK
    BY <2>1, <2>2 DEF TypeOK
  <2>4. FreeDistinct
    BY <2>1, <2>2, TotalBlocksAssumption DEF FreeDistinct, IsInjective
  <2>5. NoBlockLost
    <3>. SUFFICES ASSUME NEW b \in Blocks  PROVE  b \in Range(free_blocks)
      BY DEF NoBlockLost
    <3>1. b + 1 \in DOMAIN free_blocks /\ free_blocks[b + 1] = b
      BY <2>1, <2>2, TotalBlocksAssumption DEF Blocks
    <3>. QED  BY <3>1 DEF Range
  <2>. QED  BY <2>1, <2>3, <2>4, <2>5
            DEF IInv, BlocksPartitioned, TablesDistinct, TablesDisjoint, FreeNotOwned
<1>2. IInv /\ [Next]_vars => IInv'
  <2>1. ASSUME IInv, Next  PROVE IInv'
    <3>1. CASE \E r \in Requests, k \in 0 .. FreeBlockCount : Give(r, k)
      BY <2>1, <3>1, GivePreserves
    <3>2. CASE \E r \in Owners : Free(r)
      BY <2>1, <3>2, FreePreserves
    <3>3. CASE UNCHANGED vars
      BY <2>1, <3>3 DEF vars, IInv, TypeOK, BlocksPartitioned, FreeDistinct,
           TablesDistinct, TablesDisjoint, FreeNotOwned, NoBlockLost, Owners, Blocks
    <3>. QED  BY <2>1, <3>1, <3>2, <3>3, StepCases
  <2>2. ASSUME IInv, UNCHANGED vars  PROVE IInv'
    BY <2>2 DEF vars, IInv, TypeOK, BlocksPartitioned, FreeDistinct,
         TablesDistinct, TablesDisjoint, FreeNotOwned, NoBlockLost, Owners, Blocks
  <2>. QED  BY <2>1, <2>2
<1>. QED  BY <1>1, <1>2, PTL DEF Spec

(* The deque and the tables always hold block ids of the pool, whatever the *)
(* calls.                                                                   *)
THEOREM TypeCorrect == Spec => []TypeOK
<1>1. IInv => TypeOK
  BY DEF IInv
<1>. QED  BY <1>1, IInvInvariant, PTL

(* No physical block is ever free and owned, owned twice, or lost, for      *)
(* every number of requests, pool size and block size.                      *)
THEOREM BlocksStayPartitioned == Spec => []BlocksPartitioned
<1>1. IInv => BlocksPartitioned
  BY DEF IInv
<1>. QED  BY <1>1, IInvInvariant, PTL

(* A live table is only ever extended: what was written under a logical     *)
(* block stays where that logical block maps, and a lagging copy of the     *)
(* table is a prefix of it.                                                 *)
THEOREM LogicalBlocksAreStable == Spec => LogicalBlocksStable
<1>. DEFINE Stable ==
       \A r \in Owners \cap DOMAIN block_tables' :
         /\ Len(block_tables[r]) <= Len(block_tables'[r])
         /\ \A i \in 1 .. Len(block_tables[r]) :
               block_tables'[r][i] = block_tables[r][i]
<1>1. ASSUME IInv, Next  PROVE Stable
  <2>0. \A q \in Owners : Len(block_tables[q]) \in Nat
    BY <1>1, LenProperties DEF IInv, TypeOK
  <2>1. ASSUME NEW r \in Requests, NEW k \in 0 .. FreeBlockCount, Give(r, k)
        PROVE  Stable
    <3>1. FirstFree(k) \in Seq(Blocks)
      BY <1>1, CutDeque DEF FirstFree, IInv, TypeOK, FreeBlockCount
    <3>. SUFFICES ASSUME NEW q \in Owners
                  PROVE  /\ Len(block_tables[q]) <= Len(block_tables'[q])
                         /\ \A i \in 1 .. Len(block_tables[q]) :
                               block_tables'[q][i] = block_tables[q][i]
      OBVIOUS
    <3>2. CASE q = r
      <4>1. block_tables'[q] = block_tables[q] \o FirstFree(k)
        BY <2>1, <3>2 DEF Give, GiveTo, TableIn, Owners
      <4>2. block_tables[q] \in Seq(Blocks)
        BY <1>1 DEF IInv, TypeOK
      <4>3. Len(FirstFree(k)) \in Nat
        BY <3>1, LenProperties
      <4>. QED  BY <2>0, <3>1, <4>1, <4>2, <4>3, ConcatProperties
    <3>3. CASE q # r
      <4>1. block_tables'[q] = block_tables[q]
        BY <2>1, <3>3 DEF Give, GiveTo, Owners
      <4>. QED  BY <2>0, <4>1
    <3>. QED  BY <3>2, <3>3
  <2>2. ASSUME NEW r \in Owners, Free(r)
        PROVE  Stable
    <3>1. \A q \in Owners \cap DOMAIN block_tables' : block_tables'[q] = block_tables[q]
      BY <2>2 DEF Free, Owners
    <3>. QED  BY <2>0, <3>1
  <2>3. ASSUME UNCHANGED vars
        PROVE  Stable
    BY <2>0, <2>3 DEF vars
  <2>. QED  BY <1>1, <2>1, <2>2, <2>3, StepCases
<1>2. IInv /\ [Next]_vars => [Stable]_vars
  BY <1>1
<1>. QED  BY <1>2, IInvInvariant, PTL DEF Spec, LogicalBlocksStable

(* The manager implements BlockOwnership: every call acquires blocks nobody *)
(* held, or releases all the blocks of one request.                         *)
THEOREM RefinesOwnership == Spec => ImplementsOwnership
<1>. DEFINE heldNow == [r \in Requests |-> HeldBy(r)]
<1>1. Init => Ownership!Init
  BY DEF Init, Ownership!Init, HeldBy, Owners
<1>2. ASSUME IInv, Next  PROVE [Ownership!Next]_heldNow
  <2>1. ASSUME NEW r \in Requests, NEW k \in 0 .. FreeBlockCount, Give(r, k)
        PROVE  Ownership!Acquire(r)
    <3>. DEFINE S == Range(FirstFree(k))
    <3>1. /\ FirstFree(k) \in Seq(Blocks)
          /\ S \subseteq Range(free_blocks)
      BY <1>2, CutDeque DEF FirstFree, IInv, TypeOK, FreeBlockCount
    <3>2. S \subseteq Ownership!Available
      <4>1. Range(free_blocks) \subseteq Blocks
        BY <1>2, RangeOfSeq DEF IInv, TypeOK
      <4>2. \A q \in Requests : Range(free_blocks) \cap HeldBy(q) = {}
        BY <1>2 DEF IInv, BlocksPartitioned, FreeNotOwned, HeldBy
      <4>. QED  BY <3>1, <4>1, <4>2 DEF Ownership!Available
    <3>3. HeldBy(r)' = HeldBy(r) \cup S
      <4>1. CASE r \in Owners
        <5>1. block_tables[r] \in Seq(Blocks)
          BY <1>2, <4>1 DEF IInv, TypeOK
        <5>2. r \in Owners' /\ block_tables'[r] = block_tables[r] \o FirstFree(k)
          BY <2>1, <4>1 DEF Give, GiveTo, TableIn, Owners
        <5>. QED  BY <3>1, <4>1, <5>1, <5>2, RangeConcatenation DEF HeldBy
      <4>2. CASE r \notin Owners
        <5>1. r \in Owners' /\ block_tables'[r] = << >> \o FirstFree(k)
          BY <2>1, <4>2 DEF Give, GiveTo, TableIn, Owners
        <5>2. block_tables'[r] = FirstFree(k)
          BY <3>1, <5>1, ConcatEmptySeq
        <5>. QED  BY <4>2, <5>1, <5>2 DEF HeldBy
      <4>. QED  BY <4>1, <4>2
    <3>4. \A q \in Requests : q # r => HeldBy(q)' = HeldBy(q)
      BY <2>1 DEF Give, GiveTo, HeldBy, Owners
    <3>5. heldNow' = [heldNow EXCEPT ![r] = @ \cup S]
      BY <3>3, <3>4
    <3>. QED  BY <3>2, <3>5 DEF Ownership!Acquire
  <2>2. ASSUME NEW r \in Owners, Free(r)
        PROVE  r \in Requests /\ Ownership!Release(r)
    <3>1. r \in Requests
      BY <1>2 DEF IInv, TypeOK
    <3>2. HeldBy(r)' = {}
      BY <2>2 DEF Free, HeldBy, Owners
    <3>3. \A q \in Requests : q # r => HeldBy(q)' = HeldBy(q)
      BY <2>2 DEF Free, HeldBy, Owners
    <3>4. heldNow' = [heldNow EXCEPT ![r] = {}]
      BY <3>1, <3>2, <3>3
    <3>. QED  BY <3>1, <3>4 DEF Ownership!Release
  <2>3. ASSUME UNCHANGED vars
        PROVE  UNCHANGED heldNow
    BY <2>3 DEF vars, HeldBy, Owners
  <2>. QED  BY <1>2, <2>1, <2>2, <2>3, StepCases DEF Ownership!Next
<1>3. UNCHANGED vars => UNCHANGED heldNow
  BY DEF vars, HeldBy, Owners
<1>4. IInv /\ [Next]_vars => [Ownership!Next]_heldNow
  BY <1>2, <1>3
<1>. QED  BY <1>1, <1>4, IInvInvariant, PTL DEF Spec, ImplementsOwnership, Ownership!Spec

=============================================================================
