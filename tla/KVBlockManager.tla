--------------------------- MODULE KVBlockManager ---------------------------
(***************************************************************************)
(* runtime/kv_block_manager.py: the metadata of the paged KV cache.  The   *)
(* manager keeps a deque of free physical block ids and, per request id,   *)
(* the block table that maps logical block i to a physical block.          *)
(*                                                                         *)
(* A Python dict is a function whose domain is the set of its keys, so "r  *)
(* owns a table" is r \in DOMAIN block_tables; a request may own an empty  *)
(* table.  An operation that raises before it changes anything is not a    *)
(* step; EnsureCapacityForToken, which can raise half-way, is one.         *)
(*                                                                         *)
(* Definitions commented as wrong variants are used by no specification:   *)
(* put in place of the right ones, they show that the properties notice.   *)
(***************************************************************************)
EXTENDS Integers, Sequences, Functions

CONSTANTS
  Requests,      \* the request identifiers
  TotalBlocks,   \* number of physical blocks in the pool
  BlockSize,     \* tokens that fit in one block
  MaxTokens      \* bound: the largest token count or position a caller passes

ASSUME TotalBlocksAssumption == TotalBlocks \in Nat \ {0}
ASSUME BlockSizeAssumption   == BlockSize \in Nat \ {0}
ASSUME MaxTokensAssumption   == MaxTokens \in Nat

VARIABLES
  free_blocks,   \* the deque of free block ids: popped at the head, pushed at the tail
  block_tables   \* request id -> sequence of the physical blocks it owns

vars == <<free_blocks, block_tables>>

Blocks == 0 .. TotalBlocks - 1

Owners == DOMAIN block_tables

-----------------------------------------------------------------------------
(* Queries *)

(* Ceiling of num_tokens / BlockSize; 0 blocks for 0 tokens. *)
BlocksNeeded(num_tokens) == (num_tokens + BlockSize - 1) \div BlockSize

FreeBlockCount == Len(free_blocks)

UsedBlockCount == TotalBlocks - FreeBlockCount

CanAllocateBlocks(num_blocks) == FreeBlockCount >= num_blocks

CanAllocateTokens(num_tokens) == CanAllocateBlocks(BlocksNeeded(num_tokens))

(* Wrong variants: forgets that the token itself needs room; makes room for *)
(* the token after it too.                                                  *)
MissingBlocksOffByOne(r, token_position) ==
  LET missing == BlocksNeeded(token_position) - Len(block_tables[r])
  IN  IF missing > 0 THEN missing ELSE 0

MissingBlocksOneAhead(r, token_position) ==
  LET missing == BlocksNeeded(token_position + 2) - Len(block_tables[r])
  IN  IF missing > 0 THEN missing ELSE 0

(* Blocks r still lacks before token_position can be stored. *)
MissingBlocks(r, token_position) ==
  LET missing == BlocksNeeded(token_position + 1) - Len(block_tables[r])
  IN  IF missing > 0 THEN missing ELSE 0

-----------------------------------------------------------------------------
(* Operations *)

(* The first k free blocks, and the deque after k poplefts. *)
FirstFree(k) == SubSeq(free_blocks, 1, k)

(* Wrong variant: looks at the head without popping it. *)
AfterPeek(k) == free_blocks

AfterPop(k) == SubSeq(free_blocks, k + 1, FreeBlockCount)

(* r becomes an owner, of num_blocks blocks. It must not be one already. *)
AllocateBlocks(r, num_blocks) ==
  /\ r \notin Owners
  /\ CanAllocateBlocks(num_blocks)
  /\ free_blocks'  = AfterPop(num_blocks)
  /\ block_tables' = [q \in Owners \cup {r} |->
                        IF q = r THEN FirstFree(num_blocks) ELSE block_tables[q]]

AllocateForTokens(r, num_tokens) == AllocateBlocks(r, BlocksNeeded(num_tokens))

(* Wrong variant: the new blocks go in front of the table. *)
ExtendFront(r, k) ==
  /\ free_blocks'  = AfterPop(k)
  /\ block_tables' = [block_tables EXCEPT ![r] = FirstFree(k) \o @]

(* k blocks move from the head of the deque to the end of r's table. *)
Extend(r, k) ==
  /\ free_blocks'  = AfterPop(k)
  /\ block_tables' = [block_tables EXCEPT ![r] = @ \o FirstFree(k)]

AppendBlock(r) ==
  /\ r \in Owners
  /\ FreeBlockCount > 0
  /\ Extend(r, 1)

(* Append blocks until token_position fits. When the deque runs dry the     *)
(* code raises, and the blocks appended so far stay with r.                 *)
EnsureCapacityForToken(r, token_position) ==
  LET missing == MissingBlocks(r, token_position)
  IN  /\ r \in Owners
      /\ Extend(r, IF missing <= FreeBlockCount THEN missing ELSE FreeBlockCount)

(* Does ensure_capacity_for_token return, rather than raise? *)
CapacityAvailable(r, token_position) ==
  MissingBlocks(r, token_position) <= FreeBlockCount

(* Wrong variant: the table stays in the dict. *)
FreeKeepsTable(r) ==
  IF r \in Owners
  THEN /\ free_blocks' = free_blocks \o block_tables[r]
       /\ UNCHANGED block_tables
  ELSE UNCHANGED vars

(* Give r's blocks back, at the tail; nothing happens for an unknown r. *)
Free(r) ==
  IF r \in Owners
  THEN /\ free_blocks'  = free_blocks \o block_tables[r]
       /\ block_tables' = [q \in Owners \ {r} |-> block_tables[q]]
  ELSE UNCHANGED vars

-----------------------------------------------------------------------------

(* Wrong variant: block ids counted from 1. *)
InitFromOne ==
  /\ free_blocks  = [i \in 1 .. TotalBlocks |-> i]
  /\ block_tables = [r \in {} |-> << >>]

Init ==
  /\ free_blocks  = [i \in 1 .. TotalBlocks |-> i - 1]
  /\ block_tables = [r \in {} |-> << >>]

(* Any caller, calling in any order with any counts up to the bound. *)
Next ==
  \E r \in Requests :
     \/ \E num_tokens \in 0 .. MaxTokens : AllocateForTokens(r, num_tokens)
     \/ AppendBlock(r)
     \/ \E token_position \in 0 .. MaxTokens : EnsureCapacityForToken(r, token_position)
     \/ Free(r)

Spec == Init /\ [][Next]_vars

-----------------------------------------------------------------------------
(* Properties *)

(* The deque holds block ids and each owner's table is a sequence of them. *)
TypeOK ==
  /\ free_blocks \in Seq(Blocks)
  /\ Owners \subseteq Requests
  /\ block_tables \in [Owners -> Seq(Blocks)]

(* No id is twice in the deque: popleft never hands out a block twice. *)
FreeDistinct == IsInjective(free_blocks)

(* No table maps two logical blocks to the same physical one. *)
TablesDistinct == \A r \in Owners : IsInjective(block_tables[r])

(* No physical block is in the tables of two requests. *)
TablesDisjoint ==
  \A r, s \in Owners :
     r # s => Range(block_tables[r]) \cap Range(block_tables[s]) = {}

(* No block is free and in use at the same time. *)
FreeNotOwned ==
  \A r \in Owners : Range(free_blocks) \cap Range(block_tables[r]) = {}

(* No block leaks: each is free or in some table. *)
NoBlockLost ==
  \A b \in Blocks : \/ b \in Range(free_blocks)
                    \/ \E r \in Owners : b \in Range(block_tables[r])

(* Every physical block is in exactly one place of exactly one list: the    *)
(* deque, or one request's table. If it fails, two requests write their     *)
(* K/V to the same memory, or memory is lost for good.                      *)
BlocksPartitioned ==
  /\ FreeDistinct
  /\ TablesDistinct
  /\ TablesDisjoint
  /\ FreeNotOwned
  /\ NoBlockLost

(* While a request owns its table, the table is only extended: a position   *)
(* whose K/V was written once stays where it is, and a copy of the table    *)
(* held by a RequestState can lag behind but is never wrong.                *)
LogicalBlocksStable ==
  [][\A r \in Owners \cap DOMAIN block_tables' :
       /\ Len(block_tables[r]) <= Len(block_tables'[r])
       /\ \A i \in 1 .. Len(block_tables[r]) :
             block_tables'[r][i] = block_tables[r][i]]_vars

(* The blocks of r, none when it owns no table. *)
HeldBy(r) == IF r \in Owners THEN Range(block_tables[r]) ELSE {}

Ownership == INSTANCE BlockOwnership
               WITH held <- [r \in Requests |-> HeldBy(r)]

(* The manager keeps the promise of BlockOwnership: blocks move only from   *)
(* the free pool to one request, and from one request to the free pool.     *)
ImplementsOwnership == Ownership!Spec

=============================================================================
