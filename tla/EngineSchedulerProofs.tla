------------------------ MODULE EngineSchedulerProofs ------------------------
(***************************************************************************)
(* Proofs about runtime/engine_scheduler.py for every set of requests,     *)
(* pool, number of slots, budget and limit, with an engine that may fail.  *)
(*                                                                         *)
(* First, block tables belong to exactly the requests in slots, and        *)
(* physical blocks are never shared or lost.  The two go together: a       *)
(* request gets its table and its slot in one admission and loses them in  *)
(* one ending.                                                             *)
(*                                                                         *)
(* Then, every request is in exactly one place, and all variables keep     *)
(* their types.  Five paths edit the scheduler's lists while its loops walk*)
(* over selections made earlier; the invariant says of each loop that what *)
(* it still has to work on is where the selection found it, and once.      *)
(*                                                                         *)
(* Then, what is recorded of each request: its counters agree with its     *)
(* status, and the scheduler keeps the contract with the clients.  The     *)
(* engine counts the tokens of a whole batch before the scheduler applies  *)
(* the first output: the invariant keeps apart the requests that wait for  *)
(* their output.                                                           *)
(*                                                                         *)
(* Then, a request in a slot owns blocks for every token it has, never     *)
(* more than its admission counted, and the engine works with a true copy  *)
(* of the block table.  Room for a token is made one loop before the token *)
(* is generated, and the copy is made with it: the invariant follows the   *)
(* requests that were found runnable until their batch is run.             *)
(*                                                                         *)
(* Then, the counters and the metrics add up with the records.  The engine *)
(* counts a token before the scheduler does, and raises in between: the    *)
(* invariant says of each request whether the engine may be ahead.         *)
(*                                                                         *)
(* Last, evictions and admissions take nothing from those who could go on. *)
(***************************************************************************)
EXTENDS EngineScheduler, SequenceFacts, FiniteSetTheorems

(* Taking the first occurrence of e out of a list leaves a list.            *)
LEMMA RemoveFirstIsASeq ==
  ASSUME NEW S, NEW s \in Seq(S), NEW e
  PROVE  RemoveFirst(s, e) \in Seq(S)
<1>1. CASE \E j \in 1 .. Len(s) : s[j] = e
  <2>. DEFINE i == SelectInSeq(s, LAMBDA v : v = e)
  <2>1. RemoveFirst(s, e) = SubSeq(s, 1, i - 1) \o SubSeq(s, i + 1, Len(s))
    BY <1>1 DEF RemoveFirst, RemoveAt
  <2>2. i \in 1 .. Len(s)
    BY <1>1, IndexOf
  <2>. HIDE DEF i
  <2>3. Len(s) \in Nat /\ \A j \in 1 .. Len(s) : s[j] \in S
    BY LenProperties, ElementOfSeq
  <2>4. SubSeq(s, 1, i - 1) \in Seq(S)
    <3>1. i - 1 \in Int /\ \A j \in 1 .. i - 1 : s[j] \in S
      BY <2>2, <2>3
    <3>. QED  BY <3>1, SubSeqProperties
  <2>5. SubSeq(s, i + 1, Len(s)) \in Seq(S)
    <3>1. i + 1 \in Int /\ \A j \in i + 1 .. Len(s) : s[j] \in S
      BY <2>2, <2>3
    <3>. QED  BY <2>3, <3>1, SubSeqProperties
  <2>. QED  BY <2>1, <2>4, <2>5, ConcatProperties
<1>2. CASE ~ \E j \in 1 .. Len(s) : s[j] = e
  BY <1>2 DEF RemoveFirst
<1>. QED  BY <1>1, <1>2
-----------------------------------------------------------------------------
(* The inductive invariant *)

(* The token counts the block manager is called with are natural numbers.   *)
CountsTyped ==
  /\ DOMAIN request_state = Requests
  /\ \A r \in Requests :
       /\ {"prompt", "prompt_tokens", "generated_tokens"} \subseteq DOMAIN request_state[r]
       /\ request_state[r].prompt \in Nat
       /\ request_state[r].prompt_tokens \in Nat
       /\ request_state[r].generated_tokens \in Nat

(* The lists a request goes through before it gets a slot. *)
ListsTyped ==
  /\ request_queue \in Seq(Requests)
  /\ waiting \in Seq(Requests)
  /\ "selected" \in DOMAIN local
  /\ local.selected \in Seq(Requests)

SlotsTyped == slots \in [SlotIndices -> Requests \cup {NoRequest}]

OneSlotEach ==
  \A i, j \in SlotIndices : slots[i] = slots[j] /\ slots[i] # NoRequest => i = j

FreeSlots == {i \in SlotIndices : slots[i] = NoRequest}

(* The policy's selection never outgrows the free slots while it is worked  *)
(* off: the early returns of admit_waiting_requests for want of a slot are  *)
(* never taken, and an admission finds one.                                 *)
SelectedHaveSlots ==
  phase = "admitting" => Len(local.selected) <= Cardinality(FreeSlots)

BlocksInOnePlace == Partition(KV!Blocks, free_blocks, block_tables)

IInv ==
  /\ CountsTyped
  /\ ListsTyped
  /\ SlotsTyped
  /\ OneSlotEach
  /\ SelectedHaveSlots
  /\ SlotsOwnTables
  /\ BlocksInOnePlace

-----------------------------------------------------------------------------
(* Slots *)

(* What the scheduler computes from slots is what the invariant counts.     *)
LEMMA CountingSlots ==
  /\ IsFiniteSet(FreeSlots)
  /\ Cardinality(FreeSlots) \in Nat
  /\ Cardinality(FreeSlots) = MaxSlots - OccupiedSlotCount
<1>. DEFINE O == {i \in SlotIndices : slots[i] # NoRequest}
<1>1. IsFiniteSet(SlotIndices) /\ Cardinality(SlotIndices) = MaxSlots
  <2>1. MaxSlots \in Nat \ {0}
    BY MaxSlotsAssumption
  <2>. QED  BY <2>1, FS_Interval DEF SlotIndices
<1>2. FreeSlots = SlotIndices \ O /\ SlotIndices \cap O = O
  BY DEF FreeSlots
<1>3. IsFiniteSet(O) /\ Cardinality(O) \in Nat
  BY <1>1, FS_Subset, FS_CardinalityType
<1>4. /\ IsFiniteSet(FreeSlots)
      /\ Cardinality(FreeSlots) = Cardinality(SlotIndices) - Cardinality(O)
  BY <1>1, <1>2, FS_Difference
<1>5. Cardinality(FreeSlots) \in Nat
  BY <1>4, FS_CardinalityType
<1>. QED  BY <1>1, <1>4, <1>5 DEF OccupiedSlotCount

(* While a selected request waits for its turn there is a free slot, and    *)
(* the first one is found.                                                  *)
LEMMA FreeSlotFound ==
  ASSUME SlotsTyped, FreeSlots # {}
  PROVE  FirstFreeSlotIndex \in SlotIndices /\ slots[FirstFreeSlotIndex] = NoRequest
<1>1. slots \in Seq(Requests \cup {NoRequest}) /\ Len(slots) = MaxSlots
  BY MaxSlotsAssumption DEF SlotsTyped, SlotIndices
<1>2. \E i \in 1 .. Len(slots) : slots[i] = NoRequest
  BY <1>1 DEF FreeSlots, SlotIndices
<1>. DEFINE index == SelectInSeq(slots, LAMBDA x : x = NoRequest)
<1>3. index \in 1 .. Len(slots) /\ slots[index] = NoRequest
  BY <1>1, <1>2, IndexOf
<1>4. FirstFreeSlotIndex = index
  BY DEF FirstFreeSlotIndex
<1>. HIDE DEF index
<1>. QED  BY <1>1, <1>3, <1>4 DEF SlotIndices

(* Ending a request empties its one slot.                                   *)
LEMMA SlotEmptied ==
  ASSUME SlotsTyped, OneSlotEach, NEW r
  PROVE  /\ WithoutSlotOf(r) \in [SlotIndices -> Requests \cup {NoRequest}]
         /\ \A i \in SlotIndices :
              WithoutSlotOf(r)[i] = IF slots[i] = r THEN NoRequest ELSE slots[i]
<1>. DEFINE index == SelectInSeq(slots, LAMBDA x : x = r)
<1>1. slots \in Seq(Requests \cup {NoRequest}) /\ Len(slots) = MaxSlots
  BY MaxSlotsAssumption DEF SlotsTyped, SlotIndices
<1>2. IF \E j \in 1 .. Len(slots) : slots[j] = r
      THEN index \in 1 .. Len(slots) /\ slots[index] = r
      ELSE index = 0
  <2>1. ASSUME \E j \in 1 .. Len(slots) : slots[j] = r
        PROVE  index \in 1 .. Len(slots) /\ slots[index] = r
    BY <1>1, <2>1, IndexOf
  <2>2. ASSUME ~ \E j \in 1 .. Len(slots) : slots[j] = r
        PROVE  index = 0
    <3>1. {j \in 1 .. Len(slots) : slots[j] = r} = {}
      BY <2>2
    <3>. QED  BY <3>1 DEF SelectInSeq
  <2>. HIDE DEF index
  <2>. QED  BY <2>1, <2>2
<1>3. WithoutSlotOf(r) = IF index = 0 THEN slots ELSE [slots EXCEPT ![index] = NoRequest]
  BY DEF WithoutSlotOf
<1>. HIDE DEF index
<1>4. 0 \notin SlotIndices /\ SlotIndices = 1 .. Len(slots)
  BY <1>1 DEF SlotIndices
<1>. QED  BY <1>2, <1>3, <1>4 DEF SlotsTyped, OneSlotEach

-----------------------------------------------------------------------------
(* The moves of blocks and slots *)

(* A number of blocks is a natural number.                                  *)
LEMMA BlocksNeededNat == \A n \in Nat : KV!BlocksNeeded(n) \in Nat
<1>. TAKE n \in Nat
<1>1. n + BlockSize - 1 \in Nat /\ BlockSize \in Nat \ {0}
  BY PoolAssumption
<1>2. \A m \in Nat : m \div BlockSize \in Nat
  BY <1>1
<1>. QED  BY <1>1, <1>2 DEF KV!BlocksNeeded

(* An ending takes the table and the slot, and nothing from anybody else;   *)
(* for a request that has neither it takes nothing.                         *)
LEMMA EndingKeeps ==
  ASSUME IInv, NEW r, NEW status, EndRequest(r, status)
  PROVE  /\ SlotsTyped' /\ OneSlotEach' /\ SlotsOwnTables' /\ BlocksInOnePlace'
         /\ FreeSlots \subseteq FreeSlots'
         /\ InSlot' = InSlot \ {r}
<1>1. /\ slots' \in [SlotIndices -> Requests \cup {NoRequest}]
      /\ \A i \in SlotIndices : slots'[i] = IF slots[i] = r THEN NoRequest ELSE slots[i]
  BY SlotEmptied DEF IInv, EndRequest
<1>2. SlotsTyped' /\ OneSlotEach' /\ FreeSlots \subseteq FreeSlots'
  BY <1>1 DEF IInv, SlotsTyped, OneSlotEach, FreeSlots, SlotIndices
<1>3. InSlot' = InSlot \ {r}
  <2>1. InSlot' = {slots'[i] : i \in SlotIndices} \ {NoRequest}
    BY DEF InSlot, SlotIndices
  <2>. QED  BY <1>1, <2>1 DEF InSlot
<1>4. CASE r \in KV!Owners
  <2>1. /\ free_blocks' = free_blocks \o block_tables[r]
        /\ block_tables' = TakeFrom(block_tables, r)
    BY <1>4 DEF EndRequest, KV!Free, KV!Owners, TakeFrom
  <2>2. Partition(KV!Blocks, free_blocks', block_tables')
    BY <1>4, <2>1, TakeKeepsPartition DEF IInv, BlocksInOnePlace, KV!Owners
  <2>3. KV!Owners' = KV!Owners \ {r}
    BY <2>1 DEF KV!Owners, TakeFrom
  <2>. QED  BY <1>2, <1>3, <2>2, <2>3 DEF IInv, SlotsOwnTables, BlocksInOnePlace, KV!Blocks
<1>5. CASE r \notin KV!Owners
  <2>1. UNCHANGED <<free_blocks, block_tables>>
    BY <1>5 DEF EndRequest, KV!Free, KV!vars
  <2>2. KV!Owners' = KV!Owners \ {r}
    BY <1>5, <2>1 DEF KV!Owners
  <2>. QED  BY <1>2, <1>3, <2>1, <2>2 DEF IInv, SlotsOwnTables, BlocksInOnePlace, KV!Blocks
<1>. QED  BY <1>3, <1>4, <1>5

(* An admission gives a request that had neither a table and a free slot.   *)
LEMMA AdmissionKeeps ==
  ASSUME IInv, AdmitOne
  PROVE  /\ SlotsTyped' /\ OneSlotEach' /\ SlotsOwnTables' /\ BlocksInOnePlace'
         /\ \E i \in FreeSlots : FreeSlots' = FreeSlots \ {i}
         /\ InSlot' = InSlot \cup {Candidate} /\ Candidate \notin InSlot
<1>. DEFINE r == Candidate
            n == KV!BlocksNeeded(request_state[r].prompt)
            free == FirstFreeSlotIndex
<1>1. phase = "admitting" /\ r \in Requests /\ Len(local.selected) \in Nat \ {0}
  BY HeadTailProperties, EmptySeq DEF AdmitOne, Admitting, Candidate, IInv, ListsTyped
<1>2. r # NoRequest
  BY <1>1, NoRequestAssumption
<1>3. FreeSlots # {}
  <2>1. 0 < Cardinality(FreeSlots)
    BY <1>1, CountingSlots DEF IInv, SelectedHaveSlots
  <2>. QED  BY <2>1, FS_EmptySet
<1>4. free \in FreeSlots /\ slots' = [slots EXCEPT ![free] = r]
  BY <1>3, FreeSlotFound DEF AdmitOne, IInv, FreeSlots
<1>5. n \in 0 .. Len(free_blocks)
  <2>1. n \in Nat
    BY <1>1, BlocksNeededNat DEF IInv, CountsTyped
  <2>2. Len(free_blocks) \in Nat
    BY LenProperties DEF IInv, BlocksInOnePlace, Partition
  <2>3. Len(free_blocks) >= n
    BY DEF AdmitOne, KV!AllocateForTokens, KV!AllocateBlocks, KV!CanAllocateBlocks,
           KV!FreeBlockCount
  <2>. QED  BY <2>1, <2>2, <2>3
<1>6. /\ r \notin KV!Owners
      /\ free_blocks' = SubSeq(free_blocks, n + 1, Len(free_blocks))
      /\ block_tables' = [q \in KV!Owners \cup {r} |->
                            IF q = r THEN SubSeq(free_blocks, 1, n) ELSE block_tables[q]]
  BY DEF AdmitOne, KV!AllocateForTokens, KV!AllocateBlocks, KV!AfterPop, KV!FirstFree,
         KV!FreeBlockCount
<1>. HIDE DEF r, n, free
<1>7. block_tables' = GiveTo(block_tables, r, SubSeq(free_blocks, 1, n))
  <2>1. SubSeq(free_blocks, 1, n) \in Seq(KV!Blocks)
    BY <1>5, CutDeque DEF IInv, BlocksInOnePlace, Partition
  <2>2. TableIn(block_tables, r) \o SubSeq(free_blocks, 1, n) = SubSeq(free_blocks, 1, n)
    BY <1>6, <2>1, ConcatEmptySeq DEF TableIn, KV!Owners
  <2>. QED  BY <1>6, <2>2 DEF GiveTo, KV!Owners
<1>8. Partition(KV!Blocks, free_blocks', block_tables')
  <2>1. Partition(KV!Blocks, free_blocks, block_tables)
    BY DEF IInv, BlocksInOnePlace
  <2>2. Partition(KV!Blocks, SubSeq(free_blocks, n + 1, Len(free_blocks)),
                  GiveTo(block_tables, r, SubSeq(free_blocks, 1, n)))
    BY <1>5, <2>1, GiveKeepsPartition
  <2>. QED  BY <1>6, <1>7, <2>2
<1>9. KV!Owners' = KV!Owners \cup {r}
  BY <1>6 DEF KV!Owners
<1>10. r \notin InSlot
  BY <1>6 DEF IInv, SlotsOwnTables
<1>11. InSlot' = InSlot \cup {r}
  BY <1>2, <1>4 DEF IInv, SlotsTyped, InSlot, SlotIndices, FreeSlots
<1>12. SlotsTyped'
  BY <1>1, <1>4 DEF IInv, SlotsTyped, SlotIndices, FreeSlots
<1>13. OneSlotEach'
  BY <1>4, <1>10, <1>2 DEF IInv, SlotsTyped, OneSlotEach, SlotIndices, FreeSlots, InSlot
<1>14. FreeSlots' = FreeSlots \ {free}
  BY <1>2, <1>4 DEF IInv, SlotsTyped, SlotIndices, FreeSlots
<1>15. SlotsOwnTables' /\ BlocksInOnePlace'
  BY <1>8, <1>9, <1>11 DEF IInv, SlotsOwnTables, BlocksInOnePlace, KV!Blocks
<1>. QED  BY <1>4, <1>10, <1>11, <1>12, <1>13, <1>14, <1>15 DEF r

(* Growing a table for the next token leaves the owners as they are, also   *)
(* when the deque runs dry half-way.                                        *)
LEMMA GrowingKeeps ==
  ASSUME IInv, NEW r \in Requests, EnsureCapacity(r), UNCHANGED slots
  PROVE  SlotsOwnTables' /\ BlocksInOnePlace'
<1>. DEFINE missing == KV!MissingBlocks(r, TokenPosition(r))
            k == IF missing <= Len(free_blocks) THEN missing ELSE Len(free_blocks)
<1>1. /\ r \in DOMAIN block_tables
      /\ free_blocks' = SubSeq(free_blocks, k + 1, Len(free_blocks))
      /\ block_tables' = [block_tables EXCEPT ![r] = @ \o SubSeq(free_blocks, 1, k)]
  BY DEF EnsureCapacity, KV!EnsureCapacityForToken, KV!Extend, KV!AfterPop, KV!FirstFree,
         KV!FreeBlockCount, KV!Owners
<1>2. missing \in Nat
  <2>1. TokenPosition(r) + 1 \in Nat
    BY DEF IInv, CountsTyped, TokenPosition
  <2>2. KV!BlocksNeeded(TokenPosition(r) + 1) \in Nat
    BY <2>1, BlocksNeededNat
  <2>3. Len(block_tables[r]) \in Nat
    BY <1>1, LenProperties DEF IInv, BlocksInOnePlace, Partition
  <2>. QED  BY <2>2, <2>3 DEF KV!MissingBlocks
<1>. HIDE DEF missing
<1>3. k \in 0 .. Len(free_blocks)
  <2>1. Len(free_blocks) \in Nat
    BY LenProperties DEF IInv, BlocksInOnePlace, Partition
  <2>. QED  BY <1>2, <2>1
<1>. HIDE DEF k
<1>4. block_tables' = GiveTo(block_tables, r, SubSeq(free_blocks, 1, k))
  <2>1. DOMAIN block_tables \cup {r} = DOMAIN block_tables
    BY <1>1
  <2>. QED  BY <1>1, <2>1 DEF GiveTo, TableIn
<1>5. Partition(KV!Blocks, free_blocks', block_tables')
  <2>1. Partition(KV!Blocks, free_blocks, block_tables)
    BY DEF IInv, BlocksInOnePlace
  <2>2. Partition(KV!Blocks, SubSeq(free_blocks, k + 1, Len(free_blocks)),
                  GiveTo(block_tables, r, SubSeq(free_blocks, 1, k)))
    BY <1>3, <2>1, GiveKeepsPartition
  <2>. QED  BY <1>1, <1>4, <2>2
<1>6. KV!Owners' = KV!Owners
  BY <1>1 DEF KV!Owners
<1>. QED  BY <1>5, <1>6
          DEF IInv, SlotsOwnTables, BlocksInOnePlace, InSlot, SlotIndices, KV!Blocks

-----------------------------------------------------------------------------
(* The other parts of the invariant *)

(* Every action keeps the token counts natural numbers.                     *)
LEMMA CountsKept ==
  ASSUME IInv, Next
  PROVE  CountsTyped'
<1>. USE DEF CountsTyped
<1>1. ASSUME NEW r \in Requests, Submit(r)  PROVE CountsTyped'
  BY <1>1, ShapesAssumption DEF IInv, Submit, NewRequestState
<1>2. ASSUME NEW r, NEW status, EndRequest(r, status)  PROVE CountsTyped'
  BY <1>2 DEF IInv, EndRequest
<1>3. CASE UNCHANGED request_state
  BY <1>3 DEF IInv
<1>4. CASE DrainOne
  BY <1>4 DEF IInv, DrainOne
<1>5. CASE DeferOne
  BY <1>5 DEF IInv, DeferOne
<1>6. CASE AdmitOne
  BY <1>6 DEF IInv, AdmitOne
<1>7. CASE PrefillChunk
  BY <1>7 DEF IInv, PrefillChunk
<1>8. ASSUME NEW r \in Requests, EnsureRunnable(r)  PROVE CountsTyped'
  BY <1>8 DEF IInv, EnsureRunnable
<1>9. CASE RunDecodeBatch
  BY <1>9 DEF IInv, RunDecodeBatch
<1>10. CASE FailDecodeBatch
  BY <1>10 DEF IInv, FailDecodeBatch
<1>11. CASE ApplyOutput
  BY <1>11 DEF IInv, ApplyOutput, WithOutput
<1>. QED
  BY <1>1, <1>2, <1>3, <1>4, <1>5, <1>6, <1>7, <1>8, <1>9, <1>10, <1>11
     DEF Next, Step, EngineStep, StepWithoutEngine, BeginStep, DrainEmpty, AdmitPass,
         AdmitPassDone, FailAdmission, PlanPrefill, FailPrefill, BeginDecode,
         EnsureStalled, EvictOneStalledRequest, ChooseBatch, FinishRequest, AllApplied,
         FailOneOfBatch, AllFailed

(* Every action keeps the lists lists of requests.                          *)
LEMMA ListsKept ==
  ASSUME IInv, Next
  PROVE  ListsTyped'
<1>. USE DEF ListsTyped
<1>1. ASSUME NEW r \in Requests, Submit(r)  PROVE ListsTyped'
  BY <1>1, AppendProperties DEF IInv, Submit
<1>2. CASE DrainOne
  BY <1>2, AppendProperties, HeadTailProperties DEF IInv, DrainOne
<1>3. CASE AdmitPass
  <2>. DEFINE free == MaxSlots - OccupiedSlotCount
              n == IF free <= Len(waiting) THEN free ELSE Len(waiting)
  <2>1. n \in 0 .. Len(waiting)
    <3>1. Len(waiting) \in Nat
      BY LenProperties DEF IInv
    <3>2. free \in Nat
      BY CountingSlots
    <3>. QED  BY <3>1, <3>2
  <2>2. SelectAdmissions \in Seq(Requests)
    BY <2>1, CutDeque DEF IInv, SelectAdmissions
  <2>. QED  BY <1>3, <2>2 DEF IInv, AdmitPass, Goto
<1>4. ASSUME local' = [local EXCEPT !.selected = Tail(@), !.admitted_any = TRUE],
             local.selected # << >>, waiting' = RemoveFirst(waiting, Candidate),
             UNCHANGED request_queue
      PROVE  ListsTyped'
  BY <1>4, RemoveFirstIsASeq, HeadTailProperties DEF IInv
<1>5. ASSUME local' = [local EXCEPT !.selected = Tail(@)],
             local.selected # << >>, waiting' = RemoveFirst(waiting, Candidate),
             UNCHANGED request_queue
      PROVE  ListsTyped'
  BY <1>5, RemoveFirstIsASeq, HeadTailProperties DEF IInv
<1>6. CASE DeferOne
  <2>1. Candidate \in Requests /\ Tail(local.selected) \in Seq(Requests)
    BY <1>6, HeadTailProperties DEF IInv, DeferOne, Admitting, Candidate
  <2>2. RemoveFirst(waiting, Candidate) \in Seq(Requests)
    BY RemoveFirstIsASeq DEF IInv
  <2>3. <<Candidate>> \o RemoveFirst(waiting, Candidate) \in Seq(Requests)
    BY <2>1, <2>2
  <2>. QED  BY <1>6, <2>1, <2>3 DEF IInv, DeferOne
<1>7. ASSUME UNCHANGED <<request_queue, waiting>>, UNCHANGED local.selected,
             "selected" \in DOMAIN local'
      PROVE  ListsTyped'
  BY <1>7 DEF IInv
<1>8. ASSUME UNCHANGED <<request_queue, waiting>>, local' = Idle
      PROVE  ListsTyped'
  BY <1>8 DEF IInv, Idle
<1>9. AdmitOne \/ FailAdmission => ListsTyped'
  BY <1>4, <1>5 DEF AdmitOne, FailAdmission, Admitting
<1>10. BeginStep \/ DrainEmpty \/ AdmitPassDone \/ PlanPrefill \/ PrefillChunk
         \/ FailPrefill \/ FailDecodeBatch
       => ListsTyped'
  BY <1>7 DEF IInv, BeginStep, DrainEmpty, AdmitPassDone, PlanPrefill, PrefillChunk,
       FailPrefill, FailDecodeBatch, Goto
<1>11. RunDecodeBatch \/ FinishRequest \/ FailOneOfBatch \/ ApplyOutput => ListsTyped'
  BY <1>7 DEF IInv, RunDecodeBatch, FinishRequest, FailOneOfBatch, ApplyOutput, Goto
<1>12. ASSUME NEW r \in Requests, EnsureRunnable(r) \/ EnsureStalled(r)
       PROVE  ListsTyped'
  BY <1>7, <1>12 DEF IInv, EnsureRunnable, EnsureStalled
<1>13. BeginDecode \/ ChooseBatch \/ EvictOneStalledRequest \/ AllApplied \/ AllFailed
       => ListsTyped'
  BY <1>7, <1>8 DEF IInv, BeginDecode, ChooseBatch, EvictOneStalledRequest, AllApplied,
       AllFailed, EndStep
<1>. QED
  BY <1>1, <1>2, <1>3, <1>6, <1>9, <1>10, <1>11, <1>12, <1>13
     DEF Next, Step, EngineStep, StepWithoutEngine

(* What an action does to slots and blocks is one of four things.           *)
LEMMA SlotsAndBlocksKept ==
  ASSUME IInv, Next
  PROVE  SlotsTyped' /\ OneSlotEach' /\ SlotsOwnTables' /\ BlocksInOnePlace'
<1>1. CASE UNCHANGED <<slots, free_blocks, block_tables>>
  BY <1>1 DEF IInv, SlotsTyped, OneSlotEach, SlotsOwnTables, BlocksInOnePlace, SlotIndices,
       InSlot, KV!Owners, KV!Blocks
<1>2. CASE AdmitOne
  BY <1>2, AdmissionKeeps
<1>3. ASSUME NEW r, NEW status, EndRequest(r, status)
      PROVE  SlotsTyped' /\ OneSlotEach' /\ SlotsOwnTables' /\ BlocksInOnePlace'
  BY <1>3, EndingKeeps
<1>4. ASSUME NEW r \in Requests, EnsureRunnable(r) \/ EnsureStalled(r)
      PROVE  SlotsTyped' /\ OneSlotEach' /\ SlotsOwnTables' /\ BlocksInOnePlace'
  <2>1. EnsureCapacity(r) /\ UNCHANGED slots
    BY <1>4 DEF EnsureRunnable, EnsureStalled
  <2>2. SlotsOwnTables' /\ BlocksInOnePlace'
    BY <2>1, GrowingKeeps
  <2>3. SlotsTyped' /\ OneSlotEach'
    BY <2>1 DEF IInv, SlotsTyped, OneSlotEach, SlotIndices
  <2>. QED  BY <2>2, <2>3
<1>5. ASSUME NEW r \in Requests, Submit(r)
      PROVE  UNCHANGED <<slots, free_blocks, block_tables>>
  BY <1>5 DEF Submit, kv_vars
<1>. QED
  BY <1>1, <1>2, <1>3, <1>4, <1>5
     DEF Next, Step, EngineStep, StepWithoutEngine, BeginStep, DrainOne, DrainEmpty,
         AdmitPass, AdmitPassDone, DeferOne, FailAdmission, PlanPrefill, PrefillChunk,
         FailPrefill, BeginDecode, EvictOneStalledRequest, ChooseBatch, RunDecodeBatch,
         FailDecodeBatch, ApplyOutput, FinishRequest, AllApplied, FailOneOfBatch,
         AllFailed, kv_vars

(* An admission uses up one slot and one selected request, and the other    *)
(* outcomes of an iteration use up the request only.                        *)
LEMMA SelectionKept ==
  ASSUME IInv, Next
  PROVE  SelectedHaveSlots'
<1>. DEFINE left == Len(local.selected)
<1>0. left \in Nat /\ Cardinality(FreeSlots) \in Nat
  BY LenProperties, CountingSlots DEF IInv, ListsTyped
<1>1. ASSUME Admitting,
             \/ local' = [local EXCEPT !.selected = Tail(@)]
             \/ local' = [local EXCEPT !.selected = Tail(@), !.admitted_any = TRUE]
      PROVE  left # 0 /\ Len(local'.selected) = left - 1 /\ left <= Cardinality(FreeSlots)
  BY <1>0, <1>1, HeadTailProperties, EmptySeq
     DEF IInv, ListsTyped, Admitting, SelectedHaveSlots
<1>2. CASE AdmitPass /\ phase' = "admitting"
  <2>. DEFINE free == MaxSlots - OccupiedSlotCount
              n == IF free <= Len(waiting) THEN free ELSE Len(waiting)
  <2>1. free = Cardinality(FreeSlots) /\ free \in Nat /\ Len(waiting) \in Nat
    BY CountingSlots, LenProperties DEF IInv, ListsTyped
  <2>2. n \in 0 .. Len(waiting) /\ n <= free
    BY <2>1
  <2>3. Len(SelectAdmissions) = n
    BY <2>2, CutDeque DEF IInv, ListsTyped, SelectAdmissions
  <2>4. local'.selected = SelectAdmissions
    BY <1>2 DEF AdmitPass, Goto, IInv, ListsTyped
  <2>5. FreeSlots' = FreeSlots
    BY <1>2 DEF AdmitPass, FreeSlots, SlotIndices
  <2>. QED  BY <2>1, <2>2, <2>3, <2>4, <2>5 DEF SelectedHaveSlots
<1>3. CASE AdmitOne
  <2>1. PICK i \in FreeSlots : FreeSlots' = FreeSlots \ {i}
    BY <1>3, AdmissionKeeps
  <2>2. Cardinality(FreeSlots') = Cardinality(FreeSlots) - 1
    BY <2>1, CountingSlots, FS_RemoveElement
  <2>3. Len(local'.selected) = left - 1 /\ left <= Cardinality(FreeSlots)
    BY <1>1, <1>3 DEF AdmitOne
  <2>. QED  BY <1>0, <2>2, <2>3 DEF SelectedHaveSlots
<1>4. CASE DeferOne
  <2>1. FreeSlots' = FreeSlots
    BY <1>4 DEF DeferOne, FreeSlots, SlotIndices
  <2>2. Len(local'.selected) = left - 1 /\ left <= Cardinality(FreeSlots)
    BY <1>1, <1>4 DEF DeferOne
  <2>. QED  BY <1>0, <2>1, <2>2 DEF SelectedHaveSlots
<1>5. CASE FailAdmission
  <2>1. SlotsTyped' /\ FreeSlots \subseteq FreeSlots'
    BY <1>5, EndingKeeps DEF FailAdmission
  <2>2. IsFiniteSet(FreeSlots')
    <3>1. IsFiniteSet(SlotIndices) /\ FreeSlots' \subseteq SlotIndices
      <4>1. MaxSlots \in Nat
        BY MaxSlotsAssumption
      <4>. QED  BY <4>1, FS_Interval DEF SlotIndices, FreeSlots
    <3>. QED  BY <3>1, FS_Subset
  <2>3. /\ Cardinality(FreeSlots') \in Nat
        /\ Cardinality(FreeSlots) <= Cardinality(FreeSlots')
    BY <2>1, <2>2, FS_Subset, FS_CardinalityType
  <2>4. Len(local'.selected) = left - 1 /\ left <= Cardinality(FreeSlots)
    BY <1>1, <1>5 DEF FailAdmission
  <2>. QED  BY <1>0, <2>3, <2>4 DEF SelectedHaveSlots
<1>6. ASSUME NEW r \in Requests, Submit(r)  PROVE SelectedHaveSlots'
  BY <1>6 DEF IInv, SelectedHaveSlots, Submit, FreeSlots, SlotIndices
<1>7. CASE phase' # "admitting"
  BY <1>7 DEF SelectedHaveSlots
<1>8. ASSUME NEW r \in Requests, EnsureRunnable(r) \/ EnsureStalled(r)
      PROVE  phase' # "admitting"
  BY <1>8 DEF EnsureRunnable, EnsureStalled, EnsureCapacity
<1>. QED
  BY <1>2, <1>3, <1>4, <1>5, <1>6, <1>7, <1>8
     DEF Next, Step, EngineStep, StepWithoutEngine, BeginStep, DrainOne, DrainEmpty,
         AdmitPass, AdmitPassDone, PlanPrefill, PrefillChunk, FailPrefill, Prefilling,
         BeginDecode, EvictOneStalledRequest, ChooseBatch, RunDecodeBatch,
         FailDecodeBatch, ApplyOutput, FinishRequest, AllApplied, FailOneOfBatch,
         AllFailed, EndStep, Goto

-----------------------------------------------------------------------------
(* The theorems *)

(* The invariant holds of every behaviour of the scheduler.                 *)
LEMMA IInvInvariant == Spec => []IInv
<1>1. Init => IInv
  <2>. SUFFICES ASSUME Init  PROVE IInv
    OBVIOUS
  <2>1. CountsTyped
    BY DEF Init, CountsTyped, Unborn, NewRequestState
  <2>2. ListsTyped /\ SelectedHaveSlots
    BY DEF Init, ListsTyped, SelectedHaveSlots, Idle
  <2>3. SlotsTyped /\ OneSlotEach /\ InSlot = {}
    BY DEF Init, SlotsTyped, OneSlotEach, InSlot
  <2>4. KV!Owners = {} /\ block_tables = [r \in {} |-> << >>]
    BY DEF Init, KV!Init, KV!Owners
  <2>5. free_blocks = [i \in 1 .. TotalBlocks |-> i - 1]
    BY DEF Init, KV!Init
  <2>6. free_blocks \in Seq(KV!Blocks) /\ DOMAIN free_blocks = 1 .. TotalBlocks
    BY <2>5, PoolAssumption, IsASeq DEF KV!Blocks
  <2>7. IsInjective(free_blocks)
    BY <2>5, <2>6, PoolAssumption DEF IsInjective
  <2>8. \A b \in KV!Blocks : b \in Range(free_blocks)
    <3>. SUFFICES ASSUME NEW b \in KV!Blocks  PROVE b \in Range(free_blocks)
      OBVIOUS
    <3>1. b + 1 \in DOMAIN free_blocks /\ free_blocks[b + 1] = b
      BY <2>5, <2>6, PoolAssumption DEF KV!Blocks
    <3>. QED  BY <3>1 DEF Range
  <2>9. BlocksInOnePlace
    BY <2>4, <2>6, <2>7, <2>8 DEF BlocksInOnePlace, Partition
  <2>. QED  BY <2>1, <2>2, <2>3, <2>4, <2>9 DEF IInv, SlotsOwnTables
<1>2. IInv /\ [Next]_vars => IInv'
  <2>1. ASSUME IInv, Next  PROVE IInv'
    BY <2>1, CountsKept, ListsKept, SlotsAndBlocksKept, SelectionKept DEF IInv
  <2>2. ASSUME IInv, UNCHANGED vars  PROVE IInv'
    BY <2>2 DEF vars, kv_vars, IInv, CountsTyped, ListsTyped, SlotsTyped, OneSlotEach,
         SelectedHaveSlots, FreeSlots, SlotsOwnTables, BlocksInOnePlace, SlotIndices,
         InSlot, KV!Owners, KV!Blocks
  <2>. QED  BY <2>1, <2>2
<1>. QED  BY <1>1, <1>2, PTL DEF Spec

(* Whatever the scheduler does - deferring, stalling, evicting, failing a   *)
(* batch half-way - a request owns a block table exactly while it is in a   *)
(* slot: no blocks leak with an ended request, and no request in a slot     *)
(* makes ensure_capacity_for_token raise KeyError in the worker thread.     *)
THEOREM TablesFollowSlots == Spec => []SlotsOwnTables
<1>1. IInv => SlotsOwnTables
  BY DEF IInv
<1>. QED  BY <1>1, IInvInvariant, PTL

-----------------------------------------------------------------------------
(* What the selections of runtime/engine_scheduler.py and the plans of      *)
(* runtime/scheduler_work_plan.py return                                    *)

WorkItems == [request_state : Requests, num_scheduled_tokens : Nat, kind : {"prefill"}]

(* A plan as far as it got, and the budget left. *)
Scheduled == [plan : Seq(WorkItems), budget : Nat \cup {Unlimited}]

(* Scheduling a request adds at most one item to the plan, for it.          *)
LEMMA ScheduleProperties ==
  ASSUME NEW acc \in Scheduled, NEW r \in Requests, NEW remaining \in [Requests -> Nat]
  PROVE  LET next == Plan!Schedule(acc, r, remaining)
         IN  /\ next \in Scheduled
             /\ \/ next = acc
                \/ \E item \in WorkItems :
                     item.request_state = r /\ next.plan = Append(acc.plan, item)
<1>. DEFINE n == Plan!Grant(remaining[r], acc.budget)
            item == [request_state |-> r, num_scheduled_tokens |-> n, kind |-> "prefill"]
            left == IF acc.budget = Unlimited THEN Unlimited ELSE acc.budget - n
<1>1. remaining[r] \in Nat /\ acc.budget \in Nat \cup {Unlimited} /\ acc.plan \in Seq(WorkItems)
  BY DEF Scheduled
<1>2. n \in Nat /\ left \in Nat \cup {Unlimited}
  BY <1>1 DEF Plan!Grant
<1>3. Plan!Schedule(acc, r, remaining)
        = IF n <= 0 THEN acc ELSE [plan |-> Append(acc.plan, item), budget |-> left]
  BY DEF Plan!Schedule, Plan!Work
<1>. HIDE DEF n, left
<1>4. item \in WorkItems
  BY <1>2 DEF WorkItems
<1>. HIDE DEF item
<1>5. Append(acc.plan, item) \in Seq(WorkItems)
  BY <1>1, <1>4, AppendProperties
<1>6. [plan |-> Append(acc.plan, item), budget |-> left] \in Scheduled
  BY <1>2, <1>5 DEF Scheduled
<1>7. item.request_state = r
  BY DEF item
<1>. QED  BY <1>3, <1>4, <1>6, <1>7

(* A plan has at most one item for each request.                            *)
OneItemEach(plan) ==
  \A i, j \in 1 .. Len(plan) : plan[i].request_state = plan[j].request_state => i = j

PlannedFor(plan) == {plan[i].request_state : i \in 1 .. Len(plan)}

(* Appending an item plans for its request.                                  *)
LEMMA PlanGrows ==
  ASSUME NEW plan \in Seq(WorkItems), NEW item \in WorkItems
  PROVE  /\ PlannedFor(Append(plan, item)) = PlannedFor(plan) \cup {item.request_state}
         /\ OneItemEach(plan) /\ item.request_state \notin PlannedFor(plan)
              => OneItemEach(Append(plan, item))
<1>1. /\ Len(Append(plan, item)) = Len(plan) + 1 /\ Len(plan) \in Nat
      /\ \A i \in 1 .. Len(plan) : Append(plan, item)[i] = plan[i]
      /\ Append(plan, item)[Len(plan) + 1] = item
  BY AppendProperties, LenProperties
<1>. QED  BY <1>1 DEF PlannedFor, OneItemEach

(* A plan for a list of requests has items for some of these, and, if the   *)
(* list repeats nobody, one for each at most.                               *)
LEMMA PlanProperties ==
  ASSUME NEW s \in Seq(Requests), NEW remaining \in [Requests -> Nat],
         NEW budget \in Nat \cup {Unlimited}
  PROVE  LET plan == Plan!BuildPrefillWorkPlan(s, remaining, budget)
         IN  /\ plan \in Seq(WorkItems)
             /\ PlannedFor(plan) \subseteq Range(s)
             /\ IsInjective(s) => OneItemEach(plan)
<1>. DEFINE n == Len(s)
            step == [i \in 1 .. n |-> [acc \in Scheduled |->
                       Plan!Schedule(acc, s[i], remaining)]]
            first == [plan |-> << >>, budget |-> budget]
            Plans(f) == f = [i \in 0 .. n |->
                          IF i = 0 THEN [plan |-> << >>, budget |-> budget]
                          ELSE Plan!Schedule(f[i - 1], s[i], remaining)]
            after == CHOOSE f : Plans(f)
<1>1. n \in Nat /\ (\A i \in 1 .. n : s[i] \in Requests) /\ DOMAIN s = 1 .. n
  BY LenProperties, ElementOfSeq
<1>2. first \in Scheduled
  <2>1. << >> \in Seq(WorkItems)
    BY EmptySeq
  <2>. QED  BY <2>1 DEF Scheduled
<1>3. Plans(after)
  <2>1. step \in [1 .. n -> [Scheduled -> Scheduled]]
    <3>. SUFFICES ASSUME NEW i \in 1 .. n, NEW acc \in Scheduled
                  PROVE  Plan!Schedule(acc, s[i], remaining) \in Scheduled
      OBVIOUS
    <3>. QED  BY <1>1, ScheduleProperties
  <2>2. \A i \in 1 .. n, acc \in Scheduled :
          step[i][acc] = Plan!Schedule(acc, s[i], remaining)
    OBVIOUS
  <2>. HIDE DEF step, n, first
  <2>3. Computable(n, Scheduled, first, step)
    BY <1>1, <1>2, <2>1, Recursion
  <2>4. PICK f \in [0 .. n -> Scheduled] :
          f[0] = first /\ \A i \in 1 .. n : f[i] = step[i][f[i - 1]]
    BY <2>3 DEF Computable
  <2>5. ASSUME NEW i \in 0 .. n, i # 0
        PROVE  f[i] = Plan!Schedule(f[i - 1], s[i], remaining)
    <3>1. i \in 1 .. n /\ f[i - 1] \in Scheduled
      BY <1>1, <2>5
    <3>. QED  BY <2>2, <2>4, <3>1
  <2>6. f = [i \in 0 .. n |->
                          IF i = 0 THEN [plan |-> << >>, budget |-> budget]
                          ELSE Plan!Schedule(f[i - 1], s[i], remaining)]
    BY <1>1, <2>4, <2>5 DEF first
  <2>7. Plans(f)
    BY <2>6
  <2>. HIDE DEF Plans
  <2>. QED  BY <2>7
<1>4. Plan!BuildPrefillWorkPlan(s, remaining, budget) = after[n].plan
  BY DEF Plan!BuildPrefillWorkPlan
<1>. HIDE DEF after
<1>. DEFINE First(i) == {s[j] : j \in 1 .. i}
            Good == {i \in 0 .. n : /\ after[i] \in Scheduled
                                    /\ PlannedFor(after[i].plan) \subseteq First(i)
                                    /\ IsInjective(s) => OneItemEach(after[i].plan)}
<1>5. 0 \in Good
  <2>1. 0 \in 0 .. n
    BY <1>1
  <2>2. after[0] = first
    BY <1>3, <2>1
  <2>3. PlannedFor(<< >>) = {} /\ OneItemEach(<< >>)
    BY DEF PlannedFor, OneItemEach
  <2>. QED  BY <1>2, <2>1, <2>2, <2>3
<1>6. ASSUME NEW k \in 0 .. n - 1, k \in Good  PROVE k + 1 \in Good
  <2>. DEFINE i == k + 1
              acc == after[k]
              next == Plan!Schedule(acc, s[i], remaining)
  <2>1. i \in 1 .. n /\ i - 1 = k /\ s[i] \in Requests
    BY <1>1
  <2>2. after[i] = next
    <3>1. i \in 0 .. n /\ i # 0
      BY <1>1, <2>1
    <3>2. after[i] = IF i = 0 THEN [plan |-> << >>, budget |-> budget]
                     ELSE Plan!Schedule(after[i - 1], s[i], remaining)
      BY <1>3, <3>1
    <3>. QED  BY <2>1, <3>1, <3>2
  <2>3. /\ acc \in Scheduled /\ PlannedFor(acc.plan) \subseteq First(k)
        /\ IsInjective(s) => OneItemEach(acc.plan)
    BY <1>6
  <2>4. First(i) = First(k) \cup {s[i]}
    BY <2>1, <1>1
  <2>5. /\ next \in Scheduled
        /\ \/ next = acc
           \/ \E item \in WorkItems :
                item.request_state = s[i] /\ next.plan = Append(acc.plan, item)
    BY <2>1, <2>3, ScheduleProperties
  <2>. HIDE DEF next
  <2>6. CASE next = acc
    <3>1. PlannedFor(next.plan) \subseteq First(k) /\ First(k) \subseteq First(i)
      BY <2>3, <2>4, <2>6
    <3>2. IsInjective(s) => OneItemEach(next.plan)
      BY <2>3, <2>6
    <3>3. i \in 0 .. n
      BY <1>1, <2>1
    <3>4. after[i] \in Scheduled /\ after[i].plan = next.plan
      BY <2>2, <2>5
    <3>5. PlannedFor(after[i].plan) \subseteq First(i)
      BY <3>1, <3>4
    <3>6. IsInjective(s) => OneItemEach(after[i].plan)
      BY <3>2, <3>4
    <3>7. i \in Good
      <4>. HIDE DEF i, First, n, acc
      <4>. QED  BY <3>3, <3>4, <3>5, <3>6
    <3>. QED  BY <3>7
  <2>7. ASSUME NEW item \in WorkItems,
               item.request_state = s[i], next.plan = Append(acc.plan, item)
        PROVE  i \in Good
    <3>1. acc.plan \in Seq(WorkItems)
      BY <2>3 DEF Scheduled
    <3>2. PlannedFor(next.plan) = PlannedFor(acc.plan) \cup {s[i]}
      BY <2>7, <3>1, PlanGrows
    <3>3. ASSUME IsInjective(s)  PROVE OneItemEach(next.plan)
      <4>1. s[i] \notin First(k)
        BY <1>1, <2>1, <3>3 DEF IsInjective
      <4>. QED  BY <2>3, <2>7, <3>1, <3>3, <4>1, PlanGrows
    <3>4. PlannedFor(next.plan) \subseteq First(i)
      BY <2>3, <2>4, <3>2
    <3>5. IsInjective(s) => OneItemEach(next.plan)
      BY <3>3
    <3>6. i \in 0 .. n
      BY <1>1, <2>1
    <3>. HIDE DEF i, First, n
    <3>. QED  BY <2>2, <2>5, <3>4, <3>5, <3>6
  <2>. QED  BY <2>5, <2>6, <2>7
<1>. HIDE DEF Good
<1>7. n \in Good
  <2>1. \A i \in 0 .. n : i \in Good
    <3>. HIDE DEF n
    <3>. QED  BY <1>1, <1>5, <1>6, CountingUp
  <2>. QED  BY <1>1, <2>1
<1>8. First(n) = Range(s)
  BY <1>1 DEF Range
<1>. QED  BY <1>4, <1>7, <1>8 DEF Good, Scheduled

-----------------------------------------------------------------------------
(* The inductive invariant *)

RequestRecords ==
  [status : Statuses, prompt : Nat, max_new_tokens : Nat,
   prompt_tokens : Nat, num_computed_tokens : Nat, generated_tokens : Nat,
   block_table : Seq(KV!Blocks), output_queue : Seq({Text, End})]

MetricsRecords == [request_id : Requests, status : Ended]

Outputs == [request_id : Requests, text : BOOLEAN, finished : BOOLEAN]

Locals ==
  [selected : Seq(Requests), admitted_any : BOOLEAN, work_plan : Seq(WorkItems),
   unchecked : Seq(Requests), runnable : Seq(Requests), stalled : Seq(Requests),
   decode_batch : Seq(Requests), outputs : Seq(Outputs)]

Typed ==
  /\ request_state \in [Requests -> RequestRecords]
  /\ finished \in Seq(Requests)
  /\ metrics \in Seq(MetricsRecords)
  /\ stats \in [Counters -> Nat]
  /\ phase \in Phases
  /\ local \in Locals

InStatus(S) == {r \in Requests : Status(r) \in S}

(* A list that repeats nobody, of members of S.                             *)
Distinct(s, S) == IsInjective(s) /\ Range(s) \subseteq S

(* Every list holds exactly the requests of its status.                     *)
Homes ==
  /\ IsInjective(request_queue) /\ IsInjective(waiting) /\ IsInjective(finished)
  /\ Range(request_queue) \cap Range(waiting) = {}
  /\ Range(request_queue) \cup Range(waiting) = InStatus({"waiting"})
  /\ InSlot = InStatus({"prefill", "decoding"})
  /\ Range(finished) = InStatus(Ended)

(* What a loop still has to work on is where its selection found it.        *)
SelectedAreWaiting == Distinct(local.selected, Range(waiting))

PlannedArePrefilling ==
  phase = "prefill" =>
    OneItemEach(local.work_plan) /\ PlannedFor(local.work_plan) \subseteq InStatus({"prefill"})

NothingChecked ==
  phase \notin {"ensure", "run", "apply", "finish", "fail"} =>
    local.runnable = << >> /\ local.stalled = << >>

CheckedAreDecoding ==
  phase = "ensure" =>
    /\ Distinct(local.unchecked, InStatus({"decoding"}))
    /\ Distinct(local.runnable, InStatus({"decoding"}))
    /\ Distinct(local.stalled, InStatus({"decoding"}))
    /\ Range(local.unchecked) \cap Range(local.runnable) = {}
    /\ Range(local.unchecked) \cap Range(local.stalled) = {}
    /\ local.unchecked # << >> \/ local.runnable # << >> \/ local.stalled # << >>

BatchIsDecoding ==
  phase \in {"run", "fail"} => Distinct(local.decode_batch, InStatus({"decoding"}))

OneOutputEach(outputs) ==
  \A i, j \in 1 .. Len(outputs) : outputs[i].request_id = outputs[j].request_id => i = j

OutputsOf(outputs) == {outputs[i].request_id : i \in 1 .. Len(outputs)}

OutputsAreDecoding ==
  /\ phase \in {"apply", "finish"} =>
       OneOutputEach(local.outputs) /\ OutputsOf(local.outputs) \subseteq InStatus({"decoding"})
  /\ phase = "finish" => local.outputs # << >>

Loops ==
  /\ SelectedAreWaiting
  /\ PlannedArePrefilling
  /\ NothingChecked
  /\ CheckedAreDecoding
  /\ BatchIsDecoding
  /\ OutputsAreDecoding

Placed == Typed /\ Homes /\ Loops

HInv == IInv /\ Placed

-----------------------------------------------------------------------------
(* Statuses *)

(* When the record of one request changes, this one changes sides at most.  *)
LEMMA OneChange ==
  ASSUME NEW r \in Requests,
         \A x \in Requests : x # r => request_state'[x].status = request_state[x].status,
         NEW S
  PROVE  InStatus(S)' = IF request_state'[r].status \in S
                        THEN InStatus(S) \cup {r} ELSE InStatus(S) \ {r}
BY DEF InStatus, Status

(* Records may change otherwise.                                            *)
LEMMA NoChange ==
  ASSUME \A x \in Requests : request_state'[x].status = request_state[x].status, NEW S
  PROVE  InStatus(S)' = InStatus(S)
BY DEF InStatus, Status

(* Counting a token changes nothing else of a record.                       *)
LEMMA TokenCounted ==
  ASSUME Typed, NEW r \in Requests
  PROVE  /\ [request_state[r] EXCEPT !.generated_tokens = @ + 1] \in RequestRecords
         /\ [request_state[r] EXCEPT !.generated_tokens = @ + 1].status
               = request_state[r].status
         /\ request_state[r] \in RequestRecords
<1>1. request_state[r] \in RequestRecords
  BY DEF Typed
<1>. DEFINE n == request_state[r].generated_tokens + 1
<1>2. n \in Nat
  BY <1>1 DEF RequestRecords
<1>3. [request_state[r] EXCEPT !.generated_tokens = @ + 1]
        = [request_state[r] EXCEPT !.generated_tokens = n]
  BY <1>1 DEF RequestRecords
<1>. HIDE DEF n
<1>. QED  BY <1>1, <1>2, <1>3 DEF RequestRecords

(* A counter of stats goes up.                                              *)
LEMMA OneMoreCounted ==
  ASSUME Typed, NEW c \in Counters, stats' = [stats EXCEPT ![c] = @ + 1]
  PROVE  stats' \in [Counters -> Nat]
<1>1. stats \in [Counters -> Nat]
  BY DEF Typed
<1>2. stats[c] + 1 \in Nat /\ stats' = [stats EXCEPT ![c] = stats[c] + 1]
  BY <1>1
<1>. QED  BY <1>1, <1>2

(* A list of T that has only members of S is a list of S.                   *)
LEMMA SeqOfMembers ==
  ASSUME NEW T, NEW S, NEW s \in Seq(T), \A i \in 1 .. Len(s) : s[i] \in S
  PROVE  s \in Seq(S)
<1>. DEFINE at(i) == s[i]
<1>1. Len(s) \in Nat /\ s = [i \in 1 .. Len(s) |-> at(i)]
  BY LenProperties
<1>2. \A i \in 1 .. Len(s) : at(i) \in S
  OBVIOUS
<1>. HIDE DEF at
<1>3. [i \in 1 .. Len(s) |-> at(i)] \in Seq(S)
  BY <1>1, <1>2, IsASeq
<1>. QED  BY <1>1, <1>3

(* The requests in slots, and those among them with a status.               *)
LEMMA Selections ==
  ASSUME IInv, Typed
  PROVE  /\ Distinct(PrefillActiveRequestStates, InStatus({"prefill"}))
         /\ PrefillActiveRequestStates \in Seq(Requests)
         /\ Distinct(DecodeReadyRequestStates, InStatus({"decoding"}))
         /\ DecodeReadyRequestStates \in Seq(Requests)
<1>. DEFINE A == {r \in Requests : Status(r) # "finished"}
            P == {r \in Requests : Status(r) = "prefill" /\ PrefillTokensRemaining(r) > 0}
            D == {r \in Requests : Status(r) = "decoding" /\ PrefillTokensRemaining(r) = 0}
            T == Requests \cup {NoRequest}
            active == InOrder(slots, A)
<1>1. slots \in Seq(T) /\ Len(slots) = MaxSlots
  BY MaxSlotsAssumption DEF IInv, SlotsTyped, SlotIndices
<1>2. \A i, j \in 1 .. Len(slots) : slots[i] = slots[j] /\ slots[i] \in A => i = j
  BY <1>1, NoRequestAssumption DEF IInv, OneSlotEach, SlotIndices
<1>a. A \subseteq Requests /\ P \subseteq InStatus({"prefill"}) /\ D \subseteq InStatus({"decoding"})
      /\ P \subseteq Requests /\ D \subseteq Requests
  BY DEF InStatus
<1>b. ActiveRequestStates = InOrder(slots, A)
  BY DEF ActiveRequestStates
<1>c. /\ PrefillActiveRequestStates = InOrder(ActiveRequestStates, P)
      /\ DecodeReadyRequestStates = InOrder(ActiveRequestStates, D)
  BY DEF PrefillActiveRequestStates, DecodeReadyRequestStates
<1>. HIDE DEF A, P, D, T
<1>3. active \in Seq(T) /\ Range(active) \subseteq A /\ IsInjective(active)
  BY <1>1, <1>2, InOrderProperties
<1>4. active \in Seq(Requests)
  <2>1. DOMAIN active = 1 .. Len(active) /\ \A i \in 1 .. Len(active) : active[i] \in Requests
    BY <1>3, <1>a, LenProperties DEF Range
  <2>. QED  BY <1>3, <2>1, SeqOfMembers
<1>. HIDE DEF active
<1>5. ASSUME NEW S
      PROVE  /\ InOrder(active, S) \in Seq(Requests)
             /\ Range(InOrder(active, S)) \subseteq S
             /\ IsInjective(InOrder(active, S))
  <2>1. \A i, j \in 1 .. Len(active) : active[i] = active[j] /\ active[i] \in S => i = j
    <3>1. DOMAIN active = 1 .. Len(active)
      BY <1>4, LenProperties
    <3>. QED  BY <1>3, <3>1 DEF IsInjective
  <2>. QED  BY <1>4, <2>1, InOrderProperties
<1>. QED  BY <1>a, <1>b, <1>c, <1>5 DEF Distinct, active
(* A request that ends moves to the finished list, and nobody else moves.   *)
LEMMA EndingMoves ==
  ASSUME HInv, NEW r \in Requests, NEW status \in Ended, Status(r) \notin Ended,
         EndRequest(r, status)
  PROVE  /\ request_state' \in [Requests -> RequestRecords]
         /\ finished' \in Seq(Requests) /\ metrics' \in Seq(MetricsRecords)
         /\ IsInjective(finished') /\ Range(finished') = InStatus(Ended)'
         /\ InSlot' = InStatus({"prefill", "decoding"})'
         /\ InStatus({"waiting"})' = InStatus({"waiting"}) \ {r}
         /\ InStatus({"prefill"})' = InStatus({"prefill"}) \ {r}
         /\ InStatus({"decoding"})' = InStatus({"decoding"}) \ {r}
<1>. DEFINE q == [request_state[r] EXCEPT !.status = status,
                                          !.output_queue = Append(@, End)]
<1>1. request_state[r] \in RequestRecords /\ request_state \in [Requests -> RequestRecords]
  BY DEF HInv, Placed, Typed
<1>2. Append(request_state[r].output_queue, End) \in Seq({Text, End})
  BY <1>1, AppendProperties DEF RequestRecords
<1>3. q \in RequestRecords
  BY <1>1, <1>2 DEF RequestRecords, Ended, Statuses
<1>4. q.status = status /\ request_state' = [request_state EXCEPT ![r] = q]
  BY <1>1 DEF EndRequest, RequestRecords
<1>. HIDE DEF q
<1>5. request_state' \in [Requests -> RequestRecords]
  BY <1>1, <1>3, <1>4
<1>6. ASSUME NEW S  PROVE InStatus(S)' = IF status \in S THEN InStatus(S) \cup {r}
                                         ELSE InStatus(S) \ {r}
  <2>1. /\ request_state'[r].status = status
        /\ \A x \in Requests : x # r => request_state'[x].status = request_state[x].status
    BY <1>1, <1>4
  <2>. QED  BY <2>1, OneChange
<1>7. /\ status \notin {"waiting"} /\ status \notin {"prefill"} /\ status \notin {"decoding"}
      /\ status \notin {"prefill", "decoding"}
  BY DEF Ended
<1>8. finished' = Append(finished, r) /\ finished \in Seq(Requests)
  BY DEF EndRequest, HInv, Placed, Typed
<1>9. r \notin Range(finished) /\ IsInjective(finished) /\ Range(finished) = InStatus(Ended)
  BY DEF HInv, Placed, Homes, InStatus
<1>10. /\ finished' \in Seq(Requests) /\ Range(finished') = Range(finished) \cup {r}
       /\ IsInjective(finished')
  BY <1>8, <1>9, AppendRange, AppendToDistinct
<1>11. metrics' \in Seq(MetricsRecords)
  <2>1. metrics \in Seq(MetricsRecords) /\ [request_id |-> r, status |-> status] \in MetricsRecords
    BY DEF HInv, Placed, Typed, MetricsRecords
  <2>2. metrics' = Append(metrics, [request_id |-> r, status |-> status])
    BY DEF EndRequest
  <2>. QED  BY <2>1, <2>2, AppendProperties
<1>12. InSlot' = InSlot \ {r}
  BY EndingKeeps DEF HInv
<1>13. InSlot = InStatus({"prefill", "decoding"})
  BY DEF HInv, Placed, Homes
<1>14. InStatus(Ended)' = InStatus(Ended) \cup {r}
  BY <1>6
<1>15. /\ InStatus({"waiting"})' = InStatus({"waiting"}) \ {r}
       /\ InStatus({"prefill"})' = InStatus({"prefill"}) \ {r}
       /\ InStatus({"decoding"})' = InStatus({"decoding"}) \ {r}
       /\ InStatus({"prefill", "decoding"})' = InStatus({"prefill", "decoding"}) \ {r}
  BY <1>6, <1>7
<1>. QED  BY <1>5, <1>9, <1>10, <1>11, <1>12, <1>13, <1>14, <1>15

(* A step that changes no status, no list and no slot moves nobody.         *)
LEMMA NobodyMoves ==
  ASSUME HInv, \A x \in Requests : request_state'[x].status = request_state[x].status,
         UNCHANGED <<request_queue, waiting, slots, finished>>
  PROVE  /\ Homes'
         /\ InStatus({"prefill"})' = InStatus({"prefill"})
         /\ InStatus({"decoding"})' = InStatus({"decoding"})
<1>1. ASSUME NEW S  PROVE InStatus(S)' = InStatus(S)
  BY NoChange
<1>2. InSlot' = InSlot
  BY DEF InSlot, SlotIndices
<1>3. /\ InStatus({"waiting"})' = InStatus({"waiting"})
      /\ InStatus({"prefill", "decoding"})' = InStatus({"prefill", "decoding"})
      /\ InStatus(Ended)' = InStatus(Ended)
  BY <1>1
<1>. QED  BY <1>1, <1>2, <1>3 DEF HInv, Placed, Homes

-----------------------------------------------------------------------------
(* Clients, and the drain of their queue *)

(* generate_stream puts a request that is nowhere on the queue.              *)
LEMMA SubmitKeeps ==
  ASSUME HInv, NEW r \in Requests, Submit(r)
  PROVE  Placed'
<1>. USE DEF HInv, Placed
<1>0. PICK shape \in Shapes :
        request_state' = [request_state EXCEPT ![r] =
                            NewRequestState(shape.prompt, shape.max_new_tokens)]
  BY DEF Submit
<1>. DEFINE q == NewRequestState(shape.prompt, shape.max_new_tokens)
<1>1. request_state' = [request_state EXCEPT ![r] = q]
  BY <1>0
<1>2. q \in RequestRecords /\ q.status = "waiting"
  <2>1. shape.prompt \in Nat /\ shape.max_new_tokens \in Nat
    BY ShapesAssumption
  <2>2. << >> \in Seq(KV!Blocks) /\ << >> \in Seq({Text, End})
    BY EmptySeq
  <2>. QED  BY <2>1, <2>2 DEF NewRequestState, RequestRecords, Statuses
<1>. HIDE DEF q
<1>3. /\ request_queue' = Append(request_queue, r) /\ Status(r) = "new"
      /\ UNCHANGED <<waiting, slots, finished, metrics, stats, phase, local>>
  BY DEF Submit
<1>4. Typed'
  BY <1>1, <1>2, <1>3 DEF Typed
<1>5. ASSUME NEW S  PROVE InStatus(S)' = IF "waiting" \in S THEN InStatus(S) \cup {r}
                                         ELSE InStatus(S) \ {r}
  <2>1. /\ request_state'[r].status = "waiting"
        /\ \A x \in Requests : x # r => request_state'[x].status = request_state[x].status
    BY <1>1, <1>2 DEF Typed
  <2>. QED  BY <2>1, OneChange
<1>6. /\ r \notin InStatus({"waiting"}) /\ r \notin InStatus({"prefill"})
      /\ r \notin InStatus({"decoding"}) /\ r \notin InStatus(Ended)
      /\ r \notin InStatus({"prefill", "decoding"})
  BY <1>3 DEF InStatus, Ended
<1>7. /\ InStatus({"waiting"})' = InStatus({"waiting"}) \cup {r}
      /\ InStatus({"prefill"})' = InStatus({"prefill"})
      /\ InStatus({"decoding"})' = InStatus({"decoding"})
      /\ InStatus({"prefill", "decoding"})' = InStatus({"prefill", "decoding"})
      /\ InStatus(Ended)' = InStatus(Ended)
  BY <1>5, <1>6 DEF Ended
<1>8. /\ Range(request_queue)' = Range(request_queue) \cup {r}
      /\ IsInjective(request_queue')
  <2>1. request_queue \in Seq(Requests) /\ IsInjective(request_queue)
    BY DEF IInv, ListsTyped, Homes
  <2>2. r \notin Range(request_queue)
    BY <1>6 DEF Homes
  <2>. QED  BY <1>3, <2>1, <2>2, AppendRange, AppendToDistinct
<1>9. InSlot' = InSlot
  BY <1>3 DEF InSlot, SlotIndices
<1>10. Homes'
  BY <1>3, <1>6, <1>7, <1>8, <1>9 DEF Homes
<1>11. Loops'
  BY <1>3, <1>7 DEF Loops, SelectedAreWaiting, PlannedArePrefilling, NothingChecked,
       CheckedAreDecoding, BatchIsDecoding, OutputsAreDecoding
<1>. QED  BY <1>4, <1>10, <1>11

(* A request is in the waiting list again, or for the first time.           *)
LEMMA WaitingRecord ==
  ASSUME Typed, NEW r \in Requests,
         request_state' = [request_state EXCEPT ![r].status = "waiting"]
  PROVE  /\ request_state' \in [Requests -> RequestRecords]
         /\ request_state'[r].status = "waiting"
         /\ \A x \in Requests : x # r => request_state'[x] = request_state[x]
<1>1. request_state \in [Requests -> RequestRecords] /\ request_state[r] \in RequestRecords
  BY DEF Typed
<1>2. [request_state[r] EXCEPT !.status = "waiting"] \in RequestRecords
  BY <1>1 DEF RequestRecords, Statuses
<1>3. request_state' = [request_state EXCEPT ![r] = [request_state[r] EXCEPT !.status = "waiting"]]
  OBVIOUS
<1>4. request_state' \in [Requests -> RequestRecords]
  BY <1>1, <1>2, <1>3
<1>5. request_state'[r].status = "waiting"
  BY <1>1, <1>3 DEF RequestRecords
<1>. QED  BY <1>1, <1>3, <1>4, <1>5

(* drain_external_queue moves the oldest from the queue to the waiting list. *)
LEMMA DrainOneKeeps ==
  ASSUME HInv, DrainOne
  PROVE  Placed'
<1>. USE DEF HInv, Placed
<1>. DEFINE r == Head(request_queue)
<1>1. request_queue \in Seq(Requests) /\ request_queue # << >> /\ waiting \in Seq(Requests)
  BY DEF DrainOne, IInv, ListsTyped
<1>2. IsInjective(request_queue) /\ IsInjective(waiting)
  BY DEF Homes
<1>3. /\ r \in Range(request_queue)
      /\ Range(request_queue) = Range(Tail(request_queue)) \cup {r}
      /\ IsInjective(Tail(request_queue)) /\ r \notin Range(Tail(request_queue))
  BY <1>1, <1>2, TailOfDistinct
<1>4. r \in Requests /\ Status(r) = "waiting" /\ r \notin Range(waiting)
  BY <1>3 DEF Homes, InStatus
<1>5. /\ Range(Append(waiting, r)) = Range(waiting) \cup {r}
      /\ IsInjective(Append(waiting, r))
  BY <1>1, <1>2, <1>4, AppendRange, AppendToDistinct
<1>6. /\ request_queue' = Tail(request_queue) /\ waiting' = Append(waiting, r)
      /\ request_state' = [request_state EXCEPT ![r].status = "waiting"]
      /\ UNCHANGED <<slots, finished, metrics, stats, phase, local>>
  BY DEF DrainOne
<1>. HIDE DEF r
<1>7. Typed' /\ \A x \in Requests : request_state'[x].status = request_state[x].status
  <2>1. Typed'
    BY <1>4, <1>6, WaitingRecord DEF Typed
  <2>. QED  BY <1>4, <1>6, <2>1, WaitingRecord DEF Status
<1>8. ASSUME NEW S  PROVE InStatus(S)' = InStatus(S)
  BY <1>7, NoChange
<1>9. /\ InStatus({"waiting"})' = InStatus({"waiting"})
      /\ InStatus({"prefill"})' = InStatus({"prefill"})
      /\ InStatus({"decoding"})' = InStatus({"decoding"})
      /\ InStatus({"prefill", "decoding"})' = InStatus({"prefill", "decoding"})
      /\ InStatus(Ended)' = InStatus(Ended)
  BY <1>8
<1>10. InSlot' = InSlot
  BY <1>6 DEF InSlot, SlotIndices
<1>11. Homes'
  BY <1>3, <1>5, <1>6, <1>9, <1>10 DEF Homes
<1>12. Loops'
  BY <1>5, <1>6, <1>9 DEF Loops, SelectedAreWaiting, PlannedArePrefilling, NothingChecked,
       CheckedAreDecoding, BatchIsDecoding, OutputsAreDecoding, Distinct
<1>. QED  BY <1>7, <1>11, <1>12

-----------------------------------------------------------------------------
(* Admission *)

(* The request an admission pass is at is on the waiting list, and the rest *)
(* of the selection is without it.                                          *)
LEMMA CandidateWaits ==
  ASSUME HInv, Admitting
  PROVE  /\ Candidate \in Requests /\ Status(Candidate) = "waiting"
         /\ Candidate \in Range(waiting) /\ Candidate \notin Range(request_queue)
         /\ Tail(local.selected) \in Seq(Requests)
         /\ Distinct(Tail(local.selected), Range(waiting) \ {Candidate})
<1>1. local.selected \in Seq(Requests) /\ local.selected # << >>
  BY DEF HInv, IInv, ListsTyped, Admitting
<1>2. IsInjective(local.selected) /\ Range(local.selected) \subseteq Range(waiting)
  BY DEF HInv, Placed, Loops, SelectedAreWaiting, Distinct
<1>3. /\ Candidate \in Range(local.selected)
      /\ Range(local.selected) = Range(Tail(local.selected)) \cup {Candidate}
      /\ IsInjective(Tail(local.selected)) /\ Candidate \notin Range(Tail(local.selected))
      /\ Tail(local.selected) \in Seq(Requests)
  BY <1>1, <1>2, TailOfDistinct DEF Candidate
<1>4. Candidate \in InStatus({"waiting"}) /\ Candidate \notin Range(request_queue)
  BY <1>2, <1>3 DEF HInv, Placed, Homes
<1>. QED  BY <1>2, <1>3, <1>4 DEF Distinct, InStatus

(* An admission moves the request from the waiting list to a slot.           *)
LEMMA AdmitOneKeeps ==
  ASSUME HInv, AdmitOne
  PROVE  Placed'
<1>. USE DEF HInv, Placed
<1>. DEFINE r == Candidate
            q == [request_state[r] EXCEPT !.status = "prefill",
                                          !.block_table = block_tables'[r],
                                          !.prompt_tokens = request_state[r].prompt]
<1>1. /\ r \in Requests /\ Status(r) = "waiting"
      /\ r \in Range(waiting) /\ r \notin Range(request_queue)
      /\ Tail(local.selected) \in Seq(Requests)
      /\ Distinct(Tail(local.selected), Range(waiting) \ {r})
  BY CandidateWaits DEF AdmitOne
<1>2. SlotsOwnTables' /\ BlocksInOnePlace' /\ InSlot' = InSlot \cup {r}
  BY AdmissionKeeps
<1>3. block_tables'[r] \in Seq(KV!Blocks)
  <2>1. r \in DOMAIN block_tables'
    BY <1>2 DEF SlotsOwnTables, KV!Owners
  <2>. QED  BY <1>2, <2>1 DEF BlocksInOnePlace, Partition, KV!Blocks
<1>4. request_state[r] \in RequestRecords
  BY <1>1 DEF Typed
<1>5. q \in RequestRecords /\ q.status = "prefill"
  BY <1>3, <1>4 DEF RequestRecords, Statuses
<1>6. /\ request_state' = [request_state EXCEPT ![r] = q]
      /\ waiting' = RemoveFirst(waiting, r)
      /\ stats' = [stats EXCEPT
                     !.admitted_count = @ + 1,
                     !.late_admissions = IF OccupiedSlotCount > 0 THEN @ + 1 ELSE @]
      /\ local' = [local EXCEPT !.selected = Tail(@), !.admitted_any = TRUE]
      /\ phase = "admitting"
      /\ UNCHANGED <<request_queue, finished, metrics, phase>>
  BY <1>4 DEF AdmitOne, Admitting
<1>. HIDE DEF r, q
<1>7. Typed'
  <2>1. request_state' \in [Requests -> RequestRecords]
    BY <1>1, <1>5, <1>6 DEF Typed
  <2>2. stats' \in [Counters -> Nat]
    <3>. DEFINE late == IF OccupiedSlotCount > 0 THEN stats.late_admissions + 1
                        ELSE stats.late_admissions
    <3>1. stats \in [Counters -> Nat]
      BY DEF Typed
    <3>2. late \in Nat /\ stats.admitted_count + 1 \in Nat
      BY <3>1 DEF Counters
    <3>3. stats' = [stats EXCEPT !.admitted_count = stats.admitted_count + 1,
                                 !.late_admissions = late]
      BY <1>6, <3>1 DEF Counters
    <3>. HIDE DEF late
    <3>. QED  BY <3>1, <3>2, <3>3
  <2>3. local' \in Locals
    BY <1>1, <1>6 DEF Typed, Locals
  <2>. QED  BY <1>6, <2>1, <2>2, <2>3 DEF Typed
<1>8. ASSUME NEW S  PROVE InStatus(S)' = IF "prefill" \in S THEN InStatus(S) \cup {r}
                                         ELSE InStatus(S) \ {r}
  <2>1. /\ request_state'[r].status = "prefill"
        /\ \A x \in Requests : x # r => request_state'[x].status = request_state[x].status
    BY <1>1, <1>5, <1>6 DEF Typed
  <2>. QED  BY <1>1, <2>1, OneChange
<1>9. r \notin InStatus(Ended)
  BY <1>1 DEF InStatus, Ended
<1>10. /\ InStatus({"waiting"})' = InStatus({"waiting"}) \ {r}
       /\ InStatus({"prefill", "decoding"})' = InStatus({"prefill", "decoding"}) \cup {r}
       /\ InStatus(Ended)' = InStatus(Ended)
  BY <1>8, <1>9 DEF Ended
<1>11. IsInjective(waiting') /\ Range(waiting') = Range(waiting) \ {r}
  <2>1. waiting \in Seq(Requests) /\ IsInjective(waiting)
    BY DEF IInv, ListsTyped, Homes
  <2>. QED  BY <1>6, <2>1, RemoveFirstOfDistinct
<1>12. Homes'
  BY <1>1, <1>2, <1>6, <1>10, <1>11 DEF Homes
<1>13. /\ local'.selected = Tail(local.selected)
       /\ local'.runnable = local.runnable /\ local'.stalled = local.stalled
  BY <1>6 DEF Typed, Locals
<1>14. Loops'
  BY <1>1, <1>6, <1>11, <1>13 DEF Loops, SelectedAreWaiting, PlannedArePrefilling,
       NothingChecked, CheckedAreDecoding, BatchIsDecoding, OutputsAreDecoding
<1>. QED  BY <1>7, <1>12, <1>14

(* A deferral takes the request out and puts it back in front.               *)
LEMMA DeferOneKeeps ==
  ASSUME HInv, DeferOne
  PROVE  Placed'
<1>. USE DEF HInv, Placed
<1>. DEFINE r == Candidate
            rest == RemoveFirst(waiting, r)
<1>1. /\ r \in Requests /\ Status(r) = "waiting"
      /\ r \in Range(waiting) /\ r \notin Range(request_queue)
      /\ Tail(local.selected) \in Seq(Requests)
      /\ Distinct(Tail(local.selected), Range(waiting) \ {r})
  BY CandidateWaits DEF DeferOne
<1>2. /\ request_state' = [request_state EXCEPT ![r].status = "waiting"]
      /\ waiting' = <<r>> \o rest
      /\ local' = [local EXCEPT !.selected = Tail(@)]
      /\ phase = "admitting"
      /\ UNCHANGED <<request_queue, slots, finished, metrics, stats, phase>>
  BY DEF DeferOne, Admitting
<1>3. waiting \in Seq(Requests) /\ IsInjective(waiting)
  BY DEF IInv, ListsTyped, Homes
<1>4. rest \in Seq(Requests) /\ IsInjective(rest) /\ Range(rest) = Range(waiting) \ {r}
  BY <1>3, RemoveFirstOfDistinct
<1>. HIDE DEF r, rest
<1>5. IsInjective(waiting') /\ Range(waiting') = Range(waiting)
  <2>1. r \in Requests /\ r \notin Range(rest) /\ Range(waiting) = Range(rest) \cup {r}
    BY <1>1, <1>4
  <2>2. IsInjective(<<r>> \o rest) /\ Range(<<r>> \o rest) = Range(rest) \cup {r}
    BY <1>4, <2>1, PrependToDistinct
  <2>. QED  BY <1>2, <2>1, <2>2
<1>6. Typed' /\ \A x \in Requests : request_state'[x].status = request_state[x].status
  <2>1. local' \in Locals
    BY <1>1, <1>2 DEF Typed, Locals
  <2>2. Typed'
    BY <1>1, <1>2, <2>1, WaitingRecord DEF Typed
  <2>. QED  BY <1>1, <1>2, <2>2, WaitingRecord DEF Status
<1>7. ASSUME NEW S  PROVE InStatus(S)' = InStatus(S)
  BY <1>6, NoChange
<1>8. /\ InStatus({"waiting"})' = InStatus({"waiting"})
      /\ InStatus({"prefill", "decoding"})' = InStatus({"prefill", "decoding"})
      /\ InStatus(Ended)' = InStatus(Ended)
  BY <1>7
<1>9. InSlot' = InSlot
  BY <1>2 DEF InSlot, SlotIndices
<1>10. Homes'
  BY <1>2, <1>5, <1>8, <1>9 DEF Homes
<1>11. /\ local'.selected = Tail(local.selected)
       /\ local'.runnable = local.runnable /\ local'.stalled = local.stalled
  BY <1>2 DEF Typed, Locals
<1>12. Loops'
  BY <1>1, <1>2, <1>5, <1>11 DEF Loops, SelectedAreWaiting, PlannedArePrefilling,
       NothingChecked, CheckedAreDecoding, BatchIsDecoding, OutputsAreDecoding, Distinct
<1>. QED  BY <1>6, <1>10, <1>12

(* A failed admission moves it from the waiting list to the finished one.    *)
LEMMA FailAdmissionKeeps ==
  ASSUME HInv, FailAdmission
  PROVE  Placed'
<1>. USE DEF HInv, Placed
<1>. DEFINE r == Candidate
<1>1. /\ r \in Requests /\ Status(r) = "waiting"
      /\ r \in Range(waiting) /\ r \notin Range(request_queue)
      /\ Tail(local.selected) \in Seq(Requests)
      /\ Distinct(Tail(local.selected), Range(waiting) \ {r})
  BY CandidateWaits DEF FailAdmission
<1>2. /\ EndRequest(r, "failed")
      /\ waiting' = RemoveFirst(waiting, r)
      /\ local' = [local EXCEPT !.selected = Tail(@)]
      /\ phase = "admitting"
      /\ UNCHANGED <<request_queue, stats, phase>>
  BY DEF FailAdmission, Admitting
<1>. HIDE DEF r
<1>3. /\ request_state' \in [Requests -> RequestRecords]
      /\ finished' \in Seq(Requests) /\ metrics' \in Seq(MetricsRecords)
      /\ IsInjective(finished') /\ Range(finished') = InStatus(Ended)'
      /\ InSlot' = InStatus({"prefill", "decoding"})'
      /\ InStatus({"waiting"})' = InStatus({"waiting"}) \ {r}
  <2>1. Status(r) \notin Ended /\ "failed" \in Ended
    BY <1>1 DEF Ended
  <2>. QED  BY <1>1, <1>2, <2>1, EndingMoves
<1>4. IsInjective(waiting') /\ Range(waiting') = Range(waiting) \ {r}
  <2>1. waiting \in Seq(Requests) /\ IsInjective(waiting)
    BY DEF IInv, ListsTyped, Homes
  <2>. QED  BY <1>2, <2>1, RemoveFirstOfDistinct
<1>5. Typed'
  BY <1>1, <1>2, <1>3 DEF Typed, Locals
<1>6. Homes'
  BY <1>1, <1>2, <1>3, <1>4 DEF Homes
<1>7. /\ local'.selected = Tail(local.selected)
      /\ local'.runnable = local.runnable /\ local'.stalled = local.stalled
  BY <1>2 DEF Typed, Locals
<1>8. Loops'
  BY <1>1, <1>2, <1>4, <1>7 DEF Loops, SelectedAreWaiting, PlannedArePrefilling,
       NothingChecked, CheckedAreDecoding, BatchIsDecoding, OutputsAreDecoding
<1>. QED  BY <1>5, <1>6, <1>8
-----------------------------------------------------------------------------
(* Steps between loops, which move nobody *)

(* After a step no loop has anything left to work on.                        *)
LEMMA IdleKeeps ==
  ASSUME local' = Idle, phase' = "idle", Typed, UNCHANGED waiting
  PROVE  local' \in Locals /\ phase' \in Phases /\ Loops'
<1>1. Idle \in Locals
  <2>1. /\ << >> \in Seq(Requests) /\ << >> \in Seq(WorkItems) /\ << >> \in Seq(Outputs)
    BY EmptySeq
  <2>. QED  BY <2>1 DEF Idle, Locals
<1>2. Distinct(<< >>, Range(waiting'))
  BY DEF Distinct, IsInjective, Range
<1>. QED
  BY <1>1, <1>2 DEF Idle, Phases, Loops, SelectedAreWaiting, PlannedArePrefilling,
     NothingChecked, CheckedAreDecoding, BatchIsDecoding, OutputsAreDecoding

(* The phases before decode have no list of the decode to account for.      *)
LEMMA EarlyPhase ==
  ASSUME HInv, UNCHANGED <<waiting, local>>,
         phase \in {"idle", "drain", "admit", "admitting", "plan_prefill"},
         phase' \in {"idle", "drain", "admit", "admitting", "plan_prefill"}
  PROVE  Loops'
BY DEF HInv, Placed, Loops, SelectedAreWaiting, PlannedArePrefilling, NothingChecked,
   CheckedAreDecoding, BatchIsDecoding, OutputsAreDecoding

(* A pass starts with waiting requests, each selected once.                  *)
LEMMA AdmitPassKeeps ==
  ASSUME HInv, AdmitPass
  PROVE  Placed'
<1>. USE DEF HInv, Placed
<1>1. Homes'
  BY NobodyMoves DEF AdmitPass
<1>2. CASE Goto("plan_prefill")
  <2>1. Loops'
    BY <1>2, EarlyPhase DEF AdmitPass, Goto
  <2>. QED  BY <1>1, <1>2, <2>1 DEF AdmitPass, Goto, Typed, Phases
<1>3. CASE /\ phase' = "admitting"
           /\ local' = [local EXCEPT !.selected = SelectAdmissions, !.admitted_any = FALSE]
  <2>1. waiting \in Seq(Requests) /\ IsInjective(waiting)
    BY DEF IInv, ListsTyped, Homes
  <2>. DEFINE free == MaxSlots - OccupiedSlotCount
              n == IF free <= Len(waiting) THEN free ELSE Len(waiting)
  <2>2. n \in 0 .. Len(waiting)
    <3>1. Len(waiting) \in Nat /\ free \in Nat
      BY <2>1, CountingSlots, LenProperties
    <3>. QED  BY <3>1
  <2>3. SelectAdmissions = SubSeq(waiting, 1, n)
    BY DEF SelectAdmissions
  <2>. HIDE DEF n
  <2>4. /\ SelectAdmissions \in Seq(Requests) /\ IsInjective(SelectAdmissions)
        /\ Range(SelectAdmissions) \subseteq Range(waiting)
    BY <2>1, <2>2, <2>3, CutDeque
  <2>5. /\ local' \in Locals /\ local'.selected = SelectAdmissions
        /\ local'.runnable = local.runnable /\ local'.stalled = local.stalled
    BY <1>3, <2>4 DEF Typed, Locals
  <2>6. Typed'
    BY <1>3, <2>5 DEF Typed, AdmitPass, Phases
  <2>7. phase = "admit" /\ waiting' = waiting
    BY DEF AdmitPass
  <2>8. Loops'
    BY <1>3, <2>4, <2>5, <2>7 DEF Loops, SelectedAreWaiting, PlannedArePrefilling,
       NothingChecked, CheckedAreDecoding, BatchIsDecoding, OutputsAreDecoding, Distinct
  <2>. QED  BY <1>1, <2>6, <2>8
<1>. QED  BY <1>2, <1>3 DEF AdmitPass

(* The steps to the next loop before decode leave everything in place.       *)
LEMMA OtherEarlySteps ==
  ASSUME HInv, BeginStep \/ DrainEmpty \/ AdmitPassDone
  PROVE  Placed'
<1>1. /\ UNCHANGED <<request_state, request_queue, waiting, slots, finished, metrics,
                     stats, local>>
      /\ phase \in {"idle", "drain", "admit", "admitting", "plan_prefill"}
      /\ phase' \in {"idle", "drain", "admit", "admitting", "plan_prefill"}
  BY DEF BeginStep, DrainEmpty, AdmitPassDone, Goto
<1>2. Homes' /\ Loops'
  BY <1>1, NobodyMoves, EarlyPhase
<1>. QED  BY <1>1, <1>2 DEF HInv, Placed, Typed, Phases

(* A plan is made for requests in prefill, with one item for each.           *)
LEMMA PlanPrefillKeeps ==
  ASSUME HInv, PlanPrefill
  PROVE  Placed'
<1>. USE DEF HInv, Placed
<1>. DEFINE s == PrefillActiveRequestStates
            remaining == [r \in Requests |-> PrefillTokensRemaining(r)]
            plan == Plan!BuildPrefillWorkPlan(s, remaining, PrefillBudget)
<1>1. Homes' /\ InStatus({"prefill"})' = InStatus({"prefill"})
  BY NobodyMoves DEF PlanPrefill
<1>2. remaining \in [Requests -> Nat]
  <2>. SUFFICES ASSUME NEW r \in Requests  PROVE PrefillTokensRemaining(r) \in Nat
    OBVIOUS
  <2>1. request_state[r].prompt_tokens \in Nat /\ request_state[r].num_computed_tokens \in Nat
    BY DEF Typed, RequestRecords
  <2>. QED  BY <2>1 DEF PrefillTokensRemaining
<1>3. s \in Seq(Requests) /\ Distinct(s, InStatus({"prefill"}))
  BY Selections
<1>4. PrefillBudget \in Nat \cup {Unlimited}
  BY BudgetAssumption
<1>. HIDE DEF s, remaining
<1>5. plan \in Seq(WorkItems) /\ PlannedFor(plan) \subseteq Range(s) /\ OneItemEach(plan)
  BY <1>2, <1>3, <1>4, PlanProperties DEF Distinct
<1>6. /\ phase = "plan_prefill" /\ phase' = "prefill"
      /\ local' = [local EXCEPT !.work_plan = plan]
      /\ UNCHANGED <<request_state, waiting, finished, metrics, stats>>
  BY DEF PlanPrefill, s, remaining
<1>. HIDE DEF plan
<1>7. /\ local' \in Locals /\ local'.work_plan = plan /\ local'.selected = local.selected
      /\ local'.runnable = local.runnable /\ local'.stalled = local.stalled
  BY <1>5, <1>6 DEF Typed, Locals
<1>8. Typed'
  BY <1>6, <1>7 DEF Typed, Phases
<1>9. Loops'
  BY <1>1, <1>3, <1>5, <1>6, <1>7 DEF Loops, SelectedAreWaiting, PlannedArePrefilling,
     NothingChecked, CheckedAreDecoding, BatchIsDecoding, OutputsAreDecoding, Distinct
<1>. QED  BY <1>1, <1>8, <1>9

(* The requests to be checked are decoding, and listed once.                 *)
LEMMA BeginDecodeKeeps ==
  ASSUME HInv, BeginDecode
  PROVE  Placed'
<1>. USE DEF HInv, Placed
<1>. DEFINE s == DecodeReadyRequestStates
<1>1. Homes' /\ InStatus({"decoding"})' = InStatus({"decoding"})
  BY NobodyMoves DEF BeginDecode
<1>2. s \in Seq(Requests) /\ Distinct(s, InStatus({"decoding"}))
  BY Selections
<1>3. UNCHANGED <<request_state, waiting, finished, metrics, stats>> /\ phase = "prefill"
  BY DEF BeginDecode
<1>4. CASE EndStep
  <2>1. local' \in Locals /\ phase' \in Phases /\ Loops'
    BY <1>3, <1>4, IdleKeeps DEF EndStep
  <2>. QED  BY <1>1, <1>3, <2>1 DEF Typed
<1>5. CASE s # << >> /\ phase' = "ensure" /\ local' = [local EXCEPT !.unchecked = s]
  <2>. HIDE DEF s
  <2>1. /\ local' \in Locals /\ local'.unchecked = s /\ local'.selected = local.selected
        /\ local'.runnable = local.runnable /\ local'.stalled = local.stalled
    BY <1>2, <1>5 DEF Typed, Locals
  <2>2. Typed'
    BY <1>3, <1>5, <2>1 DEF Typed, Phases
  <2>3. local.runnable = << >> /\ local.stalled = << >>
    BY <1>3 DEF Loops, NothingChecked
  <2>4. Range(<< >>) = {} /\ IsInjective(<< >>)
    BY DEF Range, IsInjective
  <2>5. CheckedAreDecoding'
    BY <1>1, <1>2, <1>5, <2>1, <2>3, <2>4 DEF CheckedAreDecoding, Distinct
  <2>6. Loops'
    BY <1>3, <1>5, <2>1, <2>5 DEF Loops, SelectedAreWaiting, PlannedArePrefilling,
       NothingChecked, BatchIsDecoding, OutputsAreDecoding, Distinct
  <2>. QED  BY <1>1, <2>2, <2>6
<1>. QED  BY <1>4, <1>5 DEF BeginDecode

(* The batch is a part of the runnable requests.                             *)
LEMMA ChooseBatchKeeps ==
  ASSUME HInv, ChooseBatch
  PROVE  Placed'
<1>. USE DEF HInv, Placed
<1>. DEFINE batch == SelectDecodeBatch(local.runnable)
<1>1. Homes' /\ InStatus({"decoding"})' = InStatus({"decoding"})
  BY NobodyMoves DEF ChooseBatch
<1>2. UNCHANGED <<request_state, waiting, finished, metrics>> /\ phase = "ensure"
  BY DEF ChooseBatch, AllChecked
<1>3. CASE EndStep /\ stats' = [stats EXCEPT !.decode_stalls = @ + 1]
  <2>1. local' \in Locals /\ phase' \in Phases /\ Loops'
    BY <1>2, <1>3, IdleKeeps DEF EndStep
  <2>2. stats' \in [Counters -> Nat]
    <3>1. stats \in [Counters -> Nat] /\ stats.decode_stalls + 1 \in Nat
      BY DEF Typed, Counters
    <3>. QED  BY <1>3, <3>1
  <2>. QED  BY <1>1, <1>2, <2>1, <2>2 DEF Typed
<1>4. CASE /\ phase' = "run" /\ local' = [local EXCEPT !.decode_batch = batch]
           /\ UNCHANGED stats
  <2>1. /\ local.runnable \in Seq(Requests) /\ IsInjective(local.runnable)
        /\ Range(local.runnable) \subseteq InStatus({"decoding"})
    BY <1>2 DEF Typed, Locals, Loops, CheckedAreDecoding, Distinct
  <2>2. batch \in Seq(Requests) /\ Distinct(batch, InStatus({"decoding"}))
    <3>1. CASE batch = local.runnable
      BY <2>1, <3>1 DEF Distinct
    <3>2. CASE DecodeLimit # Unlimited /\ ~ (Len(local.runnable) <= DecodeLimit)
      <4>1. DecodeLimit \in 0 .. Len(local.runnable)
        <5>1. DecodeLimit \in Nat /\ Len(local.runnable) \in Nat
          BY <2>1, <3>2, BudgetAssumption, LenProperties
        <5>. QED  BY <3>2, <5>1
      <4>2. batch = SubSeq(local.runnable, 1, DecodeLimit)
        BY <3>2 DEF SelectDecodeBatch
      <4>. HIDE DEF batch
      <4>. QED  BY <2>1, <4>1, <4>2, CutDeque DEF Distinct
    <3>. QED  BY <3>1, <3>2 DEF SelectDecodeBatch
  <2>. HIDE DEF batch
  <2>3. /\ local' \in Locals /\ local'.decode_batch = batch
        /\ local'.selected = local.selected
    BY <1>4, <2>2 DEF Typed, Locals
  <2>4. Typed'
    BY <1>2, <1>4, <2>3 DEF Typed, Phases
  <2>5. Loops'
    BY <1>1, <1>2, <1>4, <2>2, <2>3 DEF Loops, SelectedAreWaiting, PlannedArePrefilling,
       NothingChecked, CheckedAreDecoding, BatchIsDecoding, OutputsAreDecoding
  <2>. QED  BY <1>1, <2>4, <2>5
<1>. QED  BY <1>3, <1>4 DEF ChooseBatch

(* The ends of the two decode loops leave everything in place.               *)
LEMMA LastSteps ==
  ASSUME HInv, AllApplied \/ AllFailed
  PROVE  Placed'
<1>1. /\ UNCHANGED <<request_state, request_queue, waiting, slots, finished, metrics, stats>>
      /\ EndStep
  BY DEF AllApplied, AllFailed
<1>2. Homes'
  BY <1>1, NobodyMoves
<1>3. local' \in Locals /\ phase' \in Phases /\ Loops'
  BY <1>1, IdleKeeps DEF EndStep, HInv, Placed
<1>. QED  BY <1>1, <1>2, <1>3 DEF HInv, Placed, Typed
-----------------------------------------------------------------------------
(* Prefill *)

(* The rest of a plan has nothing for the request of its first item.        *)
LEMMA PlanTail ==
  ASSUME NEW plan \in Seq(WorkItems), plan # << >>, OneItemEach(plan)
  PROVE  /\ Head(plan) \in WorkItems /\ Head(plan).request_state \in PlannedFor(plan)
         /\ Tail(plan) \in Seq(WorkItems) /\ OneItemEach(Tail(plan))
         /\ PlannedFor(Tail(plan)) \subseteq PlannedFor(plan) \ {Head(plan).request_state}
<1>1. /\ Head(plan) \in WorkItems /\ Tail(plan) \in Seq(WorkItems)
      /\ Len(Tail(plan)) = Len(plan) - 1
      /\ \A i \in 1 .. Len(Tail(plan)) : Tail(plan)[i] = plan[i + 1]
  BY HeadTailProperties
<1>2. Len(plan) \in Nat /\ Len(plan) # 0 /\ Head(plan) = plan[1]
  BY LenProperties, EmptySeq
<1>3. \A i \in 1 .. Len(plan) - 1 :
        Tail(plan)[i] = plan[i + 1] /\ i + 1 \in 1 .. Len(plan) /\ i + 1 # 1
  BY <1>1, <1>2
<1>4. 1 \in 1 .. Len(plan)
  BY <1>2
<1>5. OneItemEach(Tail(plan))
  <2>. SUFFICES ASSUME NEW i \in 1 .. Len(plan) - 1, NEW j \in 1 .. Len(plan) - 1,
                       Tail(plan)[i].request_state = Tail(plan)[j].request_state
                PROVE  i = j
    BY <1>1 DEF OneItemEach
  <2>1. i + 1 = j + 1
    BY <1>3 DEF OneItemEach
  <2>. QED  BY <2>1
<1>6. ASSUME NEW i \in 1 .. Len(plan) - 1
      PROVE  /\ Tail(plan)[i].request_state \in PlannedFor(plan)
             /\ Tail(plan)[i].request_state # Head(plan).request_state
  BY <1>2, <1>3, <1>4 DEF OneItemEach, PlannedFor
<1>7. PlannedFor(Tail(plan)) \subseteq PlannedFor(plan) \ {Head(plan).request_state}
  BY <1>1, <1>6 DEF PlannedFor
<1>8. Head(plan).request_state \in PlannedFor(plan)
  BY <1>2, <1>4 DEF PlannedFor
<1>. QED  BY <1>1, <1>5, <1>7, <1>8

(* The request whose chunk is next is in prefill, and the rest of the plan  *)
(* is without it.                                                           *)
LEMMA ChunkIsPrefilling ==
  ASSUME HInv, Prefilling
  PROVE  LET r == Head(local.work_plan).request_state
         IN  /\ r \in Requests /\ Status(r) = "prefill"
             /\ Head(local.work_plan).num_scheduled_tokens \in Nat
             /\ Tail(local.work_plan) \in Seq(WorkItems) /\ OneItemEach(Tail(local.work_plan))
             /\ PlannedFor(Tail(local.work_plan)) \subseteq InStatus({"prefill"}) \ {r}
<1>1. local.work_plan \in Seq(WorkItems) /\ local.work_plan # << >>
  BY DEF HInv, Placed, Typed, Locals, Prefilling
<1>2. /\ OneItemEach(local.work_plan)
      /\ PlannedFor(local.work_plan) \subseteq InStatus({"prefill"})
  BY DEF HInv, Placed, Loops, PlannedArePrefilling, Prefilling
<1>3. /\ Head(local.work_plan) \in WorkItems
      /\ Head(local.work_plan).request_state \in PlannedFor(local.work_plan)
      /\ Tail(local.work_plan) \in Seq(WorkItems) /\ OneItemEach(Tail(local.work_plan))
      /\ PlannedFor(Tail(local.work_plan)) \subseteq
            PlannedFor(local.work_plan) \ {Head(local.work_plan).request_state}
  BY <1>1, <1>2, PlanTail
<1>. QED  BY <1>2, <1>3 DEF InStatus, WorkItems

(* After its last chunk a request decodes; it stays in its slot.             *)
LEMMA PrefillChunkKeeps ==
  ASSUME HInv, PrefillChunk
  PROVE  Placed'
<1>. USE DEF HInv, Placed
<1>. DEFINE r == Head(local.work_plan).request_state
            end == ChunkEnd(r, Head(local.work_plan).num_scheduled_tokens)
            status == IF end = request_state[r].prompt_tokens THEN "decoding"
                      ELSE request_state[r].status
<1>1. /\ r \in Requests /\ Status(r) = "prefill"
      /\ Head(local.work_plan).num_scheduled_tokens \in Nat
      /\ Tail(local.work_plan) \in Seq(WorkItems) /\ OneItemEach(Tail(local.work_plan))
      /\ PlannedFor(Tail(local.work_plan)) \subseteq InStatus({"prefill"}) \ {r}
  BY ChunkIsPrefilling DEF PrefillChunk
<1>2. request_state[r] \in RequestRecords
  BY <1>1 DEF Typed
<1>3. end \in Nat
  <2>1. request_state[r].num_computed_tokens \in Nat /\ request_state[r].prompt_tokens \in Nat
    BY <1>2 DEF RequestRecords
  <2>. HIDE DEF r
  <2>. QED  BY <1>1, <2>1 DEF ChunkEnd
<1>4. /\ request_state' = [request_state EXCEPT ![r].num_computed_tokens = end,
                                                ![r].generated_tokens = 0,
                                                ![r].status = status]
      /\ local' = [local EXCEPT !.work_plan = Tail(@)]
      /\ phase = "prefill"
      /\ UNCHANGED <<request_queue, waiting, slots, finished, metrics, stats, phase>>
  BY <1>2 DEF PrefillChunk, Prefilling, RequestRecords
<1>5. status \in {"prefill", "decoding"}
  BY <1>1 DEF Status
<1>. HIDE DEF r, end, status
<1>6. /\ request_state' \in [Requests -> RequestRecords]
      /\ request_state'[r].status = status
      /\ \A x \in Requests : x # r => request_state'[x].status = request_state[x].status
  <2>. DEFINE q == [request_state[r] EXCEPT !.num_computed_tokens = end,
                                            !.generated_tokens = 0, !.status = status]
  <2>1. q \in RequestRecords /\ q.status = status
    BY <1>2, <1>3, <1>5 DEF RequestRecords, Statuses
  <2>2. request_state \in [Requests -> RequestRecords]
    BY DEF Typed
  <2>3. request_state' = [request_state EXCEPT ![r] = q]
    BY <1>1, <1>4, <2>2
  <2>. HIDE DEF q
  <2>. QED  BY <1>1, <2>1, <2>2, <2>3
<1>7. ASSUME NEW S  PROVE InStatus(S)' = IF status \in S THEN InStatus(S) \cup {r}
                                         ELSE InStatus(S) \ {r}
  BY <1>1, <1>6, OneChange
<1>8. r \in InStatus({"prefill", "decoding"}) /\ r \notin InStatus({"waiting"})
      /\ r \notin InStatus(Ended)
  BY <1>1 DEF InStatus, Ended
<1>9. /\ InStatus({"waiting"})' = InStatus({"waiting"})
      /\ InStatus({"prefill", "decoding"})' = InStatus({"prefill", "decoding"})
      /\ InStatus(Ended)' = InStatus(Ended)
      /\ InStatus({"prefill"}) \ {r} \subseteq InStatus({"prefill"})'
  BY <1>5, <1>7, <1>8 DEF Ended
<1>10. InSlot' = InSlot
  BY <1>4 DEF InSlot, SlotIndices
<1>11. Homes'
  BY <1>4, <1>9, <1>10 DEF Homes
<1>12. /\ local' \in Locals /\ local'.work_plan = Tail(local.work_plan)
       /\ local'.selected = local.selected
       /\ local'.runnable = local.runnable /\ local'.stalled = local.stalled
  BY <1>1, <1>4 DEF Typed, Locals
<1>13. Typed'
  BY <1>4, <1>6, <1>12 DEF Typed
<1>14. PlannedArePrefilling'
  BY <1>1, <1>9, <1>12 DEF PlannedArePrefilling
<1>15. Loops'
  BY <1>4, <1>12, <1>14 DEF Loops, SelectedAreWaiting,
     NothingChecked, CheckedAreDecoding, BatchIsDecoding, OutputsAreDecoding
<1>. QED  BY <1>11, <1>13, <1>15

(* Taking a request out of a slot leaves the lists of waiting requests.     *)
LEMMA EndingFromSlot ==
  ASSUME HInv, NEW r \in Requests, NEW status \in Ended, EndRequest(r, status),
         r \in InStatus({"prefill", "decoding"}), UNCHANGED <<request_queue, waiting>>
  PROVE  /\ Homes'
         /\ request_state' \in [Requests -> RequestRecords]
         /\ finished' \in Seq(Requests) /\ metrics' \in Seq(MetricsRecords)
         /\ InStatus({"prefill"})' = InStatus({"prefill"}) \ {r}
         /\ InStatus({"decoding"})' = InStatus({"decoding"}) \ {r}
<1>1. Status(r) \notin Ended /\ r \notin InStatus({"waiting"})
  BY DEF InStatus, Ended
<1>2. /\ request_state' \in [Requests -> RequestRecords]
      /\ finished' \in Seq(Requests) /\ metrics' \in Seq(MetricsRecords)
      /\ IsInjective(finished') /\ Range(finished') = InStatus(Ended)'
      /\ InSlot' = InStatus({"prefill", "decoding"})'
      /\ InStatus({"waiting"})' = InStatus({"waiting"}) \ {r}
      /\ InStatus({"prefill"})' = InStatus({"prefill"}) \ {r}
      /\ InStatus({"decoding"})' = InStatus({"decoding"}) \ {r}
  BY <1>1, EndingMoves
<1>3. Homes'
  BY <1>1, <1>2 DEF HInv, Placed, Homes
<1>. QED  BY <1>2, <1>3

(* A request whose chunk raises ends; the plan has nothing more for it.      *)
LEMMA FailPrefillKeeps ==
  ASSUME HInv, FailPrefill
  PROVE  Placed'
<1>. USE DEF HInv, Placed
<1>. DEFINE r == Head(local.work_plan).request_state
<1>1. /\ r \in Requests /\ Status(r) = "prefill"
      /\ Tail(local.work_plan) \in Seq(WorkItems) /\ OneItemEach(Tail(local.work_plan))
      /\ PlannedFor(Tail(local.work_plan)) \subseteq InStatus({"prefill"}) \ {r}
  BY ChunkIsPrefilling DEF FailPrefill
<1>2. /\ EndRequest(r, "failed")
      /\ local' = [local EXCEPT !.work_plan = Tail(@)]
      /\ phase = "prefill"
      /\ UNCHANGED <<request_queue, waiting, stats, phase>>
  BY DEF FailPrefill, Prefilling
<1>. HIDE DEF r
<1>3. r \in InStatus({"prefill", "decoding"}) /\ "failed" \in Ended
  BY <1>1 DEF InStatus, Ended
<1>4. /\ Homes' /\ request_state' \in [Requests -> RequestRecords]
      /\ finished' \in Seq(Requests) /\ metrics' \in Seq(MetricsRecords)
      /\ InStatus({"prefill"})' = InStatus({"prefill"}) \ {r}
  BY <1>1, <1>2, <1>3, EndingFromSlot
<1>5. /\ local' \in Locals /\ local'.work_plan = Tail(local.work_plan)
      /\ local'.selected = local.selected
      /\ local'.runnable = local.runnable /\ local'.stalled = local.stalled
  BY <1>1, <1>2 DEF Typed, Locals
<1>6. Typed'
  BY <1>2, <1>4, <1>5 DEF Typed
<1>7. Loops'
  BY <1>1, <1>2, <1>4, <1>5 DEF Loops, SelectedAreWaiting, PlannedArePrefilling,
     NothingChecked, CheckedAreDecoding, BatchIsDecoding, OutputsAreDecoding
<1>. QED  BY <1>4, <1>6, <1>7

-----------------------------------------------------------------------------
(* Decode *)

(* Checking one request moves it from the unchecked to one of two lists.    *)
LEMMA OneChecked ==
  ASSUME HInv, NEW r \in Requests, EnsureCapacity(r)
  PROVE  /\ phase = "ensure"
         /\ Tail(local.unchecked) \in Seq(Requests)
         /\ Distinct(Tail(local.unchecked), InStatus({"decoding"}))
         /\ r \notin Range(Tail(local.unchecked))
         /\ Range(Tail(local.unchecked)) \subseteq Range(local.unchecked)
         /\ \A list \in {local.runnable, local.stalled} :
              /\ Append(list, r) \in Seq(Requests) /\ Append(list, r) # << >>
              /\ Distinct(Append(list, r), InStatus({"decoding"}))
              /\ Range(Append(list, r)) \cap Range(Tail(local.unchecked)) = {}
<1>1. /\ phase = "ensure" /\ local.unchecked # << >> /\ r = Head(local.unchecked)
  BY DEF EnsureCapacity
<1>2. /\ local.unchecked \in Seq(Requests) /\ local.runnable \in Seq(Requests)
      /\ local.stalled \in Seq(Requests)
  BY DEF HInv, Placed, Typed, Locals
<1>3. /\ Distinct(local.unchecked, InStatus({"decoding"}))
      /\ Distinct(local.runnable, InStatus({"decoding"}))
      /\ Distinct(local.stalled, InStatus({"decoding"}))
      /\ Range(local.unchecked) \cap Range(local.runnable) = {}
      /\ Range(local.unchecked) \cap Range(local.stalled) = {}
  BY <1>1 DEF HInv, Placed, Loops, CheckedAreDecoding
<1>4. /\ r \in Range(local.unchecked) /\ Tail(local.unchecked) \in Seq(Requests)
      /\ Range(local.unchecked) = Range(Tail(local.unchecked)) \cup {r}
      /\ IsInjective(Tail(local.unchecked)) /\ r \notin Range(Tail(local.unchecked))
  BY <1>1, <1>2, <1>3, TailOfDistinct DEF Distinct
<1>5. ASSUME NEW list \in {local.runnable, local.stalled}
      PROVE  /\ Append(list, r) \in Seq(Requests) /\ Append(list, r) # << >>
             /\ Distinct(Append(list, r), InStatus({"decoding"}))
             /\ Range(Append(list, r)) \cap Range(Tail(local.unchecked)) = {}
  <2>1. /\ list \in Seq(Requests) /\ IsInjective(list) /\ r \notin Range(list)
        /\ Range(list) \subseteq InStatus({"decoding"}) /\ r \in InStatus({"decoding"})
        /\ Range(list) \cap Range(local.unchecked) = {}
    BY <1>2, <1>3, <1>4 DEF Distinct
  <2>2. /\ Append(list, r) \in Seq(Requests) /\ IsInjective(Append(list, r))
        /\ Range(Append(list, r)) = Range(list) \cup {r}
    BY <2>1, AppendRange, AppendToDistinct
  <2>3. Append(list, r) # << >>
    BY <2>1, AppendProperties
  <2>. QED  BY <1>4, <2>1, <2>2, <2>3 DEF Distinct
<1>. QED  BY <1>1, <1>3, <1>4, <1>5 DEF Distinct

(* A request with room for its token becomes runnable.                       *)
LEMMA EnsureRunnableKeeps ==
  ASSUME HInv, NEW r \in Requests, EnsureRunnable(r)
  PROVE  Placed'
<1>. USE DEF HInv, Placed
<1>1. /\ EnsureCapacity(r)
      /\ request_state' = [request_state EXCEPT ![r].block_table = block_tables'[r]]
      /\ local' = [local EXCEPT !.unchecked = Tail(@), !.runnable = Append(@, r)]
      /\ UNCHANGED <<request_queue, waiting, slots, finished, metrics, stats, phase>>
  BY DEF EnsureRunnable
<1>. DEFINE list == Append(local.runnable, r)
            left == Tail(local.unchecked)
<1>2. /\ phase = "ensure" /\ left \in Seq(Requests) /\ r \notin Range(left)
      /\ Distinct(left, InStatus({"decoding"}))
      /\ Range(left) \subseteq Range(local.unchecked)
      /\ list \in Seq(Requests) /\ list # << >>
      /\ Distinct(list, InStatus({"decoding"})) /\ Range(list) \cap Range(left) = {}
  BY <1>1, OneChecked
<1>3. block_tables'[r] \in Seq(KV!Blocks)
  <2>1. BlocksInOnePlace' /\ SlotsOwnTables'
    BY <1>1, GrowingKeeps
  <2>2. r \in DOMAIN block_tables'
    BY <1>1 DEF EnsureCapacity, KV!EnsureCapacityForToken, KV!Extend, KV!Owners
  <2>. QED  BY <2>1, <2>2 DEF BlocksInOnePlace, Partition, KV!Blocks
<1>4. /\ request_state' \in [Requests -> RequestRecords]
      /\ \A x \in Requests : request_state'[x].status = request_state[x].status
  BY <1>1, <1>3 DEF Typed, RequestRecords
<1>5. Homes' /\ InStatus({"decoding"})' = InStatus({"decoding"})
  BY <1>1, <1>4, NobodyMoves
<1>6. /\ local' \in Locals /\ local'.unchecked = left /\ local'.runnable = list
      /\ local'.stalled = local.stalled /\ local'.selected = local.selected
  BY <1>1, <1>2 DEF Typed, Locals
<1>. HIDE DEF list, left
<1>7. Typed'
  BY <1>1, <1>4, <1>6 DEF Typed
<1>8. CheckedAreDecoding'
  BY <1>2, <1>5, <1>6 DEF Loops, CheckedAreDecoding
<1>9. Loops'
  BY <1>1, <1>2, <1>6, <1>8 DEF Loops, SelectedAreWaiting, PlannedArePrefilling,
     NothingChecked, BatchIsDecoding, OutputsAreDecoding
<1>. QED  BY <1>5, <1>7, <1>9

(* A request without becomes stalled.                                        *)
LEMMA EnsureStalledKeeps ==
  ASSUME HInv, NEW r \in Requests, EnsureStalled(r)
  PROVE  Placed'
<1>. USE DEF HInv, Placed
<1>1. /\ EnsureCapacity(r)
      /\ local' = [local EXCEPT !.unchecked = Tail(@), !.stalled = Append(@, r)]
      /\ stats' = [stats EXCEPT !.decode_stalls = @ + 1, !.kv_allocation_failures = @ + 1]
      /\ UNCHANGED <<request_state, request_queue, waiting, slots, finished, metrics, phase>>
  BY DEF EnsureStalled
<1>. DEFINE list == Append(local.stalled, r)
            left == Tail(local.unchecked)
<1>2. /\ phase = "ensure" /\ left \in Seq(Requests) /\ r \notin Range(left)
      /\ Distinct(left, InStatus({"decoding"}))
      /\ Range(left) \subseteq Range(local.unchecked)
      /\ list \in Seq(Requests) /\ list # << >>
      /\ Distinct(list, InStatus({"decoding"})) /\ Range(list) \cap Range(left) = {}
  BY <1>1, OneChecked
<1>3. stats' \in [Counters -> Nat]
  <2>1. stats \in [Counters -> Nat]
    BY DEF Typed
  <2>2. stats.decode_stalls + 1 \in Nat /\ stats.kv_allocation_failures + 1 \in Nat
    BY <2>1 DEF Counters
  <2>3. stats' = [stats EXCEPT !.decode_stalls = stats.decode_stalls + 1,
                               !.kv_allocation_failures = stats.kv_allocation_failures + 1]
    BY <1>1, <2>1 DEF Counters
  <2>. QED  BY <2>1, <2>2, <2>3
<1>4. Homes' /\ InStatus({"decoding"})' = InStatus({"decoding"})
  BY <1>1, NobodyMoves
<1>5. /\ local' \in Locals /\ local'.unchecked = left /\ local'.stalled = list
      /\ local'.runnable = local.runnable /\ local'.selected = local.selected
  BY <1>1, <1>2 DEF Typed, Locals
<1>. HIDE DEF list, left
<1>6. Typed'
  BY <1>1, <1>3, <1>5 DEF Typed
<1>7. CheckedAreDecoding'
  BY <1>2, <1>4, <1>5 DEF Loops, CheckedAreDecoding
<1>8. Loops'
  BY <1>1, <1>2, <1>5, <1>7 DEF Loops, SelectedAreWaiting, PlannedArePrefilling,
     NothingChecked, BatchIsDecoding, OutputsAreDecoding
<1>. QED  BY <1>4, <1>6, <1>8

(* The evicted request was in a slot.                                        *)
LEMMA EvictOneKeeps ==
  ASSUME HInv, EvictOneStalledRequest
  PROVE  Placed'
<1>. USE DEF HInv, Placed
<1>. DEFINE r == Last(local.stalled)
<1>1. local.stalled \in Seq(Requests) /\ local.stalled # << >>
      /\ Range(local.stalled) \subseteq InStatus({"decoding"})
  BY DEF EvictOneStalledRequest, AllChecked, Typed, Locals, Loops, CheckedAreDecoding, Distinct
<1>2. r \in InStatus({"decoding"})
  <2>1. Len(local.stalled) \in Nat /\ Len(local.stalled) # 0
        /\ DOMAIN local.stalled = 1 .. Len(local.stalled)
    BY <1>1, LenProperties, EmptySeq
  <2>2. r = local.stalled[Len(local.stalled)]
    BY DEF Last
  <2>. QED  BY <1>1, <2>1, <2>2 DEF Range
<1>3. /\ EndRequest(r, "failed") /\ EndStep
      /\ stats' = [stats EXCEPT !.kv_oom_evictions = @ + 1]
      /\ UNCHANGED <<request_queue, waiting>>
  BY DEF EvictOneStalledRequest
<1>. HIDE DEF r
<1>4. r \in Requests /\ r \in InStatus({"prefill", "decoding"}) /\ "failed" \in Ended
  BY <1>2 DEF InStatus, Ended
<1>5. /\ Homes' /\ request_state' \in [Requests -> RequestRecords]
      /\ finished' \in Seq(Requests) /\ metrics' \in Seq(MetricsRecords)
  BY <1>3, <1>4, EndingFromSlot
<1>6. local' \in Locals /\ phase' \in Phases /\ Loops'
  BY <1>3, IdleKeeps DEF EndStep
<1>7. stats' \in [Counters -> Nat]
  BY <1>3 DEF Typed, Counters
<1>. QED  BY <1>5, <1>6, <1>7 DEF Typed
(* A batch that is decoded gets one output for each of its requests.        *)
LEMMA RunDecodeBatchKeeps ==
  ASSUME HInv, RunDecodeBatch
  PROVE  Placed'
<1>. USE DEF HInv, Placed
<1>. DEFINE batch == local.decode_batch
<1>1. PICK silent \in SUBSET Range(batch), eos \in SUBSET Range(batch) :
        local' = [local EXCEPT !.outputs =
                    [i \in 1 .. Len(batch) |->
                       [request_id |-> batch[i],
                        text |-> batch[i] \notin silent,
                        finished |-> Ends(batch[i], eos)]]]
  BY DEF RunDecodeBatch
<1>. DEFINE Output(i) == [request_id |-> batch[i], text |-> batch[i] \notin silent,
                          finished |-> Ends(batch[i], eos)]
            outputs == [i \in 1 .. Len(batch) |-> Output(i)]
<1>2. phase = "run" /\ batch \in Seq(Requests) /\ Distinct(batch, InStatus({"decoding"}))
  BY DEF RunDecodeBatch, Typed, Locals, Loops, BatchIsDecoding
<1>3. /\ Len(batch) \in Nat /\ DOMAIN batch = 1 .. Len(batch)
      /\ \A i \in 1 .. Len(batch) : batch[i] \in Requests
  BY <1>2, LenProperties, ElementOfSeq
<1>4. \A i \in 1 .. Len(batch) : Output(i) \in Outputs /\ Output(i).request_id = batch[i]
  BY <1>3 DEF Outputs, Ends
<1>5. outputs \in Seq(Outputs) /\ Len(outputs) = Len(batch)
  <2>. HIDE DEF Output
  <2>1. outputs \in Seq(Outputs)
    BY <1>3, <1>4, IsASeq
  <2>. QED  BY <1>3, <2>1, LenProperties
<1>6. local' = [local EXCEPT !.outputs = outputs]
  BY <1>1
<1>7. \A i \in 1 .. Len(batch) : outputs[i].request_id = batch[i]
  BY <1>4
<1>. HIDE DEF outputs, Output
<1>8. OneOutputEach(outputs) /\ OutputsOf(outputs) \subseteq InStatus({"decoding"})
  BY <1>2, <1>3, <1>5, <1>7 DEF OneOutputEach, OutputsOf, Distinct, IsInjective, Range
<1>9. /\ request_state' = [r \in Requests |->
                             IF r \in Range(batch)
                             THEN [request_state[r] EXCEPT !.generated_tokens = @ + 1]
                             ELSE request_state[r]]
      /\ phase' = "apply"
      /\ UNCHANGED <<request_queue, waiting, slots, finished, metrics, stats>>
  BY DEF RunDecodeBatch
<1>10. ASSUME NEW r \in Requests
       PROVE  /\ [request_state[r] EXCEPT !.generated_tokens = @ + 1] \in RequestRecords
              /\ [request_state[r] EXCEPT !.generated_tokens = @ + 1].status
                    = request_state[r].status
              /\ request_state[r] \in RequestRecords
  BY TokenCounted
<1>11. /\ request_state' \in [Requests -> RequestRecords]
       /\ \A x \in Requests : request_state'[x].status = request_state[x].status
  BY <1>9, <1>10
<1>12. Homes' /\ InStatus({"decoding"})' = InStatus({"decoding"})
  BY <1>9, <1>11, NobodyMoves
<1>13. /\ local' \in Locals /\ local'.outputs = outputs /\ local'.selected = local.selected
  BY <1>5, <1>6 DEF Typed, Locals
<1>14. Typed'
  BY <1>9, <1>11, <1>13 DEF Typed, Phases
<1>15. Loops'
  BY <1>8, <1>9, <1>12, <1>13 DEF Loops, SelectedAreWaiting, PlannedArePrefilling,
     NothingChecked, CheckedAreDecoding, BatchIsDecoding, OutputsAreDecoding
<1>. QED  BY <1>12, <1>14, <1>15

(* A batch whose decode raised is still decoding, until its requests fail.   *)
LEMMA FailDecodeBatchKeeps ==
  ASSUME HInv, FailDecodeBatch
  PROVE  Placed'
<1>. USE DEF HInv, Placed
<1>1. PICK k \in 0 .. Len(local.decode_batch) :
        request_state' =
          [r \in Requests |->
             IF \E i \in 1 .. k : local.decode_batch[i] = r
             THEN [request_state[r] EXCEPT !.generated_tokens = @ + 1]
             ELSE request_state[r]]
  BY DEF FailDecodeBatch
<1>2. /\ phase = "run" /\ phase' = "fail"
      /\ UNCHANGED <<request_queue, waiting, slots, finished, metrics, stats, local>>
  BY DEF FailDecodeBatch
<1>3. ASSUME NEW r \in Requests
      PROVE  /\ [request_state[r] EXCEPT !.generated_tokens = @ + 1] \in RequestRecords
             /\ [request_state[r] EXCEPT !.generated_tokens = @ + 1].status
                   = request_state[r].status
             /\ request_state[r] \in RequestRecords
  BY TokenCounted
<1>4. /\ request_state' \in [Requests -> RequestRecords]
      /\ \A x \in Requests : request_state'[x].status = request_state[x].status
  BY <1>1, <1>3
<1>5. Homes' /\ InStatus({"decoding"})' = InStatus({"decoding"})
  BY <1>2, <1>4, NobodyMoves
<1>6. Typed'
  BY <1>2, <1>4 DEF Typed, Phases
<1>7. Loops'
  BY <1>2, <1>5 DEF Loops, SelectedAreWaiting, PlannedArePrefilling,
     NothingChecked, CheckedAreDecoding, BatchIsDecoding, OutputsAreDecoding, Distinct
<1>. QED  BY <1>5, <1>6, <1>7

(* The outputs after the first are for other requests.                      *)
LEMMA OutputsTail ==
  ASSUME NEW outputs \in Seq(Outputs), outputs # << >>, OneOutputEach(outputs)
  PROVE  /\ Head(outputs) \in Outputs /\ Head(outputs).request_id \in OutputsOf(outputs)
         /\ Tail(outputs) \in Seq(Outputs) /\ OneOutputEach(Tail(outputs))
         /\ OutputsOf(Tail(outputs)) \subseteq OutputsOf(outputs) \ {Head(outputs).request_id}
<1>1. /\ Head(outputs) \in Outputs /\ Tail(outputs) \in Seq(Outputs)
      /\ Len(Tail(outputs)) = Len(outputs) - 1
      /\ \A i \in 1 .. Len(Tail(outputs)) : Tail(outputs)[i] = outputs[i + 1]
  BY HeadTailProperties
<1>2. Len(outputs) \in Nat /\ Len(outputs) # 0 /\ Head(outputs) = outputs[1]
  BY LenProperties, EmptySeq
<1>3. \A i \in 1 .. Len(outputs) - 1 :
        Tail(outputs)[i] = outputs[i + 1] /\ i + 1 \in 1 .. Len(outputs) /\ i + 1 # 1
  BY <1>1, <1>2
<1>4. 1 \in 1 .. Len(outputs)
  BY <1>2
<1>5. OneOutputEach(Tail(outputs))
  <2>. SUFFICES ASSUME NEW i \in 1 .. Len(outputs) - 1, NEW j \in 1 .. Len(outputs) - 1,
                       Tail(outputs)[i].request_id = Tail(outputs)[j].request_id
                PROVE  i = j
    BY <1>1 DEF OneOutputEach
  <2>1. i + 1 = j + 1
    BY <1>3 DEF OneOutputEach
  <2>. QED  BY <2>1
<1>6. ASSUME NEW i \in 1 .. Len(outputs) - 1
      PROVE  /\ Tail(outputs)[i].request_id \in OutputsOf(outputs)
             /\ Tail(outputs)[i].request_id # Head(outputs).request_id
  BY <1>2, <1>3, <1>4 DEF OneOutputEach, OutputsOf
<1>7. OutputsOf(Tail(outputs)) \subseteq OutputsOf(outputs) \ {Head(outputs).request_id}
  BY <1>1, <1>6 DEF OutputsOf
<1>8. Head(outputs).request_id \in OutputsOf(outputs)
  BY <1>2, <1>4 DEF OutputsOf
<1>. QED  BY <1>1, <1>5, <1>7, <1>8

(* The request whose output is applied is decoding.                         *)
LEMMA OutputIsDecoding ==
  ASSUME HInv, phase \in {"apply", "finish"}, local.outputs # << >>
  PROVE  LET r == Head(local.outputs).request_id
         IN  /\ r \in Requests /\ r \in InStatus({"decoding"})
             /\ Tail(local.outputs) \in Seq(Outputs) /\ OneOutputEach(Tail(local.outputs))
             /\ OutputsOf(Tail(local.outputs)) \subseteq InStatus({"decoding"}) \ {r}
<1>1. local.outputs \in Seq(Outputs)
  BY DEF HInv, Placed, Typed, Locals
<1>2. OneOutputEach(local.outputs) /\ OutputsOf(local.outputs) \subseteq InStatus({"decoding"})
  BY DEF HInv, Placed, Loops, OutputsAreDecoding
<1>3. /\ Head(local.outputs) \in Outputs
      /\ Head(local.outputs).request_id \in OutputsOf(local.outputs)
      /\ Tail(local.outputs) \in Seq(Outputs) /\ OneOutputEach(Tail(local.outputs))
      /\ OutputsOf(Tail(local.outputs)) \subseteq
            OutputsOf(local.outputs) \ {Head(local.outputs).request_id}
  BY <1>1, <1>2, OutputsTail
<1>. QED  BY <1>2, <1>3 DEF Outputs

(* An output that is applied belongs to a request that decodes.              *)
LEMMA ApplyOutputKeeps ==
  ASSUME HInv, ApplyOutput
  PROVE  Placed'
<1>. USE DEF HInv, Placed
<1>. DEFINE output == Head(local.outputs)
            r == output.request_id
            q == WithOutput(request_state[r], output)
            left == Tail(local.outputs)
<1>1. /\ r \in Requests /\ left \in Seq(Outputs) /\ OneOutputEach(left)
      /\ OutputsOf(left) \subseteq InStatus({"decoding"})
  BY OutputIsDecoding DEF ApplyOutput
<1>2. /\ phase = "apply" /\ local.outputs # << >>
      /\ request_state' = [request_state EXCEPT ![r] = q]
      /\ stats' = [stats EXCEPT !.tokens_generated = @ + 1]
      /\ UNCHANGED <<request_queue, waiting, slots, finished, metrics>>
  <2>1. request_state[r] \in RequestRecords /\ request_state \in [Requests -> RequestRecords]
    BY <1>1 DEF Typed
  <2>. QED  BY <1>1, <2>1 DEF ApplyOutput
<1>3. \/ phase' = "finish" /\ UNCHANGED local
      \/ phase' = "apply" /\ local' = [local EXCEPT !.outputs = left]
  BY DEF ApplyOutput, Goto, Typed, Locals
<1>4. q \in RequestRecords /\ q.status = request_state[r].status
  <2>1. request_state[r] \in RequestRecords
    BY <1>1 DEF Typed
  <2>. DEFINE queue == IF output.text THEN Append(request_state[r].output_queue, Text)
                       ELSE request_state[r].output_queue
              n == request_state[r].prompt_tokens + request_state[r].generated_tokens
  <2>2. queue \in Seq({Text, End})
    <3>1. request_state[r].output_queue \in Seq({Text, End})
      BY <2>1 DEF RequestRecords
    <3>2. Append(request_state[r].output_queue, Text) \in Seq({Text, End})
      BY <3>1, AppendProperties
    <3>. QED  BY <3>1, <3>2
  <2>3. n \in Nat
    <3>1. request_state[r].prompt_tokens \in Nat /\ request_state[r].generated_tokens \in Nat
      BY <2>1 DEF RequestRecords
    <3>. HIDE DEF r
    <3>. QED  BY <3>1
  <2>4. q = [request_state[r] EXCEPT !.output_queue = queue, !.num_computed_tokens = n]
    BY <2>1 DEF WithOutput, RequestRecords
  <2>. HIDE DEF q, queue, n, r, output
  <2>. QED  BY <2>1, <2>2, <2>3, <2>4 DEF RequestRecords
<1>. HIDE DEF q, r, left, output
<1>5. /\ request_state' \in [Requests -> RequestRecords]
      /\ \A x \in Requests : request_state'[x].status = request_state[x].status
  BY <1>1, <1>2, <1>4 DEF Typed
<1>6. Homes' /\ InStatus({"decoding"})' = InStatus({"decoding"})
  BY <1>2, <1>5, NobodyMoves
<1>7. stats' \in [Counters -> Nat]
  BY <1>2, OneMoreCounted DEF Counters
<1>8. CASE phase' = "finish" /\ UNCHANGED local
  <2>1. Typed'
    BY <1>2, <1>5, <1>7, <1>8 DEF Typed, Phases
  <2>2. Loops'
    BY <1>2, <1>6, <1>8 DEF Loops, SelectedAreWaiting, PlannedArePrefilling,
       NothingChecked, CheckedAreDecoding, BatchIsDecoding, OutputsAreDecoding
  <2>. QED  BY <1>6, <2>1, <2>2
<1>9. CASE phase' = "apply" /\ local' = [local EXCEPT !.outputs = left]
  <2>1. /\ local' \in Locals /\ local'.outputs = left /\ local'.selected = local.selected
    BY <1>1, <1>9 DEF Typed, Locals
  <2>2. Typed'
    BY <1>2, <1>5, <1>7, <1>9, <2>1 DEF Typed, Phases
  <2>3. Loops'
    BY <1>1, <1>2, <1>6, <1>9, <2>1 DEF Loops, SelectedAreWaiting, PlannedArePrefilling,
       NothingChecked, CheckedAreDecoding, BatchIsDecoding, OutputsAreDecoding
  <2>. QED  BY <1>6, <2>2, <2>3
<1>. QED  BY <1>3, <1>8, <1>9

(* The one that finished has no further output.                              *)
LEMMA FinishRequestKeeps ==
  ASSUME HInv, FinishRequest
  PROVE  Placed'
<1>. USE DEF HInv, Placed
<1>. DEFINE r == Head(local.outputs).request_id
            left == Tail(local.outputs)
<1>1. /\ r \in Requests /\ r \in InStatus({"decoding"})
      /\ left \in Seq(Outputs) /\ OneOutputEach(left)
      /\ OutputsOf(left) \subseteq InStatus({"decoding"}) \ {r}
  <2>1. phase = "finish" /\ local.outputs # << >>
    BY DEF FinishRequest, Loops, OutputsAreDecoding
  <2>. QED  BY <2>1, OutputIsDecoding
<1>2. /\ EndRequest(r, "finished") /\ phase' = "apply"
      /\ stats' = [stats EXCEPT !.early_finishes = @ + 1]
      /\ local' = [local EXCEPT !.outputs = left]
      /\ UNCHANGED <<request_queue, waiting>>
  BY DEF FinishRequest, Typed, Locals
<1>. HIDE DEF r, left
<1>3. r \in InStatus({"prefill", "decoding"}) /\ "finished" \in Ended
  BY <1>1 DEF InStatus, Ended
<1>4. /\ Homes' /\ request_state' \in [Requests -> RequestRecords]
      /\ finished' \in Seq(Requests) /\ metrics' \in Seq(MetricsRecords)
      /\ InStatus({"decoding"})' = InStatus({"decoding"}) \ {r}
  BY <1>1, <1>2, <1>3, EndingFromSlot
<1>5. /\ local' \in Locals /\ local'.outputs = left /\ local'.selected = local.selected
  BY <1>1, <1>2 DEF Typed, Locals
<1>6. stats' \in [Counters -> Nat]
  BY <1>2, OneMoreCounted DEF Counters
<1>7. Typed'
  BY <1>2, <1>4, <1>5, <1>6 DEF Typed, Phases
<1>8. Loops'
  BY <1>1, <1>2, <1>4, <1>5 DEF Loops, SelectedAreWaiting, PlannedArePrefilling,
     NothingChecked, CheckedAreDecoding, BatchIsDecoding, OutputsAreDecoding
<1>. QED  BY <1>4, <1>7, <1>8

(* Each request of a failed batch ends once.                                 *)
LEMMA FailOneOfBatchKeeps ==
  ASSUME HInv, FailOneOfBatch
  PROVE  Placed'
<1>. USE DEF HInv, Placed
<1>. DEFINE r == Head(local.decode_batch)
            left == Tail(local.decode_batch)
<1>1. /\ phase = "fail" /\ local.decode_batch # << >>
      /\ local.decode_batch \in Seq(Requests)
      /\ Distinct(local.decode_batch, InStatus({"decoding"}))
  BY DEF FailOneOfBatch, Typed, Locals, Loops, BatchIsDecoding
<1>2. /\ r \in InStatus({"decoding"}) /\ left \in Seq(Requests)
      /\ Distinct(left, InStatus({"decoding"}) \ {r})
  <2>1. /\ r \in Range(local.decode_batch) /\ left \in Seq(Requests)
        /\ Range(local.decode_batch) = Range(left) \cup {r}
        /\ IsInjective(left) /\ r \notin Range(left)
    BY <1>1, TailOfDistinct DEF Distinct
  <2>. QED  BY <1>1, <2>1 DEF Distinct
<1>3. /\ EndRequest(r, "failed")
      /\ local' = [local EXCEPT !.decode_batch = left]
      /\ UNCHANGED <<request_queue, waiting, stats, phase>>
  BY DEF FailOneOfBatch, Typed, Locals
<1>. HIDE DEF r, left
<1>4. r \in Requests /\ r \in InStatus({"prefill", "decoding"}) /\ "failed" \in Ended
  BY <1>2 DEF InStatus, Ended
<1>5. /\ Homes' /\ request_state' \in [Requests -> RequestRecords]
      /\ finished' \in Seq(Requests) /\ metrics' \in Seq(MetricsRecords)
      /\ InStatus({"decoding"})' = InStatus({"decoding"}) \ {r}
  BY <1>3, <1>4, EndingFromSlot
<1>6. /\ local' \in Locals /\ local'.decode_batch = left /\ local'.selected = local.selected
  BY <1>2, <1>3 DEF Typed, Locals
<1>7. Typed'
  BY <1>3, <1>5, <1>6 DEF Typed
<1>8. Loops'
  BY <1>1, <1>2, <1>3, <1>5, <1>6 DEF Loops, SelectedAreWaiting, PlannedArePrefilling,
     NothingChecked, CheckedAreDecoding, BatchIsDecoding, OutputsAreDecoding
<1>. QED  BY <1>5, <1>7, <1>8

-----------------------------------------------------------------------------
(* The theorems *)

(* The invariant holds of every behaviour of the scheduler.                 *)
LEMMA HInvInvariant == Spec => []HInv
<1>1. Init => Placed
  <2>. SUFFICES ASSUME Init  PROVE Placed
    OBVIOUS
  <2>1. Unborn \in RequestRecords /\ Unborn.status = "new"
    <3>1. << >> \in Seq(KV!Blocks) /\ << >> \in Seq({Text, End})
      BY EmptySeq
    <3>. QED  BY <3>1 DEF Unborn, NewRequestState, RequestRecords, Statuses
  <2>2. Idle \in Locals
    <3>1. /\ << >> \in Seq(Requests) /\ << >> \in Seq(WorkItems) /\ << >> \in Seq(Outputs)
      BY EmptySeq
    <3>. QED  BY <3>1 DEF Idle, Locals
  <2>3. << >> \in Seq(Requests) /\ << >> \in Seq(MetricsRecords)
    BY EmptySeq
  <2>4. Typed
    BY <2>1, <2>2, <2>3 DEF Init, Typed, Phases
  <2>5. Range(<< >>) = {} /\ IsInjective(<< >>)
    BY DEF Range, IsInjective
  <2>6. ASSUME NEW r \in Requests  PROVE Status(r) = "new"
    BY <2>1 DEF Init, Status
  <2>7. /\ InStatus({"waiting"}) = {} /\ InStatus({"prefill", "decoding"}) = {}
        /\ InStatus(Ended) = {}
    BY <2>6 DEF InStatus, Ended
  <2>8. InSlot = {}
    BY DEF Init, InSlot
  <2>9. Homes
    BY <2>5, <2>7, <2>8 DEF Init, Homes
  <2>10. Loops
    BY <2>5 DEF Init, Idle, Loops, SelectedAreWaiting, PlannedArePrefilling,
       NothingChecked, CheckedAreDecoding, BatchIsDecoding, OutputsAreDecoding, Distinct
  <2>. QED  BY <2>4, <2>9, <2>10 DEF Placed
<1>2. ASSUME HInv, Next  PROVE Placed'
  <2>1. CASE EngineStep
    BY <1>2, <2>1, PrefillChunkKeeps, FailPrefillKeeps, RunDecodeBatchKeeps,
       FailDecodeBatchKeeps DEF EngineStep
  <2>2. CASE BeginStep \/ DrainOne \/ DrainEmpty
    BY <1>2, <2>2, OtherEarlySteps, DrainOneKeeps
  <2>3. CASE AdmitPass \/ AdmitOne \/ DeferOne \/ FailAdmission \/ AdmitPassDone
    BY <1>2, <2>3, AdmitPassKeeps, AdmitOneKeeps, DeferOneKeeps, FailAdmissionKeeps,
       OtherEarlySteps
  <2>4. CASE PlanPrefill \/ BeginDecode
    BY <1>2, <2>4, PlanPrefillKeeps, BeginDecodeKeeps
  <2>5. CASE \E r \in Requests : EnsureRunnable(r) \/ EnsureStalled(r)
    BY <1>2, <2>5, EnsureRunnableKeeps, EnsureStalledKeeps
  <2>6. CASE EvictOneStalledRequest \/ ChooseBatch
    BY <1>2, <2>6, EvictOneKeeps, ChooseBatchKeeps
  <2>7. CASE ApplyOutput \/ FinishRequest \/ AllApplied
    BY <1>2, <2>7, ApplyOutputKeeps, FinishRequestKeeps, LastSteps
  <2>8. CASE FailOneOfBatch \/ AllFailed
    BY <1>2, <2>8, FailOneOfBatchKeeps, LastSteps
  <2>9. CASE \E r \in Requests : Submit(r)
    BY <1>2, <2>9, SubmitKeeps
  <2>. QED
    BY <1>2, <2>1, <2>2, <2>3, <2>4, <2>5, <2>6, <2>7, <2>8, <2>9
       DEF Next, Step, StepWithoutEngine
<1>3. ASSUME HInv, UNCHANGED vars  PROVE Placed'
  <2>1. UNCHANGED <<request_state, request_queue, waiting, slots, finished, metrics, stats,
                    phase, local>>
    BY <1>3 DEF vars
  <2>2. Homes' /\ InStatus({"prefill"})' = InStatus({"prefill"})
        /\ InStatus({"decoding"})' = InStatus({"decoding"})
    BY <1>3, <2>1, NobodyMoves
  <2>3. Typed'
    BY <1>3, <2>1 DEF HInv, Placed, Typed
  <2>4. Loops'
    BY <1>3, <2>1, <2>2 DEF HInv, Placed, Loops, SelectedAreWaiting, PlannedArePrefilling,
       NothingChecked, CheckedAreDecoding, BatchIsDecoding, OutputsAreDecoding
  <2>. QED  BY <2>2, <2>3, <2>4 DEF Placed
<1>4. Placed /\ IInv /\ [Next]_vars => Placed'
  BY <1>2, <1>3 DEF HInv
<1>5. IInv /\ Placed => HInv
  BY DEF HInv
<1>. QED  BY <1>1, <1>4, <1>5, IInvInvariant, PTL DEF Spec

(* All variables keep their types: in particular nothing negative is        *)
(* counted, and no list of the scheduler ever holds an empty slot.          *)
THEOREM TypesAreCorrect == Spec => []TypeOK
<1>1. ASSUME HInv  PROVE TypeOK
  <2>1. Typed /\ ListsTyped /\ SlotsTyped /\ BlocksInOnePlace /\ SlotsOwnTables
    BY <1>1 DEF HInv, Placed, IInv
  <2>2. KV!TypeOK
    <3>1. free_blocks \in Seq(KV!Blocks)
      BY <2>1 DEF BlocksInOnePlace, Partition
    <3>2. KV!Owners \subseteq Requests
      BY <2>1 DEF SlotsOwnTables, InSlot, SlotsTyped
    <3>. QED  BY <2>1, <3>1, <3>2 DEF KV!TypeOK, KV!Owners, BlocksInOnePlace, Partition
  <2>. QED  BY <2>1, <2>2 DEF TypeOK, Typed, ListsTyped, SlotsTyped, RequestRecords,
       MetricsRecords, Locals, WorkItems, Outputs
<1>. QED  BY <1>1, HInvInvariant, PTL

(* A member of a list without repetitions occurs in it once.                *)
LEMMA OccursOnce ==
  ASSUME NEW s, NEW r, IsInjective(s)
  PROVE  Occurrences(s, r) = IF r \in Range(s) THEN 1 ELSE 0
<1>1. CASE r \in Range(s)
  <2>1. PICK i \in DOMAIN s : s[i] = r
    BY <1>1 DEF Range
  <2>2. {j \in DOMAIN s : s[j] = r} = {i}
    BY <2>1 DEF IsInjective
  <2>. QED  BY <1>1, <2>2, FS_Singleton DEF Occurrences
<1>2. CASE r \notin Range(s)
  <2>1. {j \in DOMAIN s : s[j] = r} = {}
    BY <1>2 DEF Range
  <2>. QED  BY <1>2, <2>1, FS_EmptySet DEF Occurrences
<1>. QED  BY <1>1, <1>2

(* No request is lost, doubled or in two places, whatever is deferred,      *)
(* stalled, evicted or failed, for every number of requests and slots.      *)
THEOREM EveryRequestHasOneHome == Spec => []OneHomePerRequest
<1>1. ASSUME HInv, NEW r \in Requests
      PROVE  /\ Occurrences(request_queue, r) + Occurrences(waiting, r)
                  = IF Status(r) = "waiting" THEN 1 ELSE 0
             /\ Occurrences(slots, r)
                  = IF Status(r) \in {"prefill", "decoding"} THEN 1 ELSE 0
             /\ Occurrences(finished, r) = IF Status(r) \in Ended THEN 1 ELSE 0
  <2>1. Homes /\ SlotsTyped /\ OneSlotEach
    BY <1>1 DEF HInv, Placed, IInv
  <2>2. /\ Occurrences(request_queue, r) = IF r \in Range(request_queue) THEN 1 ELSE 0
        /\ Occurrences(waiting, r) = IF r \in Range(waiting) THEN 1 ELSE 0
        /\ Occurrences(finished, r) = IF r \in Range(finished) THEN 1 ELSE 0
    BY <2>1, OccursOnce DEF Homes
  <2>3. Occurrences(slots, r) = IF r \in InSlot THEN 1 ELSE 0
    <3>1. r # NoRequest /\ DOMAIN slots = SlotIndices
      BY <2>1, NoRequestAssumption DEF SlotsTyped
    <3>2. CASE r \in InSlot
      <4>1. PICK i \in SlotIndices : slots[i] = r
        BY <3>2 DEF InSlot
      <4>2. {j \in DOMAIN slots : slots[j] = r} = {i}
        BY <2>1, <3>1, <4>1 DEF OneSlotEach
      <4>. QED  BY <3>2, <4>2, FS_Singleton DEF Occurrences
    <3>3. CASE r \notin InSlot
      <4>1. {j \in DOMAIN slots : slots[j] = r} = {}
        BY <3>1, <3>3 DEF InSlot
      <4>. QED  BY <3>3, <4>1, FS_EmptySet DEF Occurrences
    <3>. QED  BY <3>2, <3>3
  <2>4. /\ r \in Range(request_queue) \/ r \in Range(waiting) <=> Status(r) = "waiting"
        /\ ~ (r \in Range(request_queue) /\ r \in Range(waiting))
        /\ r \in InSlot <=> Status(r) \in {"prefill", "decoding"}
        /\ r \in Range(finished) <=> Status(r) \in Ended
    BY <2>1 DEF Homes, InStatus
  <2>. QED  BY <2>2, <2>3, <2>4
<1>2. ASSUME HInv, NEW r \in Requests  PROVE Status(r) \in Statuses
  BY <1>2 DEF HInv, Placed, Typed, RequestRecords, Status
<1>3. ASSUME HInv  PROVE OneHomePerRequest
  <2>. SUFFICES ASSUME NEW r \in Requests
                PROVE  <<Occurrences(request_queue, r) + Occurrences(waiting, r),
                         Occurrences(slots, r), Occurrences(finished, r)>>
                  = CASE Status(r) = "new"                     -> <<0, 0, 0>>
                      [] Status(r) = "waiting"                 -> <<1, 0, 0>>
                      [] Status(r) \in {"prefill", "decoding"} -> <<0, 1, 0>>
                      [] Status(r) \in Ended                   -> <<0, 0, 1>>
    BY DEF OneHomePerRequest
  <2>1. Status(r) \in Statuses
    BY <1>2, <1>3
  <2>. DEFINE a == Occurrences(request_queue, r) + Occurrences(waiting, r)
              b == Occurrences(slots, r)
              c == Occurrences(finished, r)
  <2>2. /\ a = IF Status(r) = "waiting" THEN 1 ELSE 0
        /\ b = IF Status(r) \in {"prefill", "decoding"} THEN 1 ELSE 0
        /\ c = IF Status(r) \in Ended THEN 1 ELSE 0
    BY <1>1, <1>3
  <2>. HIDE DEF a, b, c
  <2>3. <<a, b, c>> = CASE Status(r) = "new"                     -> <<0, 0, 0>>
                        [] Status(r) = "waiting"                 -> <<1, 0, 0>>
                        [] Status(r) \in {"prefill", "decoding"} -> <<0, 1, 0>>
                        [] Status(r) \in Ended                   -> <<0, 0, 1>>
    BY <2>1, <2>2 DEF Statuses, Ended
  <2>. QED  BY <2>3 DEF a, b, c
<1>. QED  BY <1>3, HInvInvariant, PTL

-----------------------------------------------------------------------------
(* The inductive invariant: counters and streams *)

(* The requests whose token the engine may have counted and the scheduler   *)
(* has not: those with an output to come, and those of a batch that raised. *)
Uncounted ==
  CASE phase \in {"apply", "finish"} -> OutputsOf(local.outputs)
    [] phase = "fail"                -> Range(local.decode_batch)
    [] OTHER                         -> {}

(* What the counters of a record may be. A stream is never ahead of the     *)
(* tokens, nor they of the limit.                                           *)
RecordRight(q, counted) ==
  /\ q.status \in {"new", "waiting", "prefill"} =>
       q.output_queue = << >> /\ q.generated_tokens = 0
  /\ q.status = "waiting" => q.num_computed_tokens = 0
  /\ q.status \in {"waiting", "prefill", "decoding"} =>
       q.prompt > 0 /\ q.max_new_tokens > 0
  /\ q.status \in {"prefill", "decoding"} => q.prompt_tokens = q.prompt
  /\ q.status = "prefill" => q.num_computed_tokens < q.prompt_tokens
  /\ q.status = "decoding" =>
       /\ q.num_computed_tokens >= q.prompt_tokens
       /\ Len(q.output_queue) <= q.generated_tokens
       /\ q.generated_tokens <= q.max_new_tokens
       /\ counted => /\ q.num_computed_tokens = q.prompt_tokens + q.generated_tokens
                     /\ q.generated_tokens < q.max_new_tokens

RecordsRight == \A r \in Requests : RecordRight(request_state[r], r \notin Uncounted)

(* A request whose output is still to be applied has room for it in its     *)
(* stream, and unless it finishes also for a further token.                 *)
OutputsDue ==
  phase \in {"apply", "finish"} =>
    \A i \in 1 .. Len(local.outputs) :
      LET q == request_state[local.outputs[i].request_id]
      IN  i > 1 \/ phase = "apply" =>
            /\ Len(q.output_queue) < q.generated_tokens
            /\ ~ local.outputs[i].finished => q.generated_tokens < q.max_new_tokens

Counted == RecordsRight /\ OutputsDue

SInv == HInv /\ Counted

(* A step of the contract, or one the clients do not notice.                *)
ContractStep == [Contract!Next]_(Contract!vars)

-----------------------------------------------------------------------------
(* What clients notice *)

Queued(q)  == q.status = "waiting"
Running(q) == q.status \in {"prefill", "decoding"}

(* How a step may change the record q of a request to p.                    *)
ClientStep(q, p) ==
  \/ /\ p.status = q.status \/ (Running(q) /\ Running(p))
     /\ p.output_queue = q.output_queue /\ p.max_new_tokens = q.max_new_tokens
  \/ /\ q.status = "new" /\ Queued(p)
     /\ p.output_queue = q.output_queue /\ p.max_new_tokens \in {s.max_new_tokens : s \in Shapes}
  \/ /\ Queued(q) /\ Running(p)
     /\ p.output_queue = q.output_queue /\ p.max_new_tokens = q.max_new_tokens
  \/ /\ Running(q) /\ Running(p) /\ Len(q.output_queue) < q.max_new_tokens
     /\ p.output_queue = Append(q.output_queue, Text) /\ p.max_new_tokens = q.max_new_tokens
  \/ /\ \/ p.status = "failed" /\ (Queued(q) \/ Running(q))
        \/ p.status = "finished" /\ Running(q)
     /\ p.output_queue = Append(q.output_queue, End) /\ p.max_new_tokens = q.max_new_tokens

(* Such a change of one record is a step of the contract.                   *)
LEMMA OneClient ==
  ASSUME request_state \in [Requests -> RequestRecords],
         request_state' \in [Requests -> RequestRecords],
         NEW r \in Requests,
         \A x \in Requests : x # r => request_state'[x] = request_state[x],
         ClientStep(request_state[r], request_state'[r])
  PROVE  ContractStep
<1>. DEFINE q == request_state[r]
            p == request_state'[r]
            stage  == [x \in Requests |-> Stage(x)]
            stream == [x \in Requests |-> request_state[x].output_queue]
            limit  == [x \in Requests |-> request_state[x].max_new_tokens]
<1>1. q \in RequestRecords /\ p \in RequestRecords
  OBVIOUS
<1>2. /\ stage' = [stage EXCEPT ![r] = Stage(r)']
      /\ stream' = [stream EXCEPT ![r] = p.output_queue]
      /\ limit' = [limit EXCEPT ![r] = p.max_new_tokens]
  <2>1. ASSUME NEW x \in Requests, x # r
        PROVE  /\ Stage(x)' = Stage(x)
               /\ request_state'[x].output_queue = request_state[x].output_queue
               /\ request_state'[x].max_new_tokens = request_state[x].max_new_tokens
    <3>1. request_state[x].status \in Statuses /\ request_state'[x] = request_state[x]
      BY <2>1 DEF RequestRecords
    <3>. QED  BY <3>1 DEF Stage, Status, Statuses, Ended
  <2>2. stage' = [stage EXCEPT ![r] = Stage(r)']
    BY <2>1
  <2>3. stream' = [stream EXCEPT ![r] = p.output_queue]
    BY <2>1
  <2>4. limit' = [limit EXCEPT ![r] = p.max_new_tokens]
    BY <2>1
  <2>. QED  BY <2>2, <2>3, <2>4
<1>3. stage[r] = Stage(r) /\ stream[r] = q.output_queue /\ limit[r] = q.max_new_tokens
  OBVIOUS
<1>4. /\ q.status = "new" => Stage(r) = "absent"
      /\ Queued(q) => Stage(r) = "queued"
      /\ Running(q) => Stage(r) = "running"
      /\ q.status \in Ended => Stage(r) = q.status
  BY DEF Stage, Status, Queued, Running, Ended
<1>5. /\ p.status = "new" => Stage(r)' = "absent"
      /\ Queued(p) => Stage(r)' = "queued"
      /\ Running(p) => Stage(r)' = "running"
      /\ p.status \in Ended => Stage(r)' = p.status
  BY DEF Stage, Status, Queued, Running, Ended
<1>6. /\ stage \in [Requests -> {"absent", "queued", "running"} \cup Ended]
      /\ stream = [stream EXCEPT ![r] = stream[r]]
      /\ limit = [limit EXCEPT ![r] = limit[r]]
      /\ stage = [stage EXCEPT ![r] = stage[r]]
  BY DEF Stage, Status, RequestRecords, Statuses, Ended
<1>a. Contract!Submit(r) <=> /\ stage[r] = "absent"
                             /\ stage' = [stage EXCEPT ![r] = "queued"]
                             /\ \E n \in {s.max_new_tokens : s \in Shapes} :
                                  limit' = [limit EXCEPT ![r] = n]
                             /\ UNCHANGED stream
  BY DEF Contract!Submit
<1>b. Contract!Start(r) <=> /\ stage[r] = "queued"
                            /\ stage' = [stage EXCEPT ![r] = "running"]
                            /\ UNCHANGED <<stream, limit>>
  BY DEF Contract!Start
<1>c. Contract!Emit(r) <=> /\ stage[r] = "running"
                           /\ Len(stream[r]) < limit[r]
                           /\ stream' = [stream EXCEPT ![r] = Append(@, Text)]
                           /\ UNCHANGED <<stage, limit>>
  BY DEF Contract!Emit, Contract!Text, Text
<1>d. Contract!Finish(r) <=> /\ stage[r] = "running"
                             /\ stage' = [stage EXCEPT ![r] = "finished"]
                             /\ stream' = [stream EXCEPT ![r] = Append(@, End)]
                             /\ UNCHANGED limit
  BY DEF Contract!Finish, Contract!End, End
<1>e. Contract!Fail(r) <=> /\ stage[r] \in {"queued", "running"}
                           /\ stage' = [stage EXCEPT ![r] = "failed"]
                           /\ stream' = [stream EXCEPT ![r] = Append(@, End)]
                           /\ UNCHANGED limit
  BY DEF Contract!Fail, Contract!End, End
<1>. HIDE DEF stage, stream, limit, q, p
<1>8. \A x \in Requests : stage[x] \in {"absent", "queued", "running"} \cup Ended
  BY <1>6
<1>9. /\ Contract!vars = <<stage, stream, limit>> /\ Contract!vars' = <<stage', stream', limit'>>
  BY DEF Contract!vars, stage, stream, limit
<1>10. CASE /\ p.status = q.status \/ (Running(q) /\ Running(p))
            /\ p.output_queue = q.output_queue /\ p.max_new_tokens = q.max_new_tokens
  <2>1. Stage(r)' = Stage(r)
    <3>1. q.status \in Statuses
      BY <1>1 DEF RequestRecords
    <3>2. CASE p.status = q.status
      BY <1>4, <1>5, <3>1, <3>2 DEF Statuses, Ended, Queued, Running
    <3>3. CASE Running(q) /\ Running(p)
      BY <1>4, <1>5, <3>3
    <3>. QED  BY <1>10, <3>2, <3>3
  <2>2. UNCHANGED <<stage, stream, limit>>
    BY <1>2, <1>3, <1>6, <1>10, <2>1
  <2>. QED  BY <1>9, <2>2 DEF ContractStep
<1>11. CASE /\ q.status = "new" /\ Queued(p)
            /\ p.output_queue = q.output_queue
            /\ p.max_new_tokens \in {s.max_new_tokens : s \in Shapes}
  <2>1. Contract!Submit(r)
    BY <1>a, <1>2, <1>3, <1>4, <1>5, <1>6, <1>11
  <2>. QED  BY <2>1 DEF ContractStep, Contract!Next
<1>12. CASE /\ Queued(q) /\ Running(p)
            /\ p.output_queue = q.output_queue /\ p.max_new_tokens = q.max_new_tokens
  <2>1. Contract!Start(r)
    BY <1>b, <1>2, <1>3, <1>4, <1>5, <1>6, <1>12
  <2>. QED  BY <2>1 DEF ContractStep, Contract!Next
<1>13. CASE /\ Running(q) /\ Running(p) /\ Len(q.output_queue) < q.max_new_tokens
            /\ p.output_queue = Append(q.output_queue, Text)
            /\ p.max_new_tokens = q.max_new_tokens
  <2>1. Contract!Emit(r)
    BY <1>c, <1>2, <1>3, <1>4, <1>5, <1>6, <1>13
  <2>. QED  BY <2>1 DEF ContractStep, Contract!Next
<1>14. CASE /\ \/ p.status = "failed" /\ (Queued(q) \/ Running(q))
               \/ p.status = "finished" /\ Running(q)
            /\ p.output_queue = Append(q.output_queue, End)
            /\ p.max_new_tokens = q.max_new_tokens
  <2>1. CASE p.status = "failed"
    <3>1. Contract!Fail(r)
      BY <1>e, <1>2, <1>3, <1>4, <1>5, <1>6, <1>14, <2>1 DEF Ended
    <3>. QED  BY <3>1 DEF ContractStep, Contract!Next
  <2>2. CASE p.status = "finished" /\ Running(q)
    <3>1. Contract!Finish(r)
      BY <1>d, <1>2, <1>3, <1>4, <1>5, <1>6, <1>14, <2>2 DEF Ended
    <3>. QED  BY <3>1 DEF ContractStep, Contract!Next
  <2>. QED  BY <1>14, <2>1, <2>2
<1>. QED  BY <1>10, <1>11, <1>12, <1>13, <1>14 DEF ClientStep, q, p

(* Counting tokens and copying tables is nothing a client sees.             *)
LEMMA NothingNoticed ==
  ASSUME \A x \in Requests :
           /\ request_state'[x].status = request_state[x].status
           /\ request_state'[x].output_queue = request_state[x].output_queue
           /\ request_state'[x].max_new_tokens = request_state[x].max_new_tokens
  PROVE  ContractStep
<1>1. \A x \in Requests : Stage(x)' = Stage(x)
  BY DEF Stage, Status
<1>2. [x \in Requests |-> Stage(x)]' = [x \in Requests |-> Stage(x)]
  BY <1>1
<1>3. /\ [x \in Requests |-> request_state[x].output_queue]'
           = [x \in Requests |-> request_state[x].output_queue]
      /\ [x \in Requests |-> request_state[x].max_new_tokens]'
           = [x \in Requests |-> request_state[x].max_new_tokens]
  OBVIOUS
<1>. QED  BY <1>2, <1>3 DEF ContractStep, Contract!vars

-----------------------------------------------------------------------------
(* Steps that change one record *)

(* Only the changed record is to be looked at, if no other request gets     *)
(* counted by the step.                                                     *)
LEMMA OneRecord ==
  ASSUME SInv, HInv', NEW r \in Requests,
         \A x \in Requests : x # r => request_state'[x] = request_state[x],
         Uncounted \ {r} \subseteq Uncounted',
         RecordRight(request_state'[r], r \notin Uncounted'),
         ClientStep(request_state[r], request_state'[r])
  PROVE  RecordsRight' /\ ContractStep
<1>1. ASSUME NEW x \in Requests  PROVE RecordRight(request_state'[x], x \notin Uncounted')
  <2>1. CASE x # r
    <3>1. RecordRight(request_state[x], x \notin Uncounted)
      BY DEF SInv, Counted, RecordsRight
    <3>2. x \notin Uncounted' => x \notin Uncounted
      BY <2>1
    <3>. QED  BY <2>1, <3>1, <3>2 DEF RecordRight
  <2>. QED  BY <2>1
<1>2. RecordsRight'
  BY <1>1 DEF RecordsRight
<1>3. ContractStep
  BY OneClient DEF SInv, HInv, Placed, Typed
<1>. QED  BY <1>2, <1>3

(* A request that ends closes its stream.                                   *)
LEMMA EndingRight ==
  ASSUME SInv, HInv', NEW r \in Requests, NEW status \in Ended, EndRequest(r, status),
         \/ Queued(request_state[r]) /\ status = "failed"
         \/ Running(request_state[r]),
         Uncounted \ {r} \subseteq Uncounted'
  PROVE  /\ RecordsRight' /\ ContractStep
         /\ \A x \in Requests : x # r => request_state'[x] = request_state[x]
<1>1. request_state[r] \in RequestRecords /\ request_state \in [Requests -> RequestRecords]
  BY DEF SInv, HInv, Placed, Typed
<1>. DEFINE q == [request_state[r] EXCEPT !.status = status,
                                          !.output_queue = Append(@, End)]
<1>2. /\ q.status = status /\ q.max_new_tokens = request_state[r].max_new_tokens
      /\ q.output_queue = Append(request_state[r].output_queue, End)
      /\ request_state' = [request_state EXCEPT ![r] = q]
  BY <1>1 DEF EndRequest, RequestRecords
<1>. HIDE DEF q
<1>3. request_state'[r] = q /\ \A x \in Requests : x # r => request_state'[x] = request_state[x]
  BY <1>1, <1>2
<1>4. RecordRight(request_state'[r], r \notin Uncounted')
  BY <1>2, <1>3 DEF RecordRight, Ended
<1>5. ClientStep(request_state[r], request_state'[r])
  <2>1. \/ status = "failed" /\ (Queued(request_state[r]) \/ Running(request_state[r]))
        \/ status = "finished" /\ Running(request_state[r])
    BY DEF Ended
  <2>. QED  BY <1>2, <1>3, <2>1 DEF ClientStep
<1>. QED  BY <1>3, <1>4, <1>5, OneRecord

(* Outside of the loops over outputs and failed batches, a step that at     *)
(* most copies a table changes nothing of this.                             *)
LEMMA QuietRight ==
  ASSUME SInv, HInv', Uncounted = {}, phase' \notin {"apply", "finish"},
         \A x \in Requests :
           \/ request_state'[x] = request_state[x]
           \/ \E table : request_state'[x] = [request_state[x] EXCEPT !.block_table = table]
  PROVE  Counted' /\ ContractStep
<1>1. ASSUME NEW x \in Requests
      PROVE  /\ RecordRight(request_state'[x], x \notin Uncounted')
             /\ request_state'[x].status = request_state[x].status
             /\ request_state'[x].output_queue = request_state[x].output_queue
             /\ request_state'[x].max_new_tokens = request_state[x].max_new_tokens
  <2>. DEFINE q == request_state[x]
              p == request_state'[x]
  <2>1. q \in RequestRecords
    BY DEF SInv, HInv, Placed, Typed
  <2>2. /\ p.status = q.status /\ p.prompt = q.prompt /\ p.max_new_tokens = q.max_new_tokens
        /\ p.prompt_tokens = q.prompt_tokens /\ p.num_computed_tokens = q.num_computed_tokens
        /\ p.generated_tokens = q.generated_tokens /\ p.output_queue = q.output_queue
    <3>1. CASE p = q
      BY <3>1
    <3>2. CASE \E table : p = [q EXCEPT !.block_table = table]
      BY <2>1, <3>2 DEF RequestRecords
    <3>. QED  BY <3>1, <3>2
  <2>3. RecordRight(q, TRUE)
    BY DEF SInv, Counted, RecordsRight
  <2>. HIDE DEF q, p
  <2>4. RecordRight(p, x \notin Uncounted')
    BY <2>2, <2>3 DEF RecordRight
  <2>. QED  BY <2>2, <2>4 DEF q, p
<1>2. RecordsRight' /\ OutputsDue'
  BY <1>1 DEF RecordsRight, OutputsDue
<1>3. ContractStep
  BY <1>1, NothingNoticed
<1>. QED  BY <1>2, <1>3 DEF Counted

(* Who is uncounted, phase by phase.                                        *)
LEMMA UncountedIs ==
  /\ phase \in {"apply", "finish"} => Uncounted = OutputsOf(local.outputs)
  /\ phase = "fail" => Uncounted = Range(local.decode_batch)
  /\ phase \notin {"apply", "finish", "fail"} => Uncounted = {}
  /\ phase' \in {"apply", "finish"} => Uncounted' = OutputsOf(local'.outputs)
  /\ phase' = "fail" => Uncounted' = Range(local'.decode_batch)
  /\ phase' \notin {"apply", "finish", "fail"} => Uncounted' = {}
BY DEF Uncounted

-----------------------------------------------------------------------------
(* Clients, admission and prefill *)

(* A new request has nothing counted.                                        *)
LEMMA SubmitRight ==
  ASSUME SInv, HInv', NEW r \in Requests, Submit(r)
  PROVE  Counted' /\ ContractStep
<1>0. PICK shape \in Shapes :
        request_state' = [request_state EXCEPT ![r] =
                            NewRequestState(shape.prompt, shape.max_new_tokens)]
  BY DEF Submit
<1>. DEFINE p == NewRequestState(shape.prompt, shape.max_new_tokens)
<1>1. Status(r) = "new" /\ UNCHANGED <<phase, local>>
  BY DEF Submit
<1>2. /\ request_state \in [Requests -> RequestRecords]
      /\ request_state' = [request_state EXCEPT ![r] = p]
  BY <1>0 DEF SInv, HInv, Placed, Typed
<1>3. /\ p.status = "waiting" /\ p.output_queue = << >> /\ p.generated_tokens = 0
      /\ p.num_computed_tokens = 0 /\ p.prompt > 0 /\ p.max_new_tokens > 0
      /\ p.max_new_tokens \in {s.max_new_tokens : s \in Shapes}
  <2>1. shape.prompt \in Nat \ {0} /\ shape.max_new_tokens \in Nat \ {0}
    BY ShapesAssumption
  <2>2. shape.prompt > 0 /\ shape.max_new_tokens > 0
    BY <2>1
  <2>. QED  BY <2>2 DEF NewRequestState
<1>. HIDE DEF p
<1>4. request_state'[r] = p /\ \A x \in Requests : x # r => request_state'[x] = request_state[x]
  BY <1>2
<1>5. Uncounted' = Uncounted
  BY <1>1 DEF Uncounted
<1>6. RecordRight(request_state'[r], r \notin Uncounted')
  BY <1>3, <1>4 DEF RecordRight
<1>7. request_state[r].output_queue = << >>
  BY <1>1 DEF SInv, Counted, RecordsRight, RecordRight, Status
<1>8. ClientStep(request_state[r], request_state'[r])
  BY <1>1, <1>3, <1>4, <1>7 DEF ClientStep, Queued, Status
<1>9. RecordsRight' /\ ContractStep
  BY <1>4, <1>5, <1>6, <1>8, OneRecord
<1>10. OutputsDue'
  <2>. SUFFICES ASSUME phase \in {"apply", "finish"}, NEW i \in 1 .. Len(local.outputs)
                PROVE  request_state'[local.outputs[i].request_id]
                         = request_state[local.outputs[i].request_id]
    BY <1>1 DEF SInv, Counted, OutputsDue
  <2>1. local.outputs[i].request_id \in InStatus({"decoding"})
    BY DEF SInv, HInv, Placed, Loops, OutputsAreDecoding, OutputsOf
  <2>2. local.outputs[i].request_id # r /\ local.outputs[i].request_id \in Requests
    BY <1>1, <2>1 DEF InStatus, Status
  <2>. QED  BY <1>4, <2>2
<1>. QED  BY <1>9, <1>10 DEF Counted

(* An admitted request has its prompt to compute.                            *)
LEMMA AdmitOneRight ==
  ASSUME SInv, HInv', AdmitOne
  PROVE  Counted' /\ ContractStep
<1>. DEFINE r == Candidate
            q == request_state[r]
            p == [q EXCEPT !.status = "prefill", !.block_table = block_tables'[r],
                           !.prompt_tokens = q.prompt]
<1>1. r \in Requests /\ q.status = "waiting"
  BY CandidateWaits DEF AdmitOne, SInv, Status
<1>2. q \in RequestRecords /\ request_state \in [Requests -> RequestRecords]
  BY <1>1 DEF SInv, HInv, Placed, Typed
<1>3. /\ request_state' = [request_state EXCEPT ![r] = p]
      /\ phase = "admitting" /\ phase' = "admitting"
  BY <1>2 DEF AdmitOne, Admitting
<1>4. Uncounted = {} /\ Uncounted' = {}
  BY <1>3, UncountedIs
<1>5. /\ p.status = "prefill" /\ p.output_queue = q.output_queue
      /\ p.generated_tokens = q.generated_tokens /\ p.prompt = q.prompt
      /\ p.num_computed_tokens = q.num_computed_tokens /\ p.prompt_tokens = q.prompt
      /\ p.max_new_tokens = q.max_new_tokens
  BY <1>2 DEF RequestRecords
<1>6. RecordRight(q, TRUE)
  BY <1>1, <1>4 DEF SInv, Counted, RecordsRight
<1>. HIDE DEF r, p
<1>7. request_state'[r] = p /\ \A x \in Requests : x # r => request_state'[x] = request_state[x]
  BY <1>1, <1>2, <1>3
<1>. HIDE DEF q
<1>8. RecordRight(p, r \notin Uncounted')
  BY <1>1, <1>5, <1>6 DEF RecordRight
<1>9. ClientStep(q, p)
  BY <1>1, <1>5 DEF ClientStep, Queued, Running
<1>10. RecordsRight' /\ ContractStep
  BY <1>1, <1>4, <1>7, <1>8, <1>9, OneRecord DEF q
<1>11. OutputsDue'
  BY <1>3 DEF OutputsDue
<1>. QED  BY <1>10, <1>11 DEF Counted

(* A request may fail while it waits.                                        *)
LEMMA FailAdmissionRight ==
  ASSUME SInv, HInv', FailAdmission
  PROVE  Counted' /\ ContractStep
<1>1. Candidate \in Requests /\ Queued(request_state[Candidate])
  BY CandidateWaits DEF FailAdmission, SInv, Status, Queued
<1>2. EndRequest(Candidate, "failed") /\ phase = "admitting" /\ phase' = "admitting"
  BY DEF FailAdmission, Admitting
<1>3. Uncounted = {} /\ "failed" \in Ended
  BY <1>2, UncountedIs DEF Ended
<1>4. RecordsRight' /\ ContractStep
  BY <1>1, <1>2, <1>3, EndingRight
<1>5. OutputsDue'
  BY <1>2 DEF OutputsDue
<1>. QED  BY <1>4, <1>5 DEF Counted

(* A request with its whole prompt computed has its first token to go, and   *)
(* one with less stays in prefill.                                           *)
LEMMA PrefillChunkRight ==
  ASSUME SInv, HInv', PrefillChunk
  PROVE  Counted' /\ ContractStep
<1>. DEFINE r == Head(local.work_plan).request_state
            n == Head(local.work_plan).num_scheduled_tokens
            q == request_state[r]
            end == ChunkEnd(r, n)
            status == IF end = q.prompt_tokens THEN "decoding" ELSE q.status
            p == [q EXCEPT !.num_computed_tokens = end, !.generated_tokens = 0,
                           !.status = status]
<1>1. r \in Requests /\ q.status = "prefill" /\ n \in Nat
  BY ChunkIsPrefilling DEF PrefillChunk, SInv, Status
<1>2. q \in RequestRecords /\ request_state \in [Requests -> RequestRecords]
  BY <1>1 DEF SInv, HInv, Placed, Typed
<1>3. /\ request_state' = [request_state EXCEPT ![r] = p]
      /\ phase = "prefill" /\ phase' = "prefill"
  BY <1>1, <1>2 DEF PrefillChunk, Prefilling, RequestRecords
<1>4. Uncounted = {} /\ Uncounted' = {}
  BY <1>3, UncountedIs
<1>5. RecordRight(q, TRUE)
  BY <1>1, <1>4 DEF SInv, Counted, RecordsRight
<1>6. end \in Nat /\ end <= q.prompt_tokens
  <2>1. q.num_computed_tokens \in Nat /\ q.prompt_tokens \in Nat
    BY <1>2 DEF RequestRecords
  <2>. HIDE DEF r, n
  <2>. QED  BY <1>1, <2>1 DEF ChunkEnd
<1>. HIDE DEF r, n, end
<1>7. /\ p.status = status /\ p.output_queue = q.output_queue
      /\ p.generated_tokens = 0 /\ p.prompt = q.prompt
      /\ p.num_computed_tokens = end /\ p.prompt_tokens = q.prompt_tokens
      /\ p.max_new_tokens = q.max_new_tokens
      /\ q.prompt_tokens \in Nat /\ q.max_new_tokens \in Nat
  BY <1>2 DEF RequestRecords
<1>. HIDE DEF p
<1>8. request_state'[r] = p /\ \A x \in Requests : x # r => request_state'[x] = request_state[x]
  BY <1>1, <1>2, <1>3
<1>. HIDE DEF q
<1>9. RecordRight(p, r \notin Uncounted')
  <2>1. /\ q.output_queue = << >> /\ q.generated_tokens = 0
        /\ q.prompt > 0 /\ q.max_new_tokens > 0 /\ q.prompt_tokens = q.prompt
    BY <1>1, <1>5 DEF RecordRight
  <2>2. CASE end = q.prompt_tokens
    <3>1. /\ p.status = "decoding" /\ p.num_computed_tokens = p.prompt_tokens
          /\ Len(p.output_queue) = 0 /\ p.generated_tokens = 0 /\ p.max_new_tokens > 0
          /\ p.max_new_tokens \in Nat /\ p.prompt_tokens \in Nat
          /\ p.prompt > 0 /\ p.prompt_tokens = p.prompt
      BY <1>7, <2>1, <2>2
    <3>. QED  BY <3>1 DEF RecordRight
  <2>3. CASE end # q.prompt_tokens
    <3>1. p.status = "prefill" /\ p.num_computed_tokens < p.prompt_tokens
      BY <1>1, <1>6, <1>7, <2>3
    <3>. QED  BY <1>7, <2>1, <3>1 DEF RecordRight
  <2>. QED  BY <2>2, <2>3
<1>10. ClientStep(q, p)
  BY <1>1, <1>7 DEF ClientStep, Running
<1>11. RecordsRight' /\ ContractStep
  BY <1>1, <1>4, <1>8, <1>9, <1>10, OneRecord DEF q
<1>12. OutputsDue'
  BY <1>3 DEF OutputsDue
<1>. QED  BY <1>11, <1>12 DEF Counted

(* A request may fail while it is in prefill.                                *)
LEMMA FailPrefillRight ==
  ASSUME SInv, HInv', FailPrefill
  PROVE  Counted' /\ ContractStep
<1>. DEFINE r == Head(local.work_plan).request_state
<1>1. r \in Requests /\ Running(request_state[r])
  BY ChunkIsPrefilling DEF FailPrefill, SInv, Status, Running
<1>2. EndRequest(r, "failed") /\ phase = "prefill" /\ phase' = "prefill"
  BY DEF FailPrefill, Prefilling
<1>. HIDE DEF r
<1>3. Uncounted = {} /\ "failed" \in Ended
  BY <1>2, UncountedIs DEF Ended
<1>4. RecordsRight' /\ ContractStep
  BY <1>1, <1>2, <1>3, EndingRight
<1>5. OutputsDue'
  BY <1>2 DEF OutputsDue
<1>. QED  BY <1>4, <1>5 DEF Counted

-----------------------------------------------------------------------------
(* Decode *)

(* An evicted request was decoding.                                          *)
LEMMA EvictOneRight ==
  ASSUME SInv, HInv', EvictOneStalledRequest
  PROVE  Counted' /\ ContractStep
<1>. DEFINE r == Last(local.stalled)
<1>1. /\ local.stalled \in Seq(Requests) /\ local.stalled # << >>
      /\ Range(local.stalled) \subseteq InStatus({"decoding"})
  BY DEF EvictOneStalledRequest, AllChecked, SInv, HInv, Placed, Typed, Locals, Loops,
     CheckedAreDecoding, Distinct
<1>2. r \in Requests /\ Running(request_state[r])
  <2>1. Len(local.stalled) \in Nat /\ Len(local.stalled) # 0
        /\ DOMAIN local.stalled = 1 .. Len(local.stalled)
    BY <1>1, LenProperties, EmptySeq
  <2>2. r = local.stalled[Len(local.stalled)]
    BY DEF Last
  <2>3. r \in InStatus({"decoding"})
    BY <1>1, <2>1, <2>2 DEF Range
  <2>. QED  BY <2>3 DEF InStatus, Status, Running
<1>3. EndRequest(r, "failed") /\ phase = "ensure" /\ phase' = "idle"
  BY DEF EvictOneStalledRequest, AllChecked, EndStep
<1>. HIDE DEF r
<1>4. Uncounted = {} /\ "failed" \in Ended
  BY <1>3, UncountedIs DEF Ended
<1>5. RecordsRight' /\ ContractStep
  BY <1>2, <1>3, <1>4, EndingRight
<1>6. OutputsDue'
  BY <1>3 DEF OutputsDue
<1>. QED  BY <1>5, <1>6 DEF Counted

(* A token counted by the engine, before the scheduler counts it.           *)
LEMMA OneTokenMore ==
  ASSUME SInv, Uncounted = {}, NEW r \in Requests, Status(r) = "decoding"
  PROVE  LET q == request_state[r]
             p == [q EXCEPT !.generated_tokens = @ + 1]
         IN  /\ RecordRight(p, FALSE)
             /\ p.status = q.status /\ p.output_queue = q.output_queue
             /\ p.max_new_tokens = q.max_new_tokens
             /\ p.generated_tokens = q.generated_tokens + 1
             /\ Len(p.output_queue) < p.generated_tokens
             /\ q.generated_tokens \in Nat
<1>. DEFINE q == request_state[r]
            n == q.generated_tokens + 1
            p == [q EXCEPT !.generated_tokens = n]
<1>1. q \in RequestRecords /\ q.status = "decoding"
  BY DEF SInv, HInv, Placed, Typed, Status
<1>2. [q EXCEPT !.generated_tokens = @ + 1] = p
  BY <1>1 DEF RequestRecords
<1>3. RecordRight(q, TRUE)
  BY DEF SInv, Counted, RecordsRight
<1>4. /\ q.generated_tokens \in Nat /\ q.max_new_tokens \in Nat /\ q.prompt_tokens \in Nat
      /\ q.num_computed_tokens \in Nat /\ Len(q.output_queue) \in Nat
  BY <1>1, LenProperties DEF RequestRecords
<1>5. /\ p.status = "decoding" /\ p.output_queue = q.output_queue /\ p.generated_tokens = n
      /\ p.prompt = q.prompt /\ p.prompt_tokens = q.prompt_tokens
      /\ p.max_new_tokens = q.max_new_tokens
      /\ p.num_computed_tokens = q.num_computed_tokens
  BY <1>1 DEF RequestRecords
<1>. HIDE DEF p, q
<1>6. /\ q.prompt > 0 /\ q.max_new_tokens > 0 /\ q.prompt_tokens = q.prompt
      /\ q.num_computed_tokens >= q.prompt_tokens
      /\ Len(q.output_queue) < n /\ n <= q.max_new_tokens
  BY <1>1, <1>3, <1>4 DEF RecordRight
<1>. HIDE DEF n
<1>7. Len(q.output_queue) <= n
  BY <1>4, <1>6 DEF n
<1>8. RecordRight(p, FALSE)
  BY <1>5, <1>6, <1>7 DEF RecordRight
<1>. QED  BY <1>1, <1>2, <1>4, <1>5, <1>6, <1>8 DEF p, q, n

(* The engine counts a token for each request of the batch: each of these    *)
(* waits for its output, which says whether the request has more to go.      *)
LEMMA RunDecodeBatchRight ==
  ASSUME SInv, HInv', RunDecodeBatch
  PROVE  Counted' /\ ContractStep
<1>. DEFINE batch == local.decode_batch
            outputs == local'.outputs
<1>1. PICK silent \in SUBSET Range(batch), eos \in SUBSET Range(batch) :
        local' = [local EXCEPT !.outputs =
                    [i \in 1 .. Len(batch) |->
                       [request_id |-> batch[i],
                        text |-> batch[i] \notin silent,
                        finished |-> Ends(batch[i], eos)]]]
  BY DEF RunDecodeBatch
<1>2. phase = "run" /\ batch \in Seq(Requests) /\ Range(batch) \subseteq InStatus({"decoding"})
  BY DEF RunDecodeBatch, SInv, HInv, Placed, Typed, Locals, Loops, BatchIsDecoding, Distinct
<1>3. Len(batch) \in Nat /\ DOMAIN batch = 1 .. Len(batch)
  BY <1>2, LenProperties
<1>4. /\ outputs = [i \in 1 .. Len(batch) |->
                      [request_id |-> batch[i], text |-> batch[i] \notin silent,
                       finished |-> Ends(batch[i], eos)]]
      /\ outputs \in Seq(Outputs)
  BY <1>1 DEF SInv, HInv, Placed, Typed, Locals
<1>5. /\ Len(outputs) = Len(batch)
      /\ \A i \in 1 .. Len(batch) : /\ outputs[i].request_id = batch[i]
                                    /\ outputs[i].finished = Ends(batch[i], eos)
  <2>1. DOMAIN outputs = 1 .. Len(batch)
    BY <1>4
  <2>2. Len(outputs) = Len(batch)
    BY <1>3, <1>4, <2>1, LenProperties
  <2>. QED  BY <1>4, <2>2
<1>6. /\ request_state' = [r \in Requests |->
                             IF r \in Range(batch)
                             THEN [request_state[r] EXCEPT !.generated_tokens = @ + 1]
                             ELSE request_state[r]]
      /\ phase' = "apply"
  BY DEF RunDecodeBatch
<1>7. Uncounted = {} /\ Uncounted' = OutputsOf(outputs)
  BY <1>2, <1>6, UncountedIs
<1>8. OutputsOf(outputs) = Range(batch)
  BY <1>3, <1>5 DEF OutputsOf, Range
<1>. HIDE DEF batch, outputs
<1>9. ASSUME NEW r \in Range(batch)
      PROVE  LET q == request_state[r]
                 p == request_state'[r]
             IN  /\ r \in Requests /\ RecordRight(p, FALSE)
                 /\ p.status = q.status /\ p.output_queue = q.output_queue
                 /\ p.max_new_tokens = q.max_new_tokens
                 /\ p.generated_tokens = q.generated_tokens + 1
                 /\ Len(p.output_queue) < p.generated_tokens
                 /\ q.generated_tokens \in Nat /\ q.max_new_tokens \in Nat
  <2>1. r \in Requests /\ Status(r) = "decoding"
    BY <1>2 DEF InStatus
  <2>2. request_state'[r] = [request_state[r] EXCEPT !.generated_tokens = @ + 1]
    BY <1>6, <2>1
  <2>3. request_state[r].max_new_tokens \in Nat
    BY <2>1 DEF SInv, HInv, Placed, Typed, RequestRecords
  <2>. QED  BY <1>7, <2>1, <2>2, <2>3, OneTokenMore
<1>10. ASSUME NEW r \in Requests, r \notin Range(batch)
       PROVE  request_state'[r] = request_state[r]
  BY <1>6, <1>10
<1>11. RecordsRight'
  <2>. SUFFICES ASSUME NEW r \in Requests
                PROVE  RecordRight(request_state'[r], r \notin Uncounted')
    BY DEF RecordsRight
  <2>1. CASE r \in Range(batch)
    <3>1. (r \notin Uncounted') = FALSE
      BY <1>7, <1>8, <2>1
    <3>. QED  BY <1>9, <2>1, <3>1
  <2>2. CASE r \notin Range(batch)
    <3>1. RecordRight(request_state[r], TRUE) /\ (r \notin Uncounted') = TRUE
      BY <1>7, <1>8, <2>2 DEF SInv, Counted, RecordsRight
    <3>. QED  BY <1>10, <2>2, <3>1
  <2>. QED  BY <2>1, <2>2
<1>12. OutputsDue'
  <2>. SUFFICES ASSUME NEW i \in 1 .. Len(outputs)
                PROVE  LET q == request_state'[outputs[i].request_id]
                       IN  /\ Len(q.output_queue) < q.generated_tokens
                           /\ ~ outputs[i].finished => q.generated_tokens < q.max_new_tokens
    BY DEF OutputsDue, outputs
  <2>. DEFINE r == batch[i]
  <2>1. r \in Range(batch) /\ outputs[i].request_id = r /\ outputs[i].finished = Ends(r, eos)
    BY <1>3, <1>5 DEF Range
  <2>. HIDE DEF r
  <2>2. ASSUME ~ Ends(r, eos)
        PROVE  request_state[r].generated_tokens + 1 < request_state[r].max_new_tokens
    <3>1. ~ (request_state[r].generated_tokens + 1 >= request_state[r].max_new_tokens)
      BY <2>2 DEF Ends
    <3>2. /\ request_state[r].generated_tokens \in Nat
          /\ request_state[r].max_new_tokens \in Nat
      BY <1>9, <2>1
    <3>. QED  BY <3>1, <3>2
  <2>. QED  BY <1>9, <2>1, <2>2
<1>13. ContractStep
  BY <1>9, <1>10, NothingNoticed
<1>. QED  BY <1>11, <1>12, <1>13 DEF Counted

(* A batch that raised may have counted tokens for its first requests.       *)
LEMMA FailDecodeBatchRight ==
  ASSUME SInv, HInv', FailDecodeBatch
  PROVE  Counted' /\ ContractStep
<1>. DEFINE batch == local.decode_batch
<1>1. PICK k \in 0 .. Len(batch) :
        request_state' =
          [r \in Requests |->
             IF \E i \in 1 .. k : batch[i] = r
             THEN [request_state[r] EXCEPT !.generated_tokens = @ + 1]
             ELSE request_state[r]]
  BY DEF FailDecodeBatch
<1>2. /\ phase = "run" /\ phase' = "fail" /\ UNCHANGED local
      /\ batch \in Seq(Requests) /\ Range(batch) \subseteq InStatus({"decoding"})
  BY DEF FailDecodeBatch, SInv, HInv, Placed, Typed, Locals, Loops, BatchIsDecoding, Distinct
<1>3. Len(batch) \in Nat /\ DOMAIN batch = 1 .. Len(batch)
  BY <1>2, LenProperties
<1>4. Uncounted = {} /\ Uncounted' = Range(batch)
  BY <1>2, UncountedIs
<1>. DEFINE counted == {batch[i] : i \in 1 .. k}
<1>5. counted \subseteq Range(batch)
  BY <1>3 DEF Range
<1>. HIDE DEF batch
<1>6. ASSUME NEW r \in Requests
      PROVE  LET q == request_state[r]
                 p == request_state'[r]
             IN  /\ RecordRight(p, r \notin Range(batch))
                 /\ p.status = q.status /\ p.output_queue = q.output_queue
                 /\ p.max_new_tokens = q.max_new_tokens
  <2>1. CASE r \in counted
    <3>1. Status(r) = "decoding" /\ (r \notin Range(batch)) = FALSE
      BY <1>2, <1>5, <2>1 DEF InStatus
    <3>2. request_state'[r] = [request_state[r] EXCEPT !.generated_tokens = @ + 1]
      BY <1>1, <2>1
    <3>. QED  BY <1>4, <3>1, <3>2, OneTokenMore
  <2>2. CASE r \notin counted
    <3>1. request_state'[r] = request_state[r]
      BY <1>1, <2>2
    <3>2. RecordRight(request_state[r], TRUE)
      BY <1>4 DEF SInv, Counted, RecordsRight
    <3>. QED  BY <3>1, <3>2 DEF RecordRight
  <2>. QED  BY <2>1, <2>2
<1>7. RecordsRight'
  BY <1>4, <1>6 DEF RecordsRight
<1>8. OutputsDue'
  BY <1>2 DEF OutputsDue
<1>9. ContractStep
  BY <1>6, NothingNoticed
<1>. QED  BY <1>7, <1>8, <1>9 DEF Counted

(* The outputs after the first are for other requests, and are all that is   *)
(* due when the first is done.                                               *)
LEMMA OutputsRest ==
  ASSUME HInv, phase \in {"apply", "finish"}, local.outputs # << >>
  PROVE  LET outputs == local.outputs
             r == Head(outputs).request_id
         IN  /\ r \in Requests /\ Running(request_state[r])
             /\ request_state[r].status = "decoding"
             /\ Len(outputs) \in Nat /\ 1 \in 1 .. Len(outputs) /\ Head(outputs) = outputs[1]
             /\ outputs \in Seq(Outputs) /\ Tail(outputs) \in Seq(Outputs)
             /\ Len(Tail(outputs)) = Len(outputs) - 1
             /\ \A i \in 1 .. Len(outputs) - 1 :
                  Tail(outputs)[i] = outputs[i + 1] /\ i + 1 \in 1 .. Len(outputs) /\ i + 1 > 1
             /\ \A i \in 1 .. Len(outputs) :
                  i > 1 => outputs[i].request_id \in Requests \ {r}
             /\ OutputsOf(outputs) \ {r} \subseteq OutputsOf(Tail(outputs))
<1>. DEFINE outputs == local.outputs
            r == Head(outputs).request_id
<1>1. outputs \in Seq(Outputs) /\ OneOutputEach(outputs)
  BY DEF HInv, Placed, Typed, Locals, Loops, OutputsAreDecoding
<1>2. /\ Len(outputs) \in Nat /\ Len(outputs) # 0 /\ Head(outputs) = outputs[1]
      /\ Tail(outputs) \in Seq(Outputs) /\ Len(Tail(outputs)) = Len(outputs) - 1
      /\ \A i \in 1 .. Len(Tail(outputs)) : Tail(outputs)[i] = outputs[i + 1]
  BY <1>1, LenProperties, EmptySeq, HeadTailProperties
<1>3. /\ 1 \in 1 .. Len(outputs)
      /\ \A i \in 1 .. Len(outputs) - 1 :
           Tail(outputs)[i] = outputs[i + 1] /\ i + 1 \in 1 .. Len(outputs) /\ i + 1 > 1
  BY <1>2
<1>4. ASSUME NEW i \in 1 .. Len(outputs), i > 1
      PROVE  outputs[i].request_id \in Requests \ {r}
  <2>1. outputs[i] \in Outputs
    BY <1>1, ElementOfSeq
  <2>. QED  BY <1>1, <1>2, <1>3, <1>4, <2>1 DEF OneOutputEach, Outputs
<1>5. OutputsOf(outputs) \ {r} \subseteq OutputsOf(Tail(outputs))
  <2>. SUFFICES ASSUME NEW i \in 1 .. Len(outputs), outputs[i].request_id # r
                PROVE  outputs[i].request_id \in OutputsOf(Tail(outputs))
    BY DEF OutputsOf
  <2>1. i # 1
    BY <1>2
  <2>2. i - 1 \in 1 .. Len(outputs) - 1 /\ (i - 1) + 1 = i
    BY <1>2, <2>1
  <2>. QED  BY <1>2, <1>3, <2>2 DEF OutputsOf
<1>6. r \in Requests /\ request_state[r].status = "decoding"
  BY OutputIsDecoding DEF InStatus, Status
<1>. QED  BY <1>1, <1>2, <1>3, <1>4, <1>5, <1>6 DEF Running

(* Of the other outputs, all that was due is due.                            *)
LEMMA RestStaysDue ==
  ASSUME SInv, phase \in {"apply", "finish"}, local.outputs # << >>,
         \A x \in Requests : x # Head(local.outputs).request_id =>
                               request_state'[x] = request_state[x],
         phase' \in {"apply", "finish"},
         \/ phase' = "finish" /\ local'.outputs = local.outputs
         \/ local'.outputs = Tail(local.outputs)
  PROVE  OutputsDue'
<1>. DEFINE outputs == local.outputs
            Due(i, states) == /\ Len(states[outputs[i].request_id].output_queue)
                                   < states[outputs[i].request_id].generated_tokens
                              /\ ~ outputs[i].finished =>
                                   states[outputs[i].request_id].generated_tokens
                                     < states[outputs[i].request_id].max_new_tokens
<1>1. ASSUME NEW i \in 1 .. Len(outputs), i > 1  PROVE Due(i, request_state')
  <2>1. Due(i, request_state)
    BY <1>1 DEF SInv, Counted, OutputsDue
  <2>2. outputs[i].request_id \in Requests \ {Head(outputs).request_id}
    BY <1>1, OutputsRest DEF SInv
  <2>3. request_state'[outputs[i].request_id] = request_state[outputs[i].request_id]
    BY <2>2
  <2>. QED  BY <2>1, <2>3
<1>2. CASE phase' = "finish" /\ local'.outputs = local.outputs
  BY <1>1, <1>2 DEF OutputsDue
<1>3. CASE local'.outputs = Tail(local.outputs)
  <2>. SUFFICES ASSUME NEW i \in 1 .. Len(Tail(outputs))
                PROVE  LET output == Tail(outputs)[i]
                           q == request_state'[output.request_id]
                       IN  /\ Len(q.output_queue) < q.generated_tokens
                           /\ ~ output.finished => q.generated_tokens < q.max_new_tokens
    BY <1>3 DEF OutputsDue
  <2>1. Tail(outputs)[i] = outputs[i + 1] /\ i + 1 \in 1 .. Len(outputs) /\ i + 1 > 1
    BY OutputsRest DEF SInv
  <2>2. Due(i + 1, request_state')
    BY <1>1, <2>1
  <2>. QED  BY <2>1, <2>2
<1>. QED  BY <1>2, <1>3

(* The output streams at most one text and makes the counts agree.           *)
LEMMA ApplyOutputRight ==
  ASSUME SInv, HInv', ApplyOutput
  PROVE  Counted' /\ ContractStep
<1>. DEFINE outputs == local.outputs
            output == Head(outputs)
            r == output.request_id
            q == request_state[r]
            n == q.prompt_tokens + q.generated_tokens
            queue == IF output.text THEN Append(q.output_queue, Text) ELSE q.output_queue
            p == [q EXCEPT !.output_queue = queue, !.num_computed_tokens = n]
<1>1. phase = "apply" /\ outputs # << >>
  BY DEF ApplyOutput
<1>2. /\ r \in Requests /\ Running(q) /\ q.status = "decoding"
      /\ 1 \in 1 .. Len(outputs) /\ output = outputs[1]
      /\ OutputsOf(outputs) \ {r} \subseteq OutputsOf(Tail(outputs))
      /\ outputs \in Seq(Outputs)
  BY <1>1, OutputsRest DEF SInv
<1>3. q \in RequestRecords /\ request_state \in [Requests -> RequestRecords]
  BY <1>2 DEF SInv, HInv, Placed, Typed
<1>4. request_state' = [request_state EXCEPT ![r] = p]
  BY <1>2, <1>3 DEF ApplyOutput, WithOutput, RequestRecords
<1>5. \/ output.finished /\ phase' = "finish" /\ UNCHANGED local
      \/ ~ output.finished /\ phase' = "apply" /\ local'.outputs = Tail(outputs)
  BY DEF ApplyOutput, Goto, SInv, HInv, Placed, Typed, Locals
<1>6. /\ Len(q.output_queue) < q.generated_tokens
      /\ ~ output.finished => q.generated_tokens < q.max_new_tokens
  BY <1>1, <1>2 DEF SInv, Counted, OutputsDue
<1>7. Uncounted = OutputsOf(outputs) /\ Uncounted' = OutputsOf(local'.outputs)
  BY <1>1, <1>5, UncountedIs
<1>8. Uncounted \ {r} \subseteq Uncounted'
  BY <1>2, <1>5, <1>7
<1>9. RecordRight(q, FALSE)
  BY <1>2 DEF SInv, Counted, RecordsRight, RecordRight
<1>10. /\ q.prompt_tokens \in Nat /\ q.generated_tokens \in Nat /\ q.max_new_tokens \in Nat
       /\ q.output_queue \in Seq({Text, End}) /\ Len(q.output_queue) \in Nat
       /\ n \in Nat /\ n >= q.prompt_tokens
  <2>1. /\ q.prompt_tokens \in Nat /\ q.generated_tokens \in Nat /\ q.max_new_tokens \in Nat
        /\ q.output_queue \in Seq({Text, End})
    BY <1>3 DEF RequestRecords
  <2>2. Len(q.output_queue) \in Nat
    BY <2>1, LenProperties
  <2>3. \A a, b \in Nat : a + b \in Nat /\ a + b >= a
    OBVIOUS
  <2>. HIDE DEF q
  <2>. QED  BY <2>1, <2>2, <2>3
<1>11. Len(queue) <= q.generated_tokens
  <2>1. Len(Append(q.output_queue, Text)) = Len(q.output_queue) + 1
    BY <1>10, AppendProperties
  <2>2. \A a, b \in Nat : a < b => a <= b /\ a + 1 <= b
    OBVIOUS
  <2>3. /\ Len(q.output_queue) <= q.generated_tokens
        /\ Len(Append(q.output_queue, Text)) <= q.generated_tokens
    BY <1>6, <1>10, <2>1, <2>2
  <2>. HIDE DEF q, output
  <2>. QED  BY <2>3
<1>12. /\ p.status = q.status /\ p.output_queue = queue /\ p.prompt = q.prompt
       /\ p.generated_tokens = q.generated_tokens /\ p.prompt_tokens = q.prompt_tokens
       /\ p.max_new_tokens = q.max_new_tokens /\ p.num_computed_tokens = n
  BY <1>3 DEF RequestRecords
<1>13. r \notin Uncounted' => q.generated_tokens < q.max_new_tokens
  <2>1. CASE output.finished
    <3>1. r \in OutputsOf(local'.outputs)
      BY <1>2, <1>5, <2>1 DEF OutputsOf
    <3>. QED  BY <1>7, <3>1
  <2>2. CASE ~ output.finished
    BY <1>6, <2>2
  <2>. QED  BY <2>1, <2>2
<1>14. request_state'[r] = p /\ \A x \in Requests : x # r => request_state'[x] = request_state[x]
  BY <1>2, <1>3, <1>4
<1>15. queue = q.output_queue \/ queue = Append(q.output_queue, Text)
  OBVIOUS
<1>16. OutputsDue'
  <2>1. \A x \in Requests : x # Head(local.outputs).request_id =>
                               request_state'[x] = request_state[x]
    BY <1>14
  <2>2. \/ phase' = "finish" /\ local'.outputs = local.outputs
        \/ local'.outputs = Tail(local.outputs)
    BY <1>5
  <2>3. phase' \in {"apply", "finish"}
    BY <1>5
  <2>. QED  BY <1>1, <2>1, <2>2, <2>3, RestStaysDue
<1>. HIDE DEF p, queue
<1>17. Len(q.output_queue) < q.max_new_tokens
  <2>1. Len(q.output_queue) < q.generated_tokens /\ q.generated_tokens <= q.max_new_tokens
    BY <1>2, <1>6, <1>9 DEF RecordRight
  <2>2. \A a, b, c \in Nat : a < b /\ b <= c => a < c
    OBVIOUS
  <2>. HIDE DEF q
  <2>. QED  BY <1>10, <2>1, <2>2
<1>a. n = q.prompt_tokens + q.generated_tokens
  OBVIOUS
<1>. HIDE DEF q, r, outputs, output, n
<1>18. RecordRight(p, r \notin Uncounted')
  BY <1>2, <1>9, <1>10, <1>11, <1>12, <1>13, <1>a DEF RecordRight
<1>19. ClientStep(q, p)
  BY <1>2, <1>12, <1>15, <1>17 DEF ClientStep, Running
<1>20. RecordsRight' /\ ContractStep
  BY <1>2, <1>8, <1>14, <1>18, <1>19, OneRecord DEF q
<1>. QED  BY <1>16, <1>20 DEF Counted

(* The finished request leaves; the outputs of the others are still due.     *)
LEMMA FinishRequestRight ==
  ASSUME SInv, HInv', FinishRequest
  PROVE  Counted' /\ ContractStep
<1>. DEFINE r == Head(local.outputs).request_id
<1>1. phase = "finish" /\ local.outputs # << >>
  BY DEF FinishRequest, SInv, HInv, Placed, Loops, OutputsAreDecoding
<1>2. /\ r \in Requests /\ Running(request_state[r])
      /\ OutputsOf(local.outputs) \ {r} \subseteq OutputsOf(Tail(local.outputs))
  BY <1>1, OutputsRest DEF SInv
<1>3. /\ EndRequest(r, "finished") /\ phase' = "apply"
      /\ local'.outputs = Tail(local.outputs)
  BY DEF FinishRequest, SInv, HInv, Placed, Typed, Locals
<1>4. Uncounted \ {r} \subseteq Uncounted' /\ "finished" \in Ended
  BY <1>1, <1>2, <1>3, UncountedIs DEF Ended
<1>5. /\ RecordsRight' /\ ContractStep
      /\ \A x \in Requests : x # r => request_state'[x] = request_state[x]
  <2>. HIDE DEF r
  <2>. QED  BY <1>2, <1>3, <1>4, EndingRight
<1>6. OutputsDue'
  BY <1>1, <1>3, <1>5, RestStaysDue
<1>. QED  BY <1>5, <1>6 DEF Counted

(* A request of a failed batch ends; the others are still to fail.           *)
LEMMA FailOneOfBatchRight ==
  ASSUME SInv, HInv', FailOneOfBatch
  PROVE  Counted' /\ ContractStep
<1>. DEFINE r == Head(local.decode_batch)
<1>1. /\ phase = "fail" /\ phase' = "fail" /\ local.decode_batch # << >>
      /\ local.decode_batch \in Seq(Requests)
      /\ Distinct(local.decode_batch, InStatus({"decoding"}))
      /\ EndRequest(r, "failed") /\ local'.decode_batch = Tail(local.decode_batch)
  BY DEF FailOneOfBatch, SInv, HInv, Placed, Typed, Locals, Loops, BatchIsDecoding
<1>2. /\ r \in Range(local.decode_batch)
      /\ Range(local.decode_batch) = Range(Tail(local.decode_batch)) \cup {r}
  BY <1>1, TailOfDistinct DEF Distinct
<1>3. r \in Requests /\ Running(request_state[r]) /\ "failed" \in Ended
  BY <1>1, <1>2 DEF Distinct, InStatus, Status, Running, Ended
<1>4. Uncounted \ {r} \subseteq Uncounted'
  BY <1>1, <1>2, UncountedIs
<1>. HIDE DEF r
<1>5. RecordsRight' /\ ContractStep
  BY <1>1, <1>3, <1>4, EndingRight
<1>6. OutputsDue'
  BY <1>1 DEF OutputsDue
<1>. QED  BY <1>5, <1>6 DEF Counted

-----------------------------------------------------------------------------
(* Steps that leave the records as they are, or copy a table                *)

LEMMA QuietSteps ==
  ASSUME SInv, HInv',
         \/ BeginStep \/ DrainOne \/ DrainEmpty
         \/ AdmitPass \/ DeferOne \/ AdmitPassDone
         \/ PlanPrefill \/ BeginDecode
         \/ \E r \in Requests : EnsureRunnable(r) \/ EnsureStalled(r)
         \/ ChooseBatch \/ AllApplied \/ AllFailed
  PROVE  Counted' /\ ContractStep
<1>. DEFINE Same(x) == request_state'[x] = request_state[x]
            Copied(x) == \E table :
                           request_state'[x] = [request_state[x] EXCEPT !.block_table = table]
<1>1. request_state \in [Requests -> RequestRecords]
  BY DEF SInv, HInv, Placed, Typed
<1>2. ASSUME NEW r \in Requests, Status(r) = "waiting"
      PROVE  [request_state EXCEPT ![r].status = "waiting"] = request_state
  <2>1. request_state[r] \in RequestRecords /\ request_state[r].status = "waiting"
    BY <1>1, <1>2 DEF Status
  <2>2. [request_state[r] EXCEPT !.status = "waiting"] = request_state[r]
    BY <2>1 DEF RequestRecords
  <2>. QED  BY <1>1, <2>2
<1>3. CASE DrainOne
  <2>1. request_queue \in Seq(Requests) /\ request_queue # << >>
    BY <1>3 DEF DrainOne, SInv, HInv, IInv, ListsTyped
  <2>2. Head(request_queue) \in Range(request_queue)
    BY <2>1, TailOfDistinct DEF SInv, HInv, Placed, Homes
  <2>3. Head(request_queue) \in Requests /\ Status(Head(request_queue)) = "waiting"
    BY <2>2 DEF SInv, HInv, Placed, Homes, InStatus
  <2>4. request_state' = request_state
    BY <1>2, <1>3, <2>3 DEF DrainOne
  <2>5. Uncounted = {} /\ phase' \notin {"apply", "finish"}
    BY <1>3, UncountedIs DEF DrainOne
  <2>. QED  BY <2>4, <2>5, QuietRight
<1>4. CASE DeferOne
  <2>1. Candidate \in Requests /\ Status(Candidate) = "waiting"
    BY <1>4, CandidateWaits DEF DeferOne, SInv
  <2>2. request_state' = request_state
    BY <1>2, <1>4, <2>1 DEF DeferOne
  <2>3. Uncounted = {} /\ phase' \notin {"apply", "finish"}
    BY <1>4, UncountedIs DEF DeferOne, Admitting
  <2>. QED  BY <2>2, <2>3, QuietRight
<1>5. CASE BeginStep \/ DrainEmpty \/ AdmitPass \/ AdmitPassDone \/ PlanPrefill \/ BeginDecode
  <2>1. /\ request_state' = request_state
        /\ phase \notin {"apply", "finish", "fail"} /\ phase' \notin {"apply", "finish"}
    BY <1>5 DEF BeginStep, DrainEmpty, AdmitPass, AdmitPassDone, PlanPrefill, BeginDecode,
       Goto, EndStep
  <2>. QED  BY <2>1, UncountedIs, QuietRight
<1>6. CASE \E r \in Requests : EnsureRunnable(r) \/ EnsureStalled(r)
  <2>1. PICK r \in Requests : EnsureRunnable(r) \/ EnsureStalled(r)
    BY <1>6
  <2>2. phase = "ensure" /\ phase' = "ensure"
    BY <2>1 DEF EnsureRunnable, EnsureStalled, EnsureCapacity
  <2>3. ASSUME NEW x \in Requests  PROVE Same(x) \/ Copied(x)
    <3>1. CASE EnsureStalled(r)
      BY <3>1 DEF EnsureStalled
    <3>2. CASE EnsureRunnable(r)
      <4>. DEFINE table == block_tables'[r]
      <4>1. request_state' = [request_state EXCEPT ![r].block_table = table]
        BY <3>2 DEF EnsureRunnable
      <4>. HIDE DEF table
      <4>2. CASE x = r
        BY <1>1, <4>1, <4>2
      <4>3. CASE x # r
        BY <1>1, <4>1, <4>3
      <4>. QED  BY <4>2, <4>3
    <3>. QED  BY <2>1, <3>1, <3>2
  <2>4. Uncounted = {} /\ phase' \notin {"apply", "finish"}
    BY <2>2, UncountedIs
  <2>. QED  BY <2>3, <2>4, QuietRight
<1>7. CASE ChooseBatch
  <2>1. /\ request_state' = request_state /\ phase = "ensure"
        /\ phase' \notin {"apply", "finish"}
    BY <1>7 DEF ChooseBatch, AllChecked, EndStep
  <2>. QED  BY <2>1, UncountedIs, QuietRight
<1>8. CASE AllApplied \/ AllFailed
  <2>1. /\ request_state' = request_state /\ phase' = "idle"
        /\ \/ phase = "apply" /\ local.outputs = << >>
           \/ phase = "fail" /\ local.decode_batch = << >>
    BY <1>8 DEF AllApplied, AllFailed, EndStep
  <2>2. OutputsOf(<< >>) = {} /\ Range(<< >>) = {}
    BY DEF OutputsOf, Range
  <2>3. Uncounted = {}
    BY <2>1, <2>2, UncountedIs
  <2>. QED  BY <2>1, <2>3, QuietRight
<1>. QED  BY <1>3, <1>4, <1>5, <1>6, <1>7, <1>8

-----------------------------------------------------------------------------
(* The theorems on counters and streams *)

(* Every step keeps the counts and is one of the contract, or none.          *)
LEMMA StepsAreRight ==
  ASSUME SInv, HInv', [Next]_vars
  PROVE  Counted' /\ ContractStep
<1>1. CASE Next
  <2>1. CASE EngineStep
    BY <2>1, PrefillChunkRight, FailPrefillRight, RunDecodeBatchRight,
       FailDecodeBatchRight DEF EngineStep
  <2>2. CASE AdmitOne \/ FailAdmission
    BY <2>2, AdmitOneRight, FailAdmissionRight
  <2>3. CASE EvictOneStalledRequest \/ ApplyOutput \/ FinishRequest \/ FailOneOfBatch
    BY <2>3, EvictOneRight, ApplyOutputRight, FinishRequestRight, FailOneOfBatchRight
  <2>4. CASE \/ BeginStep \/ DrainOne \/ DrainEmpty
             \/ AdmitPass \/ DeferOne \/ AdmitPassDone
             \/ PlanPrefill \/ BeginDecode
             \/ \E r \in Requests : EnsureRunnable(r) \/ EnsureStalled(r)
             \/ ChooseBatch \/ AllApplied \/ AllFailed
    BY <2>4, QuietSteps
  <2>5. CASE \E r \in Requests : Submit(r)
    BY <2>5, SubmitRight
  <2>. QED  BY <1>1, <2>1, <2>2, <2>3, <2>4, <2>5 DEF Next, Step, StepWithoutEngine
<1>2. CASE UNCHANGED vars
  <2>1. UNCHANGED <<request_state, phase, local>>
    BY <1>2 DEF vars
  <2>2. Counted'
    BY <2>1 DEF SInv, Counted, RecordsRight, OutputsDue, Uncounted
  <2>3. ContractStep
    BY <2>1, NothingNoticed
  <2>. QED  BY <2>2, <2>3
<1>. QED  BY <1>1, <1>2

(* The invariant holds of every behaviour of the scheduler.                 *)
LEMMA SInvInvariant == Spec => []SInv
<1>1. Init => Counted
  <2>. SUFFICES ASSUME Init  PROVE Counted
    OBVIOUS
  <2>1. /\ Unborn.status = "new" /\ Unborn.output_queue = << >>
        /\ Unborn.generated_tokens = 0
    BY DEF Unborn, NewRequestState
  <2>2. ASSUME NEW r \in Requests  PROVE RecordRight(request_state[r], r \notin Uncounted)
    BY <2>1 DEF Init, RecordRight
  <2>3. OutputsDue
    BY DEF Init, OutputsDue
  <2>. QED  BY <2>2, <2>3 DEF Counted, RecordsRight
<1>2. Counted /\ HInv /\ HInv' /\ [Next]_vars => Counted'
  BY StepsAreRight DEF SInv
<1>3. HInv /\ Counted => SInv
  BY DEF SInv
<1>. QED  BY <1>1, <1>2, <1>3, HInvInvariant, PTL DEF Spec

(* num_computed_tokens, which the engine writes in prefill and the scheduler *)
(* in decode, agrees with status and generated tokens whenever the lock is   *)
(* released, also after batches that raised and requests that were evicted.  *)
THEOREM CountsAgree == Spec => []ComputedTokensAgree
<1>1. ASSUME SInv  PROVE ComputedTokensAgree
  <2>. SUFFICES ASSUME NEW r \in InSlot
                PROVE  LET q == request_state[r]
                       IN  /\ Status(r) = "prefill" =>
                                /\ q.generated_tokens = 0
                                /\ q.num_computed_tokens < q.prompt_tokens
                                /\ q.output_queue = << >>
                           /\ Status(r) = "decoding" =>
                                q.num_computed_tokens >= q.prompt_tokens
                           /\ Status(r) = "decoding" /\ phase = "idle" =>
                                /\ q.num_computed_tokens = TokenPosition(r)
                                /\ q.generated_tokens < q.max_new_tokens
    BY DEF ComputedTokensAgree
  <2>1. r \in Requests
    BY <1>1 DEF SInv, HInv, Placed, Homes, InStatus
  <2>2. RecordRight(request_state[r], r \notin Uncounted)
    BY <1>1, <2>1 DEF SInv, Counted, RecordsRight
  <2>3. phase = "idle" => r \notin Uncounted
    BY UncountedIs
  <2>. QED  BY <2>2, <2>3 DEF RecordRight, Status, TokenPosition
<1>. QED  BY <1>1, SInvInvariant, PTL

(* The scheduler keeps its contract with every client: each request is       *)
(* queued, runs and ends once, streams at most max_new_tokens texts, and its *)
(* stream is closed by one end marker.                                       *)
THEOREM RefinesContract == Spec => ImplementsContract
<1>1. Init => Contract!Init
  <2>. SUFFICES ASSUME Init  PROVE Contract!Init
    OBVIOUS
  <2>1. ASSUME NEW r \in Requests
        PROVE  /\ Stage(r) = "absent" /\ request_state[r].output_queue = << >>
               /\ request_state[r].max_new_tokens = 0
    <3>1. request_state[r] = Unborn
      BY DEF Init
    <3>2. Unborn.status = "new" /\ Unborn.output_queue = << >> /\ Unborn.max_new_tokens = 0
      BY DEF Unborn, NewRequestState
    <3>. QED  BY <3>1, <3>2 DEF Stage, Status, Ended
  <2>. QED  BY <2>1 DEF Contract!Init
<1>2. SInv /\ HInv' /\ [Next]_vars => [Contract!Next]_(Contract!vars)
  BY StepsAreRight DEF ContractStep
<1>. QED  BY <1>1, <1>2, SInvInvariant, HInvInvariant, PTL
          DEF Spec, Contract!Spec, ImplementsContract

-----------------------------------------------------------------------------
(* Numbers of blocks, and prefixes *)

(* More tokens need no fewer blocks.                                        *)
LEMMA MoreTokensMoreBlocks ==
  \A m, n \in Nat : m <= n => KV!BlocksNeeded(m) <= KV!BlocksNeeded(n)
<1>. TAKE m, n \in Nat
<1>. HAVE m <= n
<1>1. BlockSize \in Nat \ {0}
  BY PoolAssumption
<1>2. /\ m + BlockSize - 1 \in Nat /\ n + BlockSize - 1 \in Nat
      /\ m + BlockSize - 1 <= n + BlockSize - 1
  BY <1>1
<1>. QED  BY <1>1, <1>2, DivMonotone DEF KV!BlocksNeeded

-----------------------------------------------------------------------------
(* The inductive invariant: tables *)

(* The requests found runnable whose batch has not been run.                *)
Checked ==
  CASE phase = "ensure" -> Range(local.runnable)
    [] phase = "run"    -> Range(local.decode_batch)
    [] OTHER            -> {}

(* A request with record q may own this table.                              *)
HasRoom(q, table) ==
  /\ IsPrefix(q.block_table, table)
  /\ KV!BlocksNeeded(q.prompt_tokens + q.generated_tokens) <= Len(table)
  /\ Len(table) <= KV!BlocksNeeded(q.prompt_tokens + q.max_new_tokens)

(* It has room for one token more, and the engine knows the whole table.    *)
HasRoomForNext(q, table) ==
  /\ q.block_table = table
  /\ KV!BlocksNeeded(q.prompt_tokens + q.generated_tokens + 1) <= Len(table)

Roomy ==
  /\ \A r \in InSlot : HasRoom(request_state[r], block_tables[r])
  /\ \A r \in InSlot \cap Checked : HasRoomForNext(request_state[r], block_tables[r])

TInv == SInv /\ Roomy

LEMMA CheckedIs ==
  /\ phase = "ensure" => Checked = Range(local.runnable)
  /\ phase = "run" => Checked = Range(local.decode_batch)
  /\ phase \notin {"ensure", "run"} => Checked = {}
  /\ phase' = "ensure" => Checked' = Range(local'.runnable)
  /\ phase' = "run" => Checked' = Range(local'.decode_batch)
  /\ phase' \notin {"ensure", "run"} => Checked' = {}
BY DEF Checked

(* The types of what the invariant speaks about.                            *)
LEMMA InSlotTyped ==
  ASSUME SInv, NEW r \in InSlot
  PROVE  /\ r \in Requests /\ r \in KV!Owners /\ Running(request_state[r])
         /\ request_state[r] \in RequestRecords
         /\ block_tables[r] \in Seq(KV!Blocks) /\ Len(block_tables[r]) \in Nat
         /\ request_state[r].prompt_tokens \in Nat /\ request_state[r].generated_tokens \in Nat
         /\ request_state[r].max_new_tokens \in Nat
         /\ request_state[r].block_table \in Seq(KV!Blocks)
<1>1. r \in Requests /\ Running(request_state[r])
  BY DEF SInv, HInv, Placed, Homes, InStatus, Status, Running
<1>2. r \in KV!Owners
  BY DEF SInv, HInv, IInv, SlotsOwnTables
<1>3. request_state[r] \in RequestRecords
  BY <1>1 DEF SInv, HInv, Placed, Typed
<1>4. block_tables[r] \in Seq(KV!Blocks)
  BY <1>2 DEF SInv, HInv, IInv, BlocksInOnePlace, Partition, KV!Owners
<1>5. Len(block_tables[r]) \in Nat
  BY <1>4, LenProperties
<1>. QED  BY <1>1, <1>2, <1>3, <1>4, <1>5 DEF RequestRecords

-----------------------------------------------------------------------------
(* Steps that leave the tables of all who keep their slots *)

SameRoom(q, p) ==
  /\ p.block_table = q.block_table /\ p.prompt_tokens = q.prompt_tokens
  /\ p.generated_tokens = q.generated_tokens /\ p.max_new_tokens = q.max_new_tokens

LEMMA RoomKept ==
  ASSUME Roomy, InSlot' \subseteq InSlot, Checked' \cap InSlot' \subseteq Checked,
         \A r \in InSlot' : /\ block_tables'[r] = block_tables[r]
                            /\ SameRoom(request_state[r], request_state'[r])
  PROVE  Roomy'
<1>1. ASSUME NEW r \in InSlot'  PROVE HasRoom(request_state'[r], block_tables'[r])
  <2>1. HasRoom(request_state[r], block_tables[r])
    BY DEF Roomy
  <2>. QED  BY <2>1 DEF HasRoom, SameRoom
<1>2. ASSUME NEW r \in InSlot' \cap Checked'
      PROVE  HasRoomForNext(request_state'[r], block_tables'[r])
  <2>1. HasRoomForNext(request_state[r], block_tables[r])
    BY DEF Roomy
  <2>. QED  BY <2>1 DEF HasRoomForNext, SameRoom
<1>. QED  BY <1>1, <1>2 DEF Roomy

(* An ending takes the table of one request.                                *)
LEMMA EndingKeepsRoom ==
  ASSUME TInv, NEW r \in Requests, NEW status, EndRequest(r, status), Checked' = {}
  PROVE  Roomy'
<1>1. InSlot' = InSlot \ {r}
  BY EndingKeeps DEF TInv, SInv, HInv
<1>2. ASSUME NEW x \in InSlot, x # r
      PROVE  block_tables'[x] = block_tables[x] /\ request_state'[x] = request_state[x]
  <2>1. x \in Requests /\ x \in KV!Owners
    BY InSlotTyped DEF TInv
  <2>2. block_tables'[x] = block_tables[x]
    BY <1>2, <2>1 DEF EndRequest, KV!Free, KV!vars
  <2>3. request_state \in [Requests -> RequestRecords]
    BY DEF TInv, SInv, HInv, Placed, Typed
  <2>. QED  BY <1>2, <2>1, <2>2, <2>3 DEF EndRequest
<1>. QED  BY <1>1, <1>2, RoomKept DEF TInv, SameRoom

(* So do all steps that end a request.                                      *)
LEMMA EndingStepsKeepRoom ==
  ASSUME TInv,
         \/ FailAdmission \/ FailPrefill \/ EvictOneStalledRequest
         \/ FinishRequest \/ FailOneOfBatch
  PROVE  Roomy'
<1>1. CASE FailAdmission
  <2>1. Candidate \in Requests
    BY <1>1, CandidateWaits DEF FailAdmission, TInv, SInv
  <2>2. EndRequest(Candidate, "failed") /\ phase' = "admitting"
    BY <1>1 DEF FailAdmission, Admitting
  <2>. QED  BY <2>1, <2>2, CheckedIs, EndingKeepsRoom
<1>2. CASE FailPrefill
  <2>. DEFINE r == Head(local.work_plan).request_state
  <2>1. r \in Requests
    BY <1>2, ChunkIsPrefilling DEF FailPrefill, TInv, SInv
  <2>2. EndRequest(r, "failed") /\ phase' = "prefill"
    BY <1>2 DEF FailPrefill, Prefilling
  <2>. HIDE DEF r
  <2>. QED  BY <2>1, <2>2, CheckedIs, EndingKeepsRoom
<1>3. CASE EvictOneStalledRequest
  <2>. DEFINE r == Last(local.stalled)
  <2>1. local.stalled \in Seq(Requests) /\ local.stalled # << >>
    BY <1>3 DEF EvictOneStalledRequest, AllChecked, TInv, SInv, HInv, Placed, Typed, Locals,
       Loops, CheckedAreDecoding
  <2>2. Len(local.stalled) \in Nat /\ Len(local.stalled) # 0
    BY <2>1, LenProperties, EmptySeq
  <2>3. r = local.stalled[Len(local.stalled)]
    BY DEF Last
  <2>4. r \in Requests
    BY <2>1, <2>2, <2>3, ElementOfSeq
  <2>5. EndRequest(r, "failed") /\ phase' = "idle"
    BY <1>3 DEF EvictOneStalledRequest, EndStep
  <2>. HIDE DEF r
  <2>. QED  BY <2>4, <2>5, CheckedIs, EndingKeepsRoom
<1>4. CASE FinishRequest
  <2>. DEFINE r == Head(local.outputs).request_id
  <2>1. phase = "finish" /\ local.outputs # << >>
    BY <1>4 DEF FinishRequest, TInv, SInv, HInv, Placed, Loops, OutputsAreDecoding
  <2>2. r \in Requests
    BY <2>1, OutputsRest DEF TInv, SInv
  <2>3. EndRequest(r, "finished") /\ phase' = "apply"
    BY <1>4 DEF FinishRequest
  <2>. HIDE DEF r
  <2>. QED  BY <2>2, <2>3, CheckedIs, EndingKeepsRoom
<1>5. CASE FailOneOfBatch
  <2>. DEFINE r == Head(local.decode_batch)
  <2>1. local.decode_batch \in Seq(Requests) /\ local.decode_batch # << >>
    BY <1>5 DEF FailOneOfBatch, TInv, SInv, HInv, Placed, Typed, Locals
  <2>2. r \in Requests
    BY <2>1, HeadTailProperties
  <2>3. EndRequest(r, "failed") /\ phase' = "fail"
    BY <1>5 DEF FailOneOfBatch
  <2>. HIDE DEF r
  <2>. QED  BY <2>2, <2>3, CheckedIs, EndingKeepsRoom
<1>. QED  BY <1>1, <1>2, <1>3, <1>4, <1>5

(* Steps that touch no slot, no table and no count of a request in a slot.   *)
LEMMA OtherStepsKeepRoom ==
  ASSUME TInv,
         \/ BeginStep \/ DrainOne \/ DrainEmpty
         \/ AdmitPass \/ DeferOne \/ AdmitPassDone
         \/ PlanPrefill \/ BeginDecode \/ ChooseBatch
         \/ AllApplied \/ AllFailed
         \/ \E r \in Requests : Submit(r)
  PROVE  Roomy'
<1>. DEFINE Same == \A x \in InSlot : SameRoom(request_state[x], request_state'[x])
<1>1. ASSUME UNCHANGED <<slots, free_blocks, block_tables>>, Same, Checked' \subseteq Checked
      PROVE  Roomy'
  <2>1. InSlot' = InSlot
    BY <1>1 DEF InSlot, SlotIndices
  <2>. QED  BY <1>1, <2>1, RoomKept DEF TInv
<1>2. UNCHANGED request_state => Same
  BY DEF SameRoom
<1>3. request_state \in [Requests -> RequestRecords]
  BY DEF TInv, SInv, HInv, Placed, Typed
<1>4. ASSUME NEW r \in Requests, r \notin InSlot,
             \A x \in Requests : x # r => request_state'[x] = request_state[x]
      PROVE  Same
  <2>1. \A x \in InSlot : x \in Requests
    BY InSlotTyped DEF TInv
  <2>. QED  BY <1>4, <2>1 DEF SameRoom
<1>5. ASSUME NEW r \in Requests, Status(r) \notin {"prefill", "decoding"}
      PROVE  r \notin InSlot
  BY <1>5, InSlotTyped DEF TInv, Running, Status
<1>. HIDE DEF Same
<1>6. CASE BeginStep \/ DrainEmpty \/ AdmitPass \/ AdmitPassDone \/ PlanPrefill
           \/ AllApplied \/ AllFailed
  <2>1. /\ UNCHANGED <<slots, free_blocks, block_tables, request_state>>
        /\ phase' \notin {"ensure", "run"}
    BY <1>6 DEF BeginStep, DrainEmpty, AdmitPass, AdmitPassDone, PlanPrefill, AllApplied,
       AllFailed, Goto, EndStep, kv_vars
  <2>. QED  BY <1>1, <1>2, <2>1, CheckedIs
<1>7. CASE DrainOne
  <2>1. /\ UNCHANGED <<slots, free_blocks, block_tables>> /\ phase' \notin {"ensure", "run"}
        /\ request_state' = [request_state EXCEPT ![Head(request_queue)].status = "waiting"]
    BY <1>7 DEF DrainOne, kv_vars
  <2>2. Head(request_queue) \in Requests /\ Head(request_queue) \notin InSlot
    <3>1. request_queue \in Seq(Requests) /\ request_queue # << >>
      BY <1>7 DEF DrainOne, TInv, SInv, HInv, IInv, ListsTyped
    <3>2. Head(request_queue) \in Range(request_queue)
      BY <3>1, TailOfDistinct DEF TInv, SInv, HInv, Placed, Homes
    <3>3. Head(request_queue) \in Requests /\ Status(Head(request_queue)) = "waiting"
      BY <3>2 DEF TInv, SInv, HInv, Placed, Homes, InStatus
    <3>. QED  BY <1>5, <3>3
  <2>3. Same
    BY <1>3, <1>4, <2>1, <2>2
  <2>. QED  BY <1>1, <2>1, <2>3, CheckedIs
<1>8. CASE DeferOne
  <2>1. /\ UNCHANGED <<slots, free_blocks, block_tables>> /\ phase' \notin {"ensure", "run"}
        /\ request_state' = [request_state EXCEPT ![Candidate].status = "waiting"]
    BY <1>8 DEF DeferOne, Admitting, kv_vars
  <2>2. Candidate \in Requests /\ Candidate \notin InSlot
    BY <1>5, <1>8, CandidateWaits DEF DeferOne, TInv, SInv
  <2>3. Same
    BY <1>3, <1>4, <2>1, <2>2
  <2>. QED  BY <1>1, <2>1, <2>3, CheckedIs
<1>9. CASE BeginDecode
  <2>1. UNCHANGED <<slots, free_blocks, block_tables, request_state>> /\ phase = "prefill"
    BY <1>9 DEF BeginDecode, kv_vars
  <2>2. CASE EndStep
    BY <1>1, <1>2, <2>1, <2>2, CheckedIs DEF EndStep
  <2>3. CASE phase' = "ensure" /\ local' = [local EXCEPT !.unchecked = DecodeReadyRequestStates]
    <3>1. local'.runnable = << >>
      BY <2>1, <2>3 DEF TInv, SInv, HInv, Placed, Typed, Locals, Loops, NothingChecked
    <3>2. Checked' = {}
      BY <2>3, <3>1, CheckedIs DEF Range
    <3>. QED  BY <1>1, <1>2, <2>1, <3>2
  <2>. QED  BY <1>9, <2>2, <2>3 DEF BeginDecode
<1>10. CASE ChooseBatch
  <2>. DEFINE batch == SelectDecodeBatch(local.runnable)
  <2>1. UNCHANGED <<slots, free_blocks, block_tables, request_state>> /\ phase = "ensure"
    BY <1>10 DEF ChooseBatch, AllChecked, kv_vars
  <2>2. CASE EndStep
    BY <1>1, <1>2, <2>1, <2>2, CheckedIs DEF EndStep
  <2>3. CASE phase' = "run" /\ local' = [local EXCEPT !.decode_batch = batch]
    <3>1. local.runnable \in Seq(Requests) /\ local'.decode_batch = batch
      BY <2>3 DEF TInv, SInv, HInv, Placed, Typed, Locals
    <3>2. Range(batch) \subseteq Range(local.runnable)
      <4>1. CASE batch = local.runnable
        BY <4>1
      <4>2. CASE batch # local.runnable
        <5>1. /\ ~ (DecodeLimit = Unlimited \/ Len(local.runnable) <= DecodeLimit)
              /\ batch = SubSeq(local.runnable, 1, DecodeLimit)
          BY <4>2 DEF SelectDecodeBatch
        <5>2. DecodeLimit \in Nat /\ Len(local.runnable) \in Nat
          BY <3>1, <5>1, BudgetAssumption, LenProperties
        <5>3. DecodeLimit \in 0 .. Len(local.runnable)
          BY <5>1, <5>2
        <5>. QED  BY <3>1, <5>1, <5>3, CutDeque
      <4>. QED  BY <4>1, <4>2
    <3>3. Checked' \subseteq Checked
      BY <2>1, <2>3, <3>1, <3>2, CheckedIs
    <3>. QED  BY <1>1, <1>2, <2>1, <3>3
  <2>. QED  BY <1>10, <2>2, <2>3 DEF ChooseBatch
<1>11. CASE \E r \in Requests : Submit(r)
  <2>1. PICK r \in Requests : Submit(r)
    BY <1>11
  <2>2. /\ UNCHANGED <<slots, free_blocks, block_tables, phase, local>>
        /\ Status(r) = "new"
        /\ \E s \in Shapes :
             request_state' = [request_state EXCEPT ![r] =
                                 NewRequestState(s.prompt, s.max_new_tokens)]
    BY <2>1 DEF Submit, kv_vars
  <2>3. Same
    BY <1>3, <1>4, <1>5, <2>2
  <2>4. Checked' = Checked
    BY <2>2 DEF Checked
  <2>. QED  BY <1>1, <2>2, <2>3, <2>4
<1>. QED  BY <1>6, <1>7, <1>8, <1>9, <1>10, <1>11

-----------------------------------------------------------------------------
(* Admission, prefill and decode *)

(* An admitted request gets blocks for its prompt, fewer than were counted.  *)
LEMMA AdmitOneKeepsRoom ==
  ASSUME TInv, AdmitOne
  PROVE  Roomy'
<1>. DEFINE r == Candidate
            q == request_state[r]
            n == KV!BlocksNeeded(q.prompt)
            p == request_state'[r]
            table == block_tables'[r]
<1>1. /\ r \in Requests /\ q.status = "waiting" /\ q \in RequestRecords
      /\ request_state \in [Requests -> RequestRecords]
  BY CandidateWaits DEF AdmitOne, TInv, SInv, HInv, Placed, Typed, Status
<1>2. InSlot' = InSlot \cup {r} /\ r \notin InSlot
  BY AdmissionKeeps DEF TInv, SInv, HInv
<1>3. /\ block_tables' = [x \in KV!Owners \cup {r} |->
                            IF x = r THEN SubSeq(free_blocks, 1, n) ELSE block_tables[x]]
      /\ Len(free_blocks) >= n
      /\ request_state' = [request_state EXCEPT ![r].status = "prefill",
                                                ![r].block_table = block_tables'[r],
                                                ![r].prompt_tokens = q.prompt]
      /\ phase' = "admitting"
  BY DEF AdmitOne, Admitting, KV!AllocateForTokens, KV!AllocateBlocks, KV!FirstFree,
     KV!CanAllocateBlocks, KV!FreeBlockCount
<1>4. /\ q.prompt \in Nat /\ q.max_new_tokens \in Nat /\ q.generated_tokens = 0
  BY <1>1 DEF TInv, SInv, Counted, RecordsRight, RecordRight, RequestRecords
<1>5. n \in Nat /\ n <= KV!BlocksNeeded(q.prompt + q.max_new_tokens)
  <2>1. q.prompt + q.max_new_tokens \in Nat /\ q.prompt <= q.prompt + q.max_new_tokens
    BY <1>4
  <2>. QED  BY <1>4, <2>1, BlocksNeededNat, MoreTokensMoreBlocks
<1>6. /\ table = SubSeq(free_blocks, 1, n) /\ Len(table) = n
      /\ \A x \in InSlot : block_tables'[x] = block_tables[x]
  <2>1. table = SubSeq(free_blocks, 1, n)
    BY <1>3
  <2>2. \A x \in InSlot : x \in KV!Owners /\ x # r
    BY <1>2, InSlotTyped DEF TInv
  <2>3. free_blocks \in Seq(KV!Blocks)
    BY DEF TInv, SInv, HInv, IInv, BlocksInOnePlace, Partition
  <2>4. n \in 0 .. Len(free_blocks)
    BY <1>3, <1>5, <2>3, LenProperties
  <2>5. Len(SubSeq(free_blocks, 1, n)) = n
    BY <2>3, <2>4, CutDeque
  <2>. HIDE DEF n, r
  <2>. QED  BY <1>3, <2>1, <2>2, <2>5
<1>7. /\ p.block_table = table /\ p.prompt_tokens = q.prompt /\ p.generated_tokens = 0
      /\ p.max_new_tokens = q.max_new_tokens
      /\ \A x \in InSlot : request_state'[x] = request_state[x]
  <2>1. p = [q EXCEPT !.status = "prefill", !.block_table = table, !.prompt_tokens = q.prompt]
    BY <1>1, <1>3
  <2>2. \A x \in InSlot : x \in Requests /\ x # r
    BY <1>2, InSlotTyped DEF TInv
  <2>. HIDE DEF r, table
  <2>3. \A x \in InSlot : request_state'[x] = request_state[x]
    BY <1>1, <1>3, <2>2
  <2>4. /\ p.block_table = table /\ p.prompt_tokens = q.prompt
        /\ p.generated_tokens = q.generated_tokens /\ p.max_new_tokens = q.max_new_tokens
    <3>. HIDE DEF p, q
    <3>. QED  BY <1>1, <2>1 DEF RequestRecords
  <2>. QED  BY <1>4, <2>3, <2>4
<1>. HIDE DEF n, r, q, p, table
<1>8. HasRoom(p, table)
  <2>1. IsPrefix(p.block_table, table)
    BY <1>5, <1>6, <1>7 DEF IsPrefix
  <2>2. p.prompt_tokens + p.generated_tokens = q.prompt
    BY <1>4, <1>7
  <2>3. n = KV!BlocksNeeded(q.prompt)
    BY DEF n
  <2>. QED  BY <1>5, <1>6, <1>7, <2>1, <2>2, <2>3 DEF HasRoom
<1>9. ASSUME NEW x \in InSlot'  PROVE HasRoom(request_state'[x], block_tables'[x])
  <2>1. CASE x = r
    BY <1>8, <2>1 DEF p, table
  <2>2. CASE x # r
    BY <1>2, <1>6, <1>7, <2>2 DEF TInv, Roomy
  <2>. QED  BY <2>1, <2>2
<1>10. Checked' = {}
  BY <1>3, CheckedIs
<1>. QED  BY <1>9, <1>10 DEF Roomy

(* A chunk of a prompt counts no generated token.                           *)
LEMMA PrefillChunkKeepsRoom ==
  ASSUME TInv, PrefillChunk
  PROVE  Roomy'
<1>. DEFINE r == Head(local.work_plan).request_state
            n == Head(local.work_plan).num_scheduled_tokens
            q == request_state[r]
            end == ChunkEnd(r, n)
            status == IF end = q.prompt_tokens THEN "decoding" ELSE q.status
            p == [q EXCEPT !.num_computed_tokens = end, !.generated_tokens = 0,
                           !.status = status]
<1>1. r \in Requests /\ q.status = "prefill"
  BY ChunkIsPrefilling DEF PrefillChunk, TInv, SInv, Status
<1>2. q \in RequestRecords /\ request_state \in [Requests -> RequestRecords]
  BY <1>1 DEF TInv, SInv, HInv, Placed, Typed
<1>3. /\ request_state' = [request_state EXCEPT ![r] = p]
      /\ phase' = "prefill" /\ UNCHANGED <<slots, free_blocks, block_tables>>
  BY <1>1, <1>2 DEF PrefillChunk, Prefilling, RequestRecords, kv_vars
<1>4. q.generated_tokens = 0
  BY <1>1 DEF TInv, SInv, Counted, RecordsRight, RecordRight
<1>5. SameRoom(q, p)
  <2>. HIDE DEF end, status, r, q
  <2>. QED  BY <1>2, <1>4 DEF SameRoom, RequestRecords
<1>. HIDE DEF p, r, q
<1>6. ASSUME NEW x \in InSlot  PROVE SameRoom(request_state[x], request_state'[x])
  <2>1. x \in Requests
    BY InSlotTyped DEF TInv
  <2>2. CASE x = r
    BY <1>2, <1>3, <1>5, <2>1, <2>2 DEF q
  <2>3. CASE x # r
    BY <1>2, <1>3, <2>1, <2>3 DEF SameRoom
  <2>. QED  BY <2>2, <2>3
<1>7. InSlot' = InSlot /\ Checked' = {}
  BY <1>3, CheckedIs DEF InSlot, SlotIndices
<1>. QED  BY <1>3, <1>6, <1>7, RoomKept DEF TInv

(* Applying an output changes the stream and the computed tokens.            *)
LEMMA ApplyOutputKeepsRoom ==
  ASSUME TInv, ApplyOutput
  PROVE  Roomy'
<1>. DEFINE output == Head(local.outputs)
            r == output.request_id
            q == request_state[r]
            p == WithOutput(q, output)
<1>1. phase = "apply" /\ local.outputs # << >>
  BY DEF ApplyOutput
<1>2. r \in Requests
  BY <1>1, OutputsRest DEF TInv, SInv
<1>3. q \in RequestRecords /\ request_state \in [Requests -> RequestRecords]
  BY <1>2 DEF TInv, SInv, HInv, Placed, Typed
<1>4. /\ request_state' = [request_state EXCEPT ![r] = p]
      /\ phase' \in {"apply", "finish"} /\ UNCHANGED <<slots, free_blocks, block_tables>>
  BY <1>2, <1>3 DEF ApplyOutput, Goto, kv_vars
<1>5. SameRoom(q, p)
  <2>. HIDE DEF q
  <2>. QED  BY <1>3 DEF SameRoom, WithOutput, RequestRecords
<1>. HIDE DEF p, r
<1>6. ASSUME NEW x \in InSlot  PROVE SameRoom(request_state[x], request_state'[x])
  <2>1. x \in Requests
    BY InSlotTyped DEF TInv
  <2>2. CASE x = r
    BY <1>3, <1>4, <1>5, <2>1, <2>2
  <2>3. CASE x # r
    BY <1>3, <1>4, <2>1, <2>3 DEF SameRoom
  <2>. QED  BY <2>2, <2>3
<1>7. InSlot' = InSlot /\ Checked' = {}
  BY <1>4, CheckedIs DEF InSlot, SlotIndices
<1>. QED  BY <1>4, <1>6, <1>7, RoomKept DEF TInv

(* A table grows at its end, by no more than the next token needs.           *)
LEMMA GrowingTable ==
  ASSUME TInv, NEW r \in Requests, EnsureCapacity(r)
  PROVE  LET q == request_state[r]
         IN  /\ r \in InSlot /\ q \in RequestRecords
             /\ block_tables' = [block_tables EXCEPT ![r] = block_tables'[r]]
             /\ block_tables'[r] \in Seq(KV!Blocks)
             /\ HasRoom(q, block_tables'[r])
             /\ KV!CapacityAvailable(r, TokenPosition(r)) =>
                  KV!BlocksNeeded(q.prompt_tokens + q.generated_tokens + 1)
                    <= Len(block_tables'[r])
             /\ r \notin Checked /\ phase = "ensure"
<1>. DEFINE q == request_state[r]
            table == block_tables[r]
            need == KV!BlocksNeeded(q.prompt_tokens + q.generated_tokens + 1)
            limit == KV!BlocksNeeded(q.prompt_tokens + q.max_new_tokens)
            missing == KV!MissingBlocks(r, TokenPosition(r))
            k == IF missing <= Len(free_blocks) THEN missing ELSE Len(free_blocks)
            new == SubSeq(free_blocks, 1, k)
<1>1. /\ phase = "ensure" /\ r \in KV!Owners
      /\ block_tables' = [block_tables EXCEPT ![r] = table \o new]
      /\ local.unchecked # << >> /\ r = Head(local.unchecked)
  BY DEF EnsureCapacity, KV!EnsureCapacityForToken, KV!Extend, KV!FirstFree, KV!FreeBlockCount
<1>2. r \in InSlot
  BY <1>1 DEF TInv, SInv, HInv, IInv, SlotsOwnTables
<1>3. /\ q \in RequestRecords /\ table \in Seq(KV!Blocks) /\ Len(table) \in Nat
      /\ q.prompt_tokens \in Nat /\ q.generated_tokens \in Nat /\ q.max_new_tokens \in Nat
      /\ q.block_table \in Seq(KV!Blocks)
  BY <1>2, InSlotTyped DEF TInv
<1>4. r \in Range(local.unchecked) /\ r \notin Range(local.runnable) /\ q.status = "decoding"
  <2>1. /\ local.unchecked \in Seq(Requests)
        /\ Distinct(local.unchecked, InStatus({"decoding"}))
        /\ Range(local.unchecked) \cap Range(local.runnable) = {}
    BY <1>1 DEF TInv, SInv, HInv, Placed, Typed, Locals, Loops, CheckedAreDecoding
  <2>2. r \in Range(local.unchecked)
    BY <1>1, <2>1, TailOfDistinct DEF Distinct
  <2>. QED  BY <2>1, <2>2 DEF Distinct, InStatus, Status
<1>5. r \notin Checked
  BY <1>1, <1>4, CheckedIs
<1>6. q.generated_tokens < q.max_new_tokens
  <2>1. r \notin Uncounted
    BY <1>1, UncountedIs
  <2>. QED  BY <1>4, <2>1 DEF TInv, SInv, Counted, RecordsRight, RecordRight
<1>7. need \in Nat /\ limit \in Nat /\ need <= limit
  <2>1. /\ q.prompt_tokens + q.generated_tokens + 1 \in Nat
        /\ q.prompt_tokens + q.max_new_tokens \in Nat
        /\ q.prompt_tokens + q.generated_tokens + 1 <= q.prompt_tokens + q.max_new_tokens
    <3>. HIDE DEF q
    <3>. QED  BY <1>3, <1>6
  <2>. QED  BY <2>1, BlocksNeededNat, MoreTokensMoreBlocks
<1>8. missing = IF need - Len(table) > 0 THEN need - Len(table) ELSE 0
  BY DEF KV!MissingBlocks, TokenPosition
<1>9. HasRoom(q, table)
  BY <1>2 DEF TInv, Roomy
<1>10. free_blocks \in Seq(KV!Blocks) /\ Len(free_blocks) \in Nat
  BY LenProperties DEF TInv, SInv, HInv, IInv, BlocksInOnePlace, Partition
<1>11. KV!CapacityAvailable(r, TokenPosition(r)) <=> missing <= Len(free_blocks)
  BY DEF KV!CapacityAvailable, KV!FreeBlockCount
<1>a. limit = KV!BlocksNeeded(q.prompt_tokens + q.max_new_tokens)
  OBVIOUS
<1>. HIDE DEF need, limit, missing
<1>12. missing \in Nat
  <2>. HIDE DEF table
  <2>. QED  BY <1>3, <1>7, <1>8
<1>13. /\ k \in 0 .. Len(free_blocks)
       /\ Len(table) + k <= limit \/ k = 0
       /\ missing <= Len(free_blocks) => need <= Len(table) + k
  <2>. HIDE DEF table
  <2>. QED  BY <1>3, <1>7, <1>8, <1>10, <1>12
<1>. HIDE DEF k
<1>14. new \in Seq(KV!Blocks) /\ Len(new) = k
  BY <1>10, <1>13, CutDeque
<1>. HIDE DEF new
<1>15. table \o new \in Seq(KV!Blocks) /\ Len(table \o new) = Len(table) + k
  BY <1>3, <1>14, ConcatProperties
<1>16. IsPrefix(q.block_table, table \o new)
  BY <1>3, <1>9, <1>14, PrefixExtends DEF HasRoom
<1>17. HasRoom(q, table \o new)
  <2>1. KV!BlocksNeeded(q.prompt_tokens + q.generated_tokens) \in Nat
    <3>1. q.prompt_tokens + q.generated_tokens \in Nat
      BY <1>3
    <3>. QED  BY <3>1, BlocksNeededNat
  <2>2. /\ KV!BlocksNeeded(q.prompt_tokens + q.generated_tokens) <= Len(table)
        /\ Len(table) <= limit
    BY <1>9, <1>a DEF HasRoom
  <2>3. \A n, l, m, j \in Nat :
          n <= l /\ l <= m /\ (l + j <= m \/ j = 0) => n <= l + j /\ l + j <= m
    OBVIOUS
  <2>4. k \in Nat
    BY <1>10, <1>13
  <2>5. /\ KV!BlocksNeeded(q.prompt_tokens + q.generated_tokens) <= Len(table) + k
        /\ Len(table) + k <= limit
    <3>. DEFINE low == KV!BlocksNeeded(q.prompt_tokens + q.generated_tokens)
    <3>1. low \in Nat /\ low <= Len(table)
      BY <2>1, <2>2
    <3>. HIDE DEF low, table
    <3>2. low <= Len(table) + k /\ Len(table) + k <= limit
      BY <1>3, <1>7, <1>13, <2>2, <2>3, <2>4, <3>1
    <3>. QED  BY <3>2 DEF low
  <2>. QED  BY <1>15, <1>16, <1>a, <2>5 DEF HasRoom
<1>18. /\ block_tables' = [block_tables EXCEPT ![r] = block_tables'[r]]
       /\ block_tables'[r] = table \o new
  <2>1. block_tables = [x \in KV!Owners |-> block_tables[x]]
    BY DEF TInv, SInv, HInv, IInv, BlocksInOnePlace, Partition, KV!Owners
  <2>2. block_tables'[r] = table \o new
    BY <1>1, <2>1 DEF KV!Owners
  <2>. QED  BY <1>1, <2>2
<1>19. need = KV!BlocksNeeded(q.prompt_tokens + q.generated_tokens + 1)
  BY DEF need
<1>. QED
  BY <1>1, <1>2, <1>3, <1>5, <1>11, <1>13, <1>15, <1>17, <1>18, <1>19

(* What is found runnable has its room and its copy.                         *)
LEMMA EnsureKeepsRoom ==
  ASSUME TInv, NEW r \in Requests, EnsureRunnable(r) \/ EnsureStalled(r)
  PROVE  Roomy'
<1>. DEFINE q == request_state[r]
            table == block_tables'[r]
<1>1. EnsureCapacity(r) /\ UNCHANGED <<slots, phase>>
  BY DEF EnsureRunnable, EnsureStalled
<1>2. /\ r \in InSlot /\ q \in RequestRecords
      /\ block_tables' = [block_tables EXCEPT ![r] = table]
      /\ table \in Seq(KV!Blocks) /\ HasRoom(q, table)
      /\ KV!CapacityAvailable(r, TokenPosition(r)) =>
           KV!BlocksNeeded(q.prompt_tokens + q.generated_tokens + 1) <= Len(table)
      /\ r \notin Checked /\ phase = "ensure"
  BY <1>1, GrowingTable
<1>3. InSlot' = InSlot
  BY <1>1 DEF InSlot, SlotIndices
<1>5. request_state \in [Requests -> RequestRecords] /\ \A x \in InSlot : x \in Requests
  BY InSlotTyped DEF TInv, SInv, HInv, Placed, Typed
<1>. HIDE DEF table
<1>4. \A x \in InSlot : x # r => block_tables'[x] = block_tables[x]
  <2>1. \A x \in InSlot : x \in DOMAIN block_tables
    BY InSlotTyped DEF TInv, KV!Owners
  <2>. QED  BY <1>2, <2>1
<1>6. CASE EnsureStalled(r)
  <2>1. UNCHANGED request_state /\ local'.runnable = local.runnable
    BY <1>6 DEF EnsureStalled, TInv, SInv, HInv, Placed, Typed, Locals
  <2>2. Checked' = Checked
    BY <1>1, <1>2, <2>1, CheckedIs
  <2>3. ASSUME NEW x \in InSlot  PROVE HasRoom(request_state'[x], block_tables'[x])
    <3>1. CASE x = r
      BY <1>2, <2>1, <3>1 DEF table
    <3>2. CASE x # r
      BY <1>4, <2>1, <3>2 DEF TInv, Roomy
    <3>. QED  BY <3>1, <3>2
  <2>4. ASSUME NEW x \in InSlot \cap Checked
        PROVE  HasRoomForNext(request_state'[x], block_tables'[x])
    BY <1>2, <1>4, <2>1 DEF TInv, Roomy
  <2>. QED  BY <1>3, <2>2, <2>3, <2>4 DEF Roomy
<1>7. CASE EnsureRunnable(r)
  <2>. DEFINE p == [q EXCEPT !.block_table = table]
  <2>1. /\ request_state' = [request_state EXCEPT ![r].block_table = table]
        /\ KV!CapacityAvailable(r, TokenPosition(r))
        /\ local'.runnable = Append(local.runnable, r)
    BY <1>7 DEF EnsureRunnable, TInv, SInv, HInv, Placed, Typed, Locals, table
  <2>2. request_state'[r] = p /\ \A x \in InSlot : x # r => request_state'[x] = request_state[x]
    BY <1>5, <2>1
  <2>3. /\ p.block_table = table /\ p.prompt_tokens = q.prompt_tokens
        /\ p.generated_tokens = q.generated_tokens /\ p.max_new_tokens = q.max_new_tokens
    BY <1>2 DEF RequestRecords
  <2>. HIDE DEF p, q
  <2>4. HasRoom(p, table) /\ HasRoomForNext(p, table)
    <3>1. Len(table) \in Nat
      BY <1>2, LenProperties
    <3>2. IsPrefix(table, table)
      BY <3>1 DEF IsPrefix
    <3>. QED  BY <1>2, <2>1, <2>3, <3>2 DEF HasRoom, HasRoomForNext
  <2>5. Checked' = Checked \cup {r}
    <3>1. local.runnable \in Seq(Requests)
      BY DEF TInv, SInv, HInv, Placed, Typed, Locals
    <3>2. Range(Append(local.runnable, r)) = Range(local.runnable) \cup {r}
      BY <3>1, AppendRange
    <3>. QED  BY <1>1, <1>2, <2>1, <3>2, CheckedIs
  <2>6. ASSUME NEW x \in InSlot  PROVE HasRoom(request_state'[x], block_tables'[x])
    <3>1. CASE x = r
      BY <2>2, <2>4, <3>1 DEF table
    <3>2. CASE x # r
      BY <1>4, <2>2, <3>2 DEF TInv, Roomy
    <3>. QED  BY <3>1, <3>2
  <2>7. ASSUME NEW x \in InSlot \cap Checked'
        PROVE  HasRoomForNext(request_state'[x], block_tables'[x])
    <3>1. CASE x = r
      BY <2>2, <2>4, <3>1 DEF table
    <3>2. CASE x # r
      BY <1>4, <2>2, <2>5, <3>2 DEF TInv, Roomy
    <3>. QED  BY <3>1, <3>2
  <2>. QED  BY <1>3, <2>6, <2>7 DEF Roomy
<1>. QED  BY <1>6, <1>7

(* A batch is run, or raises, with room for what it counts.                  *)
LEMMA DecodeKeepsRoom ==
  ASSUME TInv, RunDecodeBatch \/ FailDecodeBatch
  PROVE  Roomy'
<1>1. /\ phase = "run" /\ phase' \in {"apply", "fail"}
      /\ UNCHANGED <<slots, free_blocks, block_tables>>
      /\ local.decode_batch \in Seq(Requests)
  BY DEF RunDecodeBatch, FailDecodeBatch, kv_vars, TInv, SInv, HInv, Placed, Typed, Locals
<1>2. InSlot' = InSlot /\ Checked' = {} /\ Checked = Range(local.decode_batch)
  BY <1>1, CheckedIs DEF InSlot, SlotIndices
<1>3. ASSUME NEW x \in Requests
      PROVE  \/ request_state'[x] = request_state[x]
             \/ /\ x \in Checked
                /\ request_state'[x] = [request_state[x] EXCEPT !.generated_tokens = @ + 1]
  <2>1. CASE RunDecodeBatch
    BY <1>2, <2>1 DEF RunDecodeBatch
  <2>2. CASE FailDecodeBatch
    <3>1. PICK k \in 0 .. Len(local.decode_batch) :
            request_state' =
              [r \in Requests |->
                 IF \E i \in 1 .. k : local.decode_batch[i] = r
                 THEN [request_state[r] EXCEPT !.generated_tokens = @ + 1]
                 ELSE request_state[r]]
      BY <2>2 DEF FailDecodeBatch
    <3>2. CASE \E i \in 1 .. k : local.decode_batch[i] = x
      <4>1. PICK i \in 1 .. k : local.decode_batch[i] = x
        BY <3>2
      <4>2. i \in DOMAIN local.decode_batch
        BY <1>1, LenProperties
      <4>3. x \in Checked
        BY <1>2, <4>1, <4>2 DEF Range
      <4>. QED  BY <3>1, <3>2, <4>3
    <3>3. CASE ~ \E i \in 1 .. k : local.decode_batch[i] = x
      BY <3>1, <3>3
    <3>. QED  BY <3>2, <3>3
  <2>. QED  BY <2>1, <2>2
<1>4. ASSUME NEW x \in InSlot  PROVE HasRoom(request_state'[x], block_tables'[x])
  <2>. DEFINE q == request_state[x]
              n == q.generated_tokens + 1
              p == [q EXCEPT !.generated_tokens = n]
  <2>1. /\ x \in Requests /\ q \in RequestRecords
        /\ q.prompt_tokens \in Nat /\ q.generated_tokens \in Nat
    BY InSlotTyped DEF TInv
  <2>2. HasRoom(q, block_tables[x])
    BY DEF TInv, Roomy
  <2>3. CASE request_state'[x] = request_state[x]
    BY <1>1, <2>2, <2>3
  <2>4. CASE /\ x \in Checked
             /\ request_state'[x] = [request_state[x] EXCEPT !.generated_tokens = @ + 1]
    <3>1. HasRoomForNext(q, block_tables[x])
      BY <2>4 DEF TInv, Roomy
    <3>2. request_state'[x] = p
      BY <2>1, <2>4 DEF RequestRecords
    <3>3. /\ p.block_table = q.block_table /\ p.prompt_tokens = q.prompt_tokens
          /\ p.generated_tokens = n /\ p.max_new_tokens = q.max_new_tokens
      BY <2>1 DEF RequestRecords
    <3>4. q.prompt_tokens + n = q.prompt_tokens + q.generated_tokens + 1
      <4>. HIDE DEF q
      <4>. QED  BY <2>1
    <3>. HIDE DEF p, q, n
    <3>. QED  BY <1>1, <2>2, <3>1, <3>2, <3>3, <3>4 DEF HasRoom, HasRoomForNext
  <2>. QED  BY <1>3, <2>1, <2>3, <2>4
<1>. QED  BY <1>2, <1>4 DEF Roomy

-----------------------------------------------------------------------------
(* The theorems on tables *)

(* The invariant holds of every behaviour of the scheduler.                 *)
LEMMA TInvInvariant == Spec => []TInv
<1>1. Init => Roomy
  BY DEF Init, InSlot, Roomy
<1>2. ASSUME TInv, Next  PROVE Roomy'
  <2>1. CASE EngineStep
    BY <1>2, <2>1, PrefillChunkKeepsRoom, EndingStepsKeepRoom, DecodeKeepsRoom DEF EngineStep
  <2>2. CASE AdmitOne \/ ApplyOutput
    BY <1>2, <2>2, AdmitOneKeepsRoom, ApplyOutputKeepsRoom
  <2>3. CASE FailAdmission \/ EvictOneStalledRequest \/ FinishRequest \/ FailOneOfBatch
    BY <1>2, <2>3, EndingStepsKeepRoom
  <2>4. CASE \E r \in Requests : EnsureRunnable(r) \/ EnsureStalled(r)
    BY <1>2, <2>4, EnsureKeepsRoom
  <2>5. CASE \/ BeginStep \/ DrainOne \/ DrainEmpty
             \/ AdmitPass \/ DeferOne \/ AdmitPassDone
             \/ PlanPrefill \/ BeginDecode \/ ChooseBatch
             \/ AllApplied \/ AllFailed
             \/ \E r \in Requests : Submit(r)
    BY <1>2, <2>5, OtherStepsKeepRoom
  <2>. QED  BY <1>2, <2>1, <2>2, <2>3, <2>4, <2>5 DEF Next, Step, StepWithoutEngine
<1>3. ASSUME TInv, UNCHANGED vars  PROVE Roomy'
  <2>1. UNCHANGED <<request_state, slots, block_tables, phase, local>>
    BY <1>3 DEF vars, kv_vars
  <2>2. InSlot' = InSlot /\ Checked' = Checked
    BY <2>1 DEF InSlot, SlotIndices, Checked
  <2>. QED  BY <1>3, <2>1, <2>2 DEF TInv, Roomy
<1>4. SInv /\ Roomy /\ [Next]_vars => Roomy'
  BY <1>2, <1>3 DEF TInv
<1>5. SInv /\ Roomy => TInv
  BY DEF TInv
<1>. QED  BY <1>1, <1>4, <1>5, SInvInvariant, PTL DEF Spec

(* Whatever is overcommitted, stalled or evicted, a request in a slot has    *)
(* room for every token it has, and never more blocks than were counted at   *)
(* its admission.                                                            *)
THEOREM TokensHaveRoom == Spec => []TablesCoverTokens
<1>1. ASSUME TInv  PROVE TablesCoverTokens
  BY <1>1 DEF TInv, Roomy, HasRoom, TablesCoverTokens, TokenPosition
<1>. QED  BY <1>1, TInvInvariant, PTL

(* The engine never decodes with a stale copy of a block table, and always   *)
(* has room for the position it writes.                                      *)
THEOREM CopiesAreValid == Spec => []BlockTableCopiesValid
<1>1. ASSUME TInv  PROVE BlockTableCopiesValid
  <2>1. \A r \in InSlot : IsPrefix(request_state[r].block_table, block_tables[r])
    BY <1>1 DEF TInv, Roomy, HasRoom
  <2>2. ASSUME phase = "run", NEW r \in Range(local.decode_batch)
        PROVE  /\ request_state[r].block_table = block_tables[r]
               /\ KV!MissingBlocks(r, TokenPosition(r)) = 0
    <3>1. r \in InSlot
      <4>1. r \in InStatus({"decoding"})
        BY <1>1, <2>2 DEF TInv, SInv, HInv, Placed, Loops, BatchIsDecoding, Distinct
      <4>. QED  BY <1>1, <4>1 DEF TInv, SInv, HInv, Placed, Homes, InStatus
    <3>2. HasRoomForNext(request_state[r], block_tables[r])
      BY <1>1, <2>2, <3>1, CheckedIs DEF TInv, Roomy
    <3>. DEFINE need == KV!BlocksNeeded(TokenPosition(r) + 1)
                len == Len(block_tables[r])
    <3>3. need \in Nat /\ len \in Nat /\ need <= len
      <4>1. /\ request_state[r].prompt_tokens \in Nat
            /\ request_state[r].generated_tokens \in Nat /\ len \in Nat
        BY <1>1, <3>1, InSlotTyped DEF TInv
      <4>2. TokenPosition(r) + 1 \in Nat
        BY <4>1 DEF TokenPosition
      <4>3. need \in Nat
        BY <4>2, BlocksNeededNat
      <4>. QED  BY <3>2, <4>1, <4>3 DEF HasRoomForNext, TokenPosition
    <3>4. KV!MissingBlocks(r, TokenPosition(r)) = IF need - len > 0 THEN need - len ELSE 0
      BY DEF KV!MissingBlocks
    <3>. HIDE DEF need, len
    <3>5. KV!MissingBlocks(r, TokenPosition(r)) = 0
      BY <3>3, <3>4
    <3>. QED  BY <3>2, <3>5 DEF HasRoomForNext
  <2>. QED  BY <2>1, <2>2 DEF BlockTableCopiesValid
<1>. QED  BY <1>1, TInvInvariant, PTL

-----------------------------------------------------------------------------
(* The inductive invariant: the counters add up *)

(* The outputs whose token the engine has counted and the scheduler has not. *)
Due ==
  CASE phase = "apply"  -> Len(local.outputs)
    [] phase = "finish" -> Len(local.outputs) - 1
    [] OTHER            -> 0

TokensAdd ==
  /\ stats.tokens_generated + Due <= TokensCounted
  /\ ~ EngineMayFail => stats.tokens_generated + Due = TokensCounted

(* Each stalled request of a step was counted, and one of them is evicted.  *)
StallsAdd ==
  /\ stats.kv_oom_evictions + Len(local.stalled) <= stats.kv_allocation_failures
  /\ stats.kv_allocation_failures <= stats.decode_stalls

MetricsRight ==
  metrics = [i \in 1 .. Len(finished) |->
               [request_id |-> finished[i], status |-> Status(finished[i])]]

(* A request has prompt tokens once it was admitted.                        *)
Untokenized == \A r \in InStatus({"new", "waiting"}) : request_state[r].prompt_tokens = 0

Finishes     == InStatus({"finished"})
FailedInSlot == {r \in Requests : Status(r) = "failed" /\ request_state[r].prompt_tokens > 0}

AdmissionsAdd ==
  /\ stats.admitted_count
       = OccupiedSlotCount + stats.early_finishes + Cardinality(FailedInSlot)
  /\ stats.early_finishes = Cardinality(Finishes)
  /\ stats.kv_oom_evictions <= Cardinality(FailedInSlot)

Balanced == TokensAdd /\ StallsAdd /\ MetricsRight /\ Untokenized /\ AdmissionsAdd

CInv == TInv /\ Balanced

-----------------------------------------------------------------------------
(* Finitely many requests were sent *)

LEMMA FinitelyMany ==
  ASSUME HInv
  PROVE  /\ IsFiniteSet(Submitted)
         /\ IsFiniteSet(Finishes) /\ Cardinality(Finishes) \in Nat
         /\ IsFiniteSet(FailedInSlot) /\ Cardinality(FailedInSlot) \in Nat
         /\ OccupiedSlotCount \in Nat
<1>1. /\ request_queue \in Seq(Requests) /\ waiting \in Seq(Requests)
      /\ finished \in Seq(Requests) /\ slots \in Seq(Requests \cup {NoRequest})
  BY MaxSlotsAssumption DEF HInv, IInv, ListsTyped, SlotsTyped, SlotIndices, Placed, Typed
<1>2. /\ IsFiniteSet(Range(request_queue)) /\ IsFiniteSet(Range(waiting))
      /\ IsFiniteSet(Range(finished)) /\ IsFiniteSet(Range(slots))
  BY <1>1, CountingMembers
<1>3. IsFiniteSet(InSlot)
  <2>1. InSlot \in SUBSET Range(slots)
    BY DEF HInv, IInv, SlotsTyped, InSlot, Range
  <2>. QED  BY <1>2, <2>1, FS_Subset
<1>4. IsFiniteSet(Submitted)
  <2>. DEFINE A == Range(request_queue) \cup Range(waiting)
              B == InSlot \cup Range(finished)
  <2>1. IsFiniteSet(A) /\ IsFiniteSet(B)
    BY <1>2, <1>3, FS_Union
  <2>2. IsFiniteSet(A \cup B)
    <3>. HIDE DEF A, B
    <3>. QED  BY <2>1, FS_Union
  <2>3. Submitted \in SUBSET (A \cup B)
    <3>1. \A r \in Requests : Status(r) \in Statuses
      BY DEF HInv, Placed, Typed, RequestRecords, Status
    <3>2. /\ A = InStatus({"waiting"}) /\ InSlot = InStatus({"prefill", "decoding"})
          /\ Range(finished) = InStatus(Ended)
      BY DEF HInv, Placed, Homes
    <3>. HIDE DEF A
    <3>. QED  BY <3>1, <3>2 DEF Submitted, InStatus, Statuses, Ended
  <2>. QED  BY <2>2, <2>3, FS_Subset
<1>5. /\ Finishes \in SUBSET Range(finished) /\ FailedInSlot \in SUBSET Range(finished)
  BY DEF HInv, Placed, Homes, Finishes, FailedInSlot, InStatus, Ended
<1>6. /\ IsFiniteSet(Finishes) /\ Cardinality(Finishes) \in Nat
      /\ IsFiniteSet(FailedInSlot) /\ Cardinality(FailedInSlot) \in Nat
  BY <1>2, <1>5, FS_Subset, FS_CardinalityType
<1>7. OccupiedSlotCount \in Nat
  <2>1. SlotIndices \in SUBSET Int /\ IsFiniteSet(SlotIndices)
    BY MaxSlotsAssumption, FS_Interval DEF SlotIndices
  <2>2. IsFiniteSet({i \in SlotIndices : slots[i] # NoRequest})
    BY <2>1, FS_Subset
  <2>. QED  BY <2>2, FS_CardinalityType DEF OccupiedSlotCount
<1>. QED  BY <1>4, <1>6, <1>7

-----------------------------------------------------------------------------
(* The ledger of admissions and ends *)

Ledger == MetricsRight /\ Untokenized /\ AdmissionsAdd

(* A step that admits nobody and ends nobody changes records like this.     *)
QuietRecord(q, p) ==
  /\ p.prompt_tokens = q.prompt_tokens
  /\ \/ p.status = q.status
     \/ /\ q.status \notin Ended /\ p.status \notin Ended
        /\ p.status \in {"new", "waiting"} => q.status \in {"new", "waiting"}
        /\ p.status = "new" => q.status = "new"

SameCounts(counters) == \A c \in counters : stats'[c] = stats[c]

LEMMA QuietLedger ==
  ASSUME HInv, Ledger, UNCHANGED <<slots, finished, metrics>>,
         SameCounts({"admitted_count", "early_finishes", "kv_oom_evictions"}),
         \A x \in Requests : QuietRecord(request_state[x], request_state'[x])
  PROVE  Ledger'
<1>1. OccupiedSlotCount' = OccupiedSlotCount
  BY DEF OccupiedSlotCount, SlotIndices
<1>2. Finishes' = Finishes /\ FailedInSlot' = FailedInSlot
  BY DEF Finishes, FailedInSlot, InStatus, Status, QuietRecord, Ended
<1>3. AdmissionsAdd'
  BY <1>1, <1>2 DEF Ledger, AdmissionsAdd, SameCounts
<1>4. Untokenized'
  <2>. SUFFICES ASSUME NEW r \in Requests, request_state'[r].status \in {"new", "waiting"}
                PROVE  request_state'[r].prompt_tokens = 0
    BY DEF Untokenized, InStatus, Status
  <2>1. request_state[r].status \in {"new", "waiting"}
    BY DEF QuietRecord
  <2>2. request_state[r].prompt_tokens = 0
    BY <2>1 DEF Ledger, Untokenized, InStatus, Status
  <2>. QED  BY <2>2 DEF QuietRecord
<1>5. MetricsRight'
  <2>1. finished \in Seq(Requests)
    BY DEF HInv, Placed, Typed
  <2>2. ASSUME NEW i \in 1 .. Len(finished)
        PROVE  request_state'[finished[i]].status = request_state[finished[i]].status
    <3>1. finished[i] \in Requests /\ finished[i] \in Range(finished)
      BY <2>1, LenProperties, ElementOfSeq DEF Range
    <3>2. request_state[finished[i]].status \in Ended
      BY <3>1 DEF HInv, Placed, Homes, InStatus, Status
    <3>. QED  BY <3>1, <3>2 DEF QuietRecord
  <2>3. [i \in 1 .. Len(finished) |->
               [request_id |-> finished[i], status |-> request_state[finished[i]].status]]
         = [i \in 1 .. Len(finished) |->
               [request_id |-> finished[i], status |-> request_state'[finished[i]].status]]
    BY <2>2
  <2>. QED  BY <2>3 DEF Ledger, MetricsRight, Status
<1>. QED  BY <1>3, <1>4, <1>5 DEF Ledger

(* A request that ends is recorded with the status it gets.                 *)
LEMMA EndingRecorded ==
  ASSUME HInv, Ledger, NEW r \in Requests, r \notin Range(finished), NEW status \in Ended,
         EndRequest(r, status)
  PROVE  MetricsRight'
<1>1. /\ finished \in Seq(Requests) /\ request_state \in [Requests -> RequestRecords]
      /\ Len(finished) \in Nat
  BY LenProperties DEF HInv, Placed, Typed
<1>2. /\ finished' = Append(finished, r)
      /\ metrics' = Append(metrics, [request_id |-> r, status |-> status])
      /\ request_state'[r].status = status
      /\ \A x \in Requests : x # r => request_state'[x] = request_state[x]
  BY <1>1 DEF EndRequest, RequestRecords
<1>. DEFINE Entry(i) == [request_id |-> finished[i], status |-> Status(finished[i])]
            n == Len(finished)
<1>3. metrics = [i \in 1 .. n |-> Entry(i)]
  BY DEF Ledger, MetricsRight
<1>4. \A i \in 1 .. n : finished[i] \in Requests /\ finished[i] # r
  BY <1>1, ElementOfSeq DEF Range
<1>5. \A i \in 1 .. n : metrics[i] = [request_id |-> finished[i],
                                      status |-> request_state'[finished[i]].status]
  BY <1>2, <1>3, <1>4 DEF Status
<1>6. metrics \in Seq(MetricsRecords) /\ Len(metrics) = n
  <2>1. metrics \in Seq(MetricsRecords)
    BY DEF HInv, Placed, Typed
  <2>2. DOMAIN metrics = 1 .. n
    BY <1>3
  <2>. QED  BY <1>1, <2>1, <2>2, LenProperties
<1>7. [request_id |-> r, status |-> status] \in MetricsRecords
  BY DEF MetricsRecords
<1>8. /\ metrics' \in Seq(MetricsRecords) /\ Len(metrics') = n + 1
      /\ \A i \in 1 .. n : metrics'[i] = metrics[i]
      /\ metrics'[n + 1] = [request_id |-> r, status |-> status]
  BY <1>2, <1>6, <1>7, AppendProperties
<1>9. /\ Len(finished') = n + 1 /\ finished'[n + 1] = r
      /\ \A i \in 1 .. n : finished'[i] = finished[i]
  BY <1>1, <1>2, AppendProperties
<1>10. \A i \in 1 .. n + 1 :
         metrics'[i] = [request_id |-> finished'[i], status |-> request_state'[finished'[i]].status]
  <2>1. ASSUME NEW i \in 1 .. n + 1
        PROVE  metrics'[i] = [request_id |-> finished'[i],
                              status |-> request_state'[finished'[i]].status]
    <3>1. CASE i = n + 1
      BY <1>2, <1>8, <1>9, <3>1
    <3>2. CASE i # n + 1
      <4>1. i \in 1 .. n
        BY <1>1, <3>2
      <4>. QED  BY <1>5, <1>8, <1>9, <4>1
    <3>. QED  BY <3>1, <3>2
  <2>. QED  BY <2>1
<1>11. DOMAIN metrics' = 1 .. n + 1 /\ metrics' = [i \in DOMAIN metrics' |-> metrics'[i]]
  BY <1>1, <1>8, LenProperties
<1>. HIDE DEF n
<1>12. metrics' = [i \in 1 .. Len(finished') |->
              [request_id |-> finished'[i], status |-> request_state'[finished'[i]].status]]
  BY <1>9, <1>10, <1>11
<1>. QED  BY <1>12 DEF MetricsRight, Status

(* What an ending does to the counts of slots and of those who ended.       *)
LEMMA EndingCounts ==
  ASSUME HInv, Ledger, NEW r \in Requests, NEW status \in Ended, EndRequest(r, status),
         r \notin Range(finished)
  PROVE  /\ r \in InSlot => OccupiedSlotCount' = OccupiedSlotCount - 1
         /\ r \notin InSlot => OccupiedSlotCount' = OccupiedSlotCount
         /\ Finishes' = IF status = "finished" THEN Finishes \cup {r} ELSE Finishes
         /\ r \notin Finishes /\ r \notin FailedInSlot
         /\ FailedInSlot' = IF status = "failed" /\ request_state[r].prompt_tokens > 0
                            THEN FailedInSlot \cup {r} ELSE FailedInSlot
<1>1. SlotsTyped /\ OneSlotEach /\ request_state \in [Requests -> RequestRecords]
  BY DEF HInv, IInv, Placed, Typed
<1>2. /\ request_state'[r].status = status
      /\ request_state'[r].prompt_tokens = request_state[r].prompt_tokens
      /\ \A x \in Requests : x # r => request_state'[x] = request_state[x]
  BY <1>1 DEF EndRequest, RequestRecords
<1>3. Status(r) \notin Ended
  BY DEF HInv, Placed, Homes, InStatus
<1>4. /\ Finishes' = IF status = "finished" THEN Finishes \cup {r} ELSE Finishes
      /\ r \notin Finishes /\ r \notin FailedInSlot
      /\ FailedInSlot' = IF status = "failed" /\ request_state[r].prompt_tokens > 0
                         THEN FailedInSlot \cup {r} ELSE FailedInSlot
  BY <1>2, <1>3 DEF Finishes, FailedInSlot, InStatus, Status, Ended
<1>. DEFINE O == {i \in SlotIndices : slots[i] # NoRequest}
            P == {i \in SlotIndices : slots'[i] # NoRequest}
<1>5. OccupiedSlotCount = Cardinality(O) /\ OccupiedSlotCount' = Cardinality(P)
  BY DEF OccupiedSlotCount, SlotIndices
<1>6. /\ slots' \in [SlotIndices -> Requests \cup {NoRequest}]
      /\ \A i \in SlotIndices : slots'[i] = IF slots[i] = r THEN NoRequest ELSE slots[i]
  BY <1>1, SlotEmptied DEF EndRequest
<1>7. IsFiniteSet(O)
  <2>1. IsFiniteSet(SlotIndices)
    BY MaxSlotsAssumption, FS_Interval DEF SlotIndices
  <2>. QED  BY <2>1, FS_Subset
<1>8. ASSUME r \in InSlot  PROVE OccupiedSlotCount' = OccupiedSlotCount - 1
  <2>1. PICK i \in SlotIndices : slots[i] = r
    BY <1>8 DEF InSlot
  <2>2. r # NoRequest
    BY NoRequestAssumption
  <2>3. \A j \in SlotIndices : slots[j] = r => j = i
    BY <1>1, <2>1, <2>2 DEF OneSlotEach
  <2>4. P = O \ {i} /\ i \in O
    BY <1>6, <2>1, <2>2, <2>3
  <2>5. Cardinality(P) = Cardinality(O) - 1
    <3>. HIDE DEF O, P
    <3>. QED  BY <1>7, <2>4, FS_RemoveElement
  <2>. QED  BY <1>5, <2>5
<1>9. ASSUME r \notin InSlot  PROVE OccupiedSlotCount' = OccupiedSlotCount
  <2>1. \A i \in SlotIndices : slots[i] # r
    BY <1>9, NoRequestAssumption DEF InSlot
  <2>2. P = O
    BY <1>6, <2>1
  <2>. QED  BY <1>5, <2>2
<1>. QED  BY <1>4, <1>8, <1>9

(* An ending from a slot is an early finish or a failure of one admitted,   *)
(* one from the waiting list is neither.                                    *)
LEMMA EndingLedger ==
  ASSUME SInv, Ledger, NEW r \in Requests, NEW status \in Ended, EndRequest(r, status),
         stats \in [Counters -> Nat],
         \/ /\ Status(r) = "waiting" /\ status = "failed"
            /\ stats' = stats
         \/ /\ Status(r) \in {"prefill", "decoding"} /\ status = "failed"
            /\ stats' = stats \/ stats' = [stats EXCEPT !.kv_oom_evictions = @ + 1]
         \/ /\ Status(r) \in {"prefill", "decoding"} /\ status = "finished"
            /\ stats' = [stats EXCEPT !.early_finishes = @ + 1]
  PROVE  Ledger'
<1>1. /\ r \notin Range(finished)
      /\ r \in InSlot <=> Status(r) \in {"prefill", "decoding"}
  BY DEF SInv, HInv, Placed, Homes, InStatus, Ended
<1>2. MetricsRight'
  BY <1>1, EndingRecorded DEF SInv
<1>3. /\ r \in InSlot => OccupiedSlotCount' = OccupiedSlotCount - 1
      /\ r \notin InSlot => OccupiedSlotCount' = OccupiedSlotCount
      /\ Finishes' = IF status = "finished" THEN Finishes \cup {r} ELSE Finishes
      /\ r \notin Finishes /\ r \notin FailedInSlot
      /\ FailedInSlot' = IF status = "failed" /\ request_state[r].prompt_tokens > 0
                         THEN FailedInSlot \cup {r} ELSE FailedInSlot
  BY <1>1, EndingCounts DEF SInv
<1>4. /\ IsFiniteSet(Finishes) /\ Cardinality(Finishes) \in Nat
      /\ IsFiniteSet(FailedInSlot) /\ Cardinality(FailedInSlot) \in Nat
      /\ OccupiedSlotCount \in Nat
  BY FinitelyMany DEF SInv
<1>5. /\ Cardinality(Finishes \cup {r}) = Cardinality(Finishes) + 1
      /\ Cardinality(FailedInSlot \cup {r}) = Cardinality(FailedInSlot) + 1
  BY <1>3, <1>4, FS_AddElement
<1>6. /\ stats.admitted_count \in Nat /\ stats.early_finishes \in Nat
      /\ stats.kv_oom_evictions \in Nat
      /\ stats.admitted_count
           = OccupiedSlotCount + stats.early_finishes + Cardinality(FailedInSlot)
      /\ stats.early_finishes = Cardinality(Finishes)
      /\ stats.kv_oom_evictions <= Cardinality(FailedInSlot)
  BY DEF Ledger, AdmissionsAdd, Counters
<1>7. Untokenized'
  <2>. SUFFICES ASSUME NEW x \in Requests, request_state'[x].status \in {"new", "waiting"}
                PROVE  request_state'[x].prompt_tokens = 0
    BY DEF Untokenized, InStatus, Status
  <2>1. request_state \in [Requests -> RequestRecords]
    BY DEF SInv, HInv, Placed, Typed
  <2>2. x # r /\ request_state'[x] = request_state[x]
    BY <2>1 DEF EndRequest, RequestRecords, Ended
  <2>. QED  BY <2>2 DEF Ledger, Untokenized, InStatus, Status
<1>8. AdmissionsAdd'
  <2>1. CASE Status(r) = "waiting"
    <3>1. request_state[r].prompt_tokens = 0
      BY <2>1 DEF Ledger, Untokenized, InStatus
    <3>2. status = "failed" /\ stats' = stats /\ r \notin InSlot
      BY <1>1, <2>1
    <3>3. OccupiedSlotCount' = OccupiedSlotCount /\ FailedInSlot' = FailedInSlot
          /\ Finishes' = Finishes
      BY <1>3, <3>1, <3>2
    <3>. QED  BY <1>6, <3>2, <3>3 DEF AdmissionsAdd
  <2>2. CASE Status(r) \in {"prefill", "decoding"} /\ status = "failed"
    <3>1. request_state[r].prompt_tokens > 0
      <4>1. RecordRight(request_state[r], r \notin Uncounted)
        BY DEF SInv, Counted, RecordsRight
      <4>. QED  BY <2>2, <4>1 DEF RecordRight, Status
    <3>2. OccupiedSlotCount' = OccupiedSlotCount - 1 /\ FailedInSlot' = FailedInSlot \cup {r}
          /\ Finishes' = Finishes
      BY <1>1, <1>3, <2>2, <3>1
    <3>3. /\ stats'.admitted_count = stats.admitted_count
          /\ stats'.early_finishes = stats.early_finishes
          /\ stats'.kv_oom_evictions <= stats.kv_oom_evictions + 1
      <4>1. stats' = stats \/ stats' = [stats EXCEPT !.kv_oom_evictions = @ + 1]
        BY <2>2
      <4>. QED  BY <1>6, <4>1 DEF Counters
    <3>4. stats'.kv_oom_evictions \in Nat
      <4>1. stats' = stats \/ stats' = [stats EXCEPT !.kv_oom_evictions = @ + 1]
        BY <2>2
      <4>. QED  BY <1>6, <4>1 DEF Counters
    <3>. QED  BY <1>4, <1>5, <1>6, <3>2, <3>3, <3>4 DEF AdmissionsAdd
  <2>3. CASE Status(r) \in {"prefill", "decoding"} /\ status = "finished"
    <3>1. OccupiedSlotCount' = OccupiedSlotCount - 1 /\ FailedInSlot' = FailedInSlot
          /\ Finishes' = Finishes \cup {r}
      BY <1>1, <1>3, <2>3
    <3>2. /\ stats'.admitted_count = stats.admitted_count
          /\ stats'.early_finishes = stats.early_finishes + 1
          /\ stats'.kv_oom_evictions = stats.kv_oom_evictions
      BY <2>3 DEF Counters
    <3>. QED  BY <1>4, <1>5, <1>6, <3>1, <3>2 DEF AdmissionsAdd
  <2>. QED  BY <2>1, <2>2, <2>3
<1>. QED  BY <1>2, <1>7, <1>8 DEF Ledger

(* An admission fills a free slot and is counted.                           *)
LEMMA AdmissionLedger ==
  ASSUME SInv, Ledger, stats \in [Counters -> Nat], AdmitOne
  PROVE  Ledger'
<1>. DEFINE r == Candidate
<1>1. r \in Requests /\ Status(r) = "waiting"
  BY CandidateWaits DEF SInv, AdmitOne
<1>2. request_state \in [Requests -> RequestRecords]
  BY DEF SInv, HInv, Placed, Typed
<1>3. /\ request_state'[r].status = "prefill"
      /\ \A x \in Requests : x # r => request_state'[x] = request_state[x]
  <2>1. request_state' = [request_state EXCEPT
                             ![r].status = "prefill",
                             ![r].block_table = block_tables'[r],
                             ![r].prompt_tokens = request_state[r].prompt]
    BY DEF AdmitOne
  <2>. HIDE DEF r
  <2>. QED  BY <1>1, <1>2, <2>1 DEF RequestRecords
<1>4. /\ UNCHANGED <<finished, metrics>>
      /\ stats'.admitted_count = stats.admitted_count + 1
      /\ stats'.early_finishes = stats.early_finishes
      /\ stats'.kv_oom_evictions = stats.kv_oom_evictions
  BY DEF AdmitOne, Counters
<1>. HIDE DEF r
<1>5. Finishes' = Finishes /\ FailedInSlot' = FailedInSlot
  <2>1. \A x \in Requests : (request_state'[x].status \in Ended \/ request_state[x].status \in Ended)
                              => request_state'[x] = request_state[x]
    BY <1>1, <1>3 DEF Status, Ended
  <2>. QED  BY <2>1 DEF Finishes, FailedInSlot, InStatus, Status, Ended
<1>6. OccupiedSlotCount' = OccupiedSlotCount + 1 /\ OccupiedSlotCount \in Nat
  <2>1. PICK i \in FreeSlots : FreeSlots' = FreeSlots \ {i}
    BY AdmissionKeeps DEF SInv, HInv
  <2>. DEFINE O == {j \in SlotIndices : slots[j] # NoRequest}
              P == {j \in SlotIndices : slots'[j] # NoRequest}
  <2>2. OccupiedSlotCount = Cardinality(O) /\ OccupiedSlotCount' = Cardinality(P)
    BY DEF OccupiedSlotCount, SlotIndices
  <2>3. FreeSlots = SlotIndices \ O /\ FreeSlots' = SlotIndices \ P
    BY DEF FreeSlots, SlotIndices
  <2>4. i \in SlotIndices
    BY DEF FreeSlots
  <2>5. P = O \cup {i} /\ i \notin O
    BY <2>1, <2>3, <2>4
  <2>6. IsFiniteSet(O)
    <3>1. IsFiniteSet(SlotIndices)
      BY MaxSlotsAssumption, FS_Interval DEF SlotIndices
    <3>. QED  BY <3>1, FS_Subset
  <2>. HIDE DEF O, P
  <2>7. Cardinality(P) = Cardinality(O) + 1 /\ Cardinality(O) \in Nat
    BY <2>5, <2>6, FS_AddElement, FS_CardinalityType
  <2>. QED  BY <2>2, <2>7
<1>7. AdmissionsAdd'
  BY <1>4, <1>5, <1>6, FinitelyMany DEF Ledger, AdmissionsAdd, SInv, Counters
<1>8. Untokenized'
  BY <1>1, <1>3 DEF Ledger, Untokenized, InStatus, Status
<1>9. MetricsRight'
  <2>1. finished \in Seq(Requests) /\ metrics' = metrics /\ finished' = finished
    BY <1>4 DEF SInv, HInv, Placed, Typed
  <2>2. ASSUME NEW i \in 1 .. Len(finished)
        PROVE  request_state'[finished[i]].status = request_state[finished[i]].status
    <3>1. finished[i] \in Requests /\ finished[i] \in Range(finished)
      BY <2>1, LenProperties, ElementOfSeq DEF Range
    <3>2. request_state[finished[i]].status \in Ended
      BY <3>1 DEF SInv, HInv, Placed, Homes, InStatus, Status
    <3>. QED  BY <1>1, <1>3, <3>1, <3>2 DEF Status, Ended
  <2>3. [i \in 1 .. Len(finished) |->
               [request_id |-> finished[i], status |-> request_state[finished[i]].status]]
         = [i \in 1 .. Len(finished) |->
               [request_id |-> finished[i], status |-> request_state'[finished[i]].status]]
    BY <2>2
  <2>. QED  BY <2>1, <2>3 DEF Ledger, MetricsRight, Status
<1>. QED  BY <1>7, <1>8, <1>9 DEF Ledger

(* Steps that count no token, admit nobody and end nobody.                  *)
LEMMA QuietStepsRecords ==
  ASSUME SInv, Ledger, stats \in [Counters -> Nat],
         \/ BeginStep \/ DrainOne \/ DrainEmpty
         \/ AdmitPass \/ DeferOne \/ AdmitPassDone
         \/ PlanPrefill \/ PrefillChunk \/ BeginDecode
         \/ \E r \in Requests : EnsureRunnable(r) \/ EnsureStalled(r)
         \/ ChooseBatch \/ ApplyOutput \/ AllApplied \/ AllFailed
         \/ \E r \in Requests : Submit(r)
  PROVE  /\ \A x \in Requests :
              /\ QuietRecord(request_state[x], request_state'[x])
              /\ request_state'[x].generated_tokens = request_state[x].generated_tokens
         /\ UNCHANGED <<slots, finished, metrics>>
         /\ SameCounts({"admitted_count", "early_finishes", "kv_oom_evictions"})
<1>. DEFINE Quiet(x) == /\ QuietRecord(request_state[x], request_state'[x])
                        /\ request_state'[x].generated_tokens
                             = request_state[x].generated_tokens
<1>1. request_state \in [Requests -> RequestRecords]
  BY DEF SInv, HInv, Placed, Typed
<1>2. ASSUME NEW x \in Requests, request_state'[x] = request_state[x]  PROVE Quiet(x)
  BY <1>2 DEF QuietRecord
<1>3. ASSUME UNCHANGED stats
      PROVE  SameCounts({"admitted_count", "early_finishes", "kv_oom_evictions"})
  BY <1>3 DEF SameCounts
<1>4. ASSUME NEW r \in Requests, Quiet(r),
             \A x \in Requests : x # r => request_state'[x] = request_state[x]
      PROVE  \A x \in Requests : Quiet(x)
  BY <1>2, <1>4
<1>. HIDE DEF Quiet
<1>5. CASE BeginStep \/ DrainEmpty \/ AdmitPass \/ AdmitPassDone \/ PlanPrefill \/ BeginDecode
           \/ AllApplied \/ AllFailed
  <2>1. UNCHANGED <<request_state, slots, finished, metrics, stats>>
    BY <1>5 DEF BeginStep, DrainEmpty, AdmitPass, AdmitPassDone, PlanPrefill, BeginDecode,
       AllApplied, AllFailed
  <2>. QED  BY <1>2, <1>3, <2>1 DEF Quiet
<1>6. CASE DrainOne \/ DeferOne
  <2>1. PICK r \in Requests : /\ Status(r) = "waiting"
                              /\ request_state' = [request_state EXCEPT ![r].status = "waiting"]
    <3>1. CASE DrainOne
      <4>1. request_queue \in Seq(Requests) /\ request_queue # << >>
        BY <3>1 DEF DrainOne, SInv, HInv, IInv, ListsTyped
      <4>2. Head(request_queue) \in Range(request_queue)
        BY <4>1, TailOfDistinct DEF SInv, HInv, Placed, Homes
      <4>3. Head(request_queue) \in Requests /\ Status(Head(request_queue)) = "waiting"
        BY <4>2 DEF SInv, HInv, Placed, Homes, InStatus
      <4>. QED  BY <3>1, <4>3 DEF DrainOne
    <3>2. CASE DeferOne
      <4>1. Candidate \in Requests /\ Status(Candidate) = "waiting"
        BY <3>2, CandidateWaits DEF DeferOne, SInv
      <4>. QED  BY <3>2, <4>1 DEF DeferOne
    <3>. QED  BY <1>6, <3>1, <3>2
  <2>2. Quiet(r) /\ \A x \in Requests : x # r => request_state'[x] = request_state[x]
    BY <1>1, <2>1 DEF Quiet, QuietRecord, Status, RequestRecords
  <2>3. UNCHANGED <<slots, finished, metrics, stats>>
    BY <1>6 DEF DrainOne, DeferOne
  <2>. QED  BY <1>3, <1>4, <2>2, <2>3 DEF Quiet
<1>7. CASE PrefillChunk
  <2>. DEFINE r == Head(local.work_plan).request_state
              end == ChunkEnd(r, Head(local.work_plan).num_scheduled_tokens)
  <2>1. r \in Requests /\ Status(r) = "prefill"
    BY <1>7, ChunkIsPrefilling DEF PrefillChunk, SInv
  <2>2. request_state[r].generated_tokens = 0
    <3>1. RecordRight(request_state[r], r \notin Uncounted)
      BY <2>1 DEF SInv, Counted, RecordsRight
    <3>. QED  BY <2>1, <3>1 DEF RecordRight, Status
  <2>3. /\ request_state' = [request_state EXCEPT
                             ![r].num_computed_tokens = end,
                             ![r].generated_tokens = 0,
                             ![r].status = IF end = request_state[r].prompt_tokens
                                           THEN "decoding" ELSE @]
        /\ UNCHANGED <<slots, finished, metrics, stats>>
    BY <1>7 DEF PrefillChunk
  <2>. HIDE DEF r, end
  <2>4. Quiet(r) /\ \A x \in Requests : x # r => request_state'[x] = request_state[x]
    BY <1>1, <2>1, <2>2, <2>3 DEF Quiet, QuietRecord, Status, RequestRecords, Ended
  <2>. QED  BY <1>3, <1>4, <2>1, <2>3, <2>4 DEF Quiet
<1>8. CASE \E r \in Requests : EnsureRunnable(r) \/ EnsureStalled(r)
  <2>1. PICK r \in Requests : EnsureRunnable(r) \/ EnsureStalled(r)
    BY <1>8
  <2>2. CASE EnsureStalled(r)
    <3>1. /\ UNCHANGED <<request_state, slots, finished, metrics>>
          /\ stats' = [stats EXCEPT !.decode_stalls = @ + 1, !.kv_allocation_failures = @ + 1]
      BY <2>2 DEF EnsureStalled
    <3>2. SameCounts({"admitted_count", "early_finishes", "kv_oom_evictions"})
      BY <3>1 DEF SameCounts, Counters
    <3>. QED  BY <1>2, <3>1, <3>2 DEF Quiet
  <2>3. CASE EnsureRunnable(r)
    <3>. DEFINE table == block_tables'[r]
    <3>1. /\ request_state' = [request_state EXCEPT ![r].block_table = table]
          /\ UNCHANGED <<slots, finished, metrics, stats>>
      BY <2>3 DEF EnsureRunnable
    <3>. HIDE DEF table
    <3>2. Quiet(r) /\ \A x \in Requests : x # r => request_state'[x] = request_state[x]
      BY <1>1, <3>1 DEF Quiet, QuietRecord, RequestRecords
    <3>. QED  BY <1>3, <1>4, <3>1, <3>2 DEF Quiet
  <2>. QED  BY <2>1, <2>2, <2>3
<1>9. CASE ChooseBatch
  <2>1. /\ UNCHANGED <<request_state, slots, finished, metrics>>
        /\ \/ stats' = stats
           \/ stats' = [stats EXCEPT !.decode_stalls = @ + 1]
    BY <1>9 DEF ChooseBatch
  <2>2. SameCounts({"admitted_count", "early_finishes", "kv_oom_evictions"})
    BY <2>1 DEF SameCounts, Counters
  <2>. QED  BY <1>2, <2>1, <2>2 DEF Quiet
<1>10. CASE ApplyOutput
  <2>. DEFINE output == Head(local.outputs)
              r == output.request_id
  <2>1. phase = "apply" /\ local.outputs # << >>
    BY <1>10 DEF ApplyOutput
  <2>2. r \in Requests
    BY <2>1, OutputsRest DEF SInv
  <2>3. /\ request_state' = [request_state EXCEPT ![r] = WithOutput(@, output)]
        /\ UNCHANGED <<slots, finished, metrics>>
        /\ stats' = [stats EXCEPT !.tokens_generated = @ + 1]
    BY <1>10 DEF ApplyOutput
  <2>. HIDE DEF output, r
  <2>4. Quiet(r) /\ \A x \in Requests : x # r => request_state'[x] = request_state[x]
    BY <1>1, <2>2, <2>3 DEF Quiet, QuietRecord, RequestRecords, WithOutput
  <2>5. SameCounts({"admitted_count", "early_finishes", "kv_oom_evictions"})
    BY <2>3 DEF SameCounts, Counters
  <2>. QED  BY <1>4, <2>2, <2>3, <2>4, <2>5 DEF Quiet
<1>11. CASE \E r \in Requests : Submit(r)
  <2>1. PICK r \in Requests : Submit(r)
    BY <1>11
  <2>2. PICK shape \in Shapes :
          request_state' = [request_state EXCEPT ![r] =
                              NewRequestState(shape.prompt, shape.max_new_tokens)]
    BY <2>1 DEF Submit
  <2>3. /\ request_state'[r] = NewRequestState(shape.prompt, shape.max_new_tokens)
        /\ \A x \in Requests : x # r => request_state'[x] = request_state[x]
    BY <1>1, <2>2
  <2>4. request_state[r].status = "new" /\ request_state[r].prompt_tokens = 0
    BY <2>1 DEF Submit, Status, Ledger, Untokenized, InStatus
  <2>5. request_state[r].generated_tokens = 0
    <3>1. RecordRight(request_state[r], r \notin Uncounted)
      BY DEF SInv, Counted, RecordsRight
    <3>. QED  BY <2>4, <3>1 DEF RecordRight
  <2>6. Quiet(r)
    BY <2>3, <2>4, <2>5 DEF Quiet, QuietRecord, NewRequestState, Ended
  <2>7. UNCHANGED <<slots, finished, metrics, stats>>
    BY <2>1 DEF Submit
  <2>. QED  BY <1>3, <1>4, <2>3, <2>6, <2>7 DEF Quiet
<1>. QED  BY <1>5, <1>6, <1>7, <1>8, <1>9, <1>10, <1>11

(* Counting tokens changes nothing else in a record.                        *)
LEMMA DecodeRecords ==
  ASSUME HInv, RunDecodeBatch \/ FailDecodeBatch
  PROVE  /\ \A x \in Requests :
              /\ QuietRecord(request_state[x], request_state'[x])
              /\ request_state'[x].status = request_state[x].status
              /\ request_state'[x].generated_tokens \in Nat
              /\ request_state[x].generated_tokens <= request_state'[x].generated_tokens
         /\ RunDecodeBatch => \A x \in Requests : request_state'[x].generated_tokens
              = IF x \in Range(local.decode_batch) THEN request_state[x].generated_tokens + 1
                ELSE request_state[x].generated_tokens
         /\ UNCHANGED <<slots, finished, metrics, stats>>
<1>. DEFINE More(q) == [q EXCEPT !.generated_tokens = @ + 1]
<1>1. request_state \in [Requests -> RequestRecords]
  BY DEF HInv, Placed, Typed
<1>2. ASSUME NEW x \in Requests
      PROVE  /\ request_state[x].generated_tokens \in Nat
             /\ More(request_state[x]).generated_tokens = request_state[x].generated_tokens + 1
             /\ More(request_state[x]).prompt_tokens = request_state[x].prompt_tokens
             /\ More(request_state[x]).status = request_state[x].status
  BY <1>1 DEF RequestRecords
<1>3. ASSUME NEW x \in Requests,
             \/ request_state'[x] = request_state[x]
             \/ request_state'[x] = More(request_state[x])
      PROVE  /\ QuietRecord(request_state[x], request_state'[x])
             /\ request_state'[x].status = request_state[x].status
             /\ request_state'[x].generated_tokens \in Nat
             /\ request_state[x].generated_tokens <= request_state'[x].generated_tokens
  <2>1. CASE request_state'[x] = request_state[x]
    BY <1>2, <2>1 DEF QuietRecord
  <2>2. CASE request_state'[x] = More(request_state[x])
    <3>. HIDE DEF More
    <3>. QED  BY <1>2, <2>2 DEF QuietRecord
  <2>. QED  BY <1>3, <2>1, <2>2
<1>4. CASE RunDecodeBatch
  <2>1. /\ request_state' = [r \in Requests |->
                             IF r \in Range(local.decode_batch)
                             THEN More(request_state[r]) ELSE request_state[r]]
        /\ UNCHANGED <<slots, finished, metrics, stats>>
    BY <1>4 DEF RunDecodeBatch
  <2>. HIDE DEF More
  <2>2. \A x \in Requests : request_state'[x] = IF x \in Range(local.decode_batch)
                             THEN More(request_state[x]) ELSE request_state[x]
    BY <2>1
  <2>. QED  BY <1>2, <1>3, <2>1, <2>2
<1>5. CASE FailDecodeBatch /\ ~ RunDecodeBatch
  <2>1. PICK k \in 0 .. Len(local.decode_batch) :
          request_state' = [r \in Requests |->
                             IF \E i \in 1 .. k : local.decode_batch[i] = r
                             THEN More(request_state[r]) ELSE request_state[r]]
    BY <1>5 DEF FailDecodeBatch
  <2>. HIDE DEF More
  <2>2. \A x \in Requests : \/ request_state'[x] = request_state[x]
                            \/ request_state'[x] = More(request_state[x])
    BY <2>1
  <2>3. UNCHANGED <<slots, finished, metrics, stats>>
    BY <1>5 DEF FailDecodeBatch
  <2>. QED  BY <1>3, <1>5, <2>2, <2>3
<1>. QED  BY <1>4, <1>5

(* Steps that end a request say which and how, and what they count.         *)
LEMMA EndingSteps ==
  ASSUME SInv, stats \in [Counters -> Nat],
         \/ FailAdmission \/ FailPrefill \/ EvictOneStalledRequest
         \/ FinishRequest \/ FailOneOfBatch
  PROVE  \E r \in Requests, status \in Ended :
           /\ EndRequest(r, status)
           /\ \/ /\ Status(r) = "waiting" /\ status = "failed"
                 /\ stats' = stats
              \/ /\ Status(r) \in {"prefill", "decoding"} /\ status = "failed"
                 /\ stats' = stats \/ stats' = [stats EXCEPT !.kv_oom_evictions = @ + 1]
              \/ /\ Status(r) \in {"prefill", "decoding"} /\ status = "finished"
                 /\ stats' = [stats EXCEPT !.early_finishes = @ + 1]
<1>0. "failed" \in Ended /\ "finished" \in Ended
  BY DEF Ended
<1>1. CASE FailAdmission
  <2>1. Candidate \in Requests /\ Status(Candidate) = "waiting"
    BY <1>1, CandidateWaits DEF FailAdmission, SInv
  <2>2. EndRequest(Candidate, "failed") /\ stats' = stats
    BY <1>1 DEF FailAdmission
  <2>. QED  BY <1>0, <2>1, <2>2
<1>2. CASE FailPrefill
  <2>. DEFINE r == Head(local.work_plan).request_state
  <2>1. r \in Requests /\ Status(r) = "prefill"
    BY <1>2, ChunkIsPrefilling DEF FailPrefill, SInv
  <2>2. EndRequest(r, "failed") /\ stats' = stats
    BY <1>2 DEF FailPrefill
  <2>. HIDE DEF r
  <2>. QED  BY <1>0, <2>1, <2>2
<1>3. CASE EvictOneStalledRequest
  <2>. DEFINE r == Last(local.stalled)
  <2>1. /\ local.stalled \in Seq(Requests) /\ local.stalled # << >>
        /\ Range(local.stalled) \subseteq InStatus({"decoding"})
    BY <1>3 DEF EvictOneStalledRequest, AllChecked, SInv, HInv, Placed, Typed, Locals,
       Loops, CheckedAreDecoding, Distinct
  <2>2. /\ Len(local.stalled) \in Nat /\ Len(local.stalled) # 0
        /\ DOMAIN local.stalled = 1 .. Len(local.stalled)
    BY <2>1, LenProperties, EmptySeq
  <2>3. r \in Range(local.stalled)
    BY <2>2 DEF Last, Range
  <2>4. EndRequest(r, "failed") /\ stats' = [stats EXCEPT !.kv_oom_evictions = @ + 1]
    BY <1>3 DEF EvictOneStalledRequest
  <2>. HIDE DEF r
  <2>5. r \in Requests /\ Status(r) = "decoding"
    BY <2>1, <2>3 DEF InStatus
  <2>. QED  BY <1>0, <2>4, <2>5
<1>4. CASE FinishRequest
  <2>. DEFINE r == Head(local.outputs).request_id
  <2>1. phase = "finish" /\ local.outputs # << >>
    BY <1>4 DEF FinishRequest, SInv, HInv, Placed, Loops, OutputsAreDecoding
  <2>2. r \in Requests /\ Status(r) = "decoding"
    BY <2>1, OutputsRest DEF SInv, Status
  <2>3. EndRequest(r, "finished") /\ stats' = [stats EXCEPT !.early_finishes = @ + 1]
    BY <1>4 DEF FinishRequest
  <2>. HIDE DEF r
  <2>. QED  BY <1>0, <2>2, <2>3
<1>5. CASE FailOneOfBatch
  <2>. DEFINE r == Head(local.decode_batch)
  <2>1. /\ local.decode_batch \in Seq(Requests) /\ local.decode_batch # << >>
        /\ Range(local.decode_batch) \subseteq InStatus({"decoding"})
    BY <1>5 DEF FailOneOfBatch, SInv, HInv, Placed, Typed, Locals, Loops, BatchIsDecoding,
       Distinct
  <2>2. r \in Range(local.decode_batch)
    BY <2>1, TailOfDistinct
  <2>3. EndRequest(r, "failed") /\ stats' = stats
    BY <1>5 DEF FailOneOfBatch
  <2>. HIDE DEF r
  <2>4. r \in Requests /\ Status(r) = "decoding"
    BY <2>1, <2>2 DEF InStatus
  <2>. QED  BY <1>0, <2>3, <2>4
<1>. QED  BY <1>1, <1>2, <1>3, <1>4, <1>5

(* Every step keeps the ledger.                                             *)
LEMMA LedgerKept ==
  ASSUME SInv, Ledger, Next
  PROVE  Ledger'
<1>1. stats \in [Counters -> Nat]
  BY DEF SInv, HInv, Placed, Typed
<1>2. CASE \/ FailAdmission \/ FailPrefill \/ EvictOneStalledRequest
           \/ FinishRequest \/ FailOneOfBatch
  BY <1>1, <1>2, EndingSteps, EndingLedger
<1>3. CASE AdmitOne
  BY <1>1, <1>3, AdmissionLedger
<1>4. CASE RunDecodeBatch \/ FailDecodeBatch
  <2>1. SameCounts({"admitted_count", "early_finishes", "kv_oom_evictions"})
    BY <1>4, DecodeRecords DEF SInv, SameCounts
  <2>. QED  BY <1>4, <2>1, DecodeRecords, QuietLedger DEF SInv
<1>5. CASE \/ BeginStep \/ DrainOne \/ DrainEmpty
           \/ AdmitPass \/ DeferOne \/ AdmitPassDone
           \/ PlanPrefill \/ PrefillChunk \/ BeginDecode
           \/ \E r \in Requests : EnsureRunnable(r) \/ EnsureStalled(r)
           \/ ChooseBatch \/ ApplyOutput \/ AllApplied \/ AllFailed
           \/ \E r \in Requests : Submit(r)
  BY <1>1, <1>5, QuietStepsRecords, QuietLedger DEF SInv
<1>. QED  BY <1>2, <1>3, <1>4, <1>5 DEF Next, Step, EngineStep, StepWithoutEngine

-----------------------------------------------------------------------------
(* Stalls, allocation failures and evictions *)

(* Of the steps only three count stalls or evictions.                       *)
LEMMA StallsKept ==
  ASSUME HInv, StallsAdd, Next
  PROVE  StallsAdd'
<1>. DEFINE Counts == {"decode_stalls", "kv_allocation_failures", "kv_oom_evictions"}
<1>1. /\ stats \in [Counters -> Nat] /\ local \in Locals
      /\ local.stalled \in Seq(Requests) /\ Len(local.stalled) \in Nat
  BY LenProperties DEF HInv, Placed, Typed, Locals
<1>2. /\ stats.decode_stalls \in Nat /\ stats.kv_allocation_failures \in Nat
      /\ stats.kv_oom_evictions \in Nat
  BY <1>1 DEF Counters
<1>3. Idle.stalled = << >> /\ Len(<< >>) = 0
  BY DEF Idle
<1>4. ASSUME SameCounts(Counts), local'.stalled = local.stalled \/ local'.stalled = << >>
      PROVE  StallsAdd'
  BY <1>1, <1>2, <1>3, <1>4 DEF StallsAdd, SameCounts
<1>5. CASE \/ BeginStep \/ DrainOne \/ DrainEmpty
           \/ AdmitPass \/ DeferOne \/ AdmitPassDone \/ FailAdmission
           \/ PlanPrefill \/ PrefillChunk \/ FailPrefill \/ BeginDecode
           \/ AllApplied \/ AllFailed \/ RunDecodeBatch \/ FailDecodeBatch \/ FailOneOfBatch
           \/ \E r \in Requests : EnsureRunnable(r) \/ Submit(r)
  <2>1. UNCHANGED stats
    BY <1>5 DEF BeginStep, DrainOne, DrainEmpty, AdmitPass, DeferOne, AdmitPassDone,
       FailAdmission, PlanPrefill, PrefillChunk, FailPrefill, BeginDecode, AllApplied, AllFailed,
       RunDecodeBatch, FailDecodeBatch, FailOneOfBatch, EnsureRunnable, Submit
  <2>2. \/ local' = local \/ local' = Idle
        \/ \E value : \/ local' = [local EXCEPT !.selected = value]
                      \/ local' = [local EXCEPT !.work_plan = value]
                      \/ local' = [local EXCEPT !.unchecked = value]
                      \/ local' = [local EXCEPT !.decode_batch = value]
                      \/ local' = [local EXCEPT !.outputs = value]
        \/ \E value, other : local' = [local EXCEPT !.selected = value, !.admitted_any = other]
        \/ \E value, other : local' = [local EXCEPT !.unchecked = value, !.runnable = other]
    BY <1>5 DEF BeginStep, DrainOne, DrainEmpty, AdmitPass, DeferOne, AdmitPassDone,
       FailAdmission, PlanPrefill, PrefillChunk, FailPrefill, BeginDecode, AllApplied, AllFailed,
       RunDecodeBatch, FailDecodeBatch, FailOneOfBatch, EnsureRunnable, Submit, EndStep, Goto
  <2>3. local'.stalled = local.stalled \/ local'.stalled = << >>
    BY <1>1, <1>3, <2>2 DEF Locals
  <2>4. SameCounts(Counts)
    BY <2>1 DEF SameCounts
  <2>. QED  BY <1>4, <2>3, <2>4
<1>6. CASE AdmitOne \/ ApplyOutput \/ FinishRequest
  <2>1. SameCounts(Counts)
    BY <1>1, <1>6 DEF AdmitOne, ApplyOutput, FinishRequest, SameCounts, Counters
  <2>2. local'.stalled = local.stalled
    BY <1>1, <1>6 DEF AdmitOne, ApplyOutput, FinishRequest, Goto, Locals
  <2>. QED  BY <1>4, <2>1, <2>2
<1>7. CASE \E r \in Requests : EnsureStalled(r)
  <2>1. PICK r \in Requests : EnsureStalled(r)
    BY <1>7
  <2>2. /\ local'.stalled = Append(local.stalled, r)
        /\ stats' = [stats EXCEPT !.decode_stalls = @ + 1, !.kv_allocation_failures = @ + 1]
    BY <1>1, <2>1 DEF EnsureStalled, Locals
  <2>3. Len(local'.stalled) = Len(local.stalled) + 1
    BY <1>1, <2>2, AppendProperties
  <2>4. /\ stats'.decode_stalls = stats.decode_stalls + 1
        /\ stats'.kv_allocation_failures = stats.kv_allocation_failures + 1
        /\ stats'.kv_oom_evictions = stats.kv_oom_evictions
    BY <1>1, <2>2 DEF Counters
  <2>. QED  BY <1>1, <1>2, <2>3, <2>4 DEF StallsAdd
<1>8. CASE EvictOneStalledRequest
  <2>1. local.stalled # << >>
    BY <1>8 DEF EvictOneStalledRequest, AllChecked, HInv, Placed, Loops, CheckedAreDecoding
  <2>2. Len(local.stalled) >= 1
    BY <1>1, <2>1, EmptySeq
  <2>3. /\ local'.stalled = << >>
        /\ stats' = [stats EXCEPT !.kv_oom_evictions = @ + 1]
    BY <1>3, <1>8 DEF EvictOneStalledRequest, EndStep
  <2>4. /\ stats'.decode_stalls = stats.decode_stalls
        /\ stats'.kv_allocation_failures = stats.kv_allocation_failures
        /\ stats'.kv_oom_evictions = stats.kv_oom_evictions + 1
    BY <1>1, <2>3 DEF Counters
  <2>. QED  BY <1>1, <1>2, <1>3, <2>2, <2>3, <2>4 DEF StallsAdd
<1>9. CASE ChooseBatch
  <2>1. /\ local' = Idle \/ local' = [local EXCEPT !.decode_batch = SelectDecodeBatch(local.runnable)]
        /\ stats' = stats \/ stats' = [stats EXCEPT !.decode_stalls = @ + 1]
    BY <1>9 DEF ChooseBatch, EndStep
  <2>2. local'.stalled = local.stalled \/ local'.stalled = << >>
    BY <1>1, <1>3, <2>1 DEF Locals
  <2>3. /\ stats'.decode_stalls >= stats.decode_stalls /\ stats'.decode_stalls \in Nat
        /\ stats'.kv_allocation_failures = stats.kv_allocation_failures
        /\ stats'.kv_oom_evictions = stats.kv_oom_evictions
    BY <1>1, <1>2, <2>1 DEF Counters
  <2>. QED  BY <1>1, <1>2, <1>3, <2>2, <2>3 DEF StallsAdd
<1>. QED  BY <1>5, <1>6, <1>7, <1>8, <1>9 DEF Next, Step, EngineStep, StepWithoutEngine

-----------------------------------------------------------------------------
(* The tokens *)

Tokens == [r \in Requests |-> request_state[r].generated_tokens]

FinitelySubmitted == IsFiniteSet(Submitted)

LEMMA SubmittedFinite ==
  ASSUME HInv
  PROVE  FinitelySubmitted /\ IsFiniteSet(Submitted) /\ Tokens \in [Requests -> Nat]
<1>1. Tokens \in [Requests -> Nat]
  <2>1. \A r \in Requests : request_state[r].generated_tokens \in Nat
    BY DEF HInv, IInv, CountsTyped
  <2>. QED  BY <2>1 DEF Tokens
<1>. QED  BY <1>1, FinitelyMany DEF FinitelySubmitted

(* Requests that were just sent have no tokens.                             *)
LEMMA TokensStay ==
  ASSUME SInv, FinitelySubmitted',
         \A x \in Requests :
           /\ request_state'[x].generated_tokens = request_state[x].generated_tokens
           /\ request_state'[x].status = "new" => request_state[x].status = "new"
  PROVE  TokensCounted' = TokensCounted
<1>1. /\ IsFiniteSet(Submitted') /\ Submitted' \in SUBSET Requests
      /\ Tokens \in [Requests -> Nat]
  BY SubmittedFinite DEF SInv, FinitelySubmitted, Submitted
<1>2. Submitted \in SUBSET Submitted'
  BY DEF Submitted, Status
<1>3. \A x \in Submitted' \ Submitted : Tokens[x] = 0
  <2>. SUFFICES ASSUME NEW x \in Submitted' \ Submitted  PROVE Tokens[x] = 0
    OBVIOUS
  <2>1. x \in Requests /\ request_state[x].status = "new"
    BY DEF Submitted, Status
  <2>2. RecordRight(request_state[x], x \notin Uncounted)
    BY <2>1 DEF SInv, Counted, RecordsRight
  <2>. QED  BY <2>1, <2>2 DEF RecordRight, Tokens
<1>4. PICK later \in SUBSET Requests : later = Submitted'
  BY <1>1
<1>5. SumFunctionOnSet(Tokens, later) = SumFunctionOnSet(Tokens, Submitted)
  BY <1>1, <1>2, <1>3, <1>4, SumOfSome
<1>6. Tokens' = Tokens
  BY DEF Tokens
<1>. QED  BY <1>4, <1>5, <1>6 DEF TokensCounted, Tokens

(* A decoded batch has one token more for each of its requests.             *)
LEMMA TokensOfBatch ==
  ASSUME HInv, RunDecodeBatch
  PROVE  TokensCounted' = TokensCounted + Len(local.decode_batch)
<1>. DEFINE batch == local.decode_batch
            B     == Range(batch)
<1>1. /\ batch \in Seq(Requests) /\ IsInjective(batch)
      /\ B \subseteq InStatus({"decoding"})
  BY DEF RunDecodeBatch, HInv, Placed, Typed, Locals, Loops, BatchIsDecoding, Distinct
<1>2. Cardinality(B) = Len(batch)
  BY <1>1, CountingMembers
<1>3. Submitted \cap B = B
  BY <1>1 DEF InStatus, Submitted
<1>4. Submitted' = Submitted
  BY DecodeRecords DEF Submitted, Status
<1>5. /\ IsFiniteSet(Submitted) /\ Submitted \in SUBSET Requests
      /\ Tokens \in [Requests -> Nat]
  BY SubmittedFinite DEF Submitted
<1>6. PICK later \in [Requests -> Nat] : later = Tokens'
  <2>1. \A x \in Requests : request_state'[x].generated_tokens \in Nat
    BY DecodeRecords
  <2>2. Tokens' \in [Requests -> Nat]
    BY <2>1 DEF Tokens
  <2>. QED  BY <2>2
<1>7. \A x \in Submitted : later[x] = IF x \in B THEN Tokens[x] + 1 ELSE Tokens[x]
  <2>1. \A x \in Requests : later[x] = request_state'[x].generated_tokens
    BY <1>6 DEF Tokens
  <2>2. \A x \in Requests : Tokens[x] = request_state[x].generated_tokens
    BY DEF Tokens
  <2>. QED  BY <1>5, <2>1, <2>2, DecodeRecords
<1>. HIDE DEF B
<1>8. SumFunctionOnSet(later, Submitted)
        = SumFunctionOnSet(Tokens, Submitted) + Cardinality(Submitted \cap B)
  <2>1. PICK before \in [Requests -> Nat] : before = Tokens
    BY <1>5
  <2>2. \A x \in Submitted : later[x] = IF x \in B THEN before[x] + 1 ELSE before[x]
    BY <1>7, <2>1
  <2>3. SumFunctionOnSet(later, Submitted)
          = SumFunctionOnSet(before, Submitted) + Cardinality(Submitted \cap B)
    <3>1. PICK U \in SUBSET Requests : U = Submitted /\ IsFiniteSet(U)
      BY <1>5
    <3>2. \A x \in U : later[x] = IF x \in B THEN before[x] + 1 ELSE before[x]
      BY <2>2, <3>1
    <3>3. SumFunctionOnSet(later, U) = SumFunctionOnSet(before, U) + Cardinality(U \cap B)
      <4>1. PICK C : C = B
        OBVIOUS
      <4>2. \A x \in U : later[x] = IF x \in C THEN before[x] + 1 ELSE before[x]
        BY <3>2, <4>1
      <4>3. IsFiniteSet(U)
        BY <3>1
      <4>4. SumFunctionOnSet(later, U) = SumFunctionOnSet(before, U) + Cardinality(U \cap C)
        BY <4>2, <4>3, SumOfOneMore
      <4>. QED  BY <4>1, <4>4
    <3>. QED  BY <3>1, <3>3
  <2>. QED  BY <2>1, <2>3
<1>. QED  BY <1>2, <1>3, <1>4, <1>6, <1>8 DEF TokensCounted, Tokens

(* One whose decode raised may have counted some.                           *)
LEMMA TokensOfFailedBatch ==
  ASSUME HInv, FailDecodeBatch
  PROVE  TokensCounted <= TokensCounted' /\ TokensCounted' \in Nat
<1>1. Submitted' = Submitted
  BY DecodeRecords DEF Submitted, Status
<1>2. /\ IsFiniteSet(Submitted) /\ Submitted \in SUBSET Requests
      /\ Tokens \in [Requests -> Nat]
  BY SubmittedFinite DEF Submitted
<1>3. PICK later \in [Requests -> Nat] : later = Tokens'
  <2>1. \A x \in Requests : request_state'[x].generated_tokens \in Nat
    BY DecodeRecords
  <2>2. Tokens' \in [Requests -> Nat]
    BY <2>1 DEF Tokens
  <2>. QED  BY <2>2
<1>4. \A x \in Submitted : Tokens[x] <= later[x]
  <2>1. \A x \in Requests : later[x] = request_state'[x].generated_tokens
    BY <1>3 DEF Tokens
  <2>2. \A x \in Requests : Tokens[x] = request_state[x].generated_tokens
    BY DEF Tokens
  <2>. QED  BY <1>2, <2>1, <2>2, DecodeRecords
<1>5. SumFunctionOnSet(Tokens, Submitted) <= SumFunctionOnSet(later, Submitted)
  BY <1>2, <1>4, SumOfMore
<1>6. SumFunctionOnSet(later, Submitted) \in Nat
  BY <1>2, SumProperties
<1>. QED  BY <1>1, <1>3, <1>5, <1>6 DEF TokensCounted, Tokens

(* Applying an output counts its token; no other step counts any, or drops  *)
(* an output.                                                               *)
LEMMA DueSettled ==
  ASSUME HInv, Next, ~ RunDecodeBatch
  PROVE  /\ stats.tokens_generated + Due = stats'.tokens_generated + Due'
         /\ stats'.tokens_generated \in Nat /\ Due' \in Int
<1>1. /\ stats \in [Counters -> Nat] /\ local \in Locals
      /\ local.outputs \in Seq(Outputs) /\ Len(local.outputs) \in Nat
      /\ stats.tokens_generated \in Nat
  <2>1. stats \in [Counters -> Nat] /\ local \in Locals
    BY DEF HInv, Placed, Typed
  <2>. QED  BY <2>1, LenProperties DEF Locals, Counters
<1>2. ASSUME stats'.tokens_generated = stats.tokens_generated,
             phase \notin {"apply", "finish"}, phase' \notin {"apply", "finish"}
      PROVE  /\ stats.tokens_generated + Due = stats'.tokens_generated + Due'
             /\ stats'.tokens_generated \in Nat /\ Due' \in Int
  BY <1>1, <1>2 DEF Due
<1>3. CASE \/ BeginStep \/ DrainOne \/ DrainEmpty
           \/ AdmitPass \/ DeferOne \/ AdmitPassDone \/ FailAdmission
           \/ PlanPrefill \/ PrefillChunk \/ FailPrefill \/ BeginDecode
           \/ AllFailed \/ FailDecodeBatch \/ FailOneOfBatch
           \/ \E r \in Requests : EnsureRunnable(r)
  <2>1. UNCHANGED stats
    BY <1>3 DEF BeginStep, DrainOne, DrainEmpty, AdmitPass, DeferOne, AdmitPassDone,
       FailAdmission, PlanPrefill, PrefillChunk, FailPrefill, BeginDecode, AllFailed,
       FailDecodeBatch, FailOneOfBatch, EnsureRunnable
  <2>2. phase \notin {"apply", "finish"} /\ phase' \notin {"apply", "finish"}
    BY <1>3 DEF BeginStep, DrainOne, DrainEmpty, AdmitPass, DeferOne, AdmitPassDone,
       FailAdmission, PlanPrefill, PrefillChunk, FailPrefill, BeginDecode, AllFailed,
       FailDecodeBatch, FailOneOfBatch, EnsureRunnable, EnsureCapacity, EndStep, Goto,
       Prefilling, Admitting
  <2>. QED  BY <1>2, <2>1, <2>2
<1>4. CASE \/ AdmitOne \/ EvictOneStalledRequest \/ ChooseBatch
           \/ \E r \in Requests : EnsureStalled(r)
  <2>1. stats'.tokens_generated = stats.tokens_generated
    BY <1>1, <1>4 DEF AdmitOne, EvictOneStalledRequest, ChooseBatch, EnsureStalled, Counters
  <2>2. phase \notin {"apply", "finish"} /\ phase' \notin {"apply", "finish"}
    BY <1>4 DEF AdmitOne, EvictOneStalledRequest, ChooseBatch, EnsureStalled, EnsureCapacity,
       AllChecked, EndStep, Admitting
  <2>. QED  BY <1>2, <2>1, <2>2
<1>5. CASE AllApplied
  <2>1. phase = "apply" /\ Len(local.outputs) = 0 /\ phase' = "idle" /\ UNCHANGED stats
    BY <1>1, <1>5, EmptySeq DEF AllApplied, EndStep
  <2>. QED  BY <1>1, <2>1 DEF Due
<1>6. CASE ApplyOutput \/ FinishRequest
  <2>1. phase \in {"apply", "finish"} /\ local.outputs # << >>
    BY <1>6 DEF ApplyOutput, FinishRequest, HInv, Placed, Loops, OutputsAreDecoding
  <2>2. Len(Tail(local.outputs)) = Len(local.outputs) - 1
    BY <1>1, <2>1, HeadTailProperties
  <2>3. CASE FinishRequest
    <3>1. /\ phase = "finish" /\ phase' = "apply"
          /\ stats' = [stats EXCEPT !.early_finishes = @ + 1]
          /\ local'.outputs = Tail(local.outputs)
      BY <1>1, <2>3 DEF FinishRequest, Locals
    <3>2. stats'.tokens_generated = stats.tokens_generated
      BY <1>1, <3>1 DEF Counters
    <3>. QED  BY <1>1, <2>2, <3>1, <3>2 DEF Due
  <2>4. CASE ApplyOutput
    <3>1. /\ phase = "apply"
          /\ stats' = [stats EXCEPT !.tokens_generated = @ + 1]
          /\ \/ phase' = "finish" /\ local' = local
             \/ phase' = "apply" /\ local'.outputs = Tail(local.outputs)
      BY <1>1, <2>4 DEF ApplyOutput, Goto, Locals
    <3>2. stats'.tokens_generated = stats.tokens_generated + 1
      BY <1>1, <3>1 DEF Counters
    <3>3. Due = Len(local.outputs) /\ Due' = Len(local.outputs) - 1
      <4>1. CASE phase' = "finish" /\ local' = local
        BY <3>1, <4>1 DEF Due
      <4>2. CASE phase' = "apply" /\ local'.outputs = Tail(local.outputs)
        BY <2>2, <3>1, <4>2 DEF Due
      <4>. QED  BY <3>1, <4>1, <4>2
    <3>4. PICK n, m \in Nat : n = stats.tokens_generated /\ m = Len(local.outputs)
      BY <1>1
    <3>5. stats'.tokens_generated + Due' = n + 1 + (m - 1) /\ m - 1 \in Int /\ n + 1 \in Nat
      BY <3>2, <3>3, <3>4
    <3>. QED  BY <3>2, <3>3, <3>4, <3>5
  <2>. QED  BY <1>6, <2>3, <2>4
<1>7. CASE \E r \in Requests : Submit(r)
  <2>1. UNCHANGED <<stats, phase, local>>
    BY <1>7 DEF Submit
  <2>. QED  BY <1>1, <2>1 DEF Due
<1>. QED  BY <1>3, <1>4, <1>5, <1>6, <1>7 DEF Next, Step, EngineStep, StepWithoutEngine

(* A decoded batch has as many outputs as requests.                         *)
LEMMA DueOfBatch ==
  ASSUME HInv, RunDecodeBatch
  PROVE  Due = 0 /\ Due' = Len(local.decode_batch) /\ UNCHANGED stats
<1>. DEFINE batch == local.decode_batch
<1>1. local \in Locals /\ Len(batch) \in Nat
  <2>1. local \in Locals
    BY DEF HInv, Placed, Typed
  <2>. QED  BY <2>1, LenProperties DEF Locals
<1>2. PICK silent \in SUBSET Range(batch), eos \in SUBSET Range(batch) :
        local' = [local EXCEPT !.outputs =
                       [i \in 1 .. Len(batch) |->
                          [request_id |-> batch[i],
                           text |-> batch[i] \notin silent,
                           finished |-> Ends(batch[i], eos)]]]
  BY DEF RunDecodeBatch
<1>3. local'.outputs = [i \in 1 .. Len(batch) |->
                          [request_id |-> batch[i],
                           text |-> batch[i] \notin silent,
                           finished |-> Ends(batch[i], eos)]]
  BY <1>1, <1>2 DEF Locals
<1>4. Len(local'.outputs) = Len(batch)
  BY <1>1, <1>3
<1>5. phase = "run" /\ phase' = "apply" /\ UNCHANGED stats
  BY DEF RunDecodeBatch
<1>. QED  BY <1>4, <1>5 DEF Due

(* Every step keeps the tokens.                                             *)
LEMMA TokensKept ==
  ASSUME SInv, FinitelySubmitted', Ledger, TokensAdd, Next
  PROVE  TokensAdd'
<1>1. /\ stats \in [Counters -> Nat] /\ stats.tokens_generated \in Nat
      /\ TokensCounted \in Nat
  <2>1. stats \in [Counters -> Nat]
    BY DEF SInv, HInv, Placed, Typed
  <2>2. Submitted \in SUBSET Requests
    BY DEF Submitted
  <2>3. SumFunctionOnSet(Tokens, Submitted) \in Nat
    BY <2>2, SubmittedFinite, SumProperties DEF SInv
  <2>. QED  BY <2>1, <2>3 DEF Counters, TokensCounted, Tokens
<1>2. CASE RunDecodeBatch
  <2>1. Len(local.decode_batch) \in Nat
    BY LenProperties DEF SInv, HInv, Placed, Typed, Locals
  <2>. QED  BY <1>1, <1>2, <2>1, TokensOfBatch, DueOfBatch DEF TokensAdd, SInv
<1>3. CASE FailDecodeBatch
  <2>1. ~ RunDecodeBatch /\ EngineMayFail
    BY <1>3 DEF FailDecodeBatch, RunDecodeBatch
  <2>2. /\ stats.tokens_generated + Due = stats'.tokens_generated + Due'
        /\ stats'.tokens_generated \in Nat /\ Due' \in Int
    BY <2>1, DueSettled DEF SInv
  <2>. QED  BY <1>1, <1>3, <2>1, <2>2, TokensOfFailedBatch DEF TokensAdd, SInv
<1>4. ASSUME ~ RunDecodeBatch, TokensCounted' = TokensCounted  PROVE TokensAdd'
  <2>1. /\ stats.tokens_generated + Due = stats'.tokens_generated + Due'
        /\ stats'.tokens_generated \in Nat /\ Due' \in Int
    BY <1>4, DueSettled DEF SInv
  <2>. QED  BY <1>1, <1>4, <2>1 DEF TokensAdd
<1>5. CASE \/ FailAdmission \/ FailPrefill \/ EvictOneStalledRequest
           \/ FinishRequest \/ FailOneOfBatch
  <2>1. PICK r \in Requests, status \in Ended : EndRequest(r, status)
    BY <1>1, <1>5, EndingSteps
  <2>2. request_state \in [Requests -> RequestRecords]
    BY DEF SInv, HInv, Placed, Typed
  <2>3. \A x \in Requests :
           /\ request_state'[x].generated_tokens = request_state[x].generated_tokens
           /\ request_state'[x].status = "new" => request_state[x].status = "new"
    BY <2>1, <2>2 DEF EndRequest, RequestRecords, Ended
  <2>4. ~ RunDecodeBatch
    BY <1>5 DEF FailAdmission, Admitting, FailPrefill, Prefilling, EvictOneStalledRequest,
       AllChecked, FinishRequest, FailOneOfBatch, RunDecodeBatch
  <2>. QED  BY <1>4, <2>3, <2>4, TokensStay
<1>6. CASE AdmitOne
  <2>1. Candidate \in Requests /\ request_state \in [Requests -> RequestRecords]
    BY <1>6, CandidateWaits DEF AdmitOne, SInv, HInv, Placed, Typed
  <2>. DEFINE table == block_tables'[Candidate]
  <2>2. request_state' = [request_state EXCEPT
                             ![Candidate].status = "prefill",
                             ![Candidate].block_table = table,
                             ![Candidate].prompt_tokens = request_state[Candidate].prompt]
    BY <1>6 DEF AdmitOne
  <2>. HIDE DEF table
  <2>3. \A x \in Requests :
           /\ request_state'[x].generated_tokens = request_state[x].generated_tokens
           /\ request_state'[x].status = "new" => request_state[x].status = "new"
    BY <2>1, <2>2 DEF RequestRecords
  <2>4. ~ RunDecodeBatch
    BY <1>6 DEF AdmitOne, Admitting, RunDecodeBatch
  <2>. QED  BY <1>4, <2>3, <2>4, TokensStay
<1>7. CASE \/ BeginStep \/ DrainOne \/ DrainEmpty
           \/ AdmitPass \/ DeferOne \/ AdmitPassDone
           \/ PlanPrefill \/ PrefillChunk \/ BeginDecode
           \/ \E r \in Requests : EnsureRunnable(r) \/ EnsureStalled(r)
           \/ ChooseBatch \/ ApplyOutput \/ AllApplied \/ AllFailed
           \/ \E r \in Requests : Submit(r)
  <2>1. \A x \in Requests :
           /\ request_state'[x].generated_tokens = request_state[x].generated_tokens
           /\ request_state'[x].status = "new" => request_state[x].status = "new"
    BY <1>1, <1>7, QuietStepsRecords DEF QuietRecord
  <2>2. TokensCounted' = TokensCounted
    BY <2>1, TokensStay
  <2>. QED  BY <1>1, <1>2, <1>4, <2>2
<1>. QED  BY <1>2, <1>3, <1>5, <1>6, <1>7 DEF Next, Step, EngineStep, StepWithoutEngine

-----------------------------------------------------------------------------
(* The theorems *)

(* The invariant holds of every behaviour of the scheduler.                 *)
LEMMA CInvInvariant == Spec => []CInv
<1>1. Init => Balanced
  <2>. SUFFICES ASSUME Init  PROVE Balanced
    OBVIOUS
  <2>1. /\ stats = [c \in Counters |-> 0] /\ phase = "idle" /\ finished = << >>
        /\ metrics = << >> /\ local.stalled = << >>
        /\ slots = [i \in SlotIndices |-> NoRequest]
    BY DEF Init, Idle
  <2>2. \A c \in Counters : stats[c] = 0
    BY <2>1
  <2>3. \A r \in Requests : request_state[r] = Unborn
    BY DEF Init
  <2>4. Unborn.status = "new" /\ Unborn.prompt_tokens = 0
    BY DEF Unborn, NewRequestState
  <2>5. /\ Submitted = {} /\ Finishes = {} /\ FailedInSlot = {}
    BY <2>3, <2>4 DEF Submitted, Finishes, FailedInSlot, InStatus, Status
  <2>6. OccupiedSlotCount = 0
    <3>1. {i \in SlotIndices : slots[i] # NoRequest} = {}
      BY <2>1
    <3>. QED  BY <3>1, FS_EmptySet DEF OccupiedSlotCount
  <2>7. Cardinality(Finishes) = 0 /\ Cardinality(FailedInSlot) = 0
    BY <2>5, FS_EmptySet
  <2>8. TokensCounted = 0
    <3>1. Tokens \in [Requests -> Nat]
      BY <2>3 DEF Tokens, Unborn, NewRequestState
    <3>2. SumFunctionOnSet(Tokens, {}) = 0
      BY <3>1, SumProperties, FS_EmptySet
    <3>. QED  BY <2>5, <3>2 DEF TokensCounted, Tokens
  <2>9. TokensAdd /\ StallsAdd /\ AdmissionsAdd
    <3>1. /\ stats.tokens_generated = 0 /\ stats.kv_oom_evictions = 0
          /\ stats.kv_allocation_failures = 0 /\ stats.decode_stalls = 0
          /\ stats.admitted_count = 0 /\ stats.early_finishes = 0
      BY <2>2 DEF Counters
    <3>2. Due = 0 /\ Len(local.stalled) = 0
      BY <2>1 DEF Due
    <3>. QED  BY <2>6, <2>7, <2>8, <3>1, <3>2 DEF TokensAdd, StallsAdd, AdmissionsAdd
  <2>10. Untokenized
    BY <2>3, <2>4 DEF Untokenized, InStatus
  <2>11. MetricsRight
    BY <2>1 DEF MetricsRight
  <2>. QED  BY <2>9, <2>10, <2>11 DEF Balanced
<1>2. ASSUME TInv, FinitelySubmitted', Balanced, Next  PROVE Balanced'
  <2>1. Ledger /\ SInv /\ HInv
    BY <1>2 DEF Balanced, Ledger, TInv, SInv
  <2>2. Ledger'
    BY <1>2, <2>1, LedgerKept
  <2>3. StallsAdd'
    BY <1>2, <2>1, StallsKept DEF Balanced
  <2>4. TokensAdd'
    BY <1>2, <2>1, TokensKept DEF Balanced
  <2>. QED  BY <2>2, <2>3, <2>4 DEF Balanced, Ledger
<1>3. ASSUME Balanced, UNCHANGED vars  PROVE Balanced'
  <2>1. UNCHANGED <<request_state, slots, finished, metrics, stats, phase, local>>
    BY <1>3 DEF vars
  <2>2. /\ TokensCounted' = TokensCounted /\ OccupiedSlotCount' = OccupiedSlotCount
        /\ Finishes' = Finishes /\ FailedInSlot' = FailedInSlot
    BY <2>1 DEF TokensCounted, Submitted, OccupiedSlotCount, SlotIndices, Finishes,
       FailedInSlot, InStatus, Status
  <2>3. TokensAdd' /\ StallsAdd' /\ AdmissionsAdd'
    BY <1>3, <2>1, <2>2 DEF Balanced, TokensAdd, StallsAdd, AdmissionsAdd, Due
  <2>4. MetricsRight' /\ Untokenized'
    BY <1>3, <2>1 DEF Balanced, MetricsRight, Untokenized, InStatus, Status
  <2>. QED  BY <2>3, <2>4 DEF Balanced
<1>4. TInv /\ FinitelySubmitted' /\ Balanced /\ [Next]_vars => Balanced'
  BY <1>2, <1>3
<1>5. /\ TInv /\ Balanced => CInv
      /\ TInv => FinitelySubmitted
  BY SubmittedFinite DEF CInv, TInv, SInv
<1>. QED  BY <1>1, <1>4, <1>5, TInvInvariant, PTL DEF Spec

-----------------------------------------------------------------------------
(* The inductive invariant: what was applied *)

(* The tokens of a record that were applied.                                *)
AppliedTokens(q) ==
  IF q.num_computed_tokens > q.prompt_tokens
  THEN q.num_computed_tokens - q.prompt_tokens ELSE 0

(* The requests the engine may be a token ahead for.  The one that is about *)
(* to finish is not: its output was applied.                                *)
ToApply ==
  CASE phase = "apply"  -> OutputsOf(local.outputs)
    [] phase = "finish" -> OutputsOf(Tail(local.outputs))
    [] phase = "fail"   -> Range(local.decode_batch)
    [] OTHER            -> {}

(* It is ahead for all that have an output to come, and may be for those of *)
(* a batch that raised; they fail, and stay so.                             *)
AppliedRight ==
  \A r \in Requests :
    LET q == request_state[r]
        a == AppliedTokens(q)
    IN  /\ q.generated_tokens = a \/ q.generated_tokens = a + 1
        /\ q.status # "failed" /\ r \notin ToApply => q.generated_tokens = a
        /\ phase \in {"apply", "finish"} /\ r \in ToApply => q.generated_tokens = a + 1

AppliedCounts == [r \in Requests |-> AppliedTokens(request_state[r])]

AppliedAdd == stats.tokens_generated = SumFunctionOnSet(AppliedCounts, Submitted)

AInv == AppliedRight /\ AppliedAdd

LEMMA AppliedTyped ==
  ASSUME SInv
  PROVE  /\ \A x \in Requests : AppliedTokens(request_state[x]) \in Nat
         /\ AppliedCounts \in [Requests -> Nat]
<1>1. \A x \in Requests : AppliedTokens(request_state[x]) \in Nat
  <2>. SUFFICES ASSUME NEW x \in Requests  PROVE AppliedTokens(request_state[x]) \in Nat
    OBVIOUS
  <2>1. /\ request_state[x].num_computed_tokens \in Nat
        /\ request_state[x].prompt_tokens \in Nat
    BY DEF SInv, HInv, Placed, Typed, RequestRecords
  <2>. QED  BY <2>1 DEF AppliedTokens
<1>. QED  BY <1>1 DEF AppliedCounts

LEMMA ToApplyIs ==
  /\ phase = "apply" => ToApply = OutputsOf(local.outputs)
  /\ phase = "finish" => ToApply = OutputsOf(Tail(local.outputs))
  /\ phase = "fail" => ToApply = Range(local.decode_batch)
  /\ phase \notin {"apply", "finish", "fail"} => ToApply = {}
  /\ phase' = "apply" => ToApply' = OutputsOf(local'.outputs)
  /\ phase' = "finish" => ToApply' = OutputsOf(Tail(local'.outputs))
  /\ phase' = "fail" => ToApply' = Range(local'.decode_batch)
  /\ phase' \notin {"apply", "finish", "fail"} => ToApply' = {}
<1>1. /\ phase = "apply" => ToApply = OutputsOf(local.outputs)
      /\ phase = "finish" => ToApply = OutputsOf(Tail(local.outputs))
      /\ phase = "fail" => ToApply = Range(local.decode_batch)
      /\ phase \notin {"apply", "finish", "fail"} => ToApply = {}
  BY DEF ToApply
<1>2. /\ phase' = "apply" => ToApply' = OutputsOf(local'.outputs)
      /\ phase' = "finish" => ToApply' = OutputsOf(Tail(local'.outputs))
      /\ phase' = "fail" => ToApply' = Range(local'.decode_batch)
      /\ phase' \notin {"apply", "finish", "fail"} => ToApply' = {}
  BY DEF ToApply, OutputsOf, Range
<1>. QED  BY <1>1, <1>2

(* Requests that were just sent have nothing applied.                       *)
LEMMA AppliedStays ==
  ASSUME SInv, FinitelySubmitted', AppliedRight, AppliedAdd,
         stats'.tokens_generated = stats.tokens_generated,
         \A x \in Requests :
           /\ AppliedTokens(request_state'[x]) = AppliedTokens(request_state[x])
           /\ request_state'[x].status = "new" => request_state[x].status = "new"
  PROVE  AppliedAdd'
<1>1. /\ IsFiniteSet(Submitted') /\ Submitted' \in SUBSET Requests
      /\ AppliedCounts \in [Requests -> Nat]
  BY AppliedTyped DEF FinitelySubmitted, Submitted
<1>2. Submitted \in SUBSET Submitted'
  BY DEF Submitted, Status
<1>3. \A x \in Submitted' \ Submitted : AppliedCounts[x] = 0
  <2>. SUFFICES ASSUME NEW x \in Submitted' \ Submitted  PROVE AppliedCounts[x] = 0
    OBVIOUS
  <2>1. x \in Requests /\ request_state[x].status = "new"
    BY DEF Submitted, Status
  <2>2. RecordRight(request_state[x], x \notin Uncounted)
    BY <2>1 DEF SInv, Counted, RecordsRight
  <2>3. request_state[x].generated_tokens = 0
    BY <2>1, <2>2 DEF RecordRight
  <2>4. AppliedTokens(request_state[x]) \in Nat
    BY <2>1, AppliedTyped
  <2>5. \/ request_state[x].generated_tokens = AppliedTokens(request_state[x])
        \/ request_state[x].generated_tokens = AppliedTokens(request_state[x]) + 1
    BY <2>1 DEF AppliedRight
  <2>. QED  BY <2>1, <2>3, <2>4, <2>5 DEF AppliedCounts
<1>4. PICK later \in SUBSET Requests : later = Submitted'
  BY <1>1
<1>5. SumFunctionOnSet(AppliedCounts, later) = SumFunctionOnSet(AppliedCounts, Submitted)
  BY <1>1, <1>2, <1>3, <1>4, SumOfSome
<1>6. AppliedCounts' = AppliedCounts
  BY DEF AppliedCounts
<1>. QED  BY <1>4, <1>5, <1>6 DEF AppliedAdd

(* A record whose status says there is nothing to apply.                    *)
LEMMA NothingApplied ==
  ASSUME SInv, AppliedRight, NEW r \in Requests, Status(r) \in {"new", "waiting", "prefill"}
  PROVE  AppliedTokens(request_state[r]) = 0 /\ request_state[r].generated_tokens = 0
<1>1. RecordRight(request_state[r], r \notin Uncounted)
  BY DEF SInv, Counted, RecordsRight
<1>2. request_state[r].generated_tokens = 0
  BY <1>1 DEF RecordRight, Status
<1>3. AppliedTokens(request_state[r]) \in Nat
  BY AppliedTyped
<1>4. \/ request_state[r].generated_tokens = AppliedTokens(request_state[r])
      \/ request_state[r].generated_tokens = AppliedTokens(request_state[r]) + 1
  BY DEF AppliedRight
<1>. QED  BY <1>2, <1>3, <1>4

TokensUntouched(q, p) ==
  /\ AppliedTokens(p) = AppliedTokens(q)
  /\ p.generated_tokens = q.generated_tokens
  /\ p.status = "new" => q.status = "new"
  /\ q.status = "failed" => p.status = "failed"

(* Steps that neither generate nor apply a token.                           *)
LEMMA OtherStepsTokens ==
  ASSUME SInv, Ledger, AppliedRight, Next,
         ~ ApplyOutput, ~ RunDecodeBatch, ~ FailDecodeBatch
  PROVE  \A x \in Requests : TokensUntouched(request_state[x], request_state'[x])
<1>. DEFINE Same(x) == TokensUntouched(request_state[x], request_state'[x])
<1>1. request_state \in [Requests -> RequestRecords] /\ stats \in [Counters -> Nat]
  BY DEF SInv, HInv, Placed, Typed
<1>2. ASSUME NEW r \in Requests, Same(r),
             \A x \in Requests : x # r => request_state'[x] = request_state[x]
      PROVE  \A x \in Requests : Same(x)
  BY <1>2 DEF TokensUntouched
<1>3. ASSUME NEW q \in RequestRecords, NEW p,
             p.status = q.status \/ (q.status # "failed" /\ p.status # "new"),
             p.num_computed_tokens = q.num_computed_tokens,
             p.prompt_tokens = q.prompt_tokens, p.generated_tokens = q.generated_tokens
      PROVE  TokensUntouched(q, p)
  BY <1>3 DEF TokensUntouched, AppliedTokens
<1>4. CASE \/ BeginStep \/ DrainEmpty \/ AdmitPass \/ AdmitPassDone
           \/ PlanPrefill \/ BeginDecode \/ ChooseBatch \/ AllApplied \/ AllFailed
           \/ \E r \in Requests : EnsureStalled(r)
  <2>1. UNCHANGED request_state
    BY <1>4 DEF BeginStep, DrainEmpty, AdmitPass, AdmitPassDone, PlanPrefill, BeginDecode,
       ChooseBatch, AllApplied, AllFailed, EnsureStalled
  <2>. QED  BY <2>1 DEF TokensUntouched
<1>5. CASE \/ FailAdmission \/ FailPrefill \/ EvictOneStalledRequest
           \/ FinishRequest \/ FailOneOfBatch
  <2>1. PICK r \in Requests, status \in Ended :
          /\ EndRequest(r, status)
          /\ Status(r) \in {"waiting", "prefill", "decoding"}
    <3>1. \E r \in Requests, status \in Ended :
            /\ EndRequest(r, status)
            /\ \/ Status(r) = "waiting"
               \/ Status(r) \in {"prefill", "decoding"}
               \/ Status(r) \in {"prefill", "decoding"}
      BY <1>1, <1>5, EndingSteps
    <3>. QED  BY <3>1
  <2>2. request_state' = [request_state EXCEPT ![r].status = status,
                                               ![r].output_queue = Append(@, End)]
    BY <2>1 DEF EndRequest
  <2>. DEFINE p == [request_state[r] EXCEPT !.status = status, !.output_queue = Append(@, End)]
  <2>3. /\ p.status = status /\ p.num_computed_tokens = request_state[r].num_computed_tokens
        /\ p.prompt_tokens = request_state[r].prompt_tokens
        /\ p.generated_tokens = request_state[r].generated_tokens
    BY <1>1 DEF RequestRecords
  <2>4. request_state' = [request_state EXCEPT ![r] = p]
    BY <1>1, <2>2
  <2>. HIDE DEF p
  <2>5. request_state'[r] = p /\ \A x \in Requests : x # r => request_state'[x] = request_state[x]
    BY <1>1, <2>4
  <2>6. status # "new" /\ request_state[r].status # "failed" /\ request_state[r] \in RequestRecords
    BY <1>1, <2>1 DEF Ended, Status
  <2>7. Same(r)
    BY <1>3, <2>3, <2>5, <2>6
  <2>. QED  BY <1>2, <2>5, <2>7
<1>6. CASE DrainOne \/ DeferOne
  <2>1. PICK r : /\ request_state' = [request_state EXCEPT ![r].status = "waiting"]
                 /\ r \in Requests /\ Status(r) = "waiting"
    <3>1. CASE DrainOne
      <4>1. request_queue \in Seq(Requests) /\ request_queue # << >>
        BY <3>1 DEF DrainOne, SInv, HInv, IInv, ListsTyped
      <4>2. Head(request_queue) \in Range(request_queue)
        BY <4>1, TailOfDistinct DEF SInv, HInv, Placed, Homes
      <4>3. Head(request_queue) \in Requests /\ Status(Head(request_queue)) = "waiting"
        BY <4>2 DEF SInv, HInv, Placed, Homes, InStatus
      <4>. QED  BY <3>1, <4>3 DEF DrainOne
    <3>2. CASE DeferOne
      <4>1. Candidate \in Requests /\ Status(Candidate) = "waiting"
        BY <3>2, CandidateWaits DEF DeferOne, SInv
      <4>. QED  BY <3>2, <4>1 DEF DeferOne
    <3>. QED  BY <1>6, <3>1, <3>2
  <2>2. Same(r) /\ \A x \in Requests : x # r => request_state'[x] = request_state[x]
    BY <1>1, <2>1 DEF TokensUntouched, AppliedTokens, Status, RequestRecords
  <2>. QED  BY <1>2, <2>1, <2>2
<1>7. CASE \E r \in Requests : EnsureRunnable(r)
  <2>1. PICK r \in Requests : EnsureRunnable(r)
    BY <1>7
  <2>. DEFINE table == block_tables'[r]
  <2>2. request_state' = [request_state EXCEPT ![r].block_table = table]
    BY <2>1 DEF EnsureRunnable
  <2>. HIDE DEF table
  <2>3. Same(r) /\ \A x \in Requests : x # r => request_state'[x] = request_state[x]
    BY <1>1, <2>2 DEF TokensUntouched, AppliedTokens, RequestRecords
  <2>. QED  BY <1>2, <2>3
<1>8. CASE AdmitOne
  <2>1. Candidate \in Requests /\ Status(Candidate) = "waiting"
    BY <1>8, CandidateWaits DEF AdmitOne, SInv
  <2>. DEFINE table == block_tables'[Candidate]
              r == Candidate
  <2>2. request_state' = [request_state EXCEPT
                             ![r].status = "prefill",
                             ![r].block_table = table,
                             ![r].prompt_tokens = request_state[r].prompt]
    BY <1>8 DEF AdmitOne
  <2>3. AppliedTokens(request_state[r]) = 0 /\ request_state[r].num_computed_tokens = 0
    <3>1. RecordRight(request_state[r], r \notin Uncounted)
      BY <2>1 DEF SInv, Counted, RecordsRight
    <3>. QED  BY <2>1, <3>1, NothingApplied DEF RecordRight, Status
  <2>. HIDE DEF table, r
  <2>4. r \in Requests /\ Status(r) = "waiting"
    BY <2>1 DEF r
  <2>5. /\ \A x \in Requests : x # r => request_state'[x] = request_state[x]
        /\ request_state'[r].num_computed_tokens = 0
        /\ request_state'[r].generated_tokens = request_state[r].generated_tokens
        /\ request_state'[r].prompt_tokens \in Nat
        /\ request_state'[r].status = "prefill"
    BY <1>1, <2>2, <2>3, <2>4 DEF RequestRecords
  <2>6. AppliedTokens(request_state'[r]) = 0
    BY <2>5 DEF AppliedTokens
  <2>7. Same(r)
    BY <2>3, <2>4, <2>5, <2>6 DEF TokensUntouched, Status
  <2>. QED  BY <1>2, <2>4, <2>5, <2>7
<1>9. CASE PrefillChunk
  <2>. DEFINE r == Head(local.work_plan).request_state
              n == Head(local.work_plan).num_scheduled_tokens
              end == ChunkEnd(r, n)
  <2>1. r \in Requests /\ Status(r) = "prefill" /\ n \in Nat
    BY <1>9, ChunkIsPrefilling DEF PrefillChunk, SInv
  <2>2. AppliedTokens(request_state[r]) = 0 /\ request_state[r].generated_tokens = 0
    BY <2>1, NothingApplied
  <2>3. request_state' = [request_state EXCEPT
                             ![r].num_computed_tokens = end,
                             ![r].generated_tokens = 0,
                             ![r].status = IF end = request_state[r].prompt_tokens
                                           THEN "decoding" ELSE @]
    BY <1>9 DEF PrefillChunk
  <2>. HIDE DEF r, n
  <2>4. end \in Nat /\ end <= request_state[r].prompt_tokens
    BY <1>1, <2>1 DEF ChunkEnd, RequestRecords
  <2>. HIDE DEF end
  <2>5. /\ \A x \in Requests : x # r => request_state'[x] = request_state[x]
        /\ request_state'[r].num_computed_tokens = end
        /\ request_state'[r].prompt_tokens = request_state[r].prompt_tokens
        /\ request_state'[r].prompt_tokens \in Nat
        /\ request_state'[r].generated_tokens = 0
        /\ request_state'[r].status \in {"prefill", "decoding"}
    BY <1>1, <2>1, <2>3 DEF RequestRecords, Status
  <2>6. AppliedTokens(request_state'[r]) = 0
    BY <2>4, <2>5 DEF AppliedTokens
  <2>7. Same(r)
    BY <2>1, <2>2, <2>5, <2>6 DEF TokensUntouched, Status
  <2>. QED  BY <1>2, <2>1, <2>5, <2>7
<1>10. CASE \E r \in Requests : Submit(r)
  <2>1. PICK r \in Requests : Submit(r)
    BY <1>10
  <2>2. PICK shape \in Shapes :
          request_state' = [request_state EXCEPT ![r] =
                              NewRequestState(shape.prompt, shape.max_new_tokens)]
    BY <2>1 DEF Submit
  <2>3. /\ request_state'[r] = NewRequestState(shape.prompt, shape.max_new_tokens)
        /\ \A x \in Requests : x # r => request_state'[x] = request_state[x]
    BY <1>1, <2>2
  <2>4. Status(r) = "new" /\ request_state[r].generated_tokens = 0
        /\ AppliedTokens(request_state[r]) = 0
    BY <2>1, NothingApplied DEF Submit
  <2>5. AppliedTokens(request_state'[r]) = 0 /\ request_state'[r].generated_tokens = 0
    BY <2>3 DEF AppliedTokens, NewRequestState
  <2>6. Same(r)
    BY <2>4, <2>5 DEF TokensUntouched, Status
  <2>. QED  BY <1>2, <2>3, <2>6
<1>. QED  BY <1>4, <1>5, <1>6, <1>7, <1>8, <1>9, <1>10 DEF Next, Step, EngineStep, StepWithoutEngine

(* Of the requests there is something to apply for, only those leave that   *)
(* fail.                                                                    *)
LEMMA OtherStepsToApply ==
  ASSUME SInv, Next, ~ ApplyOutput, ~ RunDecodeBatch, ~ FailDecodeBatch
  PROVE  /\ ToApply' \subseteq ToApply
         /\ \A r \in ToApply \ ToApply' : request_state'[r].status = "failed"
         /\ phase' \in {"apply", "finish"} => phase \in {"apply", "finish"} \/ ToApply' = {}
         /\ stats'.tokens_generated = stats.tokens_generated
<1>1. /\ request_state \in [Requests -> RequestRecords] /\ stats \in [Counters -> Nat]
      /\ local \in Locals
  BY DEF SInv, HInv, Placed, Typed
<1>2. CASE \/ BeginStep \/ DrainOne \/ DrainEmpty
           \/ AdmitPass \/ AdmitOne \/ DeferOne \/ AdmitPassDone \/ FailAdmission
           \/ PlanPrefill \/ PrefillChunk \/ FailPrefill \/ BeginDecode
           \/ \E r \in Requests : EnsureRunnable(r) \/ EnsureStalled(r)
           \/ EvictOneStalledRequest \/ ChooseBatch
  <2>1. phase \notin {"apply", "finish", "fail"} /\ phase' \notin {"apply", "finish", "fail"}
    BY <1>2 DEF BeginStep, DrainOne, DrainEmpty, AdmitPass, AdmitOne, DeferOne, AdmitPassDone,
       FailAdmission, PlanPrefill, PrefillChunk, FailPrefill, BeginDecode, EnsureRunnable,
       EnsureStalled, EnsureCapacity, EvictOneStalledRequest, AllChecked, ChooseBatch, EndStep,
       Goto, Prefilling, Admitting
  <2>2. ToApply = {} /\ ToApply' = {}
    BY <2>1, ToApplyIs
  <2>3. stats'.tokens_generated = stats.tokens_generated
    BY <1>1, <1>2 DEF BeginStep, DrainOne, DrainEmpty, AdmitPass, AdmitOne, DeferOne,
       AdmitPassDone, FailAdmission, PlanPrefill, PrefillChunk, FailPrefill, BeginDecode,
       EnsureRunnable, EnsureStalled, EvictOneStalledRequest, ChooseBatch, Counters
  <2>. QED  BY <2>2, <2>3
<1>3. CASE AllApplied \/ AllFailed
  <2>1. phase' = "idle" /\ UNCHANGED stats
    BY <1>3 DEF AllApplied, AllFailed, EndStep
  <2>2. ToApply = {}
    <3>1. OutputsOf(<< >>) = {} /\ Range(<< >>) = {}
      BY DEF OutputsOf, Range
    <3>2. \/ phase = "apply" /\ local.outputs = << >>
          \/ phase = "fail" /\ local.decode_batch = << >>
      BY <1>3 DEF AllApplied, AllFailed
    <3>. QED  BY <3>1, <3>2, ToApplyIs
  <2>. QED  BY <2>1, <2>2, ToApplyIs
<1>4. CASE FinishRequest
  <2>1. /\ phase = "finish" /\ phase' = "apply"
        /\ local'.outputs = Tail(local.outputs)
        /\ stats' = [stats EXCEPT !.early_finishes = @ + 1]
    BY <1>1, <1>4 DEF FinishRequest, Locals
  <2>2. ToApply' = ToApply
    BY <2>1, ToApplyIs
  <2>3. stats'.tokens_generated = stats.tokens_generated
    BY <1>1, <2>1 DEF Counters
  <2>. QED  BY <2>1, <2>2, <2>3
<1>5. CASE FailOneOfBatch
  <2>. DEFINE batch == local.decode_batch
              r == Head(batch)
  <2>1. /\ phase = "fail" /\ phase' = "fail" /\ UNCHANGED stats
        /\ local'.decode_batch = Tail(batch) /\ batch # << >> /\ batch \in Seq(Requests)
    BY <1>1, <1>5 DEF FailOneOfBatch, Locals
  <2>2. IsInjective(batch)
    BY <2>1 DEF SInv, HInv, Placed, Loops, BatchIsDecoding, Distinct
  <2>3. Range(batch) = Range(Tail(batch)) \cup {r} /\ r \in Requests
    BY <2>1, <2>2, TailOfDistinct
  <2>4. request_state'[r].status = "failed"
    <3>1. request_state' = [request_state EXCEPT ![r].status = "failed",
                                                 ![r].output_queue = Append(@, End)]
      BY <1>5 DEF FailOneOfBatch, EndRequest
    <3>. HIDE DEF r
    <3>. QED  BY <1>1, <2>3, <3>1 DEF RequestRecords
  <2>5. ToApply = Range(batch) /\ ToApply' = Range(Tail(batch))
    BY <2>1, ToApplyIs
  <2>. QED  BY <2>1, <2>3, <2>4, <2>5
<1>6. CASE \E r \in Requests : Submit(r)
  <2>1. UNCHANGED <<phase, local, stats>>
    BY <1>6 DEF Submit
  <2>. QED  BY <2>1 DEF ToApply, OutputsOf, Range
<1>. QED  BY <1>2, <1>3, <1>4, <1>5, <1>6 DEF Next, Step, EngineStep, StepWithoutEngine

LEMMA OtherStepsApply ==
  ASSUME SInv, FinitelySubmitted', Ledger, AInv, Next,
         ~ ApplyOutput, ~ RunDecodeBatch, ~ FailDecodeBatch
  PROVE  AInv'
<1>1. \A x \in Requests : TokensUntouched(request_state[x], request_state'[x])
  BY OtherStepsTokens DEF AInv
<1>2. /\ ToApply' \subseteq ToApply
      /\ \A r \in ToApply \ ToApply' : request_state'[r].status = "failed"
      /\ phase' \in {"apply", "finish"} => phase \in {"apply", "finish"} \/ ToApply' = {}
      /\ stats'.tokens_generated = stats.tokens_generated
  BY OtherStepsToApply
<1>3. AppliedAdd'
  BY <1>1, <1>2, AppliedStays DEF AInv, TokensUntouched
<1>4. ASSUME NEW r \in Requests
      PROVE  LET q == request_state'[r]
                 a == AppliedTokens(q)
             IN  /\ q.generated_tokens = a \/ q.generated_tokens = a + 1
                 /\ q.status # "failed" /\ r \notin ToApply' => q.generated_tokens = a
                 /\ phase' \in {"apply", "finish"} /\ r \in ToApply' => q.generated_tokens = a + 1
  <2>. DEFINE q == request_state[r]
              p == request_state'[r]
  <2>1. /\ q.generated_tokens = AppliedTokens(q) \/ q.generated_tokens = AppliedTokens(q) + 1
        /\ q.status # "failed" /\ r \notin ToApply => q.generated_tokens = AppliedTokens(q)
        /\ phase \in {"apply", "finish"} /\ r \in ToApply
             => q.generated_tokens = AppliedTokens(q) + 1
    BY <1>4 DEF AInv, AppliedRight
  <2>2. /\ AppliedTokens(p) = AppliedTokens(q) /\ p.generated_tokens = q.generated_tokens
        /\ q.status = "failed" => p.status = "failed"
    BY <1>1 DEF TokensUntouched
  <2>3. p.status # "failed" /\ r \notin ToApply' => r \notin ToApply
    BY <1>2
  <2>. HIDE DEF p, q
  <2>4. /\ p.generated_tokens = AppliedTokens(p) \/ p.generated_tokens = AppliedTokens(p) + 1
        /\ p.status # "failed" /\ r \notin ToApply' => p.generated_tokens = AppliedTokens(p)
        /\ phase' \in {"apply", "finish"} /\ r \in ToApply'
             => p.generated_tokens = AppliedTokens(p) + 1
    BY <1>2, <2>1, <2>2, <2>3
  <2>. QED  BY <2>4 DEF p
<1>5. AppliedRight'
  BY <1>4 DEF AppliedRight, AppliedTokens
<1>. QED  BY <1>3, <1>5 DEF AInv

(* The decode changes a record by a token, which is to be applied.          *)
LEMMA OneTokenAhead ==
  ASSUME SInv, AppliedRight, NEW r \in Requests, NEW p,
         Status(r) = "decoding", r \notin ToApply,
         p = [request_state[r] EXCEPT !.generated_tokens = @ + 1]
  PROVE  /\ AppliedTokens(p) = AppliedTokens(request_state[r])
         /\ p.generated_tokens = AppliedTokens(p) + 1
         /\ p.status = "decoding"
<1>1. request_state[r] \in RequestRecords
  BY DEF SInv, HInv, Placed, Typed
<1>2. request_state[r].generated_tokens = AppliedTokens(request_state[r])
  BY DEF AppliedRight, Status
<1>3. /\ p.generated_tokens = request_state[r].generated_tokens + 1
      /\ p.num_computed_tokens = request_state[r].num_computed_tokens
      /\ p.prompt_tokens = request_state[r].prompt_tokens
      /\ p.status = "decoding"
  BY <1>1 DEF RequestRecords, Status
<1>. QED  BY <1>2, <1>3 DEF AppliedTokens

(* Both ways a decode can go count the tokens of some of the batch, and     *)
(* when it returns, of all.                                                 *)
LEMMA DecodeApplies ==
  ASSUME SInv, FinitelySubmitted', AInv, NEW batch \in SUBSET InStatus({"decoding"}),
         NEW counted \in SUBSET batch,
         ToApply = {}, ToApply' = batch,
         phase' \in {"apply", "finish"} => counted = batch,
         stats'.tokens_generated = stats.tokens_generated,
         request_state' =
           [r \in Requests |->
              IF r \in counted
              THEN [request_state[r] EXCEPT !.generated_tokens = @ + 1]
              ELSE request_state[r]]
  PROVE  AInv'
<1>1. ASSUME NEW r \in Requests
      PROVE  LET q == request_state'[r]
                 a == AppliedTokens(q)
             IN  /\ a = AppliedTokens(request_state[r]) /\ q.status = request_state[r].status
                 /\ q.generated_tokens = a \/ q.generated_tokens = a + 1
                 /\ r \notin counted => q.generated_tokens = a \/ q.status = "failed"
                 /\ r \in counted => q.generated_tokens = a + 1
  <2>1. CASE r \in counted
    <3>1. Status(r) = "decoding"
      BY <2>1 DEF InStatus
    <3>2. request_state'[r] = [request_state[r] EXCEPT !.generated_tokens = @ + 1]
      BY <2>1
    <3>. QED  BY <2>1, <3>1, <3>2, OneTokenAhead DEF AInv, Status
  <2>2. CASE r \notin counted
    <3>1. request_state'[r] = request_state[r]
      BY <2>2
    <3>2. LET q == request_state[r]
              a == AppliedTokens(q)
          IN  /\ q.generated_tokens = a \/ q.generated_tokens = a + 1
              /\ q.generated_tokens = a \/ q.status = "failed"
      BY DEF AInv, AppliedRight
    <3>. QED  BY <2>2, <3>1, <3>2
  <2>. QED  BY <2>1, <2>2
<1>2. \A x \in Requests :
           /\ AppliedTokens(request_state'[x]) = AppliedTokens(request_state[x])
           /\ request_state'[x].status = "new" => request_state[x].status = "new"
  BY <1>1
<1>3. AppliedAdd'
  BY <1>2, AppliedStays DEF AInv
<1>4. ASSUME NEW r \in Requests
      PROVE  LET q == request_state'[r]
                 a == AppliedTokens(q)
             IN  /\ q.generated_tokens = a \/ q.generated_tokens = a + 1
                 /\ q.status # "failed" /\ r \notin ToApply' => q.generated_tokens = a
                 /\ phase' \in {"apply", "finish"} /\ r \in ToApply' => q.generated_tokens = a + 1
  BY <1>1
<1>5. AppliedRight'
  BY <1>4 DEF AppliedRight, AppliedTokens
<1>. QED  BY <1>3, <1>5 DEF AInv

LEMMA EngineStepsApply ==
  ASSUME SInv, FinitelySubmitted', AInv, RunDecodeBatch \/ FailDecodeBatch
  PROVE  AInv'
<1>. DEFINE batch == local.decode_batch
<1>1. /\ phase = "run" /\ UNCHANGED stats /\ local \in Locals
      /\ batch \in Seq(Requests) /\ Range(batch) \subseteq InStatus({"decoding"})
  BY DEF RunDecodeBatch, FailDecodeBatch, SInv, HInv, Placed, Typed, Locals, Loops,
     BatchIsDecoding, Distinct
<1>2. Len(batch) \in Nat /\ DOMAIN batch = 1 .. Len(batch)
  BY <1>1, LenProperties
<1>3. ToApply = {}
  BY <1>1, ToApplyIs
<1>4. CASE RunDecodeBatch
  <2>1. PICK silent \in SUBSET Range(batch), eos \in SUBSET Range(batch) :
          local' = [local EXCEPT !.outputs =
                         [i \in 1 .. Len(batch) |->
                            [request_id |-> batch[i],
                             text |-> batch[i] \notin silent,
                             finished |-> Ends(batch[i], eos)]]]
    BY <1>4 DEF RunDecodeBatch
  <2>. DEFINE outputs == [i \in 1 .. Len(batch) |->
                            [request_id |-> batch[i],
                             text |-> batch[i] \notin silent,
                             finished |-> Ends(batch[i], eos)]]
  <2>2. local'.outputs = outputs
    BY <1>1, <2>1 DEF Locals
  <2>3. Len(outputs) = Len(batch) /\ \A i \in 1 .. Len(batch) : outputs[i].request_id = batch[i]
    BY <1>2
  <2>4. OutputsOf(outputs) = Range(batch)
    <3>. HIDE DEF batch, outputs
    <3>. QED  BY <1>2, <2>3 DEF OutputsOf, Range
  <2>5. /\ phase' = "apply"
        /\ request_state' = [r \in Requests |->
                               IF r \in Range(batch)
                               THEN [request_state[r] EXCEPT !.generated_tokens = @ + 1]
                               ELSE request_state[r]]
    BY <1>4 DEF RunDecodeBatch
  <2>6. ToApply' = Range(batch)
    BY <2>2, <2>4, <2>5, ToApplyIs
  <2>7. PICK b : b = Range(batch)
    OBVIOUS
  <2>. HIDE DEF batch, outputs
  <2>. QED  BY <1>1, <1>3, <2>5, <2>6, <2>7, DecodeApplies
<1>5. CASE FailDecodeBatch
  <2>1. PICK k \in 0 .. Len(batch) :
          request_state' =
            [r \in Requests |->
               IF \E i \in 1 .. k : batch[i] = r
               THEN [request_state[r] EXCEPT !.generated_tokens = @ + 1]
               ELSE request_state[r]]
    BY <1>5 DEF FailDecodeBatch
  <2>2. phase' = "fail" /\ local' = local
    BY <1>5 DEF FailDecodeBatch
  <2>3. PICK b : b = Range(batch)
    OBVIOUS
  <2>4. ToApply' = b
    BY <2>2, <2>3, ToApplyIs
  <2>. HIDE DEF batch
  <2>5. PICK counted \in SUBSET b : \A r : r \in counted <=> \E i \in 1 .. k : batch[i] = r
    <3>1. {batch[i] : i \in 1 .. k} \subseteq b
      BY <1>2, <2>3 DEF Range
    <3>2. \A r : r \in {batch[i] : i \in 1 .. k} <=> \E i \in 1 .. k : batch[i] = r
      OBVIOUS
    <3>. QED  BY <3>1, <3>2
  <2>6. request_state' =
            [r \in Requests |->
               IF r \in counted
               THEN [request_state[r] EXCEPT !.generated_tokens = @ + 1]
               ELSE request_state[r]]
    BY <2>1, <2>5
  <2>. QED  BY <1>1, <1>3, <2>2, <2>3, <2>4, <2>6, DecodeApplies
<1>. QED  BY <1>4, <1>5

(* The scheduler catches up with the engine, for one request.               *)
LEMMA ApplyOutputApplies ==
  ASSUME SInv, FinitelySubmitted, AInv, ApplyOutput
  PROVE  AInv'
<1>. DEFINE outputs == local.outputs
            output == Head(outputs)
            r == output.request_id
            q == request_state[r]
            p == request_state'[r]
<1>1. /\ phase = "apply" /\ outputs # << >> /\ local \in Locals
      /\ stats' = [stats EXCEPT !.tokens_generated = @ + 1]
      /\ request_state' = [request_state EXCEPT ![r] = WithOutput(@, output)]
      /\ \/ phase' = "finish" /\ local' = local
         \/ phase' = "apply" /\ local'.outputs = Tail(outputs)
  BY DEF ApplyOutput, Goto, SInv, HInv, Placed, Typed, Locals
<1>2. /\ r \in Requests /\ q.status = "decoding" /\ outputs \in Seq(Outputs)
      /\ Len(outputs) \in Nat /\ 1 \in 1 .. Len(outputs) /\ output = outputs[1]
      /\ OutputsOf(outputs) \ {r} \subseteq OutputsOf(Tail(outputs))
  BY <1>1, OutputsRest DEF SInv
<1>3. /\ r \notin OutputsOf(Tail(outputs))
      /\ OutputsOf(Tail(outputs)) \subseteq OutputsOf(outputs)
  <2>1. OneOutputEach(outputs)
    BY <1>1 DEF SInv, HInv, Placed, Loops, OutputsAreDecoding
  <2>2. OutputsOf(Tail(outputs)) \subseteq OutputsOf(outputs) \ {r}
    BY <1>1, <1>2, <2>1, OutputsTail
  <2>. QED  BY <2>2
<1>4. ToApply = OutputsOf(outputs) /\ ToApply' = OutputsOf(Tail(outputs)) /\ r \in ToApply
  <2>1. ToApply = OutputsOf(outputs) /\ ToApply' = OutputsOf(Tail(outputs))
    BY <1>1, ToApplyIs
  <2>. QED  BY <1>2, <2>1 DEF OutputsOf
<1>5. /\ AppliedTokens(q) \in Nat /\ q.generated_tokens = AppliedTokens(q) + 1
      /\ q \in RequestRecords
  BY <1>1, <1>2, <1>4, AppliedTyped DEF AInv, AppliedRight, SInv, HInv, Placed, Typed
<1>6. /\ p.num_computed_tokens = q.prompt_tokens + q.generated_tokens
      /\ p.prompt_tokens = q.prompt_tokens /\ p.generated_tokens = q.generated_tokens
      /\ p.status = q.status
      /\ \A x \in Requests : x # r => request_state'[x] = request_state[x]
  <2>1. p = WithOutput(q, output) /\ \A x \in Requests : x # r => request_state'[x] = request_state[x]
    BY <1>1, <1>2 DEF SInv, HInv, Placed, Typed
  <2>. DEFINE queue == IF output.text THEN Append(q.output_queue, Text) ELSE q.output_queue
  <2>2. p = [q EXCEPT !.output_queue = queue,
                      !.num_computed_tokens = q.prompt_tokens + q.generated_tokens]
    BY <1>5, <2>1 DEF WithOutput, RequestRecords
  <2>. HIDE DEF queue, q, p
  <2>. QED  BY <1>5, <2>1, <2>2 DEF RequestRecords
<1>7. AppliedTokens(p) = q.generated_tokens
  <2>1. /\ q.prompt_tokens \in Nat /\ q.generated_tokens \in Nat /\ q.generated_tokens > 0
    BY <1>5 DEF RequestRecords
  <2>. HIDE DEF p, q
  <2>. QED  BY <1>6, <2>1 DEF AppliedTokens
<1>8. stats'.tokens_generated = stats.tokens_generated + 1
  BY <1>1 DEF SInv, HInv, Placed, Typed, Counters
<1>. HIDE DEF outputs, output, r
<1>9. AppliedRight'
  <2>. HIDE DEF p, q
  <2>1. ASSUME NEW x \in Requests
        PROVE  LET s == request_state'[x]
                   a == AppliedTokens(s)
               IN  /\ s.generated_tokens = a \/ s.generated_tokens = a + 1
                   /\ s.status # "failed" /\ x \notin ToApply' => s.generated_tokens = a
                   /\ phase' \in {"apply", "finish"} /\ x \in ToApply' => s.generated_tokens = a + 1
    <3>1. CASE x = r
      BY <1>3, <1>4, <1>6, <1>7, <3>1 DEF p
    <3>2. CASE x # r
      <4>1. request_state'[x] = request_state[x] /\ (x \in ToApply' <=> x \in ToApply)
        BY <1>2, <1>3, <1>4, <1>6, <3>2
      <4>. QED  BY <1>1, <4>1 DEF AInv, AppliedRight
    <3>. QED  BY <3>1, <3>2
  <2>. QED  BY <2>1 DEF AppliedRight, AppliedTokens
<1>10. AppliedAdd'
  <2>1. /\ Submitted' = Submitted /\ Submitted \in SUBSET Requests /\ r \in Submitted
        /\ IsFiniteSet(Submitted)
    <3>1. \A x \in Requests : request_state'[x].status = request_state[x].status
      BY <1>6 DEF p, q
    <3>. QED  BY <1>2, <3>1 DEF Submitted, Status, q, FinitelySubmitted
  <2>2. PICK before \in [Requests -> Nat] : before = AppliedCounts
    BY AppliedTyped
  <2>3. \A x \in Requests : AppliedTokens(request_state'[x])
            = IF x \in {r} THEN before[x] + 1 ELSE before[x]
    BY <1>2, <1>5, <1>6, <1>7, <2>2 DEF AppliedCounts, p, q
  <2>4. PICK later \in [Requests -> Nat] : later = AppliedCounts'
    <3>1. \A x \in Requests : AppliedTokens(request_state'[x]) \in Nat
      BY <2>2, <2>3
    <3>2. AppliedCounts' \in [Requests -> Nat]
      BY <3>1 DEF AppliedCounts, AppliedTokens
    <3>. QED  BY <3>2
  <2>5. \A x \in Requests : later[x] = IF x \in {r} THEN before[x] + 1 ELSE before[x]
    <3>1. later = [x \in Requests |-> AppliedTokens(request_state'[x])]
      BY <2>4 DEF AppliedCounts, AppliedTokens
    <3>2. \A x \in Requests : later[x] = AppliedTokens(request_state'[x])
      BY <3>1
    <3>. QED  BY <2>3, <3>2
  <2>6. PICK U \in SUBSET Requests : U = Submitted /\ IsFiniteSet(U)
    BY <2>1
  <2>7. SumFunctionOnSet(later, U) = SumFunctionOnSet(before, U) + 1
    <3>1. PICK s \in Requests : s = r /\ s \in U
      BY <2>1, <2>6
    <3>2. \A x \in Requests : later[x] = IF x = s THEN before[x] + 1 ELSE before[x]
      BY <2>5, <3>1
    <3>. QED  BY <2>6, <3>1, <3>2, SumOfOneChange
  <2>9. stats.tokens_generated = SumFunctionOnSet(before, U)
    BY <2>2, <2>6 DEF AInv, AppliedAdd
  <2>10. AppliedAdd' <=> stats'.tokens_generated = SumFunctionOnSet(later, U)
    BY <2>1, <2>4, <2>6 DEF AppliedAdd
  <2>. QED  BY <1>8, <2>7, <2>9, <2>10
<1>. QED  BY <1>9, <1>10 DEF AInv

LEMMA AInvInvariant == Spec => []AInv
<1>1. Init => AInv
  <2>. SUFFICES ASSUME Init  PROVE AInv
    OBVIOUS
  <2>1. /\ stats.tokens_generated = 0 /\ phase = "idle"
        /\ \A r \in Requests : request_state[r] = Unborn
    BY DEF Init, Counters
  <2>2. /\ Unborn.status = "new" /\ Unborn.generated_tokens = 0
        /\ AppliedTokens(Unborn) = 0
    BY DEF Unborn, NewRequestState, AppliedTokens
  <2>3. AppliedRight
    BY <2>1, <2>2 DEF AppliedRight
  <2>4. SumFunctionOnSet(AppliedCounts, {}) = 0
    <3>1. AppliedCounts \in [Requests -> Nat]
      BY <2>1, <2>2 DEF AppliedCounts
    <3>. QED  BY <3>1, SumProperties, FS_EmptySet
  <2>5. Submitted = {}
    BY <2>1, <2>2 DEF Submitted, Status
  <2>. QED  BY <2>1, <2>3, <2>4, <2>5 DEF AInv, AppliedAdd
<1>2. ASSUME CInv, FinitelySubmitted', AInv, Next  PROVE AInv'
  <2>1. SInv /\ Ledger /\ FinitelySubmitted
    BY <1>2, SubmittedFinite DEF CInv, TInv, SInv, Balanced, Ledger
  <2>. QED  BY <1>2, <2>1, ApplyOutputApplies, EngineStepsApply, OtherStepsApply
<1>3. ASSUME AInv, UNCHANGED vars  PROVE AInv'
  BY <1>3 DEF vars, AInv, AppliedRight, AppliedAdd, AppliedCounts, Submitted, Status, ToApply,
     OutputsOf, Range
<1>4. CInv /\ FinitelySubmitted' /\ AInv /\ [Next]_vars => AInv'
  BY <1>2, <1>3
<1>5. CInv => FinitelySubmitted
  BY SubmittedFinite DEF CInv, TInv, SInv
<1>. QED  BY <1>1, <1>4, <1>5, CInvInvariant, PTL DEF Spec

-----------------------------------------------------------------------------
(* The theorem *)

(* Between steps the engine is a token ahead only for requests that failed. *)
LEMMA AppliedCountsAgree ==
  ASSUME SInv, AInv
  PROVE  TokenCountsAgree
<1>1. \A r \in Requests : TokensApplied(r) = AppliedTokens(request_state[r])
  BY DEF TokensApplied, AppliedTokens
<1>2. [r \in Requests |-> TokensApplied(r)] = AppliedCounts
  BY <1>1 DEF AppliedCounts
<1>3. phase = "idle" => ToApply = {}
  BY ToApplyIs
<1>4. ASSUME NEW r \in Requests
      PROVE  LET ahead == request_state[r].generated_tokens - TokensApplied(r)
             IN  /\ ahead \in {0, 1}
                 /\ phase = "idle" /\ ahead = 1 => Status(r) = "failed"
  <2>1. AppliedTokens(request_state[r]) \in Nat
    BY AppliedTyped
  <2>. DEFINE made == request_state[r].generated_tokens
              applied == AppliedTokens(request_state[r])
  <2>2. made = applied \/ made = applied + 1
    BY DEF AInv, AppliedRight
  <2>3. phase = "idle" => made = applied \/ Status(r) = "failed"
    BY <1>3 DEF AInv, AppliedRight, Status
  <2>4. TokensApplied(r) = applied
    BY <1>1
  <2>. HIDE DEF made, applied
  <2>5. /\ made - applied \in {0, 1}
        /\ phase = "idle" /\ made - applied = 1 => Status(r) = "failed"
    BY <2>1, <2>2, <2>3 DEF applied
  <2>. QED  BY <2>4, <2>5 DEF made
<1>. QED  BY <1>2, <1>4 DEF TokenCountsAgree, AInv, AppliedAdd

(* Whatever fails, stalls or is evicted, /health adds up: each request that *)
(* ended was recorded once, with the status it has; admissions, finishes    *)
(* and failures balance with the slots; /health counts exactly the tokens   *)
(* that were applied, and the engine is ahead only for requests that fail   *)
(* in the step or whose output is still to be applied.                      *)
THEOREM CountersAddUp == Spec => []CountersBalance
<1>1. ASSUME CInv, AInv  PROVE CountersBalance
  <2>1. /\ stats \in [Counters -> Nat] /\ SInv
        /\ Len(local.stalled) \in Nat
    BY <1>1, LenProperties DEF CInv, TInv, SInv, HInv, Placed, Typed, Locals
  <2>2. TokenCountsAgree
    BY <1>1, <2>1, AppliedCountsAgree
  <2>3. /\ stats.kv_oom_evictions <= stats.kv_allocation_failures
        /\ stats.kv_allocation_failures <= stats.decode_stalls
    BY <1>1, <2>1 DEF CInv, Balanced, StallsAdd, Counters
  <2>4. MetricsRight /\ AdmissionsAdd
    BY <1>1 DEF CInv, Balanced
  <2>. QED  BY <2>2, <2>3, <2>4 DEF CountersBalance, MetricsRight, AdmissionsAdd,
             Finishes, FailedInSlot, InStatus
<1>. QED  BY <1>1, CInvInvariant, AInvInvariant, PTL

-----------------------------------------------------------------------------
(* Evictions *)

(* What the admission check found is true as long as the request has its    *)
(* slot: the pool could hold its prompt and its whole output.               *)
AdmittedFit ==
  \A r \in InSlot :
    KV!BlocksNeeded(request_state[r].prompt_tokens + request_state[r].max_new_tokens)
      <= TotalBlocks

(* A stalled request took what was left of the pool, and it was too little. *)
StalledAreShort ==
  phase = "ensure" /\ local.stalled # << >> =>
    /\ free_blocks = << >>
    /\ \A r \in Range(local.stalled) :
         Len(block_tables[r]) < KV!BlocksNeeded(TokenPosition(r) + 1)

Cramped == AdmittedFit /\ StalledAreShort

EInv == CInv /\ Cramped

(* A pool of TotalBlocks blocks, and no deque longer than that.             *)
LEMMA PoolSize ==
  ASSUME BlocksInOnePlace
  PROVE  /\ Cardinality(KV!Blocks) = TotalBlocks
         /\ Len(free_blocks) \in Nat /\ Len(free_blocks) <= TotalBlocks
<1>1. IsFiniteSet(KV!Blocks) /\ Cardinality(KV!Blocks) = TotalBlocks
  <2>1. 0 \in Int /\ TotalBlocks - 1 \in Int /\ TotalBlocks \in Nat /\ TotalBlocks # 0
    BY PoolAssumption
  <2>2. IsFiniteSet(0 .. TotalBlocks - 1)
    BY <2>1, FS_Interval
  <2>3. Cardinality(0 .. TotalBlocks - 1) = TotalBlocks
    BY <2>1, FS_Interval
  <2>. QED  BY <2>2, <2>3 DEF KV!Blocks
<1>2. free_blocks \in Seq(KV!Blocks) /\ IsInjective(free_blocks)
  BY DEF BlocksInOnePlace, Partition
<1>3. Cardinality(Range(free_blocks)) = Len(free_blocks) /\ Len(free_blocks) \in Nat
  BY <1>2, CountingMembers, LenProperties
<1>4. Range(free_blocks) \subseteq KV!Blocks
  BY <1>2, LenProperties DEF Range
<1>5. Cardinality(Range(free_blocks)) <= Cardinality(KV!Blocks)
  BY <1>1, <1>4, FS_Subset
<1>. QED  BY <1>1, <1>3, <1>5

(* Only an admission puts a request in a slot, and nothing else changes the *)
(* tokens the admission counted.                                            *)
LEMMA ShapesStay ==
  ASSUME SInv, stats \in [Counters -> Nat], Next, ~ AdmitOne
  PROVE  /\ InSlot' \subseteq InSlot
         /\ \A x \in InSlot :
              /\ request_state'[x].prompt_tokens = request_state[x].prompt_tokens
              /\ request_state'[x].max_new_tokens = request_state[x].max_new_tokens
<1>. DEFINE Same(x) ==
              /\ request_state'[x].prompt_tokens = request_state[x].prompt_tokens
              /\ request_state'[x].max_new_tokens = request_state[x].max_new_tokens
<1>1. request_state \in [Requests -> RequestRecords] /\ InSlot \subseteq Requests
  BY DEF SInv, HInv, IInv, Placed, Typed, SlotsTyped, InSlot
<1>2. ASSUME UNCHANGED slots  PROVE InSlot' \subseteq InSlot
  BY <1>2 DEF InSlot, SlotIndices
<1>3. CASE \/ FailAdmission \/ FailPrefill \/ EvictOneStalledRequest
           \/ FinishRequest \/ FailOneOfBatch
  <2>1. PICK r \in Requests, status \in Ended : EndRequest(r, status)
    BY <1>3, EndingSteps
  <2>2. InSlot' = InSlot \ {r}
    BY <2>1, EndingKeeps DEF SInv, HInv
  <2>3. \A x \in Requests : Same(x)
    BY <1>1, <2>1 DEF EndRequest, RequestRecords
  <2>. QED  BY <1>1, <2>2, <2>3
<1>4. CASE \/ BeginStep \/ DrainEmpty \/ AdmitPass \/ AdmitPassDone
           \/ PlanPrefill \/ BeginDecode \/ ChooseBatch \/ AllApplied \/ AllFailed
           \/ \E r \in Requests : EnsureStalled(r)
  <2>1. UNCHANGED <<request_state, slots>>
    BY <1>4 DEF BeginStep, DrainEmpty, AdmitPass, AdmitPassDone, PlanPrefill, BeginDecode,
       ChooseBatch, AllApplied, AllFailed, EnsureStalled
  <2>. QED  BY <1>2, <2>1
<1>5. CASE DrainOne \/ DeferOne
  <2>1. UNCHANGED slots /\ \E r : request_state' = [request_state EXCEPT ![r].status = "waiting"]
    BY <1>5 DEF DrainOne, DeferOne
  <2>2. \A x \in Requests : Same(x)
    BY <1>1, <2>1 DEF RequestRecords
  <2>. QED  BY <1>1, <1>2, <2>1, <2>2
<1>6. CASE PrefillChunk
  <2>1. /\ UNCHANGED slots
        /\ \E r, end, status : request_state' = [request_state EXCEPT
                             ![r].num_computed_tokens = end,
                             ![r].generated_tokens = 0,
                             ![r].status = status]
    <3>. DEFINE r == Head(local.work_plan).request_state
                end == ChunkEnd(r, Head(local.work_plan).num_scheduled_tokens)
                status == IF end = request_state[r].prompt_tokens
                          THEN "decoding" ELSE request_state[r].status
    <3>1. UNCHANGED slots /\ request_state' = [request_state EXCEPT
                             ![r].num_computed_tokens = end,
                             ![r].generated_tokens = 0,
                             ![r].status = IF end = request_state[r].prompt_tokens
                                           THEN "decoding" ELSE @]
      BY <1>6 DEF PrefillChunk
    <3>2. r \in Requests
      BY <1>6, ChunkIsPrefilling DEF PrefillChunk, SInv
    <3>. HIDE DEF r, end
    <3>3. request_state' = [request_state EXCEPT
                             ![r].num_computed_tokens = end,
                             ![r].generated_tokens = 0,
                             ![r].status = status]
      BY <1>1, <3>1, <3>2 DEF RequestRecords
    <3>. QED  BY <3>1, <3>3
  <2>2. \A x \in Requests : Same(x)
    BY <1>1, <2>1 DEF RequestRecords
  <2>. QED  BY <1>1, <1>2, <2>1, <2>2
<1>7. CASE \E r \in Requests : EnsureRunnable(r)
  <2>1. /\ UNCHANGED slots
        /\ \E r, table : request_state' = [request_state EXCEPT ![r].block_table = table]
    BY <1>7 DEF EnsureRunnable
  <2>2. \A x \in Requests : Same(x)
    BY <1>1, <2>1 DEF RequestRecords
  <2>. QED  BY <1>1, <1>2, <2>1, <2>2
<1>8. CASE RunDecodeBatch \/ FailDecodeBatch
  <2>1. \A q \in RequestRecords :
           /\ [q EXCEPT !.generated_tokens = @ + 1].prompt_tokens = q.prompt_tokens
           /\ [q EXCEPT !.generated_tokens = @ + 1].max_new_tokens = q.max_new_tokens
    BY DEF RequestRecords
  <2>2. \A x \in Requests :
           \/ request_state'[x] = request_state[x]
           \/ request_state'[x] = [request_state[x] EXCEPT !.generated_tokens = @ + 1]
    <3>1. CASE RunDecodeBatch
      BY <3>1 DEF RunDecodeBatch
    <3>2. CASE FailDecodeBatch
      BY <3>2 DEF FailDecodeBatch
    <3>. QED  BY <1>8, <3>1, <3>2
  <2>3. \A x \in Requests : Same(x)
    BY <1>1, <2>1, <2>2
  <2>4. UNCHANGED slots
    BY <1>8 DEF RunDecodeBatch, FailDecodeBatch
  <2>. QED  BY <1>1, <1>2, <2>3, <2>4
<1>9. CASE ApplyOutput
  <2>. DEFINE output == Head(local.outputs)
              r == output.request_id
  <2>1. r \in Requests
    BY <1>9, OutputsRest DEF ApplyOutput, SInv
  <2>2. UNCHANGED slots /\ request_state' = [request_state EXCEPT ![r] = WithOutput(@, output)]
    BY <1>9 DEF ApplyOutput
  <2>. HIDE DEF output, r
  <2>3. \A x \in Requests : Same(x)
    BY <1>1, <2>1, <2>2 DEF RequestRecords, WithOutput
  <2>. QED  BY <1>1, <1>2, <2>2, <2>3
<1>10. CASE \E r \in Requests : Submit(r)
  <2>1. PICK r \in Requests : Submit(r)
    BY <1>10
  <2>2. UNCHANGED slots /\ \A x \in Requests : x # r => request_state'[x] = request_state[x]
    BY <1>1, <2>1 DEF Submit
  <2>3. r \notin InSlot
    BY <2>1 DEF Submit, SInv, HInv, Placed, Homes, InStatus
  <2>. QED  BY <1>1, <1>2, <2>2, <2>3
<1>. QED  BY <1>3, <1>4, <1>5, <1>6, <1>7, <1>8, <1>9, <1>10
          DEF Next, Step, EngineStep, StepWithoutEngine

(* The admission check covers prompt and output.                            *)
LEMMA AdmittedFitKept ==
  ASSUME SInv, stats \in [Counters -> Nat], AdmittedFit, Next
  PROVE  AdmittedFit'
<1>1. CASE ~ AdmitOne
  BY <1>1, ShapesStay DEF AdmittedFit
<1>2. CASE AdmitOne
  <2>. DEFINE r == Candidate
              n == request_state[r].prompt + request_state[r].max_new_tokens
  <2>1. r \in Requests /\ request_state \in [Requests -> RequestRecords]
    BY <1>2, CandidateWaits DEF AdmitOne, SInv, HInv, Placed, Typed
  <2>2. InSlot' = InSlot \cup {r} /\ r \notin InSlot /\ InSlot \subseteq Requests
    BY <1>2, AdmissionKeeps DEF SInv, HInv, IInv, SlotsTyped, InSlot
  <2>3. KV!BlocksNeeded(n) <= TotalBlocks
    <3>1. n \in Nat
      BY <2>1 DEF RequestRecords
    <3>2. KV!BlocksNeeded(n) <= Len(free_blocks)
      <4>1. Len(free_blocks) >= KV!BlocksNeeded(n)
        BY <1>2 DEF AdmitOne, FitsNow, KV!CanAllocateTokens, KV!CanAllocateBlocks,
           KV!FreeBlockCount
      <4>2. KV!BlocksNeeded(n) \in Nat /\ Len(free_blocks) \in Nat
        BY <3>1, BlocksNeededNat, PoolSize DEF SInv, HInv, IInv
      <4>. QED  BY <4>1, <4>2
    <3>3. KV!BlocksNeeded(n) \in Nat
      BY <3>1, BlocksNeededNat
    <3>4. Len(free_blocks) <= TotalBlocks /\ Len(free_blocks) \in Nat
      BY PoolSize DEF SInv, HInv, IInv
    <3>. QED  BY <3>2, <3>3, <3>4, PoolAssumption
  <2>. DEFINE table == block_tables'[r]
  <2>4. request_state' = [request_state EXCEPT
                             ![r].status = "prefill",
                             ![r].block_table = table,
                             ![r].prompt_tokens = request_state[r].prompt]
    BY <1>2 DEF AdmitOne
  <2>. HIDE DEF table, r
  <2>5. /\ request_state'[r].prompt_tokens + request_state'[r].max_new_tokens = n
        /\ \A x \in Requests : x # r => request_state'[x] = request_state[x]
    BY <2>1, <2>4 DEF RequestRecords
  <2>. SUFFICES ASSUME NEW x \in InSlot'
                PROVE  KV!BlocksNeeded(request_state'[x].prompt_tokens
                                         + request_state'[x].max_new_tokens) <= TotalBlocks
    BY DEF AdmittedFit, KV!BlocksNeeded
  <2>6. CASE x = r
    BY <2>3, <2>5, <2>6
  <2>7. CASE x # r
    BY <2>2, <2>5, <2>7 DEF AdmittedFit
  <2>. QED  BY <2>6, <2>7
<1>. QED  BY <1>1, <1>2

(* What ensure_capacity_for_token takes from the pool.                      *)
LEMMA GrowingPool ==
  ASSUME TInv, NEW r \in Requests, EnsureCapacity(r)
  PROVE  /\ \A x \in KV!Owners : x # r => block_tables'[x] = block_tables[x]
         /\ free_blocks = << >> => free_blocks' = << >>
         /\ ~ KV!CapacityAvailable(r, TokenPosition(r)) =>
              /\ free_blocks' = << >>
              /\ Len(block_tables'[r]) < KV!BlocksNeeded(TokenPosition(r) + 1)
<1>. DEFINE table == block_tables[r]
            need == KV!BlocksNeeded(TokenPosition(r) + 1)
            missing == KV!MissingBlocks(r, TokenPosition(r))
            n == Len(free_blocks)
            k == IF missing <= n THEN missing ELSE n
            new == SubSeq(free_blocks, 1, k)
<1>1. /\ block_tables' = [block_tables EXCEPT ![r] = table \o new]
      /\ free_blocks' = SubSeq(free_blocks, k + 1, n)
      /\ r \in KV!Owners
  BY DEF EnsureCapacity, KV!EnsureCapacityForToken, KV!Extend, KV!FirstFree, KV!AfterPop,
     KV!FreeBlockCount
<1>2. /\ free_blocks \in Seq(KV!Blocks) /\ n \in Nat
      /\ block_tables \in [KV!Owners -> Seq(KV!Blocks)]
      /\ table \in Seq(KV!Blocks) /\ Len(table) \in Nat
  BY <1>1, LenProperties DEF TInv, SInv, HInv, IInv, BlocksInOnePlace, Partition, KV!Owners
<1>3. need \in Nat
  <2>1. r \in InSlot
    BY <1>1 DEF TInv, SInv, HInv, IInv, SlotsOwnTables
  <2>2. request_state[r].prompt_tokens \in Nat /\ request_state[r].generated_tokens \in Nat
    BY <2>1, InSlotTyped DEF TInv
  <2>3. TokenPosition(r) + 1 \in Nat
    BY <2>2 DEF TokenPosition
  <2>. QED  BY <2>3, BlocksNeededNat
<1>4. missing = IF need - Len(table) > 0 THEN need - Len(table) ELSE 0
  BY DEF KV!MissingBlocks
<1>5. KV!CapacityAvailable(r, TokenPosition(r)) <=> missing <= n
  BY DEF KV!CapacityAvailable, KV!FreeBlockCount
<1>6. \A x \in KV!Owners : x # r => block_tables'[x] = block_tables[x]
  BY <1>1, <1>2
<1>7. SubSeq(free_blocks, n + 1, n) = << >>
  BY <1>2, SubSeqEmpty
<1>. HIDE DEF need, missing
<1>8. ASSUME ~ KV!CapacityAvailable(r, TokenPosition(r))
      PROVE  free_blocks' = << >> /\ Len(block_tables'[r]) < need
  <2>1. missing \in Nat /\ missing > n
    <3>1. missing \in Nat
      <4>. HIDE DEF table
      <4>. QED  BY <1>2, <1>3, <1>4
    <3>. HIDE DEF n
    <3>. QED  BY <1>2, <1>5, <1>8, <3>1
  <2>2. k = n
    <3>. HIDE DEF n
    <3>. QED  BY <1>2, <2>1
  <2>3. Len(new) = n /\ new \in Seq(KV!Blocks)
    <3>1. n \in 0 .. Len(free_blocks)
      BY <1>2
    <3>2. SubSeq(free_blocks, 1, n) \in Seq(KV!Blocks) /\ Len(SubSeq(free_blocks, 1, n)) = n
      BY <1>2, <3>1, CutDeque
    <3>. QED  BY <2>2, <3>2
  <2>4. free_blocks' = << >>
    BY <1>1, <1>7, <2>2
  <2>5. block_tables'[r] = table \o new
    BY <1>1, <1>2
  <2>. HIDE DEF new, k
  <2>6. Len(table \o new) = Len(table) + n
    <3>. HIDE DEF table, n
    <3>1. Len(table \o new) = Len(table) + Len(new)
      BY <1>2, <2>3, ConcatProperties
    <3>. QED  BY <2>3, <3>1
  <2>7. Len(table) + n < need
    <3>. HIDE DEF table, n
    <3>. QED  BY <1>2, <1>3, <1>4, <2>1
  <2>. QED  BY <2>4, <2>5, <2>6, <2>7
<1>9. ASSUME free_blocks = << >>  PROVE free_blocks' = << >>
  <2>1. n = 0
    BY <1>9
  <2>2. CASE KV!CapacityAvailable(r, TokenPosition(r))
    <3>1. missing \in Nat
      <4>. HIDE DEF table
      <4>. QED  BY <1>2, <1>3, <1>4
    <3>2. k = 0
      BY <1>5, <2>1, <2>2, <3>1
    <3>. QED  BY <1>1, <1>7, <2>1, <3>2
  <2>. QED  BY <1>8, <2>2
<1>. QED  BY <1>6, <1>8, <1>9 DEF need

(* Nothing comes back to the pool while the step checks who can run.        *)
LEMMA StalledAreShortKept ==
  ASSUME TInv, StalledAreShort, Next
  PROVE  StalledAreShort'
<1>. DEFINE Short(r) == Len(block_tables[r]) < KV!BlocksNeeded(TokenPosition(r) + 1)
            Stalled == local.stalled
<1>1. /\ local \in Locals /\ request_state \in [Requests -> RequestRecords]
      /\ Stalled \in Seq(Requests)
      /\ Stalled # << >> => phase \in {"ensure", "run", "apply", "finish", "fail"}
  BY DEF TInv, SInv, HInv, Placed, Typed, Locals, Loops, NothingChecked
<1>2. ASSUME phase = "ensure"
      PROVE  /\ Range(Stalled) \subseteq InStatus({"decoding"})
             /\ Range(Stalled) \subseteq KV!Owners
             /\ Range(local.unchecked) \cap Range(Stalled) = {}
  <2>1. /\ Range(Stalled) \subseteq InStatus({"decoding"})
        /\ Range(local.unchecked) \cap Range(Stalled) = {}
    BY <1>2 DEF TInv, SInv, HInv, Placed, Loops, CheckedAreDecoding, Distinct
  <2>2. InStatus({"decoding"}) \subseteq KV!Owners
    BY DEF TInv, SInv, HInv, IInv, SlotsOwnTables, Placed, Homes, InStatus
  <2>. QED  BY <2>1, <2>2
<1>3. CASE phase' # "ensure"
  BY <1>3 DEF StalledAreShort
<1>4. CASE BeginDecode
  <2>1. phase = "prefill" /\ (local' = Idle
                              \/ local' = [local EXCEPT !.unchecked = DecodeReadyRequestStates])
    BY <1>4 DEF BeginDecode, EndStep
  <2>2. local'.stalled = << >>
    BY <1>1, <2>1 DEF Locals, Idle
  <2>. QED  BY <2>2 DEF StalledAreShort
<1>5. CASE \E r \in Requests : Submit(r)
  <2>1. PICK r \in Requests : Submit(r)
    BY <1>5
  <2>2. /\ UNCHANGED <<free_blocks, block_tables, phase, local>> /\ Status(r) = "new"
        /\ \A x \in Requests : x # r => request_state'[x] = request_state[x]
    BY <1>1, <2>1 DEF Submit, kv_vars
  <2>. SUFFICES ASSUME phase = "ensure", Stalled # << >>
                PROVE  /\ free_blocks = << >>
                       /\ \A x \in Range(Stalled) : Short(x)'
    BY <2>2 DEF StalledAreShort
  <2>3. ASSUME NEW x \in Range(Stalled)  PROVE Short(x)'
    <3>1. x \in Requests /\ x # r
      BY <1>2, <2>2 DEF InStatus
    <3>2. Short(x)
      BY DEF StalledAreShort
    <3>. QED  BY <2>2, <3>1, <3>2 DEF TokenPosition, KV!BlocksNeeded
  <2>. QED  BY <2>3 DEF StalledAreShort
<1>6. CASE \E r \in Requests : EnsureRunnable(r) \/ EnsureStalled(r)
  <2>1. PICK r \in Requests : EnsureRunnable(r) \/ EnsureStalled(r)
    BY <1>6
  <2>2. EnsureCapacity(r) /\ phase = "ensure" /\ phase' = "ensure"
    BY <2>1 DEF EnsureRunnable, EnsureStalled, EnsureCapacity
  <2>3. r \in Range(local.unchecked)
    <3>1. local.unchecked \in Seq(Requests) /\ local.unchecked # << >> /\ r = Head(local.unchecked)
      BY <1>1, <2>2 DEF EnsureCapacity, Locals
    <3>. QED  BY <3>1, TailOfDistinct
  <2>4. /\ \A x \in KV!Owners : x # r => block_tables'[x] = block_tables[x]
        /\ free_blocks = << >> => free_blocks' = << >>
        /\ ~ KV!CapacityAvailable(r, TokenPosition(r)) =>
              /\ free_blocks' = << >>
              /\ Len(block_tables'[r]) < KV!BlocksNeeded(TokenPosition(r) + 1)
    BY <2>2, GrowingPool
  <2>5. \A x \in Requests : /\ request_state'[x].prompt_tokens = request_state[x].prompt_tokens
                            /\ request_state'[x].generated_tokens
                                 = request_state[x].generated_tokens
    <3>. DEFINE table == block_tables'[r]
    <3>1. \/ UNCHANGED request_state
          \/ request_state' = [request_state EXCEPT ![r].block_table = table]
      BY <2>1 DEF EnsureRunnable, EnsureStalled
    <3>2. \A q \in RequestRecords :
            /\ [q EXCEPT !.block_table = table].prompt_tokens = q.prompt_tokens
            /\ [q EXCEPT !.block_table = table].generated_tokens = q.generated_tokens
      BY DEF RequestRecords
    <3>3. \/ UNCHANGED request_state
          \/ request_state' = [request_state EXCEPT ![r] = [request_state[r] EXCEPT !.block_table = table]]
      BY <3>1
    <3>. HIDE DEF table
    <3>. QED  BY <1>1, <3>2, <3>3
  <2>6. ASSUME NEW x \in Range(Stalled)  PROVE Short(x)'
    <3>1. x \in Requests /\ x # r /\ x \in KV!Owners
      BY <1>2, <2>2, <2>3 DEF InStatus
    <3>2. Short(x)
      <4>1. Stalled # << >>
        BY DEF Range
      <4>. QED  BY <2>2, <4>1 DEF StalledAreShort
    <3>. QED  BY <2>4, <2>5, <3>1, <3>2 DEF TokenPosition, KV!BlocksNeeded
  <2>7. CASE EnsureRunnable(r)
    <3>1. local'.stalled = local.stalled
      BY <1>1, <2>7 DEF EnsureRunnable, Locals
    <3>2. local'.stalled # << >> => free_blocks' = << >>
      BY <2>2, <2>4, <3>1 DEF StalledAreShort
    <3>. QED  BY <2>6, <3>1, <3>2 DEF StalledAreShort
  <2>8. CASE EnsureStalled(r)
    <3>1. local'.stalled = Append(local.stalled, r)
      BY <1>1, <2>8 DEF EnsureStalled, Locals
    <3>2. Range(local'.stalled) = Range(Stalled) \cup {r}
      BY <1>1, <3>1, AppendRange
    <3>3. free_blocks' = << >> /\ Short(r)'
      <4>1. ~ KV!CapacityAvailable(r, TokenPosition(r))
        BY <2>8 DEF EnsureStalled
      <4>. QED  BY <2>4, <2>5, <4>1 DEF TokenPosition, KV!BlocksNeeded
    <3>4. \A x \in Range(local'.stalled) : Short(x)'
      BY <2>6, <3>2, <3>3
    <3>. QED  BY <3>3, <3>4 DEF StalledAreShort
  <2>. QED  BY <2>1, <2>7, <2>8
<1>7. CASE \/ BeginStep \/ DrainOne \/ DrainEmpty
           \/ AdmitPass \/ AdmitOne \/ DeferOne \/ FailAdmission \/ AdmitPassDone
           \/ PlanPrefill \/ PrefillChunk \/ FailPrefill
           \/ EvictOneStalledRequest \/ ChooseBatch
           \/ ApplyOutput \/ FinishRequest \/ AllApplied \/ FailOneOfBatch \/ AllFailed
           \/ RunDecodeBatch \/ FailDecodeBatch
  <2>1. phase' # "ensure"
    BY <1>7 DEF BeginStep, DrainOne, DrainEmpty, AdmitPass, AdmitOne, DeferOne, FailAdmission,
       AdmitPassDone, PlanPrefill, PrefillChunk, FailPrefill, EvictOneStalledRequest,
       ChooseBatch, ApplyOutput, FinishRequest, AllApplied, FailOneOfBatch, AllFailed,
       RunDecodeBatch, FailDecodeBatch, Goto, EndStep, Admitting, Prefilling
  <2>. QED  BY <1>3, <2>1
<1>. QED  BY <1>4, <1>5, <1>6, <1>7 DEF Next, Step, EngineStep, StepWithoutEngine

(* The invariant holds of every behaviour of the scheduler.                 *)
LEMMA EInvInvariant == Spec => []EInv
<1>1. Init => Cramped
  <2>. SUFFICES ASSUME Init  PROVE Cramped
    OBVIOUS
  <2>1. InSlot = {} /\ phase = "idle"
    BY DEF Init, InSlot
  <2>. QED  BY <2>1 DEF Cramped, AdmittedFit, StalledAreShort
<1>2. ASSUME CInv, Cramped, Next  PROVE Cramped'
  <2>1. stats \in [Counters -> Nat]
    BY <1>2 DEF CInv, TInv, SInv, HInv, Placed, Typed
  <2>. QED  BY <1>2, <2>1, AdmittedFitKept, StalledAreShortKept DEF Cramped, CInv, TInv
<1>3. ASSUME Cramped, UNCHANGED vars  PROVE Cramped'
  <2>1. UNCHANGED <<request_state, slots, free_blocks, block_tables, phase, local>>
    BY <1>3 DEF vars, kv_vars
  <2>2. AdmittedFit'
    BY <1>3, <2>1 DEF Cramped, AdmittedFit, InSlot, SlotIndices, KV!BlocksNeeded
  <2>3. StalledAreShort'
    BY <1>3, <2>1 DEF Cramped, StalledAreShort, TokenPosition, KV!BlocksNeeded
  <2>. QED  BY <2>2, <2>3 DEF Cramped
<1>4. CInv /\ Cramped /\ [Next]_vars => Cramped'
  BY <1>2, <1>3
<1>5. CInv /\ Cramped => EInv
  BY DEF EInv
<1>. QED  BY <1>1, <1>4, <1>5, CInvInvariant, PTL DEF Spec

(* A request that is short of blocks although the pool is empty has company: *)
(* its own admission check covered all it may ever need.                     *)
LEMMA VictimsHaveCompany ==
  ASSUME EInv, phase = "ensure", local.unchecked = << >>, NEW r \in Range(local.stalled)
  PROVE  r \in InSlot /\ OccupiedSlotCount > 1 /\ Len(block_tables[r]) > 0
<1>. DEFINE q == request_state[r]
            table == block_tables[r]
            O == {i \in SlotIndices : slots[i] # NoRequest}
<1>1. /\ SInv /\ TInv /\ local.stalled # << >>
      /\ free_blocks = << >> /\ Len(table) < KV!BlocksNeeded(TokenPosition(r) + 1)
  <2>1. local.stalled # << >>
    BY DEF Range
  <2>. QED  BY <2>1 DEF EInv, CInv, TInv, Cramped, StalledAreShort
<1>2. r \in InSlot /\ q.status = "decoding"
  <2>1. r \in InStatus({"decoding"})
    BY <1>1 DEF SInv, HInv, Placed, Loops, CheckedAreDecoding, Distinct
  <2>. QED  BY <1>1, <2>1 DEF SInv, HInv, Placed, Homes, InStatus, Status
<1>3. /\ r \in KV!Owners /\ table \in Seq(KV!Blocks) /\ Len(table) \in Nat
      /\ q.prompt_tokens \in Nat /\ q.generated_tokens \in Nat /\ q.max_new_tokens \in Nat
  BY <1>1, <1>2, InSlotTyped
<1>4. q.prompt_tokens > 0 /\ q.generated_tokens < q.max_new_tokens
  <2>1. r \notin Uncounted /\ r \in Requests
    BY <1>1, <1>2, UncountedIs, InSlotTyped
  <2>2. RecordRight(q, r \notin Uncounted)
    BY <1>1, <2>1 DEF SInv, Counted, RecordsRight
  <2>. QED  BY <1>2, <2>1, <2>2 DEF RecordRight
<1>5. Len(table) > 0
  <2>1. KV!BlocksNeeded(q.prompt_tokens + q.generated_tokens) <= Len(table)
    BY <1>1, <1>2 DEF TInv, Roomy, HasRoom
  <2>2. KV!BlocksNeeded(q.prompt_tokens + q.generated_tokens) >= 1
    <3>1. PICK n \in Nat : n = q.prompt_tokens + q.generated_tokens /\ n >= 1
      <4>. HIDE DEF q
      <4>. QED  BY <1>3, <1>4
    <3>2. KV!BlocksNeeded(1) = 1
      <4>1. BlockSize \in Nat /\ BlockSize > 0 /\ 1 + BlockSize - 1 = BlockSize
        BY PoolAssumption
      <4>2. BlockSize \div BlockSize = 1
        BY <4>1
      <4>. QED  BY <4>1, <4>2 DEF KV!BlocksNeeded
    <3>3. KV!BlocksNeeded(1) <= KV!BlocksNeeded(n)
      BY <3>1, MoreTokensMoreBlocks
    <3>4. KV!BlocksNeeded(n) \in Nat
      BY BlocksNeededNat
    <3>. QED  BY <3>1, <3>2, <3>3, <3>4
  <2>3. KV!BlocksNeeded(q.prompt_tokens + q.generated_tokens) \in Nat
    <3>1. q.prompt_tokens + q.generated_tokens \in Nat
      <4>. HIDE DEF q
      <4>. QED  BY <1>3
    <3>. QED  BY <3>1, BlocksNeededNat
  <2>. HIDE DEF q, table
  <2>. QED  BY <1>3, <2>1, <2>2, <2>3
<1>6. Len(table) < TotalBlocks
  <2>1. KV!BlocksNeeded(q.prompt_tokens + q.max_new_tokens) <= TotalBlocks
    BY <1>2 DEF EInv, Cramped, AdmittedFit
  <2>. DEFINE m == q.prompt_tokens + q.generated_tokens + 1
              n == q.prompt_tokens + q.max_new_tokens
  <2>2. m \in Nat /\ n \in Nat /\ m <= n
    <3>. HIDE DEF q
    <3>. QED  BY <1>3, <1>4
  <2>3. TokenPosition(r) + 1 = m
    BY DEF TokenPosition
  <2>. HIDE DEF m, n
  <2>4. /\ KV!BlocksNeeded(m) \in Nat /\ KV!BlocksNeeded(n) \in Nat
        /\ KV!BlocksNeeded(m) <= KV!BlocksNeeded(n)
    BY <2>2, BlocksNeededNat, MoreTokensMoreBlocks
  <2>5. Len(table) < KV!BlocksNeeded(m) /\ KV!BlocksNeeded(n) <= TotalBlocks
    BY <1>1, <2>1, <2>3 DEF n
  <2>. HIDE DEF table
  <2>. QED  BY <1>3, <2>4, <2>5, PoolAssumption
<1>7. ASSUME InSlot = {r}  PROVE FALSE
  <2>1. KV!Owners = {r}
    BY <1>1, <1>7 DEF SInv, HInv, IInv, SlotsOwnTables
  <2>2. /\ IsInjective(table)
        /\ \A b \in KV!Blocks : b \in Range(free_blocks) \/ b \in Range(table)
    BY <1>1, <1>3, <2>1 DEF SInv, HInv, IInv, BlocksInOnePlace, Partition, KV!Owners
  <2>3. Range(free_blocks) = {}
    BY <1>1 DEF Range
  <2>4. Range(table) = KV!Blocks
    <3>1. Range(table) \subseteq KV!Blocks
      BY <1>3, LenProperties DEF Range
    <3>. QED  BY <2>2, <2>3, <3>1
  <2>5. Cardinality(Range(table)) = Len(table)
    BY <1>3, <2>2, CountingMembers
  <2>6. Cardinality(KV!Blocks) = TotalBlocks
    BY <1>1, PoolSize DEF SInv, HInv, IInv
  <2>. HIDE DEF table
  <2>. QED  BY <1>3, <1>6, <2>4, <2>5, <2>6, PoolAssumption
<1>8. OccupiedSlotCount > 1
  <2>1. PICK i \in SlotIndices : slots[i] = r /\ r # NoRequest
    BY <1>2 DEF InSlot
  <2>2. PICK x \in InSlot : x # r
    BY <1>2, <1>7
  <2>3. PICK j \in SlotIndices : slots[j] = x /\ x # NoRequest
    BY <2>2 DEF InSlot
  <2>4. i \in O /\ j \in O \ {i}
    BY <2>1, <2>2, <2>3
  <2>5. IsFiniteSet(O)
    <3>1. IsFiniteSet(SlotIndices)
      BY MaxSlotsAssumption, FS_Interval DEF SlotIndices
    <3>. QED  BY <3>1, FS_Subset
  <2>6. OccupiedSlotCount = Cardinality(O)
    BY DEF OccupiedSlotCount
  <2>. HIDE DEF O
  <2>7. /\ IsFiniteSet(O \ {i}) /\ Cardinality(O \ {i}) = Cardinality(O) - 1
        /\ Cardinality(O) \in Nat
    BY <2>4, <2>5, FS_RemoveElement, FS_CardinalityType
  <2>8. Cardinality(O \ {i}) # 0
    BY <2>4, <2>7, FS_EmptySet
  <2>9. Cardinality(O \ {i}) \in Nat
    BY <2>7, FS_CardinalityType
  <2>. QED  BY <2>6, <2>7, <2>8, <2>9
<1>. QED  BY <1>2, <1>5, <1>8

(* A request alone in the slots is never evicted, and an eviction always     *)
(* gives blocks back to the pool for the others.                             *)
THEOREM EvictionsHelpOthers == Spec => EvictionHelpsOthers
<1>1. ASSUME EInv, Next, Evicting, ~ EvictOneStalledRequest  PROVE FALSE
  <2>1. /\ stats \in [Counters -> Nat] /\ SInv /\ Ledger
    BY <1>1 DEF EInv, CInv, Balanced, Ledger, TInv, SInv, HInv, Placed, Typed
  <2>2. stats.kv_oom_evictions \in Nat
    BY <2>1 DEF Counters
  <2>3. stats'.kv_oom_evictions = stats.kv_oom_evictions
    <3>1. CASE \/ BeginStep \/ DrainOne \/ DrainEmpty
               \/ AdmitPass \/ DeferOne \/ AdmitPassDone
               \/ PlanPrefill \/ PrefillChunk \/ BeginDecode
               \/ \E r \in Requests : EnsureRunnable(r) \/ EnsureStalled(r)
               \/ ChooseBatch \/ ApplyOutput \/ AllApplied \/ AllFailed
               \/ \E r \in Requests : Submit(r)
      <4>1. SameCounts({"admitted_count", "early_finishes", "kv_oom_evictions"})
        BY <2>1, <3>1, QuietStepsRecords
      <4>. QED  BY <4>1 DEF SameCounts
    <3>2. CASE FailAdmission \/ FailPrefill \/ FailOneOfBatch \/ RunDecodeBatch \/ FailDecodeBatch
      BY <3>2 DEF FailAdmission, FailPrefill, FailOneOfBatch, RunDecodeBatch, FailDecodeBatch
    <3>3. CASE AdmitOne \/ FinishRequest
      BY <2>1, <3>3 DEF AdmitOne, FinishRequest, Counters
    <3>. QED  BY <1>1, <3>1, <3>2, <3>3 DEF Next, Step, EngineStep, StepWithoutEngine
  <2>. QED  BY <1>1, <2>2, <2>3 DEF Evicting
<1>2. ASSUME EInv, EvictOneStalledRequest
      PROVE  OccupiedSlotCount > 1 /\ Len(free_blocks') > Len(free_blocks)
  <2>. DEFINE r == Last(local.stalled)
  <2>1. /\ phase = "ensure" /\ local.unchecked = << >> /\ KV!Free(r)
        /\ local.stalled \in Seq(Requests) /\ local.stalled # << >>
    BY <1>2 DEF EvictOneStalledRequest, AllChecked, EndRequest, EInv, CInv, TInv, SInv, HInv,
       Placed, Typed, Locals, Loops, CheckedAreDecoding
  <2>2. r \in Range(local.stalled)
    <3>1. /\ Len(local.stalled) \in Nat /\ Len(local.stalled) # 0
          /\ DOMAIN local.stalled = 1 .. Len(local.stalled)
      BY <2>1, LenProperties, EmptySeq
    <3>. QED  BY <3>1 DEF Last, Range
  <2>. HIDE DEF r
  <2>3. r \in InSlot /\ OccupiedSlotCount > 1 /\ Len(block_tables[r]) > 0
    BY <1>2, <2>1, <2>2, VictimsHaveCompany
  <2>4. /\ r \in KV!Owners /\ block_tables[r] \in Seq(KV!Blocks) /\ Len(block_tables[r]) \in Nat
    BY <1>2, <2>3, InSlotTyped DEF EInv, CInv, TInv
  <2>5. free_blocks \in Seq(KV!Blocks) /\ Len(free_blocks) \in Nat
    BY <1>2, LenProperties DEF EInv, CInv, TInv, SInv, HInv, IInv, BlocksInOnePlace, Partition
  <2>6. free_blocks' = free_blocks \o block_tables[r]
    BY <2>1, <2>4 DEF KV!Free
  <2>7. Len(free_blocks') = Len(free_blocks) + Len(block_tables[r])
    BY <2>4, <2>5, <2>6, ConcatProperties
  <2>. QED  BY <2>3, <2>4, <2>5, <2>7
<1>3. EInv /\ [Next]_vars =>
        [Evicting => OccupiedSlotCount > 1 /\ Len(free_blocks') > Len(free_blocks)]_vars
  BY <1>1, <1>2
<1>. QED  BY <1>3, EInvInvariant, PTL DEF Spec, EvictionHelpsOthers

-----------------------------------------------------------------------------
(* The order of admissions *)

(* While a pass of the admission loop works off its selection, those ahead  *)
(* of the rest of it in the waiting list are too large for what is free.    *)
PassedDoNotFit ==
  phase = "admitting" =>
    \E d \in 0 .. Len(waiting) :
      /\ Stretch(waiting, d, local.selected)
      /\ \A i \in 1 .. d : ~ FitsNow(waiting[i])

OInv == HInv /\ PassedDoNotFit

(* FitsNow is false, of these free blocks and this request.                 *)
NoRoomFor(free, state) ==
  ~ (Len(free) >= KV!BlocksNeeded(state.prompt + state.max_new_tokens))

(* The pool only shrinks while the loop runs.                               *)
LEMMA StillNoRoom ==
  ASSUME HInv, NEW x \in Requests, ~ FitsNow(x),
         Len(free_blocks') \in Nat, Len(free_blocks') <= Len(free_blocks),
         request_state'[x].prompt = request_state[x].prompt,
         request_state'[x].max_new_tokens = request_state[x].max_new_tokens
  PROVE  ~ FitsNow(x)'
<1>. DEFINE n == request_state[x].prompt + request_state[x].max_new_tokens
<1>1. /\ KV!BlocksNeeded(n) \in Nat /\ Len(free_blocks) \in Nat
  <2>1. request_state \in [Requests -> RequestRecords]
    BY DEF HInv, Placed, Typed
  <2>2. n \in Nat
    BY <2>1 DEF RequestRecords
  <2>. QED  BY <2>2, BlocksNeededNat, PoolSize DEF HInv, IInv
<1>2. ~ (Len(free_blocks) >= KV!BlocksNeeded(n))
  BY DEF FitsNow, KV!CanAllocateTokens, KV!CanAllocateBlocks, KV!FreeBlockCount
<1>3. ~ (Len(free_blocks') >= KV!BlocksNeeded(n))
  BY <1>1, <1>2
<1>. QED  BY <1>3 DEF FitsNow, KV!CanAllocateTokens, KV!CanAllocateBlocks, KV!FreeBlockCount,
                      KV!BlocksNeeded

(* One turn of the loop: what it does to the line, the pool and the records. *)
LEMMA AdmissionTurn ==
  ASSUME HInv, AdmitOne \/ DeferOne \/ FailAdmission
  PROVE  /\ phase = "admitting" /\ local.selected # << >> /\ local.selected \in Seq(Requests)
         /\ local'.selected = Tail(local.selected)
         /\ waiting' = IF DeferOne THEN <<Candidate>> \o RemoveFirst(waiting, Candidate)
                       ELSE RemoveFirst(waiting, Candidate)
         /\ Len(free_blocks') \in Nat /\ Len(free_blocks') <= Len(free_blocks)
         /\ \A x \in Requests :
              /\ request_state'[x].prompt = request_state[x].prompt
              /\ request_state'[x].max_new_tokens = request_state[x].max_new_tokens
<1>. DEFINE c == Candidate
<1>1. /\ phase = "admitting" /\ local.selected # << >>
      /\ local.selected \in Seq(Requests) /\ local \in Locals
      /\ request_state \in [Requests -> RequestRecords]
      /\ Len(free_blocks) \in Nat /\ free_blocks \in Seq(KV!Blocks)
  BY LenProperties DEF AdmitOne, DeferOne, FailAdmission, Admitting, HInv, IInv, ListsTyped,
     BlocksInOnePlace, Partition, Placed, Typed
<1>2. c \in Requests /\ Status(c) = "waiting"
  BY CandidateWaits DEF AdmitOne, DeferOne, FailAdmission
<1>3. local'.selected = Tail(local.selected)
  BY <1>1 DEF AdmitOne, DeferOne, FailAdmission, Locals
<1>4. CASE AdmitOne
  <2>. DEFINE n == KV!BlocksNeeded(request_state[c].prompt)
              table == block_tables'[c]
  <2>1. /\ waiting' = RemoveFirst(waiting, c) /\ FitsNow(c)
        /\ Len(free_blocks) >= n
        /\ free_blocks' = SubSeq(free_blocks, n + 1, Len(free_blocks))
    BY <1>4 DEF AdmitOne, KV!AllocateForTokens, KV!AllocateBlocks, KV!CanAllocateBlocks,
       KV!AfterPop, KV!FreeBlockCount
  <2>2. n \in Nat
    BY <1>1, <1>2, BlocksNeededNat DEF RequestRecords
  <2>3. request_state' = [request_state EXCEPT
                             ![c].status = "prefill",
                             ![c].block_table = table,
                             ![c].prompt_tokens = request_state[c].prompt]
    BY <1>4 DEF AdmitOne
  <2>. HIDE DEF n, table, c
  <2>4. n \in 0 .. Len(free_blocks)
    BY <1>1, <2>1, <2>2
  <2>5. Len(free_blocks') = Len(free_blocks) - n
    BY <1>1, <2>1, <2>4, CutDeque
  <2>6. \A x \in Requests :
              /\ request_state'[x].prompt = request_state[x].prompt
              /\ request_state'[x].max_new_tokens = request_state[x].max_new_tokens
    BY <1>1, <1>2, <2>3 DEF RequestRecords
  <2>7. ~ DeferOne
    BY <2>1 DEF DeferOne, c
  <2>. QED  BY <1>1, <1>3, <2>1, <2>2, <2>4, <2>5, <2>6, <2>7 DEF c
<1>5. CASE DeferOne
  <2>1. /\ waiting' = <<c>> \o RemoveFirst(waiting, c) /\ UNCHANGED free_blocks
        /\ request_state' = [request_state EXCEPT ![c].status = "waiting"]
    BY <1>5 DEF DeferOne, kv_vars
  <2>. HIDE DEF c
  <2>2. \A x \in Requests :
              /\ request_state'[x].prompt = request_state[x].prompt
              /\ request_state'[x].max_new_tokens = request_state[x].max_new_tokens
    BY <1>1, <1>2, <2>1 DEF RequestRecords
  <2>. QED  BY <1>1, <1>3, <1>5, <2>1, <2>2 DEF c
<1>6. CASE FailAdmission /\ ~ DeferOne
  <2>1. waiting' = RemoveFirst(waiting, c) /\ EndRequest(c, "failed")
    BY <1>6 DEF FailAdmission
  <2>2. c \notin KV!Owners
    BY <1>2 DEF HInv, IInv, SlotsOwnTables, Placed, Homes, InStatus
  <2>3. UNCHANGED free_blocks
    BY <2>1, <2>2 DEF EndRequest, KV!Free, KV!vars
  <2>. HIDE DEF c
  <2>4. \A x \in Requests :
              /\ request_state'[x].prompt = request_state[x].prompt
              /\ request_state'[x].max_new_tokens = request_state[x].max_new_tokens
    BY <1>1, <1>2, <2>1 DEF EndRequest, RequestRecords
  <2>. QED  BY <1>1, <1>3, <1>6, <2>1, <2>3, <2>4 DEF c
<1>. QED  BY <1>4, <1>5, <1>6

LEMMA PassedKept ==
  ASSUME HInv, PassedDoNotFit, Next
  PROVE  PassedDoNotFit'
<1>. DEFINE Sel == local.selected
<1>0. /\ \A x \in Requests : ~ FitsNow(x)' => NoRoomFor(free_blocks', request_state'[x])
      /\ (\E d \in 0 .. Len(waiting') :
            /\ Stretch(waiting', d, local'.selected)
            /\ \A i \in 1 .. d : NoRoomFor(free_blocks', request_state'[waiting'[i]]))
           => PassedDoNotFit'
  BY DEF NoRoomFor, PassedDoNotFit, FitsNow, KV!CanAllocateTokens, KV!CanAllocateBlocks,
     KV!FreeBlockCount
<1>1. /\ waiting \in Seq(Requests) /\ IsInjective(waiting) /\ Len(waiting) \in Nat
      /\ local \in Locals /\ Sel \in Seq(Requests)
      /\ request_state \in [Requests -> RequestRecords]
      /\ DOMAIN waiting = 1 .. Len(waiting)
      /\ \A i \in 1 .. Len(waiting) : waiting[i] \in Requests /\ Status(waiting[i]) = "waiting"
  <2>1. /\ waiting \in Seq(Requests) /\ IsInjective(waiting) /\ local \in Locals
        /\ request_state \in [Requests -> RequestRecords]
    BY DEF HInv, IInv, ListsTyped, Placed, Typed, Homes
  <2>2. Len(waiting) \in Nat /\ DOMAIN waiting = 1 .. Len(waiting)
    BY <2>1, LenProperties
  <2>3. Range(waiting) \subseteq InStatus({"waiting"})
    BY DEF HInv, Placed, Homes
  <2>. QED  BY <2>1, <2>2, <2>3 DEF Locals, Range, InStatus
<1>2. CASE phase' # "admitting"
  BY <1>2 DEF PassedDoNotFit
<1>3. CASE AdmitPass /\ phase' = "admitting"
  <2>. DEFINE free == MaxSlots - OccupiedSlotCount
              n == IF free <= Len(waiting) THEN free ELSE Len(waiting)
  <2>1. n \in 0 .. Len(waiting)
    <3>1. free \in Nat
      BY CountingSlots
    <3>. QED  BY <1>1, <3>1
  <2>2. /\ waiting' = waiting
        /\ local' = [local EXCEPT !.selected = SelectAdmissions, !.admitted_any = FALSE]
    BY <1>3 DEF AdmitPass, Goto
  <2>3. local'.selected = SubSeq(waiting, 1, n)
    BY <1>1, <2>2 DEF Locals, SelectAdmissions
  <2>. HIDE DEF n
  <2>4. Len(SubSeq(waiting, 1, n)) = n /\ \A i \in 1 .. n : SubSeq(waiting, 1, n)[i] = waiting[i]
    <3>1. \A i \in 1 .. n : waiting[i] \in Requests
      BY <1>1, <2>1
    <3>2. \A j \in 1 .. n : SubSeq(waiting, 1, n)[j] = waiting[1 + j - 1]
      BY <1>1, <2>1, <3>1, SubSeqProperties
    <3>. QED  BY <1>1, <2>1, <3>2, CutDeque
  <2>5. Stretch(waiting, 0, local'.selected)
    BY <1>1, <2>1, <2>3, <2>4 DEF Stretch
  <2>. QED  BY <1>0, <1>1, <2>2, <2>5
<1>4. CASE (\E r \in Requests : Submit(r)) /\ phase' = "admitting"
  <2>1. PICK r \in Requests : Submit(r)
    BY <1>4
  <2>2. /\ UNCHANGED <<waiting, local, phase, free_blocks>> /\ Status(r) = "new"
        /\ \A x \in Requests : x # r => request_state'[x] = request_state[x]
    BY <1>1, <2>1 DEF Submit, kv_vars
  <2>3. PICK d \in 0 .. Len(waiting) :
          Stretch(waiting, d, Sel) /\ \A i \in 1 .. d : ~ FitsNow(waiting[i])
    BY <1>4, <2>2 DEF PassedDoNotFit
  <2>4. ASSUME NEW i \in 1 .. d  PROVE NoRoomFor(free_blocks', request_state'[waiting'[i]])
    <3>1. PICK x \in Requests : x = waiting[i] /\ x # r /\ ~ FitsNow(x)
      BY <1>1, <2>2, <2>3
    <3>2. ~ FitsNow(x)'
      BY <2>2, <3>1 DEF FitsNow, KV!CanAllocateTokens, KV!CanAllocateBlocks,
         KV!FreeBlockCount, KV!BlocksNeeded
    <3>. QED  BY <1>0, <2>2, <3>1, <3>2
  <2>. QED  BY <1>0, <2>2, <2>3, <2>4
<1>5. CASE (AdmitOne \/ DeferOne \/ FailAdmission) /\ phase' = "admitting"
  <2>. DEFINE c == Candidate
              rest == RemoveFirst(waiting, c)
  <2>1. /\ phase = "admitting" /\ Sel # << >> /\ c = Head(Sel)
        /\ local'.selected = Tail(Sel)
        /\ waiting' = IF DeferOne THEN <<c>> \o rest ELSE rest
        /\ Len(free_blocks') \in Nat /\ Len(free_blocks') <= Len(free_blocks)
        /\ \A x \in Requests :
              /\ request_state'[x].prompt = request_state[x].prompt
              /\ request_state'[x].max_new_tokens = request_state[x].max_new_tokens
    BY <1>5, AdmissionTurn DEF Candidate
  <2>2. PICK d \in 0 .. Len(waiting) :
          Stretch(waiting, d, Sel) /\ \A i \in 1 .. d : ~ FitsNow(waiting[i])
    BY <2>1 DEF PassedDoNotFit
  <2>3. /\ rest \in Seq(Requests) /\ Len(rest) = Len(waiting) - 1
        /\ d + 1 \in 1 .. Len(waiting) /\ waiting[d + 1] = c
        /\ Stretch(rest, d, Tail(Sel))
        /\ \A i \in 1 .. d : rest[i] = waiting[i]
    <3>. HIDE DEF c
    <3>1. Stretch(waiting, d, Sel) /\ d \in Nat
      BY <1>1, <2>2
    <3>2. waiting \in Seq(Requests) /\ IsInjective(waiting) /\ Sel \in Seq(Requests)
          /\ Sel # << >> /\ c = Head(Sel)
      BY <1>1, <2>1
    <3>. QED  BY <3>1, <3>2, WorkingOff
  <2>. HIDE DEF rest, c
  <2>4. ASSUME NEW x \in Requests, ~ FitsNow(x)  PROVE ~ FitsNow(x)'
    BY <2>1, <2>4, StillNoRoom
  <2>5. ASSUME NEW i \in 1 .. d  PROVE rest[i] \in Requests /\ ~ FitsNow(rest[i])
    <3>1. i \in 1 .. Len(waiting)
      BY <1>1, <2>3
    <3>. QED  BY <1>1, <2>2, <2>3, <3>1
  <2>6. CASE ~ DeferOne
    <3>1. waiting' = rest
      BY <2>1, <2>6
    <3>2. ASSUME NEW i \in 1 .. d  PROVE NoRoomFor(free_blocks', request_state'[waiting'[i]])
      <4>1. PICK x \in Requests : x = rest[i] /\ ~ FitsNow(x)
        BY <2>5
      <4>2. ~ FitsNow(x)'
        BY <2>4, <4>1
      <4>. QED  BY <1>0, <3>1, <4>1, <4>2
    <3>3. d \in 0 .. Len(waiting')
      BY <1>1, <2>3, <3>1
    <3>. QED  BY <1>0, <2>1, <2>3, <3>1, <3>2, <3>3
  <2>7. CASE DeferOne
    <3>. DEFINE line == <<c>> \o rest
    <3>0. waiting' = line
      BY <2>1, <2>7
    <3>1. c \in Requests /\ ~ FitsNow(c)
      BY <1>1, <2>3, <2>7 DEF DeferOne, c
    <3>2. <<c>> \in Seq(Requests) /\ Len(<<c>>) = 1 /\ <<c>>[1] = c
      BY <3>1
    <3>3. /\ Len(line) = 1 + Len(rest)
          /\ \A i \in 1 .. 1 + Len(rest) : line[i] = IF i <= 1 THEN <<c>>[i] ELSE rest[i - 1]
      BY <2>3, <3>2, ConcatProperties
    <3>. HIDE DEF line
    <3>4. Len(line) = Len(waiting) /\ line[1] = c
          /\ \A i \in 2 .. Len(waiting) : line[i] = rest[i - 1]
      BY <1>1, <2>3, <3>2, <3>3
    <3>5. ASSUME NEW i \in 1 .. d + 1  PROVE NoRoomFor(free_blocks', request_state'[waiting'[i]])
      <4>1. CASE i = 1
        <5>1. PICK x \in Requests : x = c /\ ~ FitsNow(x)
          BY <3>1
        <5>2. ~ FitsNow(x)'
          BY <2>4, <5>1
        <5>. QED  BY <1>0, <3>0, <3>4, <4>1, <5>1, <5>2
      <4>2. CASE i # 1
        <5>1. i \in 2 .. Len(waiting) /\ i - 1 \in 1 .. d
          BY <1>1, <2>3, <4>2
        <5>2. PICK x \in Requests : x = rest[i - 1] /\ ~ FitsNow(x)
          BY <2>5, <5>1
        <5>3. ~ FitsNow(x)'
          BY <2>4, <5>2
        <5>. QED  BY <1>0, <3>0, <3>4, <5>1, <5>2, <5>3
      <4>. QED  BY <4>1, <4>2
    <3>6. Stretch(line, d + 1, Tail(Sel))
      <4>1. Tail(Sel) \in Seq(Requests) /\ Len(Tail(Sel)) \in Nat
        BY <1>1, <2>1, HeadTailProperties, LenProperties
      <4>2. d + 1 + Len(Tail(Sel)) <= Len(line)
        <5>1. d \in Nat /\ d + Len(Tail(Sel)) <= Len(rest)
          BY <1>1, <2>3 DEF Stretch
        <5>2. PICK k \in Nat : k = Len(Tail(Sel))
          BY <4>1
        <5>3. /\ Len(line) = Len(waiting) /\ Len(rest) = Len(waiting) - 1
              /\ Len(waiting) \in Nat /\ d + k <= Len(rest)
          BY <1>1, <2>3, <3>4, <5>1, <5>2
        <5>4. d + 1 + k <= Len(line)
          BY <5>1, <5>3
        <5>. QED  BY <5>2, <5>4
      <4>3. ASSUME NEW i \in 1 .. Len(Tail(Sel))  PROVE line[d + 1 + i] = Tail(Sel)[i]
        <5>1. d + 1 + i \in 2 .. Len(waiting) /\ d + 1 + i - 1 = d + i
          <6>1. d \in Nat /\ i \in 1 .. Len(Tail(Sel)) /\ Len(line) = Len(waiting)
            BY <1>1, <3>4
          <6>. HIDE DEF Sel
          <6>. QED  BY <1>1, <4>1, <4>2, <6>1
        <5>2. line[d + 1 + i] = rest[d + i]
          BY <3>4, <5>1
        <5>. QED  BY <2>3, <5>2 DEF Stretch
      <4>. QED  BY <4>2, <4>3 DEF Stretch
    <3>7. d + 1 \in 0 .. Len(waiting')
      BY <1>1, <2>3, <3>0, <3>4
    <3>. QED  BY <1>0, <2>1, <3>0, <3>5, <3>6, <3>7
  <2>. QED  BY <2>6, <2>7
<1>6. CASE \/ BeginStep \/ DrainOne \/ DrainEmpty \/ AdmitPassDone
           \/ PlanPrefill \/ PrefillChunk \/ FailPrefill \/ BeginDecode
           \/ EvictOneStalledRequest \/ ChooseBatch
           \/ ApplyOutput \/ FinishRequest \/ AllApplied \/ FailOneOfBatch \/ AllFailed
           \/ RunDecodeBatch \/ FailDecodeBatch
           \/ \E r \in Requests : EnsureRunnable(r) \/ EnsureStalled(r)
  <2>1. phase' # "admitting"
    BY <1>6 DEF BeginStep, DrainOne, DrainEmpty, AdmitPassDone, PlanPrefill, PrefillChunk,
       FailPrefill, BeginDecode, EvictOneStalledRequest, ChooseBatch, ApplyOutput,
       FinishRequest, AllApplied, FailOneOfBatch, AllFailed, RunDecodeBatch, FailDecodeBatch,
       EnsureRunnable, EnsureStalled, EnsureCapacity, Goto, EndStep, Prefilling
  <2>. QED  BY <1>2, <2>1
<1>. QED  BY <1>2, <1>3, <1>4, <1>5, <1>6 DEF Next, Step, EngineStep, StepWithoutEngine

LEMMA OInvInvariant == Spec => []OInv
<1>1. Init => PassedDoNotFit
  BY DEF Init, PassedDoNotFit
<1>2. ASSUME HInv, PassedDoNotFit, [Next]_vars  PROVE PassedDoNotFit'
  <2>1. CASE UNCHANGED vars
    <3>1. UNCHANGED <<request_state, waiting, free_blocks, phase, local>>
      BY <2>1 DEF vars, kv_vars
    <3>. QED  BY <1>2, <3>1 DEF PassedDoNotFit, FitsNow, KV!CanAllocateTokens,
         KV!CanAllocateBlocks, KV!FreeBlockCount, KV!BlocksNeeded
  <2>. QED  BY <1>2, <2>1, PassedKept
<1>3. HInv /\ PassedDoNotFit => OInv
  BY DEF OInv
<1>. QED  BY <1>1, <1>2, <1>3, HInvInvariant, PTL DEF Spec

(* A request is passed by one behind it, in line or on the way to a slot,    *)
(* only while the pool has no room for it, although deferred requests        *)
(* overtake each other.                                                      *)
THEOREM NobodyIsPassed == Spec => NobodyWhoFitsIsPassed
<1>. DEFINE Passed(r, other) ==
              /\ IsAheadOf(waiting, r, other)
              /\ \/ IsAheadOf(waiting', other, r)
                 \/ other \in Range(slots') /\ other \notin Range(slots)
<1>1. ASSUME OInv, Next, NEW r \in Requests, NEW other \in Requests, Passed(r, other)
      PROVE  ~ FitsNow(r)
  <2>1. /\ HInv /\ waiting \in Seq(Requests) /\ IsInjective(waiting)
        /\ DOMAIN waiting = 1 .. Len(waiting) /\ Len(waiting) \in Nat
    <3>1. HInv /\ waiting \in Seq(Requests) /\ IsInjective(waiting)
      BY <1>1 DEF OInv, HInv, IInv, ListsTyped, Placed, Homes
    <3>. QED  BY <3>1, LenProperties
  <2>2. Ahead(waiting, r, other) /\ ~ Ahead(waiting, other, r)
    BY <1>1, <2>1, OneOrder DEF IsAheadOf, Ahead
  <2>3. r \in Range(waiting) /\ other \in Range(waiting)
    BY <2>2 DEF Ahead, Range
  <2>4. ASSUME AdmitOne \/ DeferOne, other = Candidate  PROVE ~ FitsNow(r)
    <3>1. /\ phase = "admitting" /\ local.selected # << >> /\ local.selected \in Seq(Requests)
          /\ Candidate = Head(local.selected)
      BY <2>1, <2>4, AdmissionTurn DEF Candidate
    <3>2. PICK d \in 0 .. Len(waiting) :
            Stretch(waiting, d, local.selected) /\ \A i \in 1 .. d : ~ FitsNow(waiting[i])
      BY <1>1, <3>1 DEF OInv, PassedDoNotFit
    <3>3. d + 1 \in 1 .. Len(waiting) /\ waiting[d + 1] = Candidate
      BY <2>1, <3>1, <3>2, WorkingOff
    <3>4. PICK i \in DOMAIN waiting, j \in DOMAIN waiting :
            i < j /\ waiting[i] = r /\ waiting[j] = other
      BY <2>2 DEF Ahead
    <3>5. j = d + 1
      BY <2>1, <2>4, <3>3, <3>4 DEF IsInjective
    <3>6. i \in 1 .. d
      BY <2>1, <3>4, <3>5
    <3>. QED  BY <3>2, <3>4, <3>6
  <2>5. CASE IsAheadOf(waiting', other, r)
    <3>1. Ahead(waiting', other, r)
      BY <2>5 DEF IsAheadOf, Ahead
    <3>2. waiting' # waiting
      BY <2>2, <3>1
    <3>3. CASE DrainOne
      <4>1. request_queue \in Seq(Requests) /\ request_queue # << >>
            /\ waiting' = Append(waiting, Head(request_queue))
        BY <2>1, <3>3 DEF DrainOne, HInv, IInv, ListsTyped
      <4>2. Head(request_queue) \in Range(request_queue)
        BY <4>1, TailOfDistinct
      <4>3. Head(request_queue) \in Requests /\ r # Head(request_queue)
        BY <2>1, <2>3, <4>2 DEF HInv, Placed, Homes, InStatus
      <4>4. Ahead(Append(waiting, Head(request_queue)), other, r)
        BY <3>1, <4>1
      <4>. QED  BY <2>1, <2>2, <4>3, <4>4, JoiningKeepsOrder
    <3>4. CASE AdmitOne \/ DeferOne \/ FailAdmission
      <4>. DEFINE c == Candidate
                  rest == RemoveFirst(waiting, c)
      <4>1. c \in Requests
        BY <2>1, <3>4, CandidateWaits DEF AdmitOne, DeferOne, FailAdmission
      <4>2. rest \in Seq(Requests)
        BY <2>1, RemoveFirstIsASeq
      <4>3. Ahead(rest, other, r) => FALSE
        BY <2>1, <2>2, RemovingKeepsOrder
      <4>4. waiting' = IF DeferOne THEN <<c>> \o rest ELSE rest
        BY <2>1, <3>4, AdmissionTurn
      <4>. HIDE DEF rest
      <4>5. DeferOne
        BY <3>1, <4>3, <4>4
      <4>6. other = c
        <5>1. other # c => Ahead(rest, other, r)
          <6>1. Ahead(<<c>> \o rest, other, r)
            BY <3>1, <4>4, <4>5
          <6>. HIDE DEF c
          <6>. QED  BY <4>1, <4>2, <6>1, PrependingKeepsOrder
        <5>. QED  BY <4>3, <5>1
      <4>. QED  BY <2>4, <4>5, <4>6
    <3>. QED
      BY <1>1, <3>2, <3>3, <3>4
      DEF Next, Step, EngineStep, StepWithoutEngine, BeginStep, DrainEmpty, AdmitPass,
          AdmitPassDone, PlanPrefill, PrefillChunk, FailPrefill, BeginDecode, EnsureRunnable,
          EnsureStalled, EvictOneStalledRequest, ChooseBatch, RunDecodeBatch, FailDecodeBatch,
          ApplyOutput, FinishRequest, AllApplied, FailOneOfBatch, AllFailed, Submit
  <2>6. CASE other \in Range(slots') /\ other \notin Range(slots)
    <3>1. PICK i \in DOMAIN slots' : slots'[i] = other
      BY <2>6 DEF Range
    <3>2. CASE AdmitOne
      <4>1. slots' = [slots EXCEPT ![FirstFreeSlotIndex] = Candidate]
        BY <3>2 DEF AdmitOne
      <4>2. slots'[i] = slots[i] \/ slots'[i] = Candidate
        BY <3>1, <4>1
      <4>3. slots'[i] # slots[i]
        BY <2>6, <3>1, <4>1 DEF Range
      <4>. QED  BY <2>4, <3>1, <3>2, <4>2, <4>3
    <3>3. CASE ~ AdmitOne
      <4>1. slots \in [SlotIndices -> Requests \cup {NoRequest}] /\ other # NoRequest
        BY <2>1, NoRequestAssumption DEF HInv, IInv, SlotsTyped
      <4>2. \/ slots' = slots
            \/ \E x, status : EndRequest(x, status)
        BY <1>1, <3>3
        DEF Next, Step, EngineStep, StepWithoutEngine, BeginStep, DrainOne, DrainEmpty, AdmitPass,
          DeferOne, FailAdmission,
          AdmitPassDone, PlanPrefill, PrefillChunk, FailPrefill, BeginDecode, EnsureRunnable,
          EnsureStalled, EvictOneStalledRequest, ChooseBatch, RunDecodeBatch, FailDecodeBatch,
          ApplyOutput, FinishRequest, AllApplied, FailOneOfBatch, AllFailed, Submit
      <4>3. PICK x, status : EndRequest(x, status)
        BY <2>6, <4>2
      <4>4. /\ slots' \in [SlotIndices -> Requests \cup {NoRequest}]
            /\ \A k \in SlotIndices : slots'[k] = IF slots[k] = x THEN NoRequest ELSE slots[k]
        BY <2>1, <4>3, SlotEmptied DEF EndRequest, HInv, IInv
      <4>. QED  BY <2>6, <3>1, <4>1, <4>4 DEF Range
    <3>. QED  BY <3>2, <3>3
  <2>. QED  BY <1>1, <2>5, <2>6
<1>2. ASSUME OInv, UNCHANGED vars, NEW r \in Requests, NEW other \in Requests, Passed(r, other)
      PROVE  FALSE
  <2>1. UNCHANGED <<waiting, slots>>
    BY <1>2 DEF vars
  <2>2. waiting \in Seq(Requests) /\ IsInjective(waiting)
    BY <1>2 DEF OInv, HInv, IInv, ListsTyped, Placed, Homes
  <2>3. Ahead(waiting, r, other) /\ Ahead(waiting, other, r)
    BY <1>2, <2>1 DEF IsAheadOf, Ahead
  <2>. QED  BY <2>2, <2>3, OneOrder
<1>3. OInv /\ [Next]_vars =>
        [\A r, other \in Requests : Passed(r, other) => ~ FitsNow(r)]_vars
  BY <1>1, <1>2
<1>. QED  BY <1>3, OInvInvariant, PTL DEF Spec, NobodyWhoFitsIsPassed

=============================================================================
