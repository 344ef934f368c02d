---------------------- MODULE ContinuousSchedulerProofs ----------------------
(***************************************************************************)
(* Proofs about legacy/continuous_scheduler.py for every set of requests,  *)
(* pool and number of slots, with a model runner that may fail.            *)
(***************************************************************************)
EXTENDS MCLegacySchedulers, SequenceFacts

-----------------------------------------------------------------------------
(* Records *)

(* The times a request has when it waits, has left the line, has a token.   *)
Arrived  == <<"arrival">>
Admitted == Append(Arrived, "admit")
Started  == Append(Admitted, "first_token")

LEMMA TimesAre ==
  /\ Arrived \in Seq(Events) /\ Len(Arrived) = 1 /\ Arrived[1] = "arrival"
  /\ Admitted \in Seq(Events) /\ Len(Admitted) = 2
  /\ Admitted[1] = "arrival" /\ Admitted[2] = "admit"
  /\ Started \in Seq(Events) /\ Len(Started) = 3
  /\ Started[1] = "arrival" /\ Started[2] = "admit" /\ Started[3] = "first_token"
<1>1. Arrived \in Seq(Events) /\ Len(Arrived) = 1 /\ Arrived[1] = "arrival"
  BY DEF Arrived, Events
<1>2. Admitted \in Seq(Events) /\ Len(Admitted) = 2 /\ Admitted[1] = "arrival" /\ Admitted[2] = "admit"
  <2>1. "admit" \in Events
    BY DEF Events
  <2>2. Arrived \in Seq(Events)
    BY <1>1
  <2>3. Admitted \in Seq(Events)
    BY <2>1, <2>2, AppendProperties DEF Admitted
  <2>4. Len(Admitted) = Len(Arrived) + 1
    BY <2>1, <2>2, AppendProperties DEF Admitted
  <2>5. \A i \in 1 .. Len(Arrived) : Admitted[i] = Arrived[i]
    BY <2>1, <2>2, AppendProperties DEF Admitted
  <2>6. Admitted[Len(Arrived) + 1] = "admit"
    BY <2>1, <2>2, AppendProperties DEF Admitted
  <2>. QED  BY <1>1, <2>3, <2>4, <2>5, <2>6
<1>3. /\ Started \in Seq(Events) /\ Len(Started) = 3
      /\ Started[1] = "arrival" /\ Started[2] = "admit" /\ Started[3] = "first_token"
  <2>1. "first_token" \in Events
    BY DEF Events
  <2>2. Admitted \in Seq(Events)
    BY <1>2
  <2>3. Started \in Seq(Events)
    BY <2>1, <2>2, AppendProperties DEF Started
  <2>4. Len(Started) = Len(Admitted) + 1
    BY <2>1, <2>2, AppendProperties DEF Started
  <2>5. \A i \in 1 .. Len(Admitted) : Started[i] = Admitted[i]
    BY <2>1, <2>2, AppendProperties DEF Started
  <2>6. Started[Len(Admitted) + 1] = "first_token"
    BY <2>1, <2>2, AppendProperties DEF Started
  <2>. QED  BY <1>2, <2>3, <2>4, <2>5, <2>6
<1>. QED  BY <1>1, <1>2, <1>3

(* Times are taken once and in this order.                                  *)
LEMMA TimesTaken ==
  /\ Taken(Arrived, "admit") = Admitted /\ Taken(Admitted, "admit") = Admitted
  /\ Taken(Admitted, "first_token") = Started /\ Taken(Started, "first_token") = Started
  /\ Taken(Admitted, "finish") = Append(Admitted, "finish")
  /\ Taken(Started, "finish") = Append(Started, "finish")
<1>1. Range(Arrived) = {"arrival"}
  BY DEF Range, Arrived
<1>2. Range(Admitted) = {"arrival", "admit"}
  <2>1. "admit" \in Events
    BY DEF Events
  <2>. QED  BY <1>1, <2>1, TimesAre, AppendRange DEF Admitted
<1>3. Range(Started) = {"arrival", "admit", "first_token"}
  <2>1. "first_token" \in Events
    BY DEF Events
  <2>. QED  BY <1>2, <2>1, TimesAre, AppendRange DEF Started
<1>4. /\ "admit" \notin Range(Arrived) /\ "admit" \in Range(Admitted)
      /\ "first_token" \notin Range(Admitted) /\ "first_token" \in Range(Started)
      /\ "finish" \notin Range(Admitted) /\ "finish" \notin Range(Started)
  BY <1>1, <1>2, <1>3
<1>. QED  BY <1>4 DEF Taken, Admitted, Started

LEMMA TakenIsASeq ==
  ASSUME NEW times \in Seq(Events), NEW event \in Events
  PROVE  Taken(times, event) \in Seq(Events)
BY AppendProperties DEF Taken

(* The methods of a record keep it one. *)
LEMMA RecordMethods ==
  ASSUME NEW q \in RequestRecords
  PROVE  /\ MarkAdmitted(q) \in RequestRecords
         /\ Prefilled(q) \in RequestRecords
         /\ MarkFinished(q) \in RequestRecords
         /\ MarkFailed(q) \in RequestRecords
         /\ Emitted(q) \in RequestRecords
         /\ Counted(q) \in RequestRecords
         /\ \A text \in BOOLEAN : Streamed(q, text) \in RequestRecords
<1>1. /\ Taken(q.times, "admit") \in Seq(Events)
      /\ Taken(q.times, "first_token") \in Seq(Events)
      /\ Taken(q.times, "finish") \in Seq(Events)
  <2>1. q.times \in Seq(Events)
    BY DEF RequestRecords
  <2>2. "admit" \in Events /\ "first_token" \in Events /\ "finish" \in Events
    BY DEF Events
  <2>. QED  BY <2>1, <2>2, TakenIsASeq
<1>2. Append(q.output_queue, Text) \in Seq({Text, End}) /\ Append(q.output_queue, End) \in Seq({Text, End})
  BY AppendProperties DEF RequestRecords
<1>3. MarkAdmitted(q) \in RequestRecords
  BY <1>1 DEF MarkAdmitted, RequestRecords, Statuses
<1>4. Prefilled(q) \in RequestRecords
  BY DEF Prefilled, MarkDecoding, CountPromptTokens, RequestRecords, Statuses
<1>5. MarkFinished(q) \in RequestRecords /\ MarkFailed(q) \in RequestRecords
  BY <1>1, <1>2 DEF MarkFinished, MarkFailed, RequestRecords, Statuses, Ended
<1>6. Emitted(q) \in RequestRecords /\ Counted(q) \in RequestRecords
  <2>a. q.past_length \in Nat /\ q.generated_tokens \in Nat /\ q.prompt_tokens \in Nat
    BY DEF RequestRecords
  <2>1. /\ q.past_length + 1 \in Nat /\ q.generated_tokens + 1 \in Nat
        /\ q.prompt_tokens + (q.generated_tokens + 1) \in Nat
    BY <2>a
  <2>2. Emitted(q) \in RequestRecords
    BY <2>1 DEF Emitted, RequestRecords
  <2>3. Counted(q) \in RequestRecords
    BY <2>1 DEF Counted, RequestRecords
  <2>. QED  BY <2>2, <2>3
<1>7. ASSUME NEW text \in BOOLEAN  PROVE Streamed(q, text) \in RequestRecords
  BY <1>1, <1>2 DEF Streamed, AppendText, MarkFirstToken, RequestRecords
<1>. QED  BY <1>3, <1>4, <1>5, <1>6, <1>7

-----------------------------------------------------------------------------
(* The inductive invariant: places *)

Phases == {"idle", "drain", "admit", "decode", "decoding", "finish"}

Locals == [occupied : Seq(SlotIndices), position : Nat \ {0}, decoded_any : BOOLEAN,
           stalled : Seq(SlotIndices)]

Typed ==
  /\ request_state \in [Requests -> RequestRecords]
  /\ request_queue \in Seq(Requests) /\ waiting \in Seq(Requests)
  /\ finished \in Seq(Requests)
  /\ slots \in [SlotIndices -> Requests \cup {NoRequest}]
  /\ stats \in [Counters -> Nat]
  /\ phase \in Phases
  /\ local \in Locals

OneSlotEach ==
  \A i, j \in SlotIndices : slots[i] = slots[j] /\ slots[i] # NoRequest => i = j

(* Where a request is depends on its status, and it is there once.          *)
Homes ==
  /\ IsInjective(request_queue) /\ IsInjective(waiting) /\ IsInjective(finished)
  /\ Range(request_queue) \cap Range(waiting) = {}
  /\ Range(request_queue) \cup Range(waiting) = InStatus({"waiting", "prefill"})
  /\ Range(request_queue) \subseteq InStatus({"waiting"})
  /\ OneSlotEach
  /\ InSlot = InStatus({"decoding"})
  /\ Range(finished) = InStatus(Ended)

BlocksInOnePlace == Partition(KV!Blocks, free_blocks, block_tables)

Owning == KV!Owners = InSlot /\ BlocksInOnePlace

(* A request that has all its tokens is ended in the turn of its slot.      *)
InTurn == phase = "finish" => local.position <= Len(local.occupied)

PInv == Typed /\ Homes /\ Owning /\ InTurn

-----------------------------------------------------------------------------
(* Slots *)

LEMMA SlotsAre ==
  /\ MaxSlots \in Nat \ {0} /\ SlotIndices = 1 .. MaxSlots
  /\ IsFiniteSet(SlotIndices) /\ Cardinality(SlotIndices) = MaxSlots
  /\ 0 \notin SlotIndices
<1>1. MaxSlots \in Nat \ {0}
  BY LegacySlotsAssumption
<1>. QED  BY <1>1, FS_Interval DEF SlotIndices

(* While there is a free slot the first one is found.                       *)
LEMMA FreeSlotFound ==
  ASSUME Typed, HasFreeSlot
  PROVE  FirstFreeSlotIndex \in SlotIndices /\ slots[FirstFreeSlotIndex] = NoRequest
<1>1. slots \in Seq(Requests \cup {NoRequest}) /\ Len(slots) = MaxSlots
  BY SlotsAre DEF Typed
<1>2. \E i \in 1 .. Len(slots) : slots[i] = NoRequest
  <2>. SUFFICES ASSUME \A i \in SlotIndices : slots[i] # NoRequest  PROVE FALSE
    BY <1>1, SlotsAre
  <2>1. {i \in SlotIndices : slots[i] # NoRequest} = SlotIndices
    OBVIOUS
  <2>. QED  BY <2>1, SlotsAre DEF HasFreeSlot, OccupiedSlotCount
<1>. DEFINE index == SelectInSeq(slots, LAMBDA x : x = NoRequest)
<1>3. index \in 1 .. Len(slots) /\ slots[index] = NoRequest
  BY <1>1, <1>2, IndexOf
<1>4. FirstFreeSlotIndex = index
  BY DEF FirstFreeSlotIndex
<1>. HIDE DEF index
<1>. QED  BY <1>1, <1>3, <1>4, SlotsAre

(* The slots a pass goes through are the occupied ones, each once.          *)
LEMMA OccupiedSlotsAre ==
  /\ OccupiedSlots \in Seq(SlotIndices)
  /\ Range(OccupiedSlots) = {i \in SlotIndices : slots[i] # NoRequest}
  /\ IsInjective(OccupiedSlots)
<1>. DEFINE s == [i \in SlotIndices |-> i]
            S == {i \in SlotIndices : slots[i] # NoRequest}
<1>1. s \in Seq(SlotIndices) /\ Len(s) = MaxSlots /\ Range(s) = SlotIndices
  BY SlotsAre DEF Range
<1>2. \A i, j \in 1 .. Len(s) : s[i] = s[j] /\ s[i] \in S => i = j
  BY <1>1, SlotsAre
<1>3. OccupiedSlots = InOrder(s, S)
  BY DEF OccupiedSlots
<1>. HIDE DEF s
<1>4. /\ InOrder(s, S) \in Seq(SlotIndices)
      /\ Range(InOrder(s, S)) = Range(s) \cap S
      /\ IsInjective(InOrder(s, S))
  BY <1>1, <1>2, InOrderProperties
<1>. QED  BY <1>1, <1>3, <1>4

-----------------------------------------------------------------------------
(* Changes of status *)

LEMMA OneChanges ==
  ASSUME Typed, NEW r \in Requests, NEW q \in RequestRecords, Set(r, q)
  PROVE  /\ request_state' \in [Requests -> RequestRecords]
         /\ request_state'[r] = q
         /\ \A x \in Requests \ {r} : request_state'[x] = request_state[x]
         /\ \A S : InStatus(S)' = (InStatus(S) \ {r}) \cup (IF q.status \in S THEN {r} ELSE {})
<1>1. /\ request_state' \in [Requests -> RequestRecords]
      /\ request_state'[r] = q
      /\ \A x \in Requests \ {r} : request_state'[x] = request_state[x]
  BY DEF Typed, Set
<1>. QED  BY <1>1 DEF InStatus, Status

LEMMA NobodyChanges ==
  ASSUME UNCHANGED request_state
  PROVE  \A S : InStatus(S)' = InStatus(S)
BY DEF InStatus, Status

LEMMA StatusOf ==
  ASSUME Typed, NEW r \in Requests
  PROVE  /\ request_state[r] \in RequestRecords
         /\ Status(r) \in Statuses
         /\ \A S : r \in InStatus(S) <=> Status(r) \in S
BY DEF Typed, RequestRecords, InStatus, Status

LEMMA IdleIsLocal == Idle \in Locals
BY DEF Idle, Locals

(* Who is in a slot is asked of the slots alone.                            *)
LEMMA InSlotProperties ==
  ASSUME Typed
  PROVE  /\ InSlot \subseteq Requests
         /\ \A i \in SlotIndices : slots[i] \in InSlot \/ slots[i] = NoRequest
         /\ \A r \in InSlot : \E i \in SlotIndices : slots[i] = r
BY DEF Typed, InSlot

(* A slot is filled, or emptied. *)
LEMMA SlotFilled ==
  ASSUME Typed, OneSlotEach, NEW i \in SlotIndices, slots[i] = NoRequest,
         NEW r \in Requests, r \notin InSlot, slots' = [slots EXCEPT ![i] = r]
  PROVE  /\ slots' \in [SlotIndices -> Requests \cup {NoRequest}]
         /\ OneSlotEach' /\ InSlot' = InSlot \cup {r}
<1>1. r # NoRequest
  BY LegacySlotsAssumption
<1>2. /\ slots' \in [SlotIndices -> Requests \cup {NoRequest}] /\ slots'[i] = r
      /\ \A j \in SlotIndices \ {i} : slots'[j] = slots[j]
  BY DEF Typed
<1>3. InSlot' = InSlot \cup {r}
  BY <1>1, <1>2 DEF InSlot, SlotIndices
<1>4. OneSlotEach'
  BY <1>1, <1>2 DEF OneSlotEach, InSlot, SlotIndices
<1>. QED  BY <1>2, <1>3, <1>4

LEMMA SlotEmptied ==
  ASSUME Typed, OneSlotEach, NEW i \in SlotIndices, NEW r \in Requests, slots[i] = r,
         slots' = [slots EXCEPT ![i] = NoRequest]
  PROVE  /\ slots' \in [SlotIndices -> Requests \cup {NoRequest}]
         /\ OneSlotEach' /\ InSlot' = InSlot \ {r}
<1>1. r # NoRequest
  BY LegacySlotsAssumption
<1>2. /\ slots' \in [SlotIndices -> Requests \cup {NoRequest}] /\ slots'[i] = NoRequest
      /\ \A j \in SlotIndices \ {i} : slots'[j] = slots[j] /\ slots[j] # r
  BY <1>1 DEF Typed, OneSlotEach
<1>3. InSlot' = InSlot \ {r}
  BY <1>1, <1>2 DEF InSlot, SlotIndices
<1>4. OneSlotEach'
  BY <1>1, <1>2 DEF OneSlotEach, SlotIndices
<1>. QED  BY <1>2, <1>3, <1>4

-----------------------------------------------------------------------------
(* Moves of blocks *)

LEMMA BlocksNeededNat == \A n \in Nat : KV!BlocksNeeded(n) \in Nat
<1>. TAKE n \in Nat
<1>1. n + BlockSize - 1 \in Nat /\ BlockSize \in Nat \ {0}
  BY LegacyPoolAssumption
<1>2. \A m \in Nat : m \div BlockSize \in Nat
  BY <1>1
<1>. QED  BY <1>1, <1>2 DEF KV!BlocksNeeded

(* A request that owns nothing gets a table.                                *)
LEMMA TableGiven ==
  ASSUME BlocksInOnePlace, NEW r, NEW n \in Nat, KV!AllocateForTokens(r, n)
  PROVE  /\ BlocksInOnePlace' /\ KV!Owners' = KV!Owners \cup {r} /\ r \notin KV!Owners
         /\ r \in DOMAIN block_tables' /\ block_tables'[r] \in Seq(KV!Blocks)
<1>. DEFINE k == KV!BlocksNeeded(n)
<1>1. k \in 0 .. Len(free_blocks)
  <2>1. k \in Nat
    BY BlocksNeededNat
  <2>2. Len(free_blocks) \in Nat
    BY LenProperties DEF BlocksInOnePlace, Partition
  <2>3. Len(free_blocks) >= k
    BY DEF KV!AllocateForTokens, KV!AllocateBlocks, KV!CanAllocateBlocks, KV!FreeBlockCount
  <2>. QED  BY <2>1, <2>2, <2>3
<1>2. /\ r \notin KV!Owners
      /\ free_blocks' = SubSeq(free_blocks, k + 1, Len(free_blocks))
      /\ block_tables' = [q \in KV!Owners \cup {r} |->
                            IF q = r THEN SubSeq(free_blocks, 1, k) ELSE block_tables[q]]
  BY DEF KV!AllocateForTokens, KV!AllocateBlocks, KV!AfterPop, KV!FirstFree, KV!FreeBlockCount
<1>. HIDE DEF k
<1>3. SubSeq(free_blocks, 1, k) \in Seq(KV!Blocks)
  BY <1>1, CutDeque DEF BlocksInOnePlace, Partition
<1>4. block_tables' = GiveTo(block_tables, r, SubSeq(free_blocks, 1, k))
  <2>1. TableIn(block_tables, r) \o SubSeq(free_blocks, 1, k) = SubSeq(free_blocks, 1, k)
    BY <1>2, <1>3, ConcatEmptySeq DEF TableIn, KV!Owners
  <2>. QED  BY <1>2, <2>1 DEF GiveTo, KV!Owners
<1>5. Partition(KV!Blocks, free_blocks', block_tables')
  <2>1. Partition(KV!Blocks, SubSeq(free_blocks, k + 1, Len(free_blocks)),
                  GiveTo(block_tables, r, SubSeq(free_blocks, 1, k)))
    BY <1>1, GiveKeepsPartition DEF BlocksInOnePlace
  <2>. QED  BY <1>2, <1>4, <2>1
<1>6. BlocksInOnePlace'
  BY <1>5 DEF BlocksInOnePlace, KV!Blocks
<1>. QED  BY <1>2, <1>3, <1>6 DEF KV!Owners

(* The blocks that r lacks for its next token, and how many it can get.     *)
Lacks(r) == KV!MissingBlocks(r, TokenPosition(r))

LEMMA LacksNat ==
  ASSUME Typed, BlocksInOnePlace, NEW r \in Requests, r \in KV!Owners
  PROVE  /\ Lacks(r) \in Nat /\ Len(free_blocks) \in Nat /\ Len(block_tables[r]) \in Nat
         /\ TokenPosition(r) \in Nat /\ KV!BlocksNeeded(TokenPosition(r) + 1) \in Nat
<1>1. TokenPosition(r) \in Nat
  <2>1. request_state[r] \in RequestRecords
    BY StatusOf
  <2>. QED  BY <2>1 DEF TokenPosition, RequestRecords
<1>2. KV!BlocksNeeded(TokenPosition(r) + 1) \in Nat
  <2>1. TokenPosition(r) + 1 \in Nat
    BY <1>1
  <2>. QED  BY <2>1, BlocksNeededNat
<1>3. Len(block_tables[r]) \in Nat
  BY LenProperties DEF BlocksInOnePlace, Partition, KV!Owners
<1>4. Len(free_blocks) \in Nat
  BY LenProperties DEF BlocksInOnePlace, Partition
<1>. QED  BY <1>1, <1>2, <1>3, <1>4 DEF Lacks, KV!MissingBlocks

(* A table grows, also when the deque runs dry half-way.                    *)
LEMMA TableGrows ==
  ASSUME Typed, BlocksInOnePlace, NEW r \in Requests,
         KV!EnsureCapacityForToken(r, TokenPosition(r))
  PROVE  /\ BlocksInOnePlace' /\ KV!Owners' = KV!Owners /\ r \in KV!Owners
         /\ block_tables'[r] \in Seq(KV!Blocks)
<1>. DEFINE missing == Lacks(r)
            k == IF missing <= Len(free_blocks) THEN missing ELSE Len(free_blocks)
<1>1. /\ r \in KV!Owners
      /\ free_blocks' = SubSeq(free_blocks, k + 1, Len(free_blocks))
      /\ block_tables' = [block_tables EXCEPT ![r] = @ \o SubSeq(free_blocks, 1, k)]
  BY DEF KV!EnsureCapacityForToken, KV!Extend, KV!AfterPop, KV!FirstFree, KV!FreeBlockCount, Lacks
<1>2. missing \in Nat /\ Len(free_blocks) \in Nat
  BY <1>1, LacksNat
<1>. HIDE DEF missing
<1>3. k \in 0 .. Len(free_blocks)
  BY <1>2
<1>. HIDE DEF k
<1>4. block_tables' = GiveTo(block_tables, r, SubSeq(free_blocks, 1, k))
  <2>1. DOMAIN block_tables \cup {r} = DOMAIN block_tables /\ r \in DOMAIN block_tables
    BY <1>1 DEF KV!Owners
  <2>. QED  BY <1>1, <2>1 DEF GiveTo, TableIn
<1>5. Partition(KV!Blocks, free_blocks', block_tables')
  <2>1. Partition(KV!Blocks, SubSeq(free_blocks, k + 1, Len(free_blocks)),
                  GiveTo(block_tables, r, SubSeq(free_blocks, 1, k)))
    BY <1>3, GiveKeepsPartition DEF BlocksInOnePlace
  <2>. QED  BY <1>1, <1>4, <2>1
<1>6. BlocksInOnePlace' /\ KV!Owners' = KV!Owners
  BY <1>1, <1>5 DEF BlocksInOnePlace, KV!Blocks, KV!Owners
<1>7. block_tables'[r] \in Seq(KV!Blocks)
  BY <1>1, <1>6 DEF BlocksInOnePlace, Partition, KV!Owners, KV!Blocks
<1>. QED  BY <1>1, <1>6, <1>7

(* A table is given back; a request without one gives back nothing.         *)
LEMMA TableTaken ==
  ASSUME BlocksInOnePlace, NEW r, KV!Free(r)
  PROVE  BlocksInOnePlace' /\ KV!Owners' = KV!Owners \ {r}
<1>1. CASE r \in KV!Owners
  <2>1. /\ free_blocks' = free_blocks \o block_tables[r]
        /\ block_tables' = TakeFrom(block_tables, r)
    BY <1>1 DEF KV!Free, KV!Owners, TakeFrom
  <2>2. Partition(KV!Blocks, free_blocks', block_tables')
    BY <1>1, <2>1, TakeKeepsPartition DEF BlocksInOnePlace, KV!Owners
  <2>. QED  BY <2>1, <2>2 DEF BlocksInOnePlace, KV!Blocks, KV!Owners, TakeFrom
<1>2. CASE r \notin KV!Owners
  BY <1>2 DEF KV!Free, KV!vars, BlocksInOnePlace, KV!Blocks, KV!Owners
<1>. QED  BY <1>1, <1>2

(* What raised half-way gives back the new blocks first, then the old ones  *)
(* with the new ones at their end: the deque and the tables are again apart.*)
LEMMA GrownTableTaken ==
  ASSUME Typed, BlocksInOnePlace, NEW r \in Requests, r \in KV!Owners, FailDecode(r)
  PROVE  /\ BlocksInOnePlace' /\ KV!Owners' = KV!Owners \ {r}
         /\ block_tables[r] \o KV!FirstFree(Lacks(r)) \in Seq(KV!Blocks)
<1>. DEFINE k == Lacks(r)
            popped == SubSeq(free_blocks, k + 1, Len(free_blocks))
            given  == GiveTo(block_tables, r, SubSeq(free_blocks, 1, k))
            table  == block_tables[r] \o SubSeq(free_blocks, 1, k)
<1>1. k \in 0 .. Len(free_blocks)
  <2>1. k <= Len(free_blocks)
    BY DEF FailDecode, KV!CapacityAvailable, KV!FreeBlockCount, Lacks
  <2>2. k \in Nat /\ Len(free_blocks) \in Nat
    BY LacksNat
  <2>. HIDE DEF k
  <2>. QED  BY <2>1, <2>2
<1>2. /\ free_blocks' = popped \o table
      /\ block_tables' = [x \in KV!Owners \ {r} |-> block_tables[x]]
  BY DEF FailDecode, KV!AfterPop, KV!FirstFree, KV!FreeBlockCount, Lacks
<1>. HIDE DEF k
<1>3. Partition(KV!Blocks, popped, given)
  BY <1>1, GiveKeepsPartition DEF BlocksInOnePlace
<1>4. /\ DOMAIN given = KV!Owners /\ given[r] = table
      /\ TakeFrom(given, r) = [x \in KV!Owners \ {r} |-> block_tables[x]]
  BY DEF GiveTo, TableIn, TakeFrom, KV!Owners
<1>. HIDE DEF popped, given, table
<1>5. table \in Seq(KV!Blocks)
  <2>1. given \in [DOMAIN given -> Seq(KV!Blocks)] /\ r \in DOMAIN given
    BY <1>3, <1>4 DEF Partition
  <2>2. given[r] \in Seq(KV!Blocks)
    BY <2>1
  <2>. QED  BY <1>4, <2>2
<1>6. Partition(KV!Blocks, popped \o given[r], TakeFrom(given, r))
  BY <1>3, <1>4, TakeKeepsPartition
<1>7. BlocksInOnePlace'
  BY <1>2, <1>4, <1>6 DEF BlocksInOnePlace, KV!Blocks
<1>8. KV!Owners' = KV!Owners \ {r}
  BY <1>2 DEF KV!Owners
<1>. QED  BY <1>5, <1>7, <1>8 DEF table, k, KV!FirstFree

-----------------------------------------------------------------------------
(* Every action keeps the invariant *)

LEMMA SlotIs ==
  ASSUME Typed, local.position <= Len(local.occupied)
  PROVE  Slot \in SlotIndices
<1>1. local.occupied \in Seq(SlotIndices) /\ local.position \in Nat \ {0}
  BY DEF Typed, Locals
<1>2. local.position \in 1 .. Len(local.occupied)
  BY <1>1, LenProperties
<1>. QED  BY <1>1, <1>2, ElementOfSeq DEF Slot

LEMMA LastStalledIs ==
  ASSUME Typed, local.stalled # << >>
  PROVE  Last(local.stalled) \in SlotIndices
<1>1. local.stalled \in Seq(SlotIndices)
  BY DEF Typed, Locals
<1>2. Len(local.stalled) \in 1 .. Len(local.stalled)
  <2>1. Len(local.stalled) \in Nat /\ Len(local.stalled) # 0
    BY <1>1, LenProperties, EmptySeq
  <2>. QED  BY <2>1
<1>. QED  BY <1>1, <1>2, ElementOfSeq DEF Last

LEMMA NextPosition ==
  ASSUME NEW l \in Locals
  PROVE  /\ [l EXCEPT !.position = @ + 1] \in Locals
         /\ [l EXCEPT !.decoded_any = TRUE, !.position = @ + 1] \in Locals
         /\ \A s \in Seq(SlotIndices) : [l EXCEPT !.position = @ + 1, !.stalled = s] \in Locals
<1>1. l.position + 1 \in Nat \ {0}
  BY DEF Locals
<1>. QED  BY <1>1 DEF Locals

LEMMA CountKeeps ==
  ASSUME Typed, NEW counters, Count(counters)
  PROVE  stats' \in [Counters -> Nat]
BY DEF Typed, Count

LEMMA SubmitKeeps ==
  ASSUME PInv, NEW r \in Requests, Submit(r)
  PROVE  PInv'
<1>1. PICK s \in Shapes : Set(r, NewRequestState(s.prompt, s.max_new_tokens))
  BY DEF Submit
<1>. DEFINE q == NewRequestState(s.prompt, s.max_new_tokens)
<1>2. q \in RequestRecords /\ q.status = "waiting"
  <2>1. s.prompt \in Nat /\ s.max_new_tokens \in Nat
    BY LegacyShapesAssumption
  <2>2. <<"arrival">> \in Seq(Events)
    BY TimesAre DEF Arrived
  <2>3. << >> \in Seq({Text, End}) /\ << >> \in Seq(KV!Blocks)
    BY EmptySeq
  <2>. QED  BY <2>1, <2>2, <2>3 DEF NewRequestState, RequestRecords, Statuses
<1>. HIDE DEF q
<1>3. Typed /\ Homes /\ Owning /\ InTurn
  BY DEF PInv
<1>4. Status(r) = "new" /\ request_queue' = Append(request_queue, r)
      /\ UNCHANGED <<waiting, finished, metrics, phase, local, slots, stats, kv_vars>>
  BY DEF Submit
<1>5. Set(r, q)
  BY <1>1 DEF q
<1>6. /\ request_state' \in [Requests -> RequestRecords]
      /\ \A S : InStatus(S)' = (InStatus(S) \ {r}) \cup (IF "waiting" \in S THEN {r} ELSE {})
  BY <1>2, <1>3, <1>5, OneChanges
<1>7. r \in InStatus({"new"}) /\ \A S : "new" \notin S => r \notin InStatus(S)
  BY <1>3, <1>4, StatusOf
<1>8. request_queue \in Seq(Requests)
  BY <1>3 DEF Typed
<1>9. /\ request_queue' \in Seq(Requests)
      /\ Range(request_queue') = Range(request_queue) \cup {r}
  BY <1>4, <1>8, AppendRange
<1>10. IsInjective(request_queue') /\ r \notin Range(request_queue) /\ r \notin Range(waiting)
  <2>1. r \notin InStatus({"waiting", "prefill"})
    BY <1>7
  <2>2. r \notin Range(request_queue) /\ r \notin Range(waiting) /\ IsInjective(request_queue)
    BY <1>3, <2>1 DEF Homes
  <2>. QED  BY <1>4, <1>8, <2>2, AppendToDistinct
<1>11. Typed'
  BY <1>3, <1>4, <1>6, <1>9 DEF Typed, SlotIndices, Counters
<1>12. /\ InStatus({"waiting", "prefill"})' = InStatus({"waiting", "prefill"}) \cup {r}
       /\ InStatus({"waiting"})' = InStatus({"waiting"}) \cup {r}
       /\ InStatus({"decoding"})' = InStatus({"decoding"})
       /\ InStatus(Ended)' = InStatus(Ended)
  BY <1>6, <1>7 DEF Ended
<1>13. OneSlotEach' /\ InSlot' = InSlot /\ Range(waiting') = Range(waiting)
       /\ Range(finished') = Range(finished)
  BY <1>3, <1>4 DEF Homes, OneSlotEach, InSlot, SlotIndices
<1>14. Homes'
  BY <1>3, <1>4, <1>9, <1>10, <1>12, <1>13 DEF Homes
<1>15. Owning' /\ InTurn'
  BY <1>3, <1>4, <1>13 DEF Owning, KV!Owners, BlocksInOnePlace, InTurn, KV!Blocks, kv_vars
<1>. QED  BY <1>11, <1>14, <1>15 DEF PInv

(* A step after which nobody is somewhere else.                             *)
NobodyMoves ==
  UNCHANGED <<request_state, request_queue, waiting, finished, slots>>

LEMMA HomesStay ==
  ASSUME PInv, NobodyMoves
  PROVE  Homes' /\ InSlot' = InSlot
<1>1. \A S : InStatus(S)' = InStatus(S)
  BY NobodyChanges DEF NobodyMoves
<1>2. OneSlotEach' /\ InSlot' = InSlot
  BY DEF PInv, Homes, NobodyMoves, OneSlotEach, InSlot, SlotIndices
<1>3. Range(request_queue') = Range(request_queue) /\ Range(waiting') = Range(waiting)
      /\ Range(finished') = Range(finished)
  BY DEF NobodyMoves
<1>. QED  BY <1>1, <1>2, <1>3 DEF PInv, Homes, NobodyMoves, Ended

(* Steps that change where the worker is, and nothing else.                 *)
LEMMA QuietKeeps ==
  ASSUME PInv, NobodyMoves, UNCHANGED <<stats, kv_vars>>,
         phase' \in Phases, local' \in Locals, InTurn'
  PROVE  PInv'
<1>1. Homes' /\ InSlot' = InSlot
  BY HomesStay
<1>2. Typed'
  BY DEF PInv, Typed, NobodyMoves, SlotIndices, Counters, Phases, Locals, RequestRecords, KV!Blocks
<1>3. Owning'
  BY <1>1 DEF PInv, Owning, KV!Owners, BlocksInOnePlace, KV!Blocks, kv_vars
<1>. QED  BY <1>1, <1>2, <1>3 DEF PInv

LEMMA QuietSteps ==
  ASSUME PInv, BeginStep \/ AdmitDone \/ BeginDecode \/ DecodeDone
  PROVE  PInv'
<1>1. local \in Locals
  BY DEF PInv, Typed
<1>2. CASE BeginStep
  <2>1. NobodyMoves /\ UNCHANGED <<stats, kv_vars>> /\ phase' = "drain" /\ local' = local
    BY <1>2 DEF BeginStep, NobodyMoves, Goto
  <2>. QED  BY <1>1, <2>1, QuietKeeps DEF Phases, InTurn
<1>3. CASE AdmitDone
  <2>1. NobodyMoves /\ UNCHANGED <<stats, kv_vars>> /\ phase' = "decode" /\ local' = local
    BY <1>3 DEF AdmitDone, NobodyMoves, Goto
  <2>. QED  BY <1>1, <2>1, QuietKeeps DEF Phases, InTurn
<1>4. CASE BeginDecode
  <2>1. NobodyMoves /\ UNCHANGED <<stats, kv_vars>> /\ phase' = "decoding"
        /\ local' = [Idle EXCEPT !.occupied = OccupiedSlots]
    BY <1>4 DEF BeginDecode, NobodyMoves
  <2>2. local' \in Locals
    BY <2>1, OccupiedSlotsAre, IdleIsLocal DEF Locals
  <2>. QED  BY <2>1, <2>2, QuietKeeps DEF Phases, InTurn
<1>5. CASE DecodeDone
  <2>1. NobodyMoves /\ UNCHANGED <<stats, kv_vars>> /\ phase' = "idle" /\ local' = Idle
    BY <1>5 DEF DecodeDone, NobodyMoves, EndStep
  <2>. QED  BY <2>1, IdleIsLocal, QuietKeeps DEF Phases, InTurn
<1>. QED  BY <1>2, <1>3, <1>4, <1>5

LEMMA DrainKeeps ==
  ASSUME PInv, Drain
  PROVE  PInv'
<1>1. CASE request_queue = << >>
  <2>1. NobodyMoves /\ UNCHANGED <<stats, kv_vars>> /\ phase' = "admit" /\ local' = local
    BY <1>1 DEF Drain, NobodyMoves, Goto
  <2>2. local \in Locals
    BY DEF PInv, Typed
  <2>. QED  BY <2>1, <2>2, QuietKeeps DEF Phases, InTurn
<1>2. CASE request_queue # << >>
  <2>. DEFINE r == Head(request_queue)
              q == [request_state[r] EXCEPT !.status = "waiting"]
  <2>1. /\ Set(r, q) /\ request_queue' = Tail(request_queue) /\ waiting' = Append(waiting, r)
        /\ phase = "drain" /\ UNCHANGED <<phase, local, finished, metrics, slots, stats, kv_vars>>
    BY <1>2 DEF Drain
  <2>2. Typed /\ Homes /\ Owning /\ request_queue \in Seq(Requests) /\ waiting \in Seq(Requests)
    BY DEF PInv, Typed
  <2>3. /\ r \in Range(request_queue) /\ Tail(request_queue) \in Seq(Requests)
        /\ Range(request_queue) = Range(Tail(request_queue)) \cup {r}
        /\ IsInjective(Tail(request_queue)) /\ r \notin Range(Tail(request_queue))
    BY <1>2, <2>2, TailOfDistinct DEF Homes
  <2>4. r \in InStatus({"waiting"}) /\ r \notin Range(waiting)
    BY <2>2, <2>3 DEF Homes
  <2>5. r \in Requests /\ Status(r) = "waiting"
    BY <2>4 DEF InStatus
  <2>6. q \in RequestRecords /\ q.status = "waiting"
    <3>1. request_state[r] \in RequestRecords
      BY <2>2, <2>5, StatusOf
    <3>. QED  BY <3>1 DEF RequestRecords, Statuses
  <2>. HIDE DEF r, q
  <2>7. /\ request_state' \in [Requests -> RequestRecords]
        /\ \A S : InStatus(S)' = (InStatus(S) \ {r}) \cup (IF "waiting" \in S THEN {r} ELSE {})
    BY <2>1, <2>2, <2>5, <2>6, OneChanges
  <2>8. \A S : r \in InStatus(S) <=> "waiting" \in S
    BY <2>2, <2>5, StatusOf
  <2>9. /\ InStatus({"waiting", "prefill"})' = InStatus({"waiting", "prefill"})
        /\ InStatus({"waiting"})' = InStatus({"waiting"})
        /\ InStatus({"decoding"})' = InStatus({"decoding"})
        /\ InStatus(Ended)' = InStatus(Ended)
    BY <2>7, <2>8 DEF Ended
  <2>10. waiting' \in Seq(Requests) /\ Range(waiting') = Range(waiting) \cup {r}
    BY <2>1, <2>2, <2>5, AppendRange
  <2>11. IsInjective(waiting')
    BY <2>1, <2>2, <2>4, <2>5, AppendToDistinct DEF Homes
  <2>12. OneSlotEach' /\ InSlot' = InSlot /\ Range(finished') = Range(finished)
    BY <2>1, <2>2 DEF Homes, OneSlotEach, InSlot, SlotIndices
  <2>13. Range(request_queue') = Range(Tail(request_queue)) /\ IsInjective(request_queue')
    BY <2>1, <2>3
  <2>14. Homes'
    BY <2>1, <2>2, <2>3, <2>4, <2>9, <2>10, <2>11, <2>12, <2>13 DEF Homes
  <2>15. Typed'
    BY <2>1, <2>2, <2>3, <2>7, <2>10 DEF Typed, SlotIndices, Counters
  <2>16. Owning' /\ InTurn'
    BY <2>1, <2>2, <2>12 DEF Owning, KV!Owners, BlocksInOnePlace, InTurn, KV!Blocks, kv_vars
  <2>. QED  BY <2>14, <2>15, <2>16 DEF PInv
<1>. QED  BY <1>1, <1>2

(* The candidate is the head of the waiting list.                           *)
LEMMA CandidateIs ==
  ASSUME PInv, NEW r \in Requests, Admitting(r)
  PROVE  /\ waiting \in Seq(Requests) /\ Tail(waiting) \in Seq(Requests)
         /\ Range(waiting) = Range(Tail(waiting)) \cup {r}
         /\ IsInjective(Tail(waiting)) /\ r \notin Range(Tail(waiting))
         /\ r \in Range(waiting) /\ r \notin Range(request_queue)
         /\ r \notin InSlot /\ r \notin KV!Owners /\ r \notin Range(finished)
         /\ Status(r) \in {"waiting", "prefill"} /\ request_state[r] \in RequestRecords
<1>1. Typed /\ Homes /\ Owning /\ waiting \in Seq(Requests)
  BY DEF PInv, Typed
<1>2. waiting # << >> /\ r = Head(waiting)
  BY DEF Admitting
<1>3. /\ r \in Range(waiting) /\ Tail(waiting) \in Seq(Requests)
      /\ Range(waiting) = Range(Tail(waiting)) \cup {r}
      /\ IsInjective(Tail(waiting)) /\ r \notin Range(Tail(waiting))
  BY <1>1, <1>2, TailOfDistinct DEF Homes
<1>4. r \in InStatus({"waiting", "prefill"}) /\ r \notin Range(request_queue)
  BY <1>1, <1>3 DEF Homes
<1>5. Status(r) \in {"waiting", "prefill"}
  BY <1>4 DEF InStatus
<1>6. r \notin InStatus({"decoding"}) /\ r \notin InStatus(Ended)
  BY <1>5 DEF InStatus, Ended
<1>7. r \notin InSlot /\ r \notin KV!Owners /\ r \notin Range(finished)
  BY <1>1, <1>6 DEF Homes, Owning
<1>8. request_state[r] \in RequestRecords
  BY <1>1, StatusOf
<1>. QED  BY <1>1, <1>3, <1>4, <1>5, <1>7, <1>8

LEMMA AdmitOneKeeps ==
  ASSUME PInv, NEW r \in Requests, AdmitOne(r)
  PROVE  PInv'
<1>. DEFINE q == [Prefilled(MarkAdmitted(request_state[r])) EXCEPT
                    !.block_table = block_tables'[r],
                    !.num_computed_tokens = request_state[r].prompt]
<1>1. Typed /\ Homes /\ Owning /\ BlocksInOnePlace
  BY DEF PInv, Owning
<1>2. /\ Admitting(r) /\ KV!AllocateForTokens(r, request_state[r].prompt_tokens)
      /\ Set(r, q) /\ waiting' = Tail(waiting)
      /\ slots' = [slots EXCEPT ![FirstFreeSlotIndex] = r]
      /\ Count({"admitted_count"})
      /\ UNCHANGED <<request_queue, finished, metrics, phase, local>>
  BY DEF AdmitOne
<1>3. /\ waiting \in Seq(Requests) /\ Tail(waiting) \in Seq(Requests)
      /\ Range(waiting) = Range(Tail(waiting)) \cup {r}
      /\ IsInjective(Tail(waiting)) /\ r \notin Range(Tail(waiting))
      /\ r \notin Range(request_queue) /\ r \notin InSlot
      /\ Status(r) \in {"waiting", "prefill"} /\ request_state[r] \in RequestRecords
  BY <1>2, CandidateIs
<1>4. request_state[r].prompt_tokens \in Nat /\ request_state[r].prompt \in Nat
  BY <1>3 DEF RequestRecords
<1>5. /\ BlocksInOnePlace' /\ KV!Owners' = KV!Owners \cup {r}
      /\ block_tables'[r] \in Seq(KV!Blocks)
  BY <1>1, <1>2, <1>4, TableGiven
<1>6. q \in RequestRecords /\ q.status = "decoding"
  <2>1. MarkAdmitted(request_state[r]) \in RequestRecords
    BY <1>3, RecordMethods
  <2>2. Prefilled(MarkAdmitted(request_state[r])) \in RequestRecords
    BY <2>1, RecordMethods
  <2>3. Prefilled(MarkAdmitted(request_state[r])).status = "decoding"
    BY <2>1 DEF Prefilled, MarkDecoding, RequestRecords
  <2>. QED  BY <1>4, <1>5, <2>2, <2>3 DEF RequestRecords
<1>. HIDE DEF q
<1>7. /\ request_state' \in [Requests -> RequestRecords]
      /\ \A S : InStatus(S)' = (InStatus(S) \ {r}) \cup (IF "decoding" \in S THEN {r} ELSE {})
  BY <1>1, <1>2, <1>6, OneChanges
<1>8. \A S : r \in InStatus(S) <=> Status(r) \in S
  BY <1>1, StatusOf
<1>9. /\ InStatus({"waiting", "prefill"})' = InStatus({"waiting", "prefill"}) \ {r}
      /\ InStatus({"waiting"})' = InStatus({"waiting"}) \ {r}
      /\ InStatus({"decoding"})' = InStatus({"decoding"}) \cup {r}
      /\ InStatus(Ended)' = InStatus(Ended)
  <2>1. r \notin InStatus(Ended)
    BY <1>3, <1>8 DEF Ended
  <2>2. InStatus({"decoding"})' = InStatus({"decoding"}) \cup {r}
    BY <1>7
  <2>3. InStatus(Ended)' = InStatus(Ended)
    BY <1>7, <2>1 DEF Ended
  <2>. QED  BY <1>7, <2>2, <2>3
<1>10. FirstFreeSlotIndex \in SlotIndices /\ slots[FirstFreeSlotIndex] = NoRequest
  BY <1>1, <1>2, FreeSlotFound DEF Admitting
<1>11. /\ slots' \in [SlotIndices -> Requests \cup {NoRequest}]
       /\ OneSlotEach' /\ InSlot' = InSlot \cup {r}
  BY <1>1, <1>2, <1>3, <1>10, SlotFilled DEF Homes
<1>12. stats' \in [Counters -> Nat]
  BY <1>1, <1>2, CountKeeps
<1>13. Typed'
  BY <1>1, <1>2, <1>3, <1>7, <1>11, <1>12 DEF Typed, SlotIndices, Counters
<1>14. /\ IsInjective(waiting') /\ Range(waiting') = Range(waiting) \ {r}
       /\ Range(request_queue') = Range(request_queue) /\ Range(finished') = Range(finished)
  BY <1>2, <1>3
<1>15. Homes'
  BY <1>1, <1>2, <1>3, <1>9, <1>11, <1>14 DEF Homes
<1>16. Owning' /\ InTurn'
  BY <1>1, <1>2, <1>5, <1>11 DEF PInv, Owning, InTurn
<1>. QED  BY <1>13, <1>15, <1>16 DEF PInv

LEMMA DeferKeeps ==
  ASSUME PInv, NEW r \in Requests, Defer(r)
  PROVE  PInv'
<1>1. Typed /\ Homes /\ Owning
  BY DEF PInv
<1>2. /\ Admitting(r) /\ Set(r, MarkAdmitted(request_state[r])) /\ phase' = "decode"
      /\ UNCHANGED <<local, request_queue, waiting, finished, metrics, slots, stats, kv_vars>>
  BY DEF Defer, Goto
<1>3. /\ r \notin Range(request_queue)
      /\ Status(r) \in {"waiting", "prefill"} /\ request_state[r] \in RequestRecords
  BY <1>2, CandidateIs
<1>4. MarkAdmitted(request_state[r]) \in RequestRecords
      /\ MarkAdmitted(request_state[r]).status = "prefill"
  BY <1>3, RecordMethods DEF MarkAdmitted, RequestRecords
<1>5. /\ request_state' \in [Requests -> RequestRecords]
      /\ \A S : InStatus(S)' = (InStatus(S) \ {r}) \cup (IF "prefill" \in S THEN {r} ELSE {})
  BY <1>1, <1>2, <1>4, OneChanges
<1>6. \A S : r \in InStatus(S) <=> Status(r) \in S
  BY <1>1, StatusOf
<1>7. /\ InStatus({"waiting", "prefill"})' = InStatus({"waiting", "prefill"})
      /\ InStatus({"waiting"})' = InStatus({"waiting"}) \ {r}
      /\ InStatus({"decoding"})' = InStatus({"decoding"})
      /\ InStatus(Ended)' = InStatus(Ended)
  <2>1. r \in InStatus({"waiting", "prefill"})
        /\ r \notin InStatus({"decoding"}) /\ r \notin InStatus(Ended)
    BY <1>3, <1>6 DEF Ended
  <2>2. /\ InStatus({"waiting", "prefill"})' = (InStatus({"waiting", "prefill"}) \ {r}) \cup {r}
        /\ InStatus({"waiting"})' = InStatus({"waiting"}) \ {r}
        /\ InStatus({"decoding"})' = InStatus({"decoding"}) \ {r}
        /\ InStatus(Ended)' = InStatus(Ended) \ {r}
    <3>1. /\ "prefill" \in {"waiting", "prefill"} /\ "prefill" \notin {"waiting"}
          /\ "prefill" \notin {"decoding"} /\ "prefill" \notin Ended
      BY DEF Ended
    <3>. QED  BY ONLY <1>5, <3>1
  <2>. QED  BY ONLY <2>1, <2>2
<1>8. OneSlotEach' /\ InSlot' = InSlot
      /\ Range(request_queue') = Range(request_queue) /\ Range(waiting') = Range(waiting)
      /\ Range(finished') = Range(finished)
  BY <1>1, <1>2 DEF Homes, OneSlotEach, InSlot, SlotIndices
<1>9. Homes'
  BY <1>1, <1>2, <1>3, <1>7, <1>8 DEF Homes
<1>10. Typed'
  BY <1>1, <1>2, <1>5 DEF Typed, SlotIndices, Counters, Phases
<1>11. Owning' /\ InTurn'
  BY <1>1, <1>2, <1>8 DEF Owning, KV!Owners, BlocksInOnePlace, InTurn, KV!Blocks, kv_vars
<1>. QED  BY <1>9, <1>10, <1>11 DEF PInv

(* Whoever ends is recorded, outside the line, and in no slot.              *)
LEMMA EndingKeeps ==
  ASSUME Typed, Homes, NEW r \in Requests, NEW q \in RequestRecords, q.status \in Ended,
         RecordEnd(r, q), r \notin Range(finished),
         waiting' \in Seq(Requests), IsInjective(waiting'), Range(waiting') = Range(waiting) \ {r},
         r \notin Range(request_queue), UNCHANGED request_queue,
         OneSlotEach', InSlot' = InSlot \ {r}
  PROVE  /\ request_state' \in [Requests -> RequestRecords] /\ finished' \in Seq(Requests)
         /\ Homes'
<1>1. Set(r, q) /\ finished' = Append(finished, r)
  BY DEF RecordEnd
<1>2. /\ request_state' \in [Requests -> RequestRecords]
      /\ \A S : InStatus(S)' = (InStatus(S) \ {r}) \cup (IF q.status \in S THEN {r} ELSE {})
  BY <1>1, OneChanges
<1>3. /\ InStatus({"waiting", "prefill"})' = InStatus({"waiting", "prefill"}) \ {r}
      /\ InStatus({"waiting"})' = InStatus({"waiting"}) \ {r}
      /\ InStatus({"decoding"})' = InStatus({"decoding"}) \ {r}
      /\ InStatus(Ended)' = InStatus(Ended) \cup {r}
  BY <1>2 DEF Ended
<1>4. finished \in Seq(Requests)
  BY DEF Typed
<1>5. finished' \in Seq(Requests) /\ Range(finished') = Range(finished) \cup {r}
  BY <1>1, <1>4, AppendRange
<1>6. IsInjective(finished')
  BY <1>1, <1>4, AppendToDistinct DEF Homes
<1>7. Range(request_queue') = Range(request_queue)
  OBVIOUS
<1>8. Homes'
  BY <1>3, <1>5, <1>6, <1>7 DEF Homes
<1>. QED  BY <1>2, <1>5, <1>8

LEMMA FailAdmissionKeeps ==
  ASSUME PInv, NEW r \in Requests, FailAdmission(r)
  PROVE  PInv'
<1>1. Typed /\ Homes /\ Owning /\ BlocksInOnePlace
  BY DEF PInv, Owning
<1>2. PICK counted \in {0, request_state[r].prompt} :
        EndRequest(r, MarkFailed([MarkAdmitted(request_state[r]) EXCEPT !.prompt_tokens = counted]))
  BY DEF FailAdmission
<1>. DEFINE q == MarkFailed([MarkAdmitted(request_state[r]) EXCEPT !.prompt_tokens = counted])
<1>3. /\ Admitting(r) /\ waiting' = Tail(waiting)
      /\ UNCHANGED <<request_queue, phase, local, slots, stats>>
  BY DEF FailAdmission
<1>4. /\ Tail(waiting) \in Seq(Requests)
      /\ Range(waiting) = Range(Tail(waiting)) \cup {r}
      /\ IsInjective(Tail(waiting)) /\ r \notin Range(Tail(waiting))
      /\ r \notin Range(request_queue) /\ r \notin InSlot /\ r \notin Range(finished)
      /\ request_state[r] \in RequestRecords
  BY <1>3, CandidateIs
<1>5. q \in RequestRecords /\ q.status \in Ended
  <2>1. MarkAdmitted(request_state[r]) \in RequestRecords
    BY <1>4, RecordMethods
  <2>2. counted \in Nat
    BY <1>4 DEF RequestRecords
  <2>3. [MarkAdmitted(request_state[r]) EXCEPT !.prompt_tokens = counted] \in RequestRecords
    BY <2>1, <2>2 DEF RequestRecords
  <2>4. q \in RequestRecords
    BY <2>3, RecordMethods
  <2>. QED  BY <2>3, <2>4 DEF MarkFailed, RequestRecords, Ended
<1>6. RecordEnd(r, q) /\ KV!Free(r)
  BY <1>2 DEF EndRequest
<1>. HIDE DEF q
<1>7. OneSlotEach' /\ InSlot' = InSlot /\ InSlot' = InSlot \ {r}
  BY <1>1, <1>3, <1>4 DEF Homes, OneSlotEach, InSlot, SlotIndices
<1>8. Range(waiting') = Range(waiting) \ {r} /\ waiting' \in Seq(Requests) /\ IsInjective(waiting')
  BY <1>3, <1>4
<1>9. request_state' \in [Requests -> RequestRecords] /\ finished' \in Seq(Requests) /\ Homes'
  BY <1>1, <1>3, <1>4, <1>5, <1>6, <1>7, <1>8, EndingKeeps
<1>10. BlocksInOnePlace' /\ KV!Owners' = KV!Owners \ {r}
  BY <1>1, <1>6, TableTaken
<1>11. Owning' /\ InTurn'
  BY <1>1, <1>3, <1>7, <1>10 DEF PInv, Owning, InTurn
<1>12. Typed'
  BY <1>1, <1>3, <1>8, <1>9 DEF Typed, SlotIndices, Counters
<1>. QED  BY <1>9, <1>11, <1>12 DEF PInv

LEMMA StallKeeps ==
  ASSUME PInv, NEW r \in Requests, Stall(r)
  PROVE  PInv'
<1>1. Typed /\ Homes /\ Owning /\ BlocksInOnePlace
  BY DEF PInv, Owning
<1>2. /\ At(r) /\ KV!EnsureCapacityForToken(r, TokenPosition(r))
      /\ Count({"kv_allocation_failures"})
      /\ local' = [local EXCEPT !.position = @ + 1, !.stalled = Append(@, Slot)]
      /\ NobodyMoves /\ UNCHANGED <<metrics, phase>>
  BY DEF Stall, NobodyMoves
<1>3. Homes' /\ InSlot' = InSlot
  BY <1>2, HomesStay
<1>4. BlocksInOnePlace' /\ KV!Owners' = KV!Owners
  BY <1>1, <1>2, TableGrows
<1>5. stats' \in [Counters -> Nat]
  BY <1>1, <1>2, CountKeeps
<1>6. local' \in Locals
  <2>1. Slot \in SlotIndices
    BY <1>1, <1>2, SlotIs DEF At
  <2>2. local.stalled \in Seq(SlotIndices) /\ local \in Locals
    BY <1>1 DEF Typed, Locals
  <2>3. Append(local.stalled, Slot) \in Seq(SlotIndices)
    BY <2>1, <2>2, AppendProperties
  <2>. QED  BY <1>2, <2>2, <2>3, NextPosition
<1>7. Typed'
  BY <1>1, <1>2, <1>5, <1>6
     DEF Typed, NobodyMoves, SlotIndices, Counters, Phases, Locals, RequestRecords, KV!Blocks
<1>8. Owning' /\ InTurn'
  BY <1>1, <1>2, <1>3, <1>4 DEF Owning, InTurn, At
<1>. QED  BY <1>3, <1>7, <1>8 DEF PInv

(* A record after one more token.                                           *)
WithToken(q, table, text) == Counted(Streamed(Emitted([q EXCEPT !.block_table = table]), text))

LEMMA WithTokenIs ==
  ASSUME NEW q \in RequestRecords, NEW table \in Seq(KV!Blocks), NEW text \in BOOLEAN
  PROVE  WithToken(q, table, text) \in RequestRecords /\ WithToken(q, table, text).status = q.status
<1>. DEFINE b == [q EXCEPT !.block_table = table]
<1>1. b \in RequestRecords /\ b.status = q.status
  BY DEF RequestRecords
<1>. HIDE DEF b
<1>2. Emitted(b) \in RequestRecords /\ Emitted(b).status = b.status
  BY <1>1, RecordMethods DEF Emitted, RequestRecords
<1>3. Streamed(Emitted(b), text) \in RequestRecords
      /\ Streamed(Emitted(b), text).status = Emitted(b).status
  <2>1. Emitted(b) \in RequestRecords
    BY <1>2
  <2>2. Streamed(Emitted(b), text) \in RequestRecords
    BY <2>1, RecordMethods
  <2>. QED  BY <2>1, <2>2 DEF Streamed, AppendText, MarkFirstToken, RequestRecords
<1>4. Counted(Streamed(Emitted(b), text)) \in RequestRecords
      /\ Counted(Streamed(Emitted(b), text)).status = Streamed(Emitted(b), text).status
  <2>1. Streamed(Emitted(b), text) \in RequestRecords
    BY <1>3
  <2>2. Counted(Streamed(Emitted(b), text)) \in RequestRecords
    BY <2>1, RecordMethods
  <2>. QED  BY <2>1, <2>2 DEF Counted, RequestRecords
<1>. QED  BY <1>1, <1>2, <1>3, <1>4 DEF WithToken, b

(* The slot the pass is at holds somebody who decodes.                      *)
LEMMA InItsTurn ==
  ASSUME PInv, NEW r \in Requests, local.position <= Len(local.occupied), r = slots[Slot]
  PROVE  /\ Slot \in SlotIndices /\ r \in InSlot /\ r \in KV!Owners
         /\ Status(r) = "decoding" /\ request_state[r] \in RequestRecords
         /\ r \notin Range(request_queue) /\ r \notin Range(waiting) /\ r \notin Range(finished)
<1>1. Typed /\ Homes /\ Owning
  BY DEF PInv
<1>2. Slot \in SlotIndices
  BY <1>1, SlotIs
<1>3. r # NoRequest
  BY LegacySlotsAssumption
<1>4. r \in InSlot /\ r \in KV!Owners
  BY <1>1, <1>2, <1>3 DEF InSlot, Owning
<1>5. r \in InStatus({"decoding"})
  BY <1>1, <1>4 DEF Homes
<1>6. Status(r) = "decoding" /\ request_state[r] \in RequestRecords
  BY <1>1, <1>5, StatusOf
<1>7. r \notin InStatus({"waiting", "prefill"}) /\ r \notin InStatus(Ended)
  BY <1>6 DEF InStatus, Ended
<1>. QED  BY <1>1, <1>2, <1>4, <1>6, <1>7 DEF Homes

LEMMA DecodeKeeps ==
  ASSUME PInv, NEW r \in Requests, Decode(r)
  PROVE  PInv'
<1>1. Typed /\ Homes /\ Owning /\ BlocksInOnePlace
  BY DEF PInv, Owning
<1>2. PICK text \in TextsOf(request_state[r]) :
        LET q == WithToken(request_state[r], block_tables'[r], text)
        IN  /\ Set(r, q)
            /\ IF IsFinished(q)
               THEN phase' = "finish" /\ local' = [local EXCEPT !.decoded_any = TRUE]
               ELSE /\ local' = [local EXCEPT !.decoded_any = TRUE, !.position = @ + 1]
                    /\ UNCHANGED phase
  BY DEF Decode, WithToken
<1>. DEFINE q == WithToken(request_state[r], block_tables'[r], text)
<1>3. /\ At(r) /\ KV!EnsureCapacityForToken(r, TokenPosition(r)) /\ Count({"tokens_generated"})
      /\ UNCHANGED <<request_queue, waiting, finished, metrics, slots>>
  BY DEF Decode
<1>4. /\ Status(r) = "decoding" /\ request_state[r] \in RequestRecords
      /\ r \notin Range(request_queue)
  BY <1>3, InItsTurn DEF At
<1>5. /\ BlocksInOnePlace' /\ KV!Owners' = KV!Owners
      /\ block_tables'[r] \in Seq(KV!Blocks)
  BY <1>1, <1>3, TableGrows
<1>6. q \in RequestRecords /\ q.status = "decoding"
  <2>1. text \in BOOLEAN
    BY DEF TextsOf
  <2>. QED  BY <1>4, <1>5, <2>1, WithTokenIs DEF Status
<1>7. Set(r, q) /\ local' \in Locals /\ phase' \in Phases /\ InTurn'
  <2>1. local \in Locals /\ local.position <= Len(local.occupied) /\ phase = "decoding"
    BY <1>1, <1>3 DEF Typed, At
  <2>2. CASE IsFinished(q)
    <3>1. phase' = "finish" /\ local' = [local EXCEPT !.decoded_any = TRUE] /\ Set(r, q)
      BY <1>2, <2>2
    <3>. QED  BY <2>1, <3>1 DEF Locals, Phases, InTurn
  <2>3. CASE ~ IsFinished(q)
    <3>1. /\ local' = [local EXCEPT !.decoded_any = TRUE, !.position = @ + 1]
          /\ phase' = phase /\ Set(r, q)
      BY <1>2, <2>3
    <3>2. local' \in Locals
      BY <2>1, <3>1, NextPosition
    <3>. QED  BY <2>1, <3>1, <3>2 DEF Phases, InTurn
  <2>. QED  BY <2>2, <2>3
<1>. HIDE DEF q
<1>8. /\ request_state' \in [Requests -> RequestRecords]
      /\ \A S : InStatus(S)' = (InStatus(S) \ {r}) \cup (IF "decoding" \in S THEN {r} ELSE {})
  BY <1>1, <1>6, <1>7, OneChanges
<1>9. \A S : r \in InStatus(S) <=> "decoding" \in S
  BY <1>1, <1>4, StatusOf
<1>10. /\ InStatus({"waiting", "prefill"})' = InStatus({"waiting", "prefill"})
       /\ InStatus({"waiting"})' = InStatus({"waiting"})
       /\ InStatus({"decoding"})' = InStatus({"decoding"})
       /\ InStatus(Ended)' = InStatus(Ended)
  BY <1>8, <1>9 DEF Ended
<1>11. OneSlotEach' /\ InSlot' = InSlot
       /\ Range(request_queue') = Range(request_queue) /\ Range(waiting') = Range(waiting)
       /\ Range(finished') = Range(finished)
  BY <1>1, <1>3 DEF Homes, OneSlotEach, InSlot, SlotIndices
<1>12. Homes'
  BY <1>1, <1>3, <1>10, <1>11 DEF Homes
<1>13. stats' \in [Counters -> Nat]
  BY <1>1, <1>3, CountKeeps
<1>14. Typed'
  BY <1>1, <1>3, <1>7, <1>8, <1>13 DEF Typed, SlotIndices, Counters, Phases, Locals
<1>15. Owning'
  BY <1>1, <1>5, <1>11 DEF Owning
<1>. QED  BY <1>7, <1>12, <1>14, <1>15 DEF PInv

(* Three ways to end in a slot: its request ends and leaves it.             *)
LEMMA EndingInSlotKeeps ==
  ASSUME PInv, NEW r \in Requests, NEW q \in RequestRecords, q.status \in Ended, RecordEnd(r, q),
         NEW i \in SlotIndices, slots[i] = r, slots' = [slots EXCEPT ![i] = NoRequest],
         BlocksInOnePlace', KV!Owners' = KV!Owners \ {r},
         UNCHANGED <<request_queue, waiting>>,
         phase' \in Phases, phase' # "finish", local' \in Locals, stats' \in [Counters -> Nat]
  PROVE  PInv'
<1>1. Typed /\ Homes /\ Owning
  BY DEF PInv
<1>2. /\ slots' \in [SlotIndices -> Requests \cup {NoRequest}]
      /\ OneSlotEach' /\ InSlot' = InSlot \ {r}
  BY <1>1, SlotEmptied DEF Homes
<1>3. r # NoRequest
  BY LegacySlotsAssumption
<1>4. r \in InSlot
  BY <1>3 DEF InSlot
<1>5. r \in InStatus({"decoding"})
  BY <1>1, <1>4 DEF Homes
<1>6. r \notin InStatus({"waiting", "prefill"}) /\ r \notin InStatus(Ended)
  BY <1>5 DEF InStatus, Ended
<1>7. r \notin Range(request_queue) /\ r \notin Range(waiting) /\ r \notin Range(finished)
  BY <1>1, <1>6 DEF Homes
<1>8. /\ waiting' \in Seq(Requests) /\ IsInjective(waiting')
      /\ Range(waiting') = Range(waiting) \ {r}
  BY <1>1, <1>7 DEF Typed, Homes
<1>9. request_state' \in [Requests -> RequestRecords] /\ finished' \in Seq(Requests) /\ Homes'
  BY <1>1, <1>2, <1>7, <1>8, EndingKeeps
<1>10. Typed'
  BY <1>1, <1>2, <1>8, <1>9 DEF Typed, SlotIndices, Counters, Phases, Locals
<1>11. Owning' /\ InTurn'
  BY <1>1, <1>2 DEF Owning, InTurn
<1>. QED  BY <1>9, <1>10, <1>11 DEF PInv

LEMMA FinishKeeps ==
  ASSUME PInv, NEW r \in Requests, Finish(r)
  PROVE  PInv'
<1>1. Typed /\ BlocksInOnePlace /\ local \in Locals
  BY DEF PInv, Owning, Typed
<1>2. /\ phase = "finish" /\ r = slots[Slot]
      /\ EndRequest(r, MarkFinished(request_state[r]))
      /\ slots' = [slots EXCEPT ![Slot] = NoRequest]
      /\ Count({"early_finishes"}) /\ phase' = "decoding"
      /\ local' = [local EXCEPT !.position = @ + 1]
      /\ UNCHANGED <<request_queue, waiting>>
  BY DEF Finish
<1>3. local.position <= Len(local.occupied)
  BY <1>2 DEF PInv, InTurn
<1>4. Slot \in SlotIndices /\ request_state[r] \in RequestRecords
  BY <1>2, <1>3, InItsTurn
<1>5. MarkFinished(request_state[r]) \in RequestRecords
      /\ MarkFinished(request_state[r]).status \in Ended
  BY <1>4, RecordMethods DEF MarkFinished, RequestRecords, Ended
<1>6. RecordEnd(r, MarkFinished(request_state[r])) /\ KV!Free(r)
  BY <1>2 DEF EndRequest
<1>7. BlocksInOnePlace' /\ KV!Owners' = KV!Owners \ {r}
  BY <1>1, <1>6, TableTaken
<1>8. stats' \in [Counters -> Nat]
  BY <1>1, <1>2, CountKeeps
<1>9. local' \in Locals
  BY <1>1, <1>2, NextPosition
<1>. QED  BY <1>2, <1>4, <1>5, <1>6, <1>7, <1>8, <1>9, EndingInSlotKeeps DEF Phases

LEMMA FailDecodeKeeps ==
  ASSUME PInv, NEW r \in Requests, FailDecode(r)
  PROVE  PInv'
<1>. DEFINE table == block_tables[r] \o KV!FirstFree(Lacks(r))
            q == MarkFailed([request_state[r] EXCEPT !.block_table = table])
<1>1. Typed /\ BlocksInOnePlace /\ local \in Locals
  BY DEF PInv, Owning, Typed
<1>2. /\ At(r) /\ RecordEnd(r, q)
      /\ slots' = [slots EXCEPT ![Slot] = NoRequest]
      /\ local' = [local EXCEPT !.position = @ + 1]
      /\ UNCHANGED <<request_queue, waiting, phase, stats>>
  BY DEF FailDecode, Lacks
<1>3. Slot \in SlotIndices /\ request_state[r] \in RequestRecords /\ r \in KV!Owners
      /\ slots[Slot] = r /\ phase = "decoding"
  BY <1>2, InItsTurn DEF At
<1>4. BlocksInOnePlace' /\ KV!Owners' = KV!Owners \ {r} /\ table \in Seq(KV!Blocks)
  BY <1>1, <1>3, GrownTableTaken
<1>5. q \in RequestRecords /\ q.status \in Ended
  <2>1. [request_state[r] EXCEPT !.block_table = table] \in RequestRecords
    BY <1>3, <1>4 DEF RequestRecords
  <2>2. q \in RequestRecords
    BY <2>1, RecordMethods
  <2>. QED  BY <2>1, <2>2 DEF MarkFailed, RequestRecords, Ended
<1>. HIDE DEF q
<1>6. local' \in Locals /\ phase' \in Phases /\ phase' # "finish" /\ stats' \in [Counters -> Nat]
  BY <1>1, <1>2, <1>3, NextPosition DEF Phases, Typed
<1>. QED  BY <1>2, <1>3, <1>4, <1>5, <1>6, EndingInSlotKeeps

LEMMA EvictKeeps ==
  ASSUME PInv, NEW r \in Requests, Evict(r)
  PROVE  PInv'
<1>. DEFINE i == Last(local.stalled)
<1>1. Typed /\ BlocksInOnePlace /\ local.stalled # << >>
  BY DEF PInv, Owning, Evict, MustEvict
<1>2. /\ r = slots[i] /\ EndRequest(r, MarkFailed(request_state[r]))
      /\ slots' = [slots EXCEPT ![i] = NoRequest]
      /\ Count({"kv_oom_evictions"}) /\ phase' = "idle" /\ local' = Idle
      /\ UNCHANGED <<request_queue, waiting>>
  BY DEF Evict, EndStep
<1>3. i \in SlotIndices
  BY <1>1, LastStalledIs
<1>4. request_state[r] \in RequestRecords
  BY <1>1, StatusOf
<1>5. MarkFailed(request_state[r]) \in RequestRecords
      /\ MarkFailed(request_state[r]).status \in Ended
  BY <1>4, RecordMethods DEF MarkFailed, RequestRecords, Ended
<1>6. RecordEnd(r, MarkFailed(request_state[r])) /\ KV!Free(r)
  BY <1>2 DEF EndRequest
<1>7. BlocksInOnePlace' /\ KV!Owners' = KV!Owners \ {r}
  BY <1>1, <1>6, TableTaken
<1>8. stats' \in [Counters -> Nat]
  BY <1>1, <1>2, CountKeeps
<1>. HIDE DEF i
<1>. QED  BY <1>2, <1>3, <1>5, <1>6, <1>7, <1>8, IdleIsLocal, EndingInSlotKeeps DEF Phases

LEMMA InitIsRight ==
  ASSUME Init
  PROVE  PInv
<1>1. Typed
  <2>1. Unborn \in RequestRecords
    <3>1. << >> \in Seq({Text, End}) /\ << >> \in Seq(KV!Blocks) /\ << >> \in Seq(Events)
      BY EmptySeq
    <3>. QED  BY <3>1 DEF Unborn, NewRequestState, RequestRecords, Statuses
  <2>2. << >> \in Seq(Requests)
    BY EmptySeq
  <2>3. request_state \in [Requests -> RequestRecords]
    BY <2>1 DEF Init
  <2>4. stats \in [Counters -> Nat] /\ slots \in [SlotIndices -> Requests \cup {NoRequest}]
    BY DEF Init, NothingInSlots
  <2>. QED  BY <2>2, <2>3, <2>4, IdleIsLocal DEF Init, Typed, Phases
<1>2. \A S : "new" \notin S => InStatus(S) = {}
  BY DEF Init, InStatus, Status, Unborn, NewRequestState
<1>3. InSlot = {} /\ OneSlotEach
  BY DEF Init, NothingInSlots, InSlot, OneSlotEach
<1>4. Range(<< >>) = {} /\ IsInjective(<< >>)
  BY DEF Range, IsInjective
<1>5. Homes
  BY <1>2, <1>3, <1>4 DEF Init, Homes, Ended
<1>6. Partition(KV!Blocks, free_blocks, block_tables) /\ KV!Owners = {}
  <2>1. /\ free_blocks = [i \in 1 .. TotalBlocks |-> i - 1]
        /\ block_tables = [x \in {} |-> << >>]
    BY DEF Init, KV!Init
  <2>2. TotalBlocks \in Nat \ {0}
    BY LegacyPoolAssumption
  <2>3. free_blocks \in Seq(KV!Blocks)
    BY <2>1, <2>2 DEF KV!Blocks
  <2>4. IsInjective(free_blocks)
    BY <2>1, <2>2 DEF IsInjective
  <2>5. \A b \in KV!Blocks : b \in Range(free_blocks)
    <3>. TAKE b \in KV!Blocks
    <3>1. b + 1 \in 1 .. TotalBlocks /\ free_blocks[b + 1] = b
      BY <2>1, <2>2 DEF KV!Blocks
    <3>. QED  BY <2>1, <3>1 DEF Range
  <2>. QED  BY <2>1, <2>3, <2>4, <2>5 DEF Partition, KV!Owners
<1>. QED  BY <1>1, <1>3, <1>5, <1>6 DEF PInv, Owning, BlocksInOnePlace, InTurn, Init

LEMMA PInvKept ==
  ASSUME PInv, [Next]_vars
  PROVE  PInv'
<1>1. ASSUME NEW r \in Requests, Submit(r)  PROVE PInv'
  BY <1>1, SubmitKeeps
<1>2. CASE BeginStep \/ AdmitDone \/ BeginDecode \/ DecodeDone
  BY <1>2, QuietSteps
<1>3. CASE Drain
  BY <1>3, DrainKeeps
<1>4. ASSUME NEW r \in Requests,
             \/ AdmitOne(r) \/ Defer(r) \/ FailAdmission(r)
             \/ Stall(r) \/ Decode(r) \/ Finish(r) \/ FailDecode(r) \/ Evict(r)
      PROVE  PInv'
  BY <1>4, AdmitOneKeeps, DeferKeeps, FailAdmissionKeeps, StallKeeps, DecodeKeeps, FinishKeeps,
     FailDecodeKeeps, EvictKeeps
<1>5. CASE UNCHANGED vars
  <2>1. NobodyMoves /\ UNCHANGED <<stats, kv_vars, phase, local>>
    BY <1>5 DEF vars, NobodyMoves
  <2>2. phase \in Phases /\ local \in Locals /\ InTurn
    BY DEF PInv, Typed
  <2>. QED  BY <2>1, <2>2, QuietKeeps DEF InTurn
<1>. QED  BY <1>1, <1>2, <1>3, <1>4, <1>5 DEF Next, Step

LEMMA PInvInvariant == Spec => []PInv
<1>1. Init => PInv
  BY InitIsRight
<1>2. PInv /\ [Next]_vars => PInv'
  BY PInvKept
<1>. QED  BY <1>1, <1>2, PTL DEF Spec

-----------------------------------------------------------------------------
(* One home, one table *)

(* A member of a list without repetitions occurs in it once.                *)
LEMMA OccursOnce ==
  ASSUME NEW s, NEW r, IsInjective(s)
  PROVE  Occurrences(s, r) = IF r \in Range(s) THEN 1 ELSE 0
<1>1. CASE r \in Range(s)
  <2>1. PICK i \in DOMAIN s : s[i] = r
    BY <1>1 DEF Range
  <2>2. {j \in DOMAIN s : s[j] = r} = {i}
    BY <2>1 DEF IsInjective
  <2>. QED  BY <1>1, <2>2, FS_Singleton DEF Occurrences
<1>2. CASE r \notin Range(s)
  <2>1. {j \in DOMAIN s : s[j] = r} = {}
    BY <1>2 DEF Range
  <2>. QED  BY <1>2, <2>1, FS_EmptySet DEF Occurrences
<1>. QED  BY <1>1, <1>2

LEMMA PlacesAreRight ==
  ASSUME PInv
  PROVE  OneHomeOneTable
<1>1. Typed /\ Homes /\ Owning
  BY DEF PInv
<1>2. request_queue \in Seq(Requests) /\ waiting \in Seq(Requests)
  BY <1>1 DEF Typed
<1>3. IsInjective(request_queue \o waiting)
  BY <1>1, <1>2, InjectiveConcat DEF Homes
<1>4. Range(request_queue \o waiting) = Range(request_queue) \cup Range(waiting)
  BY <1>2, RangeConcatenation
<1>5. ASSUME NEW r \in Requests
      PROVE  Occurrences(request_queue \o waiting, r) + Occurrences(slots, r)
               + Occurrences(finished, r) = (IF Status(r) = "new" THEN 0 ELSE 1)
  <2>1. Occurrences(request_queue \o waiting, r) = IF Status(r) \in {"waiting", "prefill"} THEN 1 ELSE 0
    <3>1. r \in Range(request_queue \o waiting) <=> Status(r) \in {"waiting", "prefill"}
      BY <1>1, <1>4 DEF Homes, InStatus
    <3>. QED  BY <1>3, <3>1, OccursOnce
  <2>2. Occurrences(slots, r) = IF Status(r) = "decoding" THEN 1 ELSE 0
    <3>1. r # NoRequest /\ DOMAIN slots = SlotIndices
      BY <1>1, LegacySlotsAssumption DEF Typed
    <3>2. r \in InSlot <=> Status(r) = "decoding"
      BY <1>1 DEF Homes, InStatus
    <3>3. CASE r \in InSlot
      <4>1. PICK i \in SlotIndices : slots[i] = r
        BY <3>3 DEF InSlot
      <4>2. {j \in DOMAIN slots : slots[j] = r} = {i}
        BY <1>1, <3>1, <4>1 DEF Homes, OneSlotEach
      <4>. QED  BY <3>2, <3>3, <4>2, FS_Singleton DEF Occurrences
    <3>4. CASE r \notin InSlot
      <4>1. {j \in DOMAIN slots : slots[j] = r} = {}
        BY <3>1, <3>4 DEF InSlot
      <4>. QED  BY <3>2, <3>4, <4>1, FS_EmptySet DEF Occurrences
    <3>. QED  BY <3>3, <3>4
  <2>3. Occurrences(finished, r) = IF Status(r) \in Ended THEN 1 ELSE 0
    <3>1. r \in Range(finished) <=> Status(r) \in Ended
      BY <1>1 DEF Homes, InStatus
    <3>. QED  BY <1>1, <3>1, OccursOnce DEF Homes
  <2>4. Status(r) \in Statuses
    BY <1>1, StatusOf
  <2>. QED  BY <2>1, <2>2, <2>3, <2>4 DEF Statuses, Ended
<1>6. /\ \A r \in InSlot : Status(r) = "decoding"
      /\ \A r \in Range(finished) : Status(r) \in Ended
      /\ KV!Owners = InSlot
  BY <1>1 DEF Homes, InStatus, Owning
<1>. QED  BY <1>5, <1>6 DEF OneHomeOneTable

(* While it runs, it runs alone.                                            *)
LEMMA ContinuousRunsAlone ==
  ASSUME [MCNext]_mc_vars
  PROVE  running' = running /\ (running = "continuous" => [Next]_vars)
<1>1. CASE MCStep
  BY <1>1 DEF MCStep, ContinuousRuns, StaticRuns, EnginesRun, Next
<1>2. ASSUME NEW r \in Requests, MCSubmit(r)
      PROVE  running' = running /\ (running = "continuous" => [Next]_vars)
  BY <1>2 DEF MCSubmit, ContinuousRuns, StaticRuns, Next
<1>3. CASE EnginesDone
  BY <1>3 DEF EnginesDone, mc_vars
<1>4. CASE UNCHANGED mc_vars
  BY <1>4 DEF mc_vars
<1>. QED  BY <1>1, <1>2, <1>3, <1>4 DEF MCNext

LEMMA ContinuousInit ==
  ASSUME MCInit, running = "continuous"
  PROVE  Init
BY DEF MCInit

(* Every request of the continuous scheduler is in one place, and exactly   *)
(* those in slots own a block table, whichever of its ends it comes to.     *)
THEOREM SlotsAlwaysOwnTables == MCSpec => []SlotsOwnTables
<1>. DEFINE I == running = "continuous" => PInv
<1>1. MCInit => I
  BY ContinuousInit, InitIsRight
<1>2. I /\ [MCNext]_mc_vars => I'
  BY ContinuousRunsAlone, PInvKept
<1>3. I => SlotsOwnTables
  BY PlacesAreRight DEF SlotsOwnTables
<1>. QED  BY <1>1, <1>2, <1>3, PTL DEF MCSpec

-----------------------------------------------------------------------------
(* Nobody is overtaken *)

LEMMA HeadMovesOver ==
  ASSUME NEW S, NEW w \in Seq(S), NEW q \in Seq(S), q # << >>
  PROVE  Append(w, Head(q)) \o Tail(q) = w \o q
<1>1. Head(q) \in S /\ Tail(q) \in Seq(S) /\ <<Head(q)>> \in Seq(S)
  BY HeadTailProperties
<1>2. Append(w, Head(q)) = w \o <<Head(q)>>
  BY <1>1, AppendIsConcat
<1>3. (w \o <<Head(q)>>) \o Tail(q) = w \o (<<Head(q)>> \o Tail(q))
  BY <1>1, ConcatAssociative
<1>4. <<Head(q)>> \o Tail(q) = q
  <2>1. 1 \in 1 .. Len(q) /\ Len(q) \in 1 .. Len(q)
    BY LenProperties, EmptySeq
  <2>2. SubSeq(q, 1, Len(q)) = <<q[1]>> \o SubSeq(q, 1 + 1, Len(q))
    BY <2>1, SubSeqRecursiveFirst
  <2>3. SubSeq(q, 1, Len(q)) = q /\ Tail(q) = SubSeq(q, 2, Len(q))
    BY SubSeqFull, TailIsSubSeq
  <2>4. Head(q) = q[1]
    OBVIOUS
  <2>. QED  BY <2>2, <2>3, <2>4
<1>. QED  BY <1>2, <1>3, <1>4

LEMMA HeadOfTwo ==
  ASSUME NEW S, NEW w \in Seq(S), NEW q \in Seq(S), w # << >>
  PROVE  Tail(w) \o q = SubSeq(w \o q, 2, Len(w \o q))
<1>1. Tail(w) \in Seq(S) /\ w \o q \in Seq(S) /\ Len(w) \in Nat \ {0} /\ Len(q) \in Nat
  BY HeadTailProperties, ConcatProperties, LenProperties, EmptySeq
<1>2. Len(w \o q) = Len(w) + Len(q)
  BY ConcatProperties
<1>3. w \o q # << >>
  BY <1>1, <1>2, EmptySeq
<1>4. Tail(w \o q) = SubSeq(w \o q, 2, Len(w \o q))
  BY <1>1, <1>3, TailIsSubSeq
<1>5. Tail(w \o q) \in Seq(S) /\ Len(Tail(w \o q)) = Len(w \o q) - 1
      /\ \A i \in 1 .. Len(w \o q) - 1 : Tail(w \o q)[i] = (w \o q)[i + 1]
  BY <1>1, <1>3, HeadTailProperties
<1>6. Len(Tail(w)) = Len(w) - 1 /\ \A i \in 1 .. Len(w) - 1 : Tail(w)[i] = w[i + 1]
  BY HeadTailProperties
<1>7. Tail(w) \o q \in Seq(S) /\ Len(Tail(w) \o q) = Len(Tail(w)) + Len(q)
      /\ \A i \in 1 .. Len(Tail(w)) + Len(q) :
           (Tail(w) \o q)[i] = IF i <= Len(Tail(w)) THEN Tail(w)[i] ELSE q[i - Len(Tail(w))]
  BY <1>1, ConcatProperties
<1>8. \A i \in 1 .. Len(w) + Len(q) :
        (w \o q)[i] = IF i <= Len(w) THEN w[i] ELSE q[i - Len(w)]
  BY ConcatProperties
<1>9. ASSUME NEW i \in 1 .. Len(Tail(w) \o q)
      PROVE  (Tail(w) \o q)[i] = Tail(w \o q)[i]
  <2>1. /\ i \in 1 .. Len(w \o q) - 1 /\ i + 1 \in 1 .. Len(w) + Len(q)
        /\ i \in 1 .. Len(Tail(w)) + Len(q) /\ i \in Nat
    BY <1>1, <1>2, <1>6, <1>7
  <2>2. Tail(w \o q)[i] = IF i + 1 <= Len(w) THEN w[i + 1] ELSE q[(i + 1) - Len(w)]
    BY <1>5, <1>8, <2>1
  <2>3. (Tail(w) \o q)[i] = IF i <= Len(w) - 1 THEN Tail(w)[i] ELSE q[i - (Len(w) - 1)]
    BY <1>6, <1>7, <2>1
  <2>4. i <= Len(w) - 1 <=> i + 1 <= Len(w)
    BY <1>1, <2>1
  <2>5. i - (Len(w) - 1) = (i + 1) - Len(w)
    BY <1>1, <2>1
  <2>6. i <= Len(w) - 1 => Tail(w)[i] = w[i + 1]
    BY <1>1, <1>6, <2>1
  <2>. QED  BY <2>2, <2>3, <2>4, <2>5, <2>6
<1>10. Len(Tail(w) \o q) = Len(Tail(w \o q))
  BY <1>1, <1>2, <1>5, <1>6, <1>7
<1>11. Tail(w) \o q = Tail(w \o q)
  BY <1>5, <1>7, <1>9, <1>10, SeqEqual
<1>. QED  BY <1>4, <1>11

(* The line of those not yet admitted loses its head or grows at its end,   *)
(* and nothing else ever happens to it, though a candidate that does not    *)
(* fit is taken off it and put back.                                        *)
THEOREM NobodyOvertakes == Spec => NoOvertaking
<1>. DEFINE Moves == \/ Line' \in {Line, SubSeq(Line, 2, Len(Line))}
                     \/ \E r \in Requests : Line' = Append(Line, r)
<1>1. ASSUME PInv  PROVE request_queue \in Seq(Requests) /\ waiting \in Seq(Requests)
  BY <1>1 DEF PInv, Typed
<1>2. ASSUME UNCHANGED <<request_queue, waiting>>  PROVE Moves
  BY <1>2 DEF Line
<1>3. ASSUME PInv, NEW r \in Requests, Submit(r)  PROVE Moves
  <2>1. waiting \o Append(request_queue, r) = Append(waiting \o request_queue, r)
    <3>1. request_queue \in Seq(Requests) /\ waiting \in Seq(Requests) /\ <<r>> \in Seq(Requests)
      BY <1>1, <1>3
    <3>2. waiting \o request_queue \in Seq(Requests)
      BY <3>1, ConcatProperties
    <3>3. Append(request_queue, r) = request_queue \o <<r>>
      BY <3>1, AppendIsConcat
    <3>4. Append(waiting \o request_queue, r) = (waiting \o request_queue) \o <<r>>
      BY <3>2, AppendIsConcat
    <3>5. (waiting \o request_queue) \o <<r>> = waiting \o (request_queue \o <<r>>)
      BY <3>1, ConcatAssociative
    <3>. QED  BY <3>3, <3>4, <3>5
  <2>2. Line' = Append(Line, r)
    BY <1>3, <2>1 DEF Submit, Line
  <2>. QED  BY <2>2
<1>4. ASSUME PInv, Drain  PROVE Moves
  <2>1. CASE request_queue = << >>
    BY <1>2, <1>4, <2>1 DEF Drain
  <2>2. CASE request_queue # << >>
    <3>1. waiting' = Append(waiting, Head(request_queue)) /\ request_queue' = Tail(request_queue)
      BY <1>4, <2>2 DEF Drain
    <3>2. request_queue \in Seq(Requests) /\ waiting \in Seq(Requests)
      BY <1>1, <1>4
    <3>3. Append(waiting, Head(request_queue)) \o Tail(request_queue) = waiting \o request_queue
      BY <2>2, <3>2, HeadMovesOver
    <3>4. Line' = Line
      BY <3>1, <3>3 DEF Line
    <3>. QED  BY <3>4
  <2>. QED  BY <2>1, <2>2
<1>5. ASSUME PInv, waiting # << >>, waiting' = Tail(waiting), UNCHANGED request_queue
      PROVE  Moves
  <2>1. Line' = SubSeq(Line, 2, Len(Line))
    BY <1>1, <1>5, HeadOfTwo DEF Line
  <2>. QED  BY <2>1
<1>6. ASSUME PInv, NEW r \in Requests, AdmitOne(r) \/ FailAdmission(r)  PROVE Moves
  <2>1. waiting # << >> /\ waiting' = Tail(waiting) /\ UNCHANGED request_queue
    BY <1>6 DEF AdmitOne, FailAdmission, Admitting
  <2>. QED  BY <1>5, <1>6, <2>1
<1>7. ASSUME NEW r \in Requests,
             Defer(r) \/ Stall(r) \/ Decode(r) \/ Finish(r) \/ FailDecode(r) \/ Evict(r)
      PROVE  UNCHANGED <<request_queue, waiting>>
  BY <1>7 DEF Defer, Stall, Decode, Finish, FailDecode, Evict
<1>8. ASSUME BeginStep \/ AdmitDone \/ BeginDecode \/ DecodeDone
      PROVE  UNCHANGED <<request_queue, waiting>>
  BY <1>8 DEF BeginStep, AdmitDone, BeginDecode, DecodeDone
<1>9. PInv /\ [Next]_vars => [Moves]_vars
  <2>. SUFFICES ASSUME PInv, Next  PROVE Moves
    OBVIOUS
  <2>. HIDE DEF Moves
  <2>1. CASE \E r \in Requests : Submit(r)
    BY <1>3, <2>1
  <2>2. CASE Drain
    BY <1>4, <2>2
  <2>3. CASE BeginStep \/ AdmitDone \/ BeginDecode \/ DecodeDone
    BY <1>2, <1>8, <2>3
  <2>4. ASSUME NEW r \in Requests,
               \/ AdmitOne(r) \/ Defer(r) \/ FailAdmission(r)
               \/ Stall(r) \/ Decode(r) \/ Finish(r) \/ FailDecode(r) \/ Evict(r)
        PROVE  Moves
    <3>1. CASE AdmitOne(r) \/ FailAdmission(r)
      BY <1>6, <3>1
    <3>2. CASE Defer(r) \/ Stall(r) \/ Decode(r) \/ Finish(r) \/ FailDecode(r) \/ Evict(r)
      BY <1>2, <1>7, <3>2
    <3>. QED  BY <2>4, <3>1, <3>2
  <2>. QED  BY <2>1, <2>2, <2>3, <2>4 DEF Next, Step
<1>. QED  BY <1>9, PInvInvariant, PTL DEF Spec, NoOvertaking

-----------------------------------------------------------------------------
(* The inductive invariant: records *)

(* Times of a request that ended before, or after, its first token.         *)
EndedEarly == Append(Admitted, "finish")
EndedLate  == Append(Started, "finish")

(* Not admitted yet: nothing is counted, nothing was sent.                  *)
Fresh(q, times) ==
  /\ q.times = times /\ q.output_queue = << >> /\ ~ q.error
  /\ q.prompt_tokens = 0 /\ q.generated_tokens = 0 /\ q.past_length = 0
  /\ q.max_new_tokens \in {s.max_new_tokens : s \in Shapes}

EmittedTokens(q) == q.past_length - q.prompt_tokens

(* The scheduler counts every token that the runner counted once more.      *)
CountedTwice(q) ==
  /\ EmittedTokens(q) \in Nat
  /\ q.generated_tokens = 2 * EmittedTokens(q)
  /\ q.num_computed_tokens = q.past_length + EmittedTokens(q)

(* In a slot: a chunk of text at most per token, which has a first time.    *)
Running(q) ==
  /\ CountedTwice(q) /\ ~ q.error
  /\ q.prompt_tokens = q.prompt
  /\ q.times \in {Admitted, Started}
  /\ q.times = Admitted => q.generated_tokens = 0
  /\ q.output_queue \in Seq({Text}) /\ Len(q.output_queue) <= EmittedTokens(q)
  /\ q.max_new_tokens \in {s.max_new_tokens : s \in Shapes}

(* It runs while it lacks tokens, and is at once ended when it does not.    *)
HasItsTokens(q) ==
  q.generated_tokens >= q.max_new_tokens /\ q.generated_tokens < q.max_new_tokens + 2

InFinish(r) == phase = "finish" /\ r = slots[Slot]

RightRecord(q, in_finish) ==
  /\ q.status = "new"      => q = Unborn
  /\ q.status = "waiting"  => Fresh(q, Arrived)
  /\ q.status = "prefill"  => Fresh(q, Admitted)
  /\ q.status = "decoding" =>
       /\ Running(q)
       /\ IF in_finish THEN HasItsTokens(q) ELSE q.generated_tokens < q.max_new_tokens
  /\ q.status = "finished" =>
       CountedTwice(q) /\ HasItsTokens(q) /\ ~ q.error /\ q.times = EndedLate
  /\ q.status = "failed"   => q.error /\ q.times \in {EndedEarly, EndedLate}

RecordRight(r) == RightRecord(request_state[r], InFinish(r))

RecordsRight == \A r \in Requests : RecordRight(r)

(* The metrics store has the record of each request that ended.             *)
MetricsRight ==
  metrics = [i \in DOMAIN finished |-> FinishedRecord(finished[i], request_state[finished[i]])]

(* The scheduler counts each token once, all requests together twice.       *)
TokensAdd == SumFunctionOnSet(GeneratedTokens, Submitted) = 2 * stats.tokens_generated

RInv == PInv /\ RecordsRight /\ MetricsRight /\ TokensAdd

-----------------------------------------------------------------------------
(* The inductive invariant: a pass over the slots *)

Visited == {local.occupied[k] : k \in 1 .. local.position - 1}

(* Nobody in this pass was given a token, and nobody left his slot.         *)
NothingGained ==
  ~ local.decoded_any /\ \A i \in Range(local.occupied) : slots[i] # NoRequest

(* With all free blocks it would still be short of room for a token.        *)
LacksBlocks(r) ==
  Len(block_tables[r]) + Len(free_blocks) < KV!BlocksNeeded(TokenPosition(r) + 1)

FitsPool(q) == KV!BlocksNeeded(q.prompt + q.max_new_tokens) <= TotalBlocks

(* The pass goes through all slots that are occupied.  As long as nobody in  *)
(* it gained anything, all that had their turn are short of blocks and have *)
(* taken what there was.                                                    *)
PassRight ==
  phase \in {"decoding", "finish"} =>
    /\ {i \in SlotIndices : slots[i] # NoRequest} \subseteq Range(local.occupied)
    /\ phase = "finish" => local.decoded_any
    /\ NothingGained =>
         \A i \in Visited :
           /\ i \in SlotIndices /\ slots[i] # NoRequest
           /\ LacksBlocks(slots[i]) /\ free_blocks = << >>

(* Only requests that fit in the pool get into a slot.                      *)
PlacedFit == \A r \in InSlot : FitsPool(request_state[r])

EInv == RInv /\ PassRight /\ PlacedFit

-----------------------------------------------------------------------------
(* Every action keeps the records right *)

LEMMA OthersKept ==
  ASSUME RecordsRight, NEW P \in SUBSET Requests,
         \A x \in P : request_state'[x] = request_state[x] /\ (InFinish(x)' <=> InFinish(x))
  PROVE  \A x \in P : RecordRight(x)'
<1>1. ASSUME NEW x \in P  PROVE RecordRight(x)'
  <2>1. RightRecord(request_state[x], InFinish(x))
    BY DEF RecordsRight, RecordRight
  <2>2. request_state'[x] = request_state[x] /\ (InFinish(x)' <=> InFinish(x))
    OBVIOUS
  <2>3. RightRecord(request_state'[x], InFinish(x)')
    BY <2>1, <2>2 DEF RightRecord
  <2>. QED  BY <2>3 DEF RecordRight
<1>. QED  BY <1>1

(* A step that changes one record; the other requests keep theirs.          *)
LEMMA OneRecord ==
  ASSUME RecordsRight, NEW r \in Requests, RecordRight(r)',
         \A x \in Requests \ {r} :
           request_state'[x] = request_state[x] /\ (InFinish(x)' <=> InFinish(x))
  PROVE  RecordsRight'
<1>1. Requests \ {r} \in SUBSET Requests
  OBVIOUS
<1>2. \A x \in Requests \ {r} : RecordRight(x)'
  BY <1>1, OthersKept
<1>. QED  BY <1>2 DEF RecordsRight

LEMMA SubmitRecords ==
  ASSUME RInv, NEW r \in Requests, Submit(r)
  PROVE  RecordsRight'
<1>1. PICK s \in Shapes : Set(r, NewRequestState(s.prompt, s.max_new_tokens))
  BY DEF Submit
<1>2. /\ request_state'[r] = NewRequestState(s.prompt, s.max_new_tokens)
      /\ \A x \in Requests \ {r} : request_state'[x] = request_state[x]
  BY <1>1 DEF Set, RInv, PInv, Typed
<1>3. \A x \in Requests : InFinish(x)' <=> InFinish(x)
  BY DEF Submit, InFinish, Slot
<1>4. RecordRight(r)'
  BY <1>2 DEF RecordRight, RightRecord, Fresh, Arrived, NewRequestState
<1>. QED  BY <1>2, <1>3, <1>4, OneRecord DEF RInv

LEMMA DrainRecords ==
  ASSUME RInv, Drain, request_queue # << >>
  PROVE  RecordsRight'
<1>. DEFINE r == Head(request_queue)
<1>1. r \in Requests /\ Status(r) = "waiting"
  <2>1. request_queue \in Seq(Requests) /\ Homes
    BY DEF RInv, PInv, Typed
  <2>2. r \in Range(request_queue)
    BY <2>1, TailOfDistinct
  <2>. QED  BY <2>1, <2>2 DEF Homes, InStatus
<1>2. Set(r, [request_state[r] EXCEPT !.status = "waiting"]) /\ phase = "drain" /\ phase' = "drain"
  BY DEF Drain
<1>. HIDE DEF r
<1>3. request_state \in [Requests -> RequestRecords] /\ request_state[r] \in RequestRecords
  BY <1>1 DEF RInv, PInv, Typed
<1>4. [request_state[r] EXCEPT !.status = "waiting"] = request_state[r]
  BY <1>1, <1>3 DEF RequestRecords, Status
<1>5. request_state' = request_state
  BY <1>1, <1>2, <1>3, <1>4 DEF Set
<1>6. \A x \in Requests : request_state'[x] = request_state[x] /\ (InFinish(x)' <=> InFinish(x))
  BY <1>2, <1>5 DEF InFinish
<1>7. \A x \in Requests : RecordRight(x)'
  <2>1. Requests \in SUBSET Requests /\ RecordsRight
    BY DEF RInv
  <2>. QED  BY <1>6, <2>1, OthersKept
<1>. QED  BY <1>7 DEF RecordsRight

(* What the steps that admit find: somebody who waits or was deferred.      *)
LEMMA CandidateRecord ==
  ASSUME RInv, NEW r \in Requests, Admitting(r)
  PROVE  /\ request_state[r] \in RequestRecords
         /\ Fresh(request_state[r], request_state[r].times)
         /\ request_state[r].times \in {Arrived, Admitted}
         /\ MarkAdmitted(request_state[r]) \in RequestRecords
         /\ Fresh(MarkAdmitted(request_state[r]), Admitted)
         /\ MarkAdmitted(request_state[r]).status = "prefill"
         /\ MarkAdmitted(request_state[r]).prompt = request_state[r].prompt
<1>1. Status(r) \in {"waiting", "prefill"} /\ request_state[r] \in RequestRecords
  BY CandidateIs DEF RInv
<1>2. /\ Fresh(request_state[r], request_state[r].times)
      /\ request_state[r].times \in {Arrived, Admitted}
  BY <1>1 DEF RInv, RecordsRight, RecordRight, RightRecord, Status, Fresh
<1>3. Taken(request_state[r].times, "admit") = Admitted
  BY <1>2, TimesTaken
<1>4. MarkAdmitted(request_state[r]) \in RequestRecords
  BY <1>1, RecordMethods
<1>5. Fresh(MarkAdmitted(request_state[r]), Admitted)
  BY <1>1, <1>2, <1>3 DEF Fresh, MarkAdmitted, RequestRecords
<1>. QED  BY <1>1, <1>2, <1>4, <1>5 DEF MarkAdmitted, RequestRecords

LEMMA AdmitOneRecords ==
  ASSUME RInv, NEW r \in Requests, AdmitOne(r)
  PROVE  RecordsRight'
<1>. DEFINE m == MarkAdmitted(request_state[r])
            q == [Prefilled(m) EXCEPT !.block_table = block_tables'[r],
                                      !.num_computed_tokens = request_state[r].prompt]
<1>1. Admitting(r) /\ Set(r, q) /\ phase = "admit" /\ phase' = "admit"
  BY DEF AdmitOne, Admitting
<1>2. /\ m \in RequestRecords /\ Fresh(m, Admitted) /\ m.prompt = request_state[r].prompt
  BY <1>1, CandidateRecord
<1>3. /\ request_state'[r] = q
      /\ \A x \in Requests \ {r} : request_state'[x] = request_state[x]
  BY <1>1 DEF Set, RInv, PInv, Typed
<1>. HIDE DEF m
<1>4. /\ q.status = "decoding" /\ q.prompt_tokens = m.prompt /\ q.past_length = m.prompt
      /\ q.num_computed_tokens = m.prompt /\ q.generated_tokens = 0 /\ q.prompt = m.prompt
      /\ q.times = Admitted /\ q.output_queue = << >> /\ ~ q.error
      /\ q.max_new_tokens = m.max_new_tokens
  BY <1>2 DEF Prefilled, MarkDecoding, CountPromptTokens, RequestRecords, Fresh
<1>. HIDE DEF q
<1>5. m.prompt \in Nat /\ m.max_new_tokens \in {s.max_new_tokens : s \in Shapes}
  BY <1>2 DEF RequestRecords, Fresh
<1>6. Running(q)
  <2>1. EmittedTokens(q) = 0
    BY <1>4, <1>5 DEF EmittedTokens
  <2>2. << >> \in Seq({Text}) /\ Len(<< >>) = 0
    BY EmptySeq
  <2>. QED  BY <1>4, <1>5, <2>1, <2>2 DEF Running, CountedTwice
<1>7. q.generated_tokens < q.max_new_tokens
  BY <1>4, <1>5, LegacyShapesAssumption
<1>8. \A x \in Requests : ~ InFinish(x) /\ ~ InFinish(x)'
  BY <1>1 DEF InFinish
<1>9. RecordRight(r)'
  BY <1>3, <1>4, <1>6, <1>7, <1>8 DEF RecordRight, RightRecord, Running, CountedTwice, EmittedTokens
<1>. QED  BY <1>3, <1>8, <1>9, OneRecord DEF RInv

LEMMA DeferRecords ==
  ASSUME RInv, NEW r \in Requests, Defer(r)
  PROVE  RecordsRight'
<1>1. /\ Admitting(r) /\ Set(r, MarkAdmitted(request_state[r]))
      /\ phase = "admit" /\ phase' = "decode"
  BY DEF Defer, Admitting, Goto
<1>2. /\ Fresh(MarkAdmitted(request_state[r]), Admitted)
      /\ MarkAdmitted(request_state[r]).status = "prefill"
  BY <1>1, CandidateRecord
<1>3. /\ request_state'[r] = MarkAdmitted(request_state[r])
      /\ \A x \in Requests \ {r} : request_state'[x] = request_state[x]
  BY <1>1 DEF Set, RInv, PInv, Typed
<1>4. \A x \in Requests : ~ InFinish(x) /\ ~ InFinish(x)'
  BY <1>1 DEF InFinish
<1>5. RecordRight(r)'
  BY <1>2, <1>3 DEF RecordRight, RightRecord, Fresh
<1>. QED  BY <1>3, <1>4, <1>5, OneRecord DEF RInv

(* Times and flags after mark_failed.                                       *)
LEMMA FailedRecord ==
  ASSUME NEW q \in RequestRecords, q.times \in {Admitted, Started}
  PROVE  /\ MarkFailed(q).status = "failed" /\ MarkFailed(q).error
         /\ MarkFailed(q).times \in {EndedEarly, EndedLate}
         /\ MarkFailed(q).generated_tokens = q.generated_tokens
<1>1. Taken(q.times, "finish") \in {EndedEarly, EndedLate}
  BY TimesTaken DEF EndedEarly, EndedLate
<1>. QED  BY <1>1 DEF MarkFailed, RequestRecords

LEMMA FailAdmissionRecords ==
  ASSUME RInv, NEW r \in Requests, FailAdmission(r)
  PROVE  RecordsRight' /\ request_state'[r].generated_tokens = 0
<1>1. PICK counted \in {0, request_state[r].prompt} :
        EndRequest(r, MarkFailed([MarkAdmitted(request_state[r]) EXCEPT !.prompt_tokens = counted]))
  BY DEF FailAdmission
<1>. DEFINE q == [MarkAdmitted(request_state[r]) EXCEPT !.prompt_tokens = counted]
<1>2. Admitting(r) /\ phase = "admit" /\ phase' = "admit"
  BY DEF FailAdmission, Admitting
<1>3. /\ request_state[r] \in RequestRecords
      /\ MarkAdmitted(request_state[r]) \in RequestRecords
      /\ Fresh(MarkAdmitted(request_state[r]), Admitted)
  BY <1>2, CandidateRecord
<1>4. counted \in Nat
  <2>1. request_state[r].prompt \in Nat
    BY <1>3 DEF RequestRecords
  <2>. QED  BY <2>1
<1>5. q \in RequestRecords /\ q.times = Admitted /\ q.generated_tokens = 0
  BY <1>3, <1>4 DEF RequestRecords, Fresh
<1>6. Set(r, MarkFailed(q))
  BY <1>1 DEF EndRequest, RecordEnd
<1>. HIDE DEF q
<1>7. /\ MarkFailed(q).status = "failed" /\ MarkFailed(q).error
      /\ MarkFailed(q).times \in {EndedEarly, EndedLate} /\ MarkFailed(q).generated_tokens = 0
  BY <1>5, FailedRecord
<1>8. /\ request_state'[r] = MarkFailed(q)
      /\ \A x \in Requests \ {r} : request_state'[x] = request_state[x]
  BY <1>6 DEF Set, RInv, PInv, Typed
<1>9. \A x \in Requests : ~ InFinish(x) /\ ~ InFinish(x)'
  BY <1>2 DEF InFinish
<1>10. RecordRight(r)'
  BY <1>7, <1>8 DEF RecordRight, RightRecord
<1>. QED  BY <1>7, <1>8, <1>9, <1>10, OneRecord DEF RInv

LEMMA NobodysRecord ==
  ASSUME RecordsRight, UNCHANGED request_state, phase # "finish", phase' # "finish"
  PROVE  RecordsRight'
<1>1. \A x \in Requests : request_state'[x] = request_state[x] /\ (InFinish(x)' <=> InFinish(x))
  BY DEF InFinish
<1>2. Requests \in SUBSET Requests
  OBVIOUS
<1>3. \A x \in Requests : RecordRight(x)'
  BY <1>1, <1>2, OthersKept
<1>. QED  BY <1>3 DEF RecordsRight

LEMMA QuietRecords ==
  ASSUME RInv, \/ BeginStep \/ AdmitDone \/ BeginDecode \/ DecodeDone
               \/ Drain /\ request_queue = << >>
               \/ \E r \in Requests : Stall(r)
  PROVE  RecordsRight' /\ UNCHANGED <<request_state, finished, metrics>>
<1>1. RecordsRight
  BY DEF RInv
<1>2. UNCHANGED <<request_state, finished, metrics>> /\ phase # "finish" /\ phase' # "finish"
  BY DEF BeginStep, AdmitDone, BeginDecode, DecodeDone, AllDecoded, EndStep, Drain, Stall, At, Goto
<1>. QED  BY <1>1, <1>2, NobodysRecord

(* What one more token does to a record.                                    *)
LEMMA TokenFields ==
  ASSUME NEW q \in RequestRecords, NEW table \in Seq(KV!Blocks), NEW text \in BOOLEAN
  PROVE  LET w == WithToken(q, table, text)
         IN  /\ w.prompt = q.prompt /\ w.max_new_tokens = q.max_new_tokens
             /\ w.prompt_tokens = q.prompt_tokens /\ w.error = q.error
             /\ w.past_length = q.past_length + 1
             /\ w.generated_tokens = q.generated_tokens + 2
             /\ w.num_computed_tokens = q.prompt_tokens + (q.generated_tokens + 2)
             /\ w.times = Taken(q.times, "first_token")
             /\ w.output_queue = IF text THEN Append(q.output_queue, Text) ELSE q.output_queue
<1>. DEFINE b == [q EXCEPT !.block_table = table]
            e == Emitted(b)
            s == Streamed(e, text)
            w == Counted(s)
<1>1. b \in RequestRecords
  BY DEF RequestRecords
<1>2. e \in RequestRecords
  <2>. HIDE DEF b
  <2>. QED  BY <1>1, RecordMethods
<1>3. s \in RequestRecords
  <2>. HIDE DEF e
  <2>. QED  BY <1>2, RecordMethods
<1>4. /\ e.prompt = q.prompt /\ e.max_new_tokens = q.max_new_tokens
      /\ e.prompt_tokens = q.prompt_tokens /\ e.error = q.error /\ e.times = q.times
      /\ e.output_queue = q.output_queue
      /\ e.past_length = q.past_length + 1 /\ e.generated_tokens = q.generated_tokens + 1
  BY DEF Emitted, RequestRecords
<1>. HIDE DEF e
<1>5. /\ s.prompt = e.prompt /\ s.max_new_tokens = e.max_new_tokens
      /\ s.prompt_tokens = e.prompt_tokens /\ s.error = e.error
      /\ s.times = Taken(e.times, "first_token")
      /\ s.past_length = e.past_length /\ s.generated_tokens = e.generated_tokens
      /\ s.output_queue = IF text THEN Append(e.output_queue, Text) ELSE e.output_queue
  BY <1>2 DEF Streamed, AppendText, MarkFirstToken, RequestRecords
<1>. HIDE DEF s
<1>6. /\ w.prompt = s.prompt /\ w.max_new_tokens = s.max_new_tokens
      /\ w.prompt_tokens = s.prompt_tokens /\ w.error = s.error /\ w.times = s.times
      /\ w.past_length = s.past_length /\ w.output_queue = s.output_queue
      /\ w.generated_tokens = s.generated_tokens + 1
      /\ w.num_computed_tokens = s.prompt_tokens + (s.generated_tokens + 1)
  BY <1>3 DEF Counted, RequestRecords
<1>7. w = WithToken(q, table, text)
  BY DEF WithToken, s, e
<1>8. q.generated_tokens \in Nat /\ q.prompt_tokens \in Nat
  BY DEF RequestRecords
<1>. HIDE DEF w
<1>9. /\ w.generated_tokens = q.generated_tokens + 2
      /\ w.num_computed_tokens = q.prompt_tokens + (q.generated_tokens + 2)
  BY <1>4, <1>5, <1>6, <1>8
<1>10. /\ w.prompt = q.prompt /\ w.max_new_tokens = q.max_new_tokens
       /\ w.prompt_tokens = q.prompt_tokens /\ w.error = q.error
       /\ w.past_length = q.past_length + 1 /\ w.times = Taken(q.times, "first_token")
       /\ w.output_queue = IF text THEN Append(q.output_queue, Text) ELSE q.output_queue
  BY <1>4, <1>5, <1>6
<1>. QED  BY <1>7, <1>9, <1>10

(* A running request stays one with a token more, and gets there by twos.   *)
LEMMA TokenKeepsRunning ==
  ASSUME NEW q \in RequestRecords, Running(q), q.generated_tokens < q.max_new_tokens,
         NEW table \in Seq(KV!Blocks), NEW text \in BOOLEAN
  PROVE  LET w == WithToken(q, table, text)
         IN  /\ Running(w)
             /\ IF IsFinished(w) THEN HasItsTokens(w) ELSE w.generated_tokens < w.max_new_tokens
<1>. DEFINE w == WithToken(q, table, text)
<1>1. /\ w.prompt = q.prompt /\ w.max_new_tokens = q.max_new_tokens
      /\ w.prompt_tokens = q.prompt_tokens /\ w.error = q.error
      /\ w.past_length = q.past_length + 1
      /\ w.generated_tokens = q.generated_tokens + 2
      /\ w.num_computed_tokens = q.prompt_tokens + (q.generated_tokens + 2)
      /\ w.times = Taken(q.times, "first_token")
      /\ w.output_queue = IF text THEN Append(q.output_queue, Text) ELSE q.output_queue
  BY TokenFields
<1>. HIDE DEF w
<1>2. /\ q.past_length \in Nat /\ q.prompt_tokens \in Nat /\ q.generated_tokens \in Nat
      /\ q.max_new_tokens \in Nat
  BY DEF RequestRecords
<1>3. CountedTwice(q)
  BY DEF Running
<1>4. CountedTwice(w) /\ EmittedTokens(w) = EmittedTokens(q) + 1
  <2>1. \A p, t, g \in Nat :
          p - t \in Nat /\ g = 2 * (p - t) =>
            /\ (p + 1) - t = (p - t) + 1 /\ (p + 1) - t \in Nat
            /\ g + 2 = 2 * ((p + 1) - t)
            /\ t + (g + 2) = (p + 1) + ((p + 1) - t)
    OBVIOUS
  <2>2. PICK p \in Nat, t \in Nat, g \in Nat :
          p = q.past_length /\ t = q.prompt_tokens /\ g = q.generated_tokens
    BY <1>2
  <2>3. p - t \in Nat /\ g = 2 * (p - t) /\ EmittedTokens(q) = p - t
    BY <1>3, <2>2 DEF CountedTwice, EmittedTokens
  <2>4. /\ (p + 1) - t = (p - t) + 1 /\ (p + 1) - t \in Nat
        /\ g + 2 = 2 * ((p + 1) - t)
        /\ t + (g + 2) = (p + 1) + ((p + 1) - t)
    BY <2>1, <2>3
  <2>5. EmittedTokens(w) = (p + 1) - t
    BY <1>1, <2>2 DEF EmittedTokens
  <2>6. w.generated_tokens = g + 2 /\ w.num_computed_tokens = t + (g + 2) /\ w.past_length = p + 1
    BY <1>1, <2>2
  <2>. QED  BY <2>3, <2>4, <2>5, <2>6 DEF CountedTwice
<1>5. w.times = Started /\ Started # Admitted
  <2>1. q.times \in {Admitted, Started}
    BY DEF Running
  <2>. QED  BY <1>1, <2>1, TimesTaken, TimesAre
<1>6. w.output_queue \in Seq({Text}) /\ Len(w.output_queue) <= EmittedTokens(w)
  <2>1. q.output_queue \in Seq({Text}) /\ Len(q.output_queue) <= EmittedTokens(q)
        /\ EmittedTokens(q) \in Nat
    BY <1>3 DEF Running, CountedTwice
  <2>2. Len(q.output_queue) \in Nat
    BY <2>1, LenProperties
  <2>3. CASE text
    <3>0. Text \in {Text} /\ q.output_queue \in Seq({Text})
      BY <2>1
    <3>1. Append(q.output_queue, Text) \in Seq({Text})
      BY <3>0, AppendProperties
    <3>2. Len(Append(q.output_queue, Text)) = Len(q.output_queue) + 1
      BY <3>0, AppendProperties
    <3>. QED  BY <1>1, <1>4, <2>1, <2>2, <2>3, <3>1, <3>2
  <2>4. CASE ~ text
    BY <1>1, <1>4, <2>1, <2>2, <2>4
  <2>. QED  BY <2>3, <2>4
<1>7. Running(w)
  BY <1>1, <1>4, <1>5, <1>6 DEF Running
<1>8. IF IsFinished(w) THEN HasItsTokens(w) ELSE w.generated_tokens < w.max_new_tokens
  BY <1>1, <1>2 DEF IsFinished, HasItsTokens
<1>. QED  BY <1>7, <1>8 DEF w

(* What a request in its turn looks like.                                   *)
LEMMA TurnRecord ==
  ASSUME RInv, NEW r \in Requests, local.position <= Len(local.occupied), r = slots[Slot]
  PROVE  /\ Slot \in SlotIndices /\ request_state[r] \in RequestRecords
         /\ request_state[r].status = "decoding" /\ Running(request_state[r])
         /\ IF phase = "finish" THEN HasItsTokens(request_state[r])
            ELSE request_state[r].generated_tokens < request_state[r].max_new_tokens
<1>1. Slot \in SlotIndices /\ Status(r) = "decoding" /\ request_state[r] \in RequestRecords
  BY InItsTurn DEF RInv
<1>2. RightRecord(request_state[r], InFinish(r))
  BY DEF RInv, RecordsRight, RecordRight
<1>. QED  BY <1>1, <1>2 DEF RightRecord, Status, InFinish

LEMMA DecodeRecords ==
  ASSUME RInv, NEW r \in Requests, Decode(r)
  PROVE  /\ RecordsRight'
         /\ request_state'[r].generated_tokens = request_state[r].generated_tokens + 2
<1>1. PICK text \in TextsOf(request_state[r]) :
        LET q == WithToken(request_state[r], block_tables'[r], text)
        IN  /\ Set(r, q)
            /\ IF IsFinished(q)
               THEN phase' = "finish" /\ local' = [local EXCEPT !.decoded_any = TRUE]
               ELSE /\ local' = [local EXCEPT !.decoded_any = TRUE, !.position = @ + 1]
                    /\ UNCHANGED phase
  BY DEF Decode, WithToken
<1>. DEFINE q == WithToken(request_state[r], block_tables'[r], text)
<1>2. /\ phase = "decoding" /\ local.position <= Len(local.occupied) /\ r = slots[Slot]
      /\ KV!EnsureCapacityForToken(r, TokenPosition(r)) /\ UNCHANGED slots
  BY DEF Decode, At
<1>3. /\ request_state[r] \in RequestRecords /\ request_state[r].status = "decoding"
      /\ Running(request_state[r])
      /\ request_state[r].generated_tokens < request_state[r].max_new_tokens
  BY <1>2, TurnRecord
<1>4. block_tables'[r] \in Seq(KV!Blocks)
  BY <1>2, TableGrows DEF RInv, PInv, Owning
<1>5. text \in BOOLEAN
  BY DEF TextsOf
<1>6. /\ Running(q) /\ q.status = "decoding"
      /\ IF IsFinished(q) THEN HasItsTokens(q) ELSE q.generated_tokens < q.max_new_tokens
      /\ q.generated_tokens = request_state[r].generated_tokens + 2
  BY <1>3, <1>4, <1>5, TokenKeepsRunning, TokenFields, WithTokenIs
<1>7. /\ Set(r, q)
      /\ IF IsFinished(q)
         THEN phase' = "finish" /\ local' = [local EXCEPT !.decoded_any = TRUE]
         ELSE phase' = phase
  BY <1>1
<1>. HIDE DEF q
<1>8. /\ request_state'[r] = q
      /\ \A x \in Requests \ {r} : request_state'[x] = request_state[x]
  BY <1>7 DEF Set, RInv, PInv, Typed
<1>9. \A x \in Requests : ~ InFinish(x)
  BY <1>2 DEF InFinish
<1>10. CASE IsFinished(q)
  <2>1. phase' = "finish" /\ local' = [local EXCEPT !.decoded_any = TRUE]
    BY <1>7, <1>10
  <2>2. Slot' = Slot
    <3>1. local \in Locals
      BY DEF RInv, PInv, Typed
    <3>2. local'.occupied = local.occupied /\ local'.position = local.position
      BY <2>1, <3>1 DEF Locals
    <3>. QED  BY <3>2 DEF Slot
  <2>3. \A x \in Requests : InFinish(x)' <=> x = r
    BY <1>2, <2>1, <2>2 DEF InFinish
  <2>4. RightRecord(request_state'[r], InFinish(r)')
    BY <1>6, <1>8, <1>10, <2>3 DEF RightRecord
  <2>5. RecordRight(r)'
    BY <2>4 DEF RecordRight
  <2>. QED  BY <1>6, <1>8, <1>9, <2>3, <2>5, OneRecord DEF RInv
<1>11. CASE ~ IsFinished(q)
  <2>1. \A x \in Requests : ~ InFinish(x)'
    BY <1>2, <1>7, <1>11 DEF InFinish
  <2>2. RightRecord(request_state'[r], InFinish(r)')
    BY <1>6, <1>8, <1>11, <2>1 DEF RightRecord
  <2>3. RecordRight(r)'
    BY <2>2 DEF RecordRight
  <2>. QED  BY <1>6, <1>8, <1>9, <2>1, <2>3, OneRecord DEF RInv
<1>. QED  BY <1>10, <1>11

(* A request that ends, with a record that is right for its end.            *)
LEMMA EndedRecord ==
  ASSUME RInv, NEW r \in Requests, NEW q, q.status \in Ended, RightRecord(q, FALSE), Set(r, q),
         phase' # "finish", \A x \in Requests \ {r} : ~ InFinish(x)
  PROVE  RecordsRight'
<1>1. /\ request_state'[r] = q
      /\ \A x \in Requests \ {r} : request_state'[x] = request_state[x]
  BY DEF Set, RInv, PInv, Typed
<1>2. \A x \in Requests : ~ InFinish(x)'
  BY DEF InFinish
<1>3. RecordRight(r)'
  <2>1. RightRecord(request_state'[r], InFinish(r)')
    BY <1>1, <1>2 DEF RightRecord
  <2>. QED  BY <2>1 DEF RecordRight
<1>. QED  BY <1>1, <1>2, <1>3, OneRecord DEF RInv

LEMMA FinishRecords ==
  ASSUME RInv, NEW r \in Requests, Finish(r)
  PROVE  /\ RecordsRight'
         /\ request_state'[r].generated_tokens = request_state[r].generated_tokens
<1>. DEFINE q == MarkFinished(request_state[r])
<1>1. /\ phase = "finish" /\ r = slots[Slot] /\ Set(r, q) /\ phase' = "decoding"
  BY DEF Finish, EndRequest, RecordEnd
<1>2. local.position <= Len(local.occupied)
  BY <1>1 DEF RInv, PInv, InTurn
<1>3. /\ request_state[r] \in RequestRecords
      /\ Running(request_state[r]) /\ HasItsTokens(request_state[r])
  BY <1>1, <1>2, TurnRecord
<1>4. request_state[r].times = Started
  <2>1. /\ request_state[r].generated_tokens >= request_state[r].max_new_tokens
        /\ request_state[r].max_new_tokens \in {s.max_new_tokens : s \in Shapes}
        /\ request_state[r].times \in {Admitted, Started}
        /\ request_state[r].times = Admitted => request_state[r].generated_tokens = 0
    BY <1>3 DEF HasItsTokens, Running
  <2>2. request_state[r].max_new_tokens \in Nat \ {0}
    BY <2>1, LegacyShapesAssumption
  <2>. QED  BY <2>1, <2>2
<1>5. /\ q.status = "finished" /\ q.error = request_state[r].error /\ q.times = EndedLate
      /\ q.past_length = request_state[r].past_length
      /\ q.prompt_tokens = request_state[r].prompt_tokens
      /\ q.generated_tokens = request_state[r].generated_tokens
      /\ q.num_computed_tokens = request_state[r].num_computed_tokens
      /\ q.max_new_tokens = request_state[r].max_new_tokens
  BY <1>3, <1>4, TimesTaken DEF MarkFinished, EndedLate, RequestRecords
<1>. HIDE DEF q
<1>6. RightRecord(q, FALSE)
  <2>1. CountedTwice(q)
    BY <1>3, <1>5 DEF Running, CountedTwice, EmittedTokens
  <2>2. HasItsTokens(q)
    BY <1>3, <1>5 DEF HasItsTokens
  <2>3. ~ q.error
    BY <1>3, <1>5 DEF Running
  <2>. QED  BY <1>5, <2>1, <2>2, <2>3 DEF RightRecord
<1>7. \A x \in Requests \ {r} : ~ InFinish(x)
  BY <1>1 DEF InFinish
<1>8. RecordsRight'
  <2>1. q.status \in Ended /\ Set(r, q) /\ phase' # "finish"
    BY <1>1, <1>5 DEF Ended
  <2>. QED  BY <1>6, <1>7, <2>1, EndedRecord
<1>9. request_state'[r] = q
  BY <1>1 DEF Set, RInv, PInv, Typed
<1>. QED  BY <1>5, <1>8, <1>9

LEMMA FailingRecords ==
  ASSUME RInv, NEW r \in Requests, NEW q \in RequestRecords, q.times \in {Admitted, Started},
         q.generated_tokens = request_state[r].generated_tokens,
         Set(r, MarkFailed(q)), phase # "finish", phase' # "finish"
  PROVE  /\ RecordsRight'
         /\ request_state'[r].generated_tokens = request_state[r].generated_tokens
<1>1. /\ MarkFailed(q).status = "failed" /\ MarkFailed(q).error
      /\ MarkFailed(q).times \in {EndedEarly, EndedLate}
      /\ MarkFailed(q).generated_tokens = q.generated_tokens
  BY FailedRecord
<1>2. RightRecord(MarkFailed(q), FALSE)
  BY <1>1 DEF RightRecord
<1>3. \A x \in Requests \ {r} : ~ InFinish(x)
  BY DEF InFinish
<1>4. RecordsRight'
  <2>1. PICK f : f = MarkFailed(q)
    OBVIOUS
  <2>2. f.status \in Ended /\ RightRecord(f, FALSE) /\ Set(r, f)
    BY <1>1, <1>2, <2>1 DEF Ended
  <2>. QED  BY <1>3, <2>2, EndedRecord
<1>5. request_state'[r] = MarkFailed(q)
  BY DEF Set, RInv, PInv, Typed
<1>. QED  BY <1>1, <1>4, <1>5

LEMMA FailDecodeRecords ==
  ASSUME RInv, NEW r \in Requests, FailDecode(r)
  PROVE  /\ RecordsRight'
         /\ request_state'[r].generated_tokens = request_state[r].generated_tokens
<1>. DEFINE table == block_tables[r] \o KV!FirstFree(Lacks(r))
            q == [request_state[r] EXCEPT !.block_table = table]
<1>1. /\ At(r) /\ Set(r, MarkFailed(q)) /\ phase = "decoding" /\ phase' = "decoding"
  BY DEF FailDecode, RecordEnd, Lacks, At
<1>2. request_state[r] \in RequestRecords /\ Running(request_state[r]) /\ r \in KV!Owners
  BY <1>1, TurnRecord, InItsTurn DEF At, RInv
<1>3. table \in Seq(KV!Blocks)
  BY <1>2, GrownTableTaken DEF RInv, PInv, Owning
<1>. HIDE DEF table
<1>4. /\ q \in RequestRecords /\ q.times \in {Admitted, Started}
      /\ q.generated_tokens = request_state[r].generated_tokens
  BY <1>2, <1>3 DEF RequestRecords, Running
<1>. HIDE DEF q
<1>. QED  BY <1>1, <1>4, FailingRecords

LEMMA EvictRecords ==
  ASSUME RInv, NEW r \in Requests, Evict(r)
  PROVE  /\ RecordsRight'
         /\ request_state'[r].generated_tokens = request_state[r].generated_tokens
<1>1. /\ r = slots[Last(local.stalled)] /\ local.stalled # << >>
      /\ Set(r, MarkFailed(request_state[r])) /\ phase = "decoding" /\ phase' = "idle"
  BY DEF Evict, MustEvict, EndRequest, RecordEnd, AllDecoded, EndStep
<1>2. Typed /\ Homes /\ RecordsRight
  BY DEF RInv, PInv
<1>3. Last(local.stalled) \in SlotIndices /\ r # NoRequest
  BY <1>1, <1>2, LastStalledIs, LegacySlotsAssumption
<1>4. r \in InSlot
  BY <1>1, <1>3 DEF InSlot
<1>5. request_state[r].status = "decoding" /\ request_state[r] \in RequestRecords
  BY <1>2, <1>4, StatusOf DEF Homes, InStatus, Status
<1>6. request_state[r].times \in {Admitted, Started}
  BY <1>2, <1>5 DEF RecordsRight, RecordRight, RightRecord, Running
<1>. QED  BY <1>1, <1>5, <1>6, FailingRecords

-----------------------------------------------------------------------------
(* Every action keeps the sums and the metrics right *)

LEMMA NotEnded ==
  ASSUME PInv, NEW r \in Requests, Status(r) \notin Ended
  PROVE  r \notin Range(finished)
BY DEF PInv, Homes, InStatus

(* The record of somebody who did not end is in no metrics.                 *)
LEMMA MetricsStay ==
  ASSUME RInv, NEW r \in Requests, r \notin Range(finished), UNCHANGED <<finished, metrics>>,
         \A x \in Requests \ {r} : request_state'[x] = request_state[x]
  PROVE  MetricsRight'
<1>1. finished \in Seq(Requests)
  BY DEF RInv, PInv, Typed
<1>2. ASSUME NEW i \in DOMAIN finished
      PROVE  request_state'[finished[i]] = request_state[finished[i]]
  <2>1. finished[i] \in Requests /\ finished[i] \in Range(finished)
    BY <1>1 DEF Range
  <2>. QED  BY <2>1
<1>3. metrics = [i \in DOMAIN finished |-> FinishedRecord(finished[i], request_state[finished[i]])]
  BY DEF RInv, MetricsRight
<1>4. metrics' = [i \in DOMAIN finished' |-> FinishedRecord(finished'[i], request_state'[finished'[i]])]
  BY <1>2, <1>3
<1>. QED  BY <1>4 DEF MetricsRight

(* Whoever ends is recorded with the last record.                           *)
LEMMA MetricsGrow ==
  ASSUME RInv, NEW r \in Requests, r \notin Range(finished), NEW q, RecordEnd(r, q)
  PROVE  MetricsRight'
<1>1. finished \in Seq(Requests) /\ request_state \in [Requests -> RequestRecords]
  BY DEF RInv, PInv, Typed
<1>2. /\ finished' = Append(finished, r) /\ metrics' = Append(metrics, FinishedRecord(r, q))
      /\ request_state' = [request_state EXCEPT ![r] = q]
  BY DEF RecordEnd, Set
<1>3. request_state'[r] = q /\ \A x \in Requests \ {r} : request_state'[x] = request_state[x]
  BY <1>1, <1>2
<1>. DEFINE n == Len(finished)
            R == {FinishedRecord(finished[i], request_state[finished[i]]) : i \in 1 .. n}
                   \cup {FinishedRecord(r, q)}
<1>4. n \in Nat /\ DOMAIN finished = 1 .. n /\ \A i \in 1 .. n : finished[i] \in Requests \ {r}
  BY <1>1, LenProperties DEF Range
<1>5. metrics = [i \in 1 .. n |-> FinishedRecord(finished[i], request_state[finished[i]])]
  BY <1>4 DEF RInv, MetricsRight
<1>6. metrics \in Seq(R) /\ Len(metrics) = n /\ FinishedRecord(r, q) \in R
  <2>1. metrics \in [1 .. n -> R]
    BY <1>5
  <2>. HIDE DEF R
  <2>2. metrics \in Seq(R)
    BY <1>4, <2>1
  <2>3. DOMAIN metrics = 1 .. n
    BY <2>1
  <2>4. Len(metrics) = n
    BY <1>4, <2>2, <2>3, LenProperties
  <2>. QED  BY <2>2, <2>4 DEF R
<1>. HIDE DEF R
<1>7. /\ metrics' \in Seq(R) /\ Len(metrics') = n + 1 /\ metrics'[n + 1] = FinishedRecord(r, q)
      /\ \A i \in 1 .. n : metrics'[i] = metrics[i]
  BY <1>2, <1>6, AppendProperties
<1>8. /\ finished' \in Seq(Requests) /\ Len(finished') = n + 1 /\ finished'[n + 1] = r
      /\ \A i \in 1 .. n : finished'[i] = finished[i]
  BY <1>1, <1>2, AppendProperties
<1>9. DOMAIN metrics' = 1 .. n + 1 /\ DOMAIN finished' = 1 .. n + 1
  BY <1>7, <1>8, LenProperties
<1>10. ASSUME NEW i \in 1 .. n + 1
       PROVE  metrics'[i] = FinishedRecord(finished'[i], request_state'[finished'[i]])
  <2>1. CASE i = n + 1
    BY <1>3, <1>7, <1>8, <2>1
  <2>2. CASE i # n + 1
    <3>1. i \in 1 .. n
      BY <1>4, <2>2
    <3>2. metrics'[i] = FinishedRecord(finished[i], request_state[finished[i]])
      BY <1>5, <1>7, <3>1
    <3>3. finished'[i] = finished[i] /\ request_state'[finished[i]] = request_state[finished[i]]
      BY <1>3, <1>4, <1>8, <3>1
    <3>. QED  BY <3>2, <3>3
  <2>. QED  BY <2>1, <2>2
<1>11. metrics' = [i \in 1 .. n + 1 |-> metrics'[i]]
  BY <1>7, <1>9
<1>12. metrics' = [i \in DOMAIN finished' |-> FinishedRecord(finished'[i], request_state'[finished'[i]])]
  BY <1>9, <1>10, <1>11
<1>. QED  BY <1>12 DEF MetricsRight

LEMMA SumTyped ==
  ASSUME PInv
  PROVE  /\ GeneratedTokens \in [Requests -> Nat]
         /\ Submitted \in SUBSET Requests /\ IsFiniteSet(Submitted)
         /\ \A r \in Requests : GeneratedTokens[r] = request_state[r].generated_tokens
         /\ stats.tokens_generated \in Nat
<1>1. Typed /\ Homes
  BY DEF PInv
<1>2. \A r \in Requests : request_state[r] \in RequestRecords
  BY <1>1 DEF Typed
<1>3. GeneratedTokens \in [Requests -> Nat]
  BY <1>2 DEF GeneratedTokens, RequestRecords
<1>4. Submitted = ((Range(request_queue) \cup Range(waiting)) \cup Range(finished)) \cup InSlot
  <2>1. \A r \in Requests : Status(r) \in Statuses
    BY <1>2 DEF Status, RequestRecords
  <2>. QED  BY <1>1, <2>1 DEF Submitted, Homes, InStatus, Statuses, Ended
<1>5. IsFiniteSet(Range(request_queue)) /\ IsFiniteSet(Range(waiting)) /\ IsFiniteSet(Range(finished))
  BY <1>1, CountingMembers DEF Typed
<1>6. IsFiniteSet(InSlot)
  <2>1. slots \in Seq(Requests \cup {NoRequest}) /\ DOMAIN slots = SlotIndices
    BY <1>1, SlotsAre DEF Typed
  <2>2. IsFiniteSet(Range(slots))
    BY <2>1, CountingMembers
  <2>3. InSlot \subseteq Range(slots)
    BY <2>1 DEF InSlot, Range
  <2>. QED  BY <2>2, <2>3, FS_Subset
<1>7. IsFiniteSet(Submitted)
  BY <1>4, <1>5, <1>6, FS_Union
<1>8. stats.tokens_generated \in Nat
  BY <1>1 DEF Typed, Counters
<1>. QED  BY <1>3, <1>7, <1>8 DEF GeneratedTokens, Submitted

LEMMA TokensStay ==
  ASSUME RInv, \A x \in Requests :
                 /\ request_state'[x].generated_tokens = request_state[x].generated_tokens
                 /\ request_state'[x].status = "new" <=> request_state[x].status = "new",
         stats'.tokens_generated = stats.tokens_generated
  PROVE  TokensAdd'
<1>1. GeneratedTokens' = GeneratedTokens /\ Submitted' = Submitted
  BY DEF GeneratedTokens, Submitted, Status
<1>2. SumFunctionOnSet(GeneratedTokens, Submitted) = 2 * stats.tokens_generated
  BY DEF RInv, TokensAdd
<1>3. SumFunctionOnSet(GeneratedTokens', Submitted') = 2 * stats'.tokens_generated
  BY <1>1, <1>2
<1>. QED  BY <1>3 DEF TokensAdd

(* What a member counts more, the sum counts more.                          *)
LEMMA SumWithMore ==
  ASSUME NEW T, NEW v \in [T -> Nat], NEW w \in [T -> Nat], NEW U \in SUBSET T, IsFiniteSet(U),
         NEW x \in U, NEW k \in Nat, w[x] = v[x] + k, \A y \in U \ {x} : w[y] = v[y]
  PROVE  SumFunctionOnSet(w, U) = SumFunctionOnSet(v, U) + k
<1>. DEFINE V == U \ {x}
<1>1. V \in SUBSET T /\ IsFiniteSet(V)
  BY FS_Subset
<1>2. /\ SumFunctionOnSet(v, U) = v[x] + SumFunctionOnSet(v, V)
      /\ SumFunctionOnSet(w, U) = w[x] + SumFunctionOnSet(w, V)
  BY SumProperties
<1>3. SumFunctionOnSet(v, V) \in Nat /\ SumFunctionOnSet(w, V) \in Nat
  BY <1>1, SumProperties
<1>4. \A y \in V : w[y] = v[y] /\ w[y] \in Nat
  BY <1>1
<1>. HIDE DEF V
<1>5. SumFunctionOnSet(v, V) <= SumFunctionOnSet(w, V)
  <2>1. \A y \in V : v[y] <= w[y]
    BY <1>4
  <2>. QED  BY <1>1, <2>1, SumOfMore
<1>6. SumFunctionOnSet(w, V) <= SumFunctionOnSet(v, V)
  <2>1. \A y \in V : w[y] <= v[y]
    BY <1>4
  <2>. QED  BY <1>1, <2>1, SumOfMore
<1>7. v[x] \in Nat
  OBVIOUS
<1>. QED  BY <1>2, <1>3, <1>5, <1>6, <1>7

LEMMA InvAfterSubmit ==
  ASSUME RInv, NEW r \in Requests, Submit(r)
  PROVE  RInv'
<1>1. PInv' /\ RecordsRight'
  BY SubmitKeeps, SubmitRecords DEF RInv
<1>2. PICK s \in Shapes : Set(r, NewRequestState(s.prompt, s.max_new_tokens))
  BY DEF Submit
<1>3. /\ request_state'[r] = NewRequestState(s.prompt, s.max_new_tokens)
      /\ \A x \in Requests \ {r} : request_state'[x] = request_state[x]
  BY <1>2 DEF Set, RInv, PInv, Typed
<1>4. Status(r) = "new" /\ UNCHANGED <<finished, metrics, stats>>
  BY DEF Submit
<1>5. MetricsRight'
  <2>1. r \notin Range(finished)
    BY <1>4, NotEnded DEF RInv, Ended
  <2>. QED  BY <1>3, <1>4, <2>1, MetricsStay
<1>6. request_state'[r].generated_tokens = 0 /\ request_state'[r].status = "waiting"
  BY <1>3 DEF NewRequestState
<1>7. request_state[r].generated_tokens = 0
  <2>1. request_state[r] = Unborn
    BY <1>4 DEF RInv, RecordsRight, RecordRight, RightRecord, Status
  <2>. QED  BY <2>1 DEF Unborn, NewRequestState
<1>8. /\ GeneratedTokens' = GeneratedTokens
      /\ Submitted' = Submitted \cup {r}
  <2>1. \A x \in Requests : request_state'[x].generated_tokens = request_state[x].generated_tokens
    BY <1>3, <1>6, <1>7
  <2>. QED  BY <1>3, <1>6, <2>1 DEF GeneratedTokens, Submitted, Status
<1>9. SumFunctionOnSet(GeneratedTokens, Submitted \cup {r}) = SumFunctionOnSet(GeneratedTokens, Submitted)
  <2>1. GeneratedTokens \in [Requests -> Nat] /\ Submitted \in SUBSET Requests /\ IsFiniteSet(Submitted)
    BY SumTyped DEF RInv
  <2>. DEFINE U == Submitted \cup {r}
  <2>2. U \in SUBSET Requests /\ IsFiniteSet(U) /\ Submitted \in SUBSET U
    BY <2>1, FS_AddElement
  <2>3. \A x \in U \ Submitted : GeneratedTokens[x] = 0
    BY <1>7 DEF GeneratedTokens
  <2>. HIDE DEF U
  <2>4. SumFunctionOnSet(GeneratedTokens, U) = SumFunctionOnSet(GeneratedTokens, Submitted)
    BY <2>1, <2>2, <2>3, SumOfSome
  <2>. QED  BY <2>4 DEF U
<1>10. TokensAdd'
  <2>1. SumFunctionOnSet(GeneratedTokens', Submitted') = 2 * stats'.tokens_generated
    BY <1>4, <1>8, <1>9 DEF RInv, TokensAdd
  <2>. QED  BY <2>1 DEF TokensAdd
<1>. QED  BY <1>1, <1>5, <1>10 DEF RInv

LEMMA InvAfterQuiet ==
  ASSUME RInv, \/ BeginStep \/ AdmitDone \/ BeginDecode \/ DecodeDone
               \/ Drain /\ request_queue = << >>
               \/ \E r \in Requests : Stall(r)
  PROVE  RInv'
<1>1. PInv'
  BY QuietSteps, DrainKeeps, StallKeeps DEF RInv
<1>2. RecordsRight' /\ UNCHANGED <<request_state, finished, metrics>>
  BY QuietRecords
<1>3. stats'.tokens_generated = stats.tokens_generated
  <2>1. CASE \E r \in Requests : Stall(r)
    BY <2>1 DEF Stall, Count, Counters
  <2>2. CASE UNCHANGED stats
    BY <2>2
  <2>. QED  BY <2>1, <2>2 DEF BeginStep, AdmitDone, BeginDecode, DecodeDone, Drain
<1>4. MetricsRight'
  BY <1>2 DEF RInv, MetricsRight
<1>5. TokensAdd'
  BY <1>2, <1>3, TokensStay
<1>. QED  BY <1>1, <1>2, <1>4, <1>5 DEF RInv

LEMMA InvAfterDrain ==
  ASSUME RInv, Drain, request_queue # << >>
  PROVE  RInv'
<1>1. PInv' /\ RecordsRight'
  BY DrainKeeps, DrainRecords DEF RInv
<1>. DEFINE r == Head(request_queue)
<1>2. r \in Requests /\ Status(r) = "waiting"
  <2>1. request_queue \in Seq(Requests) /\ Homes
    BY DEF RInv, PInv, Typed
  <2>2. r \in Range(request_queue)
    BY <2>1, TailOfDistinct
  <2>. QED  BY <2>1, <2>2 DEF Homes, InStatus
<1>3. Set(r, [request_state[r] EXCEPT !.status = "waiting"]) /\ UNCHANGED <<finished, metrics, stats>>
  BY DEF Drain
<1>. HIDE DEF r
<1>4. /\ request_state'[r] = [request_state[r] EXCEPT !.status = "waiting"]
      /\ \A x \in Requests \ {r} : request_state'[x] = request_state[x]
      /\ request_state[r] \in RequestRecords
  BY <1>2, <1>3 DEF Set, RInv, PInv, Typed
<1>5. MetricsRight'
  <2>1. r \notin Range(finished)
    BY <1>2, NotEnded DEF RInv, Ended
  <2>. QED  BY <1>2, <1>3, <1>4, <2>1, MetricsStay
<1>6. TokensAdd'
  <2>1. /\ request_state'[r].generated_tokens = request_state[r].generated_tokens
        /\ request_state'[r].status # "new" /\ request_state[r].status # "new"
    BY <1>2, <1>4 DEF RequestRecords, Status
  <2>. QED  BY <1>3, <1>4, <2>1, TokensStay
<1>. QED  BY <1>1, <1>5, <1>6 DEF RInv

LEMMA InvAfterAdmitOne ==
  ASSUME RInv, NEW r \in Requests, AdmitOne(r)
  PROVE  RInv'
<1>1. PInv' /\ RecordsRight'
  BY AdmitOneKeeps, AdmitOneRecords DEF RInv
<1>. DEFINE m == MarkAdmitted(request_state[r])
            q == [Prefilled(m) EXCEPT !.block_table = block_tables'[r],
                                      !.num_computed_tokens = request_state[r].prompt]
<1>2. Admitting(r) /\ Set(r, q) /\ Count({"admitted_count"}) /\ UNCHANGED <<finished, metrics>>
  BY DEF AdmitOne
<1>3. /\ m \in RequestRecords /\ Fresh(m, Admitted) /\ Fresh(request_state[r], request_state[r].times)
      /\ Status(r) \in {"waiting", "prefill"} /\ r \notin Range(finished)
  BY <1>2, CandidateRecord, CandidateIs DEF RInv
<1>4. /\ request_state'[r] = q
      /\ \A x \in Requests \ {r} : request_state'[x] = request_state[x]
  BY <1>2 DEF Set, RInv, PInv, Typed
<1>. HIDE DEF m
<1>5. q.generated_tokens = 0 /\ q.status = "decoding"
  BY <1>3 DEF Prefilled, MarkDecoding, RequestRecords, Fresh
<1>. HIDE DEF q
<1>6. MetricsRight'
  BY <1>2, <1>3, <1>4, MetricsStay
<1>7. TokensAdd'
  <2>1. /\ request_state'[r].generated_tokens = request_state[r].generated_tokens
        /\ request_state'[r].status # "new" /\ request_state[r].status # "new"
    BY <1>3, <1>4, <1>5 DEF Fresh, Status
  <2>2. stats'.tokens_generated = stats.tokens_generated
    BY <1>2 DEF Count, Counters
  <2>. QED  BY <1>4, <2>1, <2>2, TokensStay
<1>. QED  BY <1>1, <1>6, <1>7 DEF RInv

LEMMA InvAfterDefer ==
  ASSUME RInv, NEW r \in Requests, Defer(r)
  PROVE  RInv'
<1>1. PInv' /\ RecordsRight'
  BY DeferKeeps, DeferRecords DEF RInv
<1>2. /\ Admitting(r) /\ Set(r, MarkAdmitted(request_state[r]))
      /\ UNCHANGED <<finished, metrics, stats>>
  BY DEF Defer
<1>3. /\ Fresh(MarkAdmitted(request_state[r]), Admitted)
      /\ MarkAdmitted(request_state[r]).status = "prefill"
      /\ Fresh(request_state[r], request_state[r].times)
      /\ Status(r) \in {"waiting", "prefill"} /\ r \notin Range(finished)
  BY <1>2, CandidateRecord, CandidateIs DEF RInv
<1>4. /\ request_state'[r] = MarkAdmitted(request_state[r])
      /\ \A x \in Requests \ {r} : request_state'[x] = request_state[x]
  BY <1>2 DEF Set, RInv, PInv, Typed
<1>5. MetricsRight'
  BY <1>2, <1>3, <1>4, MetricsStay
<1>6. TokensAdd'
  <2>1. /\ request_state'[r].generated_tokens = request_state[r].generated_tokens
        /\ request_state'[r].status # "new" /\ request_state[r].status # "new"
    BY <1>3, <1>4 DEF Fresh, Status
  <2>. QED  BY <1>2, <1>4, <2>1, TokensStay
<1>. QED  BY <1>1, <1>5, <1>6 DEF RInv

LEMMA InvAfterDecode ==
  ASSUME RInv, NEW r \in Requests, Decode(r)
  PROVE  RInv'
<1>1. /\ PInv' /\ RecordsRight'
      /\ request_state'[r].generated_tokens = request_state[r].generated_tokens + 2
  BY DecodeKeeps, DecodeRecords DEF RInv
<1>2. PICK q : Set(r, q)
  BY DEF Decode
<1>3. /\ At(r) /\ Count({"tokens_generated"}) /\ UNCHANGED <<finished, metrics, slots>>
  BY DEF Decode
<1>4. Status(r) = "decoding" /\ r \notin Range(finished) /\ r \in InSlot
  BY <1>3, InItsTurn DEF At, RInv
<1>5. \A x \in Requests \ {r} : request_state'[x] = request_state[x]
  BY <1>2 DEF Set, RInv, PInv, Typed
<1>6. MetricsRight'
  BY <1>3, <1>4, <1>5, MetricsStay
<1>7. Status(r)' = "decoding"
  <2>1. InSlot' = InSlot
    BY <1>3 DEF InSlot, SlotIndices
  <2>2. InSlot' = InStatus({"decoding"})'
    BY <1>1 DEF PInv, Homes
  <2>. QED  BY <1>4, <2>1, <2>2 DEF InStatus
<1>8. Submitted' = Submitted /\ r \in Submitted
  BY <1>4, <1>5, <1>7 DEF Submitted, Status
<1>9. /\ GeneratedTokens \in [Requests -> Nat] /\ Submitted \in SUBSET Requests
      /\ IsFiniteSet(Submitted) /\ stats.tokens_generated \in Nat
      /\ GeneratedTokens[r] = request_state[r].generated_tokens
  BY SumTyped DEF RInv
<1>10. GeneratedTokens' \in [Requests -> Nat]
  <2>1. \A y \in Requests : request_state'[y] \in RequestRecords
    BY <1>1 DEF PInv, Typed
  <2>. QED  BY <2>1 DEF GeneratedTokens, RequestRecords
<1>11. /\ GeneratedTokens'[r] = GeneratedTokens[r] + 2
       /\ \A y \in Submitted \ {r} : GeneratedTokens'[y] = GeneratedTokens[y]
  <2>1. \A y \in Requests : /\ GeneratedTokens[y] = request_state[y].generated_tokens
                            /\ GeneratedTokens'[y] = request_state'[y].generated_tokens
    BY DEF GeneratedTokens
  <2>2. \A y \in Submitted : y \in Requests
    BY DEF Submitted
  <2>. QED  BY <1>1, <1>5, <2>1, <2>2
<1>12. SumFunctionOnSet(GeneratedTokens', Submitted)
         = SumFunctionOnSet(GeneratedTokens, Submitted) + 2
  <2>1. PICK w : w = GeneratedTokens'
    OBVIOUS
  <2>2. SumFunctionOnSet(w, Submitted) = SumFunctionOnSet(GeneratedTokens, Submitted) + 2
    BY <1>8, <1>9, <1>10, <1>11, <2>1, SumWithMore
  <2>. QED  BY <2>1, <2>2
<1>13. stats'.tokens_generated = stats.tokens_generated + 1
  BY <1>3 DEF Count, Counters
<1>14. TokensAdd'
  <2>1. SumFunctionOnSet(GeneratedTokens, Submitted) = 2 * stats.tokens_generated
    BY DEF RInv, TokensAdd
  <2>2. SumFunctionOnSet(GeneratedTokens', Submitted') = 2 * stats'.tokens_generated
    BY <1>8, <1>9, <1>12, <1>13, <2>1
  <2>. QED  BY <2>2 DEF TokensAdd
<1>. QED  BY <1>1, <1>6, <1>14 DEF RInv

(* All endings count as they should; no token is added or lost by them.     *)
LEMMA InvAfterEnd ==
  ASSUME RInv, PInv', RecordsRight', NEW r \in Requests, NEW q, RecordEnd(r, q),
         Status(r) # "new", r \notin Range(finished),
         request_state'[r].generated_tokens = request_state[r].generated_tokens,
         stats'.tokens_generated = stats.tokens_generated
  PROVE  RInv'
<1>1. MetricsRight'
  BY MetricsGrow
<1>2. \A x \in Requests \ {r} : request_state'[x] = request_state[x]
  BY DEF RecordEnd, Set, RInv, PInv, Typed
<1>3. Status(r)' # "new"
  <2>1. Typed /\ finished' = Append(finished, r) /\ finished \in Seq(Requests)
    BY DEF RInv, PInv, Typed, RecordEnd
  <2>2. r \in Range(finished')
    BY <2>1, AppendRange
  <2>3. r \in InStatus(Ended)'
    BY <2>2 DEF PInv, Homes
  <2>. QED  BY <2>3 DEF InStatus, Ended
<1>4. TokensAdd'
  BY <1>2, <1>3, TokensStay DEF Status
<1>. QED  BY <1>1, <1>4 DEF RInv

LEMMA InvAfterEndings ==
  ASSUME RInv, NEW r \in Requests,
         FailAdmission(r) \/ Finish(r) \/ FailDecode(r) \/ Evict(r)
  PROVE  RInv'
<1>1. PInv
  BY DEF RInv
<1>2. CASE FailAdmission(r)
  <2>1. PICK q : RecordEnd(r, q)
    BY <1>2 DEF FailAdmission, EndRequest
  <2>2. Admitting(r) /\ stats' = stats
    BY <1>2 DEF FailAdmission
  <2>3. Status(r) # "new" /\ r \notin Range(finished)
    BY <1>1, <2>2, CandidateIs
  <2>4. request_state[r].generated_tokens = 0
    BY <2>2, CandidateRecord DEF Fresh
  <2>5. PInv' /\ RecordsRight' /\ request_state'[r].generated_tokens = 0
    BY <1>1, <1>2, FailAdmissionKeeps, FailAdmissionRecords
  <2>. QED  BY <2>1, <2>2, <2>3, <2>4, <2>5, InvAfterEnd
<1>3. CASE Finish(r)
  <2>1. PICK q : RecordEnd(r, q)
    BY <1>3 DEF Finish, EndRequest
  <2>2. phase = "finish" /\ r = slots[Slot] /\ stats'.tokens_generated = stats.tokens_generated
    BY <1>3 DEF Finish, Count, Counters
  <2>3. Status(r) # "new" /\ r \notin Range(finished)
    BY <1>1, <2>2, InItsTurn DEF PInv, InTurn
  <2>4. PInv' /\ RecordsRight'
        /\ request_state'[r].generated_tokens = request_state[r].generated_tokens
    BY <1>1, <1>3, FinishKeeps, FinishRecords
  <2>. QED  BY <2>1, <2>2, <2>3, <2>4, InvAfterEnd
<1>4. CASE FailDecode(r)
  <2>1. PICK q : RecordEnd(r, q)
    BY <1>4 DEF FailDecode
  <2>2. At(r) /\ stats' = stats
    BY <1>4 DEF FailDecode
  <2>3. Status(r) # "new" /\ r \notin Range(finished)
    BY <1>1, <2>2, InItsTurn DEF At
  <2>4. PInv' /\ RecordsRight'
        /\ request_state'[r].generated_tokens = request_state[r].generated_tokens
    BY <1>1, <1>4, FailDecodeKeeps, FailDecodeRecords
  <2>. QED  BY <2>1, <2>2, <2>3, <2>4, InvAfterEnd
<1>5. CASE Evict(r)
  <2>1. PICK q : RecordEnd(r, q)
    BY <1>5 DEF Evict, EndRequest
  <2>2. r = slots[Last(local.stalled)] /\ local.stalled # << >>
        /\ stats'.tokens_generated = stats.tokens_generated
    BY <1>5 DEF Evict, MustEvict, Count, Counters
  <2>3. Status(r) = "decoding"
    <3>1. Last(local.stalled) \in SlotIndices /\ r # NoRequest
      BY <1>1, <2>2, LastStalledIs, LegacySlotsAssumption DEF PInv
    <3>2. r \in InSlot
      BY <2>2, <3>1 DEF InSlot
    <3>. QED  BY <1>1, <3>2 DEF PInv, Homes, InStatus
  <2>4. r \notin Range(finished)
    BY <1>1, <2>3, NotEnded DEF Ended
  <2>5. PInv' /\ RecordsRight'
        /\ request_state'[r].generated_tokens = request_state[r].generated_tokens
    BY <1>1, <1>5, EvictKeeps, EvictRecords
  <2>. QED  BY <2>1, <2>2, <2>3, <2>4, <2>5, InvAfterEnd
<1>. QED  BY <1>2, <1>3, <1>4, <1>5

LEMMA RInvInit ==
  ASSUME Init
  PROVE  RInv
<1>1. PInv
  BY InitIsRight
<1>2. \A r \in Requests : request_state[r] = Unborn
  BY DEF Init
<1>3. RecordsRight
  <2>1. ASSUME NEW r \in Requests  PROVE RecordRight(r)
    <3>1. request_state[r] = Unborn
      BY <1>2
    <3>2. Unborn.status = "new"
      BY DEF Unborn, NewRequestState
    <3>. QED  BY ONLY <3>1, <3>2 DEF RecordRight, RightRecord
  <2>. QED  BY ONLY <2>1 DEF RecordsRight
<1>4. MetricsRight
  BY DEF Init, MetricsRight
<1>5. TokensAdd
  <2>1. Submitted = {}
    <3>1. \A r \in Requests : Status(r) = "new"
      BY <1>2 DEF Status, Unborn, NewRequestState
    <3>. QED  BY <3>1 DEF Submitted
  <2>2. stats.tokens_generated = 0
    BY DEF Init, NothingInSlots, Counters
  <2>3. SumFunctionOnSet(GeneratedTokens, {}) = 0
    BY <1>1, SumTyped, SumProperties
  <2>. QED  BY <2>1, <2>2, <2>3 DEF TokensAdd
<1>. QED  BY <1>1, <1>3, <1>4, <1>5 DEF RInv

LEMMA RInvKept ==
  ASSUME RInv, [Next]_vars
  PROVE  RInv'
<1>1. CASE \E r \in Requests : Submit(r)
  BY <1>1, InvAfterSubmit
<1>2. CASE BeginStep \/ AdmitDone \/ BeginDecode \/ DecodeDone \/ \E r \in Requests : Stall(r)
  BY <1>2, InvAfterQuiet
<1>3. CASE Drain
  BY <1>3, InvAfterDrain, InvAfterQuiet
<1>4. ASSUME NEW r \in Requests, AdmitOne(r) \/ Defer(r) \/ Decode(r)  PROVE RInv'
  BY <1>4, InvAfterAdmitOne, InvAfterDefer, InvAfterDecode
<1>5. ASSUME NEW r \in Requests, FailAdmission(r) \/ Finish(r) \/ FailDecode(r) \/ Evict(r)
      PROVE  RInv'
  BY <1>5, InvAfterEndings
<1>6. CASE UNCHANGED vars
  <2>1. UNCHANGED <<request_state, finished, metrics, stats, phase, local, slots>>
    BY <1>6 DEF vars
  <2>2. PInv'
    BY <1>6, PInvKept DEF RInv
  <2>3. RecordsRight'
    <3>1. \A x \in Requests : request_state'[x] = request_state[x] /\ (InFinish(x)' <=> InFinish(x))
      BY <2>1 DEF InFinish, Slot
    <3>2. Requests \in SUBSET Requests /\ RecordsRight
      BY DEF RInv
    <3>3. \A x \in Requests : RecordRight(x)'
      BY <3>1, <3>2, OthersKept
    <3>. QED  BY <3>3 DEF RecordsRight
  <2>4. MetricsRight'
    BY <2>1 DEF RInv, MetricsRight
  <2>5. TokensAdd'
    BY <2>1, TokensStay
  <2>. QED  BY <2>2, <2>3, <2>4, <2>5 DEF RInv
<1>. QED  BY <1>1, <1>2, <1>3, <1>4, <1>5, <1>6 DEF Next, Step

LEMMA RInvInvariant == Spec => []RInv
<1>1. Init => RInv
  BY RInvInit
<1>2. RInv /\ [Next]_vars => RInv'
  BY RInvKept
<1>. QED  BY <1>1, <1>2, PTL DEF Spec

-----------------------------------------------------------------------------
(* What is counted twice *)

(* The records of the metrics store count no more than all requests do.     *)
LEMMA MetricsCount ==
  ASSUME RInv
  PROVE  MetricsSnapshot(metrics).total_generated_tokens <= 2 * stats.tokens_generated
<1>. DEFINE w == [i \in DOMAIN metrics |-> metrics[i].generated_tokens]
            J == SuccessfulRequests(metrics)
<1>1. /\ finished \in Seq(Requests) /\ IsInjective(finished)
      /\ Range(finished) = InStatus(Ended)
      /\ metrics = [i \in DOMAIN finished |-> FinishedRecord(finished[i], request_state[finished[i]])]
  BY DEF RInv, PInv, Typed, Homes, MetricsRight
<1>2. DOMAIN metrics = DOMAIN finished /\ DOMAIN finished = 1 .. Len(finished) /\ Len(finished) \in Nat
  BY <1>1
<1>3. /\ GeneratedTokens \in [Requests -> Nat] /\ Submitted \in SUBSET Requests
      /\ IsFiniteSet(Submitted)
      /\ \A r \in Requests : GeneratedTokens[r] = request_state[r].generated_tokens
  BY SumTyped DEF RInv
<1>4. \A i \in DOMAIN metrics : finished[i] \in Submitted
  <2>1. \A i \in DOMAIN metrics : finished[i] \in Range(finished)
    BY <1>2 DEF Range
  <2>2. Range(finished) \subseteq Submitted
    BY <1>1 DEF InStatus, Ended, Submitted
  <2>. QED  BY <2>1, <2>2
<1>5. \A i \in DOMAIN metrics : w[i] = GeneratedTokens[finished[i]]
  <2>1. \A i \in DOMAIN metrics : metrics[i] = FinishedRecord(finished[i], request_state[finished[i]])
    BY <1>1, <1>2
  <2>2. \A i \in DOMAIN metrics : metrics[i].generated_tokens = request_state[finished[i]].generated_tokens
    BY <2>1 DEF FinishedRecord
  <2>. QED  BY <1>3, <1>4, <2>2
<1>6. w \in [DOMAIN metrics -> Nat]
  BY <1>3, <1>4, <1>5
<1>7. J \in SUBSET DOMAIN metrics /\ IsFiniteSet(J)
  <2>1. J \in SUBSET DOMAIN metrics
    BY DEF SuccessfulRequests
  <2>2. IsFiniteSet(1 .. Len(finished))
    BY <1>2, FS_Interval
  <2>. QED  BY <1>2, <2>1, <2>2, FS_Subset
<1>8. \A i, j \in J : finished[i] = finished[j] => i = j
  BY <1>1, <1>2, <1>7 DEF IsInjective
<1>9. \A i \in J : finished[i] \in Submitted /\ w[i] <= GeneratedTokens[finished[i]]
  BY <1>3, <1>4, <1>5, <1>7
<1>10. MetricsSnapshot(metrics).total_generated_tokens = SumFunctionOnSet(w, J)
  BY DEF MetricsSnapshot
<1>11. SumFunctionOnSet(GeneratedTokens, Submitted) = 2 * stats.tokens_generated
  BY DEF RInv, TokensAdd
<1>. HIDE DEF w, J
<1>12. SumFunctionOnSet(w, J) <= SumFunctionOnSet(GeneratedTokens, Submitted)
  BY <1>3, <1>6, <1>7, <1>8, <1>9, SumOfMatched
<1>. QED  BY <1>10, <1>11, <1>12

LEMMA CountedRight ==
  ASSUME RInv
  PROVE  TokensCountedTwice
<1>1. ASSUME NEW r \in Requests
      PROVE  LET q       == request_state[r]
                 emitted == q.past_length - q.prompt_tokens
             IN  /\ Status(r) \in {"decoding", "finished"} =>
                      /\ q.generated_tokens = 2 * emitted
                      /\ q.num_computed_tokens = q.past_length + emitted
                 /\ Status(r) = "finished" => emitted = (q.max_new_tokens + 1) \div 2
  <2>. DEFINE q == request_state[r]
  <2>1. RightRecord(q, InFinish(r)) /\ q \in RequestRecords
    BY DEF RInv, RecordsRight, RecordRight, PInv, Typed
  <2>2. Status(r) \in {"decoding", "finished"} => CountedTwice(q)
    BY <2>1 DEF RightRecord, Running, Status
  <2>3. Status(r) = "finished" => HasItsTokens(q)
    BY <2>1 DEF RightRecord, Status
  <2>4. ASSUME NEW e \in Nat, NEW m \in Nat, 2 * e >= m, 2 * e < m + 2
        PROVE  e = (m + 1) \div 2
    BY <2>4
  <2>5. q.max_new_tokens \in Nat
    BY <2>1 DEF RequestRecords
  <2>. HIDE DEF q
  <2>6. Status(r) = "finished" => EmittedTokens(q) = (q.max_new_tokens + 1) \div 2
    BY <2>2, <2>3, <2>4, <2>5 DEF CountedTwice, HasItsTokens
  <2>. QED  BY <2>2, <2>6 DEF CountedTwice, EmittedTokens, q
<1>. QED  BY <1>1, MetricsCount DEF TokensCountedTwice

(* The runner and the scheduler both count every token: what was computed   *)
(* is half of what is reported, for each request and in all of them, and a  *)
(* request ends after half of what it asked for, rounded up.                *)
THEOREM TokensAreCountedTwice == MCSpec => []RunnerAndSchedulerCount
<1>. DEFINE I == running = "continuous" => RInv
<1>1. MCInit => I
  BY ContinuousInit, RInvInit
<1>2. I /\ [MCNext]_mc_vars => I'
  BY ContinuousRunsAlone, RInvKept
<1>3. I => RunnerAndSchedulerCount
  BY CountedRight DEF RunnerAndSchedulerCount
<1>. QED  BY <1>1, <1>2, <1>3, PTL DEF MCSpec

-----------------------------------------------------------------------------
(* Durations that make sense *)

(* A clock that is read in this order ran forward.                          *)
LEMMA InItsOrder ==
  ASSUME NEW q, q.times \in Seq(Events), IsInjective(q.times),
         NEW i \in 1 .. Len(q.times), NEW j \in 1 .. Len(q.times), i <= j
  PROVE  Duration(q, q.times[i], q.times[j]) = "forward"
<1>. DEFINE Place(event) == SelectInSeq(q.times, LAMBDA e : e = event)
<1>1. \A k \in 1 .. Len(q.times) : Place(q.times[k]) = k
  <2>. SUFFICES ASSUME NEW k \in 1 .. Len(q.times)  PROVE Place(q.times[k]) = k
    OBVIOUS
  <2>1. Place(q.times[k]) \in 1 .. Len(q.times) /\ q.times[Place(q.times[k])] = q.times[k]
    BY IndexOf
  <2>2. DOMAIN q.times = 1 .. Len(q.times)
    OBVIOUS
  <2>. HIDE DEF Place
  <2>. QED  BY <2>1, <2>2 DEF IsInjective
<1>2. {q.times[i], q.times[j]} \subseteq Range(q.times)
  BY DEF Range
<1>. QED  BY <1>1, <1>2 DEF Duration

LEMMA EndedTimes ==
  /\ EndedEarly \in Seq(Events) /\ Len(EndedEarly) = 3 /\ IsInjective(EndedEarly)
  /\ EndedEarly[1] = "arrival" /\ EndedEarly[2] = "admit" /\ EndedEarly[3] = "finish"
  /\ "first_token" \notin Range(EndedEarly)
  /\ EndedLate \in Seq(Events) /\ Len(EndedLate) = 4 /\ IsInjective(EndedLate)
  /\ EndedLate[1] = "arrival" /\ EndedLate[2] = "admit"
  /\ EndedLate[3] = "first_token" /\ EndedLate[4] = "finish"
<1>0. "finish" \in Events
  BY DEF Events
<1>1. /\ EndedEarly \in Seq(Events) /\ Len(EndedEarly) = 3
      /\ EndedEarly[1] = "arrival" /\ EndedEarly[2] = "admit" /\ EndedEarly[3] = "finish"
  <2>0. Admitted \in Seq(Events)
    BY TimesAre
  <2>1. EndedEarly \in Seq(Events)
    BY <1>0, <2>0, AppendProperties DEF EndedEarly
  <2>2. Len(EndedEarly) = Len(Admitted) + 1
    BY <1>0, <2>0, AppendProperties DEF EndedEarly
  <2>3. \A i \in 1 .. Len(Admitted) : EndedEarly[i] = Admitted[i]
    BY <1>0, <2>0, AppendProperties DEF EndedEarly
  <2>4. EndedEarly[Len(Admitted) + 1] = "finish"
    BY <1>0, <2>0, AppendProperties DEF EndedEarly
  <2>. QED  BY <2>1, <2>2, <2>3, <2>4, TimesAre
<1>2. /\ EndedLate \in Seq(Events) /\ Len(EndedLate) = 4
      /\ EndedLate[1] = "arrival" /\ EndedLate[2] = "admit"
      /\ EndedLate[3] = "first_token" /\ EndedLate[4] = "finish"
  <2>0. Started \in Seq(Events)
    BY TimesAre
  <2>1. EndedLate \in Seq(Events)
    BY <1>0, <2>0, AppendProperties DEF EndedLate
  <2>2. Len(EndedLate) = Len(Started) + 1
    BY <1>0, <2>0, AppendProperties DEF EndedLate
  <2>3. \A i \in 1 .. Len(Started) : EndedLate[i] = Started[i]
    BY <1>0, <2>0, AppendProperties DEF EndedLate
  <2>4. EndedLate[Len(Started) + 1] = "finish"
    BY <1>0, <2>0, AppendProperties DEF EndedLate
  <2>. QED  BY <2>1, <2>2, <2>3, <2>4, TimesAre
<1>3. IsInjective(EndedEarly) /\ "first_token" \notin Range(EndedEarly)
  <2>1. DOMAIN EndedEarly = 1 .. 3
    BY <1>1
  <2>2. \A i \in 1 .. 3 : i = 1 \/ i = 2 \/ i = 3
    OBVIOUS
  <2>. QED  BY <1>1, <2>1, <2>2 DEF IsInjective, Range
<1>4. IsInjective(EndedLate)
  <2>1. DOMAIN EndedLate = 1 .. 4
    BY <1>2
  <2>2. \A i \in 1 .. 4 : i = 1 \/ i = 2 \/ i = 3 \/ i = 4
    OBVIOUS
  <2>. QED  BY <1>2, <2>1, <2>2 DEF IsInjective
<1>. QED  BY <1>1, <1>2, <1>3, <1>4

LEMMA DurationsAre ==
  ASSUME NEW q, q.times \in {EndedEarly, EndedLate}
  PROVE  /\ QueueWait(q) = "forward" /\ Latency(q) = "forward"
         /\ TTFT(q) \in {"none", "forward"} /\ DecodeLatency(q) \in {"none", "forward"}
         /\ q.times = EndedLate => TTFT(q) = "forward" /\ DecodeLatency(q) = "forward"
<1>1. CASE q.times = EndedEarly
  <2>1. /\ q.times \in Seq(Events) /\ Len(q.times) = 3 /\ IsInjective(q.times)
        /\ q.times[1] = "arrival" /\ q.times[2] = "admit" /\ q.times[3] = "finish"
        /\ "first_token" \notin Range(q.times)
    BY <1>1, EndedTimes
  <2>2. 1 \in 1 .. Len(q.times) /\ 2 \in 1 .. Len(q.times) /\ 3 \in 1 .. Len(q.times)
    BY <2>1
  <2>3. Duration(q, q.times[1], q.times[2]) = "forward"
    BY <2>1, <2>2, InItsOrder
  <2>4. Duration(q, q.times[1], q.times[3]) = "forward"
    BY <2>1, <2>2, InItsOrder
  <2>5. QueueWait(q) = "forward" /\ Latency(q) = "forward"
    BY <2>1, <2>3, <2>4 DEF QueueWait, Latency
  <2>6. TTFT(q) = "none" /\ DecodeLatency(q) = "none"
    BY <2>1 DEF TTFT, DecodeLatency, Duration
  <2>7. q.times # EndedLate
    BY <2>1, EndedTimes
  <2>. QED  BY <2>5, <2>6, <2>7
<1>2. CASE q.times = EndedLate
  <2>1. /\ q.times \in Seq(Events) /\ Len(q.times) = 4 /\ IsInjective(q.times)
        /\ q.times[1] = "arrival" /\ q.times[2] = "admit"
        /\ q.times[3] = "first_token" /\ q.times[4] = "finish"
    BY <1>2, EndedTimes
  <2>2. /\ 1 \in 1 .. Len(q.times) /\ 2 \in 1 .. Len(q.times)
        /\ 3 \in 1 .. Len(q.times) /\ 4 \in 1 .. Len(q.times)
    BY <2>1
  <2>3. Duration(q, q.times[1], q.times[2]) = "forward"
    BY <2>1, <2>2, InItsOrder
  <2>4. Duration(q, q.times[1], q.times[4]) = "forward"
    BY <2>1, <2>2, InItsOrder
  <2>5. Duration(q, q.times[1], q.times[3]) = "forward"
    BY <2>1, <2>2, InItsOrder
  <2>6. Duration(q, q.times[3], q.times[4]) = "forward"
    BY <2>1, <2>2, InItsOrder
  <2>. QED  BY <2>1, <2>3, <2>4, <2>5, <2>6 DEF QueueWait, Latency, TTFT, DecodeLatency
<1>. QED  BY <1>1, <1>2

(* The durations in the metrics make sense, also of requests that were      *)
(* deferred, evicted, or failed before they had a token: none is negative,  *)
(* each says how long the request took, and the averages are over all that  *)
(* were successful.                                                         *)
THEOREM MetricsAlwaysMeaningful == Spec => []MetricsMeaningful
<1>1. ASSUME RInv  PROVE MetricsMeaningful
  <2>1. ASSUME NEW i \in DOMAIN metrics
        PROVE  /\ metrics[i].queue_wait = "forward" /\ metrics[i].latency = "forward"
               /\ metrics[i].ttft \in {"none", "forward"}
               /\ metrics[i].decode_latency \in {"none", "forward"}
               /\ ~ metrics[i].error =>
                    metrics[i].ttft = "forward" /\ metrics[i].decode_latency = "forward"
    <3>. DEFINE r == finished[i]
                q == request_state[r]
    <3>1. metrics[i] = FinishedRecord(r, q) /\ r \in Range(finished)
      BY <1>1 DEF RInv, MetricsRight, Range
    <3>2. r \in Requests /\ Status(r) \in Ended
      BY <1>1, <3>1 DEF RInv, PInv, Homes, InStatus
    <3>3. RightRecord(q, InFinish(r))
      BY <1>1, <3>2 DEF RInv, RecordsRight, RecordRight
    <3>4. q.times \in {EndedEarly, EndedLate} /\ (~ q.error => q.times = EndedLate)
      BY <3>2, <3>3 DEF RightRecord, Status, Ended
    <3>. HIDE DEF q, r
    <3>5. /\ QueueWait(q) = "forward" /\ Latency(q) = "forward"
          /\ TTFT(q) \in {"none", "forward"} /\ DecodeLatency(q) \in {"none", "forward"}
          /\ q.times = EndedLate => TTFT(q) = "forward" /\ DecodeLatency(q) = "forward"
      BY <3>4, DurationsAre
    <3>. QED  BY <3>1, <3>4, <3>5 DEF FinishedRecord
  <2>. DEFINE successful == SuccessfulRequests(metrics)
              snapshot   == MetricsSnapshot(metrics)
  <2>2. \A field \in {"latency", "ttft", "queue_wait", "decode_latency"} :
          {i \in successful : metrics[i][field] # "none"} = successful
    <3>1. \A i \in successful : i \in DOMAIN metrics /\ ~ metrics[i].error
      BY DEF SuccessfulRequests
    <3>. HIDE DEF successful
    <3>. QED  BY <2>1, <3>1
  <2>3. /\ snapshot.averaged = [field \in {"latency", "ttft", "queue_wait", "decode_latency"} |->
                     Cardinality({i \in successful : metrics[i][field] # "none"})]
        /\ snapshot.total_successful_requests = Cardinality(successful)
    BY DEF MetricsSnapshot
  <2>. HIDE DEF successful, snapshot
  <2>4. \A field \in DOMAIN snapshot.averaged :
          snapshot.averaged[field] = snapshot.total_successful_requests
    BY <2>2, <2>3
  <2>. QED  BY <2>1, <2>4 DEF MetricsMeaningful, DurationsMeaningful, snapshot
<1>. QED  BY <1>1, RInvInvariant, PTL

-----------------------------------------------------------------------------
(* What clients notice *)

(* A step of the contract, or one the clients do not notice.                *)
ContractStep == [ContinuousContract!Next]_(ContinuousContract!vars)

Queued(q) == q.status \in {"waiting", "prefill"}

(* How a step may change the record q of a request to p.                    *)
ClientStep(q, p) ==
  \/ /\ p.status = q.status \/ (Queued(q) /\ Queued(p))
     /\ p.output_queue = q.output_queue /\ p.max_new_tokens = q.max_new_tokens
  \/ /\ q.status = "new" /\ Queued(p)
     /\ p.output_queue = q.output_queue /\ p.max_new_tokens \in {s.max_new_tokens : s \in Shapes}
  \/ /\ Queued(q) /\ p.status = "decoding"
     /\ p.output_queue = q.output_queue /\ p.max_new_tokens = q.max_new_tokens
  \/ /\ q.status = "decoding" /\ p.status = "decoding" /\ Len(q.output_queue) < q.max_new_tokens
     /\ p.output_queue = Append(q.output_queue, Text) /\ p.max_new_tokens = q.max_new_tokens
  \/ /\ \/ p.status = "failed" /\ (Queued(q) \/ q.status = "decoding")
        \/ p.status = "finished" /\ q.status = "decoding"
     /\ p.output_queue = Append(q.output_queue, End) /\ p.max_new_tokens = q.max_new_tokens

(* The stage clients see, by status.                                        *)
StageOf(status) ==
  CASE status = "new"                   -> "absent"
    [] status \in {"waiting", "prefill"} -> "queued"
    [] status = "decoding"              -> "running"
    [] OTHER                            -> status

LEMMA StageIs ==
  ASSUME PInv, NEW r \in Requests
  PROVE  Stage(r) = StageOf(request_state[r].status)
<1>1. request_state[r].status \in Statuses
  BY StatusOf DEF PInv, Status
<1>2. r \in InSlot <=> request_state[r].status = "decoding"
  BY DEF PInv, Homes, InStatus, Status
<1>. QED  BY <1>1, <1>2 DEF Stage, StageOf, Status, Statuses, Ended

(* Such a change of one record is a step of the contract.                   *)
LEMMA OneClient ==
  ASSUME PInv, PInv', running = "continuous", running' = "continuous",
         NEW r \in Requests,
         \A x \in Requests \ {r} : request_state'[x] = request_state[x],
         ClientStep(request_state[r], request_state'[r])
  PROVE  ContractStep
<1>. DEFINE q == request_state[r]
            p == request_state'[r]
            stage  == [x \in Requests |-> IF running # "continuous" THEN "absent" ELSE Stage(x)]
            stream == [x \in Requests |-> IF running # "continuous" THEN << >>
                                          ELSE request_state[x].output_queue]
            limit  == [x \in Requests |-> IF running # "continuous" THEN 0
                                          ELSE request_state[x].max_new_tokens]
<1>1. q.status \in Statuses /\ p.status \in Statuses
  BY DEF PInv, Typed, RequestRecords
<1>2. \A x \in Requests : /\ Stage(x) = StageOf(request_state[x].status)
                          /\ Stage(x)' = StageOf(request_state'[x].status)
  <2>1. \A x \in Requests : Stage(x) = StageOf(request_state[x].status)
    BY StageIs
  <2>2. \A x \in Requests : Stage(x)' = StageOf(request_state'[x].status)
    <3>. SUFFICES ASSUME NEW x \in Requests  PROVE Stage(x)' = StageOf(request_state'[x].status)
      OBVIOUS
    <3>1. request_state'[x].status \in Statuses
      BY DEF PInv, Typed, RequestRecords
    <3>2. x \in InSlot' <=> request_state'[x].status = "decoding"
      BY DEF PInv, Homes, InStatus, Status
    <3>. QED  BY <3>1, <3>2 DEF Stage, StageOf, Status, Statuses, Ended
  <2>. QED  BY <2>1, <2>2
<1>3. /\ stage' = [stage EXCEPT ![r] = StageOf(p.status)]
      /\ stream' = [stream EXCEPT ![r] = p.output_queue]
      /\ limit' = [limit EXCEPT ![r] = p.max_new_tokens]
  <2>1. stage' = [stage EXCEPT ![r] = StageOf(p.status)]
    BY <1>2
  <2>2. stream' = [stream EXCEPT ![r] = p.output_queue]
    OBVIOUS
  <2>3. limit' = [limit EXCEPT ![r] = p.max_new_tokens]
    OBVIOUS
  <2>. QED  BY <2>1, <2>2, <2>3
<1>4. stage[r] = StageOf(q.status) /\ stream[r] = q.output_queue /\ limit[r] = q.max_new_tokens
  BY <1>2
<1>5. /\ stream = [stream EXCEPT ![r] = stream[r]]
      /\ limit = [limit EXCEPT ![r] = limit[r]]
      /\ stage = [stage EXCEPT ![r] = stage[r]]
  OBVIOUS
<1>6. \A w \in {q, p} :
         /\ w.status = "new" => StageOf(w.status) = "absent"
         /\ Queued(w) => StageOf(w.status) = "queued"
         /\ w.status = "decoding" => StageOf(w.status) = "running"
         /\ w.status \in Ended => StageOf(w.status) = w.status
  BY <1>1 DEF StageOf, Queued, Ended, Statuses
<1>7. /\ q.status = "new" => StageOf(q.status) = "absent"
      /\ Queued(q) => StageOf(q.status) = "queued"
      /\ q.status = "decoding" => StageOf(q.status) = "running"
      /\ Queued(p) => StageOf(p.status) = "queued"
      /\ p.status = "decoding" => StageOf(p.status) = "running"
      /\ p.status = "failed" => StageOf(p.status) = "failed"
      /\ p.status = "finished" => StageOf(p.status) = "finished"
  BY <1>6 DEF Ended
<1>a. ContinuousContract!Submit(r) <=> /\ stage[r] = "absent"
                             /\ stage' = [stage EXCEPT ![r] = "queued"]
                             /\ \E n \in {s.max_new_tokens : s \in Shapes} :
                                  limit' = [limit EXCEPT ![r] = n]
                             /\ UNCHANGED stream
  BY DEF ContinuousContract!Submit
<1>b. ContinuousContract!Start(r) <=> /\ stage[r] = "queued"
                            /\ stage' = [stage EXCEPT ![r] = "running"]
                            /\ UNCHANGED <<stream, limit>>
  BY DEF ContinuousContract!Start
<1>c. ContinuousContract!Emit(r) <=> /\ stage[r] = "running"
                           /\ Len(stream[r]) < limit[r]
                           /\ stream' = [stream EXCEPT ![r] = Append(@, Text)]
                           /\ UNCHANGED <<stage, limit>>
  BY DEF ContinuousContract!Emit, ContinuousContract!Text, Text
<1>d. ContinuousContract!Finish(r) <=> /\ stage[r] = "running"
                             /\ stage' = [stage EXCEPT ![r] = "finished"]
                             /\ stream' = [stream EXCEPT ![r] = Append(@, End)]
                             /\ UNCHANGED limit
  BY DEF ContinuousContract!Finish, ContinuousContract!End, End
<1>e. ContinuousContract!Fail(r) <=> /\ stage[r] \in {"queued", "running"}
                           /\ stage' = [stage EXCEPT ![r] = "failed"]
                           /\ stream' = [stream EXCEPT ![r] = Append(@, End)]
                           /\ UNCHANGED limit
  BY DEF ContinuousContract!Fail, ContinuousContract!End, End
<1>9. /\ ContinuousContract!vars = <<stage, stream, limit>>
      /\ ContinuousContract!vars' = <<stage', stream', limit'>>
  BY DEF ContinuousContract!vars, stage, stream, limit
<1>. HIDE DEF stage, stream, limit, q, p
<1>10. CASE /\ p.status = q.status \/ (Queued(q) /\ Queued(p))
            /\ p.output_queue = q.output_queue /\ p.max_new_tokens = q.max_new_tokens
  <2>1. StageOf(p.status) = StageOf(q.status)
    BY <1>7, <1>10
  <2>2. UNCHANGED <<stage, stream, limit>>
    BY <1>3, <1>4, <1>5, <1>10, <2>1
  <2>. QED  BY <1>9, <2>2 DEF ContractStep
<1>11. CASE /\ q.status = "new" /\ Queued(p)
            /\ p.output_queue = q.output_queue
            /\ p.max_new_tokens \in {s.max_new_tokens : s \in Shapes}
  <2>1. ContinuousContract!Submit(r)
    BY <1>a, <1>3, <1>4, <1>5, <1>7, <1>11
  <2>. QED  BY <2>1 DEF ContractStep, ContinuousContract!Next
<1>12. CASE /\ Queued(q) /\ p.status = "decoding"
            /\ p.output_queue = q.output_queue /\ p.max_new_tokens = q.max_new_tokens
  <2>1. ContinuousContract!Start(r)
    BY <1>b, <1>3, <1>4, <1>5, <1>7, <1>12
  <2>. QED  BY <2>1 DEF ContractStep, ContinuousContract!Next
<1>13. CASE /\ q.status = "decoding" /\ p.status = "decoding"
            /\ Len(q.output_queue) < q.max_new_tokens
            /\ p.output_queue = Append(q.output_queue, Text)
            /\ p.max_new_tokens = q.max_new_tokens
  <2>1. ContinuousContract!Emit(r)
    BY <1>c, <1>3, <1>4, <1>5, <1>7, <1>13
  <2>. QED  BY <2>1 DEF ContractStep, ContinuousContract!Next
<1>14. CASE /\ p.status = "failed" /\ (Queued(q) \/ q.status = "decoding")
            /\ p.output_queue = Append(q.output_queue, End) /\ p.max_new_tokens = q.max_new_tokens
  <2>1. ContinuousContract!Fail(r)
    BY <1>e, <1>3, <1>4, <1>5, <1>7, <1>14
  <2>. QED  BY <2>1 DEF ContractStep, ContinuousContract!Next
<1>15. CASE /\ p.status = "finished" /\ q.status = "decoding"
            /\ p.output_queue = Append(q.output_queue, End) /\ p.max_new_tokens = q.max_new_tokens
  <2>1. ContinuousContract!Finish(r)
    BY <1>d, <1>3, <1>4, <1>5, <1>7, <1>15
  <2>. QED  BY <2>1 DEF ContractStep, ContinuousContract!Next
<1>. QED  BY <1>10, <1>11, <1>12, <1>13, <1>14, <1>15 DEF ClientStep, q, p

(* A step that changes no record is nothing a client sees, nor is one of    *)
(* something else that runs.                                                *)
LEMMA NothingNoticed ==
  ASSUME running' = running,
         running = "continuous" => PInv /\ PInv' /\ request_state' = request_state
  PROVE  ContractStep
<1>1. ASSUME NEW x \in Requests
      PROVE  (IF running # "continuous" THEN "absent" ELSE Stage(x))'
               = IF running # "continuous" THEN "absent" ELSE Stage(x)
  <2>1. CASE running = "continuous"
    <3>1. x \in InSlot <=> request_state[x].status = "decoding"
      BY <2>1 DEF PInv, Homes, InStatus, Status
    <3>2. x \in InSlot' <=> request_state'[x].status = "decoding"
      BY <2>1 DEF PInv, Homes, InStatus, Status
    <3>3. Stage(x)' = Stage(x)
      BY <2>1, <3>1, <3>2 DEF Stage, Status
    <3>. QED  BY <2>1, <3>3
  <2>. QED  BY <2>1
<1>2. [x \in Requests |-> IF running # "continuous" THEN "absent" ELSE Stage(x)]'
        = [x \in Requests |-> IF running # "continuous" THEN "absent" ELSE Stage(x)]
  BY <1>1
<1>3. [x \in Requests |-> IF running # "continuous" THEN << >> ELSE request_state[x].output_queue]'
        = [x \in Requests |-> IF running # "continuous" THEN << >>
                              ELSE request_state[x].output_queue]
  OBVIOUS
<1>4. [x \in Requests |-> IF running # "continuous" THEN 0 ELSE request_state[x].max_new_tokens]'
        = [x \in Requests |-> IF running # "continuous" THEN 0
                              ELSE request_state[x].max_new_tokens]
  OBVIOUS
<1>. QED  BY <1>2, <1>3, <1>4 DEF ContractStep, ContinuousContract!vars

(* A step that sets one record.                                             *)
LEMMA SetNoticed ==
  ASSUME RInv, PInv', running = "continuous", running' = "continuous",
         NEW r \in Requests, NEW q, Set(r, q), ClientStep(request_state[r], q)
  PROVE  ContractStep
<1>1. /\ request_state'[r] = q
      /\ \A x \in Requests \ {r} : request_state'[x] = request_state[x]
  BY DEF Set, RInv, PInv, Typed
<1>2. PInv
  BY DEF RInv
<1>. QED  BY <1>1, <1>2, OneClient

LEMMA SubmitNoticed ==
  ASSUME RInv, PInv', running = "continuous", running' = "continuous",
         NEW r \in Requests, Submit(r)
  PROVE  ContractStep
<1>1. PICK s \in Shapes : Set(r, NewRequestState(s.prompt, s.max_new_tokens))
  BY DEF Submit
<1>2. request_state[r] = Unborn
  BY DEF Submit, Status, RInv, RecordsRight, RecordRight, RightRecord
<1>3. ClientStep(request_state[r], NewRequestState(s.prompt, s.max_new_tokens))
  BY <1>2 DEF ClientStep, Queued, Unborn, NewRequestState
<1>. QED  BY <1>1, <1>3, SetNoticed

(* Admitted, put back, or failed on the way.                                *)
LEMMA AdmissionsNoticed ==
  ASSUME RInv, PInv', running = "continuous", running' = "continuous",
         NEW r \in Requests, AdmitOne(r) \/ Defer(r) \/ FailAdmission(r)
  PROVE  ContractStep
<1>. DEFINE q == request_state[r]
            m == MarkAdmitted(q)
<1>1. Admitting(r)
  BY DEF AdmitOne, Defer, FailAdmission
<1>2. Queued(q) /\ q \in RequestRecords
  BY <1>1, CandidateIs DEF RInv, Queued, Status
<1>3. /\ m.status = "prefill" /\ m.output_queue = q.output_queue
      /\ m.max_new_tokens = q.max_new_tokens /\ m \in RequestRecords
  <2>1. m.output_queue = q.output_queue /\ m.max_new_tokens = q.max_new_tokens
    BY <1>2 DEF MarkAdmitted, RequestRecords
  <2>. QED  BY <1>1, <2>1, CandidateRecord
<1>. HIDE DEF m, q
<1>4. CASE AdmitOne(r)
  <2>. DEFINE p == [Prefilled(m) EXCEPT !.block_table = block_tables'[r],
                                        !.num_computed_tokens = q.prompt]
  <2>1. Set(r, p)
    BY <1>4 DEF AdmitOne, m, q
  <2>2. p.status = "decoding" /\ p.output_queue = q.output_queue /\ p.max_new_tokens = q.max_new_tokens
    BY <1>3 DEF Prefilled, MarkDecoding, RequestRecords
  <2>. HIDE DEF p
  <2>3. ClientStep(q, p)
    BY <1>2, <2>2 DEF ClientStep
  <2>. QED  BY <2>1, <2>3, SetNoticed DEF q
<1>5. CASE Defer(r)
  <2>1. Set(r, m)
    BY <1>5 DEF Defer, m, q
  <2>2. ClientStep(q, m)
    BY <1>2, <1>3 DEF ClientStep, Queued
  <2>. QED  BY <2>1, <2>2, SetNoticed DEF q
<1>6. CASE FailAdmission(r)
  <2>1. PICK counted \in {0, q.prompt} :
          Set(r, MarkFailed([m EXCEPT !.prompt_tokens = counted]))
    BY <1>6 DEF FailAdmission, EndRequest, RecordEnd, m, q
  <2>. DEFINE p == MarkFailed([m EXCEPT !.prompt_tokens = counted])
  <2>2. /\ p.status = "failed" /\ p.output_queue = Append(q.output_queue, End)
        /\ p.max_new_tokens = q.max_new_tokens
    BY <1>3 DEF MarkFailed, RequestRecords
  <2>3. Set(r, p)
    BY <2>1
  <2>. HIDE DEF p
  <2>4. ClientStep(q, p)
    BY <1>2, <2>2 DEF ClientStep
  <2>. QED  BY <2>3, <2>4, SetNoticed DEF q
<1>. QED  BY <1>4, <1>5, <1>6

(* A text is streamed only by a request that still lacks tokens.            *)
LEMMA DecodeNoticed ==
  ASSUME RInv, PInv', running = "continuous", running' = "continuous",
         NEW r \in Requests, Decode(r)
  PROVE  ContractStep
<1>. DEFINE q == request_state[r]
<1>1. /\ local.position <= Len(local.occupied) /\ r = slots[Slot] /\ phase = "decoding"
      /\ KV!EnsureCapacityForToken(r, TokenPosition(r))
  BY DEF Decode, At
<1>2. PICK text \in TextsOf(q) : Set(r, WithToken(q, block_tables'[r], text))
  BY DEF Decode, WithToken
<1>3. /\ q \in RequestRecords /\ q.status = "decoding" /\ Running(q)
      /\ q.generated_tokens < q.max_new_tokens
  BY <1>1, TurnRecord
<1>4. block_tables'[r] \in Seq(KV!Blocks)
  BY <1>1, <1>3, TableGrows DEF RInv, PInv, Owning
<1>5. text \in BOOLEAN
  BY DEF TextsOf
<1>6. PICK p : p = WithToken(q, block_tables'[r], text)
  OBVIOUS
<1>7. /\ p.status = "decoding" /\ p.max_new_tokens = q.max_new_tokens
      /\ p.output_queue = IF text THEN Append(q.output_queue, Text) ELSE q.output_queue
  BY <1>3, <1>4, <1>5, <1>6, TokenFields, WithTokenIs
<1>8. Len(q.output_queue) < q.max_new_tokens
  <2>1. /\ Len(q.output_queue) <= EmittedTokens(q) /\ EmittedTokens(q) \in Nat
        /\ q.generated_tokens = 2 * EmittedTokens(q)
    BY <1>3 DEF Running, CountedTwice
  <2>2. Len(q.output_queue) \in Nat /\ q.max_new_tokens \in Nat
    BY <1>3 DEF RequestRecords
  <2>. HIDE DEF q
  <2>. QED  BY <1>3, <2>1, <2>2
<1>9. ClientStep(q, p)
  BY <1>3, <1>7, <1>8 DEF ClientStep
<1>. QED  BY <1>2, <1>6, <1>9, SetNoticed

LEMMA EndingsNoticed ==
  ASSUME RInv, PInv', running = "continuous", running' = "continuous",
         NEW r \in Requests, Finish(r) \/ FailDecode(r) \/ Evict(r)
  PROVE  ContractStep
<1>. DEFINE q == request_state[r]
            Closed(p) == /\ p.output_queue = Append(q.output_queue, End)
                         /\ p.max_new_tokens = q.max_new_tokens
<1>0. q \in RequestRecords
  BY DEF RInv, PInv, Typed
<1>1. q.status = "decoding"
  <2>1. CASE Finish(r)
    <3>1. r = slots[Slot] /\ phase = "finish"
      BY <2>1 DEF Finish
    <3>2. local.position <= Len(local.occupied)
      BY <3>1 DEF RInv, PInv, InTurn
    <3>. QED  BY <3>1, <3>2, TurnRecord
  <2>2. CASE FailDecode(r)
    <3>1. At(r)
      BY <2>2 DEF FailDecode
    <3>. QED  BY <3>1, TurnRecord DEF At
  <2>3. CASE Evict(r)
    <3>1. r = slots[Last(local.stalled)] /\ local.stalled # << >>
      BY <2>3 DEF Evict, MustEvict
    <3>2. Typed /\ Homes
      BY DEF RInv, PInv
    <3>3. Last(local.stalled) \in SlotIndices /\ r # NoRequest
      BY <3>1, <3>2, LastStalledIs, LegacySlotsAssumption
    <3>4. r \in InSlot
      BY <3>1, <3>3 DEF InSlot
    <3>. QED  BY <3>2, <3>4 DEF Homes, InStatus, Status
  <2>. QED  BY <2>1, <2>2, <2>3
<1>2. \E p : /\ Set(r, p) /\ Closed(p) /\ p.status \in {"failed", "finished"}
  <2>1. CASE Finish(r)
    <3>1. Set(r, MarkFinished(q))
      BY <2>1 DEF Finish, EndRequest, RecordEnd
    <3>2. MarkFinished(q).status = "finished" /\ Closed(MarkFinished(q))
      BY <1>0 DEF MarkFinished, RequestRecords
    <3>. QED  BY <3>1, <3>2
  <2>2. CASE FailDecode(r)
    <3>1. PICK table : Set(r, MarkFailed([q EXCEPT !.block_table = table]))
      BY <2>2 DEF FailDecode, RecordEnd
    <3>. DEFINE p == MarkFailed([q EXCEPT !.block_table = table])
    <3>2. p.status = "failed" /\ Closed(p)
      BY <1>0 DEF MarkFailed, RequestRecords
    <3>. QED  BY <3>1, <3>2
  <2>3. CASE Evict(r)
    <3>1. Set(r, MarkFailed(q))
      BY <2>3 DEF Evict, EndRequest, RecordEnd
    <3>2. MarkFailed(q).status = "failed" /\ Closed(MarkFailed(q))
      BY <1>0 DEF MarkFailed, RequestRecords
    <3>. QED  BY <3>1, <3>2
  <2>. QED  BY <2>1, <2>2, <2>3
<1>3. PICK p : Set(r, p) /\ Closed(p) /\ p.status \in {"failed", "finished"}
  BY <1>2
<1>4. ClientStep(q, p)
  BY <1>1, <1>3 DEF ClientStep
<1>. QED  BY <1>3, <1>4, SetNoticed

(* Every step of the scheduler is one of the contract, or not noticed.      *)
LEMMA StepsNoticed ==
  ASSUME RInv, PInv', running = "continuous", running' = "continuous", [Next]_vars
  PROVE  ContractStep
<1>1. ASSUME NEW r \in Requests, Submit(r)  PROVE ContractStep
  BY <1>1, SubmitNoticed
<1>2. CASE Drain /\ request_queue # << >>
  <2>1. /\ Head(request_queue) \in Requests /\ Status(Head(request_queue)) = "waiting"
    <3>1. request_queue \in Seq(Requests) /\ Homes
      BY DEF RInv, PInv, Typed
    <3>2. Head(request_queue) \in Range(request_queue)
      BY <1>2, <3>1, TailOfDistinct
    <3>. QED  BY <3>1, <3>2 DEF Homes, InStatus
  <2>2. PICK r \in Requests : r = Head(request_queue)
    BY <2>1
  <2>3. Set(r, [request_state[r] EXCEPT !.status = "waiting"])
    BY <1>2, <2>2 DEF Drain
  <2>4. request_state[r] \in RequestRecords /\ request_state[r].status = "waiting"
    BY <2>1, <2>2 DEF RInv, PInv, Typed, Status
  <2>5. [request_state[r] EXCEPT !.status = "waiting"] = request_state[r]
    BY <2>4 DEF RequestRecords
  <2>6. ClientStep(request_state[r], request_state[r])
    BY DEF ClientStep
  <2>. QED  BY <2>3, <2>5, <2>6, SetNoticed
<1>3. ASSUME NEW r \in Requests, AdmitOne(r) \/ Defer(r) \/ FailAdmission(r)
      PROVE  ContractStep
  BY <1>3, AdmissionsNoticed
<1>4. ASSUME NEW r \in Requests, Decode(r)  PROVE ContractStep
  BY <1>4, DecodeNoticed
<1>5. ASSUME NEW r \in Requests, Finish(r) \/ FailDecode(r) \/ Evict(r)
      PROVE  ContractStep
  BY <1>5, EndingsNoticed
<1>6. ASSUME \/ Drain /\ request_queue = << >>
             \/ BeginStep \/ AdmitDone \/ BeginDecode \/ DecodeDone
             \/ \E r \in Requests : Stall(r)
             \/ UNCHANGED vars
      PROVE  ContractStep
  <2>1. request_state' = request_state
    BY <1>6 DEF Drain, BeginStep, AdmitDone, BeginDecode, DecodeDone, Stall, vars
  <2>. QED  BY <2>1, NothingNoticed DEF RInv
<1>. QED  BY <1>1, <1>2, <1>3, <1>4, <1>5, <1>6 DEF Next, Step

(* This scheduler, too, keeps the contract with its clients: each request is *)
(* queued, runs and ends once, by whichever end, streams at most as many    *)
(* texts as it asked for, and its stream is closed by one end marker.       *)
THEOREM ContinuousRefinesContract == MCSpec => ContinuousImplementsContract
<1>. DEFINE I == running = "continuous" => RInv
<1>1. MCInit => I
  BY ContinuousInit, RInvInit
<1>2. I /\ [MCNext]_mc_vars => I'
  BY ContinuousRunsAlone, RInvKept
<1>3. MCInit => ContinuousContract!Init
  <2>. SUFFICES ASSUME MCInit  PROVE ContinuousContract!Init
    OBVIOUS
  <2>1. CASE running # "continuous"
    BY <2>1 DEF ContinuousContract!Init
  <2>2. CASE running = "continuous"
    <3>1. ASSUME NEW r \in Requests
          PROVE  /\ Stage(r) = "absent" /\ request_state[r].output_queue = << >>
                 /\ request_state[r].max_new_tokens = 0
      <4>1. request_state[r] = Unborn
        BY <2>2, ContinuousInit DEF Init
      <4>2. Unborn.status = "new" /\ Unborn.output_queue = << >> /\ Unborn.max_new_tokens = 0
        BY DEF Unborn, NewRequestState
      <4>3. Stage(r) = StageOf("new")
        <5>1. PInv
          BY <2>2, ContinuousInit, InitIsRight
        <5>2. request_state[r].status = "new"
          BY <4>1, <4>2
        <5>. QED  BY <5>1, <5>2, StageIs
      <4>. QED  BY <4>1, <4>2, <4>3 DEF StageOf
    <3>. QED  BY <2>2, <3>1 DEF ContinuousContract!Init
  <2>. QED  BY <2>1, <2>2
<1>4. I /\ I' /\ [MCNext]_mc_vars => [ContinuousContract!Next]_(ContinuousContract!vars)
  <2>. SUFFICES ASSUME I, I', [MCNext]_mc_vars  PROVE ContractStep
    BY DEF ContractStep
  <2>1. running' = running /\ (running = "continuous" => [Next]_vars)
    BY ContinuousRunsAlone
  <2>2. CASE running = "continuous"
    BY <2>1, <2>2, StepsNoticed DEF RInv
  <2>3. CASE running # "continuous"
    BY <2>1, <2>3, NothingNoticed
  <2>. QED  BY <2>2, <2>3
<1>. QED  BY <1>1, <1>2, <1>3, <1>4, PTL
          DEF MCSpec, ContinuousContract!Spec, ContinuousImplementsContract

-----------------------------------------------------------------------------
(* A pass over the slots *)

(* What the runs check is the block manager's own question.                 *)
LEMMA LacksIs ==
  ASSUME PInv, NEW r \in Requests, r \in KV!Owners
  PROVE  LacksBlocks(r) <=> ~ KV!CapacityAvailable(r, TokenPosition(r))
<1>. DEFINE n == KV!BlocksNeeded(TokenPosition(r) + 1)
            t == Len(block_tables[r])
            f == Len(free_blocks)
<1>1. n \in Nat /\ t \in Nat /\ f \in Nat
  BY LacksNat DEF PInv, Owning
<1>2. KV!CapacityAvailable(r, TokenPosition(r)) <=> (IF n - t > 0 THEN n - t ELSE 0) <= f
  BY DEF KV!CapacityAvailable, KV!MissingBlocks, KV!FreeBlockCount
<1>3. LacksBlocks(r) <=> t + f < n
  BY DEF LacksBlocks
<1>. HIDE DEF n, t, f
<1>. QED  BY <1>1, <1>2, <1>3

(* Who stalls takes all there is, and it is not enough.                     *)
LEMMA StallTakesAll ==
  ASSUME PInv, NEW r \in Requests, Stall(r)
  PROVE  /\ r \in KV!Owners /\ free_blocks' = << >> /\ LacksBlocks(r)'
         /\ \A x \in KV!Owners \ {r} : block_tables'[x] = block_tables[x]
<1>. DEFINE n == KV!BlocksNeeded(TokenPosition(r) + 1)
            k == IF Lacks(r) <= Len(free_blocks) THEN Lacks(r) ELSE Len(free_blocks)
            f == Len(free_blocks)
<1>1. /\ r \in KV!Owners /\ KV!EnsureCapacityForToken(r, TokenPosition(r))
      /\ ~ KV!CapacityAvailable(r, TokenPosition(r)) /\ UNCHANGED request_state
  BY DEF Stall, KV!EnsureCapacityForToken
<1>2. /\ free_blocks' = SubSeq(free_blocks, k + 1, f)
      /\ block_tables' = [block_tables EXCEPT ![r] = @ \o SubSeq(free_blocks, 1, k)]
  BY <1>1 DEF KV!EnsureCapacityForToken, KV!Extend, KV!AfterPop, KV!FirstFree, KV!FreeBlockCount, Lacks
<1>3. Lacks(r) \in Nat /\ f \in Nat /\ Len(block_tables[r]) \in Nat /\ n \in Nat
  BY <1>1, LacksNat DEF PInv, Owning
<1>4. k = f
  <2>1. ~ (Lacks(r) <= f)
    BY <1>1 DEF KV!CapacityAvailable, KV!FreeBlockCount, Lacks
  <2>. QED  BY <2>1
<1>. HIDE DEF k
<1>5. free_blocks \in Seq(KV!Blocks) /\ block_tables[r] \in Seq(KV!Blocks) /\ f \in 0 .. Len(free_blocks)
  BY <1>1, <1>3 DEF PInv, Owning, BlocksInOnePlace, Partition, KV!Owners
<1>6. free_blocks' = << >>
  <2>1. /\ SubSeq(free_blocks, f + 1, Len(free_blocks)) \in Seq(KV!Blocks)
        /\ Len(SubSeq(free_blocks, f + 1, Len(free_blocks))) = Len(free_blocks) - f
    BY <1>5, CutDeque
  <2>2. free_blocks' \in Seq(KV!Blocks) /\ Len(free_blocks') = 0
    BY <1>2, <1>3, <1>4, <2>1
  <2>. QED  BY <2>2, EmptySeq
<1>7. Len(block_tables'[r]) = Len(block_tables[r]) + f
  <2>1. SubSeq(free_blocks, 1, f) \in Seq(KV!Blocks) /\ Len(SubSeq(free_blocks, 1, f)) = f
    BY <1>5, CutDeque
  <2>2. block_tables'[r] = block_tables[r] \o SubSeq(free_blocks, 1, f)
    BY <1>1, <1>2, <1>4 DEF KV!Owners
  <2>3. PICK s, u : s = block_tables[r] /\ u = SubSeq(free_blocks, 1, f)
    OBVIOUS
  <2>4. Len(s \o u) = Len(s) + Len(u)
    BY <1>5, <2>1, <2>3, ConcatProperties
  <2>. HIDE DEF f
  <2>. QED  BY <2>1, <2>2, <2>3, <2>4
<1>8. Len(block_tables[r]) + f < n
  BY <1>1, LacksIs DEF LacksBlocks
<1>9. Len(block_tables'[r]) + Len(free_blocks') < n
  <2>1. Len(free_blocks') = 0
    BY <1>6, EmptySeq
  <2>. HIDE DEF n, f
  <2>. QED  BY <1>3, <1>7, <1>8, <2>1
<1>10. LacksBlocks(r)'
  BY <1>1, <1>9 DEF LacksBlocks, TokenPosition, KV!BlocksNeeded
<1>11. \A x \in KV!Owners \ {r} : block_tables'[x] = block_tables[x]
  BY <1>2 DEF KV!Owners
<1>. QED  BY <1>1, <1>6, <1>10, <1>11

(* Outside a pass nothing is asked.                                         *)
LEMMA NoPass ==
  ASSUME phase' \notin {"decoding", "finish"}
  PROVE  PassRight'
BY DEF PassRight

LEMMA PassBegins ==
  ASSUME BeginDecode
  PROVE  PassRight'
<1>1. /\ phase' = "decoding" /\ slots' = slots
      /\ local'.occupied = OccupiedSlots /\ local'.position = 1
  BY DEF BeginDecode, Idle
<1>2. {i \in SlotIndices : slots'[i] # NoRequest} \subseteq Range(local'.occupied)
  BY <1>1, OccupiedSlotsAre
<1>3. Visited' = {}
  BY <1>1 DEF Visited
<1>. QED  BY <1>1, <1>2, <1>3 DEF PassRight, SlotIndices

(* Steps that leave the pass alone, and the records of those in it.         *)
LEMMA PassRests ==
  ASSUME PassRight, UNCHANGED <<phase, local, slots, free_blocks, block_tables>>,
         \A x \in InSlot : request_state'[x] = request_state[x]
  PROVE  PassRight'
<1>1. Visited' = Visited /\ (NothingGained' <=> NothingGained)
  BY DEF Visited, NothingGained
<1>2. \A i \in SlotIndices : slots[i] # NoRequest /\ LacksBlocks(slots[i]) => LacksBlocks(slots[i])'
  BY DEF InSlot, LacksBlocks, TokenPosition, KV!BlocksNeeded
<1>3. PassRight => PassRight'
  BY <1>1, <1>2 DEF PassRight, SlotIndices
<1>. QED  BY <1>3

LEMMA PassAfterStall ==
  ASSUME PInv, PassRight, NEW r \in Requests, Stall(r)
  PROVE  PassRight'
<1>1. /\ phase = "decoding" /\ phase' = "decoding" /\ r = slots[Slot] /\ slots' = slots
      /\ local.position <= Len(local.occupied) /\ request_state' = request_state
      /\ local' = [local EXCEPT !.position = @ + 1, !.stalled = Append(@, Slot)]
  BY DEF Stall, At
<1>2. /\ r \in KV!Owners /\ free_blocks' = << >> /\ LacksBlocks(r)'
      /\ \A x \in KV!Owners \ {r} : block_tables'[x] = block_tables[x]
  BY StallTakesAll
<1>3. /\ local'.occupied = local.occupied /\ local'.decoded_any = local.decoded_any
      /\ local'.position = local.position + 1 /\ local.position \in Nat \ {0}
  BY <1>1 DEF PInv, Typed, Locals
<1>4. Visited' \subseteq Visited \cup {Slot}
  <2>1. \A k \in 1 .. local'.position - 1 : k \in 1 .. local.position - 1 \/ k = local.position
    BY <1>3
  <2>. QED  BY <1>3, <2>1 DEF Visited, Slot
<1>5. NothingGained' => NothingGained
  BY <1>1, <1>3 DEF NothingGained
<1>6. Slot \in SlotIndices /\ r # NoRequest
  BY <1>1, SlotIs, LegacySlotsAssumption DEF PInv
<1>7. ASSUME NEW x \in InSlot, LacksBlocks(x), x # r  PROVE LacksBlocks(x)'
  <2>1. x \in KV!Owners /\ x \in Requests
    BY InSlotProperties DEF PInv, Owning
  <2>2. /\ Len(block_tables[x]) \in Nat /\ Len(free_blocks) \in Nat
        /\ KV!BlocksNeeded(TokenPosition(x) + 1) \in Nat
    BY <2>1, LacksNat DEF PInv, Owning
  <2>3. block_tables'[x] = block_tables[x] /\ Len(free_blocks') = 0
    BY <1>2, <1>7, <2>1, EmptySeq
  <2>4. Len(block_tables[x]) + Len(free_blocks) < KV!BlocksNeeded(TokenPosition(x) + 1)
    BY <1>7 DEF LacksBlocks
  <2>5. Len(block_tables'[x]) + Len(free_blocks') < KV!BlocksNeeded(TokenPosition(x) + 1)
    BY <2>2, <2>3, <2>4
  <2>6. TokenPosition(x)' = TokenPosition(x)
    BY <1>1 DEF TokenPosition
  <2>. QED  BY <2>5, <2>6 DEF LacksBlocks, KV!BlocksNeeded
<1>8. NothingGained' =>
        \A i \in Visited' : \E x \in InSlot : i \in SlotIndices /\ x = slots[i] /\ LacksBlocks(x)'
  <2>. SUFFICES ASSUME NothingGained', NEW i \in Visited'
                PROVE  \E x \in InSlot : i \in SlotIndices /\ x = slots[i] /\ LacksBlocks(x)'
    OBVIOUS
  <2>1. r \in InSlot
    BY <1>1, <1>6 DEF InSlot
  <2>2. CASE i = Slot
    BY <1>1, <1>2, <1>6, <2>1, <2>2
  <2>3. CASE i \in Visited
    <3>1. i \in SlotIndices /\ slots[i] # NoRequest /\ LacksBlocks(slots[i])
      BY <1>1, <1>5, <2>3 DEF PassRight
    <3>2. PICK x \in InSlot : x = slots[i] /\ LacksBlocks(x)
      BY <3>1 DEF InSlot
    <3>. QED  BY <1>2, <1>7, <3>1, <3>2
  <2>. QED  BY <1>4, <2>2, <2>3
<1>9. NothingGained' =>
        \A i \in Visited' : /\ i \in SlotIndices /\ slots'[i] # NoRequest
                            /\ LacksBlocks(slots[i])'
  <2>1. \A i \in SlotIndices : slots'[i] = slots[i]
    BY <1>1
  <2>2. \A x \in InSlot : x # NoRequest
    BY DEF InSlot
  <2>3. ASSUME NEW i \in SlotIndices, NEW x, x = slots[i], LacksBlocks(x)'
        PROVE  LacksBlocks(slots[i])'
    BY <2>1, <2>3 DEF LacksBlocks, TokenPosition
  <2>. QED  BY <1>8, <2>1, <2>2, <2>3
<1>10. {i \in SlotIndices : slots'[i] # NoRequest} \subseteq Range(local'.occupied)
  BY <1>1, <1>3 DEF PassRight
<1>. QED  BY <1>1, <1>2, <1>9, <1>10 DEF PassRight, SlotIndices

(* Somebody got a token, or left his slot: the pass evicts nobody for that. *)
LEMMA PassAfterGain ==
  ASSUME PassRight, phase \in {"decoding", "finish"}, local'.occupied = local.occupied,
         {i \in SlotIndices : slots'[i] # NoRequest} \subseteq {i \in SlotIndices : slots[i] # NoRequest},
         phase' = "finish" => local'.decoded_any,
         local'.decoded_any \/ \E i \in Range(local.occupied) : slots'[i] = NoRequest
  PROVE  PassRight'
<1>1. {i \in SlotIndices : slots'[i] # NoRequest} \subseteq Range(local'.occupied)
  BY DEF PassRight
<1>2. ~ NothingGained'
  BY DEF NothingGained
<1>. QED  BY <1>1, <1>2 DEF PassRight, SlotIndices

LEMMA PassAfterTurn ==
  ASSUME PInv, PassRight, NEW r \in Requests, Decode(r) \/ Finish(r) \/ FailDecode(r)
  PROVE  PassRight'
<1>1. local \in Locals /\ slots \in [SlotIndices -> Requests \cup {NoRequest}]
  BY DEF PInv, Typed
<1>2. CASE Decode(r)
  <2>1. /\ phase = "decoding" /\ slots' = slots
        /\ \/ local' = [local EXCEPT !.decoded_any = TRUE]
           \/ local' = [local EXCEPT !.decoded_any = TRUE, !.position = @ + 1]
    BY <1>2 DEF Decode, At
  <2>2. local'.occupied = local.occupied /\ local'.decoded_any
    BY <1>1, <2>1 DEF Locals
  <2>. QED  BY <2>1, <2>2, PassAfterGain
<1>3. CASE Finish(r)
  <2>1. /\ phase = "finish" /\ phase' = "decoding" /\ slots' = [slots EXCEPT ![Slot] = NoRequest]
        /\ local' = [local EXCEPT !.position = @ + 1]
    BY <1>3 DEF Finish
  <2>2. local'.occupied = local.occupied /\ local'.decoded_any
    BY <1>1, <2>1 DEF Locals, PassRight
  <2>3. {i \in SlotIndices : slots'[i] # NoRequest} \subseteq {i \in SlotIndices : slots[i] # NoRequest}
    BY <1>1, <2>1
  <2>. QED  BY <2>1, <2>2, <2>3, PassAfterGain
<1>4. CASE FailDecode(r)
  <2>1. /\ phase = "decoding" /\ phase' = phase /\ slots' = [slots EXCEPT ![Slot] = NoRequest]
        /\ local.position <= Len(local.occupied)
        /\ local' = [local EXCEPT !.position = @ + 1]
    BY <1>4 DEF FailDecode, At
  <2>2. local'.occupied = local.occupied
    BY <1>1, <2>1 DEF Locals
  <2>3. Slot \in SlotIndices /\ Slot \in Range(local.occupied)
    <3>1. local.occupied \in Seq(SlotIndices) /\ local.position \in Nat \ {0}
      BY <1>1 DEF Locals
    <3>2. local.position \in DOMAIN local.occupied
      BY <2>1, <3>1
    <3>. QED  BY <3>1, <3>2 DEF Slot, Range
  <2>4. slots'[Slot] = NoRequest
    BY <1>1, <2>1, <2>3
  <2>5. {i \in SlotIndices : slots'[i] # NoRequest} \subseteq {i \in SlotIndices : slots[i] # NoRequest}
    BY <1>1, <2>1
  <2>. QED  BY <2>1, <2>2, <2>3, <2>4, <2>5, PassAfterGain
<1>. QED  BY <1>2, <1>3, <1>4

LEMMA PassKept ==
  ASSUME PInv, PassRight, [Next]_vars
  PROVE  PassRight'
<1>1. ASSUME \/ BeginStep \/ Drain \/ AdmitDone \/ DecodeDone
             \/ \E r \in Requests : AdmitOne(r) \/ Defer(r) \/ FailAdmission(r) \/ Evict(r)
      PROVE  PassRight'
  <2>1. phase' \in {"idle", "drain", "admit", "decode"}
    BY <1>1 DEF BeginStep, Drain, AdmitDone, DecodeDone, AdmitOne, Defer, FailAdmission, Evict,
       Goto, EndStep, Admitting
  <2>. QED  BY <2>1, NoPass
<1>2. CASE BeginDecode
  BY <1>2, PassBegins
<1>3. ASSUME NEW r \in Requests, Stall(r)  PROVE PassRight'
  BY <1>3, PassAfterStall
<1>4. ASSUME NEW r \in Requests, Decode(r) \/ Finish(r) \/ FailDecode(r)  PROVE PassRight'
  BY <1>4, PassAfterTurn
<1>5. ASSUME NEW r \in Requests, Submit(r)  PROVE PassRight'
  <2>1. UNCHANGED <<phase, local, slots, free_blocks, block_tables>> /\ Status(r) = "new"
    BY <1>5 DEF Submit, kv_vars
  <2>2. \A x \in Requests \ {r} : request_state'[x] = request_state[x]
    BY <1>5 DEF Submit, Set, PInv, Typed
  <2>3. InSlot \subseteq Requests \ {r}
    BY <2>1 DEF PInv, Homes, InStatus
  <2>. QED  BY <2>1, <2>2, <2>3, PassRests
<1>6. CASE UNCHANGED vars
  <2>1. UNCHANGED <<phase, local, slots, free_blocks, block_tables, request_state>>
    BY <1>6 DEF vars, kv_vars
  <2>. QED  BY <2>1, PassRests
<1>. QED  BY <1>1, <1>2, <1>3, <1>4, <1>5, <1>6 DEF Next, Step

-----------------------------------------------------------------------------
(* Who is in a slot fits in the pool *)

(* A pool of TotalBlocks blocks, and no deque longer than that.             *)
LEMMA PoolSize ==
  ASSUME BlocksInOnePlace
  PROVE  /\ Cardinality(KV!Blocks) = TotalBlocks
         /\ Len(free_blocks) \in Nat /\ Len(free_blocks) <= TotalBlocks
<1>1. IsFiniteSet(KV!Blocks) /\ Cardinality(KV!Blocks) = TotalBlocks
  <2>1. 0 \in Int /\ TotalBlocks - 1 \in Int /\ TotalBlocks \in Nat /\ TotalBlocks # 0
    BY LegacyPoolAssumption
  <2>2. IsFiniteSet(0 .. TotalBlocks - 1)
    BY <2>1, FS_Interval
  <2>3. Cardinality(0 .. TotalBlocks - 1) = TotalBlocks
    BY <2>1, FS_Interval
  <2>. QED  BY <2>2, <2>3 DEF KV!Blocks
<1>2. free_blocks \in Seq(KV!Blocks) /\ IsInjective(free_blocks)
  BY DEF BlocksInOnePlace, Partition
<1>3. Cardinality(Range(free_blocks)) = Len(free_blocks) /\ Len(free_blocks) \in Nat
  BY <1>2, CountingMembers, LenProperties
<1>4. Range(free_blocks) \subseteq KV!Blocks
  BY <1>2, LenProperties DEF Range
<1>5. Cardinality(Range(free_blocks)) <= Cardinality(KV!Blocks)
  BY <1>1, <1>4, FS_Subset
<1>. QED  BY <1>1, <1>3, <1>5

(* More tokens need no fewer blocks.                                        *)
LEMMA MoreTokensMoreBlocks ==
  \A m, n \in Nat : m <= n => KV!BlocksNeeded(m) <= KV!BlocksNeeded(n)
<1>. TAKE m, n \in Nat
<1>. HAVE m <= n
<1>1. BlockSize \in Nat \ {0}
  BY LegacyPoolAssumption
<1>2. /\ m + BlockSize - 1 \in Nat /\ n + BlockSize - 1 \in Nat
      /\ m + BlockSize - 1 <= n + BlockSize - 1
  BY <1>1
<1>. QED  BY <1>1, <1>2, DivMonotone DEF KV!BlocksNeeded

(* The admission check counts the prompt and all new tokens, and nothing    *)
(* changes these later.                                                     *)
SameShape(q, p) == p.prompt = q.prompt /\ p.max_new_tokens = q.max_new_tokens

LEMMA FitKept ==
  ASSUME PInv, PlacedFit, InSlot' \subseteq InSlot,
         \A x \in InSlot : SameShape(request_state[x], request_state'[x])
  PROVE  PlacedFit'
BY DEF PlacedFit, FitsPool, SameShape, KV!BlocksNeeded

LEMMA FitAfterAdmission ==
  ASSUME RInv, PlacedFit, NEW r \in Requests, AdmitOne(r)
  PROVE  PlacedFit'
<1>. DEFINE q == request_state[r]
            p == [Prefilled(MarkAdmitted(q)) EXCEPT !.block_table = block_tables'[r],
                                                    !.num_computed_tokens = q.prompt]
<1>1. /\ Admitting(r) /\ Fits(r) /\ Set(r, p)
      /\ slots' = [slots EXCEPT ![FirstFreeSlotIndex] = r]
  BY DEF AdmitOne
<1>2. /\ MarkAdmitted(q) \in RequestRecords /\ MarkAdmitted(q).prompt = q.prompt
      /\ q \in RequestRecords
  BY <1>1, CandidateRecord
<1>3. SameShape(q, p)
  <2>1. MarkAdmitted(q).max_new_tokens = q.max_new_tokens
    BY <1>2 DEF MarkAdmitted, RequestRecords
  <2>. QED  BY <1>2, <2>1 DEF SameShape, Prefilled, MarkDecoding, RequestRecords
<1>4. FitsPool(q)
  <2>1. KV!BlocksNeeded(q.prompt + q.max_new_tokens) <= Len(free_blocks)
    BY <1>1 DEF Fits, CountPromptTokens, KV!CanAllocateTokens, KV!CanAllocateBlocks,
       KV!FreeBlockCount
  <2>2. Len(free_blocks) \in Nat /\ Len(free_blocks) <= TotalBlocks
    BY PoolSize DEF RInv, PInv, Owning
  <2>3. KV!BlocksNeeded(q.prompt + q.max_new_tokens) \in Nat
    <3>1. q.prompt + q.max_new_tokens \in Nat
      <4>1. q.prompt \in Nat /\ q.max_new_tokens \in Nat
        BY <1>2 DEF RequestRecords
      <4>. HIDE DEF q
      <4>. QED  BY <4>1
    <3>. QED  BY <3>1, BlocksNeededNat
  <2>. HIDE DEF q
  <2>. QED  BY <2>1, <2>2, <2>3, LegacyPoolAssumption DEF FitsPool
<1>. HIDE DEF p
<1>5. request_state'[r] = p /\ \A x \in Requests \ {r} : request_state'[x] = request_state[x]
  BY <1>1 DEF Set, RInv, PInv, Typed
<1>6. InSlot' = InSlot \cup {r}
  <2>1. HasFreeSlot /\ Typed /\ OneSlotEach /\ r \notin InSlot
    BY <1>1, CandidateIs DEF Admitting, RInv, PInv, Homes
  <2>2. FirstFreeSlotIndex \in SlotIndices /\ slots[FirstFreeSlotIndex] = NoRequest
    BY <2>1, FreeSlotFound
  <2>. QED  BY <1>1, <2>1, <2>2, SlotFilled
<1>7. FitsPool(p)
  BY <1>3, <1>4 DEF FitsPool, SameShape
<1>8. \A x \in InSlot' : FitsPool(request_state'[x])
  <2>1. InSlot \subseteq Requests
    BY InSlotProperties DEF RInv, PInv
  <2>. QED  BY <1>5, <1>6, <1>7, <2>1 DEF PlacedFit
<1>9. \A x : FitsPool(request_state[x])' <=> FitsPool(request_state'[x])
  BY DEF FitsPool, KV!BlocksNeeded
<1>. QED  BY <1>8, <1>9 DEF PlacedFit

(* The records that the other steps set have the shape they had.            *)
LEMMA ShapesStay ==
  ASSUME RInv, NEW r \in Requests,
         Decode(r) \/ Finish(r) \/ FailDecode(r) \/ Evict(r)
  PROVE  \A x \in InSlot : SameShape(request_state[x], request_state'[x])
<1>. DEFINE q == request_state[r]
<1>1. q \in RequestRecords
  BY DEF RInv, PInv, Typed
<1>2. \E p : Set(r, p) /\ SameShape(q, p)
  <2>1. CASE Decode(r)
    <3>1. PICK text \in TextsOf(q) : Set(r, WithToken(q, block_tables'[r], text))
      BY <2>1 DEF Decode, WithToken
    <3>2. text \in BOOLEAN
      BY DEF TextsOf
    <3>3. block_tables'[r] \in Seq(KV!Blocks)
      BY <2>1, TableGrows DEF Decode, RInv, PInv, Owning
    <3>4. PICK p : p = WithToken(q, block_tables'[r], text)
      OBVIOUS
    <3>5. p.prompt = q.prompt /\ p.max_new_tokens = q.max_new_tokens
      BY <1>1, <3>2, <3>3, <3>4, TokenFields
    <3>. QED  BY <3>1, <3>4, <3>5 DEF SameShape
  <2>2. CASE Finish(r)
    <3>1. Set(r, MarkFinished(q))
      BY <2>2 DEF Finish, EndRequest, RecordEnd
    <3>2. SameShape(q, MarkFinished(q))
      BY <1>1 DEF MarkFinished, RequestRecords, SameShape
    <3>. QED  BY <3>1, <3>2
  <2>3. CASE FailDecode(r)
    <3>1. PICK table : Set(r, MarkFailed([q EXCEPT !.block_table = table]))
      BY <2>3 DEF FailDecode, RecordEnd
    <3>2. SameShape(q, MarkFailed([q EXCEPT !.block_table = table]))
      BY <1>1 DEF MarkFailed, RequestRecords, SameShape
    <3>. QED  BY <3>1, <3>2
  <2>4. CASE Evict(r)
    <3>1. Set(r, MarkFailed(q))
      BY <2>4 DEF Evict, EndRequest, RecordEnd
    <3>2. SameShape(q, MarkFailed(q))
      BY <1>1 DEF MarkFailed, RequestRecords, SameShape
    <3>. QED  BY <3>1, <3>2
  <2>. QED  BY <2>1, <2>2, <2>3, <2>4
<1>3. PICK p : Set(r, p) /\ SameShape(q, p)
  BY <1>2
<1>4. request_state'[r] = p /\ \A x \in Requests \ {r} : request_state'[x] = request_state[x]
  BY <1>3 DEF Set, RInv, PInv, Typed
<1>5. InSlot \subseteq Requests
  BY InSlotProperties DEF RInv, PInv
<1>. QED  BY <1>3, <1>4, <1>5 DEF SameShape

LEMMA PlacedFitKept ==
  ASSUME RInv, PlacedFit, [Next]_vars
  PROVE  PlacedFit'
<1>1. PInv /\ slots \in [SlotIndices -> Requests \cup {NoRequest}]
  BY DEF RInv, PInv, Typed
<1>2. ASSUME NEW r \in Requests, AdmitOne(r)  PROVE PlacedFit'
  BY <1>2, FitAfterAdmission
<1>3. ASSUME NEW r \in Requests, Decode(r) \/ Finish(r) \/ FailDecode(r) \/ Evict(r)
      PROVE  PlacedFit'
  <2>1. slots' = slots \/ \E i : slots' = [slots EXCEPT ![i] = NoRequest]
    BY <1>3 DEF Decode, Finish, FailDecode, Evict
  <2>2. InSlot' \subseteq InSlot
    BY <1>1, <2>1 DEF InSlot, SlotIndices
  <2>. QED  BY <1>1, <1>3, <2>2, ShapesStay, FitKept
<1>4. ASSUME UNCHANGED slots, \A x \in InSlot : request_state'[x] = request_state[x]
      PROVE  PlacedFit'
  <2>1. InSlot' \subseteq InSlot
    BY <1>4 DEF InSlot, SlotIndices
  <2>2. \A x \in InSlot : SameShape(request_state[x], request_state'[x])
    BY <1>4 DEF SameShape
  <2>. QED  BY <1>1, <2>1, <2>2, FitKept
<1>5. ASSUME NEW r \in Requests, NEW q, Set(r, q), r \notin InSlot, UNCHANGED slots
      PROVE  PlacedFit'
  <2>1. \A x \in Requests \ {r} : request_state'[x] = request_state[x]
    BY <1>5 DEF Set, RInv, PInv, Typed
  <2>2. InSlot \subseteq Requests \ {r}
    BY <1>1, <1>5, InSlotProperties DEF PInv
  <2>. QED  BY <1>4, <1>5, <2>1, <2>2
<1>6. ASSUME NEW r \in Requests, Defer(r) \/ FailAdmission(r)  PROVE PlacedFit'
  <2>1. Admitting(r) /\ UNCHANGED slots
    BY <1>6 DEF Defer, FailAdmission
  <2>2. \E q : Set(r, q)
    BY <1>6 DEF Defer, FailAdmission, EndRequest, RecordEnd
  <2>. QED  BY <1>1, <1>5, <2>1, <2>2, CandidateIs
<1>7. ASSUME NEW r \in Requests, Submit(r)  PROVE PlacedFit'
  <2>1. UNCHANGED slots /\ r \notin InSlot
    BY <1>1, <1>7 DEF Submit, PInv, Homes, InStatus
  <2>2. \E q : Set(r, q)
    BY <1>7 DEF Submit
  <2>. QED  BY <1>5, <2>1, <2>2
<1>8. CASE Drain /\ request_queue # << >>
  <2>1. PICK r : r = Head(request_queue)
    OBVIOUS
  <2>2. r \in Requests /\ r \notin InSlot
    <3>1. request_queue \in Seq(Requests) /\ Homes
      BY <1>1 DEF PInv, Typed
    <3>2. r \in Range(request_queue)
      BY <1>8, <2>1, <3>1, TailOfDistinct
    <3>. QED  BY <3>1, <3>2 DEF Homes, InStatus
  <2>3. UNCHANGED slots /\ \E q : Set(r, q)
    BY <1>8, <2>1 DEF Drain
  <2>. QED  BY <1>5, <2>2, <2>3
<1>9. ASSUME \/ Drain /\ request_queue = << >>
             \/ BeginStep \/ AdmitDone \/ BeginDecode \/ DecodeDone
             \/ \E r \in Requests : Stall(r)
             \/ UNCHANGED vars
      PROVE  PlacedFit'
  <2>1. UNCHANGED <<request_state, slots>>
    BY <1>9 DEF Drain, BeginStep, AdmitDone, BeginDecode, DecodeDone, Stall, vars
  <2>. QED  BY <1>4, <2>1
<1>. QED  BY <1>2, <1>3, <1>6, <1>7, <1>8, <1>9 DEF Next, Step

LEMMA EInvInvariant == Spec => []EInv
<1>1. Init => EInv
  <2>. SUFFICES ASSUME Init  PROVE EInv
    OBVIOUS
  <2>1. phase = "idle" /\ InSlot = {}
    BY DEF Init, NothingInSlots, InSlot
  <2>2. PassRight /\ PlacedFit
    BY <2>1 DEF PassRight, PlacedFit
  <2>. QED  BY <2>2, RInvInit DEF EInv
<1>2. EInv /\ [Next]_vars => EInv'
  <2>. SUFFICES ASSUME EInv, [Next]_vars  PROVE EInv'
    OBVIOUS
  <2>1. RInv /\ PInv /\ PassRight /\ PlacedFit
    BY DEF EInv, RInv
  <2>. QED  BY <2>1, RInvKept, PassKept, PlacedFitKept DEF EInv
<1>. QED  BY <1>1, <1>2, PTL DEF Spec

(* A request alone in the slots that the pool cannot give a token, although *)
(* all blocks are its own, would not have been admitted.                    *)
LEMMA VictimsHaveCompany ==
  ASSUME EInv, phase = "decoding", NEW r \in InSlot, LacksBlocks(r), free_blocks = << >>
  PROVE  OccupiedSlotCount > 1
<1>. DEFINE q == request_state[r]
            table == block_tables[r]
            O == {i \in SlotIndices : slots[i] # NoRequest}
<1>1. /\ RInv /\ PInv /\ Typed /\ Homes /\ Owning /\ r \in Requests /\ r \in KV!Owners
  BY InSlotProperties DEF EInv, RInv, PInv, Owning
<1>2. q \in RequestRecords /\ q.status = "decoding"
  BY <1>1, StatusOf DEF Homes, InStatus, Status
<1>3. /\ q.prompt \in Nat /\ q.generated_tokens \in Nat /\ q.max_new_tokens \in Nat
      /\ q.prompt_tokens = q.prompt /\ q.generated_tokens < q.max_new_tokens
  <2>1. RightRecord(q, InFinish(r)) /\ ~ InFinish(r)
    BY <1>1 DEF RInv, RecordsRight, RecordRight, InFinish
  <2>. QED  BY <1>2, <2>1 DEF RightRecord, Running, RequestRecords
<1>4. table \in Seq(KV!Blocks) /\ Len(table) \in Nat
  BY <1>1, LenProperties DEF Owning, BlocksInOnePlace, Partition, KV!Owners
<1>5. Len(table) < TotalBlocks
  <2>. DEFINE m == q.prompt + q.generated_tokens + 1
              n == q.prompt + q.max_new_tokens
  <2>1. KV!BlocksNeeded(n) <= TotalBlocks
    BY DEF EInv, PlacedFit, FitsPool
  <2>2. m \in Nat /\ n \in Nat /\ m <= n
    <3>. HIDE DEF q
    <3>. QED  BY <1>3
  <2>3. TokenPosition(r) + 1 = m
    BY <1>3 DEF TokenPosition
  <2>4. Len(table) + Len(free_blocks) < KV!BlocksNeeded(m)
    BY <2>3 DEF LacksBlocks
  <2>5. Len(free_blocks) = 0
    BY EmptySeq
  <2>. HIDE DEF m, n, table
  <2>6. /\ KV!BlocksNeeded(m) \in Nat /\ KV!BlocksNeeded(n) \in Nat
        /\ KV!BlocksNeeded(m) <= KV!BlocksNeeded(n)
    BY <2>2, BlocksNeededNat, MoreTokensMoreBlocks
  <2>. QED  BY <1>4, <2>1, <2>4, <2>5, <2>6, LegacyPoolAssumption
<1>6. ASSUME InSlot = {r}  PROVE FALSE
  <2>1. KV!Owners = {r}
    BY <1>1, <1>6 DEF Owning
  <2>2. /\ IsInjective(table)
        /\ \A b \in KV!Blocks : b \in Range(free_blocks) \/ b \in Range(table)
    BY <1>1, <2>1 DEF Owning, BlocksInOnePlace, Partition, KV!Owners
  <2>3. Range(free_blocks) = {}
    BY DEF Range
  <2>4. Range(table) = KV!Blocks
    <3>1. Range(table) \subseteq KV!Blocks
      BY <1>4, LenProperties DEF Range
    <3>. QED  BY <2>2, <2>3, <3>1
  <2>5. Cardinality(Range(table)) = Len(table)
    BY <1>4, <2>2, CountingMembers
  <2>6. Cardinality(KV!Blocks) = TotalBlocks
    BY <1>1, PoolSize DEF Owning
  <2>. HIDE DEF table
  <2>. QED  BY <1>4, <1>5, <2>4, <2>5, <2>6, LegacyPoolAssumption
<1>7. PICK i \in SlotIndices : slots[i] = r /\ r # NoRequest
  BY DEF InSlot
<1>8. PICK x \in InSlot : x # r
  BY <1>6
<1>9. PICK j \in SlotIndices : slots[j] = x /\ x # NoRequest
  BY <1>8 DEF InSlot
<1>10. i \in O /\ j \in O \ {i} /\ IsFiniteSet(O)
  <2>1. IsFiniteSet(O)
    BY SlotsAre, FS_Subset
  <2>. QED  BY <1>7, <1>8, <1>9, <2>1
<1>11. OccupiedSlotCount = Cardinality(O)
  BY DEF OccupiedSlotCount
<1>. HIDE DEF O
<1>12. /\ IsFiniteSet(O \ {i}) /\ Cardinality(O \ {i}) = Cardinality(O) - 1
       /\ Cardinality(O) \in Nat
  BY <1>10, FS_RemoveElement, FS_CardinalityType
<1>13. Cardinality(O \ {i}) # 0 /\ Cardinality(O \ {i}) \in Nat
  BY <1>10, <1>12, FS_EmptySet, FS_CardinalityType
<1>. QED  BY <1>11, <1>12, <1>13

(* Nobody is evicted unless all that are in a slot are short of blocks, or  *)
(* one has just left his; and nobody is evicted who is alone.               *)
THEOREM EvictionIsNeeded == Spec => EvictionNeeded
<1>. DEFINE Needed == \/ /\ OccupiedSlotCount > 1
                         /\ \A r \in InSlot : ~ KV!CapacityAvailable(r, TokenPosition(r))
                      \/ \E i \in Range(local.occupied) : slots[i] = NoRequest
            Evicting == stats'.kv_oom_evictions > stats.kv_oom_evictions
<1>1. ASSUME EInv, NEW r \in Requests, Evict(r)  PROVE Needed
  <2>1. CASE \E i \in Range(local.occupied) : slots[i] = NoRequest
    BY <2>1
  <2>2. CASE \A i \in Range(local.occupied) : slots[i] # NoRequest
    <3>1. /\ phase = "decoding" /\ local.position > Len(local.occupied)
          /\ ~ local.decoded_any /\ local.stalled # << >> /\ r = slots[Last(local.stalled)]
      BY <1>1 DEF Evict, AllDecoded, MustEvict
    <3>2. RInv /\ PInv /\ Typed /\ PassRight /\ local \in Locals
      BY <1>1 DEF EInv, RInv, PInv, Typed
    <3>3. Range(local.occupied) \subseteq Visited
      <4>1. local.occupied \in Seq(SlotIndices) /\ local.position \in Nat
        BY <3>2 DEF Locals
      <4>2. \A k \in 1 .. Len(local.occupied) : k \in 1 .. local.position - 1
        BY <3>1, <4>1
      <4>. QED  BY <4>1, <4>2 DEF Range, Visited
    <3>4. \A i \in SlotIndices : slots[i] # NoRequest =>
            LacksBlocks(slots[i]) /\ free_blocks = << >>
      BY <2>2, <3>1, <3>2, <3>3 DEF PassRight, NothingGained
    <3>5. \A x \in InSlot : LacksBlocks(x) /\ free_blocks = << >>
      BY <3>4 DEF InSlot
    <3>6. r \in InSlot
      <4>1. Last(local.stalled) \in SlotIndices /\ r # NoRequest
        BY <3>1, <3>2, LastStalledIs, LegacySlotsAssumption
      <4>. QED  BY <3>1, <4>1 DEF InSlot
    <3>7. OccupiedSlotCount > 1
      BY <1>1, <3>1, <3>5, <3>6, VictimsHaveCompany
    <3>8. \A x \in InSlot : x \in Requests /\ x \in KV!Owners
      BY <3>2, InSlotProperties DEF PInv, Owning
    <3>9. \A x \in InSlot : ~ KV!CapacityAvailable(x, TokenPosition(x))
      BY <3>2, <3>5, <3>8, LacksIs
    <3>. QED  BY <3>7, <3>9
  <2>. QED  BY <2>1, <2>2
<1>2. ASSUME EInv, [Next]_vars, ~ \E r \in Requests : Evict(r)  PROVE ~ Evicting
  <2>1. stats \in [Counters -> Nat]
    BY <1>2 DEF EInv, RInv, PInv, Typed
  <2>2. \/ stats' = stats
        \/ \E c \in {"admitted_count", "tokens_generated", "early_finishes",
                     "kv_allocation_failures"} : Count({c})
    <3>1. ASSUME \/ BeginStep \/ Drain \/ AdmitDone \/ BeginDecode \/ DecodeDone
                 \/ \E r \in Requests :
                      Defer(r) \/ FailAdmission(r) \/ FailDecode(r) \/ Submit(r)
                 \/ UNCHANGED vars
          PROVE  stats' = stats
      BY <3>1 DEF BeginStep, Drain, AdmitDone, BeginDecode, DecodeDone, Defer, FailAdmission,
         FailDecode, Submit, vars
    <3>2. ASSUME NEW r \in Requests, AdmitOne(r) \/ Stall(r) \/ Decode(r) \/ Finish(r)
          PROVE  \E c \in {"admitted_count", "tokens_generated", "early_finishes",
                           "kv_allocation_failures"} : Count({c})
      BY <3>2 DEF AdmitOne, Stall, Decode, Finish
    <3>. QED  BY <1>2, <3>1, <3>2 DEF Next, Step
  <2>3. stats'.kv_oom_evictions = stats.kv_oom_evictions
    BY <2>1, <2>2 DEF Count, Counters
  <2>4. stats.kv_oom_evictions \in Nat
    BY <2>1 DEF Counters
  <2>. QED  BY <2>3, <2>4
<1>3. EInv /\ [Next]_vars => [Evicting => Needed]_vars
  BY <1>1, <1>2
<1>. QED  BY <1>3, EInvInvariant, PTL DEF Spec, EvictionNeeded

=============================================================================
