------------------------- MODULE ContinuousScheduler -------------------------
(***************************************************************************)
(* legacy/continuous_scheduler.py: the first scheduler with slots, coupled *)
(* to engines/model_runner.py.  Its step() drains the queue, admits from   *)
(* the head of the waiting list while there is a free slot, prefilling     *)
(* each request whole, and then decodes one token for every slot in turn.  *)
(*                                                                         *)
(* The model runner keeps a cache of its own for each request, so the      *)
(* blocks of the block manager hold nothing: they are accounts of memory.  *)
(* As in EngineScheduler, an action is one iteration of a loop of step().  *)
(***************************************************************************)
EXTENDS ModelRunner, Selection

CONSTANTS
  Requests,        \* the requests clients may send
  NoRequest,       \* an empty slot
  Shapes,          \* the [prompt, max_new_tokens] a request may have, in tokens
  TotalBlocks,     \* total_blocks of the block manager
  BlockSize,       \* block_size_tokens of the block manager
  MaxSlots,        \* max_slots
  RunnerMayFail    \* may tokenizing, prefill and decode raise?

ASSUME LegacyShapesAssumption ==
  Shapes \subseteq [prompt : Nat \ {0}, max_new_tokens : Nat \ {0}]
ASSUME LegacySlotsAssumption == MaxSlots \in Nat \ {0} /\ NoRequest \notin Requests
ASSUME LegacyPoolAssumption == TotalBlocks \in Nat \ {0} /\ BlockSize \in Nat \ {0}
ASSUME RunnerAssumption == RunnerMayFail \in BOOLEAN

VARIABLES
  request_state,    \* the RequestState of each request
  request_queue,    \* RequestQueue: submitted, not yet drained
  waiting,          \* drained, not in a slot
  finished,         \* requests that ended, in the order they did
  metrics,          \* MetricsStore.finished_requests
  phase,            \* where in step() the worker is
  local,            \* the local variables of decode_active_requests
  slots,            \* slot index -> request or NoRequest
  stats,            \* the counters of the snapshot
  free_blocks,      \* the block manager's deque
  block_tables      \* the block manager's tables

kv_vars == <<free_blocks, block_tables>>
vars    == <<request_state, request_queue, waiting, finished, metrics, phase, local,
             slots, stats, kv_vars>>

MaxTokens == Max({s.prompt + s.max_new_tokens : s \in Shapes})

KV == INSTANCE KVBlockManager

SlotIndices == 1 .. MaxSlots

Counters == {"admitted_count", "tokens_generated", "early_finishes",
             "kv_allocation_failures", "kv_oom_evictions"}

Count(counters) ==
  stats' = [c \in Counters |-> IF c \in counters THEN stats[c] + 1 ELSE stats[c]]

Unborn == [NewRequestState(0, 0) EXCEPT !.status = "new", !.times = << >>]

Status(r) == request_state[r].status

InSlot == {slots[i] : i \in SlotIndices} \ {NoRequest}

OccupiedSlots ==
  InOrder([i \in SlotIndices |-> i], {i \in SlotIndices : slots[i] # NoRequest})

OccupiedSlotCount == Cardinality({i \in SlotIndices : slots[i] # NoRequest})

HasFreeSlot == OccupiedSlotCount < MaxSlots

FirstFreeSlotIndex == SelectInSeq(slots, LAMBDA x : x = NoRequest)

Idle == [occupied |-> << >>, position |-> 1, decoded_any |-> FALSE, stalled |-> << >>]

Set(r, q) == request_state' = [request_state EXCEPT ![r] = q]

Goto(next_phase) == phase' = next_phase /\ UNCHANGED local

-----------------------------------------------------------------------------

Submit(r) ==
  /\ Status(r) = "new"
  /\ \E s \in Shapes : Set(r, NewRequestState(s.prompt, s.max_new_tokens))
  /\ request_queue' = Append(request_queue, r)
  /\ UNCHANGED <<waiting, finished, metrics, phase, local, slots, stats, kv_vars>>

BeginStep ==
  /\ phase = "idle"
  /\ Goto("drain")
  /\ UNCHANGED <<request_state, request_queue, waiting, finished, metrics, slots, stats,
                 kv_vars>>

Drain ==
  /\ phase = "drain"
  /\ IF request_queue = << >>
     THEN Goto("admit") /\ UNCHANGED <<request_state, request_queue, waiting>>
     ELSE LET r == Head(request_queue)
          IN  /\ Set(r, [request_state[r] EXCEPT !.status = "waiting"])
              /\ request_queue' = Tail(request_queue)
              /\ waiting' = Append(waiting, r)
              /\ UNCHANGED <<phase, local>>
  /\ UNCHANGED <<finished, metrics, slots, stats, kv_vars>>

-----------------------------------------------------------------------------
(* admit_waiting_requests: the head of the waiting list, while there is a   *)
(* free slot.                                                               *)

Admitting(r) ==
  /\ phase = "admit" /\ HasFreeSlot
  /\ waiting # << >> /\ r = Head(waiting)

(* The reservation that is checked ... *)
Fits(r) ==
  KV!CanAllocateTokens(CountPromptTokens(request_state[r]) + request_state[r].max_new_tokens)

(* ... and the one that is made: for request_state.prompt_tokens, which is   *)
(* still 0, so that the request owns an empty table.                        *)
AdmitOne(r) ==
  /\ Admitting(r) /\ Fits(r)
  /\ KV!AllocateForTokens(r, request_state[r].prompt_tokens)
  /\ Set(r, [Prefilled(MarkAdmitted(request_state[r])) EXCEPT
               !.block_table = block_tables'[r],
               !.num_computed_tokens = request_state[r].prompt])
  /\ waiting' = Tail(waiting)
  /\ slots' = [slots EXCEPT ![FirstFreeSlotIndex] = r]
  /\ Count({"admitted_count"})
  /\ UNCHANGED <<request_queue, finished, metrics, phase, local>>

(* Wrong variant (used by no specification): to the end of the list. *)
DeferToBack(r) ==
  /\ Admitting(r) /\ ~ Fits(r)
  /\ Set(r, MarkAdmitted(request_state[r]))
  /\ waiting' = Append(Tail(waiting), r)
  /\ Goto("decode")
  /\ UNCHANGED <<request_queue, finished, metrics, slots, stats, kv_vars>>

(* No room: back to the head, where it was, in status prefill; nobody else   *)
(* is admitted in this step.                                                *)
Defer(r) ==
  /\ Admitting(r) /\ ~ Fits(r)
  /\ Set(r, MarkAdmitted(request_state[r]))
  /\ Goto("decode")
  /\ UNCHANGED <<request_queue, waiting, finished, metrics, slots, stats, kv_vars>>

RecordEnd(r, q) ==
  /\ Set(r, q)
  /\ finished' = Append(finished, r)
  /\ metrics' = Append(metrics, FinishedRecord(r, q))

(* A request ends outside a slot or in one: freed, closed and recorded. *)
EndRequest(r, q) == KV!Free(r) /\ RecordEnd(r, q)

(* Tokenizing raises, or the prefill does, after the tokens were counted    *)
(* and an empty table allocated, which is freed again.                      *)
FailAdmission(r) ==
  /\ Admitting(r)
  /\ RunnerMayFail
  /\ \E counted \in IF Fits(r) THEN {0, request_state[r].prompt} ELSE {0} :
       EndRequest(r, MarkFailed([MarkAdmitted(request_state[r]) EXCEPT
                             !.prompt_tokens = counted]))
  /\ waiting' = Tail(waiting)
  /\ UNCHANGED <<request_queue, phase, local, slots, stats>>

AdmitDone ==
  /\ phase = "admit"
  /\ waiting = << >> \/ ~ HasFreeSlot
  /\ Goto("decode")
  /\ UNCHANGED <<request_state, request_queue, waiting, finished, metrics, slots, stats,
                 kv_vars>>

-----------------------------------------------------------------------------
(* decode_active_requests.  The DecodeBatch it builds is instrumentation.    *)

BeginDecode ==
  /\ phase = "decode"
  /\ phase' = "decoding"
  /\ local' = [Idle EXCEPT !.occupied = OccupiedSlots]
  /\ UNCHANGED <<request_state, request_queue, waiting, finished, metrics, slots, stats,
                 kv_vars>>

(* The slot and the request the for loop is at. *)
Slot == local.occupied[local.position]

At(r) ==
  /\ phase = "decoding" /\ local.position <= Len(local.occupied)
  /\ r = slots[Slot]

TokenPosition(r) == request_state[r].prompt_tokens + request_state[r].generated_tokens

(* KVBlockAllocationError: r keeps what was appended, and is left out. *)
Stall(r) ==
  /\ At(r)
  /\ ~ KV!CapacityAvailable(r, TokenPosition(r))
  /\ KV!EnsureCapacityForToken(r, TokenPosition(r))
  /\ Count({"kv_allocation_failures"})
  /\ local' = [local EXCEPT !.position = @ + 1, !.stalled = Append(@, Slot)]
  /\ UNCHANGED <<request_state, request_queue, waiting, finished, metrics, phase, slots>>

(* After the call the scheduler counts the token as well. *)
Counted(q) ==
  LET generated == q.generated_tokens + 1
  IN  [q EXCEPT !.generated_tokens = generated,
                !.num_computed_tokens = q.prompt_tokens + generated]

Decode(r) ==
  /\ At(r)
  /\ KV!CapacityAvailable(r, TokenPosition(r))
  /\ KV!EnsureCapacityForToken(r, TokenPosition(r))
  /\ \E text \in TextsOf(request_state[r]) :
       LET emitted == Emitted([request_state[r] EXCEPT !.block_table = block_tables'[r]])
           q == Counted(Streamed(emitted, text))
       IN  /\ Set(r, q)
           /\ IF IsFinished(q)
              THEN phase' = "finish" /\ local' = [local EXCEPT !.decoded_any = TRUE]
              ELSE /\ local' = [local EXCEPT !.decoded_any = TRUE, !.position = @ + 1]
                   /\ UNCHANGED phase
  /\ Count({"tokens_generated"})
  /\ UNCHANGED <<request_queue, waiting, finished, metrics, slots>>

Finish(r) ==
  /\ phase = "finish" /\ r = slots[Slot]
  /\ EndRequest(r, MarkFinished(request_state[r]))
  /\ slots' = [slots EXCEPT ![Slot] = NoRequest]
  /\ Count({"early_finishes"})
  /\ phase' = "decoding"
  /\ local' = [local EXCEPT !.position = @ + 1]
  /\ UNCHANGED <<request_queue, waiting>>

(* decode_one_token raises: also the blocks just appended are freed. *)
FailDecode(r) ==
  LET missing == KV!MissingBlocks(r, TokenPosition(r))
      table   == block_tables[r] \o KV!FirstFree(missing)
  IN  /\ At(r)
      /\ RunnerMayFail
      /\ KV!CapacityAvailable(r, TokenPosition(r))
      /\ free_blocks'  = KV!AfterPop(missing) \o table
      /\ block_tables' = [x \in KV!Owners \ {r} |-> block_tables[x]]
      /\ RecordEnd(r, MarkFailed([request_state[r] EXCEPT !.block_table = table]))
      /\ slots' = [slots EXCEPT ![Slot] = NoRequest]
      /\ local' = [local EXCEPT !.position = @ + 1]
      /\ UNCHANGED <<request_queue, waiting, phase, stats>>

AllDecoded == phase = "decoding" /\ local.position > Len(local.occupied)

(* record_history and the step counter are left out. *)
EndStep == phase' = "idle" /\ local' = Idle

(* Wrong variant (used by no specification): as soon as somebody stalled. *)
MustEvictEarly == local.stalled # << >>

MustEvict == ~ local.decoded_any /\ local.stalled # << >>

(* Wrong variant (used by no specification): the stream stays open.         *)
EvictSilently(r) ==
  /\ AllDecoded /\ MustEvict
  /\ r = slots[Last(local.stalled)]
  /\ EndRequest(r, [MarkFailed(request_state[r]) EXCEPT
                      !.output_queue = request_state[r].output_queue])
  /\ slots' = [slots EXCEPT ![Last(local.stalled)] = NoRequest]
  /\ Count({"kv_oom_evictions"})
  /\ EndStep
  /\ UNCHANGED <<request_queue, waiting>>

Evict(r) ==
  /\ AllDecoded /\ MustEvict
  /\ r = slots[Last(local.stalled)]
  /\ EndRequest(r, MarkFailed(request_state[r]))
  /\ slots' = [slots EXCEPT ![Last(local.stalled)] = NoRequest]
  /\ Count({"kv_oom_evictions"})
  /\ EndStep
  /\ UNCHANGED <<request_queue, waiting>>

DecodeDone ==
  /\ AllDecoded /\ ~ MustEvict
  /\ EndStep
  /\ UNCHANGED <<request_state, request_queue, waiting, finished, metrics, slots, stats,
                 kv_vars>>

-----------------------------------------------------------------------------

NothingInSlots ==
  /\ slots = [i \in SlotIndices |-> NoRequest]
  /\ stats = [c \in Counters |-> 0]

Init ==
  /\ request_state = [r \in Requests |-> Unborn]
  /\ request_queue = << >>
  /\ waiting  = << >>
  /\ finished = << >>
  /\ metrics  = << >>
  /\ phase = "idle"
  /\ local = Idle
  /\ NothingInSlots
  /\ KV!Init

Step ==
  \/ BeginStep \/ Drain \/ AdmitDone \/ BeginDecode \/ DecodeDone
  \/ \E r \in Requests :
       \/ AdmitOne(r) \/ Defer(r) \/ FailAdmission(r)
       \/ Stall(r) \/ Decode(r) \/ Finish(r) \/ FailDecode(r) \/ Evict(r)

Next == Step \/ \E r \in Requests : Submit(r)

Spec == Init /\ [][Next]_vars

(* The worker thread repeats its loop; nobody has to send anything. *)
FairSpec == Spec /\ WF_vars(Step)

-----------------------------------------------------------------------------
(* Properties *)

Ended == {"finished", "failed"}

TypeOK ==
  /\ \A r \in Requests :
       /\ Status(r) \in {"new", "waiting", "prefill", "decoding"} \cup Ended
       /\ request_state[r].block_table \in Seq(KV!Blocks)
       /\ request_state[r].output_queue \in Seq({Text, End})
  /\ {request_queue, waiting, finished} \subseteq Seq(Requests)
  /\ slots \in [SlotIndices -> Requests \cup {NoRequest}]
  /\ stats \in [Counters -> Nat]
  /\ KV!TypeOK
  /\ phase \in {"idle", "drain", "admit", "decode", "decoding", "finish"}
  /\ local.occupied \in Seq(SlotIndices) /\ local.stalled \in Seq(SlotIndices)

Occurrences(s, r) == Cardinality({i \in DOMAIN s : s[i] = r})

(* Every request is in one place, and exactly those in slots own a block    *)
(* table: an end by any of the four paths closes, records, frees and leaves *)
(* the slot, and none frees what another request still accounts for.        *)
OneHomeOneTable ==
  /\ \A r \in Requests :
       Occurrences(request_queue \o waiting, r) + Occurrences(slots, r)
         + Occurrences(finished, r) = (IF Status(r) = "new" THEN 0 ELSE 1)
  /\ \A r \in InSlot : Status(r) = "decoding"
  /\ \A r \in Range(finished) : Status(r) \in Ended
  /\ KV!Owners = InSlot

(* Tokens are counted twice, by the runner and by the scheduler: what was   *)
(* computed is half of generated_tokens, num_computed_tokens overstates the *)
(* runner's cache by it, the metrics and the scheduler's own counter differ *)
(* by the factor, and a request ends after half of its max_new_tokens,      *)
(* rounded up.                                                              *)
TokensCountedTwice ==
  /\ \A r \in Requests :
       LET q       == request_state[r]
           emitted == q.past_length - q.prompt_tokens
       IN  /\ Status(r) \in {"decoding", "finished"} =>
                /\ q.generated_tokens = 2 * emitted
                /\ q.num_computed_tokens = q.past_length + emitted
           /\ Status(r) = "finished" => emitted = (q.max_new_tokens + 1) \div 2
  /\ MetricsSnapshot(metrics).total_generated_tokens <= 2 * stats.tokens_generated

(* "Per-request generated token accounting matches the requested generation *)
(* length" (docs/runtime/continuous_scheduler_validation.md:13): a finished *)
(* request was given as many tokens as it asked for, by its own count and   *)
(* in the cache of the runner that computed them.                           *)
AccountingMatchesLength ==
  \A r \in Requests :
    LET q == request_state[r]
    IN  Status(r) = "finished" =>
          /\ q.generated_tokens = q.max_new_tokens
          /\ q.past_length = q.prompt_tokens + q.max_new_tokens

(* The metrics store gets durations that make sense, also of requests that  *)
(* were deferred, evicted or failed before their first token.               *)
MetricsMeaningful == DurationsMeaningful(metrics)

(* The requests that were not admitted yet, oldest first. *)
Line == waiting \o request_queue

(* Nobody is overtaken: the line only loses its head and grows at its end,  *)
(* also when a request was taken off it, found too large, and put back.     *)
NoOvertaking ==
  [][Line' \in {Line, SubSeq(Line, 2, Len(Line))} \/ \E r \in Requests : Line' = Append(Line, r)]_vars

(* Somebody is evicted only when nobody in a slot could be given room for   *)
(* its next token and no slot of the pass was just vacated. (When the       *)
(* runner raised in the same pass, the memory it set free does not save the *)
(* victim.)                                                                 *)
EvictionNeeded ==
  [][stats'.kv_oom_evictions > stats.kv_oom_evictions =>
       \/ /\ OccupiedSlotCount > 1
          /\ \A r \in InSlot : ~ KV!CapacityAvailable(r, TokenPosition(r))
       \/ \E i \in Range(local.occupied) : slots[i] = NoRequest]_vars

Stage(r) ==
  CASE Status(r) = "new"                     -> "absent"
    [] Status(r) \in Ended                   -> Status(r)
    [] r \in InSlot                          -> "running"
    [] OTHER                                 -> "queued"

Contract == INSTANCE ServingContract
              WITH Limits <- {s.max_new_tokens : s \in Shapes},
                   stage  <- [r \in Requests |-> Stage(r)],
                   stream <- [r \in Requests |-> request_state[r].output_queue],
                   limit  <- [r \in Requests |-> request_state[r].max_new_tokens]

(* This scheduler, too, keeps the contract with the clients.                *)
ImplementsContract == Contract!Spec

=============================================================================
