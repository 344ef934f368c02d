--------------------------- MODULE EngineScheduler ---------------------------
(***************************************************************************)
(* runtime/engine_scheduler.py: the continuous scheduler.  One worker      *)
(* thread repeats step() under the scheduler's lock: drain the request     *)
(* queue, admit waiting requests to free slots, run budgeted prefill for   *)
(* the requests in slots, then decode one token for a batch of the         *)
(* requests whose prompt is computed.  Meanwhile HTTP threads put new      *)
(* requests on the queue.                                                  *)
(*                                                                         *)
(* One action is one iteration of a loop of step(), with everything the    *)
(* iteration calls; `phase` says which loop the worker is in and `local`   *)
(* holds that loop's local variables.  The block manager's state is        *)
(* changed through the operations of KVBlockManager.  The decode engine is *)
(* external: it computes the tokens it is asked for, ends a request at     *)
(* max_new_tokens or, at any token, at an end-of-sequence token, and may   *)
(* raise (EngineMayFail).                                                  *)
(*                                                                         *)
(* Definitions commented as wrong variants are used by no specification:   *)
(* put in place of the right ones, they show that the properties notice.   *)
(***************************************************************************)
EXTENDS Integers, SequencesExt, Selection

CONSTANTS
  Requests,               \* the requests clients may send (ids are unique)
  NoRequest,              \* an empty slot
  Shapes,                 \* the [prompt, max_new_tokens] a request may have, in tokens
  TotalBlocks,            \* total_blocks of the block manager
  BlockSize,              \* block_size_tokens of the block manager
  MaxSlots,               \* max_slots
  PrefillBudget,          \* max_scheduled_tokens_per_step, Unlimited for None
  DecodeLimit,            \* DecodeBudgetPolicy's max_decode_batch_size, Unlimited for FCFSPolicy
  EngineHasPrefillChunk,  \* does the engine define prefill_chunk?
  EngineMayFail,          \* may tokenizing, prefill and decode raise?
  Unlimited               \* no budget, no limit

ASSUME ShapesAssumption ==
  Shapes \subseteq [prompt : Nat \ {0}, max_new_tokens : Nat \ {0}]
ASSUME PoolAssumption == TotalBlocks \in Nat \ {0} /\ BlockSize \in Nat \ {0}
ASSUME MaxSlotsAssumption == MaxSlots \in Nat \ {0}
ASSUME BudgetAssumption ==
  /\ PrefillBudget \in Nat \cup {Unlimited}
  /\ DecodeLimit \in Nat \cup {Unlimited}
ASSUME EngineAssumption ==
  EngineHasPrefillChunk \in BOOLEAN /\ EngineMayFail \in BOOLEAN
ASSUME NoRequestAssumption == NoRequest \notin Requests

VARIABLES
  request_state,    \* the RequestState of each request
  request_queue,    \* RequestQueue: submitted, not yet drained
  waiting,          \* drained, not in a slot
  slots,            \* slot index -> request or NoRequest
  finished,         \* requests that ended, in the order they did
  metrics,          \* MetricsStore.finished_requests
  stats,            \* the scheduler's counters of admissions, tokens, stalls and ends
  free_blocks,      \* the block manager's deque
  block_tables,     \* the block manager's tables
  phase,            \* where in step() the worker is; "idle" when it has no lock
  local             \* the local variables of the loop it is in

kv_vars == <<free_blocks, block_tables>>
vars    == <<request_state, request_queue, waiting, slots, finished, metrics, stats,
             kv_vars, phase, local>>

MaxTokens == Max({s.prompt + s.max_new_tokens : s \in Shapes})

KV   == INSTANCE KVBlockManager
Plan == INSTANCE SchedulerWorkPlan

SlotIndices == 1 .. MaxSlots

(* late_admissions: admissions while others were in slots; early_finishes: *)
(* all finishes. decode_steps, engine_step and the history lists, which    *)
(* nothing but the snapshot reads, are left out.                           *)
Counters == {"admitted_count", "late_admissions", "tokens_generated", "early_finishes",
             "decode_stalls", "kv_allocation_failures", "kv_oom_evictions"}

-----------------------------------------------------------------------------
(* State helpers *)

Text == "text"
End  == "end"   \* the None that closes an output queue

(* A RequestState as its dataclass creates it. `prompt` is what the tokenizer *)
(* makes of the text, known to the runtime once prompt_tokens is set.         *)
NewRequestState(prompt, max_new_tokens) ==
  [status |-> "waiting", prompt |-> prompt, max_new_tokens |-> max_new_tokens,
   prompt_tokens |-> 0, num_computed_tokens |-> 0, generated_tokens |-> 0,
   block_table |-> << >>, output_queue |-> << >>]

(* Before it is submitted. *)
Unborn == [NewRequestState(0, 0) EXCEPT !.status = "new"]

Status(r) == request_state[r].status

PrefillTokensRemaining(r) ==
  LET left == request_state[r].prompt_tokens - request_state[r].num_computed_tokens
  IN  IF left > 0 THEN left ELSE 0

InSlot == {slots[i] : i \in SlotIndices} \ {NoRequest}

OccupiedSlotCount == Cardinality({i \in SlotIndices : slots[i] # NoRequest})

HasFreeSlot == OccupiedSlotCount < MaxSlots

FirstFreeSlotIndex == SelectInSeq(slots, LAMBDA x : x = NoRequest)

(* The requests in slots, in slot order. *)
ActiveRequestStates == InOrder(slots, {r \in Requests : Status(r) # "finished"})

DecodeReadyRequestStates ==
  InOrder(ActiveRequestStates,
          {r \in Requests : Status(r) = "decoding" /\ PrefillTokensRemaining(r) = 0})

PrefillActiveRequestStates ==
  InOrder(ActiveRequestStates,
          {r \in Requests : Status(r) = "prefill" /\ PrefillTokensRemaining(r) > 0})

(* slots with the first slot that holds r emptied. *)
WithoutSlotOf(r) ==
  LET index == SelectInSeq(slots, LAMBDA x : x = r)
  IN  IF index = 0 THEN slots ELSE [slots EXCEPT ![index] = NoRequest]

(* Wrong variants: only the oldest waiting request is considered; the newest *)
(* as many as there are free slots are.                                      *)
SelectOldest == SubSeq(waiting, 1, 1)

SelectNewest ==
  SubSeq(waiting, 1 + Max({0, Len(waiting) - (MaxSlots - OccupiedSlotCount)}), Len(waiting))

(* Both policies admit in waiting order, as many as there are free slots. *)
SelectAdmissions ==
  SubSeq(waiting, 1,
         IF MaxSlots - OccupiedSlotCount <= Len(waiting)
         THEN MaxSlots - OccupiedSlotCount ELSE Len(waiting))

(* FCFSPolicy runs all of them, DecodeBudgetPolicy the first in slot order. *)
SelectDecodeBatch(runnable) ==
  IF DecodeLimit = Unlimited \/ Len(runnable) <= DecodeLimit
  THEN runnable
  ELSE SubSeq(runnable, 1, DecodeLimit)

Idle == [selected |-> << >>, admitted_any |-> FALSE, work_plan |-> << >>,
         unchecked |-> << >>, runnable |-> << >>, stalled |-> << >>,
         decode_batch |-> << >>, outputs |-> << >>]

-----------------------------------------------------------------------------
(* Wrong variants: the blocks are not freed; the metrics are recorded before *)
(* the status changes.                                                       *)
EndRequestLeaks(r, status) ==
  /\ request_state' = [request_state EXCEPT ![r].status = status,
                                            ![r].output_queue = Append(@, End)]
  /\ finished' = Append(finished, r)
  /\ metrics'  = Append(metrics, [request_id |-> r, status |-> status])
  /\ slots'    = WithoutSlotOf(r)
  /\ UNCHANGED kv_vars

EndRequestRecordsEarly(r, status) ==
  /\ KV!Free(r)
  /\ request_state' = [request_state EXCEPT ![r].status = status,
                                            ![r].output_queue = Append(@, End)]
  /\ finished' = Append(finished, r)
  /\ metrics'  = Append(metrics, [request_id |-> r, status |-> Status(r)])
  /\ slots'    = WithoutSlotOf(r)

(* How a request ends: finish_request, fail_request, the eviction and the   *)
(* failed admission all free the blocks, close the stream, append to        *)
(* finished and to the metrics, and empty the slot.                         *)
EndRequest(r, status) ==
  /\ KV!Free(r)
  /\ request_state' = [request_state EXCEPT ![r].status = status,
                                            ![r].output_queue = Append(@, End)]
  /\ finished' = Append(finished, r)
  /\ metrics'  = Append(metrics, [request_id |-> r, status |-> status])
  /\ slots'    = WithoutSlotOf(r)

Goto(next_phase) == phase' = next_phase /\ UNCHANGED local

-----------------------------------------------------------------------------
(* Clients *)

(* generate_stream: a new RequestState goes on the external queue. *)
Submit(r) ==
  /\ Status(r) = "new"
  /\ \E s \in Shapes :
       request_state' = [request_state EXCEPT ![r] =
                           NewRequestState(s.prompt, s.max_new_tokens)]
  /\ request_queue' = Append(request_queue, r)
  /\ UNCHANGED <<waiting, slots, finished, metrics, stats, kv_vars, phase, local>>

-----------------------------------------------------------------------------
(* step(): drain_external_queue *)

BeginStep ==
  /\ phase = "idle"
  /\ Goto("drain")
  /\ UNCHANGED <<request_state, request_queue, waiting, slots, finished, metrics,
                 stats, kv_vars>>

DrainOne ==
  /\ phase = "drain"
  /\ request_queue # << >>
  /\ request_queue' = Tail(request_queue)
  /\ waiting' = Append(waiting, Head(request_queue))
  /\ request_state' = [request_state EXCEPT ![Head(request_queue)].status = "waiting"]
  /\ UNCHANGED <<slots, finished, metrics, stats, kv_vars, phase, local>>

DrainEmpty ==
  /\ phase = "drain"
  /\ request_queue = << >>
  /\ Goto("admit")
  /\ UNCHANGED <<request_state, request_queue, waiting, slots, finished, metrics,
                 stats, kv_vars>>

-----------------------------------------------------------------------------
(* step(): admit_waiting_requests *)

(* The head of the while loop: ask the policy, or leave the loop. *)
AdmitPass ==
  /\ phase = "admit"
  /\ IF waiting # << >> /\ HasFreeSlot
     THEN /\ phase' = "admitting"
          /\ local' = [local EXCEPT !.selected = SelectAdmissions, !.admitted_any = FALSE]
     ELSE Goto("plan_prefill")
  /\ UNCHANGED <<request_state, request_queue, waiting, slots, finished, metrics,
                 stats, kv_vars>>

(* The for loop is over: another pass if this one admitted somebody. *)
AdmitPassDone ==
  /\ phase = "admitting"
  /\ local.selected = << >>
  /\ Goto(IF local.admitted_any THEN "admit" ELSE "plan_prefill")
  /\ UNCHANGED <<request_state, request_queue, waiting, slots, finished, metrics,
                 stats, kv_vars>>

(* The request the for loop is at. The policy selects no more requests than  *)
(* there are free slots, so the loop's early returns are never taken.        *)
Candidate == Head(local.selected)

Admitting == phase = "admitting" /\ local.selected # << >>

(* Wrong variant: room for the prompt is enough. *)
PromptFitsNow(r) == KV!CanAllocateTokens(request_state[r].prompt)

(* reserve_kv_for_request checks for prompt + max_new_tokens ... *)
FitsNow(r) ==
  KV!CanAllocateTokens(request_state[r].prompt + request_state[r].max_new_tokens)

(* ... but allocates the blocks of the prompt only. *)
AdmitOne ==
  LET r == Candidate
  IN  /\ Admitting
      /\ FitsNow(r)
      /\ KV!AllocateForTokens(r, request_state[r].prompt)
      /\ request_state' = [request_state EXCEPT
                             ![r].status = "prefill",
                             ![r].block_table = block_tables'[r],
                             ![r].prompt_tokens = request_state[r].prompt]
      /\ waiting' = RemoveFirst(waiting, r)
      /\ slots' = [slots EXCEPT ![FirstFreeSlotIndex] = r]
      /\ stats' = [stats EXCEPT
                     !.admitted_count = @ + 1,
                     !.late_admissions = IF OccupiedSlotCount > 0 THEN @ + 1 ELSE @]
      /\ local' = [local EXCEPT !.selected = Tail(@), !.admitted_any = TRUE]
      /\ UNCHANGED <<request_queue, finished, metrics, phase>>

(* Wrong variant: put back without having been taken off. *)
DeferOneTwice ==
  LET r == Candidate
  IN  /\ Admitting
      /\ ~ FitsNow(r)
      /\ request_state' = [request_state EXCEPT ![r].status = "waiting"]
      /\ waiting' = <<r>> \o waiting
      /\ local' = [local EXCEPT !.selected = Tail(@)]
      /\ UNCHANGED <<request_queue, slots, finished, metrics, stats, kv_vars, phase>>

(* Not enough free blocks: back to the head of the waiting list. *)
DeferOne ==
  LET r == Candidate
  IN  /\ Admitting
      /\ ~ FitsNow(r)
      /\ request_state' = [request_state EXCEPT ![r].status = "waiting"]
      /\ waiting' = <<r>> \o RemoveFirst(waiting, r)
      /\ local' = [local EXCEPT !.selected = Tail(@)]
      /\ UNCHANGED <<request_queue, slots, finished, metrics, stats, kv_vars, phase>>

(* Wrong variant: the failed request stays on the waiting list. *)
FailAdmissionKeepsWaiting ==
  LET r == Candidate
  IN  /\ Admitting
      /\ EngineMayFail
      /\ EndRequest(r, "failed")
      /\ local' = [local EXCEPT !.selected = Tail(@)]
      /\ UNCHANGED <<request_queue, waiting, stats, phase>>

(* Counting the prompt's tokens raised: the request fails without a slot. *)
FailAdmission ==
  LET r == Candidate
  IN  /\ Admitting
      /\ EngineMayFail
      /\ EndRequest(r, "failed")
      /\ waiting' = RemoveFirst(waiting, r)
      /\ local' = [local EXCEPT !.selected = Tail(@)]
      /\ UNCHANGED <<request_queue, stats, phase>>
-----------------------------------------------------------------------------
(* step(): run_prefill_for_active_requests *)

PlanPrefill ==
  /\ phase = "plan_prefill"
  /\ phase' = "prefill"
  /\ local' = [local EXCEPT
                 !.work_plan = Plan!BuildPrefillWorkPlan(
                                 PrefillActiveRequestStates,
                                 [r \in Requests |-> PrefillTokensRemaining(r)],
                                 PrefillBudget)]
  /\ UNCHANGED <<request_state, request_queue, waiting, slots, finished, metrics,
                 stats, kv_vars>>

Prefilling == phase = "prefill" /\ local.work_plan # << >>

(* The engine's prefill_chunk: compute the next tokens of the prompt. *)
ChunkEnd(r, num_tokens) ==
  LET end == request_state[r].num_computed_tokens + num_tokens
  IN  IF end <= request_state[r].prompt_tokens THEN end ELSE request_state[r].prompt_tokens

(* A chunk runs; the last one makes the request ready for decode. *)
PrefillChunk ==
  LET work == Head(local.work_plan)
      r    == work.request_state
      end  == ChunkEnd(r, work.num_scheduled_tokens)
  IN  /\ Prefilling
      /\ EngineHasPrefillChunk
      /\ request_state' = [request_state EXCEPT
                             ![r].num_computed_tokens = end,
                             ![r].generated_tokens = 0,
                             ![r].status = IF end = request_state[r].prompt_tokens
                                           THEN "decoding" ELSE @]
      /\ local' = [local EXCEPT !.work_plan = Tail(@)]
      /\ UNCHANGED <<request_queue, waiting, slots, finished, metrics, stats,
                     kv_vars, phase>>

(* prefill_chunk raises, or does not exist: the request fails. *)
FailPrefill ==
  /\ Prefilling
  /\ EngineMayFail \/ ~ EngineHasPrefillChunk
  /\ EndRequest(Head(local.work_plan).request_state, "failed")
  /\ local' = [local EXCEPT !.work_plan = Tail(@)]
  /\ UNCHANGED <<request_queue, waiting, stats, phase>>

-----------------------------------------------------------------------------
(* step(): decode_active_requests *)

(* The end of a step: the lock is released. *)
EndStep == phase' = "idle" /\ local' = Idle

BeginDecode ==
  /\ phase = "prefill"
  /\ local.work_plan = << >>
  /\ IF DecodeReadyRequestStates = << >>
     THEN EndStep
     ELSE /\ phase' = "ensure"
          /\ local' = [local EXCEPT !.unchecked = DecodeReadyRequestStates]
  /\ UNCHANGED <<request_state, request_queue, waiting, slots, finished, metrics,
                 stats, kv_vars>>

(* build_runnable_decode_requests: room for the K/V of the next token? *)
TokenPosition(r) == request_state[r].prompt_tokens + request_state[r].generated_tokens

EnsureCapacity(r) ==
  /\ phase = "ensure"
  /\ local.unchecked # << >>
  /\ r = Head(local.unchecked)
  /\ KV!EnsureCapacityForToken(r, TokenPosition(r))

(* Wrong variant: the RequestState keeps the old copy of its table. *)
EnsureRunnableStale(r) ==
  /\ EnsureCapacity(r)
  /\ KV!CapacityAvailable(r, TokenPosition(r))
  /\ local' = [local EXCEPT !.unchecked = Tail(@), !.runnable = Append(@, r)]
  /\ UNCHANGED <<request_state, request_queue, waiting, slots, finished, metrics,
                 stats, phase>>

EnsureRunnable(r) ==
  /\ EnsureCapacity(r)
  /\ KV!CapacityAvailable(r, TokenPosition(r))
  /\ request_state' = [request_state EXCEPT ![r].block_table = block_tables'[r]]
  /\ local' = [local EXCEPT !.unchecked = Tail(@), !.runnable = Append(@, r)]
  /\ UNCHANGED <<request_queue, waiting, slots, finished, metrics, stats, phase>>

(* KVBlockAllocationError. What was appended stays with the request. *)
EnsureStalled(r) ==
  /\ EnsureCapacity(r)
  /\ ~ KV!CapacityAvailable(r, TokenPosition(r))
  /\ local' = [local EXCEPT !.unchecked = Tail(@), !.stalled = Append(@, r)]
  /\ stats' = [stats EXCEPT !.decode_stalls = @ + 1, !.kv_allocation_failures = @ + 1]
  /\ UNCHANGED <<request_state, request_queue, waiting, slots, finished, metrics, phase>>

AllChecked == phase = "ensure" /\ local.unchecked = << >>

(* evict_one_stalled_request: no decode-ready request can run. *)
EvictOneStalledRequest ==
  /\ AllChecked
  /\ local.runnable = << >>
  /\ EndRequest(Last(local.stalled), "failed")
  /\ stats' = [stats EXCEPT !.kv_oom_evictions = @ + 1]
  /\ EndStep
  /\ UNCHANGED <<request_queue, waiting>>

ChooseBatch ==
  /\ AllChecked
  /\ local.runnable # << >>
  /\ IF SelectDecodeBatch(local.runnable) = << >>
     THEN EndStep /\ stats' = [stats EXCEPT !.decode_stalls = @ + 1]
     ELSE /\ phase' = "run"
          /\ local' = [local EXCEPT !.decode_batch = SelectDecodeBatch(local.runnable)]
          /\ UNCHANGED stats
  /\ UNCHANGED <<request_state, request_queue, waiting, slots, finished, metrics, kv_vars>>

(* Wrong variant: one token too many. *)
EndsOneLate(r, eos) ==
  r \in eos \/ request_state[r].generated_tokens + 1 > request_state[r].max_new_tokens

(* Is the token decode_step generates for r its last? *)
Ends(r, eos) ==
  r \in eos \/ request_state[r].generated_tokens + 1 >= request_state[r].max_new_tokens

(* The engine's decode_step generates a token for every request of the      *)
(* batch; those in eos end the sequence, those in silent decode to no text, *)
(* as an end-of-sequence token does.                                        *)
RunDecodeBatch ==
  LET batch == local.decode_batch
  IN  /\ phase = "run"
      /\ \E silent \in SUBSET Range(batch) : \E eos \in SUBSET silent :
           local' = [local EXCEPT !.outputs =
                       [i \in 1 .. Len(batch) |->
                          [request_id |-> batch[i],
                           text |-> batch[i] \notin silent,
                           finished |-> Ends(batch[i], eos)]]]
      /\ request_state' = [r \in Requests |->
                             IF r \in Range(batch)
                             THEN [request_state[r] EXCEPT !.generated_tokens = @ + 1]
                             ELSE request_state[r]]
      /\ phase' = "apply"
      /\ UNCHANGED <<request_queue, waiting, slots, finished, metrics, stats, kv_vars>>

(* decode_step raises after counting the token of the first k requests:     *)
(* every request of the batch is to fail.                                   *)
FailDecodeBatch ==
  /\ phase = "run"
  /\ EngineMayFail
  /\ \E k \in 0 .. Len(local.decode_batch) :
       request_state' =
         [r \in Requests |->
            IF \E i \in 1 .. k : local.decode_batch[i] = r
            THEN [request_state[r] EXCEPT !.generated_tokens = @ + 1]
            ELSE request_state[r]]
  /\ phase' = "fail"
  /\ UNCHANGED <<request_queue, waiting, slots, finished, metrics, stats, kv_vars, local>>

(* Wrong variant: num_computed_tokens is left to the engine. *)
WithOutputUncounted(state, output) ==
  [state EXCEPT !.output_queue = IF output.text THEN Append(@, Text) ELSE @]

(* The RequestState after an output: its text streamed, its token computed. *)
WithOutput(state, output) ==
  [state EXCEPT !.output_queue = IF output.text THEN Append(@, Text) ELSE @,
                !.num_computed_tokens = state.prompt_tokens + state.generated_tokens]

(* apply_decode_output, for one output. *)
ApplyOutput ==
  LET output == Head(local.outputs)
      r == output.request_id
  IN  /\ phase = "apply"
      /\ local.outputs # << >>
      /\ request_state' = [request_state EXCEPT ![r] = WithOutput(@, output)]
      /\ IF output.finished
         THEN Goto("finish")
         ELSE phase' = "apply" /\ local' = [local EXCEPT !.outputs = Tail(@)]
      /\ stats' = [stats EXCEPT !.tokens_generated = @ + 1]
      /\ UNCHANGED <<request_queue, waiting, slots, finished, metrics, kv_vars>>

(* finish_request *)
FinishRequest ==
  /\ phase = "finish"
  /\ EndRequest(Head(local.outputs).request_id, "finished")
  /\ stats' = [stats EXCEPT !.early_finishes = @ + 1]
  /\ local' = [local EXCEPT !.outputs = Tail(@)]
  /\ phase' = "apply"
  /\ UNCHANGED <<request_queue, waiting>>

AllApplied ==
  /\ phase = "apply"
  /\ local.outputs = << >>
  /\ EndStep
  /\ UNCHANGED <<request_state, request_queue, waiting, slots, finished, metrics,
                 stats, kv_vars>>

(* Wrong variant: the loop does not advance. *)
FailOneOfBatchAgain ==
  /\ phase = "fail"
  /\ local.decode_batch # << >>
  /\ EndRequest(Head(local.decode_batch), "failed")
  /\ UNCHANGED <<request_queue, waiting, stats, phase, local>>

(* fail_request, for one request of a batch whose decode raised. *)
FailOneOfBatch ==
  /\ phase = "fail"
  /\ local.decode_batch # << >>
  /\ EndRequest(Head(local.decode_batch), "failed")
  /\ local' = [local EXCEPT !.decode_batch = Tail(@)]
  /\ UNCHANGED <<request_queue, waiting, stats, phase>>

AllFailed ==
  /\ phase = "fail"
  /\ local.decode_batch = << >>
  /\ EndStep
  /\ UNCHANGED <<request_state, request_queue, waiting, slots, finished, metrics,
                 stats, kv_vars>>

-----------------------------------------------------------------------------

Init ==
  /\ request_state = [r \in Requests |-> Unborn]
  /\ request_queue = << >>
  /\ waiting  = << >>
  /\ slots    = [i \in SlotIndices |-> NoRequest]
  /\ finished = << >>
  /\ metrics  = << >>
  /\ stats    = [c \in Counters |-> 0]
  /\ KV!Init
  /\ phase = "idle"
  /\ local = Idle

(* The parts of step() in which the engine computes K/V, and the others. *)
EngineStep == PrefillChunk \/ FailPrefill \/ RunDecodeBatch \/ FailDecodeBatch

StepWithoutEngine ==
  \/ BeginStep \/ DrainOne \/ DrainEmpty
  \/ AdmitPass \/ AdmitOne \/ DeferOne \/ FailAdmission \/ AdmitPassDone
  \/ PlanPrefill \/ BeginDecode
  \/ \E r \in Requests : EnsureRunnable(r) \/ EnsureStalled(r)
  \/ EvictOneStalledRequest \/ ChooseBatch
  \/ ApplyOutput \/ FinishRequest \/ AllApplied
  \/ FailOneOfBatch \/ AllFailed

Step == EngineStep \/ StepWithoutEngine

Next == Step \/ \E r \in Requests : Submit(r)

Spec == Init /\ [][Next]_vars

(* The worker thread keeps running its loop; no client has to send anything. *)
FairSpec == Spec /\ WF_vars(Step)
-----------------------------------------------------------------------------
(* Properties *)

Statuses == {"new", "waiting", "prefill", "decoding", "finished", "failed"}
Ended    == {"finished", "failed"}

Phases == {"idle", "drain", "admit", "admitting", "plan_prefill", "prefill",
           "ensure", "run", "apply", "finish", "fail"}

TypeOK ==
  /\ request_state \in [Requests ->
        [status : Statuses, prompt : Nat, max_new_tokens : Nat,
         prompt_tokens : Nat, num_computed_tokens : Nat, generated_tokens : Nat,
         block_table : Seq(KV!Blocks), output_queue : Seq({Text, End})]]
  /\ request_queue \in Seq(Requests)
  /\ waiting \in Seq(Requests)
  /\ slots \in [SlotIndices -> Requests \cup {NoRequest}]
  /\ finished \in Seq(Requests)
  /\ metrics \in Seq([request_id : Requests, status : Ended])
  /\ stats \in [Counters -> Nat]
  /\ KV!TypeOK
  /\ phase \in Phases
  /\ local.selected \in Seq(Requests)
  /\ local.admitted_any \in BOOLEAN
  /\ local.work_plan \in Seq([request_state : Requests, num_scheduled_tokens : Nat,
                              kind : {"prefill"}])
  /\ local.unchecked \in Seq(Requests)
  /\ local.runnable \in Seq(Requests)
  /\ local.stalled \in Seq(Requests)
  /\ local.decode_batch \in Seq(Requests)
  /\ local.outputs \in Seq([request_id : Requests, text : BOOLEAN, finished : BOOLEAN])

Occurrences(s, r) == Cardinality({i \in DOMAIN s : s[i] = r})

(* No request is lost, duplicated or in two places: it is exactly once on   *)
(* the queue or the waiting list, in one slot, or on the finished list, as  *)
(* its status says. The lists are edited by five different paths (drain,    *)
(* admit, defer to the front, finish, fail), some of them in mid-loop.      *)
OneHomePerRequest ==
  \A r \in Requests :
    LET places == <<Occurrences(request_queue, r) + Occurrences(waiting, r),
                    Occurrences(slots, r),
                    Occurrences(finished, r)>>
    IN  places = CASE Status(r) = "new"                     -> <<0, 0, 0>>
                   [] Status(r) = "waiting"                 -> <<1, 0, 0>>
                   [] Status(r) \in {"prefill", "decoding"} -> <<0, 1, 0>>
                   [] Status(r) \in Ended                   -> <<0, 0, 1>>

(* Exactly the requests in slots own block tables. A request that ended and *)
(* kept its table would leak its blocks for ever; one in a slot without a   *)
(* table makes ensure_capacity_for_token raise KeyError, which nobody       *)
(* catches: the worker thread would die.                                    *)
SlotsOwnTables == KV!Owners = InSlot

(* A request in a slot owns room for every token it has, and never more     *)
(* blocks than the admission check counted for it, although that check does *)
(* not reserve them.                                                        *)
TablesCoverTokens ==
  \A r \in InSlot :
    /\ KV!BlocksNeeded(TokenPosition(r)) <= Len(block_tables[r])
    /\ Len(block_tables[r]) <=
         KV!BlocksNeeded(request_state[r].prompt_tokens + request_state[r].max_new_tokens)

(* The copy of the block table the engine works with, made earlier and kept *)
(* on the RequestState, is a prefix of the manager's table; when a batch is *)
(* decoded it is the whole table and has room for the position the batch    *)
(* writes. A stale copy would make the engine write into another request's  *)
(* blocks.                                                                  *)
BlockTableCopiesValid ==
  /\ \A r \in InSlot : IsPrefix(request_state[r].block_table, block_tables[r])
  /\ phase = "run" =>
       \A r \in Range(local.decode_batch) :
         /\ request_state[r].block_table = block_tables[r]
         /\ KV!MissingBlocks(r, TokenPosition(r)) = 0

(* num_computed_tokens, written by the engine in prefill and by the         *)
(* scheduler in decode, agrees with the status: a request in prefill has    *)
(* prompt tokens to go and streamed nothing; between steps a decoding one   *)
(* has computed its prompt and all its tokens, and has tokens to go.        *)
ComputedTokensAgree ==
  \A r \in InSlot :
    LET q == request_state[r]
    IN  /\ Status(r) = "prefill" =>
             /\ q.generated_tokens = 0
             /\ q.num_computed_tokens < q.prompt_tokens
             /\ q.output_queue = << >>
        /\ Status(r) = "decoding" =>
             q.num_computed_tokens >= q.prompt_tokens
        /\ Status(r) = "decoding" /\ phase = "idle" =>
             /\ q.num_computed_tokens = TokenPosition(r)
             /\ q.generated_tokens < q.max_new_tokens

Submitted == {r \in Requests : Status(r) # "new"}

TokensCounted ==
  SumFunctionOnSet([r \in Requests |-> request_state[r].generated_tokens], Submitted)

(* The tokens of a request whose outputs the scheduler applied.             *)
TokensApplied(r) ==
  LET q == request_state[r]
  IN  IF q.num_computed_tokens > q.prompt_tokens
      THEN q.num_computed_tokens - q.prompt_tokens ELSE 0

(* Tokens are counted three times, by the engine and twice by the scheduler *)
(* (in the request and for /health), and a batch that raises comes between: *)
(* /health has exactly the tokens that were applied, and the engine is at   *)
(* most one ahead, between steps only for a request that failed.            *)
TokenCountsAgree ==
  /\ stats.tokens_generated
       = SumFunctionOnSet([r \in Requests |-> TokensApplied(r)], Submitted)
  /\ \A r \in Requests :
       LET ahead == request_state[r].generated_tokens - TokensApplied(r)
       IN  /\ ahead \in {0, 1}
           /\ phase = "idle" /\ ahead = 1 => Status(r) = "failed"

(* The counters of /health and the metrics add up with the requests: each   *)
(* ended request was recorded once, with the status it has; every admission *)
(* is a request still in a slot, an early finish, or a failure; and tokens  *)
(* are counted alike, TokenCountsAgree.                                     *)
CountersBalance ==
  LET failedInSlot == {r \in Requests : Status(r) = "failed" /\ request_state[r].prompt_tokens > 0}
  IN  /\ TokenCountsAgree
      /\ stats.kv_oom_evictions <= stats.kv_allocation_failures
      /\ stats.kv_allocation_failures <= stats.decode_stalls
      /\ metrics = [i \in 1 .. Len(finished) |->
                      [request_id |-> finished[i], status |-> Status(finished[i])]]
      /\ stats.admitted_count
           = OccupiedSlotCount + stats.early_finishes + Cardinality(failedInSlot)
      /\ stats.early_finishes = Cardinality({r \in Requests : Status(r) = "finished"})
      /\ stats.kv_oom_evictions <= Cardinality(failedInSlot)

IsAheadOf(line, r, other) ==
  \E i, j \in DOMAIN line : i < j /\ line[i] = r /\ line[j] = other

(* A request is passed by one behind it, in line or on the way to a slot,   *)
(* only while the pool has no room for it. (Requests that are deferred in   *)
(* one pass of the loop change places, as each goes back to the very front; *)
(* what is asked here is that this costs nobody a slot he could have had.)  *)
NobodyWhoFitsIsPassed ==
  [][\A r, other \in Requests :
       /\ IsAheadOf(waiting, r, other)
       /\ \/ IsAheadOf(waiting', other, r)
          \/ other \in Range(slots') /\ other \notin Range(slots)
       => ~ FitsNow(r)]_vars

Evicting == stats'.kv_oom_evictions > stats.kv_oom_evictions

(* Overcommitting the pool can cost a request its life only when it shares  *)
(* the pool: a request alone in the slots is never evicted, as its own      *)
(* admission check covered prompt and output. And an eviction always frees  *)
(* memory for the others.                                                   *)
EvictionHelpsOthers ==
  [][Evicting => /\ OccupiedSlotCount > 1
                 /\ Len(free_blocks') > Len(free_blocks)]_vars

(* As the error message of the eviction has it ("evicted to break           *)
(* decode-time memory deadlock"): only when no active request can go on.    *)
EvictionBreaksDeadlock ==
  [][Evicting => InSlot \subseteq Range(local.stalled)]_vars

(* What the smoke tests assert of the server's backends: a request that     *)
(* ends has finished.                                                       *)
EndedRequestsFinished ==
  \A r \in Range(finished) : Status(r) = "finished"

Stage(r) ==
  CASE Status(r) = "new"                     -> "absent"
    [] Status(r) = "waiting"                 -> "queued"
    [] Status(r) \in {"prefill", "decoding"} -> "running"
    [] Status(r) \in Ended                   -> Status(r)

Contract == INSTANCE ServingContract
              WITH Limits <- {s.max_new_tokens : s \in Shapes},
                   stage  <- [r \in Requests |-> Stage(r)],
                   stream <- [r \in Requests |-> request_state[r].output_queue],
                   limit  <- [r \in Requests |-> request_state[r].max_new_tokens]

(* The scheduler keeps the contract with the clients: see ServingContract.  *)
ImplementsContract == Contract!Spec

(* r can be served by the pool at all. *)
Fits(r) ==
  KV!BlocksNeeded(request_state[r].prompt + request_state[r].max_new_tokens) <= TotalBlocks

(* Every request the pool can hold ends, as long as fewer requests that can *)
(* never be held were sent than there are slots. Those wait for ever at the *)
(* front of the waiting list, each taking one of the places the policy      *)
(* selects; as many of them as slots would shut everybody else out.         *)
FittingRequestsEnd ==
  [](Cardinality({r \in Requests : ~ Fits(r)}) < MaxSlots) =>
    \A r \in Requests :
      (Status(r) = "waiting" /\ Fits(r)) ~> Status(r) \in Ended

=============================================================================
