--------------------------- MODULE StaticScheduler ---------------------------
(***************************************************************************)
(* legacy/scheduler.py: the first scheduler.  It takes a batch of waiting  *)
(* requests, prefills them together and decodes the batch as a whole, the  *)
(* finished rows included, until every request of it has ended; only then  *)
(* is the next batch taken.  With it, runtime/batch_metrics.py and the     *)
(* batched calls of engines/model_runner.py.                               *)
(*                                                                         *)
(* An action is one iteration of a loop of step(); `local` holds the       *)
(* iteration's local variables.                                            *)
(***************************************************************************)
EXTENDS ModelRunner

CONSTANTS
  Requests,        \* the requests clients may send
  Shapes,          \* the [prompt, max_new_tokens] a request may have, in tokens
  MaxBatchSize,    \* max_batch_size
  RunnerMayFail    \* may the prefill and the decode of a batch raise?

VARIABLES
  request_state,    \* the RequestState of each request
  request_queue,    \* RequestQueue: submitted, not yet drained
  waiting,          \* drained, not in a batch
  finished,         \* requests that ended, as often as they were recorded
  metrics,          \* MetricsStore.finished_requests
  phase,            \* where in step() the worker is
  local,            \* the local variables of the loop it is in
  active,           \* the batch that is decoded
  batch_state,      \* the model's tensors for it
  batch_metrics,    \* current_batch_metrics
  completed         \* completed_batch_metrics and completed_batch_sizes

vars == <<request_state, request_queue, waiting, finished, metrics, phase, local,
          active, batch_state, batch_metrics, completed>>

batch_vars == <<active, batch_state, batch_metrics, completed>>

Unborn == [NewRequestState(0, 0) EXCEPT !.status = "new", !.times = << >>]

Status(r) == request_state[r].status

Set(r, q) == request_state' = [request_state EXCEPT ![r] = q]

NoMetrics == [status |-> "none", batch_size |-> 0, decode_steps |-> 0,
              tokens_generated |-> 0]

NewBatchMetrics(batch_size) ==
  [NoMetrics EXCEPT !.status = "running", !.batch_size = batch_size]

Idle == [batch |-> << >>, texts |-> << >>, position |-> 1, tokens |-> 0]

Goto(next_phase) == phase' = next_phase /\ UNCHANGED local

(* Enter a loop over `batch` or over the rows of `active`. *)
Enter(loop, batch) == phase' = loop /\ local' = [Idle EXCEPT !.batch = batch]

NextPosition == local' = [local EXCEPT !.position = @ + 1]

-----------------------------------------------------------------------------

Submit(r) ==
  /\ Status(r) = "new"
  /\ \E s \in Shapes : Set(r, NewRequestState(s.prompt, s.max_new_tokens))
  /\ request_queue' = Append(request_queue, r)
  /\ UNCHANGED <<waiting, finished, metrics, phase, local, batch_vars>>

BeginStep ==
  /\ phase = "idle"
  /\ Goto("drain")
  /\ UNCHANGED <<request_state, request_queue, waiting, finished, metrics, batch_vars>>

(* drain_external_queue, at the start of a step and again after waiting     *)
(* batch_wait_seconds for a batch to fill up.                               *)
Drain ==
  /\ phase \in {"drain", "drain_again"}
  /\ IF request_queue = << >>
     THEN /\ IF phase = "drain" THEN Goto("admit") ELSE Enter("form", << >>)
          /\ UNCHANGED <<request_state, request_queue, waiting>>
     ELSE LET r == Head(request_queue)
          IN  /\ Set(r, [request_state[r] EXCEPT !.status = "waiting"])
              /\ request_queue' = Tail(request_queue)
              /\ waiting' = Append(waiting, r)
              /\ UNCHANGED <<phase, local>>
  /\ UNCHANGED <<finished, metrics, batch_vars>>

-----------------------------------------------------------------------------
(* admit_waiting_requests *)

(* Wrong variant (used by no specification): waits until a batch is full.   *)
AdmitOnlyFull ==
  /\ phase = "admit"
  /\ IF active # << >> \/ Len(waiting) < MaxBatchSize THEN Goto("decode") ELSE Enter("form", << >>)
  /\ UNCHANGED <<request_state, request_queue, waiting, finished, metrics, batch_vars>>

Admit ==
  /\ phase = "admit"
  /\ CASE active # << >> \/ waiting = << >> -> Goto("decode")
       [] Len(waiting) < MaxBatchSize /\ active = << >> /\ waiting # << >> -> Goto("drain_again")
       [] OTHER -> Enter("form", << >>)
  /\ UNCHANGED <<request_state, request_queue, waiting, finished, metrics, batch_vars>>

MoreForBatch == waiting # << >> /\ Len(local.batch) < MaxBatchSize

FormBatch ==
  /\ phase = "form" /\ MoreForBatch
  /\ Set(Head(waiting), MarkAdmitted(request_state[Head(waiting)]))
  /\ waiting' = Tail(waiting)
  /\ local' = [local EXCEPT !.batch = Append(@, Head(waiting))]
  /\ UNCHANGED <<request_queue, finished, metrics, phase, batch_vars>>

PrefillReady == phase = "form" /\ ~ MoreForBatch

Prefill ==
  /\ PrefillReady
  /\ request_state' =
       [r \in Requests |-> IF r \in Range(local.batch)
                           THEN InBatchPrefilled(request_state[r]) ELSE request_state[r]]
  /\ batch_state' =
       BatchPrefilled([i \in DOMAIN local.batch |-> request_state[local.batch[i]]])
  /\ batch_metrics' = NewBatchMetrics(Len(local.batch))
  /\ active' = local.batch
  /\ Enter("decode", << >>)
  /\ UNCHANGED <<request_queue, waiting, finished, metrics, completed>>

(* current_batch_metrics.mark_... and to_dict, when there is one. *)
WithMetrics(status) ==
  IF batch_metrics = NoMetrics THEN completed.metrics
  ELSE Append(completed.metrics, [batch_metrics EXCEPT !.status = status])

Record(r, q) ==
  /\ finished' = Append(finished, r)
  /\ metrics' = Append(metrics, FinishedRecord(r, q))

(* The prefill raised. The metrics made for this batch are not the current  *)
(* ones yet, and are lost.                                                  *)
FailPrefill ==
  /\ PrefillReady
  /\ RunnerMayFail
  /\ completed' = [completed EXCEPT !.metrics = WithMetrics("failed")]
  /\ batch_metrics' = NoMetrics
  /\ batch_state' = NoBatch
  /\ active' = << >>
  /\ Enter("fail_batch", local.batch)
  /\ UNCHANGED <<request_state, request_queue, waiting, finished, metrics>>

FailOneOfBatch ==
  /\ phase = "fail_batch" /\ local.position <= Len(local.batch)
  /\ LET r == local.batch[local.position]
         q == MarkFailed(request_state[r])
     IN  Set(r, q) /\ Record(r, q)
  /\ NextPosition
  /\ UNCHANGED <<request_queue, waiting, phase, batch_vars>>

BatchFailed ==
  /\ phase = "fail_batch" /\ local.position > Len(local.batch)
  /\ Enter("decode", << >>)
  /\ UNCHANGED <<request_state, request_queue, waiting, finished, metrics, batch_vars>>

-----------------------------------------------------------------------------
(* decode_active_requests *)

NothingToDecode ==
  /\ phase = "decode"
  /\ active = << >> \/ batch_state = NoBatch
  /\ Goto("remove")
  /\ UNCHANGED <<request_state, request_queue, waiting, finished, metrics, batch_vars>>

CanDecode == phase = "decode" /\ active # << >> /\ batch_state # NoBatch

(* The batch is decoded; the scheduler keeps the new tensors when it has    *)
(* looked at all rows.                                                      *)
DecodeBatch ==
  /\ CanDecode
  /\ \E texts \in [DOMAIN active -> BOOLEAN] :
       /\ \A i \in DOMAIN active : texts[i] \in TextsOf(request_state[active[i]])
       /\ phase' = "rows"
       /\ local' = [Idle EXCEPT !.texts = texts]
  /\ UNCHANGED <<request_state, request_queue, waiting, finished, metrics, batch_vars>>

Rows == phase = "rows" /\ local.position <= Len(active)

Row == active[local.position]

SkipRow ==
  /\ Rows /\ Status(Row) = "finished"
  /\ NextPosition
  /\ UNCHANGED <<request_state, request_queue, waiting, finished, metrics, phase, batch_vars>>

(* Wrong variant (used by no specification): finished rows are applied too. *)
AppliesTo(r) == TRUE

StillDecoding(r) == Status(r) # "finished"

ApplyRow ==
  LET r == Row
      q == [Streamed(request_state[r], local.texts[local.position])
              EXCEPT !.generated_tokens = @ + 1]
  IN  /\ Rows /\ StillDecoding(r)
      /\ Set(r, q)
      /\ local' = [local EXCEPT !.tokens = @ + 1,
                                !.position = IF IsFinished(q) THEN @ ELSE @ + 1]
      /\ phase' = IF IsFinished(q) THEN "finish" ELSE "rows"
      /\ UNCHANGED <<request_queue, waiting, finished, metrics, batch_vars>>

FinishRow ==
  LET q == MarkFinished(request_state[Row])
  IN  /\ phase = "finish"
      /\ Set(Row, q) /\ Record(Row, q)
      /\ NextPosition
      /\ phase' = "rows"
      /\ UNCHANGED <<request_queue, waiting, batch_vars>>

(* record_decode_step *)
RecordDecodeStep ==
  batch_metrics' = IF batch_metrics = NoMetrics THEN NoMetrics
                   ELSE [batch_metrics EXCEPT !.decode_steps = @ + 1,
                                              !.tokens_generated = @ + local.tokens]

RowsDone ==
  /\ phase = "rows" /\ local.position > Len(active)
  /\ RecordDecodeStep
  /\ batch_state' = BatchDecoded(batch_state)
  /\ Enter("remove", << >>)
  /\ UNCHANGED <<request_state, request_queue, waiting, finished, metrics, active, completed>>

(* The decode raises: every request of the batch is marked, the finished    *)
(* ones too; remove_finished_requests does the rest.                        *)
FailDecode ==
  /\ CanDecode
  /\ RunnerMayFail
  /\ Enter("fail_rows", << >>)
  /\ UNCHANGED <<request_state, request_queue, waiting, finished, metrics, batch_vars>>

FailRow ==
  /\ phase = "fail_rows" /\ local.position <= Len(active)
  /\ Set(Row, MarkFailed(request_state[Row]))
  /\ NextPosition
  /\ UNCHANGED <<request_queue, waiting, finished, metrics, phase, batch_vars>>

RowsFailed ==
  /\ phase = "fail_rows" /\ local.position > Len(active)
  /\ Enter("remove", << >>)
  /\ UNCHANGED <<request_state, request_queue, waiting, finished, metrics, batch_vars>>

-----------------------------------------------------------------------------
(* remove_finished_requests *)

SomeEnded(status) == \E r \in Range(active) : Status(r) = status

AllEnded(status) == \A r \in Range(active) : Status(r) = status

EndStep == phase' = "idle" /\ local' = Idle

Keep ==
  /\ phase = "remove"
  /\ active = << >> \/ ~ (AllEnded("finished") \/ SomeEnded("failed"))
  /\ EndStep
  /\ UNCHANGED <<request_state, request_queue, waiting, finished, metrics, batch_vars>>

(* The loop after a failure: each request is recorded, also one that was    *)
(* recorded when it finished. (All were marked failed before; marking those *)
(* that were not is the part of the loop that is never needed.)             *)
RecordFailed ==
  /\ phase = "remove" /\ SomeEnded("failed") /\ local.position <= Len(active)
  /\ Record(Row, request_state[Row])
  /\ NextPosition
  /\ UNCHANGED <<request_state, request_queue, waiting, phase, batch_vars>>

RemoveBatch(status) ==
  /\ phase = "remove" /\ active # << >>
  /\ IF status = "failed"
     THEN SomeEnded("failed") /\ local.position > Len(active)
     ELSE AllEnded("finished")
  /\ completed' = [metrics |-> WithMetrics(status),
                   sizes |-> Append(completed.sizes, Len(active))]
  /\ batch_metrics' = NoMetrics
  /\ batch_state' = NoBatch
  /\ active' = << >>
  /\ EndStep
  /\ UNCHANGED <<request_state, request_queue, waiting, finished, metrics>>

-----------------------------------------------------------------------------

NoActiveBatch ==
  /\ active = << >>
  /\ batch_state = NoBatch
  /\ batch_metrics = NoMetrics
  /\ completed = [metrics |-> << >>, sizes |-> << >>]

Init ==
  /\ request_state = [r \in Requests |-> Unborn]
  /\ request_queue = << >>
  /\ waiting  = << >>
  /\ finished = << >>
  /\ metrics  = << >>
  /\ phase = "idle"
  /\ local = Idle
  /\ NoActiveBatch

Step ==
  \/ BeginStep \/ Drain
  \/ Admit \/ FormBatch \/ Prefill \/ FailPrefill \/ FailOneOfBatch \/ BatchFailed
  \/ NothingToDecode \/ DecodeBatch \/ SkipRow \/ ApplyRow \/ FinishRow \/ RowsDone
  \/ FailDecode \/ FailRow \/ RowsFailed
  \/ Keep \/ RecordFailed \/ \E status \in {"finished", "failed"} : RemoveBatch(status)

Next == Step \/ \E r \in Requests : Submit(r)

Spec == Init /\ [][Next]_vars

(* The worker thread repeats its loop; nobody has to send anything. *)
FairSpec == Spec /\ WF_vars(Step)

-----------------------------------------------------------------------------
(* Properties *)

Ended == {"finished", "failed"}

Times(s, x) == Cardinality({i \in DOMAIN s : s[i] = x})

(* Between steps every request that ended was closed and recorded once,     *)
(* save one that had all its tokens and whose batch raised later: that one  *)
(* is failed after it finished, closed and recorded a second time.          *)
EndsOnceButForLateFailures ==
  phase = "idle" =>
    \A r \in Requests :
      LET q    == request_state[r]
          late == q.status = "failed" /\ q.generated_tokens = q.max_new_tokens
          ends == IF q.status \notin Ended THEN 0 ELSE IF late THEN 2 ELSE 1
      IN  Times(q.output_queue, End) = ends /\ Times(finished, r) = ends

(* While a batch is decoded, what its row of the mask shows is what the     *)
(* request has: prompt and generated tokens, plus only for those that have  *)
(* finished the tokens they are decoded on for; and the rows share a cache  *)
(* as long as the longest of them.                                          *)
RowsMatchRequests ==
  phase = "idle" /\ active # << >> =>
    /\ \A i \in DOMAIN active :
         LET q    == request_state[active[i]]
             have == q.prompt_tokens + q.generated_tokens
         IN  /\ batch_state.mask[i] >= have
             /\ q.status = "decoding" => batch_state.mask[i] = have
             /\ batch_state.mask[i] - q.prompt_tokens = batch_metrics.decode_steps
    /\ batch_state.past_length = Max(Range(batch_state.mask))

Total(f) == SumFunctionOnSet(f, DOMAIN f)

Submitted == {r \in Requests : Status(r) # "new"}

(* The metrics of batches account for every token and every request: the    *)
(* tokens of the batches, past and present, are those of the requests; their *)
(* sizes add up to the requests that were prefilled, a batch that failed in *)
(* prefill leaving no trace; and there are current metrics exactly while    *)
(* there is a batch.                                                        *)
BatchesAccounted ==
  phase = "idle" =>
    LET prefilled == {r \in Requests : request_state[r].prompt_tokens > 0}
        dicts     == completed.metrics
    IN  /\ (active = << >>) <=> (batch_metrics = NoMetrics)
        /\ (active = << >>) <=> (batch_state = NoBatch)
        /\ Total([i \in DOMAIN dicts |-> dicts[i].tokens_generated])
             + batch_metrics.tokens_generated
             = Total([r \in Submitted |-> request_state[r].generated_tokens])
        /\ Total([i \in DOMAIN dicts |-> dicts[i].batch_size]) + Len(active)
             = Cardinality(prefilled)
        /\ completed.sizes = [i \in DOMAIN dicts |-> dicts[i].batch_size]

(* A failure is the whole batch's: when the batch is looked through, either *)
(* none of its requests or every one is marked failed.                      *)
FailedTogether ==
  phase = "remove" /\ (\E r \in Range(active) : Status(r) = "failed") =>
    \A r \in Range(active) : Status(r) = "failed"

(* Durations make sense also for rows that finished before their batch, and *)
(* for those that failed after they finished.                               *)
MetricsMeaningful == DurationsMeaningful(metrics)

=============================================================================
