---------------------------- MODULE RequestState ----------------------------
(***************************************************************************)
(* runtime/request_state.py and runtime/metrics_store.py: the record of a  *)
(* request with its methods, and the records the metrics store keeps of    *)
(* those that ended.                                                       *)
(*                                                                         *)
(* A RequestState is a value, and a method an operator from the old value  *)
(* to the new.  Of the timestamps only the order matters: `times` is the   *)
(* sequence of the events whose time was taken.  The durations in the      *)
(* metrics are "none" when a time is missing, and else say whether the     *)
(* clock ran forward between the two.                                      *)
(***************************************************************************)
EXTENDS Integers, SequencesExt

Text == "text"
End  == "end"   \* the None that closes an output queue

(* past_length stands for past_key_values: how many tokens the engine's own *)
(* cache of the request holds.                                              *)
NewRequestState(prompt, max_new_tokens) ==
  [status |-> "waiting", prompt |-> prompt, max_new_tokens |-> max_new_tokens,
   prompt_tokens |-> 0, num_computed_tokens |-> 0, generated_tokens |-> 0,
   block_table |-> << >>, past_length |-> 0, error |-> FALSE,
   times |-> <<"arrival">>, output_queue |-> << >>]

(* "if self.x_time is None": the first time counts. *)
Taken(times, event) ==
  IF event \in Range(times) THEN times ELSE Append(times, event)

MarkAdmitted(q) == [q EXCEPT !.times = Taken(@, "admit"), !.status = "prefill"]

MarkDecoding(q) == [q EXCEPT !.status = "decoding"]

MarkFirstToken(q) == [q EXCEPT !.times = Taken(@, "first_token")]

AppendText(q) == [MarkFirstToken(q) EXCEPT !.output_queue = Append(@, Text)]

MarkFinished(q) ==
  [q EXCEPT !.times = Taken(@, "finish"), !.status = "finished",
            !.output_queue = Append(@, End)]

MarkFailed(q) ==
  [q EXCEPT !.times = Taken(@, "finish"), !.status = "failed", !.error = TRUE,
            !.output_queue = Append(@, End)]

IsFinished(q) == q.generated_tokens >= q.max_new_tokens

(* Wrong variant (used by no specification): a token that decodes to no text *)
(* is forgotten.                                                            *)
StreamedOnlyText(q, text) == IF text THEN AppendText(q) ELSE q

(* What both legacy schedulers do with the text of a token, if it has any.  *)
Streamed(q, text) == IF text THEN AppendText(q) ELSE MarkFirstToken(q)

(* What text a token may have: some, or none. Bound: none only before the   *)
(* time of the first token was taken, where it makes a difference.          *)
TextsOf(q) == IF "first_token" \in Range(q.times) THEN {TRUE} ELSE BOOLEAN

-----------------------------------------------------------------------------
(* Durations *)

(* to - from, on the request's own clock. *)
Duration(q, from, to) ==
  IF {from, to} \subseteq Range(q.times)
  THEN LET At(event) == SelectInSeq(q.times, LAMBDA e : e = event)
       IN  IF At(from) <= At(to) THEN "forward" ELSE "backward"
  ELSE "none"

QueueWait(q)     == Duration(q, "arrival", "admit")
TTFT(q)          == Duration(q, "arrival", "first_token")
DecodeLatency(q) == Duration(q, "first_token", "finish")
Latency(q)       == Duration(q, "arrival", "finish")

-----------------------------------------------------------------------------
(* MetricsStore *)

(* What record_finished keeps of a request. *)
FinishedRecord(r, q) ==
  [request_id |-> r, status |-> q.status, error |-> q.error,
   generated_tokens |-> q.generated_tokens, queue_wait |-> QueueWait(q),
   ttft |-> TTFT(q), decode_latency |-> DecodeLatency(q), latency |-> Latency(q)]

(* The indices of the records without an error. *)
SuccessfulRequests(metrics) == {i \in DOMAIN metrics : ~ metrics[i].error}

(* snapshot(); for an average, how many values it is taken over. *)
MetricsSnapshot(metrics) ==
  LET successful == SuccessfulRequests(metrics)
      Values(field) == Cardinality({i \in successful : metrics[i][field] # "none"})
  IN  [total_finished_requests   |-> Len(metrics),
       total_successful_requests |-> Cardinality(successful),
       total_failed_requests     |-> Len(metrics) - Cardinality(successful),
       total_generated_tokens    |->
         SumFunctionOnSet([i \in DOMAIN metrics |-> metrics[i].generated_tokens], successful),
       averaged |-> [field \in {"latency", "ttft", "queue_wait", "decode_latency"}
                       |-> Values(field)]]

(* Every record of a finished request has all its durations, so that each   *)
(* average is taken over all successful requests; no duration is negative;  *)
(* and every record says how long the request took.                         *)
DurationsMeaningful(metrics) ==
  /\ \A i \in DOMAIN metrics :
       /\ "backward" \notin {metrics[i].queue_wait, metrics[i].ttft,
                             metrics[i].decode_latency, metrics[i].latency}
       /\ metrics[i].latency = "forward"
  /\ LET snapshot == MetricsSnapshot(metrics)
     IN  \A field \in DOMAIN snapshot.averaged :
           snapshot.averaged[field] = snapshot.total_successful_requests

=============================================================================
