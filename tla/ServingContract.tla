--------------------------- MODULE ServingContract ---------------------------
(***************************************************************************)
(* What the runtime promises to the client of one streaming request: the   *)
(* request is queued, runs, streams at most max_new_tokens chunks of text, *)
(* and ends once, as finished or failed, with one end marker as the last   *)
(* item of its stream.  A request can fail while it is still queued, and   *)
(* finishes only from running.  What clients see is the output queue of    *)
(* the RequestState and its status.                                        *)
(***************************************************************************)
EXTENDS Integers, Sequences

CONSTANTS
  Requests,    \* the requests
  Limits       \* the values max_new_tokens may have

VARIABLES
  stage,       \* "absent", "queued", "running", "finished" or "failed"
  stream,      \* everything put on the request's output queue
  limit        \* max_new_tokens; 0 before the request exists

vars == <<stage, stream, limit>>

Text == "text"
End  == "end"

Init ==
  /\ stage  = [r \in Requests |-> "absent"]
  /\ stream = [r \in Requests |-> << >>]
  /\ limit  = [r \in Requests |-> 0]

Submit(r) ==
  /\ stage[r] = "absent"
  /\ stage' = [stage EXCEPT ![r] = "queued"]
  /\ \E n \in Limits : limit' = [limit EXCEPT ![r] = n]
  /\ UNCHANGED stream

Start(r) ==
  /\ stage[r] = "queued"
  /\ stage' = [stage EXCEPT ![r] = "running"]
  /\ UNCHANGED <<stream, limit>>

Emit(r) ==
  /\ stage[r] = "running"
  /\ Len(stream[r]) < limit[r]
  /\ stream' = [stream EXCEPT ![r] = Append(@, Text)]
  /\ UNCHANGED <<stage, limit>>

Finish(r) ==
  /\ stage[r] = "running"
  /\ stage'  = [stage EXCEPT ![r] = "finished"]
  /\ stream' = [stream EXCEPT ![r] = Append(@, End)]
  /\ UNCHANGED limit

Fail(r) ==
  /\ stage[r] \in {"queued", "running"}
  /\ stage'  = [stage EXCEPT ![r] = "failed"]
  /\ stream' = [stream EXCEPT ![r] = Append(@, End)]
  /\ UNCHANGED limit

Next ==
  \E r \in Requests : Submit(r) \/ Start(r) \/ Emit(r) \/ Finish(r) \/ Fail(r)

Spec == Init /\ [][Next]_vars

=============================================================================
