------------------------------- MODULE Server -------------------------------
(***************************************************************************)
(* server.py around the engine scheduler: the worker threads that start()  *)
(* and stop() leave running, the HTTP threads that stream a request's      *)
(* output to its client, and the handlers of /health and /metrics_json,    *)
(* which put one report together from reads made at different times.       *)
(*                                                                         *)
(* The scheduler's lock is held exactly while phase # "idle": a step takes *)
(* it first, and a snapshot is one step that needs it free.                *)
(***************************************************************************)
EXTENDS EngineScheduler

CONSTANTS
  Workers,     \* the worker threads that may be started: bounds the restarts
  Endpoints    \* the report endpoints that are polled

ASSUME EndpointsAssumption == Endpoints \subseteq {"health", "metrics_json"}

VARIABLES
  running,    \* _running
  worker,     \* where in _run_loop each thread is
  received,   \* how many items of its output queue each client took
  report      \* the report in the making, or the last one

server_vars == <<vars, running, worker, received, report>>

-----------------------------------------------------------------------------
(* Worker lifecycle *)

(* Wrong variant (used by no specification): a restart relies on the thread  *)
(* it started before.                                                       *)
StartOnce ==
  /\ running' = TRUE
  /\ IF \A w \in Workers : worker[w] = "unborn"
     THEN \E w \in Workers : worker' = [worker EXCEPT ![w] = "loop"]
     ELSE UNCHANGED worker
  /\ UNCHANGED <<vars, received, report>>

(* start(): nothing if the flag is set; otherwise a new thread, even if an  *)
(* earlier one did not notice yet that the flag had been cleared.           *)
Start ==
  /\ IF running
     THEN UNCHANGED <<running, worker>>
     ELSE \E w \in Workers : worker[w] = "unborn" /\ running' = TRUE
                                                  /\ worker' = [worker EXCEPT ![w] = "loop"]
  /\ UNCHANGED <<vars, received, report>>

(* stop(): only the flag. *)
Stop ==
  /\ running' = FALSE
  /\ UNCHANGED <<vars, worker, received, report>>

(* Wrong variant (used by no specification): while True. *)
LoopIgnoresFlag(w) ==
  /\ worker[w] = "loop"
  /\ worker' = [worker EXCEPT ![w] = "lock"]
  /\ UNCHANGED <<vars, running, received, report>>

(* while self._running *)
Loop(w) ==
  /\ worker[w] = "loop"
  /\ worker' = [worker EXCEPT ![w] = IF running THEN "lock" ELSE "ended"]
  /\ UNCHANGED <<vars, running, received, report>>

(* step() takes the lock ... *)
TakeLock(w) ==
  /\ worker[w] = "lock"
  /\ BeginStep
  /\ worker' = [worker EXCEPT ![w] = "step"]
  /\ UNCHANGED <<running, received, report>>

(* ... and goes on to the end, where the lock is free again. *)
GoOn(w) ==
  /\ worker[w] = "step"
  /\ Step
  /\ worker' = [worker EXCEPT ![w] = IF phase' = "idle" THEN "loop" ELSE @]
  /\ UNCHANGED <<running, received, report>>

-----------------------------------------------------------------------------
(* HTTP threads *)

(* token_generator: the next item of the output queue, until the None. *)
Answered(r) == received[r] > 0 /\ request_state[r].output_queue[received[r]] = End

Receive(r) ==
  /\ ~ Answered(r)
  /\ received[r] < Len(request_state[r].output_queue)
  /\ received' = [received EXCEPT ![r] = @ + 1]
  /\ UNCHANGED <<vars, running, worker, report>>

(* What EngineScheduler.snapshot() says of the requests. *)
Snapshot == [waiting  |-> Len(waiting), active |-> OccupiedSlotCount,
             finished |-> Len(finished)]

(* Wrong variant (used by no specification): /metrics_json reads the engine first. *)
EngineFirst(endpoint) ==
  IF endpoint = "health" THEN <<"engine", "queue">> ELSE <<"engine", "metrics", "queue">>

(* The order in which the handler of an endpoint reads. *)
Reads(endpoint) ==
  IF endpoint = "health" THEN <<"engine", "queue">> ELSE <<"metrics", "queue", "engine">>

Nothing == [waiting |-> 0, active |-> 0, finished |-> 0]

Poll(endpoint) ==
  /\ report.todo = << >>
  /\ report' = [endpoint |-> endpoint, todo |-> Reads(endpoint), engine |-> Nothing,
                queued_requests |-> 0, total_finished_requests |-> 0,
                total_failed_requests |-> 0]
  /\ UNCHANGED <<vars, running, worker, received>>

Reading(what) == report.todo # << >> /\ Head(report.todo) = what

(* Wrong variant (used by no specification): a snapshot without the lock. *)
ReadEngineUnlocked ==
  /\ Reading("engine")
  /\ report' = [report EXCEPT !.todo = Tail(@), !.engine = Snapshot]
  /\ UNCHANGED <<vars, running, worker, received>>

(* snapshot() waits for the lock. *)
ReadEngine ==
  /\ Reading("engine")
  /\ phase = "idle"
  /\ report' = [report EXCEPT !.todo = Tail(@), !.engine = Snapshot]
  /\ UNCHANGED <<vars, running, worker, received>>

(* request_queue.qsize() *)
ReadQueue ==
  /\ Reading("queue")
  /\ report' = [report EXCEPT !.todo = Tail(@), !.queued_requests = Len(request_queue)]
  /\ UNCHANGED <<vars, running, worker, received>>

(* metrics_store.snapshot(), under the store's own lock: possible in the     *)
(* middle of a step.                                                        *)
ReadMetrics ==
  /\ Reading("metrics")
  /\ report' = [report EXCEPT
                  !.todo = Tail(@),
                  !.total_finished_requests = Len(metrics),
                  !.total_failed_requests =
                     Cardinality({i \in DOMAIN metrics : metrics[i].status = "failed"})]
  /\ UNCHANGED <<vars, running, worker, received>>

-----------------------------------------------------------------------------

ServerInit ==
  /\ Init
  /\ running = FALSE
  /\ worker = [w \in Workers |-> "unborn"]
  /\ received = [r \in Requests |-> 0]
  /\ report = [endpoint |-> "none", todo |-> << >>, engine |-> Nothing,
               queued_requests |-> 0, total_finished_requests |-> 0,
               total_failed_requests |-> 0]

Work(w) == Loop(w) \/ TakeLock(w) \/ GoOn(w)

Handle ==
  \/ \E e \in Endpoints : Poll(e)
  \/ ReadEngine \/ ReadQueue \/ ReadMetrics

ServerNext ==
  \/ Start \/ Stop
  \/ \E w \in Workers : Work(w)
  \/ \E r \in Requests : Submit(r) /\ UNCHANGED <<running, worker, received, report>>
  \/ \E r \in Requests : Receive(r)
  \/ Handle

ServerSpec == ServerInit /\ [][ServerNext]_server_vars

(* Threads that can go on do so; nobody has to start, stop, submit or poll. *)
FairServerSpec ==
  /\ ServerSpec
  /\ \A w \in Workers : WF_server_vars(Work(w))
  /\ \A r \in Requests : WF_server_vars(Receive(r))

-----------------------------------------------------------------------------
(* Properties *)

Done(endpoint) == report.endpoint = endpoint /\ report.todo = << >>

InEngine(snapshot) == snapshot.waiting + snapshot.active + snapshot.finished

(* No snapshot is torn, whatever the workers are doing: it sees every        *)
(* request that left the queue in one of the scheduler's lists, none of the *)
(* requests it shows in a slot has all its tokens, and the tokens counted   *)
(* are the tokens of the requests, unless the engine raised in the middle   *)
(* of a batch. Within a step all three may fail.                            *)
SnapshotsWhole ==
  [][report'.todo # report.todo /\ Reading("engine") =>
       /\ InEngine(report'.engine) = Cardinality(Submitted) - Len(request_queue)
       /\ \A r \in InSlot : request_state[r].generated_tokens < request_state[r].max_new_tokens
       /\ EngineMayFail \/ stats.tokens_generated = TokensCounted]_server_vars

(* /health counts no request twice, although it reads the queue after the   *)
(* lock is released and the worker may have gone on. (/metrics_json, which  *)
(* reads the queue first, can count a request twice.)                       *)
HealthCountsOnce ==
  Done("health") =>
    InEngine(report.engine) + report.queued_requests <= Cardinality(Submitted)

(* /metrics_json never tells of more requests that ended than the engine    *)
(* part of the same report, though the metrics are read first and in the    *)
(* middle of a step.                                                        *)
MetricsWithinEngine ==
  Done("metrics_json") =>
    /\ report.total_finished_requests <= report.engine.finished
    /\ report.total_failed_requests <= report.total_finished_requests

(* What a report says agrees with itself and with the clients, though its   *)
(* parts are read at different times: HealthCountsOnce, MetricsWithinEngine *)
ReportsAgree == HealthCountsOnce /\ MetricsWithinEngine

(* Once the flag stays cleared, every worker ends: also one that was        *)
(* waiting for the lock, or was revived by a restart it never noticed.      *)
StopEndsWorkers ==
  <>[]~running => <>[](\A w \in Workers : worker[w] \in {"unborn", "ended"})

(* If the server ends up running, each client gets its whole stream, also   *)
(* across restarts in the middle of its request and with two workers.       *)
ClientsAnswered ==
  <>[]running => \A r \in Requests : Status(r) = "waiting" ~> Answered(r)

=============================================================================
