------------------------- MODULE MCLegacySchedulers -------------------------
(***************************************************************************)
(* The two legacy schedulers, each with its request queue, metrics store   *)
(* and model runner, and the decode engines under a plain driver: a        *)
(* behaviour runs one of the three from start to end.                      *)
(***************************************************************************)
EXTENDS ContinuousScheduler

CONSTANTS
  StaticShapes,    \* Shapes of the requests sent to the static scheduler
  MaxBatchSize,    \* its max_batch_size
  EngineBlocks,    \* TotalBlocks of the decode engines
  EngineBlockSize, \* BlockSize of the decode engines
  EnginePrompt,    \* MaxPrompt of the decode engines
  EngineTokens     \* MaxNewTokens of the decode engines

VARIABLES
  running,         \* which of the three runs; no step changes it
  active, batch_state, batch_metrics, completed,  \* as in StaticScheduler
  config, cache, step_metrics                     \* as in DecodeEngines

ASSUME StaticAssumption ==
  /\ StaticShapes \subseteq [prompt : Nat \ {0}, max_new_tokens : Nat \ {0}]
  /\ MaxBatchSize \in Nat \ {0}

ASSUME EngineAssumption ==
  /\ IsFiniteSet(Requests)
  /\ EngineBlocks \in Nat \ {0} /\ EngineBlockSize \in Nat \ {0}
  /\ EnginePrompt \in Nat /\ EngineTokens \in Nat

Static == INSTANCE StaticScheduler WITH Shapes <- StaticShapes

Engines == INSTANCE DecodeEngines
             WITH TotalBlocks <- EngineBlocks, BlockSize <- EngineBlockSize,
                  MaxPrompt <- EnginePrompt, MaxNewTokens <- EngineTokens

Shape(prompt, max_new_tokens) ==
  [prompt |-> prompt, max_new_tokens |-> max_new_tokens]
LongAndShort == {Shape(3, 5), Shape(1, 1)}
FourTokens    == {Shape(1, 4)}
ShortAndLong  == {Shape(1, 2), Shape(2, 1)}

queue_vars  == <<request_queue, waiting, finished, metrics>>
slot_vars   == <<slots, stats, kv_vars>>
static_vars == <<active, batch_state, batch_metrics, completed>>
engine_vars == <<config, cache, step_metrics>>
mc_vars     == <<vars, running, static_vars, engine_vars>>

(* The variables that a system does not have. *)
NoQueues ==
  /\ request_queue = << >> /\ waiting = << >>
  /\ finished = << >> /\ metrics = << >>
NoBlocks == free_blocks = << >> /\ block_tables = << >>
NoStatic == Static!NoActiveBatch
NoEngine == config = << >> /\ cache = << >> /\ step_metrics = << >>

MCInit ==
  \/ running = "continuous" /\ Init /\ NoStatic /\ NoEngine
  \/ running = "static" /\ Static!Init /\ NothingInSlots /\ NoBlocks /\ NoEngine
  \/ running = "engines" /\ Engines!Init /\ NoQueues /\ NothingInSlots /\ NoStatic

ContinuousRuns == running = "continuous" /\ UNCHANGED <<running, static_vars, engine_vars>>
StaticRuns     == running = "static" /\ UNCHANGED <<running, slot_vars, engine_vars>>
EnginesRun     == running = "engines"
                    /\ UNCHANGED <<running, queue_vars, slots, stats, static_vars>>

(* An engine's driver stops when all requests are finished. *)
EnginesDone == running = "engines" /\ phase = "done" /\ UNCHANGED mc_vars

MCStep ==
  \/ ContinuousRuns /\ Step
  \/ StaticRuns /\ Static!Step
  \/ EnginesRun /\ Engines!Step

MCSubmit(r) ==
  \/ ContinuousRuns /\ Submit(r)
  \/ StaticRuns /\ Static!Submit(r)

MCNext == MCStep \/ (\E r \in Requests : MCSubmit(r)) \/ EnginesDone

(* Only the worker thread is fair: nobody has to send anything. *)
MCSpec == MCInit /\ [][MCNext]_mc_vars /\ WF_mc_vars(MCStep)

-----------------------------------------------------------------------------
(* The types of a record, and sets and counts of requests, for the proofs *)

Statuses == {"new", "waiting", "prefill", "decoding"} \cup Ended

Events == {"arrival", "admit", "first_token", "finish"}

RequestRecords ==
  [status : Statuses, prompt : Nat, max_new_tokens : Nat,
   prompt_tokens : Nat, num_computed_tokens : Nat, generated_tokens : Nat,
   block_table : Seq(KV!Blocks), past_length : Nat, error : BOOLEAN,
   times : Seq(Events), output_queue : Seq({Text, End})]

InStatus(S) == {r \in Requests : Status(r) \in S}

GeneratedTokens == [r \in Requests |-> request_state[r].generated_tokens]

Submitted == {r \in Requests : Status(r) # "new"}

-----------------------------------------------------------------------------
(* Properties of the continuous scheduler *)

(* ContinuousScheduler!OneHomeOneTable *)
SlotsOwnTables == running = "continuous" => OneHomeOneTable

(* ContinuousScheduler!TokensCountedTwice: what the code does, and the      *)
(* reason why TokensMatchRequestedLength fails                              *)
RunnerAndSchedulerCount == running = "continuous" => TokensCountedTwice

(* ContinuousScheduler!AccountingMatchesLength *)
TokensMatchRequestedLength == running = "continuous" => AccountingMatchesLength

(* ContinuousScheduler!ImplementsContract; the contract's variables stand   *)
(* still while something else runs, that does not keep it.                  *)
ContinuousContract ==
  INSTANCE ServingContract
    WITH Limits <- {s.max_new_tokens : s \in Shapes},
         stage  <- [r \in Requests |-> IF running # "continuous" THEN "absent" ELSE Stage(r)],
         stream <- [r \in Requests |-> IF running # "continuous" THEN << >>
                                       ELSE request_state[r].output_queue],
         limit  <- [r \in Requests |-> IF running # "continuous" THEN 0
                                       ELSE request_state[r].max_new_tokens]
ContinuousImplementsContract == ContinuousContract!Spec

(* Properties of the static scheduler *)

(* Every request ends once, but for late failures, and a batch fails        *)
(* together: StaticScheduler!EndsOnceButForLateFailures, FailedTogether     *)
StaticEndsOnce ==
  running = "static" => Static!EndsOnceButForLateFailures /\ Static!FailedTogether

(* The tensors of a batch match its requests, and so do the metrics of all  *)
(* batches: StaticScheduler!RowsMatchRequests, BatchesAccounted             *)
StaticBatchesMatchRequests ==
  running = "static" => Static!RowsMatchRequests /\ Static!BatchesAccounted

(* Properties of the decode engines *)

(* DecodeEngines!AttendsToExistingTokens *)
EnginesAttendToExistingTokens == running = "engines" => Engines!AttendsToExistingTokens

(* No request is ever short of a block, and in the end each has exactly its *)
(* tokens: DecodeEngines!NeverShortOfBlocks, TokensCountedOnce              *)
EnginesServeAllTokens ==
  running = "engines" => Engines!NeverShortOfBlocks /\ Engines!TokensCountedOnce

(* Property of all three *)

(* Every request that was sent ends, also beside others that stall and      *)
(* fail, and every engine's driver comes to its end.                        *)
(* (No shape is larger than the pool: one such request at the head of the   *)
(* continuous scheduler's line would stop all admissions for good.)         *)
LegacyRequestsEnd ==
  <>[](phase = "done" \/ \A r \in Requests : Status(r) \in {"new"} \cup Ended)

=============================================================================
