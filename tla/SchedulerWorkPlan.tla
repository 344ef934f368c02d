------------------------- MODULE SchedulerWorkPlan -------------------------
(***************************************************************************)
(* runtime/scheduler_work_plan.py: which requests work in a scheduler step *)
(* and on how many tokens each.  A plan is a sequence of work items; the   *)
(* builders are pure, so they are operators here, on the sequence of       *)
(* candidate requests in slot order and the prompt tokens each still has   *)
(* to prefill.                                                             *)
(***************************************************************************)
EXTENDS Integers, SequencesExt, Selection

CONSTANT Unlimited   \* stands for a token budget of None

Work(r, num_tokens, kind) ==
  [request_state |-> r, num_scheduled_tokens |-> num_tokens, kind |-> kind]

(* One token for each request of the decode batch. *)
BuildDecodeWorkPlan(decode_batch) ==
  [i \in 1 .. Len(decode_batch) |-> Work(decode_batch[i], 1, "decode")]

(* Wrong variant (used by no specification): the budget is ignored. *)
GrantAll(tokens_remaining, budget) == tokens_remaining

(* Tokens the next request gets out of what is left of the budget. *)
Grant(tokens_remaining, budget) ==
  IF budget = Unlimited \/ tokens_remaining <= budget THEN tokens_remaining ELSE budget

(* One iteration of the loop over the candidates. The loop's `continue` for  *)
(* a request with nothing left and its `break` on an empty budget both       *)
(* leave the plan as it is: once the budget is empty nobody is granted more. *)
Schedule(acc, r, prefill_tokens_remaining) ==
  LET n == Grant(prefill_tokens_remaining[r], acc.budget)
  IN  IF n <= 0
      THEN acc
      ELSE [plan   |-> Append(acc.plan, Work(r, n, "prefill")),
            budget |-> IF acc.budget = Unlimited THEN Unlimited ELSE acc.budget - n]

(* The first requests get all they need, until the budget is used up. *)
BuildPrefillWorkPlan(requests, prefill_tokens_remaining, max_scheduled_tokens) ==
  LET after[i \in 0 .. Len(requests)] ==
        IF i = 0 THEN [plan |-> << >>, budget |-> max_scheduled_tokens]
        ELSE Schedule(after[i - 1], requests[i], prefill_tokens_remaining)
  IN  after[Len(requests)].plan

(* The budget bounds the prefill work only; decode work comes on top. *)
BuildCandidateWorkPlan(prefill, decode, prefill_tokens_remaining, max_scheduled_tokens) ==
  BuildPrefillWorkPlan(prefill, prefill_tokens_remaining, max_scheduled_tokens)
    \o BuildDecodeWorkPlan(decode)

WorkOfKind(work_plan, kind) ==
  InOrder(work_plan, {w \in Range(work_plan) : w.kind = kind})

RequestsFromWorkPlan(work_plan) ==
  [i \in 1 .. Len(work_plan) |-> work_plan[i].request_state]

TotalScheduledTokens(work_plan) ==
  SumFunction([i \in DOMAIN work_plan |-> work_plan[i].num_scheduled_tokens])

SummarizeWorkPlan(work_plan) ==
  LET prefill_work == WorkOfKind(work_plan, "prefill")
      decode_work  == WorkOfKind(work_plan, "decode")
  IN  [num_work_items           |-> Len(work_plan),
       total_scheduled_tokens   |-> TotalScheduledTokens(work_plan),
       num_prefill_items        |-> Len(prefill_work),
       num_decode_items         |-> Len(decode_work),
       prefill_scheduled_tokens |-> TotalScheduledTokens(prefill_work),
       decode_scheduled_tokens  |-> TotalScheduledTokens(decode_work)]

=============================================================================
