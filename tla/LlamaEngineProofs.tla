-------------------------- MODULE LlamaEngineProofs --------------------------
(***************************************************************************)
(* Proofs about the prefill work of the engine and of                      *)
(* runtime/scheduler_work_plan.py, for every number of requests, all       *)
(* prompts and all token budgets, by chunks or in one call.                *)
(*                                                                         *)
(* A plan is made for a whole scheduler step and worked off item by item.  *)
(* The invariant looks ahead: what will be left to prefill when the rest   *)
(* of the plan is done does not change while it is worked off.             *)
(***************************************************************************)
EXTENDS LlamaEngine, SequenceFacts

-----------------------------------------------------------------------------
(* The inductive invariant *)

RequestFields ==
  {"status", "input_ids", "prompt_tokens", "num_computed_tokens", "generated_tokens",
   "next_token", "past_key_values", "block_table"}

(* Of a record only what the budget is about.                               *)
RequestRight(q) ==
  /\ DOMAIN q = RequestFields
  /\ q.status \in {"prefill", "decoding", "finished"}
  /\ q.prompt_tokens \in Nat /\ q.num_computed_tokens \in 0 .. q.prompt_tokens
  /\ q.status # "prefill" => q.num_computed_tokens = q.prompt_tokens

LlamaTyped ==
  /\ budget \in Nat \cup {Unlimited}
  /\ chunked \in BOOLEAN /\ (~ chunked => budget = Unlimited)
  /\ DOMAIN request_state = Requests
  /\ \A r \in Requests : RequestRight(request_state[r])
  /\ phase \in {"plan", "prefill", "decode"}
  /\ steps \in Nat /\ planned \in Nat

Rem == [r \in Requests |-> PrefillTokensRemaining(r)]

PrefillWork == [request_state : Requests, num_scheduled_tokens : Nat \ {0}, kind : {"prefill"}]

PlannedInOrder(plan) ==
  \A i, j \in DOMAIN plan : i < j => plan[i].request_state < plan[j].request_state

PlannedFor(plan) == {plan[i].request_state : i \in DOMAIN plan}

(* A plan for requests with `rem` tokens to prefill, under the budget b: in *)
(* slot order, leaving nobody out, all but the last to the end of the prompt. *)
PlanRight(plan, rem, b) ==
  /\ plan \in Seq(PrefillWork)
  /\ PlannedInOrder(plan)
  /\ \A i \in DOMAIN plan :
       /\ plan[i].num_scheduled_tokens <= rem[plan[i].request_state]
       /\ plan[i].num_scheduled_tokens # rem[plan[i].request_state] =>
            i = Len(plan) /\ b # Unlimited
       /\ \A r \in Requests : r < plan[i].request_state /\ rem[r] > 0 =>
            \E j \in DOMAIN plan : j < i /\ plan[j].request_state = r

(* The tokens that the rest of a plan gives to a request.                   *)
Granted(plan, r) ==
  IF r \in PlannedFor(plan)
  THEN plan[CHOOSE i \in DOMAIN plan : plan[i].request_state = r].num_scheduled_tokens
  ELSE 0

(* What will be left of `rem` when the plan is done.                        *)
LeftAfter(plan, rem) == [r \in Requests |-> rem[r] - Granted(plan, r)]

Total(w) == SumFunctionOnSet(w, Requests)

(* After k plans of a budget b each, the closed form.                       *)
Spent(k, b, tokens) ==
  IF k = 0 THEN 0
  ELSE IF b = Unlimited \/ k * b >= tokens THEN tokens
  ELSE k * b

LInv ==
  /\ LlamaTyped
  /\ PlanRight(work_plan, Rem, budget)
  /\ phase # "prefill" => work_plan = << >>
  /\ planned = Spent(steps, budget, PromptTokens)
  /\ planned + Total(LeftAfter(work_plan, Rem)) = PromptTokens
  /\ PromptTokens \in Nat
  /\ SlotOrder
  /\ summary.num_work_items = summary.num_prefill_items + summary.num_decode_items

-----------------------------------------------------------------------------
(* Sums over the requests *)

LEMMA RequestsFinite == IsFiniteSet(Requests) /\ Requests \subseteq Nat
<1>1. 1 \in Int /\ N \in Int /\ N \in Nat
  BY LlamaWorkAssumption
<1>2. Requests = 1 .. N
  BY DEF Requests
<1>3. IsFiniteSet(1 .. N)
  BY <1>1, FS_Interval
<1>. QED  BY <1>1, <1>2, <1>3

LEMMA TotalIsNat ==
  ASSUME NEW w \in [Requests -> Nat]
  PROVE  /\ Total(w) \in Nat
         /\ (\A r \in Requests : w[r] = 0) => Total(w) = 0
<1>1. Total(w) \in Nat
  BY RequestsFinite, SumProperties DEF Total
<1>2. ASSUME \A r \in Requests : w[r] = 0  PROVE Total(w) = 0
  BY <1>2, RequestsFinite, SumOfZeros DEF Total
<1>. QED  BY <1>1, <1>2

(* What one request gives up the total gives up.                            *)
LEMMA TotalOfOneLess ==
  ASSUME NEW w \in [Requests -> Nat], NEW v \in [Requests -> Nat],
         NEW r \in Requests, NEW n \in Nat,
         w[r] = v[r] + n, \A q \in Requests \ {r} : w[q] = v[q]
  PROVE  Total(w) = Total(v) + n
BY RequestsFinite, SumOfOneLess DEF Total

-----------------------------------------------------------------------------
(* Plans *)

(* What the items of a plan are.                                            *)
LEMMA ItemsOfPlan ==
  ASSUME NEW plan \in Seq(PrefillWork)
  PROVE  /\ DOMAIN plan = 1 .. Len(plan) /\ Len(plan) \in Nat
         /\ \A i \in DOMAIN plan :
              /\ plan[i] \in PrefillWork
              /\ plan[i].request_state \in Requests /\ plan[i].request_state \in Nat
              /\ plan[i].num_scheduled_tokens \in Nat \ {0}
<1>1. DOMAIN plan = 1 .. Len(plan) /\ Len(plan) \in Nat
  BY LenProperties
<1>2. \A i \in 1 .. Len(plan) : plan[i] \in PrefillWork
  BY ElementOfSeq
<1>3. \A w \in PrefillWork :
        w.request_state \in Requests /\ w.num_scheduled_tokens \in Nat \ {0}
  BY DEF PrefillWork
<1>. QED  BY <1>1, <1>2, <1>3, RequestsFinite

(* Each item of a plan in slot order is all that its request is granted.    *)
LEMMA GrantedByItems ==
  ASSUME NEW plan \in Seq(PrefillWork), PlannedInOrder(plan)
  PROVE  /\ \A i \in DOMAIN plan :
              Granted(plan, plan[i].request_state) = plan[i].num_scheduled_tokens
         /\ \A r : r \notin PlannedFor(plan) => Granted(plan, r) = 0
         /\ \A i, j \in DOMAIN plan : plan[i].request_state = plan[j].request_state => i = j
<1>1. /\ DOMAIN plan = 1 .. Len(plan) /\ Len(plan) \in Nat
      /\ \A i \in DOMAIN plan : plan[i] \in PrefillWork /\ plan[i].request_state \in Nat
  BY ItemsOfPlan
<1>2. ASSUME NEW i \in DOMAIN plan, NEW j \in DOMAIN plan,
             plan[i].request_state = plan[j].request_state
      PROVE  i = j
  <2>1. ~ (i < j) /\ ~ (j < i)
    BY <1>1, <1>2 DEF PlannedInOrder
  <2>. QED  BY <1>1, <2>1
<1>3. ASSUME NEW i \in DOMAIN plan
      PROVE  Granted(plan, plan[i].request_state) = plan[i].num_scheduled_tokens
  <2>1. (CHOOSE j \in DOMAIN plan : plan[j].request_state = plan[i].request_state) = i
    BY <1>2
  <2>2. plan[i].request_state \in PlannedFor(plan)
    BY DEF PlannedFor
  <2>. QED  BY <2>1, <2>2 DEF Granted
<1>. QED  BY <1>2, <1>3 DEF Granted

(* What an item more does to a plan.                                        *)
LEMMA PlanWithItem ==
  ASSUME NEW plan \in Seq(PrefillWork), PlannedInOrder(plan), NEW item \in PrefillWork,
         \A i \in DOMAIN plan : plan[i].request_state < item.request_state,
         NEW rem \in [Requests -> Nat],
         LeftAfter(plan, rem) \in [Requests -> Nat],
         item.num_scheduled_tokens <= rem[item.request_state]
  PROVE  LET more == Append(plan, item)
         IN  /\ more \in Seq(PrefillWork) /\ PlannedInOrder(more)
             /\ PlannedFor(more) = PlannedFor(plan) \cup {item.request_state}
             /\ LeftAfter(more, rem) \in [Requests -> Nat]
             /\ Total(LeftAfter(plan, rem))
                  = Total(LeftAfter(more, rem)) + item.num_scheduled_tokens
             /\ TotalScheduledTokens(plan) \in Nat
             /\ TotalScheduledTokens(more)
                  = TotalScheduledTokens(plan) + item.num_scheduled_tokens
<1>. DEFINE more == Append(plan, item)
            r == item.request_state
            n == item.num_scheduled_tokens
            w == LeftAfter(plan, rem)
<1>1. /\ more \in Seq(PrefillWork) /\ Len(more) = Len(plan) + 1 /\ Len(plan) \in Nat
      /\ \A i \in 1 .. Len(plan) : more[i] = plan[i]
      /\ more[Len(plan) + 1] = item
      /\ DOMAIN plan = 1 .. Len(plan) /\ DOMAIN more = 1 .. Len(plan) + 1
  BY AppendProperties, LenProperties
<1>2. r \in Requests /\ n \in Nat
  BY DEF PrefillWork
<1>. HIDE DEF more
<1>3. PlannedInOrder(more)
  <2>1. ASSUME NEW i \in DOMAIN more, NEW j \in DOMAIN more, i < j
        PROVE  more[i].request_state < more[j].request_state
    <3>1. i \in DOMAIN plan /\ more[i] = plan[i]
      BY <1>1, <2>1
    <3>2. CASE j = Len(plan) + 1
      <4>1. plan[i].request_state < item.request_state /\ more[j] = item
        BY <1>1, <3>1, <3>2
      <4>. QED  BY <3>1, <4>1
    <3>3. CASE j # Len(plan) + 1
      <4>1. j \in DOMAIN plan /\ more[j] = plan[j]
        BY <1>1, <3>3
      <4>2. plan[i].request_state < plan[j].request_state
        BY <2>1, <3>1, <4>1 DEF PlannedInOrder
      <4>. QED  BY <3>1, <4>1, <4>2
    <3>. QED  BY <3>2, <3>3
  <2>. QED  BY <2>1 DEF PlannedInOrder
<1>4. PlannedFor(more) = PlannedFor(plan) \cup {r}
  <2>1. ASSUME NEW i \in DOMAIN more  PROVE more[i].request_state \in PlannedFor(plan) \cup {r}
    <3>1. CASE i = Len(plan) + 1
      BY <1>1, <3>1
    <3>2. CASE i # Len(plan) + 1
      <4>1. i \in DOMAIN plan /\ more[i] = plan[i]
        BY <1>1, <3>2
      <4>. QED  BY <4>1 DEF PlannedFor
    <3>. QED  BY <3>1, <3>2
  <2>2. ASSUME NEW i \in DOMAIN plan  PROVE plan[i].request_state \in PlannedFor(more)
    <3>1. i \in DOMAIN more /\ more[i] = plan[i]
      BY <1>1
    <3>. QED  BY <3>1 DEF PlannedFor
  <2>3. r \in PlannedFor(more)
    <3>1. Len(plan) + 1 \in DOMAIN more /\ more[Len(plan) + 1].request_state = r
      BY <1>1
    <3>. QED  BY <3>1 DEF PlannedFor
  <2>. HIDE DEF r
  <2>. QED  BY <2>1, <2>2, <2>3 DEF PlannedFor
<1>5. r \notin PlannedFor(plan)
  <2>1. \A i \in DOMAIN plan : plan[i].request_state \in Nat
    BY ItemsOfPlan
  <2>2. r \in Nat
    BY <1>2, RequestsFinite
  <2>3. \A i \in DOMAIN plan : plan[i].request_state # r
    BY <2>1, <2>2
  <2>. QED  BY <2>3 DEF PlannedFor
<1>6. Granted(more, r) = n /\ Granted(plan, r) = 0
  <2>1. Len(plan) + 1 \in DOMAIN more
    BY <1>1
  <2>2. Granted(more, more[Len(plan) + 1].request_state) = more[Len(plan) + 1].num_scheduled_tokens
    BY <1>1, <1>3, <2>1, GrantedByItems
  <2>3. Granted(plan, r) = 0
    BY <1>5, GrantedByItems
  <2>. QED  BY <1>1, <2>2, <2>3
<1>7. ASSUME NEW q \in Requests, q # r  PROVE Granted(more, q) = Granted(plan, q)
  <2>1. CASE q \in PlannedFor(plan)
    <3>1. PICK i \in DOMAIN plan : plan[i].request_state = q
      BY <2>1 DEF PlannedFor
    <3>2. i \in DOMAIN more /\ more[i] = plan[i]
      BY <1>1
    <3>3. Granted(plan, q) = plan[i].num_scheduled_tokens
      BY <3>1, GrantedByItems
    <3>4. Granted(more, q) = more[i].num_scheduled_tokens
      BY <1>1, <1>3, <3>1, <3>2, GrantedByItems
    <3>. QED  BY <3>2, <3>3, <3>4
  <2>2. CASE q \notin PlannedFor(plan)
    <3>1. q \notin PlannedFor(more)
      BY <1>4, <1>7, <2>2
    <3>. QED  BY <2>2, <3>1 DEF Granted
  <2>. QED  BY <2>1, <2>2
<1>8. w[r] = rem[r] /\ n <= w[r]
  <2>1. w[r] = rem[r] - 0
    BY <1>2, <1>6 DEF LeftAfter
  <2>2. rem[r] \in Nat
    BY <1>2
  <2>. QED  BY <2>1, <2>2
<1>9. ASSUME NEW q \in Requests
      PROVE  LeftAfter(more, rem)[q] = IF q = r THEN w[q] - n ELSE w[q]
  <2>1. LeftAfter(more, rem)[q] = rem[q] - Granted(more, q)
    BY DEF LeftAfter
  <2>2. CASE q = r
    BY <1>6, <1>8, <2>1, <2>2
  <2>3. CASE q # r
    <3>1. w[q] = rem[q] - Granted(plan, q)
      BY DEF LeftAfter
    <3>. QED  BY <1>7, <2>1, <2>3, <3>1
  <2>. QED  BY <2>2, <2>3
<1>10. LeftAfter(more, rem) \in [Requests -> Nat] /\ Total(w) = Total(LeftAfter(more, rem)) + n
  <2>1. w \in [Requests -> Nat]
    OBVIOUS
  <2>2. PICK v : v = LeftAfter(more, rem)
    OBVIOUS
  <2>. HIDE DEF w, r, n
  <2>3. \A q \in Requests : w[q] \in Nat /\ (q = r => w[q] - n \in Nat)
    BY <1>2, <1>8, <2>1
  <2>4. v \in [Requests -> Nat]
    <3>1. \A q \in Requests : v[q] \in Nat
      BY <1>9, <2>2, <2>3
    <3>2. v = [q \in Requests |-> v[q]]
      BY <2>2 DEF LeftAfter
    <3>. QED  BY <3>1, <3>2
  <2>5. w[r] = v[r] + n /\ \A q \in Requests \ {r} : w[q] = v[q]
    BY <1>2, <1>8, <1>9, <2>1, <2>2
  <2>6. Total(w) = Total(v) + n
    BY <1>2, <2>1, <2>4, <2>5, TotalOfOneLess
  <2>. QED  BY <2>2, <2>4, <2>6
<1>11. /\ TotalScheduledTokens(plan) \in Nat
       /\ TotalScheduledTokens(more) = TotalScheduledTokens(plan) + n
  <2>. DEFINE s == [i \in DOMAIN plan |-> plan[i].num_scheduled_tokens]
              t == [i \in DOMAIN more |-> more[i].num_scheduled_tokens]
  <2>1. s \in Seq(Nat) /\ Len(s) = Len(plan) /\ DOMAIN s = DOMAIN plan
    <3>1. \A i \in 1 .. Len(plan) : plan[i].num_scheduled_tokens \in Nat
      BY <1>1, ItemsOfPlan
    <3>2. s \in Seq(Nat)
      BY <1>1, <3>1, SeqDef
    <3>. QED  BY <1>1, <3>2, LenProperties
  <2>2. t = Append(s, n)
    <3>1. /\ DOMAIN Append(s, n) = 1 .. Len(plan) + 1 /\ Append(s, n)[Len(plan) + 1] = n
          /\ \A i \in 1 .. Len(plan) : Append(s, n)[i] = s[i]
          /\ Append(s, n) \in Seq(Nat)
      <4>. HIDE DEF s, n
      <4>. QED  BY <1>2, <2>1, AppendProperties, LenProperties
    <3>2. DOMAIN t = 1 .. Len(plan) + 1
      BY <1>1
    <3>3. ASSUME NEW i \in 1 .. Len(plan) + 1  PROVE t[i] = Append(s, n)[i]
      <4>1. CASE i \in 1 .. Len(plan)
        <5>1. t[i] = more[i].num_scheduled_tokens /\ s[i] = plan[i].num_scheduled_tokens
          BY <1>1, <4>1
        <5>. QED  BY <1>1, <3>1, <4>1, <5>1
      <4>2. CASE i = Len(plan) + 1
        <5>1. t[i] = more[i].num_scheduled_tokens
          BY <1>1
        <5>. QED  BY <1>1, <3>1, <4>2, <5>1
      <4>. QED  BY <1>1, <4>1, <4>2
    <3>4. t = [i \in 1 .. Len(plan) + 1 |-> t[i]]
          /\ Append(s, n) = [i \in 1 .. Len(plan) + 1 |-> Append(s, n)[i]]
      <4>1. t = [i \in DOMAIN t |-> t[i]]
        OBVIOUS
      <4>2. Append(s, n) = [i \in DOMAIN Append(s, n) |-> Append(s, n)[i]]
        <5>. HIDE DEF s, n
        <5>1. Append(s, n) \in [1 .. Len(Append(s, n)) -> Nat]
          BY <3>1, LenProperties, ElementOfSeq
        <5>. QED  BY <5>1
      <4>. HIDE DEF t, s, n
      <4>. QED  BY <3>1, <3>2, <4>1, <4>2
    <3>. HIDE DEF t, s, n
    <3>. QED  BY <3>3, <3>4
  <2>3. TotalScheduledTokens(plan) = SumFunctionOnSet(s, DOMAIN s)
        /\ TotalScheduledTokens(more) = SumFunctionOnSet(t, DOMAIN t)
    BY DEF TotalScheduledTokens, SumFunction
  <2>. HIDE DEF s, t, n
  <2>. QED  BY <1>2, <2>1, <2>2, <2>3, SumOfAppend
<1>. QED  BY <1>1, <1>3, <1>4, <1>10, <1>11 DEF more

-----------------------------------------------------------------------------
(* The loop that makes a plan *)

Scheduled == [plan : Seq(PrefillWork), budget : Nat \cup {Unlimited}]

ItemsRight(plan, rem, spent) ==
  \A i \in DOMAIN plan :
    /\ plan[i].num_scheduled_tokens <= rem[plan[i].request_state]
    /\ plan[i].num_scheduled_tokens # rem[plan[i].request_state] => i = Len(plan) /\ spent

NobodyLeftOut(plan, rem) ==
  \A i \in DOMAIN plan : \A r \in Requests :
    r < plan[i].request_state /\ rem[r] > 0 =>
      \E j \in DOMAIN plan : j < i /\ plan[j].request_state = r

BudgetKept(acc, b) ==
  /\ acc.budget = Unlimited <=> b = Unlimited
  /\ b # Unlimited => acc.budget + TotalScheduledTokens(acc.plan) = b

TokensKept(plan, rem) ==
  /\ LeftAfter(plan, rem) \in [Requests -> Nat]
  /\ TotalScheduledTokens(plan) \in Nat
  /\ Total(LeftAfter(plan, rem)) + TotalScheduledTokens(plan) = Total(rem)

(* After the first k candidates of c.                                       *)
Filling(acc, c, k, rem, b) ==
  /\ acc \in Scheduled
  /\ PlannedInOrder(acc.plan)
  /\ \A i \in DOMAIN acc.plan : \E j \in 1 .. k : acc.plan[i].request_state = c[j]
  /\ BudgetKept(acc, b)
  /\ ItemsRight(acc.plan, rem, acc.budget = 0)
  /\ acc.budget # 0 => \A j \in 1 .. k : rem[c[j]] > 0 => c[j] \in PlannedFor(acc.plan)
  /\ NobodyLeftOut(acc.plan, rem)
  /\ TokensKept(acc.plan, rem)

(* What the next request is granted.                                        *)
LEMMA GrantRight ==
  ASSUME NEW m \in Nat, NEW left \in Nat \cup {Unlimited}
  PROVE  /\ Grant(m, left) \in Nat /\ Grant(m, left) <= m
         /\ left # Unlimited => Grant(m, left) <= left
         /\ Grant(m, left) # m => left # Unlimited /\ Grant(m, left) = left
         /\ Grant(m, left) = 0 => m = 0 \/ left = 0
<1>1. CASE left = Unlimited
  BY <1>1, LlamaWorkAssumption DEF Grant
<1>2. CASE left # Unlimited
  <2>1. left \in Nat
    BY <1>2
  <2>. QED  BY <1>2, <2>1 DEF Grant
<1>. QED  BY <1>1, <1>2

(* One iteration.                                                           *)
LEMMA FillingGoesOn ==
  ASSUME NEW c \in Seq(Requests), Ascending(c), NEW rem \in [Requests -> Nat],
         \A r \in Requests : rem[r] > 0 => r \in Range(c),
         NEW b \in Nat \cup {Unlimited}, NEW k \in Nat, k < Len(c), NEW acc,
         Filling(acc, c, k, rem, b)
  PROVE  Filling(Schedule(acc, c[k + 1], rem), c, k + 1, rem, b)
<1>. DEFINE r == c[k + 1]
            n == Grant(rem[r], acc.budget)
            plan == acc.plan
<1>1. /\ DOMAIN c = 1 .. Len(c) /\ Len(c) \in Nat /\ (\A j \in 1 .. Len(c) : c[j] \in Requests)
      /\ k + 1 \in 1 .. Len(c)
  BY LenProperties, ElementOfSeq
<1>2. r \in Requests /\ rem[r] \in Nat
  BY <1>1
<1>3. /\ plan \in Seq(PrefillWork) /\ acc.budget \in Nat \cup {Unlimited}
      /\ acc = [plan |-> plan, budget |-> acc.budget]
  BY DEF Filling, Scheduled
<1>4. /\ n \in Nat /\ n <= rem[r] /\ (acc.budget # Unlimited => n <= acc.budget)
      /\ (n # rem[r] => acc.budget # Unlimited /\ n = acc.budget)
      /\ (n = 0 => rem[r] = 0 \/ acc.budget = 0)
  BY <1>2, <1>3, GrantRight
<1>5. \A j \in 1 .. k + 1 : j \in 1 .. k \/ j = k + 1
  OBVIOUS
<1>6. CASE n <= 0
  <2>1. Schedule(acc, r, rem) = acc
    BY <1>6 DEF Schedule
  <2>2. acc.budget # 0 => ~ (rem[r] > 0)
    BY <1>4, <1>6
  <2>3. acc.budget # 0 => \A j \in 1 .. k + 1 : rem[c[j]] > 0 => c[j] \in PlannedFor(plan)
    BY <1>5, <2>2 DEF Filling
  <2>4. \A i \in DOMAIN plan : \E j \in 1 .. k + 1 : plan[i].request_state = c[j]
    <3>1. \A j \in 1 .. k : j \in 1 .. k + 1
      OBVIOUS
    <3>. QED  BY <3>1 DEF Filling
  <2>. QED  BY <2>1, <2>3, <2>4 DEF Filling
<1>7. CASE ~ (n <= 0)
  <2>. DEFINE item == Work(r, n, "prefill")
              more == Append(plan, item)
              left == IF acc.budget = Unlimited THEN Unlimited ELSE acc.budget - n
              next == [plan |-> more, budget |-> left]
  <2>1. Schedule(acc, r, rem) = next
    BY <1>7 DEF Schedule
  <2>2. item \in PrefillWork /\ item.request_state = r /\ item.num_scheduled_tokens = n
    <3>1. n \in Nat \ {0}
      BY <1>4, <1>7
    <3>. QED  BY <1>2, <3>1 DEF Work, PrefillWork
  <2>3. ASSUME NEW i \in DOMAIN plan  PROVE plan[i].request_state < r
    <3>1. PICK j \in 1 .. k : plan[i].request_state = c[j]
      BY DEF Filling
    <3>2. j \in DOMAIN c /\ k + 1 \in DOMAIN c /\ j < k + 1
      BY <1>1
    <3>. QED  BY <3>1, <3>2 DEF Ascending
  <2>. HIDE DEF item, n, r
  <2>4. /\ PlannedInOrder(plan) /\ LeftAfter(plan, rem) \in [Requests -> Nat]
        /\ TotalScheduledTokens(plan) \in Nat
        /\ Total(LeftAfter(plan, rem)) + TotalScheduledTokens(plan) = Total(rem)
    BY DEF Filling, TokensKept
  <2>5. /\ more \in Seq(PrefillWork) /\ PlannedInOrder(more)
        /\ PlannedFor(more) = PlannedFor(plan) \cup {r}
        /\ LeftAfter(more, rem) \in [Requests -> Nat]
        /\ Total(LeftAfter(plan, rem)) = Total(LeftAfter(more, rem)) + n
        /\ TotalScheduledTokens(more) = TotalScheduledTokens(plan) + n
    <3>1. /\ \A i \in DOMAIN plan : plan[i].request_state < item.request_state
          /\ item.num_scheduled_tokens <= rem[item.request_state]
      BY <1>4, <2>2, <2>3
    <3>2. /\ more \in Seq(PrefillWork) /\ PlannedInOrder(more)
          /\ PlannedFor(more) = PlannedFor(plan) \cup {item.request_state}
          /\ LeftAfter(more, rem) \in [Requests -> Nat]
          /\ Total(LeftAfter(plan, rem))
               = Total(LeftAfter(more, rem)) + item.num_scheduled_tokens
          /\ TotalScheduledTokens(more) = TotalScheduledTokens(plan) + item.num_scheduled_tokens
      BY <1>3, <2>2, <2>4, <3>1, PlanWithItem
    <3>. QED  BY <2>2, <3>2
  <2>6. /\ DOMAIN plan = 1 .. Len(plan) /\ DOMAIN more = 1 .. Len(plan) + 1
        /\ Len(plan) \in Nat /\ Len(more) = Len(plan) + 1
        /\ \A i \in 1 .. Len(plan) : more[i] = plan[i]
        /\ more[Len(plan) + 1] = item
    BY <1>3, <2>2, AppendProperties, LenProperties
  <2>7. acc.budget # 0
    BY <1>4, <1>7, LlamaWorkAssumption
  <2>8. left \in Nat \cup {Unlimited} /\ (left = Unlimited <=> acc.budget = Unlimited)
    <3>1. CASE acc.budget = Unlimited
      BY <3>1
    <3>2. CASE acc.budget # Unlimited
      <4>1. acc.budget \in Nat /\ n <= acc.budget
        BY <1>3, <1>4, <3>2
      <4>2. acc.budget - n \in Nat
        BY <1>4, <4>1
      <4>. QED  BY <3>2, <4>2, LlamaWorkAssumption
    <3>. QED  BY <3>1, <3>2
  <2>. HIDE DEF more
  <2>9. next \in Scheduled /\ next.plan = more /\ next.budget = left
    <3>. HIDE DEF left
    <3>. QED  BY <2>5, <2>8 DEF Scheduled
  <2>10. BudgetKept(next, b)
    <3>1. BudgetKept(acc, b)
      BY DEF Filling
    <3>2. ASSUME b # Unlimited  PROVE left + TotalScheduledTokens(more) = b
      <4>1. acc.budget # Unlimited /\ acc.budget + TotalScheduledTokens(plan) = b
        BY <3>1, <3>2 DEF BudgetKept
      <4>2. acc.budget \in Nat /\ left = acc.budget - n
        BY <1>3, <4>1
      <4>3. /\ n \in Nat /\ TotalScheduledTokens(plan) \in Nat
            /\ TotalScheduledTokens(more) = TotalScheduledTokens(plan) + n
        BY <1>4, <2>4, <2>5
      <4>4. \A x, y, z \in Nat : (x - z) + (y + z) = x + y
        OBVIOUS
      <4>5. (acc.budget - n) + (TotalScheduledTokens(plan) + n)
              = acc.budget + TotalScheduledTokens(plan)
        BY <4>2, <4>3, <4>4
      <4>. HIDE DEF left
      <4>. QED  BY <4>1, <4>2, <4>3, <4>5
    <3>3. left = Unlimited <=> b = Unlimited
      BY <2>8, <3>1 DEF BudgetKept
    <3>. HIDE DEF left, next
    <3>. QED  BY <2>9, <3>2, <3>3 DEF BudgetKept
  <2>11. ItemsRight(more, rem, left = 0)
    <3>1. ASSUME NEW i \in 1 .. Len(plan)
          PROVE  more[i].num_scheduled_tokens = rem[more[i].request_state]
                 /\ rem[more[i].request_state] \in Nat
      <4>1. ItemsRight(plan, rem, acc.budget = 0)
        BY DEF Filling
      <4>2. plan[i].num_scheduled_tokens = rem[plan[i].request_state]
        BY <2>6, <2>7, <4>1 DEF ItemsRight
      <4>3. plan[i].request_state \in Requests
        BY <1>3, <2>6, ItemsOfPlan
      <4>. QED  BY <2>6, <4>2, <4>3
    <3>2. ASSUME n # rem[r]  PROVE left = 0
      BY <1>3, <1>4, <3>2
    <3>3. ASSUME NEW i \in DOMAIN more
          PROVE  /\ more[i].num_scheduled_tokens <= rem[more[i].request_state]
                 /\ more[i].num_scheduled_tokens # rem[more[i].request_state] =>
                      i = Len(more) /\ left = 0
      <4>1. CASE i \in 1 .. Len(plan)
        BY <3>1, <4>1
      <4>2. CASE i = Len(plan) + 1
        <5>1. more[i].request_state = r /\ more[i].num_scheduled_tokens = n
          BY <2>2, <2>6, <4>2
        <5>. HIDE DEF left
        <5>. QED  BY <1>4, <2>6, <3>2, <4>2, <5>1
      <4>. QED  BY <2>6, <4>1, <4>2
    <3>. HIDE DEF left
    <3>. QED  BY <3>3 DEF ItemsRight
  <2>12. ASSUME NEW j \in 1 .. k + 1, rem[c[j]] > 0  PROVE c[j] \in PlannedFor(more)
    <3>1. CASE j = k + 1
      BY <2>5, <3>1 DEF r
    <3>2. CASE j # k + 1
      <4>1. j \in 1 .. k
        BY <1>5, <3>2
      <4>2. c[j] \in PlannedFor(plan)
        BY <2>7, <2>12, <4>1 DEF Filling
      <4>. QED  BY <2>5, <4>2
    <3>. QED  BY <3>1, <3>2
  <2>13. NobodyLeftOut(more, rem)
    <3>1. NobodyLeftOut(plan, rem)
      BY DEF Filling
    <3>. SUFFICES ASSUME NEW i \in DOMAIN more, NEW q \in Requests,
                         q < more[i].request_state, rem[q] > 0
                  PROVE  \E j \in DOMAIN more : j < i /\ more[j].request_state = q
      BY DEF NobodyLeftOut
    <3>2. CASE i \in 1 .. Len(plan)
      <4>1. i \in DOMAIN plan /\ more[i] = plan[i]
        BY <2>6, <3>2
      <4>2. PICK j \in DOMAIN plan : j < i /\ plan[j].request_state = q
        BY <3>1, <4>1 DEF NobodyLeftOut
      <4>3. j \in DOMAIN more /\ more[j] = plan[j]
        BY <2>6
      <4>. QED  BY <4>2, <4>3
    <3>3. CASE i = Len(plan) + 1
      <4>1. q < r
        BY <2>2, <2>6, <3>3
      <4>2. PICK j \in DOMAIN c : c[j] = q
        BY DEF Range
      <4>3. j \in 1 .. k
        <5>1. j \in 1 .. Len(c) /\ k + 1 \in DOMAIN c
          BY <1>1
        <5>2. j # k + 1 /\ ~ (k + 1 < j)
          <6>1. r \in Nat /\ q \in Nat
            BY <1>2, RequestsFinite
          <6>2. r = c[k + 1] /\ ~ (r < q) /\ r # q
            BY <4>1, <6>1 DEF r
          <6>. QED  BY <4>2, <5>1, <6>2 DEF Ascending
        <5>. QED  BY <1>1, <5>1, <5>2
      <4>4. q \in PlannedFor(plan)
        BY <2>7, <4>2, <4>3 DEF Filling
      <4>5. PICK l \in DOMAIN plan : plan[l].request_state = q
        BY <4>4 DEF PlannedFor
      <4>6. l \in DOMAIN more /\ more[l] = plan[l] /\ l < i
        BY <2>6, <3>3
      <4>. QED  BY <4>5, <4>6
    <3>. QED  BY <2>6, <3>2, <3>3
  <2>14. TokensKept(more, rem)
    <3>1. Total(LeftAfter(more, rem)) \in Nat
      BY <2>5, TotalIsNat
    <3>2. TotalScheduledTokens(more) \in Nat
      BY <1>4, <2>4, <2>5
    <3>3. Total(LeftAfter(more, rem)) + TotalScheduledTokens(more) = Total(rem)
      BY <1>4, <2>4, <2>5, <3>1
    <3>. QED  BY <2>5, <3>2, <3>3 DEF TokensKept
  <2>15. \A i \in DOMAIN more : \E j \in 1 .. k + 1 : more[i].request_state = c[j]
    <3>1. ASSUME NEW i \in 1 .. Len(plan)
          PROVE  \E j \in 1 .. k + 1 : more[i].request_state = c[j]
      <4>1. PICK j \in 1 .. k : plan[i].request_state = c[j]
        BY <2>6 DEF Filling
      <4>2. j \in 1 .. k + 1
        OBVIOUS
      <4>. QED  BY <2>6, <4>1, <4>2
    <3>2. k + 1 \in 1 .. k + 1 /\ more[Len(plan) + 1].request_state = c[k + 1]
      BY <2>2, <2>6 DEF r
    <3>3. \A i \in DOMAIN more : i \in 1 .. Len(plan) \/ i = Len(plan) + 1
      BY <2>6
    <3>. QED  BY <3>1, <3>2, <3>3
  <2>. HIDE DEF left, next
  <2>16. Filling(next, c, k + 1, rem, b)
    BY <2>5, <2>9, <2>10, <2>11, <2>12, <2>13, <2>14, <2>15 DEF Filling
  <2>. QED  BY <2>1, <2>16 DEF r
<1>. QED  BY <1>6, <1>7

(* What a plan spends of the budget b.                                      *)
Spends(tokens, rem, b) ==
  tokens = IF b = Unlimited \/ b >= Total(rem) THEN Total(rem) ELSE b

(* The plan for candidates in slot order, if all who have tokens to prefill *)
(* are among them.                                                          *)
LEMMA PlanMade ==
  ASSUME NEW c \in Seq(Requests), Ascending(c), NEW rem \in [Requests -> Nat],
         \A r \in Requests : rem[r] > 0 => r \in Range(c),
         NEW b \in Nat \cup {Unlimited}
  PROVE  LET plan == BuildPrefillWorkPlan(c, rem, b)
         IN  /\ PlanRight(plan, rem, b) /\ TokensKept(plan, rem)
             /\ Spends(TotalScheduledTokens(plan), rem, b)
<1>. DEFINE n == Len(c)
            X == Scheduled
            first == [plan |-> << >>, budget |-> b]
            step == [i \in 1 .. n |-> [acc \in X |-> Schedule(acc, c[i], rem)]]
            Plans(f) == f = [i \in 0 .. n |->
                               IF i = 0 THEN [plan |-> << >>, budget |-> b]
                               ELSE Schedule(f[i - 1], c[i], rem)]
            after == CHOOSE f : Plans(f)
<1>1. n \in Nat /\ (\A i \in 1 .. n : c[i] \in Requests) /\ DOMAIN c = 1 .. n
  BY LenProperties, ElementOfSeq
<1>2. first \in X
  <2>1. << >> \in Seq(PrefillWork)
    BY EmptySeq
  <2>. QED  BY <2>1 DEF Scheduled
<1>3. ASSUME NEW i \in 1 .. n, NEW acc \in X  PROVE Schedule(acc, c[i], rem) \in X
  <2>1. /\ acc.plan \in Seq(PrefillWork) /\ acc.budget \in Nat \cup {Unlimited}
        /\ c[i] \in Requests /\ rem[c[i]] \in Nat
    BY <1>1 DEF Scheduled
  <2>. DEFINE m == Grant(rem[c[i]], acc.budget)
  <2>2. m \in Nat /\ (acc.budget # Unlimited => m <= acc.budget)
    BY <2>1, GrantRight
  <2>3. CASE m <= 0
    BY <2>3 DEF Schedule
  <2>4. CASE ~ (m <= 0)
    <3>1. Work(c[i], m, "prefill") \in PrefillWork
      <4>1. m \in Nat \ {0}
        BY <2>2, <2>4
      <4>. QED  BY <2>1, <4>1 DEF Work, PrefillWork
    <3>2. Append(acc.plan, Work(c[i], m, "prefill")) \in Seq(PrefillWork)
      BY <2>1, <3>1, AppendProperties
    <3>3. (IF acc.budget = Unlimited THEN Unlimited ELSE acc.budget - m) \in Nat \cup {Unlimited}
      <4>1. CASE acc.budget # Unlimited
        <5>1. acc.budget \in Nat /\ m <= acc.budget
          BY <2>1, <2>2, <4>1
        <5>2. acc.budget - m \in Nat
          BY <2>2, <5>1
        <5>. QED  BY <4>1, <5>2
      <4>. QED  BY <4>1
    <3>. QED  BY <2>4, <3>2, <3>3 DEF Schedule, Scheduled
  <2>. QED  BY <2>3, <2>4
<1>4. Plans(after)
  <2>1. step \in [1 .. n -> [X -> X]]
    BY <1>3
  <2>2. \A i \in 1 .. n, acc \in X : step[i][acc] = Schedule(acc, c[i], rem)
    OBVIOUS
  <2>. HIDE DEF step, n, first, X
  <2>3. Computable(n, X, first, step)
    BY <1>1, <1>2, <2>1, Recursion
  <2>4. PICK f \in [0 .. n -> X] :
          f[0] = first /\ \A i \in 1 .. n : f[i] = step[i][f[i - 1]]
    BY <2>3 DEF Computable
  <2>5. ASSUME NEW i \in 0 .. n, i # 0
        PROVE  f[i] = Schedule(f[i - 1], c[i], rem)
    <3>1. i \in 1 .. n /\ f[i - 1] \in X
      BY <1>1, <2>5
    <3>. QED  BY <2>2, <2>4, <3>1
  <2>6. f = [i \in 0 .. n |-> IF i = 0 THEN [plan |-> << >>, budget |-> b]
                              ELSE Schedule(f[i - 1], c[i], rem)]
    BY <1>1, <2>4, <2>5 DEF first
  <2>7. Plans(f)
    BY <2>6
  <2>. HIDE DEF Plans
  <2>. QED  BY <2>7
<1>5. BuildPrefillWorkPlan(c, rem, b) = after[n].plan
  BY DEF BuildPrefillWorkPlan
<1>6. /\ after[0] = first
      /\ \A i \in 0 .. n - 1 : after[i + 1] = Schedule(after[i], c[i + 1], rem)
  <2>1. ASSUME NEW i \in 0 .. n
        PROVE  after[i] = IF i = 0 THEN first ELSE Schedule(after[i - 1], c[i], rem)
    <3>. HIDE DEF after, n
    <3>. QED  BY <1>4
  <2>2. \A i \in 0 .. n - 1 : i + 1 \in 0 .. n /\ i + 1 # 0 /\ (i + 1) - 1 = i
    BY <1>1
  <2>3. 0 \in 0 .. n
    BY <1>1
  <2>. HIDE DEF after, n, first
  <2>. QED  BY <2>1, <2>2, <2>3
<1>. HIDE DEF after
<1>. DEFINE Good == {i \in 0 .. n : Filling(after[i], c, i, rem, b)}
<1>7. 0 \in Good
  <2>1. /\ PlannedInOrder(<< >>) /\ PlannedFor(<< >>) = {} /\ NobodyLeftOut(<< >>, rem)
        /\ ItemsRight(<< >>, rem, b = 0) /\ \A i \in DOMAIN << >> : FALSE
    BY DEF PlannedInOrder, PlannedFor, NobodyLeftOut, ItemsRight
  <2>2. TotalScheduledTokens(<< >>) = 0
    <3>1. [i \in DOMAIN << >> |-> << >>[i].num_scheduled_tokens] = << >> /\ DOMAIN << >> = {}
      OBVIOUS
    <3>2. PICK w \in [{} -> Nat] : w = << >>
      <4>1. << >> \in [1 .. Len(<< >>) -> Nat] /\ Len(<< >>) = 0
        BY EmptySeq, LenProperties, ElementOfSeq
      <4>2. 1 .. 0 = {}
        OBVIOUS
      <4>. QED  BY <4>1, <4>2
    <3>3. SumFunctionOnSet(w, {}) = 0
      <4>1. IsFiniteSet({})
        BY FS_EmptySet
      <4>. QED  BY <4>1, SumOfZeros
    <3>. QED  BY <3>1, <3>2, <3>3 DEF TotalScheduledTokens, SumFunction
  <2>3. LeftAfter(<< >>, rem) = rem
    BY <2>1 DEF LeftAfter, Granted
  <2>4. TokensKept(<< >>, rem)
    <3>1. Total(rem) \in Nat
      BY TotalIsNat
    <3>. QED  BY <2>2, <2>3, <3>1 DEF TokensKept
  <2>5. BudgetKept(first, b)
    <3>1. b # Unlimited => b + 0 = b
      OBVIOUS
    <3>. QED  BY <2>2, <3>1 DEF BudgetKept
  <2>6. first.plan = << >> /\ first.budget = b
    OBVIOUS
  <2>. HIDE DEF first
  <2>7. Filling(first, c, 0, rem, b)
    BY <1>2, <2>1, <2>4, <2>5, <2>6 DEF Filling
  <2>. QED  BY <1>1, <1>6, <2>7
<1>8. ASSUME NEW k \in 0 .. n - 1, k \in Good  PROVE k + 1 \in Good
  <2>1. k \in Nat /\ k < Len(c) /\ Filling(after[k], c, k, rem, b) /\ k + 1 \in 0 .. n
    BY <1>1, <1>8
  <2>2. Filling(Schedule(after[k], c[k + 1], rem), c, k + 1, rem, b)
    BY <2>1, FillingGoesOn
  <2>. QED  BY <1>6, <2>1, <2>2
<1>9. Filling(after[n], c, n, rem, b)
  <2>1. \A k \in 0 .. n : k \in Good
    <3>. HIDE DEF Good, n
    <3>. QED  BY <1>1, <1>7, <1>8, CountingUp
  <2>. QED  BY <1>1, <2>1
<1>10. PICK acc : acc = after[n]
  OBVIOUS
<1>11. PICK plan : plan = acc.plan
  OBVIOUS
<1>12. /\ plan \in Seq(PrefillWork) /\ acc.budget \in Nat \cup {Unlimited}
       /\ PlannedInOrder(plan) /\ BudgetKept(acc, b)
       /\ ItemsRight(plan, rem, acc.budget = 0)
       /\ acc.budget # 0 => \A j \in 1 .. n : rem[c[j]] > 0 => c[j] \in PlannedFor(plan)
       /\ NobodyLeftOut(plan, rem) /\ TokensKept(plan, rem)
  BY <1>9, <1>10, <1>11 DEF Filling, Scheduled
<1>13. acc.budget = 0 => b # Unlimited
  BY <1>12, LlamaWorkAssumption DEF BudgetKept
<1>14. PlanRight(plan, rem, b)
  BY <1>12, <1>13 DEF PlanRight, ItemsRight, NobodyLeftOut
<1>15. /\ Total(LeftAfter(plan, rem)) \in Nat /\ TotalScheduledTokens(plan) \in Nat
       /\ Total(LeftAfter(plan, rem)) + TotalScheduledTokens(plan) = Total(rem)
  BY <1>12, TotalIsNat DEF TokensKept
<1>16. Spends(TotalScheduledTokens(plan), rem, b)
  <2>1. CASE acc.budget = 0
    <3>1. b # Unlimited /\ b \in Nat /\ 0 + TotalScheduledTokens(plan) = b
      BY <1>11, <1>12, <1>13, <2>1 DEF BudgetKept
    <3>2. TotalScheduledTokens(plan) = b /\ b <= Total(rem)
      BY <1>15, <3>1
    <3>3. Total(rem) \in Nat
      BY TotalIsNat
    <3>. QED  BY <3>1, <3>2, <3>3 DEF Spends
  <2>2. CASE acc.budget # 0
    <3>1. ASSUME NEW r \in Requests  PROVE LeftAfter(plan, rem)[r] = 0
      <4>1. LeftAfter(plan, rem)[r] = rem[r] - Granted(plan, r) /\ rem[r] \in Nat
        BY DEF LeftAfter
      <4>2. CASE r \in PlannedFor(plan)
        <5>1. PICK i \in DOMAIN plan : plan[i].request_state = r
          BY <4>2 DEF PlannedFor
        <5>2. Granted(plan, r) = plan[i].num_scheduled_tokens
          BY <1>12, <5>1, GrantedByItems
        <5>3. plan[i].num_scheduled_tokens = rem[r]
          BY <1>12, <2>2, <5>1 DEF ItemsRight
        <5>. QED  BY <4>1, <5>2, <5>3
      <4>3. CASE r \notin PlannedFor(plan)
        <5>1. ~ (rem[r] > 0)
          <6>1. ASSUME rem[r] > 0  PROVE FALSE
            <7>1. PICK j \in 1 .. n : c[j] = r
              BY <1>1, <6>1 DEF Range
            <7>. QED  BY <1>12, <2>2, <4>3, <6>1, <7>1
          <6>. QED  BY <6>1
        <5>2. Granted(plan, r) = 0
          BY <4>3 DEF Granted
        <5>. QED  BY <4>1, <5>1, <5>2
      <4>. QED  BY <4>2, <4>3
    <3>2. Total(LeftAfter(plan, rem)) = 0
      BY <1>12, <3>1, TotalIsNat DEF TokensKept
    <3>3. TotalScheduledTokens(plan) = Total(rem)
      BY <1>15, <3>2
    <3>4. b # Unlimited => b >= Total(rem)
      <4>1. ASSUME b # Unlimited  PROVE b >= TotalScheduledTokens(plan)
        <5>1. /\ acc.budget # Unlimited /\ acc.budget + TotalScheduledTokens(plan) = b
              /\ acc.budget \in Nat
          BY <1>11, <1>12, <4>1 DEF BudgetKept
        <5>. QED  BY <1>15, <5>1
      <4>. QED  BY <3>3, <4>1
    <3>. QED  BY <3>3, <3>4 DEF Spends
  <2>. QED  BY <2>1, <2>2
<1>17. BuildPrefillWorkPlan(c, rem, b) = plan
  BY <1>5, <1>10, <1>11
<1>. QED  BY <1>12, <1>14, <1>16, <1>17

-----------------------------------------------------------------------------
(* Facts about plans that the steps need *)

(* Nothing planned.                                                         *)
LEMMA EmptyPlan ==
  ASSUME NEW rem \in [Requests -> Nat], NEW b
  PROVE  PlanRight(<< >>, rem, b) /\ LeftAfter(<< >>, rem) = rem
<1>1. << >> \in Seq(PrefillWork) /\ \A i \in DOMAIN << >> : FALSE
  BY EmptySeq
<1>2. PlanRight(<< >>, rem, b)
  BY <1>1 DEF PlanRight, PlannedInOrder
<1>3. \A r : Granted(<< >>, r) = 0
  BY DEF Granted, PlannedFor
<1>. QED  BY <1>2, <1>3 DEF LeftAfter

(* The candidate plan is taken apart as it was put together.                *)
LEMMA PartsOfPlan ==
  ASSUME NEW P \in Seq(PrefillWork), NEW d \in Seq(Requests)
  PROVE  LET D    == BuildDecodeWorkPlan(d)
             plan == P \o D
         IN  /\ WorkOfKind(plan, "prefill") = P /\ WorkOfKind(plan, "decode") = D
             /\ Len(plan) = Len(P) + Len(D)
<1>. DEFINE Items == [request_state : Requests, num_scheduled_tokens : Nat,
                      kind : {"prefill", "decode"}]
            D == BuildDecodeWorkPlan(d)
            plan == P \o D
            Kind(k) == {w \in Range(plan) : w.kind = k}
<1>1. Len(d) \in Nat /\ \A i \in 1 .. Len(d) : d[i] \in Requests
  BY LenProperties, ElementOfSeq
<1>2. D \in Seq(Items) /\ Len(D) = Len(d) /\ DOMAIN D = 1 .. Len(d)
      /\ \A i \in 1 .. Len(d) : D[i].kind = "decode"
  <2>1. \A i \in 1 .. Len(d) : Work(d[i], 1, "decode") \in Items
    BY <1>1 DEF Work
  <2>2. D = [i \in 1 .. Len(d) |-> Work(d[i], 1, "decode")]
    BY DEF BuildDecodeWorkPlan
  <2>3. D \in [1 .. Len(d) -> Items]
    <3>. HIDE DEF D, Items
    <3>. QED  BY <2>1, <2>2
  <2>4. D \in Seq(Items)
    <3>. HIDE DEF D, Items
    <3>. QED  BY <1>1, <2>3, SeqDef
  <2>5. \A i \in 1 .. Len(d) : D[i].kind = "decode"
    BY <2>2 DEF Work
  <2>6. DOMAIN D = 1 .. Len(d)
    BY <2>2
  <2>. HIDE DEF D, Items
  <2>7. Len(D) = Len(d)
    BY <1>1, <2>4, <2>6, LenProperties
  <2>. QED  BY <2>4, <2>5, <2>6, <2>7
<1>3. P \in Seq(Items) /\ DOMAIN P = 1 .. Len(P) /\ Len(P) \in Nat
      /\ \A i \in 1 .. Len(P) : P[i].kind = "prefill"
  <2>1. \A i \in 1 .. Len(P) : P[i] \in PrefillWork
    BY ElementOfSeq
  <2>2. \A w \in PrefillWork : w \in Items /\ w.kind = "prefill"
    BY DEF PrefillWork
  <2>3. DOMAIN P = 1 .. Len(P) /\ Len(P) \in Nat /\ P \in [1 .. Len(P) -> PrefillWork]
    BY LenProperties, ElementOfSeq
  <2>4. P \in [1 .. Len(P) -> Items]
    <3>. HIDE DEF Items
    <3>. QED  BY <2>1, <2>2, <2>3
  <2>5. P \in Seq(Items)
    <3>. HIDE DEF Items
    <3>. QED  BY <2>3, <2>4, SeqDef
  <2>. QED  BY <2>1, <2>2, <2>3, <2>5
<1>. HIDE DEF D, Items
<1>4. /\ plan \in Seq(Items) /\ Len(plan) = Len(P) + Len(D) /\ DOMAIN plan = 1 .. Len(plan)
      /\ \A i \in 1 .. Len(P) + Len(D) : plan[i] = IF i <= Len(P) THEN P[i] ELSE D[i - Len(P)]
  <2>1. /\ P \o D \in Seq(Items) /\ Len(P \o D) = Len(P) + Len(D)
        /\ \A i \in 1 .. Len(P) + Len(D) :
             (P \o D)[i] = IF i <= Len(P) THEN P[i] ELSE D[i - Len(P)]
    <3>1. P \in Seq(Items) /\ D \in Seq(Items)
      BY <1>2, <1>3
    <3>. QED  BY <3>1, ConcatProperties
  <2>. QED  BY <2>1, LenProperties
<1>. HIDE DEF plan
<1>5. Range(P) \subseteq Range(plan) /\ Range(D) \subseteq Range(plan)
  <2>1. ASSUME NEW i \in DOMAIN P  PROVE P[i] \in Range(plan)
    <3>1. i \in DOMAIN plan /\ plan[i] = P[i]
      BY <1>1, <1>2, <1>3, <1>4
    <3>. QED  BY <3>1 DEF Range
  <2>2. ASSUME NEW i \in DOMAIN D  PROVE D[i] \in Range(plan)
    <3>1. /\ Len(P) + i \in 1 .. Len(P) + Len(D) /\ ~ (Len(P) + i <= Len(P))
          /\ (Len(P) + i) - Len(P) = i
      BY <1>1, <1>2, <1>3
    <3>2. Len(P) + i \in DOMAIN plan /\ plan[Len(P) + i] = D[i]
      BY <1>4, <3>1
    <3>. QED  BY <3>2 DEF Range
  <2>. QED  BY <2>1, <2>2 DEF Range
<1>6. (\A w \in Range(P) : w.kind = "prefill") /\ (\A w \in Range(D) : w.kind = "decode")
  BY <1>2, <1>3 DEF Range
<1>7. /\ Range(P) \subseteq Kind("prefill") /\ Range(D) \cap Kind("prefill") = {}
      /\ Range(P) \cap Kind("decode") = {} /\ Range(D) \subseteq Kind("decode")
  BY <1>5, <1>6
<1>8. WorkOfKind(plan, "prefill") = P
  <2>1. InOrder(P \o D, Kind("prefill")) = P
    <3>. HIDE DEF Kind
    <3>. QED  BY <1>2, <1>3, <1>7, InOrderOfParts
  <2>. QED  BY <2>1 DEF WorkOfKind, plan
<1>9. WorkOfKind(plan, "decode") = D
  <2>1. InOrder(P \o D, Kind("decode")) = D
    <3>. HIDE DEF Kind
    <3>. QED  BY <1>2, <1>3, <1>7, InOrderOfParts
  <2>. QED  BY <2>1 DEF WorkOfKind, plan
<1>. QED  BY <1>4, <1>8, <1>9 DEF plan, D

(* What `rem` is when the request of an item got its tokens.                *)
Without(rem, item) ==
  [q \in Requests |-> IF q = item.request_state THEN rem[q] - item.num_scheduled_tokens
                      ELSE rem[q]]

(* The first item of a plan worked off.                                     *)
LEMMA ItemDone ==
  ASSUME NEW plan, plan # << >>, NEW rem \in [Requests -> Nat], NEW b,
         PlanRight(plan, rem, b)
  PROVE  LET item == Head(plan)
             r    == item.request_state
             n    == item.num_scheduled_tokens
         IN  /\ item \in PrefillWork /\ r \in Requests /\ n \in Nat \ {0} /\ n <= rem[r]
             /\ b = Unlimited => n = rem[r]
             /\ \A q \in Requests : q < r => rem[q] = 0
             /\ Without(rem, item) \in [Requests -> Nat]
             /\ PlanRight(Tail(plan), Without(rem, item), b)
             /\ LeftAfter(Tail(plan), Without(rem, item)) = LeftAfter(plan, rem)
<1>. DEFINE item == Head(plan)
            r == item.request_state
            n == item.num_scheduled_tokens
            rest == Tail(plan)
            new == Without(rem, item)
<1>1. plan \in Seq(PrefillWork) /\ PlannedInOrder(plan)
  BY DEF PlanRight
<1>2. /\ DOMAIN plan = 1 .. Len(plan) /\ Len(plan) \in Nat
      /\ \A i \in DOMAIN plan :
           /\ plan[i] \in PrefillWork
           /\ plan[i].request_state \in Requests /\ plan[i].request_state \in Nat
           /\ plan[i].num_scheduled_tokens \in Nat \ {0}
  BY <1>1, ItemsOfPlan
<1>3. Len(plan) # 0 /\ 1 \in DOMAIN plan /\ item = plan[1]
  <2>1. Len(plan) # 0
    BY <1>1, EmptySeq
  <2>. QED  BY <1>2, <2>1
<1>4. /\ rest \in Seq(PrefillWork) /\ Len(rest) = Len(plan) - 1 /\ DOMAIN rest = 1 .. Len(plan) - 1
      /\ \A i \in 1 .. Len(plan) - 1 : rest[i] = plan[i + 1] /\ i + 1 \in DOMAIN plan
  <2>1. /\ Tail(plan) \in Seq(PrefillWork) /\ Len(Tail(plan)) = Len(plan) - 1
        /\ \A i \in 1 .. Len(Tail(plan)) : Tail(plan)[i] = plan[i + 1]
    BY <1>1, HeadTailProperties
  <2>2. DOMAIN Tail(plan) = 1 .. Len(plan) - 1
    BY <2>1, LenProperties
  <2>3. \A i \in 1 .. Len(plan) - 1 : i + 1 \in DOMAIN plan
    BY <1>2
  <2>. QED  BY <2>1, <2>2, <2>3
<1>5. /\ r \in Requests /\ n \in Nat \ {0} /\ n <= rem[r] /\ rem[r] \in Nat
      /\ n # rem[r] => Len(plan) = 1 /\ b # Unlimited
  <2>1. r \in Requests /\ n \in Nat \ {0}
    BY <1>2, <1>3
  <2>2. n <= rem[r] /\ (n # rem[r] => 1 = Len(plan) /\ b # Unlimited)
    BY <1>3 DEF PlanRight
  <2>. QED  BY <2>1, <2>2
<1>6. ASSUME NEW q \in Requests, q < r  PROVE rem[q] = 0
  <2>1. ASSUME rem[q] > 0  PROVE FALSE
    <3>1. PICK j \in DOMAIN plan : j < 1 /\ plan[j].request_state = q
      BY <1>3, <1>6, <2>1 DEF PlanRight
    <3>. QED  BY <1>2, <3>1
  <2>2. rem[q] \in Nat
    OBVIOUS
  <2>. QED  BY <2>1, <2>2
<1>7. /\ new \in [Requests -> Nat] /\ new[r] = rem[r] - n
      /\ \A q \in Requests \ {r} : new[q] = rem[q]
  <2>1. rem[r] - n \in Nat
    BY <1>5
  <2>. QED  BY <1>5, <2>1 DEF Without
<1>8. ASSUME NEW i \in 1 .. Len(plan) - 1
      PROVE  /\ rest[i] = plan[i + 1] /\ rest[i].request_state \in Requests \ {r}
             /\ r < rest[i].request_state /\ n = rem[r] /\ new[r] = 0
  <2>1. i + 1 \in DOMAIN plan /\ 1 < i + 1 /\ Len(plan) # 1 /\ rest[i] = plan[i + 1]
    BY <1>2, <1>4
  <2>2. plan[1].request_state < plan[i + 1].request_state
    BY <1>1, <1>3, <2>1 DEF PlannedInOrder
  <2>3. rest[i].request_state \in Nat /\ rest[i].request_state \in Requests /\ r \in Nat
    BY <1>2, <1>3, <2>1
  <2>4. r < rest[i].request_state
    BY <1>3, <2>1, <2>2
  <2>5. n = rem[r]
    BY <1>5, <2>1
  <2>. HIDE DEF r, n, rest, new
  <2>. QED  BY <1>5, <1>7, <2>1, <2>3, <2>4, <2>5
<1>. HIDE DEF item, r, n, rest, new
<1>9. PlannedInOrder(rest)
  <2>. SUFFICES ASSUME NEW i \in DOMAIN rest, NEW j \in DOMAIN rest, i < j
                PROVE  rest[i].request_state < rest[j].request_state
    BY DEF PlannedInOrder
  <2>1. /\ i + 1 \in DOMAIN plan /\ j + 1 \in DOMAIN plan /\ i + 1 < j + 1
        /\ rest[i] = plan[i + 1] /\ rest[j] = plan[j + 1]
    BY <1>4
  <2>. QED  BY <1>1, <2>1 DEF PlannedInOrder
<1>10. PlanRight(rest, new, b)
  <2>1. ASSUME NEW i \in DOMAIN rest
        PROVE  /\ rest[i].num_scheduled_tokens <= new[rest[i].request_state]
               /\ rest[i].num_scheduled_tokens # new[rest[i].request_state] =>
                    i = Len(rest) /\ b # Unlimited
    <3>1. i + 1 \in DOMAIN plan /\ rest[i] = plan[i + 1] /\ i \in 1 .. Len(plan) - 1
      BY <1>4
    <3>2. new[rest[i].request_state] = rem[plan[i + 1].request_state]
      BY <1>7, <1>8, <3>1
    <3>3. /\ plan[i + 1].num_scheduled_tokens <= rem[plan[i + 1].request_state]
          /\ plan[i + 1].num_scheduled_tokens # rem[plan[i + 1].request_state] =>
               i + 1 = Len(plan) /\ b # Unlimited
      BY <3>1 DEF PlanRight
    <3>4. i + 1 = Len(plan) => i = Len(rest)
      BY <1>2, <1>4, <3>1
    <3>. QED  BY <3>1, <3>2, <3>3, <3>4
  <2>2. ASSUME NEW i \in DOMAIN rest, NEW q \in Requests, q < rest[i].request_state, new[q] > 0
        PROVE  \E j \in DOMAIN rest : j < i /\ rest[j].request_state = q
    <3>1. i + 1 \in DOMAIN plan /\ rest[i] = plan[i + 1] /\ i \in 1 .. Len(plan) - 1
      BY <1>4
    <3>2. q # r
      BY <1>8, <2>2, <3>1
    <3>3. rem[q] > 0 /\ q < plan[i + 1].request_state
      BY <1>7, <2>2, <3>1, <3>2
    <3>4. PICK j \in DOMAIN plan : j < i + 1 /\ plan[j].request_state = q
      BY <3>1, <3>3 DEF PlanRight
    <3>5. j # 1
      BY <1>3, <3>2, <3>4 DEF r
    <3>6. j - 1 \in DOMAIN rest /\ rest[j - 1] = plan[j] /\ j - 1 < i
      <4>1. j - 1 \in 1 .. Len(plan) - 1 /\ (j - 1) + 1 = j /\ j - 1 < i
        BY <1>2, <3>1, <3>4, <3>5
      <4>2. rest[j - 1] = plan[(j - 1) + 1]
        BY <1>4, <4>1
      <4>. QED  BY <1>4, <4>1, <4>2
    <3>. QED  BY <3>4, <3>6
  <2>. QED  BY <1>4, <1>9, <2>1, <2>2 DEF PlanRight
<1>11. ASSUME NEW q \in Requests  PROVE new[q] - Granted(rest, q) = rem[q] - Granted(plan, q)
  <2>1. CASE q = r
    <3>1. r \notin PlannedFor(rest)
      BY <1>4, <1>8 DEF PlannedFor
    <3>2. Granted(rest, r) = 0
      BY <3>1 DEF Granted
    <3>3. Granted(plan, r) = n
      BY <1>1, <1>3, GrantedByItems DEF r, n
    <3>4. rem[r] \in Nat /\ n \in Nat
      BY <1>5
    <3>. QED  BY <1>7, <2>1, <3>2, <3>3, <3>4
  <2>2. CASE q # r
    <3>1. Granted(rest, q) = Granted(plan, q)
      <4>1. CASE q \in PlannedFor(rest)
        <5>1. PICK i \in DOMAIN rest : rest[i].request_state = q
          BY <4>1 DEF PlannedFor
        <5>2. i + 1 \in DOMAIN plan /\ rest[i] = plan[i + 1]
          BY <1>4
        <5>3. Granted(rest, q) = rest[i].num_scheduled_tokens
          BY <1>4, <1>9, <5>1, GrantedByItems
        <5>4. Granted(plan, q) = plan[i + 1].num_scheduled_tokens
          BY <1>1, <5>1, <5>2, GrantedByItems
        <5>. QED  BY <5>2, <5>3, <5>4
      <4>2. CASE q \notin PlannedFor(rest)
        <5>1. ASSUME NEW i \in DOMAIN plan, plan[i].request_state = q  PROVE FALSE
          <6>1. i # 1
            BY <1>3, <2>2, <5>1 DEF r
          <6>2. i - 1 \in 1 .. Len(plan) - 1 /\ (i - 1) + 1 = i
            BY <1>2, <6>1
          <6>3. i - 1 \in DOMAIN rest /\ rest[i - 1] = plan[i]
            BY <1>4, <6>2
          <6>. QED  BY <4>2, <5>1, <6>3 DEF PlannedFor
        <5>2. q \notin PlannedFor(plan)
          BY <5>1 DEF PlannedFor
        <5>. QED  BY <4>2, <5>2 DEF Granted
      <4>. QED  BY <4>1, <4>2
    <3>. QED  BY <1>7, <2>2, <3>1
  <2>. QED  BY <2>1, <2>2
<1>12. LeftAfter(rest, new) = LeftAfter(plan, rem)
  BY <1>11 DEF LeftAfter
<1>13. item \in PrefillWork
  BY <1>2, <1>3
<1>14. b = Unlimited => n = rem[r]
  BY <1>5
<1>. QED  BY <1>5, <1>6, <1>7, <1>10, <1>12, <1>13, <1>14 DEF item, r, n, rest, new

-----------------------------------------------------------------------------
(* The steps *)

(* One plan more, in the closed form.                                       *)
LEMMA SpentMore ==
  ASSUME NEW k \in Nat, NEW b \in Nat \cup {Unlimited}, NEW tokens \in Nat, NEW left \in Nat,
         Spent(k, b, tokens) + left = tokens
  PROVE  /\ Spent(k, b, tokens) \in Nat
         /\ Spent(k + 1, b, tokens)
              = Spent(k, b, tokens) + (IF b = Unlimited \/ b >= left THEN left ELSE b)
<1>1. CASE b = Unlimited
  BY <1>1, LlamaWorkAssumption DEF Spent
<1>2. CASE b # Unlimited
  <2>1. b \in Nat
    BY <1>2
  <2>2. k * b \in Nat /\ (k + 1) * b = k * b + b
    BY <2>1
  <2>3. PICK kb \in Nat : kb = k * b
    BY <2>2
  <2>4. Spent(k, b, tokens) = IF k = 0 THEN 0 ELSE IF kb >= tokens THEN tokens ELSE kb
    BY <1>2, <2>3 DEF Spent
  <2>5. Spent(k + 1, b, tokens) = IF kb + b >= tokens THEN tokens ELSE kb + b
    <3>1. k + 1 # 0 /\ (k + 1) * b = kb + b
      BY <2>2, <2>3
    <3>. QED  BY <1>2, <3>1 DEF Spent
  <2>6. k = 0 => kb = 0
    BY <2>1, <2>3
  <2>. QED  BY <1>2, <2>1, <2>4, <2>5, <2>6
<1>. QED  BY <1>1, <1>2

(* The requests of a status, in slot order.                                 *)
LEMMA InStatusRight ==
  ASSUME NEW status
  PROVE  /\ InStatus(status) \in Seq(Requests) /\ Ascending(InStatus(status))
         /\ Range(InStatus(status)) = {r \in Requests : request_state[r].status = status}
<1>. DEFINE all == [r \in Requests |-> r]
            S == {r \in Requests : request_state[r].status = status}
<1>1. all \in Seq(Requests) /\ DOMAIN all = Requests /\ \A r \in Requests : all[r] = r
  <2>1. N \in Nat /\ Requests = 1 .. N
    BY LlamaWorkAssumption DEF Requests
  <2>2. all \in [1 .. N -> Requests]
    BY <2>1
  <2>3. all \in Seq(Requests)
    <3>. HIDE DEF all
    <3>. QED  BY <2>1, <2>2, SeqDef
  <2>. QED  BY <2>3
<1>2. Range(all) = Requests
  BY DEF Range
<1>3. all \in Seq(Int) /\ Ascending(all)
  <2>1. N \in Nat /\ Requests = 1 .. N
    BY LlamaWorkAssumption DEF Requests
  <2>2. all \in [1 .. N -> Int]
    BY <2>1
  <2>3. all \in Seq(Int)
    <3>. HIDE DEF all
    <3>. QED  BY <2>1, <2>2, SeqDef
  <2>4. \A i, j \in DOMAIN all : i < j => all[i] < all[j]
    OBVIOUS
  <2>. HIDE DEF all
  <2>. QED  BY <2>3, <2>4 DEF Ascending
<1>. HIDE DEF all, S
<1>4. InOrder(all, S) \in Seq(Requests) /\ Range(InOrder(all, S)) = Requests \cap S
  BY <1>1, <1>2, InOrderProperties
<1>5. Ascending(InOrder(all, S))
  BY <1>3, InOrderAscends
<1>6. InStatus(status) = InOrder(all, S) /\ Requests \cap S = S
  BY DEF InStatus, all, S
<1>. QED  BY <1>4, <1>5, <1>6 DEF S

(* A request computed up to `end`.                                          *)
LEMMA ComputedRight ==
  ASSUME NEW q, RequestRight(q), NEW end \in 0 .. q.prompt_tokens, NEW logits, NEW past
  PROVE  LET p == Computed(q, end, logits, past)
         IN  /\ RequestRight(p) /\ p.prompt_tokens = q.prompt_tokens
             /\ p.num_computed_tokens = end
<1>. DEFINE p == Computed(q, end, logits, past)
<1>1. /\ DOMAIN p = DOMAIN q /\ p.prompt_tokens = q.prompt_tokens /\ p.num_computed_tokens = end
      /\ p.status = IF end = q.prompt_tokens THEN "decoding" ELSE "prefill"
  BY DEF Computed, RequestRight, RequestFields
<1>2. q.prompt_tokens \in Nat /\ DOMAIN q = RequestFields
  BY DEF RequestRight
<1>. HIDE DEF p
<1>. QED  BY <1>1, <1>2 DEF RequestRight, p

(* A token more of a request that decodes.                                  *)
LEMMA DecodedRight ==
  ASSUME NEW q, RequestRight(q), q.status = "decoding", NEW logits
  PROVE  LET p == Decoded(q, logits)
         IN  /\ RequestRight(p) /\ p.prompt_tokens = q.prompt_tokens
             /\ p.num_computed_tokens = q.num_computed_tokens
<1>. DEFINE p == Decoded(q, logits)
<1>1. /\ DOMAIN p = DOMAIN q /\ p.prompt_tokens = q.prompt_tokens
      /\ p.num_computed_tokens = q.num_computed_tokens
      /\ p.status \in {"decoding", "finished"}
  BY DEF Decoded, RequestRight, RequestFields
<1>2. /\ q.prompt_tokens \in Nat /\ DOMAIN q = RequestFields
      /\ q.num_computed_tokens \in 0 .. q.prompt_tokens
      /\ q.num_computed_tokens = q.prompt_tokens
  BY DEF RequestRight
<1>. HIDE DEF p
<1>. QED  BY <1>1, <1>2 DEF RequestRight, p

LEMMA RemTyped ==
  ASSUME LlamaTyped
  PROVE  /\ Rem \in [Requests -> Nat]
         /\ \A r \in Requests :
              /\ Rem[r] = request_state[r].prompt_tokens - request_state[r].num_computed_tokens
              /\ request_state[r].prompt_tokens \in Nat
              /\ request_state[r].num_computed_tokens \in Nat
              /\ Rem[r] > 0 => request_state[r].status = "prefill"
<1>1. ASSUME NEW r \in Requests
      PROVE  /\ request_state[r].prompt_tokens \in Nat
             /\ request_state[r].num_computed_tokens \in 0 .. request_state[r].prompt_tokens
             /\ request_state[r].status # "prefill" =>
                  request_state[r].num_computed_tokens = request_state[r].prompt_tokens
  BY DEF LlamaTyped, RequestRight
<1>2. ASSUME NEW r \in Requests
      PROVE  Rem[r] = request_state[r].prompt_tokens - request_state[r].num_computed_tokens
  BY DEF Rem, PrefillTokensRemaining
<1>3. ASSUME NEW r \in Requests  PROVE Rem[r] \in Nat /\ request_state[r].num_computed_tokens \in Nat
  BY <1>1, <1>2
<1>4. Rem = [r \in Requests |-> Rem[r]]
  BY DEF Rem
<1>5. Rem \in [Requests -> Nat]
  BY <1>3, <1>4
<1>. QED  BY <1>1, <1>2, <1>3, <1>5

(* A new plan.                                                              *)
LEMMA PlanKeepsLInv ==
  ASSUME LInv, Plan
  PROVE  LInv'
<1>. DEFINE c == InStatus("prefill")
            d == InStatus("decoding")
            P == BuildPrefillWorkPlan(c, Rem, budget)
            D == BuildDecodeWorkPlan(d)
<1>1. /\ phase = "plan" /\ phase' = "prefill" /\ steps' = steps + 1
      /\ budget' = budget /\ chunked' = chunked /\ request_state' = request_state
      /\ work_plan' = WorkOfKind(P \o D, "prefill")
      /\ summary' = SummarizeWorkPlan(P \o D)
      /\ planned' = planned + summary'.prefill_scheduled_tokens
  BY DEF Plan, Rem, BuildCandidateWorkPlan
<1>2. Rem' = Rem /\ PromptTokens' = PromptTokens
  BY <1>1 DEF Rem, PrefillTokensRemaining, PromptTokens
<1>3. /\ LlamaTyped /\ work_plan = << >> /\ PromptTokens \in Nat
      /\ planned = Spent(steps, budget, PromptTokens)
      /\ planned + Total(LeftAfter(work_plan, Rem)) = PromptTokens
  BY <1>1 DEF LInv
<1>4. /\ Rem \in [Requests -> Nat] /\ budget \in Nat \cup {Unlimited} /\ steps \in Nat
      /\ \A r \in Requests : Rem[r] > 0 => request_state[r].status = "prefill"
  BY <1>3, RemTyped DEF LlamaTyped
<1>5. /\ c \in Seq(Requests) /\ Ascending(c) /\ d \in Seq(Requests)
      /\ \A r \in Requests : Rem[r] > 0 => r \in Range(c)
  BY <1>4, InStatusRight
<1>. HIDE DEF c, d
<1>6. /\ PlanRight(P, Rem, budget) /\ TokensKept(P, Rem)
      /\ Spends(TotalScheduledTokens(P), Rem, budget)
  BY <1>4, <1>5, PlanMade
<1>. HIDE DEF P
<1>7. P \in Seq(PrefillWork)
  BY <1>6 DEF PlanRight
<1>8. /\ WorkOfKind(P \o D, "prefill") = P /\ WorkOfKind(P \o D, "decode") = D
      /\ Len(P \o D) = Len(P) + Len(D)
  BY <1>5, <1>7, PartsOfPlan
<1>. HIDE DEF D
<1>9. /\ summary'.num_work_items = summary'.num_prefill_items + summary'.num_decode_items
      /\ summary'.prefill_scheduled_tokens = TotalScheduledTokens(P)
      /\ work_plan' = P
  BY <1>1, <1>8 DEF SummarizeWorkPlan
<1>10. /\ planned + Total(Rem) = PromptTokens /\ Total(Rem) \in Nat
  <2>1. LeftAfter(<< >>, Rem) = Rem
    BY <1>4, EmptyPlan
  <2>. QED  BY <1>3, <1>4, <2>1, TotalIsNat
<1>11. /\ Spent(steps, budget, PromptTokens) \in Nat
       /\ Spent(steps + 1, budget, PromptTokens)
            = Spent(steps, budget, PromptTokens)
              + (IF budget = Unlimited \/ budget >= Total(Rem) THEN Total(Rem) ELSE budget)
  BY <1>3, <1>4, <1>10, SpentMore
<1>12. planned' = Spent(steps', budget', PromptTokens') /\ planned' = planned + TotalScheduledTokens(P)
  BY <1>1, <1>2, <1>3, <1>6, <1>9, <1>11 DEF Spends
<1>13. /\ Total(LeftAfter(P, Rem)) \in Nat /\ TotalScheduledTokens(P) \in Nat
       /\ Total(LeftAfter(P, Rem)) + TotalScheduledTokens(P) = Total(Rem)
  BY <1>6, TotalIsNat DEF TokensKept
<1>14. planned \in Nat /\ planned' \in Nat
       /\ planned' + Total(LeftAfter(P, Rem)) = PromptTokens
  BY <1>3, <1>10, <1>11, <1>12, <1>13
<1>15. LlamaTyped'
  BY <1>1, <1>3, <1>14 DEF LlamaTyped
<1>16. PlanRight(work_plan', Rem', budget')
  BY <1>1, <1>2, <1>6, <1>9
<1>17. planned' + Total(LeftAfter(work_plan', Rem')) = PromptTokens'
  BY <1>2, <1>9, <1>14
<1>18. SlotOrder'
  <2>1. SlotOrder
    BY DEF LInv
  <2>. QED  BY <1>1, <2>1 DEF SlotOrder, PrefillTokensRemaining
<1>. QED  BY <1>1, <1>2, <1>3, <1>9, <1>12, <1>15, <1>16, <1>17, <1>18 DEF LInv

(* An item of the plan: its request gets its tokens, by the chunk or with   *)
(* the whole prompt in one call.                                            *)
LEMMA PrefillComputes ==
  ASSUME LInv, Prefill
  PROVE  \E logits, past :
           LET item == Head(work_plan)
               r    == item.request_state
           IN  request_state' =
                 [request_state EXCEPT ![r] =
                    Computed(@, @.num_computed_tokens + item.num_scheduled_tokens, logits, past)]
<1>. DEFINE item == Head(work_plan)
            r == item.request_state
            n == item.num_scheduled_tokens
            q == request_state[r]
            start == q.num_computed_tokens
<1>1. LlamaTyped /\ PlanRight(work_plan, Rem, budget) /\ work_plan # << >>
  BY DEF LInv, Prefill
<1>2. /\ Rem \in [Requests -> Nat]
      /\ \A x \in Requests :
           /\ Rem[x] = request_state[x].prompt_tokens - request_state[x].num_computed_tokens
           /\ request_state[x].prompt_tokens \in Nat
           /\ request_state[x].num_computed_tokens \in Nat
  BY <1>1, RemTyped
<1>3. r \in Requests /\ n \in Nat \ {0} /\ n <= Rem[r] /\ (budget = Unlimited => n = Rem[r])
  BY <1>1, <1>2, ItemDone
<1>4. /\ Rem[r] = q.prompt_tokens - start /\ q.prompt_tokens \in Nat /\ start \in Nat
  BY <1>2, <1>3
<1>5. start + n <= q.prompt_tokens /\ start < start + n /\ start + n \in Nat
  BY <1>3, <1>4
<1>6. CASE chunked
  <2>. DEFINE end == Min({start + n, q.prompt_tokens})
  <2>1. end = start + n
    <3>. DEFINE S == {start + n, q.prompt_tokens}
    <3>1. S \in SUBSET Nat /\ S # {}
      BY <1>4, <1>5
    <3>2. Min(S) \in S /\ \A y \in S : Min(S) <= y
      BY <3>1, MinExists
    <3>. HIDE DEF q, start, n
    <3>. QED  BY <1>4, <1>5, <3>2
  <2>2. PrefillChunk(r, n)
    BY <1>6 DEF Prefill
  <2>3. ~ (end <= start)
    BY <1>4, <1>5, <2>1
  <2>4. \E logits, past : request_state' = [request_state EXCEPT ![r] = Computed(@, end, logits, past)]
    BY <2>2, <2>3 DEF PrefillChunk, Prefilled
  <2>5. \E logits, past :
          request_state' = [request_state EXCEPT ![r] = Computed(q, start + n, logits, past)]
    <3>1. PICK logits, past :
            request_state' = [request_state EXCEPT ![r] = Computed(q, end, logits, past)]
      BY <2>4
    <3>. HIDE DEF end
    <3>. QED  BY <2>1, <3>1
  <2>. QED  BY <2>5
<1>7. CASE ~ chunked
  <2>1. PrefillRequest(r)
    BY <1>7 DEF Prefill
  <2>2. start + n = q.prompt_tokens
    <3>1. budget = Unlimited
      BY <1>1, <1>7 DEF LlamaTyped
    <3>. HIDE DEF q, start, n
    <3>. QED  BY <1>3, <1>4, <3>1
  <2>3. \E logits, past :
          request_state' = [request_state EXCEPT ![r] = Computed(q, q.prompt_tokens, logits, past)]
    BY <2>1 DEF PrefillRequest, Prefilled
  <2>4. \E logits, past :
          request_state' = [request_state EXCEPT ![r] = Computed(q, start + n, logits, past)]
    <3>1. PICK logits, past :
            request_state' = [request_state EXCEPT ![r] = Computed(q, q.prompt_tokens, logits, past)]
      BY <2>3
    <3>. QED  BY <2>2, <3>1
  <2>. QED  BY <2>4
<1>. QED  BY <1>6, <1>7

LEMMA PrefillKeepsLInv ==
  ASSUME LInv, Prefill
  PROVE  LInv'
<1>. DEFINE item == Head(work_plan)
            r == item.request_state
            n == item.num_scheduled_tokens
            new == Without(Rem, item)
<1>1. /\ phase = "prefill" /\ work_plan # << >> /\ work_plan' = Tail(work_plan)
      /\ budget' = budget /\ chunked' = chunked /\ phase' = phase /\ steps' = steps
      /\ summary' = summary /\ planned' = planned
  BY DEF Prefill
<1>2. /\ LlamaTyped /\ PlanRight(work_plan, Rem, budget) /\ PromptTokens \in Nat /\ SlotOrder
      /\ planned = Spent(steps, budget, PromptTokens)
      /\ planned + Total(LeftAfter(work_plan, Rem)) = PromptTokens
      /\ summary.num_work_items = summary.num_prefill_items + summary.num_decode_items
  BY DEF LInv
<1>3. /\ Rem \in [Requests -> Nat]
      /\ \A x \in Requests :
           /\ Rem[x] = request_state[x].prompt_tokens - request_state[x].num_computed_tokens
           /\ request_state[x].prompt_tokens \in Nat
           /\ request_state[x].num_computed_tokens \in Nat
  BY <1>2, RemTyped
<1>4. /\ item \in PrefillWork /\ r \in Requests /\ n \in Nat \ {0} /\ n <= Rem[r]
      /\ \A q \in Requests : q < r => Rem[q] = 0
      /\ new \in [Requests -> Nat]
      /\ PlanRight(Tail(work_plan), new, budget)
      /\ LeftAfter(Tail(work_plan), new) = LeftAfter(work_plan, Rem)
  BY <1>1, <1>2, <1>3, ItemDone
<1>5. PICK logits, past :
        request_state' =
          [request_state EXCEPT ![r] =
             Computed(request_state[r], request_state[r].num_computed_tokens + n, logits, past)]
  BY PrefillComputes
<1>6. DOMAIN request_state = Requests /\ \A x \in Requests : RequestRight(request_state[x])
  BY <1>2 DEF LlamaTyped
<1>. HIDE DEF item, r, n, new
<1>7. /\ RequestRight(request_state'[r])
      /\ request_state'[r].prompt_tokens = request_state[r].prompt_tokens
      /\ request_state'[r].num_computed_tokens = request_state[r].num_computed_tokens + n
  <2>1. request_state[r].num_computed_tokens + n \in 0 .. request_state[r].prompt_tokens
    BY <1>3, <1>4
  <2>2. request_state'[r]
          = Computed(request_state[r], request_state[r].num_computed_tokens + n, logits, past)
    BY <1>4, <1>5, <1>6
  <2>. QED  BY <1>4, <1>6, <2>1, <2>2, ComputedRight
<1>8. /\ DOMAIN request_state' = Requests
      /\ \A x \in Requests \ {r} : request_state'[x] = request_state[x]
  BY <1>5, <1>6
<1>9. ASSUME NEW x \in Requests
      PROVE  /\ RequestRight(request_state'[x])
             /\ request_state'[x].prompt_tokens = request_state[x].prompt_tokens
             /\ request_state'[x].prompt_tokens - request_state'[x].num_computed_tokens = new[x]
  <2>1. CASE x = r
    <3>1. new[r] = Rem[r] - n
      BY <1>4 DEF Without, new, r, n
    <3>. QED  BY <1>3, <1>4, <1>7, <2>1, <3>1
  <2>2. CASE x # r
    <3>1. new[x] = Rem[x]
      BY <2>2 DEF Without, new, r
    <3>. QED  BY <1>3, <1>6, <1>8, <2>2, <3>1
  <2>. QED  BY <2>1, <2>2
<1>10. Rem' = new /\ PromptTokens' = PromptTokens
  <2>1. Rem' = [x \in Requests |->
                  request_state'[x].prompt_tokens - request_state'[x].num_computed_tokens]
    BY DEF Rem, PrefillTokensRemaining
  <2>2. Rem' = [x \in Requests |-> new[x]]
    BY <1>9, <2>1
  <2>3. new = [x \in Requests |-> new[x]]
    BY <1>4
  <2>4. [x \in Requests |-> request_state'[x].prompt_tokens]
          = [x \in Requests |-> request_state[x].prompt_tokens]
    BY <1>9
  <2>. QED  BY <2>2, <2>3, <2>4 DEF PromptTokens
<1>11. LlamaTyped'
  BY <1>1, <1>2, <1>8, <1>9 DEF LlamaTyped
<1>12. SlotOrder'
  <2>. SUFFICES ASSUME NEW x \in Requests, NEW q \in Requests, q < x,
                       request_state'[x].num_computed_tokens > 0
                PROVE  request_state'[q].prompt_tokens - request_state'[q].num_computed_tokens = 0
    BY DEF SlotOrder, PrefillTokensRemaining
  <2>1. Rem[q] = 0
    <3>1. CASE x = r
      BY <1>4, <3>1
    <3>2. CASE x # r
      <4>1. request_state[x].num_computed_tokens > 0
        BY <1>8, <3>2
      <4>2. PrefillTokensRemaining(q) = 0
        BY <1>2, <4>1 DEF SlotOrder
      <4>. QED  BY <1>3, <4>2 DEF PrefillTokensRemaining
    <3>. QED  BY <3>1, <3>2
  <2>2. q # r
    BY <1>4, <2>1
  <2>3. new[q] = 0
    BY <2>1, <2>2 DEF Without, new, r
  <2>. QED  BY <1>9, <2>3
<1>13. PlanRight(work_plan', Rem', budget')
  BY <1>1, <1>4, <1>10
<1>14. planned' + Total(LeftAfter(work_plan', Rem')) = PromptTokens'
  BY <1>1, <1>2, <1>4, <1>10
<1>15. planned' = Spent(steps', budget', PromptTokens') /\ PromptTokens' \in Nat
  BY <1>1, <1>2, <1>10
<1>. QED  BY <1>1, <1>2, <1>11, <1>12, <1>13, <1>14, <1>15 DEF LInv

(* The steps that prefill nothing.                                          *)
LEMMA NothingPrefilled ==
  ASSUME LInv,
         DOMAIN request_state' = Requests,
         \A r \in Requests :
           /\ RequestRight(request_state'[r])
           /\ request_state'[r].prompt_tokens = request_state[r].prompt_tokens
           /\ request_state'[r].num_computed_tokens = request_state[r].num_computed_tokens,
         phase' \in {"plan", "prefill", "decode"},
         phase' # "prefill" => work_plan = << >>,
         UNCHANGED <<budget, chunked, work_plan, steps, summary, planned>>
  PROVE  LInv'
<1>1. Rem' = Rem
  <2>1. [r \in Requests |->
           request_state'[r].prompt_tokens - request_state'[r].num_computed_tokens]
          = [r \in Requests |->
               request_state[r].prompt_tokens - request_state[r].num_computed_tokens]
    OBVIOUS
  <2>. QED  BY <2>1 DEF Rem, PrefillTokensRemaining
<1>2. PromptTokens' = PromptTokens
  <2>1. [r \in Requests |-> request_state'[r].prompt_tokens]
          = [r \in Requests |-> request_state[r].prompt_tokens]
    OBVIOUS
  <2>. QED  BY <2>1 DEF PromptTokens
<1>3. LlamaTyped'
  BY DEF LInv, LlamaTyped
<1>4. SlotOrder'
  <2>1. SlotOrder
    BY DEF LInv
  <2>2. \A r \in Requests : PrefillTokensRemaining(r)' = PrefillTokensRemaining(r)
    BY DEF PrefillTokensRemaining
  <2>. QED  BY <2>1, <2>2 DEF SlotOrder
<1>. QED  BY <1>1, <1>2, <1>3, <1>4 DEF LInv

LEMMA StutterKeepsLInv ==
  ASSUME LInv, UNCHANGED vars
  PROVE  LInv'
<1>1. /\ DOMAIN request_state = Requests /\ (\A r \in Requests : RequestRight(request_state[r]))
      /\ phase \in {"plan", "prefill", "decode"} /\ (phase # "prefill" => work_plan = << >>)
  BY DEF LInv, LlamaTyped
<1>2. /\ request_state' = request_state /\ phase' = phase
      /\ UNCHANGED <<budget, chunked, work_plan, steps, summary, planned>>
  BY DEF vars
<1>. QED  BY <1>1, <1>2, NothingPrefilled

LEMMA PrefillDoneKeepsLInv ==
  ASSUME LInv, PrefillDone
  PROVE  LInv'
<1>1. DOMAIN request_state = Requests /\ \A r \in Requests : RequestRight(request_state[r])
  BY DEF LInv, LlamaTyped
<1>2. /\ request_state' = request_state /\ work_plan = << >>
      /\ phase' \in {"plan", "prefill", "decode"}
      /\ UNCHANGED <<budget, chunked, work_plan, steps, summary, planned>>
  BY DEF PrefillDone
<1>. QED  BY <1>1, <1>2, NothingPrefilled

LEMMA DecodeStepKeepsLInv ==
  ASSUME LInv, NEW batch \in SUBSET Range(InStatus("decoding")), DecodeStep(batch)
  PROVE  LInv'
<1>1. \A r \in Requests : RequestRight(request_state[r])
  BY DEF LInv, LlamaTyped
<1>2. \A r \in batch : r \in Requests /\ request_state[r].status = "decoding"
  BY InStatusRight
<1>3. \E logits : request_state' =
        [r \in Requests |-> IF r \in batch THEN Decoded(request_state[r], logits[r])
                            ELSE request_state[r]]
  <2>. DEFINE requests == InOrder(InStatus("decoding"), batch)
              run == PagedDecodeBatch(NextTokens(requests), BatchOf(requests), cache)
              logits == [r \in Requests |->
                           run.logits[CHOOSE i \in DOMAIN requests : requests[i] = r]]
  <2>1. request_state' =
          [r \in Requests |->
             IF r \in batch
             THEN Decoded(request_state[r],
                          run.logits[CHOOSE i \in DOMAIN requests : requests[i] = r])
             ELSE request_state[r]]
    BY DEF DecodeStep
  <2>2. \A r \in Requests :
          logits[r] = run.logits[CHOOSE i \in DOMAIN requests : requests[i] = r]
    OBVIOUS
  <2>. HIDE DEF logits
  <2>3. request_state' =
          [r \in Requests |-> IF r \in batch THEN Decoded(request_state[r], logits[r])
                              ELSE request_state[r]]
    BY <2>1, <2>2
  <2>. QED  BY <2>3
<1>4. PICK logits : request_state' =
        [r \in Requests |-> IF r \in batch THEN Decoded(request_state[r], logits[r])
                            ELSE request_state[r]]
  BY <1>3
<1>5. ASSUME NEW r \in Requests
      PROVE  /\ RequestRight(request_state'[r])
             /\ request_state'[r].prompt_tokens = request_state[r].prompt_tokens
             /\ request_state'[r].num_computed_tokens = request_state[r].num_computed_tokens
  <2>1. CASE r \in batch
    <3>1. request_state'[r] = Decoded(request_state[r], logits[r])
      BY <1>4, <2>1
    <3>. QED  BY <1>1, <1>2, <2>1, <3>1, DecodedRight
  <2>2. CASE r \notin batch
    <3>1. request_state'[r] = request_state[r]
      BY <1>4, <2>2
    <3>. QED  BY <1>1, <3>1
  <2>. QED  BY <2>1, <2>2
<1>6. DOMAIN request_state' = Requests
  BY <1>4
<1>7. /\ phase = "decode" /\ phase' = "plan"
      /\ UNCHANGED <<budget, chunked, work_plan, steps, summary, planned>>
  BY DEF DecodeStep
<1>8. work_plan = << >>
  BY <1>7 DEF LInv
<1>. QED  BY <1>5, <1>6, <1>7, <1>8, NothingPrefilled

LEMMA InitMakesLInv ==
  ASSUME Init
  PROVE  LInv
<1>1. PICK prompts \in [Requests -> Prompts] :
        request_state = [r \in Requests |->
          NewRequestState(prompts[r],
            BlockTable(r, (Len(prompts[r]) + MaxNewTokens + BlockSize - 1) \div BlockSize))]
  BY DEF Init
<1>2. ASSUME NEW r \in Requests
      PROVE  /\ RequestRight(request_state[r]) /\ request_state[r].prompt_tokens \in Nat
             /\ request_state[r].num_computed_tokens = 0
  <2>1. Len(prompts[r]) \in Nat
    <3>1. prompts[r] \in Seq(Nat)
      BY LlamaWorkAssumption
    <3>. QED  BY <3>1, LenProperties
  <2>2. /\ DOMAIN request_state[r] = RequestFields /\ request_state[r].status = "prefill"
        /\ request_state[r].prompt_tokens = Len(prompts[r])
        /\ request_state[r].num_computed_tokens = 0
    BY <1>1 DEF NewRequestState, RequestFields
  <2>. QED  BY <2>1, <2>2 DEF RequestRight
<1>3. LlamaTyped
  <2>1. budget \in Nat \cup {Unlimited}
    BY LlamaWorkAssumption DEF Init
  <2>2. chunked \in BOOLEAN /\ (~ chunked => budget = Unlimited)
    BY DEF Init
  <2>3. phase \in {"plan", "prefill", "decode"} /\ steps \in Nat /\ planned \in Nat
    BY DEF Init
  <2>. QED  BY <1>1, <1>2, <2>1, <2>2, <2>3 DEF LlamaTyped
<1>4. Rem \in [Requests -> Nat] /\ work_plan = << >>
  BY <1>3, RemTyped DEF Init
<1>5. PlanRight(work_plan, Rem, budget) /\ LeftAfter(work_plan, Rem) = Rem
  BY <1>4, EmptyPlan
<1>6. PromptTokens = Total(Rem) /\ PromptTokens \in Nat
  <2>1. Rem = [r \in Requests |-> request_state[r].prompt_tokens]
    <3>1. \A r \in Requests : PrefillTokensRemaining(r) = request_state[r].prompt_tokens
      BY <1>2 DEF PrefillTokensRemaining
    <3>. QED  BY <3>1 DEF Rem
  <2>2. DOMAIN Rem = Requests
    BY <1>4
  <2>3. PromptTokens = SumFunctionOnSet(Rem, Requests)
    BY <2>1, <2>2 DEF PromptTokens, SumFunction
  <2>. QED  BY <1>4, <2>3, TotalIsNat DEF Total
<1>7. planned = Spent(steps, budget, PromptTokens) /\ planned = 0
  BY DEF Init, Spent
<1>8. SlotOrder
  BY <1>2 DEF SlotOrder
<1>9. summary.num_work_items = summary.num_prefill_items + summary.num_decode_items
  <2>1. << >> \in Seq(PrefillWork) /\ << >> \in Seq(Requests)
    BY EmptySeq
  <2>2. \A S : InOrder(<< >>, S) = << >>
    <3>1. ASSUME NEW S  PROVE InOrder(<< >>, S) = << >>
      <4>1. InOrder(<< >>, S) \in Seq(PrefillWork) /\ Range(InOrder(<< >>, S)) = Range(<< >>) \cap S
        BY <2>1, InOrderProperties
      <4>2. Range(<< >>) = {}
        BY DEF Range
      <4>3. DOMAIN InOrder(<< >>, S) = {}
        BY <4>1, <4>2 DEF Range
      <4>4. DOMAIN InOrder(<< >>, S) = 1 .. Len(InOrder(<< >>, S)) /\ Len(InOrder(<< >>, S)) \in Nat
        BY <4>1, LenProperties
      <4>5. Len(InOrder(<< >>, S)) = 0
        BY <4>3, <4>4
      <4>. QED  BY <4>1, <4>5, EmptySeq
    <3>. QED  BY <3>1
  <2>3. \A kind : WorkOfKind(<< >>, kind) = << >>
    BY <2>2 DEF WorkOfKind
  <2>4. summary = SummarizeWorkPlan(<< >>)
    BY DEF Init
  <2>5. Len(<< >>) = 0
    OBVIOUS
  <2>. QED  BY <2>3, <2>4, <2>5 DEF SummarizeWorkPlan
<1>10. planned + Total(LeftAfter(work_plan, Rem)) = PromptTokens
  <2>1. 0 + PromptTokens = PromptTokens
    BY <1>6
  <2>. QED  BY <1>5, <1>6, <1>7, <2>1
<1>. QED  BY <1>3, <1>4, <1>5, <1>6, <1>7, <1>8, <1>9, <1>10 DEF LInv

LEMMA LInvShows ==
  ASSUME LInv
  PROVE  PlansSpendTheBudget
<1>1. /\ LlamaTyped /\ PromptTokens \in Nat /\ SlotOrder
      /\ planned = Spent(steps, budget, PromptTokens)
      /\ planned + Total(LeftAfter(work_plan, Rem)) = PromptTokens
      /\ summary.num_work_items = summary.num_prefill_items + summary.num_decode_items
  BY DEF LInv
<1>2. Rem \in [Requests -> Nat] /\ planned \in Nat
  BY <1>1, RemTyped DEF LlamaTyped
<1>3. RemainingTokens = Total(Rem) /\ Total(Rem) \in Nat
  <2>1. RemainingTokens = SumFunction(Rem)
    BY DEF RemainingTokens, Rem
  <2>2. DOMAIN Rem = Requests
    BY DEF Rem
  <2>. QED  BY <1>2, <2>1, <2>2, TotalIsNat DEF SumFunction, Total
<1>4. ASSUME phase # "prefill"  PROVE planned = PromptTokens - RemainingTokens
  <2>1. work_plan = << >>
    BY <1>4 DEF LInv
  <2>2. LeftAfter(work_plan, Rem) = Rem
    BY <1>2, <2>1, EmptyPlan
  <2>. QED  BY <1>1, <1>2, <1>3, <2>2
<1>5. ASSUME phase = "plan"  PROVE BudgetSpentExactly
  BY <1>1, <1>4, <1>5 DEF BudgetSpentExactly, Spent
<1>. QED  BY <1>1, <1>4, <1>5 DEF PlansSpendTheBudget

LEMMA LInvAlways == Spec => []LInv
<1>1. ASSUME LInv, [Next]_vars  PROVE LInv'
  <2>1. CASE Plan
    BY <1>1, <2>1, PlanKeepsLInv
  <2>2. CASE Prefill
    BY <1>1, <2>2, PrefillKeepsLInv
  <2>3. CASE PrefillDone
    BY <1>1, <2>3, PrefillDoneKeepsLInv
  <2>4. CASE \E batch \in (SUBSET Range(InStatus("decoding"))) \ {{}} : DecodeStep(batch)
    <3>1. PICK batch \in SUBSET Range(InStatus("decoding")) : DecodeStep(batch)
      BY <2>4
    <3>. QED  BY <1>1, <3>1, DecodeStepKeepsLInv
  <2>5. CASE UNCHANGED vars
    BY <1>1, <2>5, StutterKeepsLInv
  <2>. QED  BY <1>1, <2>1, <2>2, <2>3, <2>4, <2>5 DEF Next
<1>. QED  BY <1>1, InitMakesLInv, PTL DEF Spec

(* However the prompts are long, under every token budget and whether they  *)
(* are prefilled by chunks or in one call: after k scheduler steps exactly  *)
(* min(k * budget, all) prompt tokens are prefilled, in slot order, and the *)
(* summaries of build_candidate_work_plan's plans tell of exactly these.    *)
THEOREM BudgetAlwaysSpentExactly == Spec => []PlansSpendTheBudget
<1>1. LInv => PlansSpendTheBudget
  BY LInvShows
<1>. QED  BY <1>1, LInvAlways, PTL

=============================================================================
