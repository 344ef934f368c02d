------------------------ MODULE LegacySchedulerProofs ------------------------
(***************************************************************************)
(* Proofs about what MCLegacySchedulers runs beside the continuous         *)
(* scheduler.                                                              *)
(*   legacy/scheduler.py, for every set of requests, batch size and model  *)
(* runner that may raise: who ends how often, and what tensors and metrics *)
(* say of a batch.                                                         *)
(*   The decode engines without the custom model, for every set of         *)
(* requests, pool, prompt and limits: no request is short of a block, each *)
(* gets exactly its tokens, and attention is led to the tokens it should   *)
(* see.                                                                    *)
(***************************************************************************)
EXTENDS MCLegacySchedulers, SequenceFacts

-----------------------------------------------------------------------------
(* Records *)

LEMMA TakenStaysASeq ==
  ASSUME NEW times \in Seq(Events), NEW event \in Events
  PROVE  Taken(times, event) \in Seq(Events)
BY AppendProperties DEF Taken

(* The methods that the static scheduler calls keep a record one. *)
LEMMA RecordMethods ==
  ASSUME NEW q \in RequestRecords
  PROVE  /\ MarkAdmitted(q) \in RequestRecords
         /\ MarkFinished(q) \in RequestRecords
         /\ MarkFailed(q) \in RequestRecords
         /\ \A text \in BOOLEAN : Streamed(q, text) \in RequestRecords
<1>1. /\ Taken(q.times, "admit") \in Seq(Events)
      /\ Taken(q.times, "first_token") \in Seq(Events)
      /\ Taken(q.times, "finish") \in Seq(Events)
  <2>1. q.times \in Seq(Events)
    BY DEF RequestRecords
  <2>2. "admit" \in Events /\ "first_token" \in Events /\ "finish" \in Events
    BY DEF Events
  <2>. QED  BY <2>1, <2>2, TakenStaysASeq
<1>2. Append(q.output_queue, Text) \in Seq({Text, End}) /\ Append(q.output_queue, End) \in Seq({Text, End})
  BY AppendProperties DEF RequestRecords
<1>3. MarkAdmitted(q) \in RequestRecords
  BY <1>1 DEF MarkAdmitted, RequestRecords, Statuses
<1>4. MarkFinished(q) \in RequestRecords /\ MarkFailed(q) \in RequestRecords
  BY <1>1, <1>2 DEF MarkFinished, MarkFailed, RequestRecords, Statuses, Ended
<1>5. ASSUME NEW text \in BOOLEAN  PROVE Streamed(q, text) \in RequestRecords
  BY <1>1, <1>2 DEF Streamed, AppendText, MarkFirstToken, RequestRecords
<1>. QED  BY <1>3, <1>4, <1>5

-----------------------------------------------------------------------------
(* The static scheduler: the inductive invariant *)

StaticPhases ==
  {"idle", "drain", "drain_again", "admit", "form", "fail_batch", "decode", "rows", "finish",
   "fail_rows", "remove"}

StaticLocals ==
  [batch : Seq(Requests), texts : Seq(BOOLEAN), position : Nat \ {0}, tokens : Nat]

BatchDicts ==
  [status : {"none", "running", "finished", "failed"}, batch_size : Nat, decode_steps : Nat,
   tokens_generated : Nat]

StaticTyped ==
  /\ request_state \in [Requests -> RequestRecords]
  /\ request_queue \in Seq(Requests) /\ waiting \in Seq(Requests)
  /\ finished \in Seq(Requests) /\ active \in Seq(Requests)
  /\ phase \in StaticPhases
  /\ local \in StaticLocals
  /\ batch_state \in [past_length : Nat, mask : Seq(Nat)]
  /\ batch_metrics \in BatchDicts
  /\ completed \in [metrics : Seq(BatchDicts), sizes : Seq(Nat)]

(* The requests of a batch that is not decoded yet, or never will be.       *)
Forming ==
  CASE phase = "form"       -> Range(local.batch)
    [] phase = "fail_batch" -> {local.batch[i] : i \in local.position .. Len(local.batch)}
    [] OTHER                -> {}

(* Where a request is depends on its status.                                *)
StaticHomes ==
  /\ IsInjective(request_queue) /\ IsInjective(waiting)
  /\ IsInjective(local.batch) /\ IsInjective(active)
  /\ Range(request_queue) \cap Range(waiting) = {}
  /\ Range(request_queue) \cup Range(waiting) = InStatus({"waiting"})
  /\ Forming = InStatus({"prefill"})
  /\ InStatus({"decoding"}) \subseteq Range(active)
  /\ Range(active) \subseteq InStatus({"decoding", "finished", "failed"})

(* A batch is formed when there is none and somebody is waiting; and there  *)
(* are tensors and metrics for the batch that is active.                    *)
OneBatch ==
  /\ phase \in {"drain_again", "form", "fail_batch"} => active = << >>
  /\ phase = "drain_again" => waiting # << >>
  /\ phase = "form" => waiting # << >> \/ local.batch # << >>
  /\ active = << >> => batch_state = NoBatch /\ batch_metrics = Static!NoMetrics
  /\ active # << >> =>
       /\ Len(batch_state.mask) = Len(active)
       /\ batch_metrics.status = "running" /\ batch_metrics.batch_size = Len(active)
  /\ phase \in {"rows", "finish"} =>
       active # << >> /\ Len(local.texts) = Len(active)
  /\ phase = "finish" => local.position <= Len(active)

(* 1 for a row that was given the token of the step in progress.            *)
Applied(i) ==
  IF (phase = "rows" /\ i < local.position) \/ (phase = "finish" /\ i <= local.position)
  THEN 1 ELSE 0

(* A row: its status, and how its tokens compare with the steps of the batch *)
(* and its mask.                                                            *)
RowRight(i) ==
  LET q == request_state[active[i]]
  IN  /\ q.status = "decoding" =>
           /\ q.generated_tokens = batch_metrics.decode_steps + Applied(i)
           /\ IF phase = "finish" /\ i = local.position
              THEN q.generated_tokens = q.max_new_tokens
              ELSE q.generated_tokens < q.max_new_tokens
      /\ q.status = "finished" =>
           q.generated_tokens <= batch_metrics.decode_steps + Applied(i)
      /\ phase = "fail_rows" => (q.status = "failed" <=> i < local.position)
      /\ phase \notin {"fail_rows", "remove"} => q.status # "failed"
      /\ phase = "finish" /\ i = local.position => q.status = "decoding"
      /\ batch_state.mask[i] = q.prompt_tokens + batch_metrics.decode_steps
      /\ batch_state.mask[i] <= batch_state.past_length

RowsRight ==
  /\ \A i \in DOMAIN active : RowRight(i)
  /\ active # << >> => batch_state.past_length \in Range(batch_state.mask)
  /\ phase = "remove" =>
       \A i, j \in DOMAIN active :
         Status(active[i]) = "failed" => Status(active[j]) = "failed"
  /\ phase = "remove" /\ local.position # 1 =>
       \A i \in DOMAIN active : Status(active[i]) = "failed"

(* Those of the active batch whose failure is not recorded yet.             *)
ToRecord ==
  CASE phase = "fail_rows" -> Range(active)
    [] phase = "remove"    -> {active[i] : i \in local.position .. Len(active)}
    [] OTHER               -> {}

Ends(q) == Static!Times(q.output_queue, End)

Recorded(r) == Static!Times(finished, r)

(* What is counted for a request, how often its stream was closed, and how  *)
(* often it was recorded.                                                   *)
StaticRecord(r) ==
  LET q == request_state[r]
  IN  /\ q.status = "new" => q = Unborn
      /\ q.status # "new" =>
           q.prompt \in Nat \ {0} /\ q.max_new_tokens \in Nat \ {0}
             /\ q.generated_tokens <= q.max_new_tokens
      /\ q.status \in {"waiting", "prefill"} =>
           q.prompt_tokens = 0 /\ q.generated_tokens = 0
      /\ q.status \in {"decoding", "finished"} => q.prompt_tokens > 0
      /\ q.status = "finished" => q.generated_tokens = q.max_new_tokens
      /\ q.status \notin Ended => Ends(q) = 0 /\ Recorded(r) = 0
      /\ q.status = "finished" => Ends(q) = 1 /\ Recorded(r) = 1
      /\ q.status = "failed" =>
           /\ Ends(q) = IF q.generated_tokens = q.max_new_tokens THEN 2 ELSE 1
           /\ Recorded(r) = Ends(q) - (IF r \in ToRecord THEN 1 ELSE 0)

StaticRecords == \A r \in Requests : StaticRecord(r)

(* The tokens of the step in progress are counted at its end.               *)
InProgress == IF phase \in {"rows", "finish"} THEN local.tokens ELSE 0

Prefills == {r \in Requests : request_state[r].prompt_tokens > 0}

TokensOf(dicts) == [i \in DOMAIN dicts |-> dicts[i].tokens_generated]
SizesOf(dicts)  == [i \in DOMAIN dicts |-> dicts[i].batch_size]

BatchesAdd ==
  /\ Static!Total(TokensOf(completed.metrics)) + batch_metrics.tokens_generated + InProgress
       = SumFunctionOnSet(GeneratedTokens, Submitted)
  /\ IsFiniteSet(Submitted)
  /\ Static!Total(SizesOf(completed.metrics)) + Len(active) = Cardinality(Prefills)
  /\ completed.sizes = SizesOf(completed.metrics)

SInv == StaticTyped /\ StaticHomes /\ OneBatch /\ RowsRight /\ StaticRecords

BInv == SInv /\ BatchesAdd

-----------------------------------------------------------------------------
(* The instance's copies of operators that are defined outside of it.       *)
LEMMA StaticOperators ==
  /\ \A S : Static!Cardinality(S) = Cardinality(S) /\ Static!Max(S) = Max(S)
  /\ \A f : Static!Range(f) = Range(f)
  /\ \A f, S : Static!SumFunctionOnSet(f, S) = SumFunctionOnSet(f, S)
  /\ \A q : /\ Static!MarkAdmitted(q) = MarkAdmitted(q)
            /\ Static!InBatchPrefilled(q) = InBatchPrefilled(q)
            /\ Static!MarkFinished(q) = MarkFinished(q)
            /\ Static!MarkFailed(q) = MarkFailed(q)
            /\ Static!IsFinished(q) = IsFinished(q)
            /\ Static!TextsOf(q) = TextsOf(q)
            /\ \A text : Static!Streamed(q, text) = Streamed(q, text)
  /\ \A m, n : Static!NewRequestState(m, n) = NewRequestState(m, n)
  /\ Static!NoBatch = NoBatch /\ Static!Unborn = Unborn /\ Static!Ended = Ended
  /\ Static!End = End
<1>1. \A S : Static!Cardinality(S) = Cardinality(S)
  BY DEF Static!Cardinality, Cardinality
<1>2. \A S : Static!Max(S) = Max(S)
  BY DEF Static!Max, Max
<1>3. \A f : Static!Range(f) = Range(f)
  BY DEF Static!Range, Range
<1>4. \A f, S : Static!SumFunctionOnSet(f, S) = SumFunctionOnSet(f, S)
  BY DEF Static!SumFunctionOnSet, SumFunctionOnSet, Static!FoldFunctionOnSet, FoldFunctionOnSet,
         Static!MapThenFoldSet, MapThenFoldSet
<1>5. \A times, event : Static!Taken(times, event) = Taken(times, event)
  BY <1>3 DEF Static!Taken, Taken
<1>6. \A q : /\ Static!MarkAdmitted(q) = MarkAdmitted(q)
             /\ Static!InBatchPrefilled(q) = InBatchPrefilled(q)
             /\ Static!MarkFinished(q) = MarkFinished(q)
             /\ Static!MarkFailed(q) = MarkFailed(q)
             /\ Static!IsFinished(q) = IsFinished(q)
             /\ Static!TextsOf(q) = TextsOf(q)
  BY <1>3, <1>5
     DEF Static!MarkAdmitted, MarkAdmitted, Static!InBatchPrefilled, InBatchPrefilled,
         Static!MarkDecoding, MarkDecoding, Static!CountPromptTokens, CountPromptTokens,
         Static!MarkFinished, MarkFinished, Static!MarkFailed, MarkFailed,
         Static!IsFinished, IsFinished, Static!TextsOf, TextsOf, Static!End, End
<1>7. \A q, text : Static!Streamed(q, text) = Streamed(q, text)
  BY <1>5 DEF Static!Streamed, Streamed, Static!AppendText, AppendText, Static!MarkFirstToken,
              MarkFirstToken, Static!Text, Text
<1>8. \A m, n : Static!NewRequestState(m, n) = NewRequestState(m, n)
  BY DEF Static!NewRequestState, NewRequestState
<1>9. Static!NoBatch = NoBatch /\ Static!Unborn = Unborn /\ Static!Ended = Ended /\ Static!End = End
  BY <1>8 DEF Static!NoBatch, NoBatch, Static!Unborn, Unborn, Static!Ended, Ended, Static!End, End
<1>. QED  BY <1>1, <1>2, <1>3, <1>4, <1>6, <1>7, <1>8, <1>9

-----------------------------------------------------------------------------
(* Counting in lists *)

LEMMA TimesOfAppend ==
  ASSUME NEW S, NEW s \in Seq(S), NEW e \in S, NEW x
  PROVE  /\ Static!Times(s, x) \in Nat
         /\ Static!Times(Append(s, e), x) = Static!Times(s, x) + (IF e = x THEN 1 ELSE 0)
<1>. DEFINE A == {i \in 1 .. Len(s) : s[i] = x}
            B == {i \in 1 .. Len(s) + 1 : Append(s, e)[i] = x}
<1>1. /\ Len(s) \in Nat /\ DOMAIN s = 1 .. Len(s)
      /\ DOMAIN Append(s, e) = 1 .. Len(s) + 1
      /\ \A i \in 1 .. Len(s) : Append(s, e)[i] = s[i]
      /\ Append(s, e)[Len(s) + 1] = e
  BY AppendProperties, LenProperties
<1>2. Static!Times(s, x) = Cardinality(A) /\ Static!Times(Append(s, e), x) = Cardinality(B)
  BY <1>1, StaticOperators DEF Static!Times
<1>3. IsFiniteSet(A) /\ Cardinality(A) \in Nat
  <2>1. IsFiniteSet(1 .. Len(s)) /\ A \subseteq 1 .. Len(s)
    BY <1>1, FS_Interval
  <2>. QED  BY <2>1, FS_Subset, FS_CardinalityType
<1>4. B = IF e = x THEN A \cup {Len(s) + 1} ELSE A
  BY <1>1
<1>5. Len(s) + 1 \notin A
  BY <1>1
<1>6. Cardinality(A \cup {Len(s) + 1}) = Cardinality(A) + 1
  BY <1>3, <1>5, FS_AddElement
<1>7. Cardinality(B) = Cardinality(A) + (IF e = x THEN 1 ELSE 0)
  <2>. HIDE DEF A, B
  <2>1. CASE e = x
    BY <1>4, <1>6, <2>1
  <2>2. CASE e # x
    BY <1>3, <1>4, <2>2
  <2>. QED  BY <2>1, <2>2
<1>. QED  BY <1>2, <1>3, <1>7

LEMMA NothingInEmpty == \A x : Static!Times(<< >>, x) = 0
<1>. SUFFICES ASSUME NEW x  PROVE Static!Times(<< >>, x) = 0
  OBVIOUS
<1>1. {i \in DOMAIN << >> : << >>[i] = x} = {}
  OBVIOUS
<1>. QED  BY <1>1, FS_EmptySet, StaticOperators DEF Static!Times

-----------------------------------------------------------------------------
(* Records *)

(* What the methods of a request leave alone, and what they do to its       *)
(* stream.                                                                  *)
SameCounts(q, p) ==
  /\ p.prompt = q.prompt /\ p.max_new_tokens = q.max_new_tokens
  /\ p.prompt_tokens = q.prompt_tokens

LEMMA MethodsOfARecord ==
  ASSUME NEW q \in RequestRecords
  PROVE  /\ Ends(q) \in Nat
         /\ LET p == [q EXCEPT !.status = "waiting"]
            IN  /\ p \in RequestRecords /\ p.status = "waiting" /\ Ends(p) = Ends(q)
                /\ SameCounts(q, p) /\ p.generated_tokens = q.generated_tokens
         /\ LET p == MarkAdmitted(q)
            IN  /\ p \in RequestRecords /\ p.status = "prefill" /\ Ends(p) = Ends(q)
                /\ SameCounts(q, p) /\ p.generated_tokens = q.generated_tokens
         /\ LET p == InBatchPrefilled(q)
            IN  /\ p \in RequestRecords /\ p.status = "decoding" /\ Ends(p) = Ends(q)
                /\ p.prompt = q.prompt /\ p.max_new_tokens = q.max_new_tokens
                /\ p.prompt_tokens = q.prompt /\ p.generated_tokens = q.generated_tokens
         /\ LET p == MarkFailed(q)
            IN  /\ p \in RequestRecords /\ p.status = "failed" /\ Ends(p) = Ends(q) + 1
                /\ SameCounts(q, p) /\ p.generated_tokens = q.generated_tokens
         /\ LET p == MarkFinished(q)
            IN  /\ p \in RequestRecords /\ p.status = "finished" /\ Ends(p) = Ends(q) + 1
                /\ SameCounts(q, p) /\ p.generated_tokens = q.generated_tokens
<1>1. q.output_queue \in Seq({Text, End}) /\ q.times \in Seq(Events)
  BY DEF RequestRecords
<1>2. Ends(q) \in Nat
  <2>1. Text \in {Text, End}
    OBVIOUS
  <2>. QED  BY <1>1, <2>1, TimesOfAppend DEF Ends
<1>3. LET p == [q EXCEPT !.status = "waiting"]
      IN  /\ p \in RequestRecords /\ p.status = "waiting" /\ Ends(p) = Ends(q)
          /\ SameCounts(q, p) /\ p.generated_tokens = q.generated_tokens
  BY DEF RequestRecords, Statuses, Ends, SameCounts
<1>4. LET p == MarkAdmitted(q)
      IN  /\ p \in RequestRecords /\ p.status = "prefill" /\ Ends(p) = Ends(q)
          /\ SameCounts(q, p) /\ p.generated_tokens = q.generated_tokens
  <2>1. MarkAdmitted(q) \in RequestRecords
    BY RecordMethods
  <2>2. /\ MarkAdmitted(q).status = "prefill"
        /\ MarkAdmitted(q).output_queue = q.output_queue
        /\ MarkAdmitted(q).prompt = q.prompt
        /\ MarkAdmitted(q).max_new_tokens = q.max_new_tokens
        /\ MarkAdmitted(q).prompt_tokens = q.prompt_tokens
        /\ MarkAdmitted(q).generated_tokens = q.generated_tokens
    BY DEF MarkAdmitted, RequestRecords
  <2>. QED  BY <2>1, <2>2 DEF Ends, SameCounts
<1>5. LET p == InBatchPrefilled(q)
      IN  /\ p \in RequestRecords /\ p.status = "decoding" /\ Ends(p) = Ends(q)
          /\ p.prompt = q.prompt /\ p.max_new_tokens = q.max_new_tokens
          /\ p.prompt_tokens = q.prompt /\ p.generated_tokens = q.generated_tokens
  BY DEF InBatchPrefilled, MarkDecoding, CountPromptTokens, RequestRecords, Statuses, Ends
<1>6. /\ Static!Times(Append(q.output_queue, End), End) = Ends(q) + 1
  <2>1. End \in {Text, End}
    OBVIOUS
  <2>. QED  BY <1>1, <2>1, TimesOfAppend DEF Ends
<1>7. LET p == MarkFailed(q)
      IN  /\ p \in RequestRecords /\ p.status = "failed" /\ Ends(p) = Ends(q) + 1
          /\ SameCounts(q, p) /\ p.generated_tokens = q.generated_tokens
  <2>1. MarkFailed(q) \in RequestRecords
    BY RecordMethods
  <2>2. /\ MarkFailed(q).status = "failed"
        /\ MarkFailed(q).output_queue = Append(q.output_queue, End)
        /\ MarkFailed(q).prompt = q.prompt
        /\ MarkFailed(q).max_new_tokens = q.max_new_tokens
        /\ MarkFailed(q).prompt_tokens = q.prompt_tokens
        /\ MarkFailed(q).generated_tokens = q.generated_tokens
    BY DEF MarkFailed, RequestRecords
  <2>. QED  BY <1>6, <2>1, <2>2 DEF Ends, SameCounts
<1>8. LET p == MarkFinished(q)
      IN  /\ p \in RequestRecords /\ p.status = "finished" /\ Ends(p) = Ends(q) + 1
          /\ SameCounts(q, p) /\ p.generated_tokens = q.generated_tokens
  <2>1. MarkFinished(q) \in RequestRecords
    BY RecordMethods
  <2>2. /\ MarkFinished(q).status = "finished"
        /\ MarkFinished(q).output_queue = Append(q.output_queue, End)
        /\ MarkFinished(q).prompt = q.prompt
        /\ MarkFinished(q).max_new_tokens = q.max_new_tokens
        /\ MarkFinished(q).prompt_tokens = q.prompt_tokens
        /\ MarkFinished(q).generated_tokens = q.generated_tokens
    BY DEF MarkFinished, RequestRecords
  <2>. QED  BY <1>6, <2>1, <2>2 DEF Ends, SameCounts
<1>. QED  BY <1>2, <1>3, <1>4, <1>5, <1>7, <1>8

(* A row that is given its token.                                           *)
WithRowToken(q, text) == [Streamed(q, text) EXCEPT !.generated_tokens = @ + 1]

LEMMA RowTokenFields ==
  ASSUME NEW q \in RequestRecords, NEW text \in BOOLEAN
  PROVE  LET p == WithRowToken(q, text)
         IN  /\ p \in RequestRecords /\ p.status = q.status /\ Ends(p) = Ends(q)
             /\ SameCounts(q, p) /\ p.generated_tokens = q.generated_tokens + 1
<1>1. Streamed(q, text) \in RequestRecords
  BY RecordMethods
<1>2. WithRowToken(q, text) \in RequestRecords
  <2>1. ASSUME NEW s \in RequestRecords
        PROVE  [s EXCEPT !.generated_tokens = @ + 1] \in RequestRecords
    <3>1. s.generated_tokens \in Nat
      BY DEF RequestRecords
    <3>2. s.generated_tokens + 1 \in Nat
      BY <3>1
    <3>. QED  BY <3>2 DEF RequestRecords
  <2>. QED  BY <1>1, <2>1 DEF WithRowToken
<1>3. /\ WithRowToken(q, text).status = q.status
      /\ WithRowToken(q, text).prompt = q.prompt
      /\ WithRowToken(q, text).max_new_tokens = q.max_new_tokens
      /\ WithRowToken(q, text).prompt_tokens = q.prompt_tokens
      /\ WithRowToken(q, text).generated_tokens = q.generated_tokens + 1
      /\ WithRowToken(q, text).output_queue
           = IF text THEN Append(q.output_queue, Text) ELSE q.output_queue
  BY DEF WithRowToken, Streamed, AppendText, MarkFirstToken, RequestRecords
<1>4. Static!Times(Append(q.output_queue, Text), End) = Ends(q)
  <2>1. q.output_queue \in Seq({Text, End}) /\ Text \in {Text, End} /\ Text # End
    BY DEF RequestRecords, Text, End
  <2>2. /\ Static!Times(q.output_queue, End) \in Nat
        /\ Static!Times(Append(q.output_queue, Text), End)
             = Static!Times(q.output_queue, End) + 0
    BY <2>1, TimesOfAppend
  <2>. QED  BY <2>2 DEF Ends
<1>. QED  BY <1>2, <1>3, <1>4 DEF Ends, SameCounts

-----------------------------------------------------------------------------
(* Steps that change where the worker is, and nothing else *)

NothingMoves ==
  UNCHANGED <<request_state, request_queue, waiting, finished, active, batch_state,
              batch_metrics, completed>>

LEMMA StandingKeeps ==
  ASSUME BInv, NothingMoves,
         phase' \in StaticPhases, local' \in StaticLocals, IsInjective(local'.batch),
         Forming' = Forming, InProgress' = InProgress, OneBatch', RowsRight',
         \A r \in Requests : Status(r) = "failed" => (r \in ToRecord' <=> r \in ToRecord)
  PROVE  BInv'
<1>1. StaticTyped'
  BY DEF BInv, SInv, StaticTyped, NothingMoves, RequestRecords, BatchDicts, KV!Blocks, Events,
         Text, End
<1>2. \A S : InStatus(S)' = InStatus(S)
  BY DEF NothingMoves, InStatus, Status
<1>3. StaticHomes'
  BY <1>2 DEF BInv, SInv, StaticHomes, NothingMoves
<1>4. ASSUME NEW r \in Requests  PROVE StaticRecord(r)'
  BY DEF BInv, SInv, StaticRecords, StaticRecord, NothingMoves, Recorded, Status, Ends
<1>5. BatchesAdd'
  BY DEF BInv, BatchesAdd, NothingMoves, GeneratedTokens, Submitted, Status, Prefills
<1>. QED  BY <1>1, <1>3, <1>4, <1>5 DEF BInv, SInv, StaticRecords

(* The local variables of a loop that begins.                               *)
LEMMA LocalsAre ==
  /\ Static!Idle \in StaticLocals /\ IsInjective(Static!Idle.batch)
  /\ Static!Idle.batch = << >> /\ Static!Idle.position = 1 /\ Static!Idle.tokens = 0
  /\ \A batch \in Seq(Requests) :
       LET l == [Static!Idle EXCEPT !.batch = batch]
       IN  l \in StaticLocals /\ l.batch = batch /\ l.position = 1 /\ l.tokens = 0
  /\ \A texts \in Seq(BOOLEAN) :
       LET l == [Static!Idle EXCEPT !.texts = texts]
       IN  /\ l \in StaticLocals /\ l.batch = << >> /\ l.position = 1 /\ l.tokens = 0
           /\ l.texts = texts
  /\ \A l \in StaticLocals :
       LET n == [l EXCEPT !.position = @ + 1]
       IN  /\ n \in StaticLocals /\ n.batch = l.batch /\ n.position = l.position + 1
           /\ n.tokens = l.tokens /\ n.texts = l.texts
<1>1. << >> \in Seq(Requests) /\ << >> \in Seq(BOOLEAN) /\ 1 \in Nat \ {0} /\ 0 \in Nat
  BY EmptySeq
<1>2. IsInjective(<< >>)
  BY DEF IsInjective
<1>3. Static!Idle \in StaticLocals
  BY <1>1 DEF Static!Idle, StaticLocals
<1>4. \A l \in StaticLocals : l.position + 1 \in Nat \ {0}
  BY DEF StaticLocals
<1>5. \A l \in StaticLocals :
        LET n == [l EXCEPT !.position = @ + 1]
        IN  /\ n \in StaticLocals /\ n.batch = l.batch /\ n.position = l.position + 1
            /\ n.tokens = l.tokens /\ n.texts = l.texts
  BY <1>4 DEF StaticLocals
<1>6. \A batch \in Seq(Requests) :
       LET l == [Static!Idle EXCEPT !.batch = batch]
       IN  l \in StaticLocals /\ l.batch = batch /\ l.position = 1 /\ l.tokens = 0
  BY <1>1 DEF Static!Idle, StaticLocals
<1>7. \A texts \in Seq(BOOLEAN) :
       LET l == [Static!Idle EXCEPT !.texts = texts]
       IN  /\ l \in StaticLocals /\ l.batch = << >> /\ l.position = 1 /\ l.tokens = 0
           /\ l.texts = texts
  BY <1>1 DEF Static!Idle, StaticLocals
<1>8. Static!Idle.batch = << >> /\ Static!Idle.position = 1 /\ Static!Idle.tokens = 0
  BY DEF Static!Idle
<1>. QED  BY <1>2, <1>3, <1>5, <1>6, <1>7, <1>8

(* The rows of a batch: each request has one, and nobody else is active.    *)
LEMMA ActiveIs ==
  ASSUME StaticTyped, StaticHomes
  PROVE  /\ Len(active) \in Nat /\ DOMAIN active = 1 .. Len(active)
         /\ local \in StaticLocals /\ local.position \in Nat \ {0}
         /\ \A i \in DOMAIN active :
              /\ active[i] \in Requests /\ active[i] \in Range(active)
              /\ Status(active[i]) \in {"decoding", "finished", "failed"}
         /\ \A r \in Range(active) : \E i \in DOMAIN active : active[i] = r
         /\ \A i, j \in DOMAIN active : active[i] = active[j] => i = j
         /\ active = << >> <=> Len(active) = 0
<1>1. /\ Len(active) \in Nat /\ DOMAIN active = 1 .. Len(active)
      /\ active = << >> <=> Len(active) = 0
  BY LenProperties, EmptySeq DEF StaticTyped
<1>2. local \in StaticLocals /\ local.position \in Nat \ {0}
  BY DEF StaticTyped, StaticLocals
<1>3. \A i \in DOMAIN active : active[i] \in Requests /\ active[i] \in Range(active)
  BY ElementOfSeq, <1>1 DEF StaticTyped, Range
<1>4. \A i \in DOMAIN active : Status(active[i]) \in {"decoding", "finished", "failed"}
  BY <1>3 DEF StaticHomes, InStatus
<1>5. \A r \in Range(active) : \E i \in DOMAIN active : active[i] = r
  BY DEF Range
<1>6. \A i, j \in DOMAIN active : active[i] = active[j] => i = j
  BY DEF StaticHomes, IsInjective
<1>. QED  BY <1>1, <1>2, <1>3, <1>4, <1>5, <1>6

(* Nothing is to be recorded while no batch is looked through.              *)
Quiet == {"idle", "drain", "drain_again", "admit", "form", "fail_batch", "decode"}

LEMMA RowsStand ==
  ASSUME BInv, NothingMoves, phase \in Quiet, phase' \in Quiet
  PROVE  /\ RowsRight' /\ InProgress' = InProgress
         /\ \A r \in Requests : Status(r) = "failed" => (r \in ToRecord' <=> r \in ToRecord)
<1>1. \A i \in DOMAIN active : RowRight(i)'
  BY DEF BInv, SInv, RowsRight, RowRight, NothingMoves, Quiet, Applied
<1>2. RowsRight'
  BY <1>1 DEF BInv, SInv, RowsRight, NothingMoves, Quiet
<1>. QED  BY <1>2 DEF Quiet, ToRecord, InProgress

LEMMA StepsBeforeABatch ==
  ASSUME BInv, \/ Static!BeginStep \/ Static!Admit \/ Static!BatchFailed
               \/ Static!Drain /\ request_queue = << >>
               \/ Static!FailPrefill
  PROVE  BInv'
<1>0. local \in StaticLocals /\ IsInjective(local.batch) /\ local.batch \in Seq(Requests)
  BY DEF BInv, SInv, StaticTyped, StaticHomes, StaticLocals
<1>. DEFINE entered(batch) == [Static!Idle EXCEPT !.batch = batch]
<1>1. /\ entered(<< >>) \in StaticLocals /\ entered(<< >>).batch = << >>
      /\ IsInjective(entered(<< >>).batch)
  BY EmptySeq, LocalsAre
<1>. HIDE DEF entered
<1>2. ASSUME Static!BeginStep  PROVE BInv'
  <2>1. NothingMoves /\ phase = "idle" /\ phase' = "drain" /\ local' = local
    BY <1>2 DEF Static!BeginStep, Static!Goto, Static!batch_vars, NothingMoves
  <2>2. OneBatch'
    BY <2>1 DEF BInv, SInv, OneBatch, NothingMoves
  <2>. QED  BY <1>0, <2>1, <2>2, StandingKeeps, RowsStand DEF StaticPhases, Forming, Quiet
<1>3. ASSUME Static!Admit  PROVE BInv'
  <2>1. /\ NothingMoves /\ phase = "admit"
        /\ \/ phase' = "decode" /\ local' = local
           \/ phase' = "drain_again" /\ local' = local /\ active = << >> /\ waiting # << >>
           \/ /\ phase' = "form" /\ local' = entered(<< >>) /\ active = << >>
              /\ waiting # << >>
    BY <1>3 DEF Static!Admit, Static!Goto, Static!Enter, Static!batch_vars, NothingMoves, entered
  <2>2. OneBatch'
    BY <2>1 DEF BInv, SInv, OneBatch, NothingMoves
  <2>3. Forming' = Forming
    BY <1>1, <2>1 DEF Forming, Range
  <2>4. phase' \in StaticPhases /\ local' \in StaticLocals /\ IsInjective(local'.batch)
    BY <1>0, <1>1, <2>1 DEF StaticPhases
  <2>5. phase \in Quiet /\ phase' \in Quiet
    BY <2>1 DEF Quiet
  <2>. QED  BY <2>1, <2>2, <2>3, <2>4, <2>5, StandingKeeps, RowsStand
<1>4. ASSUME Static!BatchFailed  PROVE BInv'
  <2>1. /\ NothingMoves /\ phase = "fail_batch" /\ local.position > Len(local.batch)
        /\ phase' = "decode" /\ local' = entered(<< >>)
    BY <1>4 DEF Static!BatchFailed, Static!Enter, Static!batch_vars, NothingMoves, entered
  <2>2. OneBatch'
    BY <2>1 DEF BInv, SInv, OneBatch, NothingMoves
  <2>3. local.position \in Nat /\ Len(local.batch) \in Nat
    BY <1>0, LenProperties DEF StaticLocals
  <2>4. local.position .. Len(local.batch) = {}
    BY <2>1, <2>3
  <2>5. Forming = {} /\ Forming' = {}
    BY <2>1, <2>4 DEF Forming
  <2>. QED  BY <1>1, <2>1, <2>2, <2>5, StandingKeeps, RowsStand DEF StaticPhases, Quiet
<1>5. ASSUME Static!Drain, request_queue = << >>  PROVE BInv'
  <2>1. /\ NothingMoves /\ phase \in {"drain", "drain_again"}
        /\ IF phase = "drain" THEN phase' = "admit" /\ local' = local
           ELSE phase' = "form" /\ local' = entered(<< >>)
    BY <1>5 DEF Static!Drain, Static!Goto, Static!Enter, Static!batch_vars, NothingMoves, entered
  <2>2. OneBatch'
    BY <2>1 DEF BInv, SInv, OneBatch, NothingMoves
  <2>3. Forming' = Forming
    <3>1. Range(entered(<< >>).batch) = {}
      BY <1>1 DEF Range
    <3>2. Forming = {}
      BY <2>1 DEF Forming
    <3>3. Forming' = {}
      BY <2>1, <3>1 DEF Forming
    <3>. QED  BY <3>2, <3>3
  <2>4. phase' \in StaticPhases /\ local' \in StaticLocals /\ IsInjective(local'.batch)
    BY <1>0, <1>1, <2>1 DEF StaticPhases
  <2>5. phase \in Quiet /\ phase' \in Quiet
    BY <2>1 DEF Quiet
  <2>. QED  BY <2>1, <2>2, <2>3, <2>4, <2>5, StandingKeeps, RowsStand
<1>6. ASSUME Static!FailPrefill  PROVE BInv'
  <2>1. /\ phase = "form" /\ active' = << >> /\ batch_metrics' = Static!NoMetrics
        /\ batch_state' = NoBatch /\ phase' = "fail_batch" /\ local' = entered(local.batch)
        /\ completed' = [completed EXCEPT !.metrics = Static!WithMetrics("failed")]
        /\ UNCHANGED <<request_state, request_queue, waiting, finished>>
    BY <1>6, StaticOperators DEF Static!FailPrefill, Static!PrefillReady, Static!Enter, entered
  <2>2. active = << >> /\ batch_state = NoBatch /\ batch_metrics = Static!NoMetrics
    BY <2>1 DEF BInv, SInv, OneBatch
  <2>3. completed' = completed
    BY <2>1, <2>2 DEF Static!WithMetrics, BInv, SInv, StaticTyped
  <2>4. NothingMoves
    BY <2>1, <2>2, <2>3 DEF NothingMoves
  <2>5. entered(local.batch) \in StaticLocals /\ entered(local.batch).batch = local.batch
        /\ entered(local.batch).position = 1
    BY <1>0, LocalsAre DEF entered
  <2>6. OneBatch'
    BY <2>1, <2>4 DEF BInv, SInv, OneBatch, NothingMoves
  <2>7. {local.batch[i] : i \in 1 .. Len(local.batch)} = Range(local.batch)
    BY <1>0, LenProperties DEF Range
  <2>8. Forming' = Forming
    BY <2>1, <2>5, <2>7 DEF Forming
  <2>. QED  BY <1>0, <2>1, <2>4, <2>5, <2>6, <2>8, StandingKeeps, RowsStand DEF StaticPhases, Quiet
<1>. QED  BY <1>2, <1>3, <1>4, <1>5, <1>6

(* The steps of a loop over the rows of the batch that only move on.        *)
LEMMA StepsOverRows ==
  ASSUME BInv, \/ Static!NothingToDecode \/ Static!DecodeBatch \/ Static!SkipRow
               \/ Static!FailDecode \/ Static!RowsFailed \/ Static!Keep
  PROVE  BInv'
<1>0. /\ local \in StaticLocals /\ IsInjective(local.batch) /\ local.position \in Nat \ {0}
      /\ Len(active) \in Nat /\ DOMAIN active = 1 .. Len(active)
      /\ \A i \in DOMAIN active : RowRight(i)
      /\ \A r \in Range(active) : \E i \in DOMAIN active : active[i] = r
      /\ active = << >> <=> Len(active) = 0
      /\ batch_state \in [past_length : Nat, mask : Seq(Nat)]
      /\ batch_metrics.decode_steps \in Nat
      /\ \A i \in DOMAIN active :
           /\ request_state[active[i]].generated_tokens \in Nat
           /\ Status(active[i]) \in {"decoding", "finished", "failed"}
  <2>1. StaticTyped /\ StaticHomes
    BY DEF BInv, SInv
  <2>2. \A i \in DOMAIN active : request_state[active[i]] \in RequestRecords
    BY <2>1, ActiveIs DEF StaticTyped
  <2>. QED  BY <2>1, <2>2, ActiveIs DEF StaticTyped, StaticHomes, BInv, SInv, RowsRight, BatchDicts, RequestRecords
<1>1. Static!Idle \in StaticLocals /\ Static!Idle.batch = << >> /\ Static!Idle.position = 1
      /\ IsInjective(Static!Idle.batch) /\ Static!Idle.tokens = 0
  BY LocalsAre
<1>2. /\ [Static!Idle EXCEPT !.batch = << >>] \in StaticLocals
      /\ [Static!Idle EXCEPT !.batch = << >>].position = 1
      /\ IsInjective([Static!Idle EXCEPT !.batch = << >>].batch)
  BY EmptySeq, LocalsAre
<1>3. ASSUME Static!NothingToDecode  PROVE BInv'
  <2>1. /\ NothingMoves /\ phase = "decode" /\ phase' = "remove" /\ local' = local
        /\ active = << >> \/ batch_state = NoBatch
    BY <1>3, StaticOperators DEF Static!NothingToDecode, Static!Goto, Static!batch_vars, NothingMoves
  <2>2. active = << >>
    BY <1>0, <2>1 DEF BInv, SInv, OneBatch, NoBatch
  <2>3. active' = << >> /\ DOMAIN active' = {}
    BY <2>1, <2>2 DEF NothingMoves
  <2>4. OneBatch' /\ RowsRight'
    BY <2>1, <2>2, <2>3 DEF BInv, SInv, OneBatch, NothingMoves, RowsRight
  <2>5. ToRecord = {}
    BY <2>1 DEF ToRecord
  <2>6. local'.position .. Len(active') = {}
    BY <1>0, <2>1, <2>2, <2>3
  <2>7. ToRecord' = {}
    BY <2>1, <2>6 DEF ToRecord
  <2>8. Forming' = Forming /\ InProgress' = InProgress
    BY <2>1 DEF Forming, InProgress
  <2>. QED  BY <1>0, <2>1, <2>4, <2>5, <2>7, <2>8, StandingKeeps DEF StaticPhases
<1>4. ASSUME Static!DecodeBatch  PROVE BInv'
  <2>1. PICK texts \in [DOMAIN active -> BOOLEAN] :
          /\ NothingMoves /\ phase = "decode" /\ active # << >> /\ phase' = "rows"
          /\ local' = [Static!Idle EXCEPT !.texts = texts]
    BY <1>4 DEF Static!DecodeBatch, Static!CanDecode, Static!batch_vars, NothingMoves
  <2>2. texts \in Seq(BOOLEAN) /\ Len(texts) = Len(active)
    <3>1. texts \in [1 .. Len(active) -> BOOLEAN]
      BY <1>0
    <3>. QED  BY <1>0, <3>1, LenProperties, SeqDef
  <2>3. local' \in StaticLocals /\ local'.batch = << >> /\ local'.position = 1 /\ local'.tokens = 0
        /\ local'.texts = texts
    BY <2>1, <2>2, LocalsAre
  <2>4. IsInjective(local'.batch)
    BY <1>1, <2>3
  <2>5. OneBatch'
    BY <2>1, <2>2, <2>3 DEF BInv, SInv, OneBatch, NothingMoves
  <2>6. ASSUME NEW i \in DOMAIN active  PROVE RowRight(i)'
    BY <1>0, <2>1, <2>3 DEF RowRight, Applied, NothingMoves
  <2>7. RowsRight'
    BY <2>1, <2>6 DEF BInv, SInv, RowsRight, NothingMoves
  <2>8. Forming' = Forming /\ InProgress' = InProgress /\ ToRecord' = ToRecord
    BY <2>1, <2>3 DEF Forming, InProgress, ToRecord
  <2>. QED  BY <2>1, <2>3, <2>4, <2>5, <2>7, <2>8, StandingKeeps DEF StaticPhases
<1>5. ASSUME Static!SkipRow  PROVE BInv'
  <2>1. /\ NothingMoves /\ phase = "rows" /\ phase' = phase /\ local.position <= Len(active)
        /\ Status(active[local.position]) = "finished"
        /\ local' = [local EXCEPT !.position = @ + 1]
    BY <1>5 DEF Static!SkipRow, Static!Rows, Static!Row, Static!NextPosition, Static!batch_vars,
                Static!Status, Status, NothingMoves
  <2>2. local' \in StaticLocals /\ local'.batch = local.batch
        /\ local'.position = local.position + 1 /\ local'.tokens = local.tokens
        /\ local'.texts = local.texts
    BY <1>0, <2>1, LocalsAre
  <2>3. OneBatch'
    BY <2>1, <2>2 DEF BInv, SInv, OneBatch, NothingMoves
  <2>4. ASSUME NEW i \in DOMAIN active  PROVE RowRight(i)'
    <3>1. RowRight(i) /\ i \in Nat /\ local.position \in Nat
      BY <1>0
    <3>2. /\ request_state' = request_state /\ active' = active
          /\ batch_state' = batch_state /\ batch_metrics' = batch_metrics
      BY <2>1 DEF NothingMoves
    <3>3. i # local.position => Applied(i)' = Applied(i)
      BY <2>1, <2>2, <3>1 DEF Applied
    <3>4. Applied(i) = 0 \/ Applied(i) = 1
      BY DEF Applied
    <3>5. i = local.position => Applied(i) = 0 /\ Applied(i)' = 1
      BY <2>1, <2>2, <3>1 DEF Applied
    <3>6. CASE i # local.position
      BY <2>1, <3>1, <3>2, <3>3, <3>6 DEF RowRight
    <3>7. CASE i = local.position
      <4>1. request_state[active[i]].status = "finished"
        BY <2>1, <3>7 DEF Status
      <4>2. /\ request_state[active[i]].generated_tokens \in Nat
            /\ batch_metrics.decode_steps \in Nat
        BY <1>0 DEF RequestRecords, BatchDicts
      <4>3. request_state[active[i]].generated_tokens <= batch_metrics.decode_steps + 1
        BY <3>1, <3>5, <3>7, <4>1, <4>2 DEF RowRight
      <4>. QED  BY <2>1, <3>1, <3>2, <3>5, <3>7, <4>1, <4>3 DEF RowRight
    <3>. QED  BY <3>6, <3>7
  <2>5. RowsRight'
    BY <2>1, <2>4 DEF BInv, SInv, RowsRight, NothingMoves
  <2>6. Forming' = Forming /\ InProgress' = InProgress /\ ToRecord' = ToRecord
    BY <2>1, <2>2 DEF Forming, InProgress, ToRecord
  <2>. QED  BY <1>0, <2>1, <2>2, <2>3, <2>5, <2>6, StandingKeeps DEF StaticPhases
<1>6. ASSUME Static!FailDecode  PROVE BInv'
  <2>1. /\ NothingMoves /\ phase = "decode" /\ phase' = "fail_rows" /\ active # << >>
        /\ local' = [Static!Idle EXCEPT !.batch = << >>]
    BY <1>6 DEF Static!FailDecode, Static!CanDecode, Static!Enter, Static!batch_vars, NothingMoves
  <2>2. local' \in StaticLocals /\ local'.position = 1 /\ IsInjective(local'.batch)
    BY <1>2, <2>1
  <2>3. OneBatch'
    BY <2>1 DEF BInv, SInv, OneBatch, NothingMoves
  <2>4. ASSUME NEW i \in DOMAIN active  PROVE RowRight(i)'
    BY <1>0, <2>1, <2>2 DEF RowRight, Applied, NothingMoves
  <2>5. RowsRight'
    BY <2>1, <2>4 DEF BInv, SInv, RowsRight, NothingMoves
  <2>6. \A i \in DOMAIN active : Status(active[i]) # "failed"
    BY <1>0, <2>1 DEF RowRight, Status
  <2>7. \A r \in Requests : Status(r) = "failed" => r \notin ToRecord' /\ r \notin ToRecord
    BY <1>0, <2>1, <2>6 DEF ToRecord, NothingMoves
  <2>8. Forming' = Forming /\ InProgress' = InProgress
    BY <2>1 DEF Forming, InProgress
  <2>. QED  BY <2>1, <2>2, <2>3, <2>5, <2>7, <2>8, StandingKeeps DEF StaticPhases
<1>7. ASSUME Static!RowsFailed  PROVE BInv'
  <2>1. /\ NothingMoves /\ phase = "fail_rows" /\ phase' = "remove"
        /\ local.position > Len(active)
        /\ local' = [Static!Idle EXCEPT !.batch = << >>]
    BY <1>7 DEF Static!RowsFailed, Static!Enter, Static!batch_vars, NothingMoves
  <2>2. local' \in StaticLocals /\ local'.position = 1 /\ IsInjective(local'.batch)
    BY <1>2, <2>1
  <2>3. OneBatch'
    BY <2>1 DEF BInv, SInv, OneBatch, NothingMoves
  <2>4. \A i \in DOMAIN active : Status(active[i]) = "failed"
    BY <1>0, <2>1 DEF RowRight, Status
  <2>5. ASSUME NEW i \in DOMAIN active  PROVE RowRight(i)'
    BY <1>0, <2>1, <2>2, <2>4 DEF RowRight, Applied, NothingMoves, Status
  <2>6. RowsRight'
    BY <2>1, <2>2, <2>4, <2>5 DEF BInv, SInv, RowsRight, NothingMoves, Status
  <2>7. {active[i] : i \in 1 .. Len(active)} = Range(active)
    BY <1>0 DEF Range
  <2>8. ToRecord' = ToRecord
    BY <2>1, <2>2, <2>7 DEF ToRecord, NothingMoves
  <2>9. Forming' = Forming /\ InProgress' = InProgress
    BY <2>1 DEF Forming, InProgress
  <2>. QED  BY <2>1, <2>2, <2>3, <2>6, <2>8, <2>9, StandingKeeps DEF StaticPhases
<1>8. ASSUME Static!Keep  PROVE BInv'
  <2>1. /\ NothingMoves /\ phase = "remove" /\ phase' = "idle" /\ local' = Static!Idle
        /\ active = << >> \/ \A r \in Range(active) : Status(r) # "failed"
    BY <1>8, StaticOperators
       DEF Static!Keep, Static!EndStep, Static!batch_vars, NothingMoves, Static!SomeEnded,
           Static!Status, Status
  <2>2. OneBatch'
    BY <2>1 DEF BInv, SInv, OneBatch, NothingMoves
  <2>3. \A i \in DOMAIN active : Status(active[i]) # "failed"
    BY <1>0, <2>1 DEF Range
  <2>4. ASSUME NEW i \in DOMAIN active  PROVE RowRight(i)'
    BY <1>0, <2>1, <2>3 DEF RowRight, Applied, NothingMoves, Status
  <2>5. RowsRight'
    BY <2>1, <2>4 DEF BInv, SInv, RowsRight, NothingMoves
  <2>6. \A r \in Requests : Status(r) = "failed" => r \notin ToRecord
    BY <1>0, <2>1, <2>3 DEF ToRecord
  <2>7. ToRecord' = {} /\ Forming' = Forming /\ InProgress' = InProgress
    BY <2>1 DEF ToRecord, Forming, InProgress
  <2>. QED  BY <1>1, <2>1, <2>2, <2>5, <2>6, <2>7, StandingKeeps DEF StaticPhases
<1>. QED  BY <1>3, <1>4, <1>5, <1>6, <1>7, <1>8

-----------------------------------------------------------------------------
(* Steps that change one request *)

LEMMA RequestChanges ==
  ASSUME StaticTyped, NEW r \in Requests, NEW q \in RequestRecords, Static!Set(r, q)
  PROVE  /\ request_state' \in [Requests -> RequestRecords]
         /\ request_state'[r] = q
         /\ \A x \in Requests \ {r} : request_state'[x] = request_state[x]
         /\ \A S : InStatus(S)' = (InStatus(S) \ {r}) \cup (IF q.status \in S THEN {r} ELSE {})
<1>1. /\ request_state' \in [Requests -> RequestRecords]
      /\ request_state'[r] = q
      /\ \A x \in Requests \ {r} : request_state'[x] = request_state[x]
  BY DEF StaticTyped, Static!Set
<1>. QED  BY <1>1 DEF InStatus, Status

LEMMA RequestIs ==
  ASSUME StaticTyped, NEW r \in Requests
  PROVE  /\ request_state[r] \in RequestRecords
         /\ Status(r) = request_state[r].status /\ Status(r) \in Statuses
         /\ \A S : r \in InStatus(S) <=> Status(r) \in S
BY DEF StaticTyped, RequestRecords, InStatus, Status

LEMMA RecordStays ==
  ASSUME NEW x \in Requests, StaticRecord(x), request_state'[x] = request_state[x],
         Recorded(x)' = Recorded(x),
         request_state[x].status = "failed" => (x \in ToRecord' <=> x \in ToRecord)
  PROVE  StaticRecord(x)'
BY DEF StaticRecord, Ends

LEMMA RowsUntouched ==
  ASSUME BInv, UNCHANGED <<active, batch_state, batch_metrics>>,
         \A x \in Range(active) : request_state'[x] = request_state[x],
         (phase \in Quiet /\ phase' \in Quiet) \/ UNCHANGED <<phase, local>>
  PROVE  RowsRight'
<1>1. \A i \in DOMAIN active : active[i] \in Range(active)
  BY DEF Range
<1>2. ASSUME NEW i \in DOMAIN active  PROVE RowRight(i)'
  <2>1. RowRight(i) /\ request_state'[active[i]] = request_state[active[i]]
    BY <1>1 DEF BInv, SInv, RowsRight
  <2>2. CASE phase \in Quiet /\ phase' \in Quiet
    BY <2>1, <2>2 DEF RowRight, Quiet, Applied
  <2>3. CASE UNCHANGED <<phase, local>>
    BY <2>1, <2>3 DEF RowRight, Applied
  <2>. QED  BY <2>2, <2>3
<1>. QED  BY <1>1, <1>2 DEF BInv, SInv, RowsRight, Quiet, Status

(* The tokens and the prompts that are counted do not depend on the rest of *)
(* a request.                                                               *)
LEMMA CountsStay ==
  ASSUME BInv, UNCHANGED <<active, batch_metrics, completed>>, InProgress' = InProgress,
         \A x \in Requests :
           /\ request_state'[x].generated_tokens = request_state[x].generated_tokens
           /\ request_state'[x].prompt_tokens = request_state[x].prompt_tokens
           /\ Status(x)' = "new" <=> Status(x) = "new"
  PROVE  BatchesAdd'
<1>1. GeneratedTokens' = GeneratedTokens /\ Submitted' = Submitted /\ Prefills' = Prefills
  BY DEF GeneratedTokens, Submitted, Prefills
<1>. QED  BY <1>1 DEF BInv, BatchesAdd

LEMMA StaticSubmitKeeps ==
  ASSUME BInv, NEW r \in Requests, Static!Submit(r)
  PROVE  BInv'
<1>0. StaticTyped /\ StaticHomes /\ OneBatch /\ StaticRecords
  BY DEF BInv, SInv
<1>1. PICK s \in StaticShapes : Static!Set(r, NewRequestState(s.prompt, s.max_new_tokens))
  BY StaticOperators DEF Static!Submit
<1>. DEFINE q == NewRequestState(s.prompt, s.max_new_tokens)
<1>2. /\ Status(r) = "new" /\ request_queue' = Append(request_queue, r)
      /\ UNCHANGED <<waiting, finished, phase, local, active, batch_state, batch_metrics, completed>>
  BY DEF Static!Submit, Static!batch_vars, Static!Status, Status
<1>3. s.prompt \in Nat \ {0} /\ s.max_new_tokens \in Nat \ {0}
  BY StaticAssumption
<1>4. q \in RequestRecords
  <2>1. <<"arrival">> \in Seq(Events)
    BY DEF Events
  <2>2. << >> \in Seq({Text, End}) /\ << >> \in Seq(KV!Blocks)
    BY EmptySeq
  <2>. QED  BY <1>3, <2>1, <2>2 DEF NewRequestState, RequestRecords, Statuses
<1>5. /\ q.status = "waiting" /\ q.prompt = s.prompt /\ q.max_new_tokens = s.max_new_tokens
      /\ q.prompt_tokens = 0 /\ q.generated_tokens = 0 /\ Ends(q) = 0
  BY NothingInEmpty DEF NewRequestState, Ends
<1>. HIDE DEF q
<1>6. /\ request_state' \in [Requests -> RequestRecords]
      /\ request_state'[r] = q
      /\ \A x \in Requests \ {r} : request_state'[x] = request_state[x]
      /\ \A S : InStatus(S)' = (InStatus(S) \ {r}) \cup (IF q.status \in S THEN {r} ELSE {})
  BY <1>0, <1>1, <1>4, RequestChanges DEF q
<1>7. \A S : r \in InStatus(S) <=> "new" \in S
  BY <1>0, <1>2, RequestIs
<1>8. r \notin Range(request_queue) /\ r \notin Range(waiting) /\ r \notin Range(active)
  BY <1>0, <1>7 DEF StaticHomes
<1>9. StaticTyped'
  <2>1. request_queue' \in Seq(Requests)
    BY <1>0, <1>2, AppendProperties DEF StaticTyped
  <2>. QED  BY <1>0, <1>2, <1>6, <2>1 DEF StaticTyped, RequestRecords, BatchDicts, KV!Blocks, Events,
                                         Text, End
<1>10. StaticHomes'
  <2>1. IsInjective(request_queue') /\ Range(request_queue') = Range(request_queue) \cup {r}
    BY <1>0, <1>2, <1>8, AppendToDistinct, AppendRange DEF StaticTyped, StaticHomes
  <2>2. Forming' = Forming
    BY <1>2 DEF Forming
  <2>3. /\ InStatus({"waiting"})' = InStatus({"waiting"}) \cup {r}
        /\ InStatus({"prefill"})' = InStatus({"prefill"})
        /\ InStatus({"decoding"})' = InStatus({"decoding"})
        /\ InStatus({"decoding", "finished", "failed"})' = InStatus({"decoding", "finished", "failed"})
    BY <1>5, <1>6, <1>7
  <2>. QED  BY <1>0, <1>2, <1>8, <2>1, <2>2, <2>3 DEF StaticHomes
<1>11. OneBatch'
  BY <1>0, <1>2 DEF OneBatch
<1>12. RowsRight'
  <2>1. \A x \in Range(active) : x \in Requests \ {r}
    BY <1>0, <1>8, ActiveIs
  <2>. QED  BY <1>2, <1>6, <2>1, RowsUntouched
<1>13. ASSUME NEW x \in Requests  PROVE StaticRecord(x)'
  <2>1. StaticRecord(x) /\ Recorded(x)' = Recorded(x) /\ ToRecord' = ToRecord
    BY <1>0, <1>2 DEF StaticRecords, Recorded, ToRecord
  <2>2. CASE x = r
    <3>1. Recorded(r) = 0
      BY <1>2, <2>1, <2>2 DEF StaticRecord, Status, Ended
    <3>2. request_state'[x] = q /\ Recorded(x)' = 0
      BY <1>6, <2>1, <2>2, <3>1
    <3>. QED  BY <1>3, <1>5, <3>2 DEF StaticRecord, Ends, Ended
  <2>3. CASE x # r
    BY <1>6, <2>1, <2>3, RecordStays
  <2>. QED  BY <2>2, <2>3
<1>14. BatchesAdd'
  <2>1. request_state[r].generated_tokens = 0 /\ request_state[r].prompt_tokens = 0
    BY <1>0, <1>2 DEF StaticRecords, StaticRecord, Status, Unborn, NewRequestState
  <2>2. GeneratedTokens' = GeneratedTokens /\ Prefills' = Prefills
    BY <1>5, <1>6, <2>1 DEF GeneratedTokens, Prefills
  <2>3. Submitted' = Submitted \cup {r} /\ r \notin Submitted
    BY <1>2, <1>5, <1>6 DEF Submitted, Status
  <2>4. GeneratedTokens \in [Requests -> Nat] /\ GeneratedTokens[r] = 0
    BY <1>0, <2>1 DEF StaticTyped, RequestRecords, GeneratedTokens
  <2>5. IsFiniteSet(Submitted) /\ IsFiniteSet(Submitted')
    BY <2>3, FS_AddElement DEF BInv, BatchesAdd
  <2>6. SumFunctionOnSet(GeneratedTokens, Submitted') = 0 + SumFunctionOnSet(GeneratedTokens, Submitted)
    <3>1. Submitted' \in SUBSET Requests /\ r \in Submitted' /\ Submitted' \ {r} = Submitted
      BY <2>3 DEF Submitted
    <3>. QED  BY <2>4, <2>5, <3>1, SumProperties
  <2>7. SumFunctionOnSet(GeneratedTokens, Submitted) \in Nat
    BY <2>4, <2>5, SumProperties DEF Submitted
  <2>8. InProgress' = InProgress
    BY <1>2 DEF InProgress
  <2>. QED  BY <1>2, <2>2, <2>5, <2>6, <2>7, <2>8 DEF BInv, BatchesAdd
<1>. QED  BY <1>9, <1>10, <1>11, <1>12, <1>13, <1>14 DEF BInv, SInv, StaticRecords

LEMMA StaticDrainKeeps ==
  ASSUME BInv, Static!Drain, request_queue # << >>
  PROVE  BInv'
<1>0. StaticTyped /\ StaticHomes /\ OneBatch /\ StaticRecords
  BY DEF BInv, SInv
<1>. DEFINE r == Head(request_queue)
            q == [request_state[r] EXCEPT !.status = "waiting"]
<1>1. /\ Static!Set(r, q) /\ request_queue' = Tail(request_queue) /\ waiting' = Append(waiting, r)
      /\ phase \in {"drain", "drain_again"}
      /\ UNCHANGED <<finished, phase, local, active, batch_state, batch_metrics, completed>>
  BY DEF Static!Drain, Static!batch_vars
<1>. HIDE DEF q, r
<1>2. /\ r \in Range(request_queue) /\ r \in Requests
      /\ Tail(request_queue) \in Seq(Requests) /\ IsInjective(Tail(request_queue))
      /\ Range(request_queue) = Range(Tail(request_queue)) \cup {r}
      /\ r \notin Range(Tail(request_queue))
  BY <1>0, TailOfDistinct, RangeOfSeq DEF StaticTyped, StaticHomes, r
<1>3. Status(r) = "waiting"
  BY <1>0, <1>2, RequestIs DEF StaticHomes
<1>4. /\ request_state[r] \in RequestRecords
      /\ q \in RequestRecords /\ q.status = "waiting" /\ Ends(q) = Ends(request_state[r])
      /\ SameCounts(request_state[r], q)
      /\ q.generated_tokens = request_state[r].generated_tokens
  BY <1>0, <1>2, RequestIs, MethodsOfARecord DEF q
<1>5. /\ request_state' \in [Requests -> RequestRecords]
      /\ request_state'[r] = q
      /\ \A x \in Requests \ {r} : request_state'[x] = request_state[x]
      /\ \A S : InStatus(S)' = (InStatus(S) \ {r}) \cup (IF q.status \in S THEN {r} ELSE {})
  BY <1>0, <1>1, <1>2, <1>4, RequestChanges
<1>6. ASSUME NEW S  PROVE InStatus(S)' = InStatus(S)
  <2>1. r \in InStatus(S) <=> "waiting" \in S
    BY <1>0, <1>2, <1>3, RequestIs
  <2>2. InStatus(S)' = (InStatus(S) \ {r}) \cup (IF "waiting" \in S THEN {r} ELSE {})
    BY <1>4, <1>5
  <2>. QED  BY <2>1, <2>2
<1>7. r \notin Range(waiting) /\ r \notin Range(active)
  BY <1>0, <1>2, <1>3, RequestIs DEF StaticHomes
<1>8. StaticTyped'
  <2>1. waiting' \in Seq(Requests)
    BY <1>0, <1>1, <1>2, AppendProperties DEF StaticTyped
  <2>. QED  BY <1>0, <1>1, <1>2, <1>5, <2>1 DEF StaticTyped, RequestRecords, BatchDicts, KV!Blocks,
                                               Events, Text, End
<1>9. StaticHomes'
  <2>1. IsInjective(waiting') /\ Range(waiting') = Range(waiting) \cup {r}
    BY <1>0, <1>1, <1>2, <1>7, AppendToDistinct, AppendRange DEF StaticTyped, StaticHomes
  <2>2. Forming' = Forming
    BY <1>1 DEF Forming
  <2>. QED  BY <1>0, <1>1, <1>2, <1>6, <2>1, <2>2 DEF StaticHomes
<1>10. OneBatch'
  <2>1. waiting' # << >>
    BY <1>0, <1>1, <1>2, AppendProperties DEF StaticTyped
  <2>. QED  BY <1>0, <1>1, <2>1 DEF OneBatch
<1>11. RowsRight'
  <2>1. \A x \in Range(active) : x \in Requests \ {r}
    BY <1>0, <1>7, ActiveIs
  <2>. QED  BY <1>1, <1>5, <2>1, RowsUntouched
<1>12. ASSUME NEW x \in Requests  PROVE StaticRecord(x)'
  <2>1. StaticRecord(x) /\ Recorded(x)' = Recorded(x) /\ ToRecord' = ToRecord
    BY <1>0, <1>1 DEF StaticRecords, Recorded, ToRecord
  <2>2. CASE x = r
    BY <1>3, <1>4, <1>5, <2>1, <2>2 DEF StaticRecord, SameCounts, Status, Ended
  <2>3. CASE x # r
    BY <1>5, <2>1, <2>3, RecordStays
  <2>. QED  BY <2>2, <2>3
<1>13. BatchesAdd'
  <2>1. InProgress' = InProgress
    BY <1>1 DEF InProgress
  <2>. QED  BY <1>1, <1>2, <1>3, <1>4, <1>5, <2>1, CountsStay DEF SameCounts, Status
<1>. QED  BY <1>8, <1>9, <1>10, <1>11, <1>12, <1>13 DEF BInv, SInv, StaticRecords

LEMMA FormBatchKeeps ==
  ASSUME BInv, Static!FormBatch
  PROVE  BInv'
<1>0. StaticTyped /\ StaticHomes /\ OneBatch /\ StaticRecords
  BY DEF BInv, SInv
<1>. DEFINE r == Head(waiting)
            q == MarkAdmitted(request_state[r])
<1>1. /\ Static!Set(r, q) /\ waiting' = Tail(waiting) /\ waiting # << >> /\ phase = "form"
      /\ local' = [local EXCEPT !.batch = Append(@, r)]
      /\ UNCHANGED <<request_queue, finished, phase, active, batch_state, batch_metrics, completed>>
  BY StaticOperators DEF Static!FormBatch, Static!MoreForBatch, Static!batch_vars
<1>. HIDE DEF q, r
<1>2. /\ r \in Range(waiting) /\ r \in Requests
      /\ Tail(waiting) \in Seq(Requests) /\ IsInjective(Tail(waiting))
      /\ Range(waiting) = Range(Tail(waiting)) \cup {r}
      /\ r \notin Range(Tail(waiting))
  BY <1>0, <1>1, TailOfDistinct, RangeOfSeq DEF StaticTyped, StaticHomes, r
<1>3. Status(r) = "waiting" /\ r \notin Range(request_queue)
  BY <1>0, <1>2, RequestIs DEF StaticHomes
<1>4. /\ request_state[r] \in RequestRecords
      /\ q \in RequestRecords /\ q.status = "prefill" /\ Ends(q) = Ends(request_state[r])
      /\ SameCounts(request_state[r], q)
      /\ q.generated_tokens = request_state[r].generated_tokens
  BY <1>0, <1>2, RequestIs, MethodsOfARecord DEF q
<1>5. /\ request_state' \in [Requests -> RequestRecords]
      /\ request_state'[r] = q
      /\ \A x \in Requests \ {r} : request_state'[x] = request_state[x]
      /\ \A S : InStatus(S)' = (InStatus(S) \ {r}) \cup (IF q.status \in S THEN {r} ELSE {})
  BY <1>0, <1>1, <1>2, <1>4, RequestChanges
<1>6. \A S : r \in InStatus(S) <=> "waiting" \in S
  BY <1>0, <1>2, <1>3, RequestIs
<1>7. /\ InStatus({"waiting"})' = InStatus({"waiting"}) \ {r}
      /\ InStatus({"prefill"})' = InStatus({"prefill"}) \cup {r}
      /\ InStatus({"decoding"})' = InStatus({"decoding"})
      /\ InStatus({"decoding", "finished", "failed"})' = InStatus({"decoding", "finished", "failed"})
  BY <1>4, <1>5, <1>6
<1>8. /\ local.batch \in Seq(Requests) /\ local \in StaticLocals
      /\ Forming = Range(local.batch) /\ active = << >>
  BY <1>0, <1>1 DEF StaticTyped, StaticLocals, Forming, OneBatch
<1>9. r \notin Range(local.batch)
  BY <1>0, <1>6, <1>8 DEF StaticHomes
<1>10. /\ local'.batch = Append(local.batch, r) /\ local'.batch \in Seq(Requests)
       /\ local' \in StaticLocals
       /\ IsInjective(local'.batch) /\ Range(local'.batch) = Range(local.batch) \cup {r}
       /\ local'.batch # << >>
  <2>1. Append(local.batch, r) \in Seq(Requests) /\ Append(local.batch, r) # << >>
    BY <1>2, <1>8, AppendProperties
  <2>2. local'.batch = Append(local.batch, r) /\ local' \in StaticLocals
    BY <1>1, <1>8, <2>1 DEF StaticLocals
  <2>. QED  BY <1>0, <1>2, <1>8, <1>9, <2>1, <2>2, AppendToDistinct, AppendRange DEF StaticHomes
<1>11. StaticTyped'
  BY <1>0, <1>1, <1>2, <1>5, <1>10
     DEF StaticTyped, RequestRecords, BatchDicts, KV!Blocks, Events, Text, End, StaticLocals
<1>12. StaticHomes'
  <2>1. Forming' = Forming \cup {r}
    BY <1>1, <1>8, <1>10 DEF Forming
  <2>. QED  BY <1>0, <1>1, <1>2, <1>3, <1>7, <1>10, <2>1 DEF StaticHomes
<1>13. OneBatch'
  BY <1>0, <1>1, <1>8, <1>10 DEF OneBatch
<1>14. RowsRight'
  <2>1. Range(active) = {}
    BY <1>8 DEF Range
  <2>. QED  BY <1>1, <2>1, RowsUntouched DEF Quiet
<1>15. ASSUME NEW x \in Requests  PROVE StaticRecord(x)'
  <2>1. StaticRecord(x) /\ Recorded(x)' = Recorded(x) /\ ToRecord' = {} /\ ToRecord = {}
    BY <1>0, <1>1 DEF StaticRecords, Recorded, ToRecord
  <2>2. CASE x = r
    BY <1>3, <1>4, <1>5, <2>1, <2>2 DEF StaticRecord, SameCounts, Status, Ended
  <2>3. CASE x # r
    BY <1>5, <2>1, <2>3, RecordStays
  <2>. QED  BY <2>2, <2>3
<1>16. BatchesAdd'
  <2>1. InProgress' = InProgress
    BY <1>1 DEF InProgress
  <2>. QED  BY <1>1, <1>2, <1>3, <1>4, <1>5, <2>1, CountsStay DEF SameCounts, Status
<1>. QED  BY <1>11, <1>12, <1>13, <1>14, <1>15, <1>16 DEF BInv, SInv, StaticRecords

(* A request is recorded once more.                                         *)
LEMMA RecordedOnceMore ==
  ASSUME StaticTyped, NEW r \in Requests, finished' = Append(finished, r)
  PROVE  /\ finished' \in Seq(Requests)
         /\ \A x : Recorded(x) \in Nat
         /\ Recorded(r)' = Recorded(r) + 1
         /\ \A x : x # r => Recorded(x)' = Recorded(x)
<1>1. finished \in Seq(Requests) /\ finished' \in Seq(Requests)
  BY AppendProperties DEF StaticTyped
<1>2. ASSUME NEW x
      PROVE  /\ Recorded(x) \in Nat
             /\ Recorded(x)' = Recorded(x) + (IF r = x THEN 1 ELSE 0)
  BY <1>1, TimesOfAppend DEF Recorded
<1>3. \A x : Recorded(x) \in Nat
  BY <1>2
<1>4. Recorded(r)' = Recorded(r) + 1
  BY <1>2
<1>5. \A x : x # r => Recorded(x)' = Recorded(x) + 0
  BY <1>2
<1>. QED  BY <1>1, <1>3, <1>4, <1>5

LEMMA FailOneOfBatchKeeps ==
  ASSUME BInv, Static!FailOneOfBatch
  PROVE  BInv'
<1>0. StaticTyped /\ StaticHomes /\ OneBatch /\ StaticRecords
  BY DEF BInv, SInv
<1>r. PICK r : r = local.batch[local.position]
  OBVIOUS
<1>. DEFINE q == MarkFailed(request_state[r])
<1>1. /\ Static!Set(r, q) /\ finished' = Append(finished, r) /\ phase = "fail_batch"
      /\ local.position <= Len(local.batch)
      /\ local' = [local EXCEPT !.position = @ + 1]
      /\ UNCHANGED <<request_queue, waiting, phase, active, batch_state, batch_metrics, completed>>
  BY StaticOperators, <1>r DEF Static!FailOneOfBatch, Static!Record, Static!NextPosition, Static!batch_vars
<1>2. /\ local \in StaticLocals /\ local.batch \in Seq(Requests) /\ Len(local.batch) \in Nat
      /\ local.position \in Nat \ {0} /\ DOMAIN local.batch = 1 .. Len(local.batch)
  BY <1>0, LenProperties DEF StaticTyped, StaticLocals
<1>3. local.position \in 1 .. Len(local.batch) /\ r \in Requests
  BY <1>1, <1>2, <1>r, ElementOfSeq
<1>4. /\ local' \in StaticLocals /\ local'.batch = local.batch
      /\ local'.position = local.position + 1
  BY <1>1, <1>2, LocalsAre
<1>5. r \in Forming /\ Forming' = Forming \ {r} /\ active = << >>
  <2>1. \A i, j \in 1 .. Len(local.batch) : local.batch[i] = local.batch[j] => i = j
    BY <1>0, <1>2 DEF StaticHomes, IsInjective
  <2>2. Forming = {local.batch[i] : i \in local.position .. Len(local.batch)}
    BY <1>1 DEF Forming
  <2>3. Forming' = {local.batch[i] : i \in local.position + 1 .. Len(local.batch)}
    BY <1>1, <1>4 DEF Forming
  <2>. QED  BY <1>0, <1>1, <1>2, <1>3, <1>r, <2>1, <2>2, <2>3 DEF OneBatch
<1>. HIDE DEF q
<1>6. Status(r) = "prefill"
  BY <1>0, <1>3, <1>5, RequestIs DEF StaticHomes
<1>7. /\ request_state[r] \in RequestRecords
      /\ q \in RequestRecords /\ q.status = "failed" /\ Ends(q) = Ends(request_state[r]) + 1
      /\ SameCounts(request_state[r], q)
      /\ q.generated_tokens = request_state[r].generated_tokens
  BY <1>0, <1>3, RequestIs, MethodsOfARecord DEF q
<1>8. /\ request_state' \in [Requests -> RequestRecords]
      /\ request_state'[r] = q
      /\ \A x \in Requests \ {r} : request_state'[x] = request_state[x]
      /\ \A S : InStatus(S)' = (InStatus(S) \ {r}) \cup (IF q.status \in S THEN {r} ELSE {})
  BY <1>0, <1>1, <1>3, <1>7, RequestChanges
<1>9. \A S : r \in InStatus(S) <=> "prefill" \in S
  BY <1>0, <1>3, <1>6, RequestIs
<1>10. /\ InStatus({"waiting"})' = InStatus({"waiting"})
       /\ InStatus({"prefill"})' = InStatus({"prefill"}) \ {r}
       /\ InStatus({"decoding"})' = InStatus({"decoding"})
  BY <1>7, <1>8, <1>9
<1>11. /\ finished' \in Seq(Requests)
       /\ Recorded(r) \in Nat /\ Recorded(r)' = Recorded(r) + 1
       /\ \A x : x # r => Recorded(x)' = Recorded(x)
  BY <1>0, <1>1, <1>3, RecordedOnceMore
<1>12. StaticTyped'
  BY <1>0, <1>1, <1>4, <1>8, <1>11
     DEF StaticTyped, RequestRecords, BatchDicts, KV!Blocks, Events, Text, End, StaticLocals
<1>13. StaticHomes'
  <2>1. Range(active) = {}
    BY <1>5 DEF Range
  <2>. QED  BY <1>0, <1>1, <1>4, <1>5, <1>10, <2>1 DEF StaticHomes
<1>14. OneBatch'
  BY <1>0, <1>1 DEF OneBatch
<1>15. RowsRight'
  <2>1. Range(active) = {}
    BY <1>5 DEF Range
  <2>. QED  BY <1>1, <2>1, RowsUntouched DEF Quiet
<1>16. ASSUME NEW x \in Requests  PROVE StaticRecord(x)'
  <2>1. StaticRecord(x) /\ ToRecord' = {} /\ ToRecord = {}
    BY <1>0, <1>1 DEF StaticRecords, ToRecord
  <2>2. CASE x = r
    <3>1. /\ q.generated_tokens = 0 /\ q.max_new_tokens \in Nat \ {0} /\ q.prompt \in Nat \ {0}
          /\ Ends(q) = 1 /\ Recorded(r)' = 1
      BY <1>6, <1>7, <1>11, <2>1, <2>2 DEF StaticRecord, SameCounts, Status, Ended
    <3>. QED  BY <1>7, <1>8, <2>1, <2>2, <3>1 DEF StaticRecord, Ended
  <2>3. CASE x # r
    BY <1>8, <1>11, <2>1, <2>3, RecordStays
  <2>. QED  BY <2>2, <2>3
<1>17. BatchesAdd'
  <2>1. InProgress' = InProgress
    BY <1>1 DEF InProgress
  <2>. QED  BY <1>1, <1>3, <1>6, <1>7, <1>8, <2>1, CountsStay DEF SameCounts, Status
<1>. QED  BY <1>12, <1>13, <1>14, <1>15, <1>16, <1>17 DEF BInv, SInv, StaticRecords

(* The request whose row is looked at.                                      *)
LEMMA RowIs ==
  ASSUME BInv, local.position <= Len(active)
  PROVE  LET p == local.position
             r == active[p]
         IN  /\ p \in DOMAIN active /\ p \in Nat \ {0} /\ r \in Requests /\ r \in Range(active)
             /\ RowRight(p) /\ StaticRecord(r)
             /\ request_state[r] \in RequestRecords
             /\ Status(r) \in {"decoding", "finished", "failed"}
             /\ r \notin Range(request_queue) /\ r \notin Range(waiting)
             /\ \A i \in DOMAIN active \ {p} :
                  i \in Nat \ {0} /\ active[i] \in Requests \ {r} /\ RowRight(i)
             /\ batch_metrics.decode_steps \in Nat
<1>0. StaticTyped /\ StaticHomes /\ RowsRight /\ StaticRecords
  BY DEF BInv, SInv
<1>. DEFINE p == local.position
            r == active[p]
<1>1. p \in DOMAIN active /\ p \in Nat \ {0}
  BY <1>0, ActiveIs
<1>2. r \in Requests /\ r \in Range(active) /\ Status(r) \in {"decoding", "finished", "failed"}
  BY <1>0, <1>1, ActiveIs
<1>3. request_state[r] \in RequestRecords
  BY <1>0, <1>2, RequestIs
<1>4. r \notin InStatus({"waiting"})
  BY <1>0, <1>2, RequestIs
<1>5. \A i \in DOMAIN active \ {p} :
        i \in Nat \ {0} /\ active[i] \in Requests \ {r} /\ RowRight(i)
  BY <1>0, <1>1, ActiveIs DEF RowsRight
<1>6. batch_metrics.decode_steps \in Nat
  BY <1>0 DEF StaticTyped, BatchDicts
<1>. QED  BY <1>0, <1>1, <1>2, <1>3, <1>4, <1>5, <1>6 DEF RowsRight, StaticRecords, StaticHomes

LEMMA FinishRowKeeps ==
  ASSUME BInv, Static!FinishRow
  PROVE  BInv'
<1>0. StaticTyped /\ StaticHomes /\ OneBatch /\ StaticRecords
  BY DEF BInv, SInv
<1>r. PICK r : r = active[local.position]
  OBVIOUS
<1>. DEFINE p == local.position
            q == MarkFinished(request_state[r])
<1>1. /\ Static!Set(r, q) /\ finished' = Append(finished, r)
      /\ phase = "finish" /\ phase' = "rows"
      /\ local' = [local EXCEPT !.position = @ + 1]
      /\ UNCHANGED <<request_queue, waiting, active, batch_state, batch_metrics, completed>>
  BY StaticOperators, <1>r
     DEF Static!FinishRow, Static!Row, Static!Record, Static!NextPosition, Static!batch_vars
<1>2. p <= Len(active)
  BY <1>0, <1>1 DEF OneBatch
<1>3. /\ p \in DOMAIN active /\ p \in Nat \ {0} /\ r \in Requests /\ r \in Range(active)
      /\ RowRight(p) /\ StaticRecord(r)
      /\ request_state[r] \in RequestRecords
      /\ r \notin Range(request_queue) /\ r \notin Range(waiting)
      /\ \A i \in DOMAIN active \ {p} :
           i \in Nat \ {0} /\ active[i] \in Requests \ {r} /\ RowRight(i)
      /\ batch_metrics.decode_steps \in Nat
  BY <1>2, <1>r, RowIs
<1>4. /\ local' \in StaticLocals /\ local'.batch = local.batch
      /\ local'.position = p + 1 /\ local'.tokens = local.tokens /\ local'.texts = local.texts
  <2>1. local \in StaticLocals
    BY <1>0 DEF StaticTyped
  <2>. QED  BY <1>1, <2>1, LocalsAre
<1>. HIDE DEF q, p
<1>5. /\ Status(r) = "decoding" /\ request_state[r].status = "decoding"
      /\ request_state[r].generated_tokens = request_state[r].max_new_tokens
      /\ request_state[r].generated_tokens = batch_metrics.decode_steps + 1
  BY <1>1, <1>3, <1>r DEF RowRight, Applied, Status, p
<1>6. /\ q \in RequestRecords /\ q.status = "finished" /\ Ends(q) = Ends(request_state[r]) + 1
      /\ SameCounts(request_state[r], q)
      /\ q.generated_tokens = request_state[r].generated_tokens
  BY <1>3, MethodsOfARecord DEF q
<1>7. /\ request_state' \in [Requests -> RequestRecords]
      /\ request_state'[r] = q
      /\ \A x \in Requests \ {r} : request_state'[x] = request_state[x]
      /\ \A S : InStatus(S)' = (InStatus(S) \ {r}) \cup (IF q.status \in S THEN {r} ELSE {})
  BY <1>0, <1>1, <1>3, <1>6, RequestChanges
<1>8. \A S : r \in InStatus(S) <=> "decoding" \in S
  BY <1>0, <1>3, <1>5, RequestIs
<1>9. /\ InStatus({"waiting"})' = InStatus({"waiting"})
      /\ InStatus({"prefill"})' = InStatus({"prefill"})
      /\ InStatus({"decoding"})' \subseteq InStatus({"decoding"})
      /\ InStatus({"decoding", "finished", "failed"})' = InStatus({"decoding", "finished", "failed"})
  BY <1>6, <1>7, <1>8
<1>10. /\ finished' \in Seq(Requests)
       /\ Recorded(r) \in Nat /\ Recorded(r)' = Recorded(r) + 1
       /\ \A x : x # r => Recorded(x)' = Recorded(x)
  BY <1>0, <1>1, <1>3, RecordedOnceMore
<1>11. StaticTyped'
  BY <1>0, <1>1, <1>4, <1>7, <1>10
     DEF StaticTyped, RequestRecords, BatchDicts, KV!Blocks, Events, Text, End, StaticLocals,
         StaticPhases
<1>12. StaticHomes'
  <2>1. Forming' = Forming
    BY <1>1 DEF Forming
  <2>. QED  BY <1>0, <1>1, <1>4, <1>9, <2>1 DEF StaticHomes
<1>13. OneBatch'
  BY <1>0, <1>1, <1>4 DEF OneBatch
<1>14. RowsRight'
  <2>1. ASSUME NEW i \in DOMAIN active  PROVE RowRight(i)'
    <3>1. CASE i = p
      <4>1. active'[i] = r /\ request_state'[active'[i]] = q
        BY <1>1, <1>7, <1>r, <3>1 DEF p
      <4>2. Applied(i)' = 1
        BY <1>1, <1>3, <1>4, <3>1 DEF Applied
      <4>. QED  BY <1>1, <1>3, <1>4, <1>5, <1>6, <1>r, <3>1, <4>1, <4>2 DEF RowRight, SameCounts, p
    <3>2. CASE i # p
      <4>1. RowRight(i) /\ request_state'[active'[i]] = request_state[active[i]] /\ i \in Nat
        BY <1>1, <1>3, <1>7, <3>2
      <4>2. Applied(i)' = Applied(i)
        BY <1>1, <1>3, <1>4, <3>2, <4>1 DEF Applied, p
      <4>. QED  BY <1>1, <3>2, <4>1, <4>2 DEF RowRight, p
    <3>. QED  BY <3>1, <3>2
  <2>. QED  BY <1>1, <2>1 DEF RowsRight, BInv, SInv
<1>15. ASSUME NEW x \in Requests  PROVE StaticRecord(x)'
  <2>1. StaticRecord(x) /\ ToRecord' = {} /\ ToRecord = {}
    BY <1>0, <1>1 DEF StaticRecords, ToRecord
  <2>2. CASE x = r
    <3>1. Ends(q) = 1 /\ Recorded(r)' = 1 /\ q.prompt_tokens > 0
      BY <1>5, <1>6, <1>10, <2>1, <2>2 DEF StaticRecord, SameCounts, Ended
    <3>. QED  BY <1>5, <1>6, <1>7, <2>1, <2>2, <3>1 DEF StaticRecord, Ended, SameCounts
  <2>3. CASE x # r
    BY <1>7, <1>10, <2>1, <2>3, RecordStays
  <2>. QED  BY <2>2, <2>3
<1>16. BatchesAdd'
  <2>1. InProgress' = InProgress
    BY <1>1, <1>4 DEF InProgress
  <2>. QED  BY <1>1, <1>3, <1>5, <1>6, <1>7, <2>1, CountsStay DEF SameCounts, Status
<1>. QED  BY <1>11, <1>12, <1>13, <1>14, <1>15, <1>16 DEF BInv, SInv, StaticRecords

-----------------------------------------------------------------------------
(* Sums over the dicts of completed batches *)

LEMMA TotalOfAppend ==
  ASSUME NEW s \in Seq(Nat), NEW n \in Nat
  PROVE  /\ Static!Total(s) \in Nat
         /\ Static!Total(Append(s, n)) = Static!Total(s) + n
BY SumOfAppend, StaticOperators DEF Static!Total

LEMMA TotalsAre ==
  ASSUME NEW dicts \in Seq(BatchDicts)
  PROVE  /\ TokensOf(dicts) \in Seq(Nat) /\ SizesOf(dicts) \in Seq(Nat)
         /\ Static!Total(TokensOf(dicts)) \in Nat /\ Static!Total(SizesOf(dicts)) \in Nat
         /\ \A d \in BatchDicts :
              /\ TokensOf(Append(dicts, d)) = Append(TokensOf(dicts), d.tokens_generated)
              /\ SizesOf(Append(dicts, d)) = Append(SizesOf(dicts), d.batch_size)
              /\ Static!Total(TokensOf(Append(dicts, d)))
                   = Static!Total(TokensOf(dicts)) + d.tokens_generated
              /\ Static!Total(SizesOf(Append(dicts, d)))
                   = Static!Total(SizesOf(dicts)) + d.batch_size
<1>1. Len(dicts) \in Nat /\ DOMAIN dicts = 1 .. Len(dicts)
  BY LenProperties
<1>2. \A i \in 1 .. Len(dicts) : dicts[i].tokens_generated \in Nat /\ dicts[i].batch_size \in Nat
  <2>1. \A i \in 1 .. Len(dicts) : dicts[i] \in BatchDicts
    BY ElementOfSeq
  <2>. QED  BY <2>1 DEF BatchDicts
<1>3. /\ TokensOf(dicts) \in [1 .. Len(dicts) -> Nat] /\ SizesOf(dicts) \in [1 .. Len(dicts) -> Nat]
  BY <1>1, <1>2 DEF TokensOf, SizesOf
<1>4. /\ TokensOf(dicts) \in Seq(Nat) /\ SizesOf(dicts) \in Seq(Nat)
      /\ Len(TokensOf(dicts)) = Len(dicts) /\ Len(SizesOf(dicts)) = Len(dicts)
  <2>1. ASSUME NEW n \in Nat, NEW s \in [1 .. n -> Nat]  PROVE s \in Seq(Nat) /\ Len(s) = n
    <3>1. s \in Seq(Nat)
      BY SeqDef
    <3>. QED  BY <3>1, LenProperties
  <2>. QED  BY <1>1, <1>3, <2>1
<1>5. ASSUME NEW d \in BatchDicts
      PROVE  /\ TokensOf(Append(dicts, d)) = Append(TokensOf(dicts), d.tokens_generated)
             /\ SizesOf(Append(dicts, d)) = Append(SizesOf(dicts), d.batch_size)
             /\ d.tokens_generated \in Nat /\ d.batch_size \in Nat
  <2>1. d.tokens_generated \in Nat /\ d.batch_size \in Nat
    BY DEF BatchDicts
  <2>2. /\ DOMAIN Append(dicts, d) = 1 .. Len(dicts) + 1
        /\ \A i \in 1 .. Len(dicts) : Append(dicts, d)[i] = dicts[i]
        /\ Append(dicts, d)[Len(dicts) + 1] = d
    BY <1>1, AppendProperties, LenProperties
  <2>3. \A i \in 1 .. Len(dicts) + 1 : i \in 1 .. Len(dicts) \/ i = Len(dicts) + 1
    BY <1>1
  <2>4. TokensOf(Append(dicts, d)) = Append(TokensOf(dicts), d.tokens_generated)
    <3>. DEFINE t == Append(TokensOf(dicts), d.tokens_generated)
    <3>1. /\ t \in Seq(Nat) /\ DOMAIN t = 1 .. Len(dicts) + 1
          /\ \A i \in 1 .. Len(dicts) : t[i] = dicts[i].tokens_generated
          /\ t[Len(dicts) + 1] = d.tokens_generated
      BY <1>1, <1>4, <2>1, AppendProperties, LenProperties DEF TokensOf
    <3>2. t = [i \in DOMAIN t |-> t[i]]
      BY <3>1, SeqDef
    <3>. HIDE DEF t
    <3>3. TokensOf(Append(dicts, d)) = t
      BY <2>2, <2>3, <3>1, <3>2 DEF TokensOf
    <3>. QED  BY <3>3 DEF t
  <2>5. SizesOf(Append(dicts, d)) = Append(SizesOf(dicts), d.batch_size)
    <3>. DEFINE t == Append(SizesOf(dicts), d.batch_size)
    <3>1. /\ t \in Seq(Nat) /\ DOMAIN t = 1 .. Len(dicts) + 1
          /\ \A i \in 1 .. Len(dicts) : t[i] = dicts[i].batch_size
          /\ t[Len(dicts) + 1] = d.batch_size
      BY <1>1, <1>4, <2>1, AppendProperties, LenProperties DEF SizesOf
    <3>2. t = [i \in DOMAIN t |-> t[i]]
      BY <3>1, SeqDef
    <3>. HIDE DEF t
    <3>3. SizesOf(Append(dicts, d)) = t
      BY <2>2, <2>3, <3>1, <3>2 DEF SizesOf
    <3>. QED  BY <3>3 DEF t
  <2>. QED  BY <2>1, <2>4, <2>5
<1>6. Static!Total(TokensOf(dicts)) \in Nat /\ Static!Total(SizesOf(dicts)) \in Nat
  BY <1>4, TotalOfAppend
<1>. QED  BY <1>4, <1>5, <1>6, TotalOfAppend
-----------------------------------------------------------------------------
(* Steps over the rows of a batch *)

LEMMA FailRowKeeps ==
  ASSUME BInv, Static!FailRow
  PROVE  BInv'
<1>0. StaticTyped /\ StaticHomes /\ OneBatch /\ StaticRecords
  BY DEF BInv, SInv
<1>r. PICK r : r = active[local.position]
  OBVIOUS
<1>. DEFINE p == local.position
            q == MarkFailed(request_state[r])
<1>1. /\ Static!Set(r, q) /\ phase = "fail_rows" /\ p <= Len(active)
      /\ local' = [local EXCEPT !.position = @ + 1]
      /\ UNCHANGED <<request_queue, waiting, finished, phase, active, batch_state, batch_metrics,
                     completed>>
  BY StaticOperators, <1>r DEF Static!FailRow, Static!Row, Static!NextPosition, Static!batch_vars
<1>2. /\ p \in DOMAIN active /\ p \in Nat \ {0} /\ r \in Requests /\ r \in Range(active)
      /\ RowRight(p) /\ StaticRecord(r)
      /\ request_state[r] \in RequestRecords
      /\ Status(r) \in {"decoding", "finished", "failed"}
      /\ r \notin Range(request_queue) /\ r \notin Range(waiting)
      /\ \A i \in DOMAIN active \ {p} :
           i \in Nat \ {0} /\ active[i] \in Requests \ {r} /\ RowRight(i)
  BY <1>1, <1>r, RowIs
<1>3. /\ local' \in StaticLocals /\ local'.batch = local.batch
      /\ local'.position = p + 1 /\ local'.tokens = local.tokens /\ local'.texts = local.texts
  <2>1. local \in StaticLocals
    BY <1>0 DEF StaticTyped
  <2>. QED  BY <1>1, <2>1, LocalsAre
<1>. HIDE DEF q, p
<1>4. /\ Status(r) \in {"decoding", "finished"} /\ request_state[r].status = Status(r)
      /\ Status(r) = "decoding" =>
           request_state[r].generated_tokens < request_state[r].max_new_tokens
  BY <1>1, <1>2, <1>r DEF RowRight, Status, p
<1>5. /\ q \in RequestRecords /\ q.status = "failed" /\ Ends(q) = Ends(request_state[r]) + 1
      /\ SameCounts(request_state[r], q)
      /\ q.generated_tokens = request_state[r].generated_tokens
  BY <1>2, MethodsOfARecord DEF q
<1>6. /\ request_state' \in [Requests -> RequestRecords]
      /\ request_state'[r] = q
      /\ \A x \in Requests \ {r} : request_state'[x] = request_state[x]
      /\ \A S : InStatus(S)' = (InStatus(S) \ {r}) \cup (IF q.status \in S THEN {r} ELSE {})
  BY <1>0, <1>1, <1>2, <1>5, RequestChanges
<1>7. \A S : r \in InStatus(S) <=> Status(r) \in S
  BY <1>0, <1>2, RequestIs
<1>8. /\ InStatus({"waiting"})' = InStatus({"waiting"})
      /\ InStatus({"prefill"})' = InStatus({"prefill"})
      /\ InStatus({"decoding"})' \subseteq InStatus({"decoding"})
      /\ InStatus({"decoding", "finished", "failed"})' = InStatus({"decoding", "finished", "failed"})
  <2>1. r \notin InStatus({"waiting"}) /\ r \notin InStatus({"prefill"})
        /\ r \in InStatus({"decoding", "finished", "failed"})
    BY <1>4, <1>7
  <2>2. /\ InStatus({"waiting"})' = InStatus({"waiting"}) \ {r}
        /\ InStatus({"prefill"})' = InStatus({"prefill"}) \ {r}
        /\ InStatus({"decoding"})' = InStatus({"decoding"}) \ {r}
    BY <1>5, <1>6
  <2>3. InStatus({"decoding", "finished", "failed"})'
          = InStatus({"decoding", "finished", "failed"}) \cup {r}
    BY <1>5, <1>6
  <2>. QED  BY <2>1, <2>2, <2>3
<1>9. StaticTyped'
  BY <1>0, <1>1, <1>3, <1>6
     DEF StaticTyped, RequestRecords, BatchDicts, KV!Blocks, Events, Text, End, StaticLocals
<1>10. StaticHomes'
  <2>1. Forming' = Forming
    BY <1>1 DEF Forming
  <2>. QED  BY <1>0, <1>1, <1>3, <1>8, <2>1 DEF StaticHomes
<1>11. OneBatch'
  BY <1>0, <1>1, <1>3 DEF OneBatch
<1>12. RowsRight'
  <2>1. ASSUME NEW i \in DOMAIN active  PROVE RowRight(i)'
    <3>1. CASE i = p
      <4>1. active'[i] = r /\ request_state'[active'[i]] = q
        BY <1>1, <1>6, <1>r, <3>1 DEF p
      <4>. QED  BY <1>1, <1>2, <1>3, <1>5, <1>r, <3>1, <4>1 DEF RowRight, SameCounts, p
    <3>2. CASE i # p
      <4>1. RowRight(i) /\ request_state'[active'[i]] = request_state[active[i]] /\ i \in Nat
        BY <1>1, <1>2, <1>6, <3>2
      <4>2. i < p + 1 <=> i < p
        BY <1>2, <3>2, <4>1
      <4>. QED  BY <1>1, <1>3, <3>2, <4>1, <4>2 DEF RowRight, Applied, p
    <3>. QED  BY <3>1, <3>2
  <2>. QED  BY <1>1, <2>1 DEF RowsRight, BInv, SInv
<1>13. ASSUME NEW x \in Requests  PROVE StaticRecord(x)'
  <2>1. /\ StaticRecord(x) /\ ToRecord' = Range(active) /\ ToRecord = Range(active)
        /\ Recorded(x)' = Recorded(x)
    BY <1>0, <1>1 DEF StaticRecords, ToRecord, Recorded
  <2>2. CASE x = r
    <3>1. /\ Recorded(r) = Ends(request_state[r])
          /\ Ends(q) = IF q.generated_tokens = q.max_new_tokens THEN 2 ELSE 1
      <4>1. CASE Status(r) = "decoding"
        BY <1>2, <1>4, <1>5, <4>1 DEF StaticRecord, SameCounts, Ended
      <4>2. CASE Status(r) = "finished"
        BY <1>2, <1>4, <1>5, <4>2 DEF StaticRecord, SameCounts, Ended
      <4>. QED  BY <1>4, <4>1, <4>2
    <3>2. request_state'[x] = q /\ x \in ToRecord'
      BY <1>2, <1>6, <2>1, <2>2
    <3>3. Recorded(x)' = Ends(q) - 1
      <4>1. Ends(request_state[r]) \in Nat
        BY <1>2, MethodsOfARecord
      <4>. QED  BY <1>5, <2>1, <2>2, <3>1, <4>1
    <3>. QED  BY <1>2, <1>4, <1>5, <3>1, <3>2, <3>3 DEF StaticRecord, Ended, SameCounts
  <2>3. CASE x # r
    BY <1>6, <2>1, <2>3, RecordStays
  <2>. QED  BY <2>2, <2>3
<1>14. BatchesAdd'
  <2>1. InProgress' = InProgress
    BY <1>1, <1>3 DEF InProgress
  <2>. QED  BY <1>1, <1>2, <1>4, <1>5, <1>6, <2>1, CountsStay DEF SameCounts, Status
<1>. QED  BY <1>9, <1>10, <1>11, <1>12, <1>13, <1>14 DEF BInv, SInv, StaticRecords

LEMMA ApplyRowKeeps ==
  ASSUME BInv, Static!ApplyRow
  PROVE  BInv'
<1>0. StaticTyped /\ StaticHomes /\ OneBatch /\ StaticRecords
  BY DEF BInv, SInv
<1>r. PICK r : r = active[local.position]
  OBVIOUS
<1>. DEFINE p == local.position
            q == WithRowToken(request_state[r], local.texts[p])
<1>1. /\ Static!Set(r, q) /\ phase = "rows" /\ p <= Len(active) /\ Status(r) # "finished"
      /\ local' = [local EXCEPT !.tokens = @ + 1,
                                !.position = IF IsFinished(q) THEN @ ELSE @ + 1]
      /\ phase' = IF IsFinished(q) THEN "finish" ELSE "rows"
      /\ UNCHANGED <<request_queue, waiting, finished, active, batch_state, batch_metrics, completed>>
  BY StaticOperators, <1>r
     DEF Static!ApplyRow, Static!Rows, Static!Row, Static!StillDecoding, Static!Status, Status,
         Static!batch_vars, WithRowToken
<1>2. /\ p \in DOMAIN active /\ p \in Nat \ {0} /\ r \in Requests /\ r \in Range(active)
      /\ RowRight(p) /\ StaticRecord(r)
      /\ request_state[r] \in RequestRecords
      /\ Status(r) \in {"decoding", "finished", "failed"}
      /\ r \notin Range(request_queue) /\ r \notin Range(waiting)
      /\ \A i \in DOMAIN active \ {p} :
           i \in Nat \ {0} /\ active[i] \in Requests \ {r} /\ RowRight(i)
      /\ batch_metrics.decode_steps \in Nat
  BY <1>1, <1>r, RowIs
<1>3. /\ local \in StaticLocals /\ local.tokens \in Nat /\ local.texts \in Seq(BOOLEAN)
      /\ local.texts[p] \in BOOLEAN /\ Len(local.texts) = Len(active)
  <2>1. local \in StaticLocals /\ local.tokens \in Nat /\ local.texts \in Seq(BOOLEAN)
    BY <1>0 DEF StaticTyped, StaticLocals
  <2>2. Len(local.texts) = Len(active) /\ p \in 1 .. Len(active)
    BY <1>0, <1>1, <1>2, ActiveIs DEF OneBatch
  <2>. QED  BY <2>1, <2>2, ElementOfSeq
<1>4. /\ q \in RequestRecords /\ q.status = request_state[r].status
      /\ Ends(q) = Ends(request_state[r]) /\ SameCounts(request_state[r], q)
      /\ q.generated_tokens = request_state[r].generated_tokens + 1
  BY <1>2, <1>3, RowTokenFields
<1>. HIDE DEF q, p
<1>5. /\ Status(r) = "decoding" /\ request_state[r].status = "decoding"
      /\ request_state[r].generated_tokens < request_state[r].max_new_tokens
      /\ request_state[r].generated_tokens = batch_metrics.decode_steps
  BY <1>1, <1>2, <1>r DEF RowRight, Applied, Status, p
<1>6. q.max_new_tokens \in Nat /\ q.generated_tokens \in Nat /\ q.generated_tokens <= q.max_new_tokens
  <2>1. q.max_new_tokens \in Nat /\ q.generated_tokens \in Nat
    BY <1>4 DEF RequestRecords
  <2>2. request_state[r].max_new_tokens \in Nat /\ request_state[r].generated_tokens \in Nat
    BY <1>2 DEF RequestRecords
  <2>. QED  BY <1>4, <1>5, <2>1, <2>2 DEF SameCounts
<1>7. /\ IF IsFinished(q) THEN q.generated_tokens = q.max_new_tokens
         ELSE q.generated_tokens < q.max_new_tokens
  BY <1>6 DEF IsFinished
<1>8. /\ local' \in StaticLocals /\ local'.batch = local.batch /\ local'.texts = local.texts
      /\ local'.tokens = local.tokens + 1
      /\ local'.position = IF IsFinished(q) THEN p ELSE p + 1
  <2>1. local.tokens + 1 \in Nat /\ (IF IsFinished(q) THEN p ELSE p + 1) \in Nat \ {0}
    BY <1>2, <1>3
  <2>. QED  BY <1>1, <1>3, <2>1 DEF StaticLocals, p
<1>9. /\ request_state' \in [Requests -> RequestRecords]
      /\ request_state'[r] = q
      /\ \A x \in Requests \ {r} : request_state'[x] = request_state[x]
      /\ \A S : InStatus(S)' = (InStatus(S) \ {r}) \cup (IF q.status \in S THEN {r} ELSE {})
  BY <1>0, <1>1, <1>2, <1>4, RequestChanges
<1>10. ASSUME NEW S  PROVE InStatus(S)' = InStatus(S)
  <2>1. r \in InStatus(S) <=> "decoding" \in S
    BY <1>0, <1>2, <1>5, RequestIs
  <2>2. InStatus(S)' = (InStatus(S) \ {r}) \cup (IF "decoding" \in S THEN {r} ELSE {})
    BY <1>4, <1>5, <1>9
  <2>. QED  BY <2>1, <2>2
<1>11. StaticTyped'
  BY <1>0, <1>1, <1>8, <1>9
     DEF StaticTyped, RequestRecords, BatchDicts, KV!Blocks, Events, Text, End, StaticLocals,
         StaticPhases
<1>12. StaticHomes'
  <2>1. Forming' = Forming
    BY <1>1 DEF Forming
  <2>. QED  BY <1>0, <1>1, <1>8, <1>10, <2>1 DEF StaticHomes
<1>13. OneBatch'
  <2>1. phase' = "finish" => local'.position <= Len(active)
    BY <1>1, <1>8 DEF p
  <2>. QED  BY <1>0, <1>1, <1>3, <1>8, <2>1 DEF OneBatch
<1>14. RowsRight'
  <2>1. ASSUME NEW i \in DOMAIN active  PROVE RowRight(i)'
    <3>1. CASE i = p
      <4>1. active'[i] = r /\ request_state'[active'[i]] = q
        BY <1>1, <1>9, <1>r, <3>1 DEF p
      <4>2. Applied(i)' = 1 /\ (phase' = "finish" <=> IsFinished(q))
        BY <1>1, <1>2, <1>8, <3>1 DEF Applied
      <4>3. phase' = "finish" => local'.position = i
        BY <1>1, <1>8, <3>1
      <4>. QED  BY <1>1, <1>2, <1>4, <1>5, <1>7, <1>r, <3>1, <4>1, <4>2, <4>3
                DEF RowRight, SameCounts, p
    <3>2. CASE i # p
      <4>1. RowRight(i) /\ request_state'[active'[i]] = request_state[active[i]] /\ i \in Nat
        BY <1>1, <1>2, <1>9, <3>2
      <4>2. Applied(i)' = Applied(i)
        BY <1>1, <1>2, <1>8, <3>2, <4>1 DEF Applied, p
      <4>3. phase' \in {"rows", "finish"} /\ (phase' = "finish" => local'.position # i)
        BY <1>1, <1>8, <3>2
      <4>. QED  BY <1>1, <4>1, <4>2, <4>3 DEF RowRight
    <3>. QED  BY <3>1, <3>2
  <2>2. phase' # "remove"
    BY <1>1
  <2>. QED  BY <1>1, <2>1, <2>2 DEF RowsRight, BInv, SInv
<1>15. ASSUME NEW x \in Requests  PROVE StaticRecord(x)'
  <2>1. StaticRecord(x) /\ ToRecord' = {} /\ ToRecord = {} /\ Recorded(x)' = Recorded(x)
    BY <1>0, <1>1 DEF StaticRecords, ToRecord, Recorded
  <2>2. CASE x = r
    BY <1>4, <1>5, <1>6, <1>9, <2>1, <2>2 DEF StaticRecord, Ended, SameCounts
  <2>3. CASE x # r
    BY <1>9, <2>1, <2>3, RecordStays
  <2>. QED  BY <2>2, <2>3
<1>16. BatchesAdd'
  <2>1. InProgress' = local.tokens + 1 /\ InProgress = local.tokens
    BY <1>1, <1>8 DEF InProgress
  <2>2. Prefills' = Prefills /\ Submitted' = Submitted /\ r \in Submitted
    BY <1>4, <1>5, <1>9, <1>2 DEF Prefills, Submitted, Status, SameCounts
  <2>3. /\ GeneratedTokens \in [Requests -> Nat] /\ GeneratedTokens' \in [Requests -> Nat]
        /\ \A x \in Submitted :
             GeneratedTokens'[x] = IF x \in {r} THEN GeneratedTokens[x] + 1 ELSE GeneratedTokens[x]
    <3>1. GeneratedTokens \in [Requests -> Nat] /\ GeneratedTokens' \in [Requests -> Nat]
      BY <1>0, <1>11 DEF StaticTyped, RequestRecords, GeneratedTokens
    <3>. QED  BY <1>4, <1>9, <3>1 DEF GeneratedTokens, Submitted
  <2>4. Submitted \in SUBSET Requests /\ IsFiniteSet(Submitted)
    BY DEF Submitted, BInv, BatchesAdd
  <2>5. PICK later \in [Requests -> Nat] : later = GeneratedTokens'
    BY <2>3
  <2>6. SumFunctionOnSet(later, Submitted) = SumFunctionOnSet(GeneratedTokens, Submitted) + 1
    <3>1. \A x \in Submitted : later[x] = IF x = r THEN GeneratedTokens[x] + 1 ELSE GeneratedTokens[x]
      BY <2>3, <2>5
    <3>. QED  BY <2>2, <2>3, <2>4, <3>1, SumOfOneChange
  <2>7. SumFunctionOnSet(GeneratedTokens, Submitted)' = SumFunctionOnSet(GeneratedTokens, Submitted) + 1
    BY <2>2, <2>5, <2>6
  <2>8. /\ Static!Total(TokensOf(completed.metrics)) + batch_metrics.tokens_generated + local.tokens
             = SumFunctionOnSet(GeneratedTokens, Submitted)
    BY <2>1 DEF BInv, BatchesAdd
  <2>9. Static!Total(TokensOf(completed.metrics)) \in Nat /\ batch_metrics.tokens_generated \in Nat
    BY <1>0, TotalsAre DEF StaticTyped, BatchDicts
  <2>10. Static!Total(TokensOf(completed'.metrics)) + batch_metrics'.tokens_generated + InProgress'
           = SumFunctionOnSet(GeneratedTokens, Submitted)'
    BY <1>1, <1>3, <2>1, <2>7, <2>8, <2>9
  <2>. QED  BY <1>1, <2>2, <2>10 DEF BInv, BatchesAdd
<1>. QED  BY <1>11, <1>12, <1>13, <1>14, <1>15, <1>16 DEF BInv, SInv, StaticRecords

(* A row of numbers has a largest one.                                      *)
LEMMA LargestOf ==
  ASSUME NEW n \in Nat \ {0}, NEW f \in [1 .. n -> Nat]
  PROVE  LET S == {f[i] : i \in 1 .. n}
         IN  /\ Max(S) \in S /\ \A i \in 1 .. n : f[i] <= Max(S)
             /\ \A m \in S : (\A y \in S : y <= m) => m = Max(S)
<1>. DEFINE S == {f[i] : i \in 1 .. n}
            Largest(k) == k = 0 \/ \E j \in 1 .. k : \A i \in 1 .. k : f[i] <= f[j]
            Good == {k \in 0 .. n : Largest(k)}
<1>1. 0 \in Good
  OBVIOUS
<1>2. ASSUME NEW k \in 0 .. n - 1, k \in Good  PROVE k + 1 \in Good
  <2>1. k + 1 \in 0 .. n /\ Largest(k)
    BY <1>2
  <2>2. CASE k = 0
    <3>1. \A i \in 1 .. 1 : f[i] <= f[1]
      OBVIOUS
    <3>. QED  BY <2>1, <2>2, <3>1
  <2>3. CASE k # 0
    <3>1. PICK j \in 1 .. k : \A i \in 1 .. k : f[i] <= f[j]
      BY <2>1, <2>3
    <3>2. \A i \in 1 .. k + 1 : f[i] \in Nat /\ (i \in 1 .. k \/ i = k + 1)
      OBVIOUS
    <3>3. f[j] <= f[k + 1] \/ f[k + 1] <= f[j]
      BY <3>2
    <3>4. CASE f[j] <= f[k + 1]
      <4>1. \A i \in 1 .. k + 1 : f[i] <= f[k + 1]
        BY <3>1, <3>2, <3>4
      <4>2. k + 1 \in 1 .. k + 1
        OBVIOUS
      <4>. QED  BY <2>1, <4>1, <4>2
    <3>5. CASE f[k + 1] <= f[j]
      <4>1. \A i \in 1 .. k + 1 : f[i] <= f[j]
        BY <3>1, <3>2, <3>5
      <4>2. j \in 1 .. k + 1
        OBVIOUS
      <4>. QED  BY <2>1, <4>1, <4>2
    <3>. QED  BY <3>3, <3>4, <3>5
  <2>. QED  BY <2>2, <2>3
<1>. HIDE DEF Good
<1>3. \A k \in 0 .. n : k \in Good
  BY <1>1, <1>2, CountingUp
<1>4. PICK j \in 1 .. n : \A i \in 1 .. n : f[i] <= f[j]
  <2>1. n \in Good
    BY <1>3
  <2>. QED  BY <2>1 DEF Good
<1>5. \A y \in S : y \in Nat
  OBVIOUS
<1>6. f[j] \in S /\ \A y \in S : f[j] >= y
  BY <1>4
<1>7. Max(S) \in S /\ \A y \in S : Max(S) >= y
  BY <1>6 DEF Max
<1>8. \A i \in 1 .. n : f[i] \in S /\ f[i] \in Nat
  OBVIOUS
<1>. HIDE DEF S
<1>9. \A i \in 1 .. n : f[i] <= Max(S)
  BY <1>5, <1>7, <1>8
<1>10. \A m \in S : (\A y \in S : y <= m) => m = Max(S)
  BY <1>5, <1>7
<1>. QED  BY <1>7, <1>9, <1>10 DEF S

LEMMA RowsDoneKeeps ==
  ASSUME BInv, Static!RowsDone
  PROVE  BInv'
<1>0. StaticTyped /\ StaticHomes /\ OneBatch /\ StaticRecords /\ RowsRight
  BY DEF BInv, SInv
<1>1. /\ phase = "rows" /\ phase' = "remove" /\ local.position > Len(active)
      /\ local' = [Static!Idle EXCEPT !.batch = << >>]
      /\ batch_state' = Static!BatchDecoded(batch_state)
      /\ batch_metrics' = IF batch_metrics = Static!NoMetrics THEN Static!NoMetrics
                          ELSE [batch_metrics EXCEPT !.decode_steps = @ + 1,
                                                     !.tokens_generated = @ + local.tokens]
      /\ UNCHANGED <<request_state, request_queue, waiting, finished, active, completed>>
  BY DEF Static!RowsDone, Static!RecordDecodeStep, Static!Enter
<1>2. /\ local' \in StaticLocals /\ local'.position = 1 /\ local'.batch = << >>
      /\ IsInjective(local'.batch)
  BY <1>1, EmptySeq, LocalsAre
<1>3. /\ Len(active) \in Nat /\ DOMAIN active = 1 .. Len(active) /\ active # << >>
      /\ local.position \in Nat /\ local.tokens \in Nat
      /\ \A i \in DOMAIN active : RowRight(i) /\ Applied(i) = 1
      /\ \A r \in Range(active) : \E i \in DOMAIN active : active[i] = r
  BY <1>0, <1>1, ActiveIs DEF OneBatch, RowsRight, Applied, StaticLocals
<1>4. /\ batch_metrics' = [batch_metrics EXCEPT !.decode_steps = @ + 1,
                                                !.tokens_generated = @ + local.tokens]
      /\ batch_metrics \in BatchDicts
  BY <1>0, <1>1, <1>3 DEF OneBatch, Static!NoMetrics, StaticTyped
<1>5. /\ batch_metrics' \in BatchDicts
      /\ batch_metrics'.status = batch_metrics.status
      /\ batch_metrics'.batch_size = batch_metrics.batch_size
      /\ batch_metrics'.decode_steps = batch_metrics.decode_steps + 1
      /\ batch_metrics'.tokens_generated = batch_metrics.tokens_generated + local.tokens
      /\ batch_metrics.decode_steps \in Nat /\ batch_metrics.tokens_generated \in Nat
  <2>1. batch_metrics.decode_steps \in Nat /\ batch_metrics.tokens_generated \in Nat
    BY <1>4 DEF BatchDicts
  <2>2. batch_metrics.decode_steps + 1 \in Nat
        /\ batch_metrics.tokens_generated + local.tokens \in Nat
    BY <1>3, <2>1
  <2>. QED  BY <1>4, <2>1, <2>2 DEF BatchDicts
<1>6. /\ batch_state.mask \in Seq(Nat) /\ batch_state.past_length \in Nat
      /\ DOMAIN batch_state.mask = 1 .. Len(active)
      /\ batch_state'.past_length = batch_state.past_length + 1
      /\ batch_state'.mask = [i \in 1 .. Len(active) |-> batch_state.mask[i] + 1]
      /\ batch_state' \in [past_length : Nat, mask : Seq(Nat)]
      /\ Len(batch_state'.mask) = Len(active)
  <2>1. batch_state.mask \in Seq(Nat) /\ batch_state.past_length \in Nat
    BY <1>0 DEF StaticTyped
  <2>2. Len(batch_state.mask) = Len(active)
    BY <1>0, <1>3 DEF OneBatch
  <2>3. DOMAIN batch_state.mask = 1 .. Len(active)
    BY <2>1, <2>2, LenProperties
  <2>4. batch_state' = [past_length |-> batch_state.past_length + 1,
                        mask |-> [i \in 1 .. Len(active) |-> batch_state.mask[i] + 1]]
    BY <1>1, <2>3 DEF Static!BatchDecoded
  <2>5. [i \in 1 .. Len(active) |-> batch_state.mask[i] + 1] \in [1 .. Len(active) -> Nat]
    <3>1. \A i \in 1 .. Len(active) : batch_state.mask[i] \in Nat
      BY <2>1, <2>2, ElementOfSeq
    <3>. QED  BY <3>1
  <2>6. batch_state'.mask \in Seq(Nat) /\ Len(batch_state'.mask) = Len(active)
    BY <1>3, <2>4, <2>5, SeqDef, LenProperties
  <2>. QED  BY <2>1, <2>3, <2>4, <2>6
<1>7. StaticTyped'
  BY <1>0, <1>1, <1>2, <1>5, <1>6
     DEF StaticTyped, RequestRecords, BatchDicts, KV!Blocks, Events, Text, End, StaticLocals,
         StaticPhases
<1>8. StaticHomes'
  <2>1. Forming' = Forming
    BY <1>1 DEF Forming
  <2>2. \A S : InStatus(S)' = InStatus(S)
    BY <1>1 DEF InStatus, Status
  <2>. QED  BY <1>0, <1>1, <1>2, <2>1, <2>2 DEF StaticHomes
<1>9. OneBatch'
  BY <1>0, <1>1, <1>3, <1>5, <1>6 DEF OneBatch
<1>10. \A i \in DOMAIN active : request_state[active[i]].status # "failed"
  BY <1>1, <1>3 DEF RowRight
<1>11. RowsRight'
  <2>1. ASSUME NEW i \in DOMAIN active  PROVE RowRight(i)'
    <3>1. RowRight(i) /\ Applied(i) = 1 /\ Applied(i)' = 0
      BY <1>1, <1>3 DEF Applied
    <3>2. batch_state'.mask[i] = batch_state.mask[i] + 1 /\ batch_state.mask[i] \in Nat
      <4>1. i \in 1 .. Len(active) /\ i \in DOMAIN batch_state.mask
        BY <1>3, <1>6
      <4>2. batch_state'.mask[i] = batch_state.mask[i] + 1
        BY <1>6, <4>1
      <4>3. \A s \in Seq(Nat) : \A j \in DOMAIN s : s[j] \in Nat
        <5>1. \A s \in Seq(Nat) : DOMAIN s = 1 .. Len(s)
          BY LenProperties
        <5>. QED  BY <5>1, ElementOfSeq
      <4>4. batch_state.mask[i] \in Nat
        BY <1>6, <4>1, <4>3
      <4>. QED  BY <4>2, <4>4
    <3>3. request_state[active[i]].prompt_tokens \in Nat
          /\ request_state[active[i]].generated_tokens \in Nat
      <4>1. request_state[active[i]] \in RequestRecords
        BY <1>0, ActiveIs, RequestIs
      <4>. QED  BY <4>1 DEF RequestRecords
    <3>. DEFINE q == request_state[active[i]]
    <3>4. /\ q.status = "decoding" =>
               /\ q.generated_tokens = batch_metrics.decode_steps + 1
               /\ q.generated_tokens < q.max_new_tokens
          /\ q.status = "finished" => q.generated_tokens <= batch_metrics.decode_steps + 1
          /\ batch_state.mask[i] = q.prompt_tokens + batch_metrics.decode_steps
          /\ batch_state.mask[i] <= batch_state.past_length
      BY <1>1, <3>1 DEF RowRight
    <3>5. /\ batch_state'.mask[i] = q.prompt_tokens + (batch_metrics.decode_steps + 1)
          /\ batch_state'.mask[i] <= batch_state.past_length + 1
          /\ batch_metrics.decode_steps + 1 + 0 = batch_metrics.decode_steps + 1
      <4>1. ASSUME NEW m \in Nat, NEW n \in Nat, NEW k \in Nat, NEW l \in Nat, m = n + k, m <= l
            PROVE  m + 1 = n + (k + 1) /\ m + 1 <= l + 1 /\ k + 1 + 0 = k + 1
        BY <4>1
      <4>. HIDE DEF q
      <4>2. q.prompt_tokens \in Nat
        BY <3>3 DEF q
      <4>3. batch_state.mask[i] \in Nat /\ batch_state.past_length \in Nat
            /\ batch_metrics.decode_steps \in Nat
        BY <1>5, <1>6, <3>2
      <4>4. batch_state.mask[i] = q.prompt_tokens + batch_metrics.decode_steps
            /\ batch_state.mask[i] <= batch_state.past_length
        BY <3>4
      <4>5. /\ batch_state.mask[i] + 1 = q.prompt_tokens + (batch_metrics.decode_steps + 1)
            /\ batch_state.mask[i] + 1 <= batch_state.past_length + 1
            /\ batch_metrics.decode_steps + 1 + 0 = batch_metrics.decode_steps + 1
        BY <4>1, <4>2, <4>3, <4>4
      <4>. QED  BY <3>2, <4>5
    <3>6. /\ request_state' = request_state /\ active' = active /\ phase' = "remove"
          /\ batch_metrics'.decode_steps = batch_metrics.decode_steps + 1
          /\ batch_state'.past_length = batch_state.past_length + 1
          /\ q.status # "failed" /\ Applied(i)' = 0
      BY <1>1, <1>5, <1>6, <1>10, <3>1
    <3>. QED  BY <3>4, <3>5, <3>6 DEF RowRight
  <2>2. batch_state'.past_length \in Range(batch_state'.mask)
    <3>1. PICK i \in 1 .. Len(active) : batch_state.mask[i] = batch_state.past_length
      BY <1>0, <1>3, <1>6 DEF RowsRight, Range
    <3>. QED  BY <1>6, <3>1 DEF Range
  <2>. QED  BY <1>1, <1>2, <1>10, <2>1, <2>2 DEF RowsRight, Status
<1>12. ASSUME NEW x \in Requests  PROVE StaticRecord(x)'
  <2>1. x \in ToRecord' => request_state[x].status # "failed"
    <3>1. ToRecord' = {active[i] : i \in 1 .. Len(active)}
      BY <1>1, <1>2 DEF ToRecord
    <3>. QED  BY <1>3, <1>10, <3>1
  <2>2. StaticRecord(x) /\ Recorded(x)' = Recorded(x) /\ ToRecord = {}
    BY <1>0, <1>1 DEF StaticRecords, Recorded, ToRecord
  <2>. QED  BY <1>1, <2>1, <2>2, RecordStays
<1>13. BatchesAdd'
  <2>1. InProgress' = 0 /\ InProgress = local.tokens
    BY <1>1 DEF InProgress
  <2>2. Static!Total(TokensOf(completed.metrics)) \in Nat
    BY <1>0, TotalsAre DEF StaticTyped
  <2>3. GeneratedTokens' = GeneratedTokens /\ Submitted' = Submitted /\ Prefills' = Prefills
    BY <1>1 DEF GeneratedTokens, Submitted, Status, Prefills
  <2>4. Static!Total(TokensOf(completed.metrics)) + batch_metrics.tokens_generated + local.tokens
          = SumFunctionOnSet(GeneratedTokens, Submitted)
    BY <2>1 DEF BInv, BatchesAdd
  <2>5. Static!Total(TokensOf(completed.metrics)) + batch_metrics'.tokens_generated + InProgress'
          = SumFunctionOnSet(GeneratedTokens, Submitted)
    BY <1>3, <1>5, <2>1, <2>2, <2>4
  <2>. QED  BY <1>1, <2>3, <2>5 DEF BInv, BatchesAdd
<1>. QED  BY <1>7, <1>8, <1>9, <1>11, <1>12, <1>13 DEF BInv, SInv, StaticRecords

LEMMA RecordFailedKeeps ==
  ASSUME BInv, Static!RecordFailed
  PROVE  BInv'
<1>0. StaticTyped /\ StaticHomes /\ OneBatch /\ StaticRecords /\ RowsRight
  BY DEF BInv, SInv
<1>r. PICK r : r = active[local.position]
  OBVIOUS
<1>. DEFINE p == local.position
<1>1. /\ phase = "remove" /\ \E x \in Range(active) : Status(x) = "failed"
      /\ finished' = Append(finished, r) /\ p <= Len(active)
      /\ local' = [local EXCEPT !.position = @ + 1]
      /\ UNCHANGED <<request_state, request_queue, waiting, phase, active, batch_state,
                     batch_metrics, completed>>
  BY StaticOperators, <1>r
     DEF Static!RecordFailed, Static!SomeEnded, Static!Row, Static!Record, Static!NextPosition,
         Static!Status, Status, Static!batch_vars
<1>2. /\ p \in DOMAIN active /\ p \in Nat \ {0} /\ r \in Requests /\ r \in Range(active)
      /\ Len(active) \in Nat /\ DOMAIN active = 1 .. Len(active)
      /\ \A i, j \in DOMAIN active : active[i] = active[j] => i = j
  BY <1>0, <1>1, <1>r, RowIs, ActiveIs
<1>3. /\ local' \in StaticLocals /\ local'.batch = local.batch
      /\ local'.position = p + 1 /\ local'.tokens = local.tokens /\ local'.texts = local.texts
  <2>1. local \in StaticLocals
    BY <1>0 DEF StaticTyped
  <2>. QED  BY <1>1, <2>1, LocalsAre
<1>4. \A i \in DOMAIN active : Status(active[i]) = "failed"
  BY <1>0, <1>1 DEF RowsRight, Range
<1>5. /\ finished' \in Seq(Requests)
      /\ Recorded(r) \in Nat /\ Recorded(r)' = Recorded(r) + 1
      /\ \A x : x # r => Recorded(x)' = Recorded(x)
  BY <1>0, <1>1, <1>2, RecordedOnceMore
<1>6. r \in ToRecord /\ ToRecord' = ToRecord \ {r}
  <2>1. ToRecord = {active[i] : i \in p .. Len(active)}
    BY <1>1 DEF ToRecord
  <2>2. ToRecord' = {active[i] : i \in p + 1 .. Len(active)}
    BY <1>1, <1>3 DEF ToRecord
  <2>. QED  BY <1>2, <1>r, <2>1, <2>2
<1>. HIDE DEF p
<1>7. StaticTyped'
  BY <1>0, <1>1, <1>3, <1>5
     DEF StaticTyped, RequestRecords, BatchDicts, KV!Blocks, Events, Text, End, StaticLocals
<1>8. StaticHomes'
  <2>1. Forming' = Forming
    BY <1>1 DEF Forming
  <2>2. \A S : InStatus(S)' = InStatus(S)
    BY <1>1 DEF InStatus, Status
  <2>. QED  BY <1>0, <1>1, <1>3, <2>1, <2>2 DEF StaticHomes
<1>9. OneBatch'
  BY <1>0, <1>1 DEF OneBatch
<1>10. RowsRight'
  <2>1. ASSUME NEW i \in DOMAIN active  PROVE RowRight(i)'
    <3>1. RowRight(i) /\ Applied(i)' = Applied(i)
      BY <1>0, <1>1 DEF RowsRight, Applied
    <3>. QED  BY <1>1, <3>1 DEF RowRight
  <2>. QED  BY <1>0, <1>1, <1>4, <2>1 DEF RowsRight, Status
<1>11. ASSUME NEW x \in Requests  PROVE StaticRecord(x)'
  <2>1. StaticRecord(x)
    BY <1>0 DEF StaticRecords
  <2>2. CASE x = r
    <3>1. request_state[r].status = "failed" /\ Ends(request_state[r]) \in Nat
      <4>1. request_state[r].status = "failed"
        BY <1>2, <1>4, <1>r DEF Status, p
      <4>2. Ends(request_state[r]) \in Nat
        BY <1>0, <1>2, RequestIs, MethodsOfARecord
      <4>. QED  BY <4>1, <4>2
    <3>2. Recorded(r) = Ends(request_state[r]) - 1
      BY <1>6, <2>1, <2>2, <3>1 DEF StaticRecord
    <3>3. Recorded(x)' = Ends(request_state[r])
      BY <1>5, <2>2, <3>1, <3>2
    <3>4. x \notin ToRecord' /\ request_state'[x] = request_state[r]
      BY <1>1, <1>6, <2>2
    <3>. QED  BY <2>1, <2>2, <3>1, <3>3, <3>4 DEF StaticRecord, Ended
  <2>3. CASE x # r
    BY <1>1, <1>5, <1>6, <2>1, <2>3, RecordStays
  <2>. QED  BY <2>2, <2>3
<1>12. BatchesAdd'
  <2>1. InProgress' = InProgress
    BY <1>1 DEF InProgress
  <2>. QED  BY <1>1, <2>1, CountsStay DEF Status
<1>. QED  BY <1>7, <1>8, <1>9, <1>10, <1>11, <1>12 DEF BInv, SInv, StaticRecords

LEMMA RemoveBatchKeeps ==
  ASSUME BInv, NEW status \in {"finished", "failed"}, Static!RemoveBatch(status)
  PROVE  BInv'
<1>0. StaticTyped /\ StaticHomes /\ OneBatch /\ StaticRecords /\ RowsRight
  BY DEF BInv, SInv
<1>. DEFINE d == [batch_metrics EXCEPT !.status = status]
<1>1. /\ phase = "remove" /\ phase' = "idle" /\ active # << >>
      /\ \/ /\ \E x \in Range(active) : Status(x) = "failed"
            /\ local.position > Len(active)
         \/ \A x \in Range(active) : Status(x) = "finished"
      /\ completed' = [metrics |-> Static!WithMetrics(status),
                       sizes |-> Append(completed.sizes, Len(active))]
      /\ batch_metrics' = Static!NoMetrics /\ batch_state' = NoBatch /\ active' = << >>
      /\ local' = Static!Idle
      /\ UNCHANGED <<request_state, request_queue, waiting, finished>>
  BY StaticOperators
     DEF Static!RemoveBatch, Static!SomeEnded, Static!AllEnded, Static!EndStep, Static!Status, Status
<1>2. /\ Len(active) \in Nat /\ DOMAIN active = 1 .. Len(active)
      /\ local.position \in Nat
      /\ \A x \in Range(active) : \E i \in DOMAIN active : active[i] = x
  BY <1>0, ActiveIs
<1>3. /\ batch_metrics \in BatchDicts /\ batch_metrics # Static!NoMetrics
      /\ batch_metrics.batch_size = Len(active)
      /\ completed.metrics \in Seq(BatchDicts) /\ completed.sizes \in Seq(Nat)
  BY <1>0, <1>1 DEF StaticTyped, OneBatch, Static!NoMetrics
<1>4. /\ d \in BatchDicts /\ d.batch_size = Len(active)
      /\ d.tokens_generated = batch_metrics.tokens_generated
      /\ batch_metrics.tokens_generated \in Nat
  BY <1>3 DEF BatchDicts
<1>5. /\ completed'.metrics = Append(completed.metrics, d)
      /\ completed'.sizes = Append(completed.sizes, Len(active))
  BY <1>1, <1>3 DEF Static!WithMetrics
<1>6. completed' \in [metrics : Seq(BatchDicts), sizes : Seq(Nat)]
  <2>1. completed'.metrics \in Seq(BatchDicts) /\ completed'.sizes \in Seq(Nat)
    BY <1>2, <1>3, <1>4, <1>5, AppendProperties
  <2>. QED  BY <1>1, <2>1
<1>. HIDE DEF d
<1>7. /\ local' \in StaticLocals /\ IsInjective(local'.batch) /\ IsInjective(active')
      /\ active' \in Seq(Requests) /\ Range(active') = {} /\ DOMAIN active' = {} /\ Len(active') = 0
  <2>1. IsInjective(<< >>) /\ << >> \in Seq(Requests) /\ Range(<< >>) = {}
    BY DEF IsInjective, Range
  <2>. QED  BY <1>1, <2>1, LocalsAre
<1>8. Static!NoMetrics \in BatchDicts /\ NoBatch \in [past_length : Nat, mask : Seq(Nat)]
  BY DEF Static!NoMetrics, BatchDicts, NoBatch
<1>9. StaticTyped'
  BY <1>0, <1>1, <1>6, <1>7, <1>8
     DEF StaticTyped, RequestRecords, BatchDicts, KV!Blocks, Events, Text, End, StaticPhases
<1>10. \A x \in Range(active) : Status(x) \in {"finished", "failed"}
  BY <1>0, <1>1, <1>2 DEF RowsRight
<1>11. StaticHomes'
  <2>1. Forming' = Forming
    BY <1>1 DEF Forming
  <2>2. \A S : InStatus(S)' = InStatus(S)
    BY <1>1 DEF InStatus, Status
  <2>3. InStatus({"decoding"}) = {}
    BY <1>0, <1>10 DEF StaticHomes, InStatus
  <2>. QED  BY <1>0, <1>1, <1>7, <2>1, <2>2, <2>3 DEF StaticHomes
<1>12. OneBatch'
  BY <1>0, <1>1 DEF OneBatch
<1>13. RowsRight'
  BY <1>1, <1>7 DEF RowsRight
<1>14. ASSUME NEW x \in Requests  PROVE StaticRecord(x)'
  <2>1. StaticRecord(x) /\ Recorded(x)' = Recorded(x) /\ ToRecord' = {}
    BY <1>0, <1>1 DEF StaticRecords, Recorded, ToRecord
  <2>2. x \in ToRecord => Status(x) # "failed"
    <3>1. ToRecord = {active[i] : i \in local.position .. Len(active)}
      BY <1>1 DEF ToRecord
    <3>2. CASE local.position > Len(active)
      <4>1. local.position .. Len(active) = {}
        BY <1>2, <3>2
      <4>. QED  BY <3>1, <4>1
    <3>3. CASE \A y \in Range(active) : Status(y) = "finished"
      <4>1. \A i \in local.position .. Len(active) : active[i] \in Range(active)
        BY <1>0, <1>2, ActiveIs DEF Range
      <4>. QED  BY <3>1, <3>3, <4>1
    <3>. QED  BY <1>1, <3>2, <3>3
  <2>. QED  BY <1>1, <2>1, <2>2, RecordStays DEF Status
<1>15. BatchesAdd'
  <2>1. InProgress' = 0 /\ InProgress = 0
    BY <1>1 DEF InProgress
  <2>2. GeneratedTokens' = GeneratedTokens /\ Submitted' = Submitted /\ Prefills' = Prefills
    BY <1>1 DEF GeneratedTokens, Submitted, Status, Prefills
  <2>3. /\ Static!Total(TokensOf(completed.metrics)) \in Nat
        /\ Static!Total(SizesOf(completed.metrics)) \in Nat
        /\ Static!Total(TokensOf(completed'.metrics))
             = Static!Total(TokensOf(completed.metrics)) + batch_metrics.tokens_generated
        /\ Static!Total(SizesOf(completed'.metrics))
             = Static!Total(SizesOf(completed.metrics)) + Len(active)
        /\ SizesOf(completed'.metrics) = Append(SizesOf(completed.metrics), Len(active))
    BY <1>3, <1>4, <1>5, TotalsAre
  <2>4. /\ Static!Total(TokensOf(completed.metrics)) + batch_metrics.tokens_generated + 0
             = SumFunctionOnSet(GeneratedTokens, Submitted)
        /\ IsFiniteSet(Submitted)
        /\ Static!Total(SizesOf(completed.metrics)) + Len(active) = Cardinality(Prefills)
        /\ completed.sizes = SizesOf(completed.metrics)
    BY <2>1 DEF BInv, BatchesAdd
  <2>5. batch_metrics'.tokens_generated = 0
    BY <1>1 DEF Static!NoMetrics
  <2>6. Static!Total(TokensOf(completed'.metrics)) + batch_metrics'.tokens_generated + InProgress'
          = SumFunctionOnSet(GeneratedTokens, Submitted)
    BY <1>4, <2>1, <2>3, <2>4, <2>5
  <2>7. Static!Total(SizesOf(completed'.metrics)) + Len(active') = Cardinality(Prefills)
    BY <1>2, <1>7, <2>3, <2>4
  <2>8. completed'.sizes = SizesOf(completed'.metrics)
    BY <1>5, <2>3, <2>4
  <2>. QED  BY <2>2, <2>4, <2>6, <2>7, <2>8 DEF BatchesAdd
<1>. QED  BY <1>9, <1>11, <1>12, <1>13, <1>14, <1>15 DEF BInv, SInv, StaticRecords

LEMMA PrefillKeeps ==
  ASSUME BInv, Static!Prefill
  PROVE  BInv'
<1>0. StaticTyped /\ StaticHomes /\ OneBatch /\ StaticRecords /\ RowsRight
  BY DEF BInv, SInv
<1>b. PICK b : b = local.batch
  OBVIOUS
<1>. DEFINE prompts == [i \in DOMAIN b |-> request_state[b[i]]]
<1>1. /\ phase = "form" /\ phase' = "decode" /\ ~ Static!MoreForBatch
      /\ request_state' = [r \in Requests |-> IF r \in Range(b) THEN InBatchPrefilled(request_state[r])
                                              ELSE request_state[r]]
      /\ batch_state' = Static!BatchPrefilled(prompts)
      /\ batch_metrics' = Static!NewBatchMetrics(Len(b))
      /\ active' = b /\ local' = [Static!Idle EXCEPT !.batch = << >>]
      /\ UNCHANGED <<request_queue, waiting, finished, completed>>
  BY StaticOperators, <1>b DEF Static!Prefill, Static!PrefillReady, Static!Enter
<1>2. /\ local' \in StaticLocals /\ local'.position = 1 /\ local'.batch = << >>
      /\ IsInjective(local'.batch)
  BY <1>1, EmptySeq, LocalsAre
<1>3. /\ b \in Seq(Requests) /\ IsInjective(b) /\ active = << >>
      /\ Len(b) \in Nat \ {0} /\ DOMAIN b = 1 .. Len(b) /\ b # << >>
      /\ Range(b) = InStatus({"prefill"})
  <2>1. b \in Seq(Requests) /\ IsInjective(b) /\ active = << >> /\ Range(b) = InStatus({"prefill"})
    BY <1>0, <1>1, <1>b DEF StaticTyped, StaticLocals, StaticHomes, OneBatch, Forming
  <2>2. Len(b) \in Nat /\ DOMAIN b = 1 .. Len(b) /\ (b = << >> <=> Len(b) = 0)
    BY <2>1, LenProperties, EmptySeq
  <2>3. b # << >>
    <3>1. waiting # << >> \/ b # << >>
      BY <1>0, <1>1, <1>b DEF OneBatch
    <3>2. MaxBatchSize \in Nat \ {0}
      BY StaticAssumption
    <3>. QED  BY <1>1, <1>b, <2>2, <3>1, <3>2 DEF Static!MoreForBatch
  <2>. QED  BY <2>1, <2>2, <2>3
<1>4. ASSUME NEW r \in Range(b)
      PROVE  /\ r \in Requests /\ Status(r) = "prefill" /\ request_state[r] \in RequestRecords
             /\ request_state'[r] = InBatchPrefilled(request_state[r])
             /\ request_state'[r] \in RequestRecords /\ request_state'[r].status = "decoding"
             /\ Ends(request_state'[r]) = Ends(request_state[r])
             /\ request_state'[r].prompt = request_state[r].prompt
             /\ request_state'[r].max_new_tokens = request_state[r].max_new_tokens
             /\ request_state'[r].prompt_tokens = request_state[r].prompt
             /\ request_state'[r].generated_tokens = request_state[r].generated_tokens
             /\ request_state[r].prompt \in Nat \ {0} /\ request_state[r].max_new_tokens \in Nat \ {0}
             /\ request_state[r].prompt_tokens = 0 /\ request_state[r].generated_tokens = 0
             /\ Ends(request_state[r]) = 0 /\ Recorded(r) = 0
  <2>1. r \in Requests /\ Status(r) = "prefill"
    BY <1>3 DEF InStatus
  <2>2. request_state[r] \in RequestRecords
    BY <1>0, <2>1, RequestIs
  <2>3. request_state'[r] = InBatchPrefilled(request_state[r])
    BY <1>1, <2>1
  <2>4. StaticRecord(r)
    BY <1>0, <2>1 DEF StaticRecords
  <2>5. /\ request_state[r].prompt \in Nat \ {0} /\ request_state[r].max_new_tokens \in Nat \ {0}
        /\ request_state[r].prompt_tokens = 0 /\ request_state[r].generated_tokens = 0
        /\ Ends(request_state[r]) = 0 /\ Recorded(r) = 0
    BY <2>1, <2>4 DEF StaticRecord, Status, Ended
  <2>6. LET p == request_state'[r]
            q == request_state[r]
        IN  /\ p \in RequestRecords /\ p.status = "decoding" /\ Ends(p) = Ends(q)
            /\ p.prompt = q.prompt /\ p.max_new_tokens = q.max_new_tokens
            /\ p.prompt_tokens = q.prompt /\ p.generated_tokens = q.generated_tokens
    <3>1. LET p == InBatchPrefilled(request_state[r])
              q == request_state[r]
          IN  /\ p \in RequestRecords /\ p.status = "decoding" /\ Ends(p) = Ends(q)
              /\ p.prompt = q.prompt /\ p.max_new_tokens = q.max_new_tokens
              /\ p.prompt_tokens = q.prompt /\ p.generated_tokens = q.generated_tokens
      BY <2>2, MethodsOfARecord
    <3>. QED  BY <2>3, <3>1
  <2>. QED  BY <2>1, <2>2, <2>3, <2>5, <2>6
<1>5. \A x \in Requests \ Range(b) : request_state'[x] = request_state[x]
  BY <1>1
<1>6. request_state' \in [Requests -> RequestRecords]
  BY <1>0, <1>1, <1>4, RequestIs
<1>7. \A i \in 1 .. Len(b) : b[i] \in Range(b)
  BY <1>3 DEF Range
<1>8. /\ \A i \in 1 .. Len(b) : request_state[b[i]].prompt \in Nat
      /\ batch_state'.mask = [i \in 1 .. Len(b) |-> request_state[b[i]].prompt]
      /\ batch_state'.past_length = Max({request_state[b[i]].prompt : i \in 1 .. Len(b)})
      /\ batch_state' = [past_length |-> batch_state'.past_length, mask |-> batch_state'.mask]
  <2>1. DOMAIN prompts = 1 .. Len(b) /\ \A i \in 1 .. Len(b) : prompts[i] = request_state[b[i]]
    BY <1>3
  <2>. HIDE DEF prompts
  <2>2. batch_state' = [past_length |-> Max({prompts[i].prompt : i \in DOMAIN prompts}),
                        mask |-> [i \in DOMAIN prompts |-> prompts[i].prompt]]
    BY <1>1, StaticOperators DEF Static!BatchPrefilled, Static!CountPromptTokens
  <2>3. \A i \in 1 .. Len(b) : request_state[b[i]].prompt \in Nat
    BY <1>4, <1>7
  <2>4. {prompts[i].prompt : i \in DOMAIN prompts} = {request_state[b[k]].prompt : k \in 1 .. Len(b)}
    BY <2>1
  <2>5. [i \in DOMAIN prompts |-> prompts[i].prompt] = [i \in 1 .. Len(b) |-> request_state[b[i]].prompt]
    BY <2>1
  <2>. QED  BY <2>2, <2>3, <2>4, <2>5
<1>9. PICK mask : mask = [i \in 1 .. Len(b) |-> request_state[b[i]].prompt]
  OBVIOUS
<1>10. /\ mask \in [1 .. Len(b) -> Nat] /\ mask \in Seq(Nat) /\ Len(mask) = Len(b)
       /\ Range(mask) = {mask[i] : i \in 1 .. Len(b)}
       /\ batch_state'.mask = mask /\ batch_state'.past_length = Max(Range(mask))
       /\ Max(Range(mask)) \in Range(mask) /\ \A i \in 1 .. Len(b) : mask[i] <= Max(Range(mask))
  <2>1. mask \in [1 .. Len(b) -> Nat]
    BY <1>8, <1>9
  <2>2. mask \in Seq(Nat) /\ Len(mask) = Len(b)
    BY <1>3, <2>1, SeqDef, LenProperties
  <2>3. Range(mask) = {mask[i] : i \in 1 .. Len(b)}
    BY <2>1 DEF Range
  <2>4. {mask[i] : i \in 1 .. Len(b)} = {request_state[b[i]].prompt : i \in 1 .. Len(b)}
    BY <1>9
  <2>5. /\ Max({mask[i] : i \in 1 .. Len(b)}) \in {mask[i] : i \in 1 .. Len(b)}
        /\ \A k \in 1 .. Len(b) : mask[k] <= Max({mask[i] : i \in 1 .. Len(b)})
    BY <1>3, <2>1, LargestOf
  <2>. QED  BY <1>8, <1>9, <2>1, <2>2, <2>3, <2>4, <2>5
<1>11. /\ batch_metrics' \in BatchDicts /\ batch_metrics'.status = "running"
       /\ batch_metrics'.batch_size = Len(b) /\ batch_metrics'.decode_steps = 0
       /\ batch_metrics'.tokens_generated = 0
  BY <1>1, <1>3 DEF Static!NewBatchMetrics, Static!NoMetrics, BatchDicts
<1>12. StaticTyped'
  <2>1. batch_state' \in [past_length : Nat, mask : Seq(Nat)]
    <3>1. Max(Range(mask)) \in Nat
      BY <1>10
    <3>. QED  BY <1>8, <1>10, <3>1
  <2>. QED  BY <1>0, <1>1, <1>2, <1>3, <1>6, <1>11, <2>1
            DEF StaticTyped, RequestRecords, BatchDicts, KV!Blocks, Events, Text, End, StaticPhases
<1>13. /\ InStatus({"waiting"})' = InStatus({"waiting"})
       /\ InStatus({"prefill"})' = {}
       /\ InStatus({"decoding"})' = InStatus({"decoding"}) \cup Range(b)
       /\ Range(b) \subseteq InStatus({"decoding", "finished", "failed"})'
  BY <1>3, <1>4, <1>5 DEF InStatus, Status
<1>14. StaticHomes'
  <2>1. Forming' = {}
    BY <1>1 DEF Forming
  <2>2. InStatus({"decoding"}) = {}
    BY <1>0, <1>3 DEF StaticHomes, Range
  <2>. QED  BY <1>0, <1>1, <1>2, <1>3, <1>13, <2>1, <2>2 DEF StaticHomes
<1>15. OneBatch'
  BY <1>1, <1>3, <1>10, <1>11 DEF OneBatch
<1>16. RowsRight'
  <2>1. ASSUME NEW i \in DOMAIN b  PROVE RowRight(i)'
    <3>1. b[i] \in Range(b) /\ i \in 1 .. Len(b) /\ active'[i] = b[i]
      BY <1>1, <1>3, <1>7
    <3>2. Applied(i)' = 0
      BY <1>1 DEF Applied
    <3>3. mask[i] = request_state[b[i]].prompt /\ mask[i] \in Nat
      BY <1>8, <1>9, <3>1
    <3>4. /\ request_state'[b[i]].status = "decoding"
          /\ request_state'[b[i]].generated_tokens = 0
          /\ request_state'[b[i]].max_new_tokens \in Nat \ {0}
          /\ request_state'[b[i]].prompt_tokens = mask[i]
      BY <1>4, <3>1, <3>3
    <3>5. /\ mask[i] = mask[i] + 0 /\ 0 = 0 + 0 /\ 0 < request_state'[b[i]].max_new_tokens
      BY <3>3, <3>4
    <3>6. /\ phase' = "decode" /\ batch_metrics'.decode_steps = 0 /\ batch_state'.mask = mask
          /\ mask[i] <= batch_state'.past_length
      BY <1>1, <1>10, <1>11, <3>1
    <3>. QED  BY <3>1, <3>2, <3>4, <3>5, <3>6 DEF RowRight
  <2>. QED  BY <1>1, <1>10, <2>1 DEF RowsRight
<1>17. ASSUME NEW x \in Requests  PROVE StaticRecord(x)'
  <2>1. StaticRecord(x) /\ Recorded(x)' = Recorded(x) /\ ToRecord' = {} /\ ToRecord = {}
    BY <1>0, <1>1 DEF StaticRecords, Recorded, ToRecord
  <2>2. CASE x \in Range(b)
    BY <1>4, <2>1, <2>2 DEF StaticRecord, Ended
  <2>3. CASE x \notin Range(b)
    BY <1>5, <2>1, <2>3, RecordStays
  <2>. QED  BY <2>2, <2>3
<1>18. BatchesAdd'
  <2>1. InProgress' = 0 /\ InProgress = 0
    BY <1>1 DEF InProgress
  <2>2. \A x \in Requests : request_state'[x].generated_tokens = request_state[x].generated_tokens
    BY <1>4, <1>5
  <2>3. GeneratedTokens' = GeneratedTokens /\ Submitted' = Submitted
    BY <1>4, <1>5, <2>2 DEF GeneratedTokens, Submitted, Status
  <2>4. Prefills' = Prefills \cup Range(b) /\ Prefills \cap Range(b) = {}
    <3>1. \A x \in Range(b) : x \in Requests /\ request_state'[x].prompt_tokens > 0
                                /\ ~ request_state[x].prompt_tokens > 0
      BY <1>4
    <3>. QED  BY <1>5, <3>1 DEF Prefills
  <2>5. IsFiniteSet(Submitted) /\ IsFiniteSet(Prefills)
    <3>1. Prefills \subseteq Submitted
      <4>. SUFFICES ASSUME NEW x \in Prefills  PROVE Status(x) # "new"
        BY DEF Prefills, Submitted
      <4>1. StaticRecord(x) /\ request_state[x].prompt_tokens > 0
        BY <1>0 DEF StaticRecords, Prefills
      <4>2. Unborn.prompt_tokens = 0
        BY DEF Unborn, NewRequestState
      <4>3. ~ Unborn.prompt_tokens > 0
        BY <4>2
      <4>. QED  BY <4>1, <4>3 DEF StaticRecord, Status
    <3>. QED  BY <3>1, FS_Subset DEF BInv, BatchesAdd
  <2>6. IsFiniteSet(Range(b)) /\ Cardinality(Range(b)) = Len(b)
    BY <1>3, CountingMembers
  <2>7. Cardinality(Prefills') = Cardinality(Prefills) + Len(b)
    BY <2>4, <2>5, <2>6, DisjointUnion
  <2>8. /\ Static!Total(TokensOf(completed.metrics)) \in Nat
        /\ Static!Total(SizesOf(completed.metrics)) \in Nat
    BY <1>0, TotalsAre DEF StaticTyped
  <2>9. batch_metrics.tokens_generated = 0 /\ Len(active) = 0
    BY <1>0, <1>3 DEF OneBatch, Static!NoMetrics
  <2>10. Static!Total(SizesOf(completed.metrics)) + Len(b) = Cardinality(Prefills')
    BY <1>3, <2>7, <2>8, <2>9 DEF BInv, BatchesAdd
  <2>. QED  BY <1>1, <1>11, <2>1, <2>3, <2>5, <2>9, <2>10 DEF BInv, BatchesAdd
<1>. QED  BY <1>12, <1>14, <1>15, <1>16, <1>17, <1>18 DEF BInv, SInv, StaticRecords

-----------------------------------------------------------------------------
(* The invariant, put together *)

LEMMA StaticInitIsRight ==
  ASSUME Static!Init
  PROVE  BInv
<1>1. /\ request_state = [r \in Requests |-> Unborn]
      /\ request_queue = << >> /\ waiting = << >> /\ finished = << >>
      /\ phase = "idle" /\ local = [Static!Idle EXCEPT !.batch = << >>]
      /\ active = << >> /\ batch_state = NoBatch /\ batch_metrics = Static!NoMetrics
      /\ completed = [metrics |-> << >>, sizes |-> << >>]
  <2>1. [Static!Idle EXCEPT !.batch = << >>] = Static!Idle
    BY DEF Static!Idle
  <2>. QED  BY <2>1, StaticOperators DEF Static!Init, Static!NoActiveBatch
<1>2. << >> \in Seq(Requests) /\ Range(<< >>) = {} /\ IsInjective(<< >>) /\ DOMAIN << >> = {}
  BY EmptySeq DEF Range, IsInjective
<1>3. /\ local \in StaticLocals /\ local.position = 1 /\ local.batch = << >> /\ local.tokens = 0
  BY <1>1, <1>2, LocalsAre
<1>4. /\ Unborn \in RequestRecords /\ Unborn.status = "new" /\ Unborn.prompt_tokens = 0
      /\ Unborn.output_queue = << >>
  <2>1. << >> \in Seq({Text, End}) /\ << >> \in Seq(KV!Blocks) /\ << >> \in Seq(Events)
    BY EmptySeq
  <2>. QED  BY <2>1 DEF Unborn, NewRequestState, RequestRecords, Statuses
<1>5. \A r \in Requests : request_state[r] = Unborn /\ Status(r) = "new"
  BY <1>1, <1>4 DEF Status
<1>6. StaticTyped
  <2>1. request_state \in [Requests -> RequestRecords]
    BY <1>1, <1>4
  <2>2. Static!NoMetrics \in BatchDicts
    BY DEF Static!NoMetrics, BatchDicts
  <2>3. NoBatch \in [past_length : Nat, mask : Seq(Nat)]
    BY EmptySeq DEF NoBatch
  <2>4. << >> \in Seq(BatchDicts) /\ << >> \in Seq(Nat)
    BY EmptySeq
  <2>5. completed \in [metrics : Seq(BatchDicts), sizes : Seq(Nat)]
    BY <1>1, <2>4
  <2>. QED  BY <1>1, <1>2, <1>3, <2>1, <2>2, <2>3, <2>5 DEF StaticTyped, StaticPhases
<1>7. \A S : "new" \notin S => InStatus(S) = {}
  BY <1>5 DEF InStatus
<1>8. StaticHomes
  <2>1. Forming = {}
    BY <1>1 DEF Forming
  <2>. QED  BY <1>1, <1>2, <1>3, <1>7, <2>1 DEF StaticHomes
<1>9. OneBatch
  BY <1>1 DEF OneBatch
<1>10. RowsRight
  BY <1>1, <1>2 DEF RowsRight
<1>11. StaticRecords
  <2>. SUFFICES ASSUME NEW r \in Requests  PROVE StaticRecord(r)
    BY DEF StaticRecords
  <2>1. Ends(request_state[r]) = 0 /\ Recorded(r) = 0
    BY <1>1, <1>4, <1>5, NothingInEmpty DEF Ends, Recorded
  <2>. QED  BY <1>4, <1>5, <2>1 DEF StaticRecord
<1>12. BatchesAdd
  <2>1. Submitted = {} /\ Prefills = {}
    <3>1. ~ Unborn.prompt_tokens > 0
      BY <1>4
    <3>. QED  BY <1>5, <3>1 DEF Submitted, Prefills
  <2>2. GeneratedTokens \in [Requests -> Nat]
    BY <1>6 DEF StaticTyped, GeneratedTokens, RequestRecords
  <2>3. SumFunctionOnSet(GeneratedTokens, Submitted) = 0
    BY <2>1, <2>2, FS_EmptySet, SumProperties
  <2>4. Cardinality(Prefills) = 0 /\ IsFiniteSet(Submitted)
    BY <2>1, FS_EmptySet
  <2>5. << >> \in [{} -> Nat] /\ {} \in SUBSET {}
    BY <1>2
  <2>6. SumFunctionOnSet(<< >>, {}) = 0
    BY <2>5, FS_EmptySet, SumProperties
  <2>7. Static!Total(<< >>) = 0
    BY <1>2, <2>6, StaticOperators DEF Static!Total
  <2>8. TokensOf(completed.metrics) = << >> /\ SizesOf(completed.metrics) = << >>
        /\ completed.sizes = << >>
    BY <1>1 DEF TokensOf, SizesOf
  <2>9. batch_metrics.tokens_generated = 0 /\ Len(active) = 0 /\ InProgress = 0
    BY <1>1 DEF Static!NoMetrics, InProgress
  <2>. QED  BY <2>3, <2>4, <2>7, <2>8, <2>9 DEF BatchesAdd
<1>. QED  BY <1>6, <1>8, <1>9, <1>10, <1>11, <1>12 DEF BInv, SInv

LEMMA BInvKept ==
  ASSUME BInv, [Static!Next]_(Static!vars)
  PROVE  BInv'
<1>1. ASSUME NEW r \in Requests, Static!Submit(r)  PROVE BInv'
  BY <1>1, StaticSubmitKeeps
<1>2. CASE Static!BeginStep \/ Static!Drain \/ Static!Admit \/ Static!BatchFailed
  BY <1>2, StepsBeforeABatch, StaticDrainKeeps
<1>3. CASE Static!FormBatch \/ Static!Prefill \/ Static!FailPrefill \/ Static!FailOneOfBatch
  BY <1>3, FormBatchKeeps, PrefillKeeps, StepsBeforeABatch, FailOneOfBatchKeeps
<1>4. CASE Static!NothingToDecode \/ Static!DecodeBatch \/ Static!SkipRow \/ Static!FailDecode
             \/ Static!RowsFailed \/ Static!Keep
  BY <1>4, StepsOverRows
<1>5. CASE Static!ApplyRow \/ Static!FinishRow \/ Static!RowsDone \/ Static!FailRow
             \/ Static!RecordFailed
  BY <1>5, ApplyRowKeeps, FinishRowKeeps, RowsDoneKeeps, FailRowKeeps, RecordFailedKeeps
<1>6. ASSUME NEW status \in {"finished", "failed"}, Static!RemoveBatch(status)  PROVE BInv'
  BY <1>6, RemoveBatchKeeps
<1>7. CASE UNCHANGED Static!vars
  <2>1. NothingMoves /\ phase' = phase /\ local' = local
    BY <1>7 DEF Static!vars, NothingMoves
  <2>2. phase \in StaticPhases /\ local \in StaticLocals /\ IsInjective(local.batch)
    BY DEF BInv, SInv, StaticTyped, StaticHomes
  <2>3. OneBatch'
    BY <2>1 DEF BInv, SInv, OneBatch, NothingMoves
  <2>4. \A i \in DOMAIN active : RowRight(i)'
    BY <2>1 DEF BInv, SInv, RowsRight, RowRight, NothingMoves, Applied
  <2>5. RowsRight'
    BY <2>1, <2>4 DEF BInv, SInv, RowsRight, NothingMoves, Status
  <2>6. Forming' = Forming /\ InProgress' = InProgress /\ ToRecord' = ToRecord
    BY <2>1 DEF Forming, InProgress, ToRecord, NothingMoves
  <2>. QED  BY <2>1, <2>2, <2>3, <2>5, <2>6, StandingKeeps
<1>. QED  BY <1>1, <1>2, <1>3, <1>4, <1>5, <1>6, <1>7 DEF Static!Next, Static!Step

(* While it runs, it runs alone.                                            *)
LEMMA StaticRunsAlone ==
  ASSUME [MCNext]_mc_vars
  PROVE  running' = running /\ (running = "static" => [Static!Next]_(Static!vars))
<1>1. CASE MCStep
  BY <1>1 DEF MCStep, ContinuousRuns, StaticRuns, EnginesRun, Static!Next
<1>2. ASSUME NEW r \in Requests, MCSubmit(r)
      PROVE  running' = running /\ (running = "static" => [Static!Next]_(Static!vars))
  BY <1>2 DEF MCSubmit, ContinuousRuns, StaticRuns, Static!Next
<1>3. CASE EnginesDone
  BY <1>3 DEF EnginesDone, mc_vars
<1>4. CASE UNCHANGED mc_vars
  BY <1>4 DEF mc_vars, vars, static_vars, Static!vars
<1>. QED  BY <1>1, <1>2, <1>3, <1>4 DEF MCNext

LEMMA StaticInit ==
  ASSUME MCInit, running = "static"
  PROVE  Static!Init
BY DEF MCInit

-----------------------------------------------------------------------------
(* Who ends, and how often *)

LEMMA EndsAreRight ==
  ASSUME BInv
  PROVE  Static!EndsOnceButForLateFailures /\ Static!FailedTogether
<1>1. Static!EndsOnceButForLateFailures
  <2>. SUFFICES ASSUME phase = "idle", NEW r \in Requests
                PROVE  LET q    == request_state[r]
                           late == q.status = "failed" /\ q.generated_tokens = q.max_new_tokens
                           ends == IF q.status \notin Ended THEN 0 ELSE IF late THEN 2 ELSE 1
                       IN  Ends(q) = ends /\ Recorded(r) = ends
    BY StaticOperators DEF Static!EndsOnceButForLateFailures, Ends, Recorded
  <2>1. StaticRecord(r) /\ ToRecord = {}
    BY DEF BInv, SInv, StaticRecords, ToRecord
  <2>2. CASE request_state[r].status \notin Ended
    BY <2>1, <2>2 DEF StaticRecord, Ended
  <2>3. CASE request_state[r].status = "finished"
    BY <2>1, <2>3 DEF StaticRecord, Ended
  <2>4. CASE request_state[r].status = "failed"
    BY <2>1, <2>4 DEF StaticRecord, Ended
  <2>. QED  BY <2>2, <2>3, <2>4 DEF Ended
<1>2. Static!FailedTogether
  <2>1. \A r \in Range(active) : \E i \in DOMAIN active : active[i] = r
    BY DEF Range
  <2>2. phase = "remove" =>
          \A i, j \in DOMAIN active :
            Status(active[i]) = "failed" => Status(active[j]) = "failed"
    BY DEF BInv, SInv, RowsRight
  <2>3. phase = "remove" =>
          \A r, s \in Range(active) : Status(r) = "failed" => Status(s) = "failed"
    BY <2>1, <2>2
  <2>. QED  BY <2>3, StaticOperators DEF Static!FailedTogether, Static!Status, Status
<1>. QED  BY <1>1, <1>2

(* Every request of the static scheduler is closed and recorded once, save  *)
(* one that had all its tokens when its batch failed, and that twice; and a *)
(* batch fails as a whole.                                                  *)
THEOREM StaticAlwaysEndsOnce == MCSpec => []StaticEndsOnce
<1>. DEFINE I == running = "static" => BInv
<1>1. MCInit => I
  BY StaticInit, StaticInitIsRight
<1>2. I /\ [MCNext]_mc_vars => I'
  BY StaticRunsAlone, BInvKept
<1>3. I => StaticEndsOnce
  BY EndsAreRight DEF StaticEndsOnce
<1>. QED  BY <1>1, <1>2, <1>3, PTL DEF MCSpec

-----------------------------------------------------------------------------
(* What tensors and metrics say of a batch *)

LEMMA RowsAreRight ==
  ASSUME BInv
  PROVE  Static!RowsMatchRequests
<1>. SUFFICES ASSUME phase = "idle", active # << >>
              PROVE  /\ \A i \in DOMAIN active :
                          LET q    == request_state[active[i]]
                              have == q.prompt_tokens + q.generated_tokens
                          IN  /\ batch_state.mask[i] >= have
                              /\ q.status = "decoding" => batch_state.mask[i] = have
                              /\ batch_state.mask[i] - q.prompt_tokens
                                   = batch_metrics.decode_steps
                     /\ batch_state.past_length = Max(Range(batch_state.mask))
  BY StaticOperators DEF Static!RowsMatchRequests
<1>0. StaticTyped /\ StaticHomes /\ OneBatch /\ RowsRight
  BY DEF BInv, SInv
<1>1. /\ DOMAIN active = 1 .. Len(active) /\ Len(active) \in Nat /\ active # << >>
      /\ \A i \in DOMAIN active : active[i] \in Requests /\ active[i] \in Range(active)
  BY <1>0, LenProperties, ElementOfSeq DEF StaticTyped, Range
<1>2. Len(active) \in Nat \ {0}
  BY <1>0, <1>1, EmptySeq DEF StaticTyped
<1>3. /\ batch_state.mask \in Seq(Nat) /\ batch_state.past_length \in Nat
      /\ Len(batch_state.mask) = Len(active)
  BY <1>0 DEF StaticTyped, OneBatch
<1>4. batch_state.mask \in [1 .. Len(active) -> Nat]
  BY <1>3, SeqDef, LenProperties
<1>5. ASSUME NEW i \in DOMAIN active
      PROVE  LET q    == request_state[active[i]]
                 have == q.prompt_tokens + q.generated_tokens
             IN  /\ batch_state.mask[i] >= have
                 /\ q.status = "decoding" => batch_state.mask[i] = have
                 /\ batch_state.mask[i] - q.prompt_tokens = batch_metrics.decode_steps
  <2>. PICK q : q = request_state[active[i]]
    OBVIOUS
  <2>1. q.prompt_tokens \in Nat /\ q.generated_tokens \in Nat
    BY <1>0, <1>1 DEF StaticTyped, RequestRecords
  <2>2. batch_metrics.decode_steps \in Nat
    BY <1>0 DEF StaticTyped, BatchDicts
  <2>3. RowRight(i) /\ Applied(i) = 0
    BY <1>0 DEF RowsRight, Applied
  <2>4. q.status \in {"decoding", "finished"}
    <3>1. q.status \in {"decoding", "finished", "failed"}
      BY <1>0, <1>1 DEF StaticHomes, InStatus, Status
    <3>. QED  BY <2>3, <3>1 DEF RowRight
  <2>5. /\ q.status = "decoding" => q.generated_tokens = batch_metrics.decode_steps
        /\ q.status = "finished" => q.generated_tokens <= batch_metrics.decode_steps
        /\ batch_state.mask[i] = q.prompt_tokens + batch_metrics.decode_steps
    BY <2>2, <2>3 DEF RowRight
  <2>. QED  BY <2>1, <2>2, <2>4, <2>5
<1>6. batch_state.past_length = Max(Range(batch_state.mask))
  <2>. PICK f : f = batch_state.mask
    OBVIOUS
  <2>1. Range(f) = {f[i] : i \in 1 .. Len(active)}
    BY <1>4 DEF Range
  <2>2. batch_state.past_length \in {f[i] : i \in 1 .. Len(active)}
    BY <1>0, <1>1, <2>1 DEF RowsRight
  <2>3. \A i \in 1 .. Len(active) : f[i] <= batch_state.past_length
    BY <1>0, <1>1 DEF RowsRight, RowRight
  <2>4. \A y \in {f[i] : i \in 1 .. Len(active)} : y <= batch_state.past_length
    BY <2>3
  <2>5. f \in [1 .. Len(active) -> Nat]
    BY <1>4
  <2>6. \A m \in {f[i] : i \in 1 .. Len(active)} :
          (\A y \in {f[i] : i \in 1 .. Len(active)} : y <= m)
            => m = Max({f[i] : i \in 1 .. Len(active)})
    BY <1>2, <2>5, LargestOf
  <2>7. batch_state.past_length = Max(Range(f))
    BY <2>1, <2>2, <2>4, <2>6
  <2>. QED  BY <2>7
<1>. QED  BY <1>5, <1>6

LEMMA BatchesAreAccounted ==
  ASSUME BInv
  PROVE  Static!BatchesAccounted
<1>0. StaticTyped /\ OneBatch /\ BatchesAdd
  BY DEF BInv, SInv
<1>1. Static!Submitted = Submitted
  BY DEF Static!Submitted, Submitted, Static!Status, Status
<1>. DEFINE w == [r \in Submitted |-> request_state[r].generated_tokens]
<1>2. /\ GeneratedTokens \in [Requests -> Nat] /\ w \in [Submitted -> Nat]
      /\ \A r \in Submitted : GeneratedTokens[r] = w[r]
      /\ Submitted \in SUBSET Requests
  BY <1>0 DEF StaticTyped, GeneratedTokens, RequestRecords, Submitted
<1>3. DOMAIN w = Submitted
  OBVIOUS
<1>. HIDE DEF w
<1>4. SumFunctionOnSet(w, Submitted) = SumFunctionOnSet(GeneratedTokens, Submitted)
  BY <1>0, <1>2, SumsSame DEF BatchesAdd
<1>5. Static!Total(w) = SumFunctionOnSet(GeneratedTokens, Submitted)
  BY <1>3, <1>4, StaticOperators DEF Static!Total
<1>6. ASSUME phase = "idle"
      PROVE  /\ (active = << >>) <=> (batch_metrics = Static!NoMetrics)
             /\ (active = << >>) <=> (batch_state = NoBatch)
  <2>1. active = << >> => batch_metrics = Static!NoMetrics /\ batch_state = NoBatch
    BY <1>0 DEF OneBatch
  <2>2. active # << >> => batch_metrics.status = "running" /\ Len(batch_state.mask) = Len(active)
    BY <1>0 DEF OneBatch
  <2>3. active # << >> => Len(active) # 0
    BY <1>0, EmptySeq DEF StaticTyped
  <2>4. Static!NoMetrics.status # "running" /\ Len(NoBatch.mask) = 0
    BY DEF Static!NoMetrics, NoBatch
  <2>. QED  BY <2>1, <2>2, <2>3, <2>4
<1>7. ASSUME phase = "idle"
      PROVE  Static!Total(TokensOf(completed.metrics)) + batch_metrics.tokens_generated
               = Static!Total(w)
  <2>1. InProgress = 0 /\ batch_metrics.tokens_generated \in Nat
        /\ Static!Total(TokensOf(completed.metrics)) \in Nat
    BY <1>0, <1>7, TotalsAre DEF InProgress, StaticTyped, BatchDicts
  <2>. QED  BY <1>0, <1>5, <2>1 DEF BatchesAdd
<1>8. /\ Static!Total(SizesOf(completed.metrics)) + Len(active) = Static!Cardinality(Prefills)
      /\ completed.sizes = SizesOf(completed.metrics)
  BY <1>0, StaticOperators DEF BatchesAdd
<1>. QED  BY <1>1, <1>6, <1>7, <1>8, StaticOperators
          DEF Static!BatchesAccounted, TokensOf, SizesOf, Prefills, w

(* Between the steps of the static scheduler the mask of every row is what  *)
(* its request has, and the rows share a cache as long as the longest; and  *)
(* the metrics of batches add up to all tokens and all prefilled requests.  *)
THEOREM StaticBatchesAlwaysMatch == MCSpec => []StaticBatchesMatchRequests
<1>. DEFINE I == running = "static" => BInv
<1>1. MCInit => I
  BY StaticInit, StaticInitIsRight
<1>2. I /\ [MCNext]_mc_vars => I'
  BY StaticRunsAlone, BInvKept
<1>3. I => StaticBatchesMatchRequests
  BY RowsAreRight, BatchesAreAccounted DEF StaticBatchesMatchRequests
<1>. QED  BY <1>1, <1>2, <1>3, PTL DEF MCSpec

-----------------------------------------------------------------------------
(* The decode engines: the inductive invariant *)

Members == Engines!Members

Needed(n) == Engines!KV!BlocksNeeded(n)

EngineTokenPosition(r) == Engines!TokenPosition(r)

(* The cell of a token, and whether it holds the token of r at position p.   *)
Cell(table, p) == Engines!Pool!CellOf(0, table, p)

EngineCells == Engines!Pool!Cells

OnCells(c) == c = [x \in EngineCells |-> c[x]]

Holds(c, table, r, p) == c[Cell(table, p)] = Engines!Token(r, p)

(* Who was initialized, and who of them is not finished.                    *)
Begun ==
  IF phase = "initialize" THEN {Members[i] : i \in 1 .. local.position - 1} ELSE Range(Members)

Working == {r \in Begun : request_state[r].status # "finished"}

(* Who has a new token that the loop over the outputs has still to look at.  *)
ToApply ==
  IF phase = "finish" THEN {Members[i] : i \in local.position .. Len(Members)} ELSE {}

RecordFields ==
  {"status", "prompt", "max_new_tokens", "prompt_tokens", "num_computed_tokens",
   "generated_tokens", "block_table", "past_length", "error", "times", "output_queue",
   "next_token"}

IsRecord(q) == q = [f \in RecordFields |-> q[f]]

PhasesOf(driver) ==
  CASE driver = "harness"   -> {"initialize", "loop", "build", "attended", "done"}
    [] driver = "synthetic" -> {"initialize", "loop", "ensure", "build", "attended", "finish",
                                "done"}
    [] driver = "hf"        -> {"initialize", "loop", "ensure", "decode", "finish", "done"}

EnginesTyped ==
  /\ config \in Engines!Configs
  /\ phase \in PhasesOf(config.driver)
  /\ local = [position |-> local.position, decode_batch |-> local.decode_batch]
  /\ local.position \in Nat \ {0}
  /\ phase \in {"loop", "build"} => local.position = 1
  /\ phase = "initialize" => local.position <= Len(Members) + 1
  /\ request_state = [r \in Requests |-> request_state[r]]
  /\ \A r \in Requests : IsRecord(request_state[r])
  /\ OnCells(cache)

(* What the record of a request says before and after it was initialized.    *)
BegunRight(r) ==
  LET q == request_state[r]
  IN  /\ q.prompt_tokens = config.prompt_tokens
      /\ q.max_new_tokens = config.max_new_tokens[r]
      /\ q.generated_tokens \in 0 .. q.max_new_tokens
      /\ q.status \in {"decoding", "finished"}
      /\ q.status = "finished" => q.generated_tokens = q.max_new_tokens
      /\ q.status = "decoding" /\ r \notin ToApply => q.generated_tokens < q.max_new_tokens
      /\ config.driver = "synthetic" => q.num_computed_tokens = EngineTokenPosition(r)
      /\ config.driver = "hf" => q.past_length = EngineTokenPosition(r)
      /\ config.driver # "hf" => q.next_token \in Nat

EngineRecords ==
  /\ \A r \in Begun : BegunRight(r)
  /\ \A r \in Requests \ Begun : request_state[r] = Engines!NewRequest(config, r)
  /\ phase = "done" => Working = {}

(* Who has room for the next token.                                         *)
WithRoom ==
  CASE phase = "ensure" -> {Engines!Active[i] : i \in 1 .. local.position - 1}
    [] phase \in {"build", "attended", "decode"} /\ config.driver # "harness" -> Working
    [] OTHER -> {}

FinalTokens(r) == config.prompt_tokens + config.max_new_tokens[r]

EngineTables ==
  /\ Partition(0 .. EngineBlocks - 1, free_blocks, block_tables)
  /\ DOMAIN block_tables = Working
  /\ \A r \in Working :
       /\ Needed(EngineTokenPosition(r)) <= Len(block_tables[r])
       /\ Len(block_tables[r]) <= Needed(FinalTokens(r))
  /\ \A r \in WithRoom : r \in Working => Needed(EngineTokenPosition(r) + 1) <= Len(block_tables[r])

Owned(tables) == [r \in Range(Members) |-> Len(TableIn(tables, r))]

AllThere(free, tables) ==
  Len(free) + SumFunctionOnSet(Owned(tables), Range(Members)) = EngineBlocks

AllBlocksThere == AllThere(free_blocks, block_tables)

(* The harness gives one token to each request in every iteration.           *)
Lockstep ==
  LET k == Len(step_metrics)
      n == Len(Members)
      ahead(i) == IF phase = "attended" /\ i < local.position THEN 1 ELSE 0
  IN  /\ \A i \in 1 .. n :
           LET q == request_state[Members[i]]
           IN  /\ q.generated_tokens = k + ahead(i)
               /\ q.status = "finished" <=> q.generated_tokens = q.max_new_tokens
      /\ phase \in {"build", "attended"} => \A r \in Requests : k < config.max_new_tokens[r]
      /\ phase = "attended" => local.decode_batch.request_ids = Members /\ local.position <= n + 1

StepRecord(k) ==
  /\ step_metrics[k].active_batch_size = config.batch_size
  /\ step_metrics[k].total_tokens_emitted = k * config.batch_size
  /\ (\E r \in Requests : k = config.max_new_tokens[r]) => step_metrics[k].kv_used_blocks = 0

StepRecords ==
  /\ step_metrics \in Seq(Range(step_metrics))
  /\ \A k \in DOMAIN step_metrics : StepRecord(k)

BatchBuilt ==
  phase = "attended" /\ local.position = 1 =>
    local.decode_batch = Engines!BuildDecodeBatch(Members, request_state, block_tables)

EngineCache ==
  config.driver # "hf" =>
    \A r \in Working : \A p \in 0 .. EngineTokenPosition(r) - 1 : Holds(cache, block_tables[r], r, p)

EnginesRight ==
  EnginesTyped /\ EngineRecords /\ EngineTables /\ AllBlocksThere /\ EngineCache

HarnessRight == config.driver = "harness" => Lockstep /\ StepRecords

DInv == EnginesRight /\ HarnessRight /\ BatchBuilt

-----------------------------------------------------------------------------
(* The instance's copies of operators that are defined outside of it.       *)
LEMMA EngineOperators ==
  /\ \A S : Engines!Cardinality(S) = Cardinality(S) /\ Engines!Max(S) = Max(S)
  /\ \A f : Engines!Range(f) = Range(f) /\ Engines!Last(f) = f[Len(f)]
  /\ \A f : Engines!SumFunction(f) = SumFunctionOnSet(f, DOMAIN f)
  /\ \A s, S : Engines!InOrder(s, S) = InOrder(s, S)
  /\ \A q : /\ Engines!MarkFinished(q) = MarkFinished(q)
            /\ Engines!MarkDecoding(q) = MarkDecoding(q)
            /\ Engines!MarkAdmitted(q) = MarkAdmitted(q)
            /\ Engines!Prefilled(q) = Prefilled(q)
            /\ Engines!Emitted(q) = Emitted(q)
            /\ Engines!IsFinished(q) = IsFinished(q)
  /\ \A m, n : Engines!NewRequestState(m, n) = NewRequestState(m, n)
  /\ \A n : Needed(n) = (n + EngineBlockSize - 1) \div EngineBlockSize
  /\ \A r : EngineTokenPosition(r)
              = request_state[r].prompt_tokens + request_state[r].generated_tokens
<1>1. \A S : Engines!Cardinality(S) = Cardinality(S)
  BY DEF Engines!Cardinality, Cardinality
<1>2. \A S : Engines!Max(S) = Max(S)
  BY DEF Engines!Max, Max
<1>3. \A f : Engines!Range(f) = Range(f) /\ Engines!Last(f) = f[Len(f)]
  BY DEF Engines!Range, Range, Engines!Last
<1>4. \A f : Engines!SumFunction(f) = SumFunctionOnSet(f, DOMAIN f)
  BY DEF Engines!SumFunction, Engines!SumFunctionOnSet, SumFunctionOnSet,
         Engines!FoldFunctionOnSet, FoldFunctionOnSet, Engines!MapThenFoldSet, MapThenFoldSet
<1>5. \A s, S : Engines!InOrder(s, S) = InOrder(s, S)
  BY DEF Engines!InOrder, InOrder
<1>6. \A times, event : Engines!Taken(times, event) = Taken(times, event)
  BY <1>3 DEF Engines!Taken, Taken
<1>7. \A q : /\ Engines!MarkFinished(q) = MarkFinished(q)
             /\ Engines!MarkDecoding(q) = MarkDecoding(q)
             /\ Engines!MarkAdmitted(q) = MarkAdmitted(q)
             /\ Engines!Prefilled(q) = Prefilled(q)
             /\ Engines!Emitted(q) = Emitted(q)
             /\ Engines!IsFinished(q) = IsFinished(q)
  BY <1>6 DEF Engines!MarkFinished, MarkFinished, Engines!MarkDecoding, MarkDecoding,
     Engines!MarkAdmitted, MarkAdmitted, Engines!Prefilled, Prefilled, Engines!Emitted, Emitted,
     Engines!IsFinished, IsFinished, Engines!CountPromptTokens, CountPromptTokens,
     Engines!End, End
<1>8. \A m, n : Engines!NewRequestState(m, n) = NewRequestState(m, n)
  BY DEF Engines!NewRequestState, NewRequestState
<1>9. \A n : Needed(n) = (n + EngineBlockSize - 1) \div EngineBlockSize
  BY DEF Needed, Engines!KV!BlocksNeeded
<1>10. \A r : EngineTokenPosition(r)
                = request_state[r].prompt_tokens + request_state[r].generated_tokens
  BY DEF EngineTokenPosition, Engines!TokenPosition
<1>. QED  BY <1>1, <1>2, <1>3, <1>4, <1>5, <1>7, <1>8, <1>9, <1>10

(* The requests that are served: as many as the batch is large, each once.  *)
LEMMA MembersAre ==
  ASSUME config \in Engines!Configs
  PROVE  /\ config.batch_size \in Nat \ {0}
         /\ Members \in Seq(Requests) /\ Len(Members) = config.batch_size
         /\ IsInjective(Members) /\ Range(Members) \subseteq Requests
<1>1. config.batch_size \in 1 .. Cardinality(Requests)
  BY EngineOperators DEF Engines!Configs
<1>2. /\ IsFiniteSet(Requests) /\ Cardinality(Requests) \in Nat
  BY EngineAssumption, FS_CardinalityType
<1>. DEFINE n == Cardinality(Requests)
            Lists == [1 .. n -> Requests]
            s == CHOOSE f \in Lists : Engines!IsInjective(f)
<1>3. Engines!SetToSeq(Requests) = s
  BY EngineOperators DEF Engines!SetToSeq
<1>4. \E f \in Lists : Engines!IsInjective(f)
  <2>1. ExistsBijection(1 .. n, Requests)
    BY <1>2, FS_CountingElements, FS_NatBijection
  <2>. QED  BY <2>1 DEF ExistsBijection, Bijection, Injection, IsInjective, Engines!IsInjective
<1>5. s \in Lists /\ Engines!IsInjective(s)
  BY <1>4
<1>. HIDE DEF s
<1>6. s \in Seq(Requests) /\ Len(s) = n /\ DOMAIN s = 1 .. n
  BY <1>2, <1>5
<1>. HIDE DEF n
<1>. DEFINE k == config.batch_size
<1>7. Members = SubSeq(s, 1, k)
  BY <1>3 DEF Members, Engines!Members
<1>8. k \in Nat \ {0} /\ k \in 0 .. Len(s)
  BY <1>1, <1>2, <1>6 DEF n
<1>. HIDE DEF k
<1>9. IsInjective(s)
  BY <1>5 DEF Engines!IsInjective, IsInjective
<1>10. /\ SubSeq(s, 1, k) \in Seq(Requests) /\ Len(SubSeq(s, 1, k)) = k
       /\ IsInjective(SubSeq(s, 1, k))
  BY <1>6, <1>8, <1>9, CutDeque
<1>11. Range(Members) \subseteq Requests
  BY <1>7, <1>10, LenProperties, ElementOfSeq DEF Range
<1>. QED  BY <1>7, <1>8, <1>10, <1>11 DEF k

LEMMA ConfigIs ==
  ASSUME config \in Engines!Configs
  PROVE  /\ config.driver \in {"harness", "synthetic", "hf"}
         /\ config.prompt_tokens \in Nat \ {0}
         /\ \A r \in Requests : /\ config.max_new_tokens[r] \in Nat \ {0}
                                /\ FinalTokens(r) \in Nat
                                /\ config.batch_size * Needed(FinalTokens(r)) <= EngineBlocks
         /\ config.driver = "harness" =>
              \A r, s \in Requests : config.max_new_tokens[r] = config.max_new_tokens[s]
<1>1. /\ config.driver \in {"harness", "synthetic", "hf"}
      /\ config.prompt_tokens \in 1 .. EnginePrompt
      /\ config.max_new_tokens \in [Requests -> 1 .. EngineTokens]
      /\ Engines!Constructible(config)
      /\ config.driver = "harness" => Engines!Cardinality(Engines!Range(config.max_new_tokens)) = 1
  BY DEF Engines!Configs, Engines!Drivers
<1>2. config.prompt_tokens \in Nat \ {0}
  BY <1>1, EngineAssumption
<1>3. ASSUME NEW r \in Requests
      PROVE  /\ config.max_new_tokens[r] \in Nat \ {0} /\ FinalTokens(r) \in Nat
             /\ config.batch_size * Needed(FinalTokens(r)) <= EngineBlocks
  <2>1. config.max_new_tokens[r] \in Nat \ {0}
    BY <1>1, EngineAssumption
  <2>2. FinalTokens(r) \in Nat
    BY <1>2, <2>1 DEF FinalTokens
  <2>3. config.batch_size * Needed(FinalTokens(r)) <= EngineBlocks
    BY <1>1 DEF Engines!Constructible, FinalTokens, Needed
  <2>. QED  BY <2>1, <2>2, <2>3
<1>4. ASSUME config.driver = "harness", NEW r \in Requests, NEW s \in Requests
      PROVE  config.max_new_tokens[r] = config.max_new_tokens[s]
  <2>. DEFINE S == Range(config.max_new_tokens)
  <2>1. Cardinality(S) = 1
    BY <1>1, <1>4, EngineOperators
  <2>2. S \subseteq 1 .. EngineTokens
    BY <1>1 DEF Range
  <2>3. IsFiniteSet(S)
    BY <2>2, EngineAssumption, FS_Interval, FS_Subset
  <2>4. config.max_new_tokens[r] \in S /\ config.max_new_tokens[s] \in S
    BY <1>1 DEF Range
  <2>. HIDE DEF S
  <2>5. PICK e : S = {e}
    BY <2>1, <2>3, FS_Singleton
  <2>. QED  BY <2>4, <2>5
<1>. QED  BY <1>1, <1>2, <1>3, <1>4

LEMMA NeededProperties ==
  /\ \A n \in Nat : Needed(n) \in Nat
  /\ \A m, n \in Nat : m <= n => Needed(m) <= Needed(n)
  /\ \A n \in Nat : \A p \in 0 .. n - 1 : p \div EngineBlockSize < Needed(n)
<1>1. EngineBlockSize \in Nat \ {0}
  BY EngineAssumption
<1>2. ASSUME NEW n \in Nat  PROVE Needed(n) \in Nat
  <2>1. n + EngineBlockSize - 1 \in Nat
    BY <1>1
  <2>2. \A m \in Nat : m \div EngineBlockSize \in Nat
    BY <1>1
  <2>. QED  BY <2>1, <2>2, EngineOperators
<1>3. ASSUME NEW m \in Nat, NEW n \in Nat, m <= n  PROVE Needed(m) <= Needed(n)
  <2>1. /\ m + EngineBlockSize - 1 \in Nat /\ n + EngineBlockSize - 1 \in Nat
        /\ m + EngineBlockSize - 1 <= n + EngineBlockSize - 1
    BY <1>1, <1>3
  <2>. QED  BY <1>1, <2>1, DivMonotone, EngineOperators
<1>4. ASSUME NEW n \in Nat, NEW p \in 0 .. n - 1  PROVE p \div EngineBlockSize < Needed(n)
  <2>. DEFINE d == EngineBlockSize
              q == p \div d
              t == p % d
  <2>1. p \in Nat /\ q \in Nat /\ t \in 0 .. d - 1 /\ p = d * q + t
    <3>1. p \in Nat
      OBVIOUS
    <3>. QED  BY <1>1, <3>1, QuotientAndRemainder
  <2>. HIDE DEF q, t
  <2>. DEFINE b == p + d
              x == q + 1
  <2>2. b \in Nat /\ b <= n + d - 1 /\ n + d - 1 \in Nat /\ x \in Nat
    BY <1>1, <2>1
  <2>3. b = d * x + t
    <3>1. d * (q + 1) = d * q + d /\ d * q \in Nat
      BY <1>1, <2>1
    <3>. QED  BY <1>1, <2>1, <3>1
  <2>. HIDE DEF b, x
  <2>4. b \div d = x
    BY <1>1, <2>1, <2>2, <2>3, QuotientAndRemainder
  <2>5. x <= Needed(n)
    BY <1>1, <2>2, <2>4, DivMonotone, EngineOperators
  <2>. QED  BY <1>2, <2>1, <2>5 DEF x, q
<1>. QED  BY <1>2, <1>3, <1>4

-----------------------------------------------------------------------------
(* The pool of the engines *)

Pool(free, tables) == Partition(0 .. EngineBlocks - 1, free, tables) /\ AllThere(free, tables)

LEMMA ServedAre ==
  ASSUME config \in Engines!Configs
  PROVE  LET S == Range(Members)
         IN  /\ IsFiniteSet(S) /\ S # {} /\ S \subseteq Requests
             /\ Cardinality(S) = config.batch_size
<1>1. /\ Members \in Seq(Requests) /\ IsInjective(Members) /\ Len(Members) = config.batch_size
      /\ config.batch_size \in Nat \ {0} /\ Range(Members) \subseteq Requests
  BY MembersAre
<1>2. IsFiniteSet(Range(Members)) /\ Cardinality(Range(Members)) = config.batch_size
  BY <1>1, CountingMembers
<1>3. Range(Members) # {}
  BY <1>1, <1>2, FS_EmptySet
<1>. QED  BY <1>1, <1>2, <1>3

LEMMA OwnedTyped ==
  ASSUME NEW free, NEW tables, Partition(0 .. EngineBlocks - 1, free, tables)
  PROVE  Owned(tables) \in [Range(Members) -> Nat] /\ Len(free) \in Nat
<1>1. \A r : Len(TableIn(tables, r)) \in Nat
  BY LenProperties, EmptySeq DEF TableIn, Partition
<1>. QED  BY <1>1, LenProperties DEF Owned, Partition

(* What giving the first k free blocks to r does.                            *)
GivenRight(free, tables, r, k) ==
  LET first == SubSeq(free, 1, k)
      given == GiveTo(tables, r, first)
  IN  /\ Pool(SubSeq(free, k + 1, Len(free)), given)
      /\ DOMAIN given = DOMAIN tables \cup {r}
      /\ given[r] = TableIn(tables, r) \o first
      /\ Len(given[r]) = Len(TableIn(tables, r)) + k
      /\ TableIn(tables, r) \in Seq(0 .. EngineBlocks - 1)
      /\ first \in Seq(0 .. EngineBlocks - 1)
      /\ \A x \in DOMAIN tables \ {r} : given[x] = tables[x]

LEMMA GivingKeeps ==
  ASSUME config \in Engines!Configs, NEW free, NEW tables, Pool(free, tables),
         NEW r \in Range(Members), NEW k \in 0 .. Len(free)
  PROVE  GivenRight(free, tables, r, k)
<1>. DEFINE B == 0 .. EngineBlocks - 1
            given == GiveTo(tables, r, SubSeq(free, 1, k))
            rest == SubSeq(free, k + 1, Len(free))
            first == SubSeq(free, 1, k)
            S == Range(Members)
<1>1. Partition(B, free, tables) /\ Partition(B, rest, given)
  <2>1. Partition(B, free, tables)
    BY DEF Pool
  <2>. HIDE DEF B
  <2>. QED  BY <2>1, GiveKeepsPartition DEF given, rest
<1>2. /\ DOMAIN given = DOMAIN tables \cup {r} /\ given[r] = TableIn(tables, r) \o first
      /\ \A x \in DOMAIN tables \ {r} : given[x] = tables[x]
  BY DEF GiveTo
<1>3. /\ free \in Seq(B) /\ first \in Seq(B) /\ Len(first) = k /\ Len(rest) = Len(free) - k
      /\ TableIn(tables, r) \in Seq(B)
  <2>1. free \in Seq(B) /\ TableIn(tables, r) \in Seq(B)
    BY <1>1, EmptySeq DEF Partition, TableIn
  <2>. HIDE DEF B
  <2>2. first \in Seq(B) /\ Len(first) = k /\ Len(rest) = Len(free) - k
    BY <2>1, CutDeque
  <2>. QED  BY <2>1, <2>2
<1>4. Len(given[r]) = Len(TableIn(tables, r)) + k
  BY <1>2, <1>3, ConcatProperties
<1>5. /\ Owned(tables) \in [S -> Nat] /\ Len(free) \in Nat
      /\ Owned(given) \in [S -> Nat] /\ Len(rest) \in Nat
  BY <1>1, OwnedTyped
<1>6. /\ Owned(given)[r] = Owned(tables)[r] + k
      /\ \A x \in S \ {r} : Owned(given)[x] = Owned(tables)[x]
  BY <1>2, <1>4 DEF Owned, TableIn
<1>7. IsFiniteSet(S) /\ k \in Nat
  BY ServedAre
<1>8. AllThere(free, tables)
  BY DEF Pool
<1>. HIDE DEF given, rest, first, S
<1>9. SumFunctionOnSet(Owned(given), S) = SumFunctionOnSet(Owned(tables), S) + k
  BY <1>5, <1>6, <1>7, SumOfOneLess DEF S
<1>10. SumFunctionOnSet(Owned(tables), S) \in Nat
  <2>1. PICK U \in SUBSET S : U = S
    OBVIOUS
  <2>. QED  BY <1>5, <1>7, <2>1, SumProperties
<1>11. AllThere(rest, given)
  BY <1>3, <1>5, <1>7, <1>8, <1>9, <1>10 DEF AllThere, S
<1>. QED  BY <1>1, <1>2, <1>3, <1>4, <1>11 DEF Pool, given, rest, first, GivenRight

(* What taking the blocks of r back does.                                    *)
TakenRight(free, tables, r) ==
  LET taken == TakeFrom(tables, r)
  IN  /\ Pool(free \o tables[r], taken)
      /\ DOMAIN taken = DOMAIN tables \ {r}
      /\ \A x \in DOMAIN tables \ {r} : taken[x] = tables[x]

LEMMA TakingKeeps ==
  ASSUME config \in Engines!Configs, NEW free, NEW tables, Pool(free, tables),
         NEW r \in Range(Members), r \in DOMAIN tables
  PROVE  TakenRight(free, tables, r)
<1>. DEFINE B == 0 .. EngineBlocks - 1
            taken == TakeFrom(tables, r)
            more == free \o tables[r]
            S == Range(Members)
<1>1. Partition(B, free, tables) /\ Partition(B, more, taken)
  BY TakeKeepsPartition DEF Pool
<1>2. /\ DOMAIN taken = DOMAIN tables \ {r}
      /\ \A x \in DOMAIN tables \ {r} : taken[x] = tables[x]
  BY DEF TakeFrom
<1>3. free \in Seq(B) /\ tables[r] \in Seq(B)
  BY <1>1 DEF Partition
<1>4. Len(more) = Len(free) + Len(tables[r]) /\ Len(tables[r]) \in Nat
  BY <1>3, ConcatProperties, LenProperties
<1>5. /\ Owned(tables) \in [S -> Nat] /\ Len(free) \in Nat
      /\ Owned(taken) \in [S -> Nat]
  BY <1>1, OwnedTyped
<1>6. /\ Owned(tables)[r] = Owned(taken)[r] + Len(tables[r])
      /\ \A x \in S \ {r} : Owned(tables)[x] = Owned(taken)[x]
  <2>1. TableIn(taken, r) = << >> /\ Len(<< >>) = 0
    BY <1>2, EmptySeq DEF TableIn
  <2>2. Owned(taken)[r] = 0 /\ Owned(tables)[r] = Len(tables[r])
    BY <2>1 DEF Owned, TableIn
  <2>3. \A x \in S \ {r} : Owned(tables)[x] = Owned(taken)[x]
    BY <1>2 DEF Owned, TableIn
  <2>. QED  BY <1>4, <2>2, <2>3
<1>7. IsFiniteSet(S)
  BY ServedAre
<1>8. AllThere(free, tables)
  BY DEF Pool
<1>. HIDE DEF taken, more, S
<1>9. SumFunctionOnSet(Owned(tables), S) = SumFunctionOnSet(Owned(taken), S) + Len(tables[r])
  BY <1>4, <1>5, <1>6, <1>7, SumOfOneLess DEF S
<1>10. SumFunctionOnSet(Owned(taken), S) \in Nat
  <2>1. PICK U \in SUBSET S : U = S
    OBVIOUS
  <2>. QED  BY <1>5, <1>7, <2>1, SumProperties
<1>11. AllThere(more, taken)
  BY <1>4, <1>5, <1>8, <1>9, <1>10 DEF AllThere, S
<1>. QED  BY <1>1, <1>2, <1>11 DEF Pool, taken, more, TakenRight

(* What the constructor checked is enough: whoever needs no more than what   *)
(* it needs in the end gets it.                                             *)
LEMMA NobodyShort ==
  ASSUME config \in Engines!Configs, NEW free, NEW tables, Pool(free, tables),
         \A x \in Range(Members) : Len(TableIn(tables, x)) <= Needed(FinalTokens(x)),
         NEW r \in Range(Members), NEW m \in Nat, m <= Needed(FinalTokens(r)),
         Len(TableIn(tables, r)) <= m
  PROVE  m - Len(TableIn(tables, r)) <= Len(free)
<1>. DEFINE S == Range(Members)
            v == [x \in S |-> IF x = r THEN m ELSE Owned(tables)[x]]
            w == Owned(tables)
            n == config.batch_size
            d == m - Len(TableIn(tables, r))
<1>1. w \in [S -> Nat] /\ Len(free) \in Nat
  BY OwnedTyped DEF Pool
<1>2. IsFiniteSet(S) /\ S # {} /\ S \subseteq Requests /\ Cardinality(S) = n
  BY ServedAre
<1>3. n \in Nat /\ EngineBlocks \in Nat
  BY MembersAre, EngineAssumption
<1>4. v \in [S -> Nat]
  BY <1>1
<1>5. \A x \in S : v[x] <= Needed(FinalTokens(x)) /\ Needed(FinalTokens(x)) \in Nat
                     /\ n * Needed(FinalTokens(x)) <= EngineBlocks
  BY <1>2, ConfigIs, NeededProperties DEF Owned
<1>6. w[r] = Len(TableIn(tables, r))
  BY DEF Owned
<1>7. v[r] = w[r] + d /\ d \in Nat /\ \A x \in S \ {r} : v[x] = w[x]
  BY <1>1, <1>6
<1>8. Len(free) + SumFunctionOnSet(w, S) = EngineBlocks
  BY DEF Pool, AllThere
<1>. HIDE DEF v, w, S, n, d
<1>9. \A x \in S : Cardinality(S) * v[x] <= EngineBlocks
  <2>. SUFFICES ASSUME NEW x \in S  PROVE n * v[x] <= EngineBlocks
    BY <1>2
  <2>. DEFINE c == Needed(FinalTokens(x))
              b == v[x]
  <2>1. b \in Nat /\ c \in Nat /\ b <= c /\ n * c <= EngineBlocks
    BY <1>4, <1>5
  <2>. HIDE DEF b, c
  <2>2. n * b <= n * c /\ n * b \in Nat /\ n * c \in Nat
    BY <1>3, <2>1
  <2>3. n * b <= EngineBlocks
    BY <1>3, <2>1, <2>2
  <2>. QED  BY <2>3 DEF b
<1>10. SumFunctionOnSet(v, S) <= EngineBlocks
  BY <1>2, <1>3, <1>4, <1>9, SumOfShares
<1>11. SumFunctionOnSet(v, S) = SumFunctionOnSet(w, S) + d
  BY <1>1, <1>2, <1>4, <1>7, SumOfOneLess DEF S
<1>12. SumFunctionOnSet(w, S) \in Nat
  <2>1. PICK U \in SUBSET S : U = S
    OBVIOUS
  <2>. QED  BY <1>1, <1>2, <2>1, SumProperties
<1>13. d <= Len(free)
  BY <1>1, <1>3, <1>7, <1>8, <1>10, <1>11, <1>12
<1>. QED  BY <1>13 DEF d

-----------------------------------------------------------------------------
(* The records of the requests *)

(* The fields that the engines' proofs look at, and keep.                    *)
SameLimits(q, p) == q.prompt_tokens = p.prompt_tokens /\ q.max_new_tokens = p.max_new_tokens

LEMMA RecordSteps ==
  ASSUME NEW q, IsRecord(q)
  PROVE  /\ IsRecord(MarkDecoding(q)) /\ IsRecord(MarkFinished(q))
         /\ IsRecord(Prefilled(q)) /\ IsRecord(Emitted(q))
         /\ \A table : IsRecord([q EXCEPT !.block_table = table])
         /\ \A table : IsRecord(Engines!Generated(q, table))
<1>. DEFINE F == RecordFields
<1>1. q = [f \in F |-> q[f]]
  BY DEF IsRecord
<1>2. DOMAIN q = F
  BY <1>1
<1>3. \A p : p = [f \in DOMAIN p |-> p[f]] /\ DOMAIN p = F => IsRecord(p)
  BY DEF IsRecord
<1>. HIDE DEF F
<1>4. IsRecord(MarkDecoding(q)) /\ IsRecord(MarkFinished(q))
  BY <1>1, <1>2, <1>3 DEF MarkDecoding, MarkFinished
<1>5. IsRecord(Prefilled(q)) /\ IsRecord(Emitted(q))
  BY <1>1, <1>2, <1>3 DEF Prefilled, MarkDecoding, Emitted
<1>6. \A table : IsRecord([q EXCEPT !.block_table = table])
  BY <1>1, <1>2, <1>3
<1>7. \A table : IsRecord(Engines!Generated(q, table))
  BY <1>1, <1>2, <1>3 DEF Engines!Generated
<1>. QED  BY <1>4, <1>5, <1>6, <1>7

LEMMA NewRequestIs ==
  ASSUME config \in Engines!Configs, NEW r \in Requests
  PROVE  LET q == Engines!NewRequest(config, r)
         IN  /\ IsRecord(q)
             /\ q.prompt = config.prompt_tokens /\ q.prompt_tokens = config.prompt_tokens
             /\ q.max_new_tokens = config.max_new_tokens[r]
             /\ q.generated_tokens = 0 /\ q.num_computed_tokens = 0 /\ q.past_length = 0
             /\ q.status # "finished"
             /\ config.driver = "harness" => q.status = "decoding" /\ q.next_token = 0
<1>. DEFINE F == RecordFields \ {"next_token"}
            new == NewRequestState(config.prompt_tokens, config.max_new_tokens[r])
            counted == [new EXCEPT !.prompt_tokens = config.prompt_tokens]
            admitted == MarkAdmitted(counted)
            decoding == MarkDecoding(admitted)
            With(q, token) == Engines!WithNextToken(q, token)
<1>1. /\ new = [f \in F |-> new[f]]
      /\ new.prompt = config.prompt_tokens /\ new.generated_tokens = 0
      /\ new.num_computed_tokens = 0 /\ new.past_length = 0
      /\ new.max_new_tokens = config.max_new_tokens[r]
  BY DEF NewRequestState, RecordFields
<1>. HIDE DEF new
<1>2. /\ counted = [f \in F |-> counted[f]]
      /\ counted.prompt = config.prompt_tokens /\ counted.generated_tokens = 0
      /\ counted.num_computed_tokens = 0 /\ counted.past_length = 0
      /\ counted.max_new_tokens = config.max_new_tokens[r]
      /\ counted.prompt_tokens = config.prompt_tokens
  BY <1>1 DEF RecordFields
<1>. HIDE DEF counted
<1>3. /\ admitted = [f \in F |-> admitted[f]]
      /\ admitted.prompt = config.prompt_tokens /\ admitted.generated_tokens = 0
      /\ admitted.num_computed_tokens = 0 /\ admitted.past_length = 0
      /\ admitted.max_new_tokens = config.max_new_tokens[r]
      /\ admitted.prompt_tokens = config.prompt_tokens /\ admitted.status = "prefill"
  BY <1>2 DEF RecordFields, MarkAdmitted
<1>. HIDE DEF admitted
<1>4. /\ decoding = [f \in F |-> decoding[f]]
      /\ decoding.prompt = config.prompt_tokens /\ decoding.generated_tokens = 0
      /\ decoding.num_computed_tokens = 0 /\ decoding.past_length = 0
      /\ decoding.max_new_tokens = config.max_new_tokens[r]
      /\ decoding.prompt_tokens = config.prompt_tokens /\ decoding.status = "decoding"
  BY <1>3 DEF RecordFields, MarkDecoding
<1>. HIDE DEF decoding
<1>5. ASSUME NEW q, q = [f \in F |-> q[f]], NEW token
      PROVE  /\ IsRecord(With(q, token)) /\ With(q, token).next_token = token
             /\ \A f \in F : With(q, token)[f] = q[f]
  <2>1. With(q, token) = [f \in RecordFields |-> IF f = "next_token" THEN token ELSE q[f]]
    BY <1>5 DEF RecordFields, Engines!WithNextToken
  <2>. QED  BY <2>1 DEF IsRecord, RecordFields
<1>6. Engines!NewRequest(config, r) = IF config.driver = "harness" THEN With(decoding, 0)
                                      ELSE With(admitted, -1)
  BY EngineOperators DEF Engines!NewRequest, Engines!NoToken, decoding, admitted,
     counted, new
<1>. QED  BY <1>3, <1>4, <1>5, <1>6 DEF RecordFields

(* What a step of an engine makes of the record of a request.                *)
LEMMA RecordFieldsAfter ==
  ASSUME NEW q, IsRecord(q)
  PROVE  /\ \A table :
              LET p == Engines!Generated(q, table)
              IN  /\ SameLimits(p, q) /\ p.status = q.status
                  /\ p.generated_tokens = q.generated_tokens + 1
                  /\ p.next_token = q.generated_tokens + 1
                  /\ p.num_computed_tokens = q.num_computed_tokens
         /\ LET p == MarkFinished(q)
            IN  /\ SameLimits(p, q) /\ p.status = "finished"
                /\ p.generated_tokens = q.generated_tokens /\ p.next_token = q.next_token
                /\ p.num_computed_tokens = q.num_computed_tokens
                /\ p.past_length = q.past_length
         /\ LET p == Emitted(q)
            IN  /\ SameLimits(p, q) /\ p.status = q.status
                /\ p.generated_tokens = q.generated_tokens + 1
                /\ p.past_length = q.past_length + 1
         /\ \A table :
              LET p == [q EXCEPT !.block_table = table]
              IN  \A f \in RecordFields \ {"block_table"} : p[f] = q[f]
<1>. DEFINE F == RecordFields
<1>1. q = [f \in F |-> q[f]]
  BY DEF IsRecord
<1>2. \A f \in {"status", "prompt", "max_new_tokens", "prompt_tokens", "num_computed_tokens",
                "generated_tokens", "past_length", "next_token", "times", "output_queue"} :
        f \in DOMAIN q
  BY <1>1 DEF RecordFields
<1>3. \A table : \A f \in RecordFields \ {"block_table"} :
        [q EXCEPT !.block_table = table][f] = q[f]
  BY <1>1
<1>. HIDE DEF F
<1>4. \A table :
        LET p == Engines!Generated(q, table)
        IN  /\ SameLimits(p, q) /\ p.status = q.status
            /\ p.generated_tokens = q.generated_tokens + 1
            /\ p.next_token = q.generated_tokens + 1
            /\ p.num_computed_tokens = q.num_computed_tokens
  BY <1>2 DEF Engines!Generated, SameLimits
<1>5. LET p == MarkFinished(q)
      IN  /\ SameLimits(p, q) /\ p.status = "finished"
          /\ p.generated_tokens = q.generated_tokens /\ p.next_token = q.next_token
          /\ p.num_computed_tokens = q.num_computed_tokens
          /\ p.past_length = q.past_length
  BY <1>2 DEF MarkFinished, SameLimits
<1>6. LET p == Emitted(q)
      IN  /\ SameLimits(p, q) /\ p.status = q.status
          /\ p.generated_tokens = q.generated_tokens + 1
          /\ p.past_length = q.past_length + 1
  BY <1>2 DEF Emitted, SameLimits
<1>. QED  BY <1>3, <1>4, <1>5, <1>6

-----------------------------------------------------------------------------
(* The cells of the cache *)

(* Is there a block for the token at this position?                          *)
EngineReaches(table, p) == p \in Nat /\ p \div EngineBlockSize < Len(table)

LEMMA EngineCellIs ==
  ASSUME NEW table \in Seq(0 .. EngineBlocks - 1), NEW p, EngineReaches(table, p)
  PROVE  LET i == (p \div EngineBlockSize) + 1
         IN  /\ i \in DOMAIN table
             /\ Cell(table, p) = <<0, table[i], p % EngineBlockSize>>
             /\ Cell(table, p) \in EngineCells
<1>. DEFINE i == (p \div EngineBlockSize) + 1
            o == p % EngineBlockSize
            B == 0 .. EngineBlocks - 1
<1>1. p \in Nat /\ p \div EngineBlockSize \in Nat /\ o \in 0 .. EngineBlockSize - 1
  BY EngineAssumption, QuotientAndRemainder DEF EngineReaches
<1>2. i \in DOMAIN table
  BY <1>1, LenProperties DEF EngineReaches
<1>3. Cell(table, p) = <<0, table[i], o>>
  BY DEF Cell, Engines!Pool!CellOf, Engines!Pool!LocateToken, Engines!Pool!LogicalBlock
<1>4. table[i] \in B
  <2>. HIDE DEF B, i
  <2>1. i \in 1 .. Len(table)
    BY <1>2, LenProperties
  <2>. QED  BY <2>1, ElementOfSeq DEF B
<1>. HIDE DEF i, o
<1>5. <<0, table[i], o>> \in EngineCells
  BY <1>1, <1>4 DEF EngineCells, Engines!Pool!Cells
<1>. QED  BY <1>2, <1>3, <1>5 DEF i, o

LEMMA EngineCellsApart ==
  ASSUME NEW free, NEW tables, Partition(0 .. EngineBlocks - 1, free, tables),
         NEW r \in DOMAIN tables, NEW x \in DOMAIN tables, NEW p, NEW s,
         EngineReaches(tables[r], p), EngineReaches(tables[x], s),
         Cell(tables[r], p) = Cell(tables[x], s)
  PROVE  r = x /\ p = s
<1>. DEFINE B == 0 .. EngineBlocks - 1
            i == (p \div EngineBlockSize) + 1
            j == (s \div EngineBlockSize) + 1
            b == tables[r][i]
            c == tables[x][j]
<1>1. tables[r] \in Seq(B) /\ tables[x] \in Seq(B)
  BY DEF Partition
<1>2. /\ Cell(tables[r], p) = <<0, b, p % EngineBlockSize>>
      /\ Cell(tables[x], s) = <<0, c, s % EngineBlockSize>>
      /\ i \in DOMAIN tables[r] /\ j \in DOMAIN tables[x]
  BY <1>1, EngineCellIs
<1>3. b = c /\ p % EngineBlockSize = s % EngineBlockSize
  <2>. DEFINE o == p % EngineBlockSize
              u == s % EngineBlockSize
  <2>1. <<0, b, o>> = <<0, c, u>>
    BY <1>2
  <2>. HIDE DEF b, c, o, u
  <2>2. b = c /\ o = u
    BY <2>1
  <2>. QED  BY <2>2 DEF o, u
<1>4. r = x
  <2>1. b \in Range(tables[r]) /\ c \in Range(tables[x])
    BY <1>2 DEF Range
  <2>. HIDE DEF b, c
  <2>. QED  BY <1>3, <2>1 DEF Partition
<1>5. i = j
  <2>1. IsInjective(tables[r])
    BY DEF Partition
  <2>. HIDE DEF i, j
  <2>. QED  BY <1>2, <1>3, <1>4, <2>1 DEF IsInjective
<1>6. p = s
  <2>1. p \in Nat /\ s \in Nat
    BY DEF EngineReaches
  <2>. DEFINE u == p \div EngineBlockSize
              v == s \div EngineBlockSize
              o == p % EngineBlockSize
  <2>2. u \in Nat /\ v \in Nat /\ p = EngineBlockSize * u + o /\ s = EngineBlockSize * v + o
    BY <1>3, <2>1, EngineAssumption, QuotientAndRemainder
  <2>3. u + 1 = v + 1
    BY <1>5
  <2>. HIDE DEF u, v, o
  <2>4. u = v
    BY <2>2, <2>3
  <2>. QED  BY <2>2, <2>4
<1>. QED  BY <1>4, <1>6

(* In a longer table a token has the cell it had.                            *)
LEMMA LongerTable ==
  ASSUME NEW B, NEW s \in Seq(B), NEW t \in Seq(B), NEW p, EngineReaches(s, p)
  PROVE  Cell(s \o t, p) = Cell(s, p) /\ EngineReaches(s \o t, p)
<1>. DEFINE q == p \div EngineBlockSize
            i == q + 1
<1>1. q \in Nat /\ p \in Nat /\ q < Len(s)
  BY EngineAssumption, QuotientAndRemainder DEF EngineReaches
<1>. HIDE DEF q
<1>2. Len(s \o t) = Len(s) + Len(t) /\ Len(s) \in Nat /\ Len(t) \in Nat /\ (s \o t)[i] = s[i]
  BY <1>1, ConcatProperties, LenProperties
<1>3. EngineReaches(s \o t, p)
  <2>1. q < Len(s \o t)
    BY <1>1, <1>2
  <2>. QED  BY <1>1, <2>1 DEF EngineReaches, q
<1>4. Cell(s \o t, p) = Cell(s, p)
  BY <1>2 DEF q, Cell, Engines!Pool!CellOf, Engines!Pool!LocateToken, Engines!Pool!LogicalBlock
<1>. QED  BY <1>3, <1>4

(* The i-th of some writes of tokens: request who[i], position at[i].        *)
TokenWrite(tables, who, at, i) ==
  Engines!Pool!Write(0, tables[who[i]], at[i], Engines!Token(who[i], at[i]))

LEMMA EnginePoolWritten ==
  ASSUME NEW c, OnCells(c), NEW w, Len(w) \in Nat,
         \A i \in 1 .. Len(w) : w[i].cell \in EngineCells
  PROVE  LET a == Engines!Pool!AfterWrites(c, w)
         IN  /\ OnCells(a)
             /\ \A x \in EngineCells :
                  \/ \E i \in 1 .. Len(w) : w[i].cell = x /\ a[x] = w[i].kv
                  \/ (\A i \in 1 .. Len(w) : w[i].cell # x) /\ a[x] = c[x]
<1>. DEFINE n == Len(w)
            a == AllWritten(c, w, n)
            C == EngineCells
<1>1. Engines!Pool!AfterWrites(c, w) = a
  BY DEF Engines!Pool!AfterWrites, AllWritten
<1>2. n \in Nat /\ c = [x \in C |-> c[x]] /\ \A i \in 1 .. n : w[i].cell \in C
  BY DEF OnCells
<1>. HIDE DEF n, C
<1>3. /\ a = [x \in C |-> a[x]]
      /\ \A x \in C : \/ \E i \in 1 .. n : w[i].cell = x /\ a[x] = w[i].kv
                      \/ (\A i \in 1 .. n : w[i].cell # x) /\ a[x] = c[x]
  BY <1>2, WritesLand
<1>4. OnCells(a)
  BY <1>3 DEF OnCells, C
<1>. HIDE DEF a
<1>. QED  BY <1>1, <1>3, <1>4 DEF n, C

(* Writes of tokens put them where they will be read, and leave the others.  *)
LEMMA EngineWritesLand ==
  ASSUME NEW free, NEW tables, Partition(0 .. EngineBlocks - 1, free, tables),
         NEW c, OnCells(c), NEW w, Len(w) \in Nat, NEW who, NEW at,
         \A i \in 1 .. Len(w) : /\ who[i] \in DOMAIN tables
                                /\ EngineReaches(tables[who[i]], at[i])
                                /\ w[i] = TokenWrite(tables, who, at, i)
  PROVE  LET a == Engines!Pool!AfterWrites(c, w)
             n == Len(w)
         IN  /\ OnCells(a)
             /\ \A r \in DOMAIN tables : \A p :
                  /\ EngineReaches(tables[r], p)
                  /\ \/ \E i \in 1 .. n : who[i] = r /\ at[i] = p
                     \/ Holds(c, tables[r], r, p)
                  => Holds(a, tables[r], r, p)
<1>. DEFINE C == EngineCells
            B == 0 .. EngineBlocks - 1
            a == Engines!Pool!AfterWrites(c, w)
            n == Len(w)
<1>1. \A r \in DOMAIN tables : tables[r] \in Seq(B)
  BY DEF Partition
<1>2. ASSUME NEW i \in 1 .. n
      PROVE  /\ w[i].cell = Cell(tables[who[i]], at[i]) /\ w[i].cell \in C
             /\ w[i].kv = Engines!Token(who[i], at[i])
  <2>1. /\ w[i].cell = Cell(tables[who[i]], at[i])
        /\ w[i].kv = Engines!Token(who[i], at[i])
    <3>1. w[i] = TokenWrite(tables, who, at, i)
      OBVIOUS
    <3>2. w[i] = [cell |-> Cell(tables[who[i]], at[i]), kv |-> Engines!Token(who[i], at[i])]
      BY <3>1 DEF TokenWrite, Engines!Pool!Write, Cell
    <3>. QED  BY <3>2
  <2>2. Cell(tables[who[i]], at[i]) \in C
    BY <1>1, EngineCellIs
  <2>. QED  BY <2>1, <2>2
<1>3. /\ OnCells(a)
      /\ \A x \in C : \/ \E i \in 1 .. n : w[i].cell = x /\ a[x] = w[i].kv
                      \/ (\A i \in 1 .. n : w[i].cell # x) /\ a[x] = c[x]
  BY <1>2, EnginePoolWritten
<1>4. ASSUME NEW r \in DOMAIN tables, NEW p, EngineReaches(tables[r], p),
             \/ \E i \in 1 .. n : who[i] = r /\ at[i] = p
             \/ Holds(c, tables[r], r, p)
      PROVE  Holds(a, tables[r], r, p)
  <2>. DEFINE x == Cell(tables[r], p)
  <2>1. x \in C
    BY <1>1, <1>4, EngineCellIs
  <2>. HIDE DEF C, a
  <2>2. CASE \E i \in 1 .. n : w[i].cell = x /\ a[x] = w[i].kv
    <3>1. PICK i \in 1 .. n : w[i].cell = x /\ a[x] = w[i].kv
      BY <2>2
    <3>2. Cell(tables[who[i]], at[i]) = Cell(tables[r], p)
      BY <1>2, <3>1
    <3>3. who[i] = r /\ at[i] = p
      BY <1>4, <3>2, EngineCellsApart
    <3>. QED  BY <1>2, <3>1, <3>3 DEF Holds
  <2>3. CASE (\A i \in 1 .. n : w[i].cell # x) /\ a[x] = c[x]
    <3>1. ASSUME NEW i \in 1 .. n, who[i] = r, at[i] = p  PROVE FALSE
      BY <1>2, <2>3, <3>1
    <3>. QED  BY <1>4, <2>3, <3>1 DEF Holds
  <2>. QED  BY <1>3, <2>1, <2>2, <2>3
<1>. QED  BY <1>3, <1>4

-----------------------------------------------------------------------------
(* Who is served *)

LEMMA BegunAre ==
  ASSUME EnginesTyped
  PROVE  /\ Working \subseteq Begun /\ Begun \subseteq Range(Members)
         /\ Range(Members) \subseteq Requests
         /\ phase # "initialize" => Begun = Range(Members)
         /\ local.position > Len(Members) => Begun = Range(Members)
<1>1. /\ config \in Engines!Configs /\ local.position \in Nat \ {0}
      /\ phase = "initialize" => local.position <= Len(Members) + 1
  BY DEF EnginesTyped
<1>2. /\ Members \in Seq(Requests) /\ Range(Members) \subseteq Requests
      /\ DOMAIN Members = 1 .. Len(Members) /\ Len(Members) \in Nat
  BY <1>1, MembersAre, LenProperties
<1>3. \A i \in 1 .. Len(Members) : Members[i] \in Range(Members)
  BY <1>2 DEF Range
<1>4. Begun \subseteq Range(Members)
  BY <1>1, <1>2, <1>3 DEF Begun
<1>5. local.position > Len(Members) => Begun = Range(Members)
  <2>. SUFFICES ASSUME local.position > Len(Members), phase = "initialize"
                PROVE  Range(Members) \subseteq Begun
    BY <1>4 DEF Begun
  <2>1. 1 .. Len(Members) = 1 .. local.position - 1
    BY <1>1, <1>2
  <2>. QED  BY <1>2, <2>1 DEF Begun, Range
<1>. QED  BY <1>2, <1>4, <1>5 DEF Begun, Working

LEMMA ActiveAre ==
  ASSUME EnginesTyped
  PROVE  LET s == Engines!Active
         IN  /\ s \in Seq(Requests) /\ IsInjective(s)
             /\ Range(s) = {r \in Range(Members) : request_state[r].status # "finished"}
             /\ DOMAIN s = 1 .. Len(s) /\ Len(s) \in Nat
             /\ Engines!Range(s) = Range(s)
<1>. DEFINE S == {r \in Range(Members) : request_state[r].status # "finished"}
            s == InOrder(Members, S)
<1>1. Engines!Active = s
  BY EngineOperators DEF Engines!Active, Engines!ActiveRequests, Members
<1>2. Members \in Seq(Requests) /\ IsInjective(Members)
  BY MembersAre DEF EnginesTyped
<1>3. \A i, j \in 1 .. Len(Members) : Members[i] = Members[j] => i = j
  BY <1>2, LenProperties DEF IsInjective
<1>4. S \subseteq Range(Members)
  OBVIOUS
<1>. HIDE DEF S
<1>5. s \in Seq(Requests) /\ Range(s) = Range(Members) \cap S /\ IsInjective(s)
  BY <1>2, <1>3, InOrderProperties
<1>6. DOMAIN s = 1 .. Len(s) /\ Len(s) \in Nat
  BY <1>5, LenProperties
<1>7. Range(s) = S
  BY <1>4, <1>5
<1>8. Engines!Range(s) = Range(s)
  BY EngineOperators
<1>. HIDE DEF s
<1>. QED  BY <1>1, <1>5, <1>6, <1>7, <1>8 DEF S

(* Where a request is that has been initialized.                            *)
LEMMA PositionOf ==
  ASSUME EnginesTyped, EngineRecords, NEW r \in Begun
  PROVE  /\ r \in Requests /\ IsRecord(request_state[r]) /\ BegunRight(r)
         /\ config.prompt_tokens \in Nat \ {0}
         /\ EngineTokenPosition(r) = config.prompt_tokens + request_state[r].generated_tokens
         /\ request_state[r].generated_tokens \in Nat
         /\ request_state[r].max_new_tokens \in Nat \ {0}
         /\ FinalTokens(r) \in Nat
         /\ FinalTokens(r) = config.prompt_tokens + request_state[r].max_new_tokens
         /\ EngineTokenPosition(r) \in Nat \ {0}
         /\ EngineTokenPosition(r) <= FinalTokens(r)
         /\ request_state[r].generated_tokens < request_state[r].max_new_tokens =>
              EngineTokenPosition(r) + 1 <= FinalTokens(r)
         /\ r \in Working /\ r \notin ToApply =>
              request_state[r].generated_tokens < request_state[r].max_new_tokens
<1>1. r \in Requests /\ IsRecord(request_state[r]) /\ BegunRight(r)
  BY BegunAre DEF EnginesTyped, EngineRecords
<1>2. /\ config.prompt_tokens \in Nat \ {0} /\ config.max_new_tokens[r] \in Nat \ {0}
      /\ FinalTokens(r) = config.prompt_tokens + config.max_new_tokens[r]
  BY <1>1, ConfigIs DEF EnginesTyped, FinalTokens
<1>3. /\ request_state[r].prompt_tokens = config.prompt_tokens
      /\ request_state[r].max_new_tokens = config.max_new_tokens[r]
      /\ request_state[r].generated_tokens \in 0 .. request_state[r].max_new_tokens
      /\ request_state[r].status \in {"decoding", "finished"}
      /\ request_state[r].status = "decoding" /\ r \notin ToApply =>
           request_state[r].generated_tokens < request_state[r].max_new_tokens
  BY <1>1 DEF BegunRight
<1>4. EngineTokenPosition(r) = config.prompt_tokens + request_state[r].generated_tokens
  BY <1>3, EngineOperators
<1>5. r \in Working => request_state[r].status = "decoding"
  BY <1>3 DEF Working
<1>. QED  BY <1>1, <1>2, <1>3, <1>4, <1>5

(* What the constructor checked is enough for the next token of a request    *)
(* that has not all its tokens yet.                                         *)
LEMMA RoomForNext ==
  ASSUME EnginesTyped, EngineRecords, EngineTables, AllBlocksThere,
         NEW r \in Working,
         request_state[r].generated_tokens < request_state[r].max_new_tokens
  PROVE  LET m == Engines!KV!MissingBlocks(r, EngineTokenPosition(r))
             n == Len(block_tables[r])
         IN  /\ m \in 0 .. Len(free_blocks) /\ n \in Nat
             /\ Engines!KV!CapacityAvailable(r, EngineTokenPosition(r))
             /\ Needed(EngineTokenPosition(r) + 1) <= n + m
             /\ n + m <= Needed(FinalTokens(r))
<1>. DEFINE p == EngineTokenPosition(r)
            m == Engines!KV!MissingBlocks(r, p)
            n == Len(block_tables[r])
            a == Needed(p + 1)
            b == Needed(FinalTokens(r))
            d == IF a >= n THEN a ELSE n
<1>1. r \in Begun /\ Begun \subseteq Range(Members) /\ Working \subseteq Begun
  BY BegunAre DEF Working
<1>2. p \in Nat /\ FinalTokens(r) \in Nat /\ p + 1 <= FinalTokens(r)
  BY <1>1, PositionOf
<1>3. a \in Nat /\ b \in Nat /\ a <= b
  BY <1>2, NeededProperties
<1>4. /\ Pool(free_blocks, block_tables) /\ config \in Engines!Configs
      /\ DOMAIN block_tables = Working /\ Len(free_blocks) \in Nat /\ n \in Nat
      /\ \A x \in Working : Len(block_tables[x]) <= Needed(FinalTokens(x))
  <2>1. Pool(free_blocks, block_tables)
    BY DEF Pool, AllBlocksThere, EngineTables
  <2>2. free_blocks \in Seq(0 .. EngineBlocks - 1) /\ block_tables[r] \in Seq(0 .. EngineBlocks - 1)
    BY DEF EngineTables, Partition
  <2>. QED  BY <2>1, <2>2, LenProperties DEF EngineTables, EnginesTyped
<1>5. \A x \in Range(Members) : Len(TableIn(block_tables, x)) <= Needed(FinalTokens(x))
  <2>. SUFFICES ASSUME NEW x \in Range(Members)
                PROVE  Len(TableIn(block_tables, x)) <= Needed(FinalTokens(x))
    OBVIOUS
  <2>1. CASE x \in Working
    BY <1>4, <2>1 DEF TableIn
  <2>2. CASE x \notin Working
    <3>1. TableIn(block_tables, x) = << >>
      BY <1>4, <2>2 DEF TableIn
    <3>2. FinalTokens(x) \in Nat
      BY <1>4, ConfigIs, MembersAre
    <3>3. Needed(FinalTokens(x)) \in Nat /\ Len(<< >>) = 0
      BY <3>2, NeededProperties, EmptySeq
    <3>. QED  BY <3>1, <3>3
  <2>. QED  BY <2>1, <2>2
<1>6. TableIn(block_tables, r) = block_tables[r]
  BY <1>4 DEF TableIn
<1>7. n <= b
  BY <1>4
<1>8. d \in Nat /\ n <= d /\ d <= b
  BY <1>3, <1>4, <1>7
<1>9. d - n <= Len(free_blocks)
  <2>. HIDE DEF d
  <2>. QED  BY <1>1, <1>4, <1>5, <1>6, <1>8, NobodyShort
<1>10. m = IF a - n > 0 THEN a - n ELSE 0
  BY DEF Engines!KV!MissingBlocks, Needed
<1>11. Engines!KV!CapacityAvailable(r, p) <=> m <= Len(free_blocks)
  BY DEF Engines!KV!CapacityAvailable, Engines!KV!FreeBlockCount
<1>12. m = d - n
  BY <1>3, <1>4, <1>10
<1>. HIDE DEF a, b, n, m, p
<1>13. m \in 0 .. Len(free_blocks) /\ a <= n + m /\ n + m <= b
  BY <1>3, <1>4, <1>7, <1>8, <1>9, <1>12
<1>14. Engines!KV!CapacityAvailable(r, p)
  BY <1>11, <1>13
<1>. QED  BY <1>4, <1>13, <1>14 DEF a, b, n, m, p

-----------------------------------------------------------------------------
(* The steps that change no record, no table and no cell *)

LEMMA SameMembers ==
  ASSUME config' = config
  PROVE  /\ Members' = Members /\ Range(Members)' = Range(Members)
         /\ \A r : FinalTokens(r)' = FinalTokens(r)
<1>1. Members' = Members
  BY DEF Members, Engines!Members
<1>2. Range(Members)' = Range(Members)
  BY <1>1 DEF Range
<1>3. \A r : FinalTokens(r)' = FinalTokens(r)
  BY DEF FinalTokens
<1>. QED  BY <1>1, <1>2, <1>3

LEMMA AtIs ==
  ASSUME EnginesTyped, NEW loop, NEW position, Engines!At(loop, position)
  PROVE  /\ phase' = loop /\ local'.position = position
         /\ local'.decode_batch = local.decode_batch
         /\ local' = [position |-> local'.position, decode_batch |-> local'.decode_batch]
<1>1. local = [position |-> local.position, decode_batch |-> local.decode_batch]
  BY DEF EnginesTyped
<1>2. phase' = loop /\ local' = [local EXCEPT !.position = position]
  BY DEF Engines!At
<1>3. local' = [position |-> position, decode_batch |-> local.decode_batch]
  BY <1>1, <1>2
<1>. QED  BY <1>2, <1>3

(* The pool after a step.                                                    *)
LEMMA PoolNext ==
  ASSUME config' = config, NEW free, NEW tables, Pool(free, tables),
         free_blocks' = free, block_tables' = tables
  PROVE  /\ AllBlocksThere'
         /\ Partition(0 .. EngineBlocks - 1, free_blocks', block_tables')
<1>1. Members' = Members /\ Range(Members)' = Range(Members)
  BY SameMembers
<1>2. Owned(block_tables)' = Owned(tables)
  BY <1>1 DEF Owned, TableIn
<1>3. AllThere(free, tables) /\ Partition(0 .. EngineBlocks - 1, free, tables)
  BY DEF Pool
<1>. DEFINE S == Range(Members)
<1>4. AllBlocksThere'
  <2>1. /\ Len(free) + SumFunctionOnSet(Owned(tables), Range(Members)) = EngineBlocks
    BY <1>3 DEF AllThere
  <2>. QED  BY <1>1, <1>2, <2>1 DEF AllBlocksThere, AllThere
<1>. QED  BY <1>3, <1>4

LEMMA QuietStep ==
  ASSUME EnginesRight,
         request_state' = request_state, free_blocks' = free_blocks,
         block_tables' = block_tables, config' = config, cache' = cache,
         phase' \in PhasesOf(config.driver), phase' # "initialize",
         local' = [position |-> local'.position, decode_batch |-> local'.decode_batch],
         local'.position \in Nat \ {0}, phase' \in {"loop", "build"} => local'.position = 1,
         Begun = Range(Members),
         ToApply = {} \/ \A r \in Working \ ToApply' :
                          request_state[r].generated_tokens < request_state[r].max_new_tokens,
         phase' = "done" => Working = {},
         WithRoom' \cap Working \subseteq WithRoom
  PROVE  EnginesRight'
<1>1. /\ Members' = Members /\ Range(Members)' = Range(Members)
      /\ \A r : FinalTokens(r)' = FinalTokens(r)
  BY SameMembers
<1>2. EnginesTyped'
  BY <1>1 DEF EnginesRight, EnginesTyped, IsRecord, OnCells
<1>3. /\ Begun' = Begun /\ Working' = Working
      /\ \A r : EngineTokenPosition(r)' = EngineTokenPosition(r)
  <2>1. Begun' = Begun
    BY <1>1 DEF Begun
  <2>2. Working' = Working
    BY <2>1 DEF Working
  <2>. QED  BY <2>1, <2>2 DEF EngineTokenPosition, Engines!TokenPosition
<1>4. EngineRecords'
  <2>1. ASSUME NEW r \in Begun'  PROVE BegunRight(r)'
    <3>1. BegunRight(r)
      BY <1>3, <2>1 DEF EnginesRight, EngineRecords
    <3>2. request_state[r].status = "decoding" /\ r \notin ToApply' =>
            request_state[r].generated_tokens < request_state[r].max_new_tokens
      BY <1>3, <2>1, <3>1 DEF BegunRight, Working
    <3>. QED  BY <1>3, <3>1, <3>2 DEF BegunRight
  <2>2. \A r \in Requests \ Begun' : request_state'[r] = Engines!NewRequest(config', r)
    BY <1>3 DEF EnginesRight, EngineRecords
  <2>3. phase' = "done" => Working' = {}
    BY <1>3
  <2>. QED  BY <2>1, <2>2, <2>3 DEF EngineRecords
<1>5. EngineTables'
  <2>1. ASSUME NEW r \in WithRoom', r \in Working
        PROVE  Needed(EngineTokenPosition(r) + 1) <= Len(block_tables[r])
    <3>1. r \in WithRoom
      BY <2>1
    <3>. QED  BY <2>1, <3>1 DEF EnginesRight, EngineTables
  <2>. QED  BY <1>1, <1>3, <2>1 DEF EnginesRight, EngineTables
<1>6. AllBlocksThere'
  BY <1>1 DEF EnginesRight, AllBlocksThere, AllThere, Owned, TableIn
<1>7. EngineCache'
  BY <1>3 DEF EnginesRight, EngineCache, Holds
<1>. QED  BY <1>2, <1>4, <1>5, <1>6, <1>7 DEF EnginesRight

(* When nobody is working, nobody has blocks.                               *)
LEMMA AllBlocksBack ==
  ASSUME EnginesTyped, EngineTables, AllBlocksThere, Working = {}
  PROVE  Len(free_blocks) = EngineBlocks
<1>. DEFINE S == Range(Members)
            w == Owned(block_tables)
<1>1. w \in [S -> Nat] /\ Len(free_blocks) \in Nat
  BY OwnedTyped DEF EngineTables
<1>2. \A x \in S : w[x] = 0
  <2>1. \A x : TableIn(block_tables, x) = << >>
    BY DEF EngineTables, TableIn
  <2>. QED  BY <2>1, EmptySeq DEF Owned
<1>3. IsFiniteSet(S)
  BY ServedAre DEF EnginesTyped
<1>4. Len(free_blocks) + SumFunctionOnSet(w, S) = EngineBlocks
  BY DEF AllBlocksThere, AllThere
<1>. HIDE DEF S, w
<1>5. SumFunctionOnSet(w, S) = 0
  BY <1>1, <1>2, <1>3, SumOfZeros
<1>. QED  BY <1>1, <1>4, <1>5

LEMMA BeginIterationKeeps ==
  ASSUME DInv, Engines!BeginIteration  PROVE DInv'
<1>1. EnginesTyped /\ EnginesRight
  BY DEF DInv, EnginesRight
<1>2. /\ request_state' = request_state /\ free_blocks' = free_blocks
      /\ block_tables' = block_tables /\ config' = config /\ cache' = cache
      /\ step_metrics' = step_metrics
      /\ (phase = "initialize" /\ local.position > Len(Members)) \/ phase = "loop"
  BY DEF Engines!BeginIteration, Engines!kv_vars, Engines!engine_vars, Members
<1>. DEFINE next == IF Engines!Active = << >> THEN "done"
                    ELSE IF config.driver = "harness" THEN "build" ELSE "ensure"
<1>3. Engines!At(next, 1)
  BY DEF Engines!BeginIteration
<1>4. /\ phase' = next /\ local'.position = 1
      /\ local' = [position |-> local'.position, decode_batch |-> local'.decode_batch]
  BY <1>1, <1>3, AtIs
<1>5. Begun = Range(Members) /\ ToApply = {}
  BY <1>1, <1>2, BegunAre DEF ToApply
<1>6. Range(Engines!Active) = Working /\ Engines!Active \in Seq(Requests)
  BY <1>1, <1>5, ActiveAre DEF Working
<1>7. Working = {} <=> Engines!Active = << >>
  <2>1. Range(<< >>) = {}
    BY DEF Range
  <2>2. Engines!Active # << >> => Engines!Active[1] \in Range(Engines!Active)
    BY <1>6, EmptySeq, LenProperties DEF Range
  <2>. QED  BY <1>6, <2>1, <2>2
<1>8. phase' \in PhasesOf(config.driver) /\ phase' \in {"done", "build", "ensure"}
  BY <1>1, <1>4, ConfigIs DEF PhasesOf, EnginesTyped
<1>9. WithRoom' = {}
  BY <1>1, <1>2, <1>4, ConfigIs DEF WithRoom, EnginesTyped
<1>10. EnginesRight'
  BY <1>1, <1>2, <1>4, <1>5, <1>7, <1>8, <1>9, QuietStep
<1>11. HarnessRight'
  <2>. SUFFICES ASSUME config.driver = "harness"  PROVE (Lockstep /\ StepRecords)'
    BY <1>2 DEF HarnessRight
  <2>1. Lockstep /\ StepRecords
    BY DEF DInv, HarnessRight
  <2>2. StepRecords'
    BY <1>2, <2>1 DEF StepRecords, StepRecord
  <2>3. Members' = Members
    BY <1>2, SameMembers
  <2>4. phase' = "build" => \A r \in Requests : Len(step_metrics) < config.max_new_tokens[r]
    <3>. SUFFICES ASSUME phase' = "build", NEW r \in Requests
                  PROVE  Len(step_metrics) < config.max_new_tokens[r]
      OBVIOUS
    <3>1. PICK x \in Working : TRUE
      BY <1>4, <1>7
    <3>2. x \in Range(Members) /\ x \in Begun /\ x \in Requests
      BY <1>1, <1>5, BegunAre
    <3>3. PICK i \in 1 .. Len(Members) : Members[i] = x
      BY <1>1, <3>2, MembersAre, LenProperties DEF EnginesTyped, Range
    <3>4. /\ request_state[x].generated_tokens = Len(step_metrics)
          /\ request_state[x].status = "finished"
               <=> request_state[x].generated_tokens = request_state[x].max_new_tokens
      <4>1. request_state[x].generated_tokens \in Nat
        BY <1>1, <3>2, PositionOf DEF EnginesRight
      <4>2. Len(step_metrics) \in Nat
        BY <2>1, LenProperties DEF StepRecords
      <4>. QED  BY <1>2, <2>1, <3>3, <4>1, <4>2 DEF Lockstep
    <3>5. /\ request_state[x].generated_tokens \in 0 .. request_state[x].max_new_tokens
          /\ request_state[x].max_new_tokens = config.max_new_tokens[x]
          /\ config.max_new_tokens[x] \in Nat
      BY <1>1, <3>2, PositionOf, ConfigIs DEF EnginesRight, EngineRecords, BegunRight,
         EnginesTyped
    <3>6. config.max_new_tokens[x] = config.max_new_tokens[r]
      BY <1>1, <3>2, ConfigIs DEF EnginesTyped
    <3>7. request_state[x].status # "finished"
      BY <3>1 DEF Working
    <3>. QED  BY <3>4, <3>5, <3>6, <3>7
  <2>5. Lockstep'
    BY <1>2, <1>4, <2>1, <2>3, <2>4 DEF Lockstep
  <2>. QED  BY <2>2, <2>5
<1>12. BatchBuilt'
  BY <1>4 DEF BatchBuilt
<1>. QED  BY <1>10, <1>11, <1>12 DEF DInv

LEMMA BuildKeeps ==
  ASSUME DInv, Engines!Build  PROVE DInv'
<1>1. EnginesTyped /\ EnginesRight
  BY DEF DInv, EnginesRight
<1>2. /\ request_state' = request_state /\ free_blocks' = free_blocks
      /\ block_tables' = block_tables /\ config' = config /\ cache' = cache
      /\ step_metrics' = step_metrics /\ phase = "build" /\ phase' = "attended"
  BY DEF Engines!Build, Engines!kv_vars, Engines!engine_vars
<1>. DEFINE batch == Engines!BuildDecodeBatch(Members, request_state, block_tables)
<1>3. local' = [position |-> 1, decode_batch |-> batch]
  <2>1. local = [position |-> local.position, decode_batch |-> local.decode_batch]
    BY <1>1 DEF EnginesTyped
  <2>2. local.position = 1
    BY <1>1, <1>2 DEF EnginesTyped
  <2>3. local' = [local EXCEPT !.decode_batch = batch]
    BY DEF Engines!Build, Members
  <2>. HIDE DEF batch
  <2>. QED  BY <2>1, <2>2, <2>3
<1>4. batch.request_ids = Engines!Active
  BY DEF Engines!BuildDecodeBatch, Engines!Active, Members
<1>. HIDE DEF batch
<1>5. Begun = Range(Members) /\ ToApply = {}
  BY <1>1, <1>2, BegunAre DEF ToApply
<1>6. phase' \in PhasesOf(config.driver)
  BY <1>1, <1>2, ConfigIs DEF PhasesOf, EnginesTyped
<1>7. WithRoom' = WithRoom
  <2>1. Working' = Working
    BY <1>2, <1>5, SameMembers DEF Working, Begun
  <2>. QED  BY <1>2, <2>1 DEF WithRoom
<1>8. EnginesRight'
  BY <1>1, <1>2, <1>3, <1>5, <1>6, <1>7, QuietStep
<1>9. Members' = Members
  BY <1>2, SameMembers
<1>10. HarnessRight'
  <2>. SUFFICES ASSUME config.driver = "harness"  PROVE (Lockstep /\ StepRecords)'
    BY <1>2 DEF HarnessRight
  <2>1. Lockstep /\ StepRecords
    BY DEF DInv, HarnessRight
  <2>2. StepRecords'
    BY <1>2, <2>1 DEF StepRecords, StepRecord
  <2>3. Members \in Seq(Requests) /\ Len(Members) \in Nat
    BY <1>1, MembersAre, LenProperties DEF EnginesTyped
  <2>4. batch.request_ids = Members
    <3>. DEFINE S == {r \in Range(Members) : request_state[r].status # "finished"}
    <3>1. ASSUME NEW r \in Range(Members)  PROVE request_state[r].status # "finished"
      <4>1. PICK i \in 1 .. Len(Members) : Members[i] = r
        BY <2>3, LenProperties DEF Range
      <4>2. r \in Begun
        BY <1>5
      <4>3. /\ request_state[r].generated_tokens \in Nat /\ Len(step_metrics) \in Nat
            /\ request_state[r].max_new_tokens = config.max_new_tokens[r] /\ r \in Requests
        BY <1>1, <2>1, <4>2, PositionOf, LenProperties DEF EnginesRight, StepRecords, BegunRight
      <4>. QED  BY <1>2, <2>1, <4>1, <4>3 DEF Lockstep
    <3>2. S = Range(Members)
      BY <3>1
    <3>3. Engines!Active = InOrder(Members, S)
      BY EngineOperators DEF Engines!Active, Engines!ActiveRequests, Members
    <3>. HIDE DEF S
    <3>4. << >> \in Seq(Requests) /\ Range(<< >>) = {}
      BY EmptySeq DEF Range
    <3>5. Members \o << >> = Members
      BY <2>3, ConcatEmptySeq
    <3>6. InOrder(Members \o << >>, S) = Members
      <4>1. Range(Members) \subseteq S /\ Range(<< >>) \cap S = {}
        BY <3>2, <3>4
      <4>. DEFINE t == << >>
                  s == Members
      <4>2. s \in Seq(Requests) /\ t \in Seq(Requests)
        BY <2>3, <3>4
      <4>3. Range(s) \subseteq S /\ Range(t) \cap S = {}
        BY <4>1
      <4>. HIDE DEF s, t
      <4>4. InOrder(s \o t, S) = s
        BY <4>2, <4>3, InOrderOfParts
      <4>. QED  BY <4>4 DEF s, t
    <3>. QED  BY <1>4, <3>3, <3>5, <3>6
  <2>5. Lockstep'
    BY <1>2, <1>3, <1>9, <2>1, <2>3, <2>4 DEF Lockstep
  <2>. QED  BY <2>2, <2>5
<1>11. BatchBuilt'
  BY <1>2, <1>3, <1>9 DEF BatchBuilt, batch
<1>. QED  BY <1>8, <1>10, <1>11 DEF DInv

LEMMA EnsuredKeeps ==
  ASSUME DInv, Engines!Ensured  PROVE DInv'
<1>1. EnginesTyped /\ EnginesRight
  BY DEF DInv, EnginesRight
<1>2. /\ request_state' = request_state /\ free_blocks' = free_blocks
      /\ block_tables' = block_tables /\ config' = config /\ cache' = cache
      /\ step_metrics' = step_metrics
      /\ phase = "ensure" /\ local.position > Len(Engines!Active)
  BY DEF Engines!Ensured, Engines!kv_vars, Engines!engine_vars
<1>3. Engines!At(IF config.driver = "hf" THEN "decode" ELSE "build", 1)
  BY DEF Engines!Ensured
<1>4. /\ phase' = (IF config.driver = "hf" THEN "decode" ELSE "build") /\ local'.position = 1
      /\ local' = [position |-> local'.position, decode_batch |-> local'.decode_batch]
  BY <1>1, <1>3, AtIs
<1>5. Begun = Range(Members) /\ ToApply = {}
  BY <1>1, <1>2, BegunAre DEF ToApply
<1>6. config.driver # "harness" /\ phase' \in PhasesOf(config.driver)
  BY <1>1, <1>2, <1>4, ConfigIs DEF PhasesOf, EnginesTyped
<1>7. Working \subseteq WithRoom
  <2>1. /\ Range(Engines!Active) = Working
        /\ DOMAIN Engines!Active = 1 .. Len(Engines!Active) /\ Len(Engines!Active) \in Nat
    BY <1>1, <1>5, ActiveAre DEF Working
  <2>2. local.position \in Nat
    BY <1>1 DEF EnginesTyped
  <2>. DEFINE s == Engines!Active
  <2>. HIDE DEF s
  <2>3. \A i \in 1 .. Len(s) : i \in 1 .. local.position - 1
    BY <1>2, <2>1, <2>2 DEF s
  <2>4. \A r \in Working : \E i \in 1 .. local.position - 1 : r = s[i]
    BY <2>1, <2>3 DEF Range, s
  <2>. QED  BY <1>2, <2>4 DEF WithRoom, s
<1>8. EnginesRight'
  BY <1>1, <1>2, <1>4, <1>5, <1>6, <1>7, QuietStep
<1>9. HarnessRight'
  BY <1>2, <1>6 DEF HarnessRight
<1>10. BatchBuilt'
  BY <1>4 DEF BatchBuilt
<1>. QED  BY <1>8, <1>9, <1>10 DEF DInv

LEMMA EndIterationKeeps ==
  ASSUME DInv, Engines!EndIteration  PROVE DInv'
<1>1. EnginesTyped /\ EnginesRight
  BY DEF DInv, EnginesRight
<1>2. /\ request_state' = request_state /\ free_blocks' = free_blocks
      /\ block_tables' = block_tables /\ config' = config /\ cache' = cache
      /\ phase' = "loop" /\ local'.position = 1
      /\ local' = [position |-> local'.position, decode_batch |-> local'.decode_batch]
      /\ \/ phase = "attended" /\ config.driver = "harness"
            /\ local.position > Len(local.decode_batch.request_ids)
         \/ phase = "finish" /\ local.position > Len(Members)
      /\ step_metrics' = IF config.driver = "harness" THEN Engines!Record ELSE step_metrics
  BY DEF Engines!EndIteration, Engines!kv_vars, Members
<1>3. Begun = Range(Members)
  BY <1>1, <1>2, BegunAre
<1>4. Members \in Seq(Requests) /\ Len(Members) \in Nat /\ DOMAIN Members = 1 .. Len(Members)
      /\ local.position \in Nat
  BY <1>1, MembersAre, LenProperties DEF EnginesTyped
<1>5. ToApply = {}
  BY <1>2, <1>4 DEF ToApply
<1>6. phase' \in PhasesOf(config.driver)
  BY <1>1, <1>2, ConfigIs DEF PhasesOf, EnginesTyped
<1>7. WithRoom' = {}
  BY <1>2 DEF WithRoom
<1>8. EnginesRight'
  BY <1>1, <1>2, <1>3, <1>5, <1>6, <1>7, QuietStep
<1>9. BatchBuilt'
  BY <1>2 DEF BatchBuilt
<1>10. HarnessRight'
  <2>. SUFFICES ASSUME config.driver = "harness"  PROVE (Lockstep /\ StepRecords)'
    BY <1>2 DEF HarnessRight
  <2>. DEFINE k == Len(step_metrics)
              n == Len(Members)
              rec == [active_batch_size |-> Len(local.decode_batch.request_ids),
                      kv_used_blocks |-> EngineBlocks - Len(free_blocks),
                      total_tokens_emitted |->
                        Engines!SumFunction([i \in DOMAIN Members |->
                                               request_state[Members[i]].generated_tokens])]
  <2>1. Lockstep /\ StepRecords
    BY DEF DInv, HarnessRight
  <2>2. /\ phase = "attended" /\ local.decode_batch.request_ids = Members
        /\ local.position > n
    <3>1. phase # "finish"
      BY <1>1 DEF EnginesTyped, PhasesOf
    <3>2. phase = "attended" /\ local.position > Len(local.decode_batch.request_ids)
      BY <1>2, <3>1
    <3>. QED  BY <2>1, <3>2 DEF Lockstep
  <2>3. k \in Nat
    BY <2>1, LenProperties DEF StepRecords
  <2>4. \A i \in 1 .. n :
          /\ request_state[Members[i]].generated_tokens = k + 1
          /\ request_state[Members[i]].status = "finished"
               <=> request_state[Members[i]].generated_tokens
                     = request_state[Members[i]].max_new_tokens
    BY <1>4, <2>1, <2>2 DEF Lockstep
  <2>5. step_metrics' = Append(step_metrics, rec)
    BY <1>2 DEF Engines!Record, Engines!KV!UsedBlockCount, Engines!KV!FreeBlockCount, Members
  <2>6. rec.total_tokens_emitted = (k + 1) * config.batch_size
    <3>. DEFINE T == 1 .. n
                f == [i \in T |-> request_state[Members[i]].generated_tokens]
    <3>1. rec.total_tokens_emitted = SumFunctionOnSet(f, T)
      <4>. DEFINE g == [i \in DOMAIN Members |-> request_state[Members[i]].generated_tokens]
      <4>1. g = f
        BY <1>4
      <4>2. rec.total_tokens_emitted = Engines!SumFunction(g)
        OBVIOUS
      <4>3. DOMAIN f = T
        OBVIOUS
      <4>. HIDE DEF f, g, T, rec
      <4>4. Engines!SumFunction(g) = SumFunctionOnSet(g, DOMAIN g)
        BY EngineOperators
      <4>. QED  BY <4>1, <4>2, <4>3, <4>4
    <3>2. k + 1 \in Nat /\ f \in [T -> Nat] /\ \A i \in T : f[i] = k + 1
      BY <2>3, <2>4
    <3>3. IsFiniteSet(T) /\ Cardinality(T) = n
      <4>1. n \in Int /\ 1 \in Int /\ n >= 0
        BY <1>4
      <4>. HIDE DEF n
      <4>. QED  BY <4>1, FS_Interval
    <3>. HIDE DEF T, f, k
    <3>4. SumFunctionOnSet(f, T) = n * (k + 1)
      BY <3>2, <3>3, SumOfSame
    <3>5. n = config.batch_size
      BY <1>1, MembersAre DEF EnginesTyped
    <3>. HIDE DEF n, rec
    <3>6. n * (k + 1) = (k + 1) * n
      BY <1>4, <2>3 DEF k, n
    <3>. QED  BY <3>1, <3>4, <3>5, <3>6 DEF k
  <2>7. rec.active_batch_size = config.batch_size
    BY <1>1, <2>2, MembersAre DEF EnginesTyped
  <2>8. (\E r \in Requests : k + 1 = config.max_new_tokens[r]) => rec.kv_used_blocks = 0
    <3>. SUFFICES ASSUME NEW r \in Requests, k + 1 = config.max_new_tokens[r]
                  PROVE  rec.kv_used_blocks = 0
      OBVIOUS
    <3>1. Working = {}
      <4>. SUFFICES ASSUME NEW x \in Working  PROVE FALSE
        OBVIOUS
      <4>1. x \in Range(Members) /\ x \in Begun /\ x \in Requests
        BY <1>1, <1>3, BegunAre
      <4>2. PICK i \in 1 .. n : Members[i] = x
        BY <1>4, <4>1 DEF Range
      <4>3. request_state[x].max_new_tokens = config.max_new_tokens[x]
        BY <1>1, <4>1, PositionOf DEF EnginesRight, BegunRight
      <4>4. config.max_new_tokens[x] = config.max_new_tokens[r]
        BY <1>1, <4>1, ConfigIs DEF EnginesTyped
      <4>. QED  BY <2>4, <4>2, <4>3, <4>4 DEF Working
    <3>2. Len(free_blocks) = EngineBlocks
      BY <1>1, <3>1, AllBlocksBack DEF EnginesRight
    <3>. QED  BY <3>2, EngineAssumption
  <2>. HIDE DEF rec
  <2>9. StepRecords'
    <3>. DEFINE R == Range(step_metrics) \cup {rec}
    <3>1. step_metrics \in Seq(R) /\ rec \in R
      <4>1. step_metrics \in Seq(Range(step_metrics))
        BY <2>1 DEF StepRecords
      <4>. QED  BY <4>1
    <3>. HIDE DEF R
    <3>2. /\ Len(step_metrics') = k + 1 /\ step_metrics'[k + 1] = rec
          /\ \A i \in 1 .. k : step_metrics'[i] = step_metrics[i]
          /\ step_metrics' \in Seq(R) /\ DOMAIN step_metrics' = 1 .. k + 1
          /\ DOMAIN step_metrics = 1 .. k
      BY <2>5, <3>1, AppendProperties, LenProperties
    <3>. HIDE DEF k
    <3>3. step_metrics' \in Seq(Range(step_metrics'))
      <4>1. \A i \in 1 .. k + 1 : step_metrics'[i] \in Range(step_metrics')
        BY <3>2 DEF Range
      <4>. DEFINE s == step_metrics'
      <4>2. k + 1 \in Nat /\ s = [i \in 1 .. k + 1 |-> s[i]]
        BY <2>3, <3>2, LenProperties DEF k
      <4>. HIDE DEF s
      <4>3. s \in [1 .. k + 1 -> Range(s)]
        BY <4>1, <4>2 DEF s
      <4>. QED  BY <4>2, <4>3 DEF s
    <3>4. ASSUME NEW i \in 1 .. k + 1  PROVE StepRecord(i)'
      <4>1. CASE i = k + 1
        BY <1>2, <2>6, <2>7, <2>8, <3>2, <4>1 DEF StepRecord, k
      <4>2. CASE i \in 1 .. k
        <5>1. StepRecord(i)
          BY <2>1, <3>2, <4>2 DEF StepRecords
        <5>. QED  BY <1>2, <3>2, <4>2, <5>1 DEF StepRecord
      <4>3. k \in Nat
        BY <2>3 DEF k
      <4>. QED  BY <4>1, <4>2, <4>3
    <3>. QED  BY <3>2, <3>3, <3>4 DEF StepRecords
  <2>10. Lockstep'
    <3>1. Members' = Members
      BY <1>2, SameMembers
    <3>2. Len(step_metrics') = k + 1
      <4>1. step_metrics \in Seq(Range(step_metrics) \cup {rec})
        <5>1. step_metrics \in Seq(Range(step_metrics))
          BY <2>1 DEF StepRecords
        <5>. QED  BY <5>1
      <4>. QED  BY <2>5, <4>1, AppendProperties
    <3>. QED  BY <1>2, <2>3, <2>4, <3>1, <3>2 DEF Lockstep
  <2>. QED  BY <2>9, <2>10
<1>. QED  BY <1>8, <1>9, <1>10 DEF DInv

-----------------------------------------------------------------------------
(* The steps that give blocks, write tokens or take blocks back *)

LEMMA InRoom ==
  ASSUME NEW n \in Nat, NEW table, Len(table) \in Nat, Needed(n) <= Len(table),
         NEW p \in 0 .. n - 1
  PROVE  EngineReaches(table, p)
<1>1. p \in Nat /\ p \div EngineBlockSize < Needed(n) /\ Needed(n) \in Nat
  BY NeededProperties
<1>. DEFINE q == p \div EngineBlockSize
<1>2. q \in Nat
  BY <1>1, EngineAssumption, QuotientAndRemainder
<1>. HIDE DEF q
<1>3. q < Len(table)
  BY <1>1, <1>2 DEF q
<1>. QED  BY <1>1, <1>3 DEF EngineReaches, q

LEMMA TablesTyped ==
  ASSUME EngineTables
  PROVE  /\ free_blocks \in Seq(0 .. EngineBlocks - 1) /\ Len(free_blocks) \in Nat
         /\ \A x \in Working : /\ block_tables[x] \in Seq(0 .. EngineBlocks - 1)
                               /\ Len(block_tables[x]) \in Nat
<1>1. /\ free_blocks \in Seq(0 .. EngineBlocks - 1)
      /\ \A x \in Working : block_tables[x] \in Seq(0 .. EngineBlocks - 1)
  BY DEF EngineTables, Partition
<1>. QED  BY <1>1, LenProperties

LEMMA Reached ==
  ASSUME EnginesTyped, EngineRecords, EngineTables, NEW r \in Working,
         NEW p \in 0 .. EngineTokenPosition(r) - 1
  PROVE  EngineReaches(block_tables[r], p)
<1>1. EngineTokenPosition(r) \in Nat
  BY BegunAre, PositionOf DEF Working
<1>2. Needed(EngineTokenPosition(r)) <= Len(block_tables[r]) /\ Len(block_tables[r]) \in Nat
  BY TablesTyped DEF EngineTables
<1>. QED  BY <1>1, <1>2, InRoom

(* The tables after room was made for the next token of r.                   *)
RoomyTables(r) ==
  GiveTo(block_tables, r,
         SubSeq(free_blocks, 1, Engines!KV!MissingBlocks(r, EngineTokenPosition(r))))

RoomyFree(r) ==
  SubSeq(free_blocks, Engines!KV!MissingBlocks(r, EngineTokenPosition(r)) + 1, Len(free_blocks))

LEMMA RoomGiven ==
  ASSUME EnginesRight, NEW r \in Working,
         request_state[r].generated_tokens < request_state[r].max_new_tokens
  PROVE  LET given == RoomyTables(r)
         IN  /\ Pool(RoomyFree(r), given) /\ DOMAIN given = Working
             /\ given[r] = block_tables[r] \o
                  Engines!KV!FirstFree(Engines!KV!MissingBlocks(r, EngineTokenPosition(r)))
             /\ Needed(EngineTokenPosition(r) + 1) <= Len(given[r])
             /\ Len(given[r]) <= Needed(FinalTokens(r)) /\ Len(given[r]) \in Nat
             /\ \A x \in Working \ {r} : given[x] = block_tables[x]
             /\ \A x \in Working : \A p \in 0 .. EngineTokenPosition(x) - 1 :
                  /\ EngineReaches(given[x], p)
                  /\ Holds(cache, block_tables[x], x, p) => Holds(cache, given[x], x, p)
             /\ Engines!KV!EnsureCapacityForToken(r, EngineTokenPosition(r)) =>
                  free_blocks' = RoomyFree(r) /\ block_tables' = given
<1>. DEFINE p == EngineTokenPosition(r)
            m == Engines!KV!MissingBlocks(r, p)
            first == SubSeq(free_blocks, 1, m)
            rest == SubSeq(free_blocks, m + 1, Len(free_blocks))
            given == GiveTo(block_tables, r, first)
            B == 0 .. EngineBlocks - 1
<1>1. /\ EnginesTyped /\ EngineRecords /\ EngineTables /\ AllBlocksThere
      /\ Pool(free_blocks, block_tables) /\ config \in Engines!Configs
      /\ DOMAIN block_tables = Working /\ r \in Range(Members)
  <2>1. EnginesTyped /\ EngineRecords /\ EngineTables /\ AllBlocksThere
    BY DEF EnginesRight
  <2>. QED  BY <2>1, BegunAre DEF Pool, EngineTables, AllBlocksThere, EnginesTyped
<1>2. /\ m \in 0 .. Len(free_blocks) /\ Len(block_tables[r]) \in Nat
      /\ Engines!KV!CapacityAvailable(r, p)
      /\ Needed(p + 1) <= Len(block_tables[r]) + m
      /\ Len(block_tables[r]) + m <= Needed(FinalTokens(r))
  BY <1>1, RoomForNext
<1>. HIDE DEF m
<1>3. /\ Pool(rest, given) /\ DOMAIN given = DOMAIN block_tables \cup {r}
      /\ given[r] = TableIn(block_tables, r) \o first
      /\ Len(given[r]) = Len(TableIn(block_tables, r)) + m
      /\ TableIn(block_tables, r) \in Seq(B) /\ first \in Seq(B)
      /\ \A x \in DOMAIN block_tables \ {r} : given[x] = block_tables[x]
  <2>1. PICK free, tables, k : free = free_blocks /\ tables = block_tables /\ k = m
    OBVIOUS
  <2>2. /\ config \in Engines!Configs /\ Pool(free, tables) /\ r \in Range(Members)
        /\ k \in 0 .. Len(free)
    BY <1>1, <1>2, <2>1
  <2>3. GivenRight(free, tables, r, k)
    BY <2>2, GivingKeeps
  <2>. QED  BY <2>1, <2>3 DEF GivenRight
<1>4. /\ TableIn(block_tables, r) = block_tables[r] /\ DOMAIN given = Working
      /\ m \in Nat
  <2>1. TableIn(block_tables, r) = block_tables[r]
    BY <1>1 DEF TableIn
  <2>2. m \in Nat
    BY <1>2
  <2>. HIDE DEF given
  <2>. QED  BY <1>1, <1>3, <2>1, <2>2
<1>. HIDE DEF p, given, first, rest
<1>5. ASSUME NEW x \in Working, NEW q \in 0 .. EngineTokenPosition(x) - 1
      PROVE  /\ EngineReaches(given[x], q)
             /\ Holds(cache, block_tables[x], x, q) => Holds(cache, given[x], x, q)
  <2>1. EngineReaches(block_tables[x], q)
    BY <1>1, Reached
  <2>2. CASE x = r
    <3>1. /\ EngineReaches(block_tables[r] \o first, q)
          /\ Cell(block_tables[r] \o first, q) = Cell(block_tables[r], q)
      <4>. HIDE DEF B
      <4>. QED  BY <1>3, <1>4, <2>1, <2>2, LongerTable
    <3>. QED  BY <1>3, <1>4, <2>2, <3>1 DEF Holds
  <2>3. CASE x # r
    BY <1>1, <1>3, <2>1, <2>3
  <2>. QED  BY <2>2, <2>3
<1>6. ASSUME Engines!KV!EnsureCapacityForToken(r, p)
      PROVE  free_blocks' = rest /\ block_tables' = given
  <2>1. m <= Len(free_blocks)
    BY <1>2
  <2>2. Engines!KV!Extend(r, m)
    BY <1>6, <2>1 DEF Engines!KV!EnsureCapacityForToken, Engines!KV!FreeBlockCount, m
  <2>3. /\ free_blocks' = rest
        /\ block_tables' = [block_tables EXCEPT ![r] = @ \o first]
    BY <2>2 DEF Engines!KV!Extend, Engines!KV!AfterPop, Engines!KV!FirstFree,
       Engines!KV!FreeBlockCount, rest, first
  <2>4. DOMAIN block_tables \cup {r} = DOMAIN block_tables
    BY <1>1
  <2>5. block_tables = [x \in DOMAIN block_tables |-> block_tables[x]]
    BY <1>1 DEF EngineTables, Partition
  <2>6. given = [x \in DOMAIN block_tables |->
                   IF x = r THEN block_tables[r] \o first ELSE block_tables[x]]
    BY <1>4, <2>4 DEF given, GiveTo
  <2>7. block_tables' = given
    BY <1>1, <2>3, <2>5, <2>6
  <2>. QED  BY <2>3, <2>7
<1>7. RoomyTables(r) = given /\ RoomyFree(r) = rest
  BY DEF RoomyTables, RoomyFree, given, rest, first, m, p
<1>8. first = Engines!KV!FirstFree(m)
  BY DEF first, Engines!KV!FirstFree
<1>9. /\ Needed(p + 1) <= Len(given[r]) /\ Len(given[r]) <= Needed(FinalTokens(r))
      /\ Len(given[r]) \in Nat
  BY <1>2, <1>3, <1>4
<1>10. /\ Pool(rest, given) /\ DOMAIN given = Working
       /\ given[r] = block_tables[r] \o Engines!KV!FirstFree(m)
       /\ \A x \in Working \ {r} : given[x] = block_tables[x]
  BY <1>1, <1>3, <1>4, <1>8
<1>. QED  BY <1>5, <1>6, <1>7, <1>9, <1>10 DEF m, p

LEMMA EnsureKeeps ==
  ASSUME DInv, Engines!Ensure  PROVE DInv'
<1>. DEFINE r == Engines!Active[local.position]
            s == Engines!Active
            q == [request_state[r] EXCEPT !.block_table = block_tables'[r]]
<1>1. /\ EnginesTyped /\ EnginesRight /\ EngineRecords /\ EngineTables /\ EngineCache
      /\ local.position \in Nat \ {0}
  BY DEF DInv, EnginesRight, EnginesTyped
<1>2. /\ phase = "ensure" /\ local.position <= Len(s)
      /\ config' = config /\ cache' = cache /\ step_metrics' = step_metrics
      /\ Engines!At("ensure", local.position + 1)
      /\ Engines!KV!EnsureCapacityForToken(r, EngineTokenPosition(r))
      /\ request_state' = [request_state EXCEPT ![r].block_table = block_tables'[r]]
  BY DEF Engines!Ensure, Engines!engine_vars, EngineTokenPosition
<1>3. /\ Begun = Range(Members) /\ ToApply = {} /\ Working \subseteq Requests
      /\ Working \subseteq Begun
  BY <1>1, <1>2, BegunAre DEF ToApply
<1>4. s \in Seq(Requests) /\ DOMAIN s = 1 .. Len(s) /\ Len(s) \in Nat /\ Range(s) = Working
  BY <1>1, <1>3, ActiveAre DEF Working
<1>5. r \in Working
  <2>. HIDE DEF s
  <2>1. local.position \in 1 .. Len(s)
    BY <1>1, <1>2, <1>4
  <2>. QED  BY <1>4, <2>1 DEF Range, s
<1>. HIDE DEF r, s
<1>6. request_state[r].generated_tokens < request_state[r].max_new_tokens
  BY <1>1, <1>3, <1>5, PositionOf
<1>7. /\ Pool(free_blocks', block_tables') /\ DOMAIN block_tables' = Working
      /\ Needed(EngineTokenPosition(r) + 1) <= Len(block_tables'[r])
      /\ Len(block_tables'[r]) <= Needed(FinalTokens(r)) /\ Len(block_tables'[r]) \in Nat
      /\ \A x \in Working \ {r} : block_tables'[x] = block_tables[x]
      /\ \A x \in Working : \A p \in 0 .. EngineTokenPosition(x) - 1 :
           Holds(cache, block_tables[x], x, p) => Holds(cache, block_tables'[x], x, p)
  BY <1>1, <1>2, <1>5, <1>6, RoomGiven
<1>8. /\ phase' = "ensure" /\ local'.position = local.position + 1
      /\ local' = [position |-> local'.position, decode_batch |-> local'.decode_batch]
  BY <1>1, <1>2, AtIs
<1>9. /\ Members' = Members /\ Range(Members)' = Range(Members)
      /\ \A x : FinalTokens(x)' = FinalTokens(x)
  BY <1>2, SameMembers
<1>10. /\ request_state' = [x \in Requests |-> IF x = r THEN q ELSE request_state[x]]
       /\ \A x \in Requests : IsRecord(request_state[x])
       /\ \A x \in Requests : IsRecord(request_state'[x])
       /\ \A x \in Requests : \A f \in RecordFields \ {"block_table"} :
            request_state'[x][f] = request_state[x][f]
  <2>1. /\ request_state = [x \in Requests |-> request_state[x]] /\ r \in Requests
        /\ \A x \in Requests : IsRecord(request_state[x])
    BY <1>1, <1>3, <1>5 DEF EnginesTyped
  <2>2. request_state' = [x \in Requests |-> IF x = r THEN q ELSE request_state[x]]
    BY <1>2, <2>1
  <2>3. IsRecord(q) /\ \A f \in RecordFields \ {"block_table"} : q[f] = request_state[r][f]
    <3>. DEFINE old == request_state[r]
                table == block_tables'[r]
    <3>1. IsRecord(old)
      BY <2>1
    <3>. HIDE DEF old, table
    <3>2. /\ IsRecord([old EXCEPT !.block_table = table])
          /\ \A f \in RecordFields \ {"block_table"} :
               [old EXCEPT !.block_table = table][f] = old[f]
      BY <3>1, RecordSteps, RecordFieldsAfter
    <3>. QED  BY <3>2 DEF old, table
  <2>. HIDE DEF q
  <2>. QED  BY <2>1, <2>2, <2>3
<1>11. \A x \in Requests :
         LET a == request_state[x]
             b == request_state'[x]
         IN  /\ b.status = a.status /\ b.prompt_tokens = a.prompt_tokens
             /\ b.max_new_tokens = a.max_new_tokens
             /\ b.generated_tokens = a.generated_tokens
             /\ b.num_computed_tokens = a.num_computed_tokens
             /\ b.past_length = a.past_length /\ b.next_token = a.next_token
  BY <1>10 DEF RecordFields
<1>. HIDE DEF q
<1>12. Begun' = Begun /\ Working' = Working /\ ToApply' = {}
  <2>1. Begun' = Begun /\ ToApply' = {}
    BY <1>3, <1>8, <1>9 DEF Begun, ToApply
  <2>. QED  BY <1>1, <1>3, <1>11, <2>1, BegunAre DEF Working
<1>13. \A x \in Requests : EngineTokenPosition(x)' = EngineTokenPosition(x)
  BY <1>11 DEF EngineTokenPosition, Engines!TokenPosition
<1>14. EnginesTyped'
  <2>1. local'.position \in Nat \ {0}
    BY <1>1, <1>8
  <2>. QED  BY <1>1, <1>2, <1>8, <1>9, <1>10, <2>1 DEF EnginesTyped, OnCells
<1>15. EngineRecords'
  <2>1. ASSUME NEW x \in Begun'  PROVE BegunRight(x)'
    <3>1. BegunRight(x) /\ x \in Requests
      BY <1>1, <1>12, <2>1, BegunAre DEF EngineRecords
    <3>. QED  BY <1>2, <1>3, <1>11, <1>13, <3>1 DEF BegunRight
  <2>2. \A x \in Requests \ Begun' : request_state'[x] = Engines!NewRequest(config', x)
    BY <1>2, <1>3, <1>5, <1>10, <1>12, <1>1 DEF EngineRecords
  <2>. QED  BY <1>8, <2>1, <2>2 DEF EngineRecords
<1>16. AllBlocksThere' /\ Partition(0 .. EngineBlocks - 1, free_blocks', block_tables')
  <2>1. PICK free, tables : free = free_blocks' /\ tables = block_tables'
    OBVIOUS
  <2>. QED  BY <1>2, <1>7, <2>1, PoolNext
<1>17. EngineTables'
  <2>1. ASSUME NEW x \in Working
        PROVE  /\ Needed(EngineTokenPosition(x)) <= Len(block_tables'[x])
               /\ Len(block_tables'[x]) <= Needed(FinalTokens(x))
    <3>1. CASE x = r
      <4>1. EngineTokenPosition(r) \in Nat
        BY <1>1, <1>3, <1>5, PositionOf
      <4>. DEFINE p == EngineTokenPosition(r)
      <4>2. Needed(p) <= Needed(p + 1) /\ Needed(p) \in Nat /\ Needed(p + 1) \in Nat
        BY <4>1, NeededProperties
      <4>. QED  BY <1>7, <3>1, <4>2
    <3>2. CASE x # r
      BY <1>1, <1>7, <3>2 DEF EngineTables
    <3>. QED  BY <3>1, <3>2
  <2>2. ASSUME NEW x \in WithRoom', x \in Working
        PROVE  Needed(EngineTokenPosition(x) + 1) <= Len(block_tables'[x])
    <3>1. CASE x = r
      BY <1>7, <3>1
    <3>2. CASE x # r
      <4>1. Engines!Active' = Engines!Active
        <5>1. Engines!Active = InOrder(Members, {y \in Range(Members) :
                                         request_state[y].status # "finished"})
          BY EngineOperators DEF Engines!Active, Engines!ActiveRequests, Members
        <5>2. Engines!Active' = InOrder(Members', {y \in Range(Members)' :
                                         request_state'[y].status # "finished"})
          BY EngineOperators DEF Engines!Active, Engines!ActiveRequests, Members
        <5>3. {y \in Range(Members)' : request_state'[y].status # "finished"}
                = {y \in Range(Members) : request_state[y].status # "finished"}
          BY <1>1, <1>9, <1>11, BegunAre
        <5>. QED  BY <1>9, <5>1, <5>2, <5>3
      <4>2. PICK i \in 1 .. local.position : x = s[i]
        BY <1>1, <1>8, <2>2, <4>1 DEF WithRoom, s
      <4>3. i \in 1 .. local.position - 1
        BY <1>1, <3>2, <4>2 DEF r, s
      <4>4. x \in WithRoom
        BY <1>2, <4>2, <4>3 DEF WithRoom, s
      <4>. QED  BY <1>1, <1>7, <2>2, <3>2, <4>4 DEF EngineTables
    <3>. QED  BY <3>1, <3>2
  <2>. QED  BY <1>3, <1>7, <1>9, <1>12, <1>13, <1>16, <2>1, <2>2 DEF EngineTables
<1>18. EngineCache'
  BY <1>1, <1>2, <1>3, <1>7, <1>12, <1>13 DEF EngineCache, Holds
<1>19. HarnessRight' /\ BatchBuilt'
  BY <1>1, <1>2, <1>8 DEF HarnessRight, BatchBuilt, EnginesTyped, PhasesOf
<1>. QED  BY <1>14, <1>15, <1>16, <1>17, <1>18, <1>19 DEF DInv, EnginesRight

LEMMA LoopStep ==
  ASSUME EnginesRight, config' = config, phase # "initialize",
         phase' \in PhasesOf(config.driver) \ {"initialize", "done"},
         local' = [position |-> local'.position, decode_batch |-> local'.decode_batch],
         local'.position \in Nat \ {0}, phase' \in {"loop", "build"} => local'.position = 1,
         request_state' = [x \in Requests |-> request_state'[x]],
         \A x \in Requests \ Range(Members) : request_state'[x] = request_state[x],
         \A x \in Range(Members) : IsRecord(request_state'[x]) /\ BegunRight(x)',
         OnCells(cache'), Pool(free_blocks', block_tables'), DOMAIN block_tables' = Working',
         \A x \in Working' :
           /\ Needed(EngineTokenPosition(x)') <= Len(block_tables'[x])
           /\ Len(block_tables'[x]) <= Needed(FinalTokens(x))
           /\ x \in WithRoom' => Needed(EngineTokenPosition(x)' + 1) <= Len(block_tables'[x]),
         config.driver # "hf" =>
           \A x \in Working' : \A p \in 0 .. EngineTokenPosition(x)' - 1 :
             Holds(cache', block_tables'[x], x, p)
  PROVE  EnginesRight'
<1>1. EnginesTyped /\ EngineRecords
  BY DEF EnginesRight
<1>2. /\ Members' = Members /\ Range(Members)' = Range(Members)
      /\ \A x : FinalTokens(x)' = FinalTokens(x)
  BY SameMembers
<1>3. Begun = Range(Members) /\ Begun' = Range(Members) /\ Range(Members) \subseteq Requests
  BY <1>1, <1>2, BegunAre DEF Begun
<1>4. \A x \in Requests : IsRecord(request_state'[x])
  BY <1>1 DEF EnginesTyped
<1>5. EnginesTyped'
  BY <1>1, <1>2, <1>4 DEF EnginesTyped
<1>6. EngineRecords'
  BY <1>1, <1>3 DEF EngineRecords
<1>7. AllBlocksThere' /\ Partition(0 .. EngineBlocks - 1, free_blocks', block_tables')
  <2>1. PICK free, tables : free = free_blocks' /\ tables = block_tables'
    OBVIOUS
  <2>. QED  BY <2>1, PoolNext
<1>8. EngineTables'
  BY <1>2, <1>7 DEF EngineTables
<1>9. EngineCache'
  BY DEF EngineCache, Holds
<1>. QED  BY <1>5, <1>6, <1>7, <1>8, <1>9 DEF EnginesRight

(* The record of r becomes q.                                                *)
OnlyRecord(r, q) ==
  request_state' = [x \in Requests |-> IF x = r THEN q ELSE request_state[x]]

LEMMA ApplyKeeps ==
  ASSUME DInv, Engines!Apply  PROVE DInv'
<1>. DEFINE r == Members[local.position]
            n == Len(Members)
            ending == request_state[r].status # "finished" /\ IsFinished(request_state[r])
<1>1. /\ EnginesTyped /\ EnginesRight /\ EngineRecords /\ EngineTables /\ EngineCache
      /\ local.position \in Nat \ {0} /\ config \in Engines!Configs
  BY DEF DInv, EnginesRight, EnginesTyped
<1>2. /\ phase = "finish" /\ local.position <= n
      /\ config' = config /\ cache' = cache /\ step_metrics' = step_metrics
      /\ Engines!At("finish", local.position + 1)
      /\ IF ending
         THEN /\ request_state' = [request_state EXCEPT ![r] = MarkFinished(@)]
              /\ Engines!KV!Free(r)
         ELSE /\ request_state' = request_state /\ free_blocks' = free_blocks
              /\ block_tables' = block_tables
  BY EngineOperators DEF Engines!Apply, Engines!engine_vars, Engines!kv_vars, Members
<1>3. /\ Members \in Seq(Requests) /\ n \in Nat /\ DOMAIN Members = 1 .. n
      /\ IsInjective(Members) /\ r \in Range(Members)
  <2>1. /\ Members \in Seq(Requests) /\ n \in Nat /\ DOMAIN Members = 1 .. n
        /\ IsInjective(Members)
    BY <1>1, MembersAre, LenProperties
  <2>2. local.position \in 1 .. n
    BY <1>1, <1>2, <2>1
  <2>. QED  BY <2>1, <2>2 DEF Range
<1>4. /\ phase' = "finish" /\ local'.position = local.position + 1
      /\ local' = [position |-> local'.position, decode_batch |-> local'.decode_batch]
  BY <1>1, <1>2, AtIs
<1>5. /\ Members' = Members /\ Range(Members)' = Range(Members)
      /\ \A x : FinalTokens(x)' = FinalTokens(x)
  BY <1>2, SameMembers
<1>6. Begun = Range(Members) /\ Range(Members) \subseteq Requests /\ Begun' = Range(Members)
  BY <1>1, <1>2, <1>4, <1>5, BegunAre DEF Begun
<1>7. WithRoom = {} /\ WithRoom' = {} /\ config.driver # "harness"
  BY <1>1, <1>2, <1>4 DEF WithRoom, EnginesTyped, PhasesOf
<1>8. phase' \in PhasesOf(config.driver) /\ local'.position \in Nat \ {0}
  BY <1>1, <1>2, <1>4 DEF EnginesTyped
<1>9. ToApply \subseteq ToApply' \cup {r}
  <2>1. \A i \in local.position .. n : i = local.position \/ i \in local.position + 1 .. n
    BY <1>1, <1>3
  <2>. HIDE DEF n
  <2>. QED  BY <1>2, <1>4, <1>5, <2>1 DEF ToApply, n
<1>. HIDE DEF r, n, ending
<1>10. ASSUME NEW x \in Begun
       PROVE  /\ BegunRight(x) /\ IsRecord(request_state[x])
              /\ request_state[x].status = "decoding" /\ x \notin ToApply' /\ x # r =>
                   request_state[x].generated_tokens < request_state[x].max_new_tokens
  BY <1>1, <1>9, PositionOf DEF BegunRight
<1>11. CASE ~ ending
  <2>1. request_state[r].status # "finished" =>
          request_state[r].generated_tokens < request_state[r].max_new_tokens
    <3>1. request_state[r].generated_tokens \in Nat /\ request_state[r].max_new_tokens \in Nat
      BY <1>1, <1>3, <1>6, PositionOf
    <3>. QED  BY <1>11, <3>1 DEF ending, IsFinished
  <2>2. \A x \in Working \ ToApply' :
          request_state[x].generated_tokens < request_state[x].max_new_tokens
    BY <1>10, <2>1 DEF Working, BegunRight
  <2>. QED
    <3>1. EnginesRight'
      BY <1>1, <1>2, <1>4, <1>6, <1>7, <1>8, <1>11, <2>2, QuietStep
    <3>. QED  BY <1>2, <1>4, <1>7, <3>1 DEF DInv, HarnessRight, BatchBuilt
<1>12. CASE ending
  <2>. DEFINE q == MarkFinished(request_state[r])
  <2>1. r \in Working /\ r \in Begun /\ r \in Requests
    BY <1>3, <1>6, <1>12 DEF Working, ending
  <2>2. /\ IsRecord(request_state[r]) /\ IsRecord(q) /\ SameLimits(q, request_state[r])
        /\ q.status = "finished" /\ q.generated_tokens = request_state[r].generated_tokens
        /\ q.next_token = request_state[r].next_token
        /\ q.num_computed_tokens = request_state[r].num_computed_tokens
        /\ q.past_length = request_state[r].past_length
    <3>1. IsRecord(request_state[r])
      BY <2>1, <1>10
    <3>2. PICK old : old = request_state[r]
      OBVIOUS
    <3>3. IsRecord(old)
      BY <3>1, <3>2
    <3>. QED  BY <3>2, <3>3, RecordSteps, RecordFieldsAfter
  <2>. HIDE DEF q
  <2>3. OnlyRecord(r, q)
    <3>1. request_state = [x \in Requests |-> request_state[x]]
      BY <1>1 DEF EnginesTyped
    <3>. QED  BY <1>2, <1>12, <2>1, <3>1 DEF OnlyRecord, q
  <2>4. request_state[r].generated_tokens = request_state[r].max_new_tokens
    <3>1. /\ request_state[r].generated_tokens \in 0 .. request_state[r].max_new_tokens
          /\ request_state[r].max_new_tokens \in Nat
      BY <1>1, <2>1, PositionOf DEF BegunRight
    <3>2. request_state[r].generated_tokens >= request_state[r].max_new_tokens
      BY <1>12 DEF ending, IsFinished
    <3>. QED  BY <3>1, <3>2
  <2>5. Working' = Working \ {r}
    BY <1>6, <2>1, <2>2, <2>3 DEF Working, OnlyRecord
  <2>6. /\ Pool(free_blocks', block_tables') /\ DOMAIN block_tables' = Working \ {r}
        /\ \A x \in Working \ {r} : block_tables'[x] = block_tables[x]
    <3>1. PICK free, tables : free = free_blocks /\ tables = block_tables
      OBVIOUS
    <3>2. Pool(free, tables) /\ DOMAIN tables = Working
      BY <1>1, <3>1 DEF Pool, EnginesRight, AllBlocksThere, EngineTables
    <3>3. TakenRight(free, tables, r)
      BY <1>1, <1>3, <2>1, <3>2, TakingKeeps
    <3>4. free_blocks' = free \o tables[r] /\ block_tables' = TakeFrom(tables, r)
      BY <1>2, <1>12, <2>1, <3>1, <3>2 DEF Engines!KV!Free, Engines!KV!Owners, TakeFrom
    <3>. QED  BY <3>1, <3>2, <3>3, <3>4 DEF TakenRight
  <2>7. \A x \in Requests : EngineTokenPosition(x)' = EngineTokenPosition(x)
    BY <2>2, <2>3 DEF EngineTokenPosition, Engines!TokenPosition, OnlyRecord, SameLimits
  <2>8. ASSUME NEW x \in Begun  PROVE IsRecord(request_state'[x]) /\ BegunRight(x)'
    <3>1. x \in Requests /\ BegunRight(x)
      BY <1>6, <1>10, <2>8
    <3>2. CASE x = r
      <4>1. request_state'[x] = q
        BY <2>1, <2>3, <3>2 DEF OnlyRecord
      <4>. QED  BY <1>2, <2>1, <2>2, <2>4, <2>7, <3>1, <3>2, <4>1 DEF BegunRight, SameLimits
    <3>3. CASE x # r
      <4>1. request_state'[x] = request_state[x]
        BY <2>3, <3>1, <3>3 DEF OnlyRecord
      <4>. QED  BY <1>2, <1>10, <2>7, <2>8, <3>1, <3>3, <4>1 DEF BegunRight
    <3>. QED  BY <3>2, <3>3
  <2>9. EnginesRight'
    <3>1. /\ request_state' = [x \in Requests |-> request_state'[x]]
          /\ \A x \in Requests \ Range(Members) : request_state'[x] = request_state[x]
      BY <1>3, <2>3 DEF OnlyRecord
    <3>2. ASSUME NEW x \in Working'
          PROVE  /\ Needed(EngineTokenPosition(x)') <= Len(block_tables'[x])
                 /\ Len(block_tables'[x]) <= Needed(FinalTokens(x))
                 /\ x \notin WithRoom'
      <4>1. x \in Working \ {r} /\ x \in Requests
        BY <1>1, <1>6, <2>5, <3>2, BegunAre
      <4>. QED  BY <1>1, <1>7, <2>6, <2>7, <4>1 DEF EngineTables
    <3>3. config.driver # "hf" =>
            \A x \in Working' : \A p \in 0 .. EngineTokenPosition(x)' - 1 :
              Holds(cache', block_tables'[x], x, p)
      <4>1. \A x \in Working' : x \in Working \ {r} /\ x \in Requests
        BY <1>1, <1>6, <2>5, BegunAre
      <4>. QED  BY <1>1, <1>2, <2>6, <2>7, <4>1 DEF EngineCache
    <3>4. OnCells(cache') /\ DOMAIN block_tables' = Working'
      BY <1>1, <1>2, <2>5, <2>6 DEF EnginesTyped
    <3>. QED
      BY <1>1, <1>2, <1>4, <1>6, <1>8, <2>6, <2>8, <3>1, <3>2, <3>3, <3>4, LoopStep
  <2>. QED  BY <1>2, <1>4, <1>7, <2>9 DEF DInv, HarnessRight, BatchBuilt
<1>. QED  BY <1>11, <1>12

(* One token for everybody: what both engines' decode steps have in common.  *)
LEMMA EverybodyAdvances ==
  ASSUME EnginesRight, config' = config, free_blocks' = free_blocks,
         block_tables' = block_tables, WithRoom = Working, ToApply = {},
         phase \notin {"initialize", "finish"}, config.driver # "harness", phase' = "finish",
         local' = [position |-> local'.position, decode_batch |-> local'.decode_batch],
         local'.position = 1,
         request_state' = [x \in Requests |-> request_state'[x]],
         \A x \in Requests \ Working : request_state'[x] = request_state[x],
         \A x \in Working :
           LET a == request_state[x]
               b == request_state'[x]
           IN  /\ IsRecord(b) /\ SameLimits(b, a) /\ b.status = a.status
               /\ b.generated_tokens = a.generated_tokens + 1
               /\ config.driver = "synthetic" =>
                    /\ b.num_computed_tokens = EngineTokenPosition(x) + 1
                    /\ b.next_token \in Nat
               /\ config.driver = "hf" => b.past_length = a.past_length + 1,
         OnCells(cache'),
         config.driver # "hf" =>
           \A x \in Working : \A p \in 0 .. EngineTokenPosition(x) :
             Holds(cache', block_tables[x], x, p)
  PROVE  EnginesRight'
<1>1. /\ EnginesTyped /\ EngineRecords /\ EngineTables /\ AllBlocksThere
      /\ config \in Engines!Configs
  BY DEF EnginesRight, EnginesTyped
<1>2. /\ Begun = Range(Members) /\ Begun' = Range(Members) /\ Range(Members) \subseteq Requests
      /\ Working \subseteq Range(Members)
  BY <1>1, BegunAre, SameMembers DEF Begun
<1>3. config.driver \in {"synthetic", "hf"} /\ "finish" \in PhasesOf(config.driver)
  BY <1>1, ConfigIs DEF PhasesOf
<1>4. WithRoom' = {} /\ ToApply' = Range(Members)
  <2>1. /\ Members' = Members /\ Members \in Seq(Requests)
        /\ DOMAIN Members = 1 .. Len(Members)
    BY <1>1, MembersAre, LenProperties, SameMembers
  <2>2. WithRoom' = {}
    BY DEF WithRoom
  <2>. QED  BY <2>1, <2>2 DEF ToApply, Range
<1>5. Working' = Working
  <2>1. \A x \in Range(Members) : request_state'[x].status = request_state[x].status
    BY <1>2
  <2>. QED  BY <1>2, <2>1 DEF Working
<1>6. ASSUME NEW x \in Working
      PROVE  /\ EngineTokenPosition(x)' = EngineTokenPosition(x) + 1
             /\ EngineTokenPosition(x) \in Nat
             /\ EngineTokenPosition(x) + 1 <= FinalTokens(x)
             /\ request_state[x].generated_tokens < request_state[x].max_new_tokens
             /\ request_state[x].generated_tokens \in Nat
             /\ request_state[x].max_new_tokens \in Nat /\ BegunRight(x)
             /\ request_state[x].status = "decoding" /\ x \in Requests
  <2>1. /\ x \in Begun /\ BegunRight(x) /\ EngineTokenPosition(x) \in Nat
        /\ request_state[x].generated_tokens < request_state[x].max_new_tokens
        /\ EngineTokenPosition(x) + 1 <= FinalTokens(x)
        /\ request_state[x].generated_tokens \in Nat
        /\ request_state[x].max_new_tokens \in Nat
        /\ config.prompt_tokens \in Nat /\ x \in Requests
    BY <1>1, <1>2, PositionOf
  <2>2. /\ request_state[x].prompt_tokens = config.prompt_tokens
        /\ request_state[x].status = "decoding"
    BY <2>1 DEF BegunRight, Working
  <2>3. /\ request_state'[x].prompt_tokens = request_state[x].prompt_tokens
        /\ request_state'[x].generated_tokens = request_state[x].generated_tokens + 1
    BY DEF SameLimits
  <2>4. EngineTokenPosition(x)' = EngineTokenPosition(x) + 1
    BY <2>1, <2>2, <2>3 DEF EngineTokenPosition, Engines!TokenPosition
  <2>. QED  BY <2>1, <2>2, <2>4
<1>7. ASSUME NEW x \in Range(Members)  PROVE IsRecord(request_state'[x]) /\ BegunRight(x)'
  <2>1. CASE x \in Working
    <3>1. /\ request_state'[x].generated_tokens \in 0 .. request_state'[x].max_new_tokens
          /\ request_state'[x].status = "decoding" /\ x \in ToApply'
      BY <1>4, <1>6, <2>1 DEF SameLimits
    <3>2. BegunRight(x)'
      BY <1>3, <1>6, <2>1, <3>1 DEF BegunRight, SameLimits
    <3>. QED  BY <2>1, <3>2
  <2>2. CASE x \notin Working
    <3>1. /\ request_state'[x] = request_state[x] /\ IsRecord(request_state[x])
          /\ BegunRight(x) /\ request_state[x].status = "finished"
      BY <1>1, <1>2, <2>2 DEF EnginesTyped, EngineRecords, Working
    <3>2. EngineTokenPosition(x)' = EngineTokenPosition(x)
      BY <3>1 DEF EngineTokenPosition, Engines!TokenPosition
    <3>. QED  BY <3>1, <3>2 DEF BegunRight
  <2>. QED  BY <2>1, <2>2
<1>8. Pool(free_blocks', block_tables') /\ DOMAIN block_tables' = Working'
  BY <1>1, <1>5 DEF Pool, AllBlocksThere, EngineTables
<1>9. ASSUME NEW x \in Working'
      PROVE  /\ Needed(EngineTokenPosition(x)') <= Len(block_tables'[x])
             /\ Len(block_tables'[x]) <= Needed(FinalTokens(x))
             /\ x \notin WithRoom'
  BY <1>1, <1>4, <1>5, <1>6 DEF EngineTables
<1>10. config.driver # "hf" =>
         \A x \in Working' : \A p \in 0 .. EngineTokenPosition(x)' - 1 :
           Holds(cache', block_tables'[x], x, p)
  <2>. SUFFICES ASSUME config.driver # "hf", NEW x \in Working,
                       NEW p \in 0 .. EngineTokenPosition(x)' - 1
                PROVE  Holds(cache', block_tables[x], x, p)
    BY <1>5 DEF Holds
  <2>1. p \in 0 .. EngineTokenPosition(x)
    BY <1>6
  <2>. QED  BY <2>1
<1>11. \A x \in Requests \ Range(Members) : request_state'[x] = request_state[x]
  BY <1>2
<1>. QED  BY <1>3, <1>7, <1>8, <1>9, <1>10, <1>11, LoopStep

LEMMA HFDecodeStepKeeps ==
  ASSUME DInv, Engines!HFDecodeStep  PROVE DInv'
<1>1. EnginesRight /\ EnginesTyped /\ EngineRecords
  BY DEF DInv, EnginesRight
<1>2. /\ phase = "decode" /\ free_blocks' = free_blocks /\ block_tables' = block_tables
      /\ config' = config /\ cache' = cache /\ step_metrics' = step_metrics
      /\ Engines!At("finish", 1)
      /\ request_state' = [x \in Requests |->
           IF x \in Engines!Range(Engines!Active) THEN Engines!Emitted(request_state[x])
           ELSE request_state[x]]
  BY DEF Engines!HFDecodeStep, Engines!kv_vars, Engines!engine_vars
<1>3. /\ phase' = "finish" /\ local'.position = 1
      /\ local' = [position |-> local'.position, decode_batch |-> local'.decode_batch]
  BY <1>1, <1>2, AtIs
<1>4. config.driver = "hf"
  BY <1>1, <1>2, ConfigIs DEF EnginesTyped, PhasesOf
<1>5. WithRoom = Working /\ ToApply = {} /\ Engines!Range(Engines!Active) = Working
      /\ Working \subseteq Requests
  BY <1>1, <1>2, <1>4, BegunAre, ActiveAre DEF WithRoom, ToApply, Working
<1>6. request_state' = [x \in Requests |->
        IF x \in Working THEN Emitted(request_state[x]) ELSE request_state[x]]
  BY <1>2, <1>5, EngineOperators
<1>7. ASSUME NEW x \in Working
      PROVE  LET a == request_state[x]
                 b == request_state'[x]
             IN  /\ IsRecord(b) /\ SameLimits(b, a) /\ b.status = a.status
                 /\ b.generated_tokens = a.generated_tokens + 1
                 /\ b.past_length = a.past_length + 1
  <2>1. request_state'[x] = Emitted(request_state[x])
    BY <1>5, <1>6
  <2>2. PICK old : old = request_state[x]
    OBVIOUS
  <2>3. IsRecord(old)
    BY <1>1, <1>5, <2>2 DEF EnginesTyped
  <2>. QED  BY <2>1, <2>2, <2>3, RecordSteps, RecordFieldsAfter
<1>8. EnginesRight'
  <2>1. /\ request_state' = [x \in Requests |-> request_state'[x]]
        /\ \A x \in Requests \ Working : request_state'[x] = request_state[x]
    BY <1>6
  <2>2. OnCells(cache')
    BY <1>1, <1>2 DEF EnginesTyped
  <2>. QED  BY <1>1, <1>2, <1>3, <1>4, <1>5, <1>7, <2>1, <2>2, EverybodyAdvances
<1>. QED  BY <1>2, <1>3, <1>4, <1>8 DEF DInv, HarnessRight, BatchBuilt

LEMMA SyntheticDecodeStepKeeps ==
  ASSUME DInv, Engines!SyntheticDecodeStep  PROVE DInv'
<1>. DEFINE s == Engines!Active
            w == Engines!SyntheticWrites(s)
            at == [i \in 1 .. Len(s) |-> EngineTokenPosition(s[i])]
<1>1. EnginesRight /\ EnginesTyped /\ EngineRecords /\ EngineTables /\ EngineCache
  BY DEF DInv, EnginesRight
<1>2. /\ phase = "attended" /\ config.driver = "synthetic"
      /\ free_blocks' = free_blocks /\ block_tables' = block_tables
      /\ config' = config /\ step_metrics' = step_metrics
      /\ cache' = Engines!Pool!AfterWrites(cache, w)
      /\ Engines!At("finish", 1)
      /\ request_state' = [x \in Requests |->
           IF x \in Engines!Range(s)
           THEN [Engines!Generated(request_state[x], block_tables[x]) EXCEPT
                   !.num_computed_tokens = EngineTokenPosition(x) + 1]
           ELSE request_state[x]]
  BY DEF Engines!SyntheticDecodeStep, Engines!kv_vars, EngineTokenPosition
<1>3. /\ phase' = "finish" /\ local'.position = 1
      /\ local' = [position |-> local'.position, decode_batch |-> local'.decode_batch]
  BY <1>1, <1>2, AtIs
<1>4. WithRoom = Working /\ ToApply = {} /\ Engines!Range(s) = Working
      /\ Working \subseteq Requests /\ s \in Seq(Requests)
      /\ DOMAIN s = 1 .. Len(s) /\ Len(s) \in Nat /\ Range(s) = Working
  BY <1>1, <1>2, BegunAre, ActiveAre DEF WithRoom, ToApply, Working
<1>5. w = [i \in DOMAIN s |-> TokenWrite(block_tables, s, at, i)]
      /\ DOMAIN w = 1 .. Len(s)
  <2>1. \A i \in DOMAIN s : TokenWrite(block_tables, s, at, i) =
          Engines!Pool!Write(0, block_tables[s[i]], EngineTokenPosition(s[i]),
                             Engines!Token(s[i], EngineTokenPosition(s[i])))
    BY <1>4 DEF TokenWrite
  <2>2. w = [i \in DOMAIN s |->
               Engines!Pool!Write(0, block_tables[s[i]], EngineTokenPosition(s[i]),
                                  Engines!Token(s[i], EngineTokenPosition(s[i])))]
    BY DEF Engines!SyntheticWrites, EngineTokenPosition
  <2>. HIDE DEF s, w, at
  <2>. QED  BY <1>4, <2>1, <2>2
<1>6. /\ Len(w) = Len(s)
      /\ \A i \in 1 .. Len(s) : w[i] = TokenWrite(block_tables, s, at, i)
  <2>. HIDE DEF s, w, at
  <2>1. \A i \in 1 .. Len(s) : w[i] = TokenWrite(block_tables, s, at, i)
    BY <1>4, <1>5
  <2>. QED  BY <1>4, <1>5, <2>1
<1>7. ASSUME NEW x \in Working, NEW p \in 0 .. EngineTokenPosition(x)
      PROVE  EngineReaches(block_tables[x], p) /\ EngineTokenPosition(x) \in Nat
  <2>1. EngineTokenPosition(x) \in Nat
    BY <1>1, BegunAre, PositionOf DEF Working
  <2>2. /\ Needed(EngineTokenPosition(x) + 1) <= Len(block_tables[x])
        /\ Len(block_tables[x]) \in Nat
    BY <1>1, <1>4, TablesTyped DEF EngineTables
  <2>3. EngineTokenPosition(x) + 1 \in Nat /\ p \in 0 .. EngineTokenPosition(x) + 1 - 1
    BY <2>1
  <2>. QED  BY <2>1, <2>2, <2>3, InRoom
<1>8. /\ OnCells(cache')
      /\ \A x \in Working : \A p \in 0 .. EngineTokenPosition(x) :
           Holds(cache', block_tables[x], x, p)
  <2>1. PICK free, tables, c, who, to, v :
          /\ free = free_blocks /\ tables = block_tables /\ c = cache
          /\ who = s /\ to = at /\ v = w
    OBVIOUS
  <2>2. /\ Partition(0 .. EngineBlocks - 1, free, tables) /\ OnCells(c)
        /\ DOMAIN tables = Working
    BY <1>1, <2>1 DEF EngineTables, EnginesTyped
  <2>3. \A i \in 1 .. Len(s) : /\ s[i] \in Working
                               /\ EngineReaches(block_tables[s[i]], at[i])
    <3>. SUFFICES ASSUME NEW i \in 1 .. Len(s)
                  PROVE  s[i] \in Working /\ EngineReaches(block_tables[s[i]], at[i])
      OBVIOUS
    <3>1. s[i] \in Working /\ at[i] = EngineTokenPosition(s[i])
      <4>1. at[i] = EngineTokenPosition(s[i])
        OBVIOUS
      <4>. HIDE DEF s, at
      <4>. QED  BY <1>4, <4>1 DEF Range
    <3>. HIDE DEF s, at
    <3>2. EngineTokenPosition(s[i]) \in Nat
      BY <1>1, <3>1, BegunAre, PositionOf DEF Working
    <3>. QED  BY <1>7, <3>1, <3>2
  <2>. HIDE DEF s, w, at
  <2>4. Len(v) \in Nat /\ Len(v) = Len(s)
    BY <1>4, <1>6, <2>1
  <2>5. \A i \in 1 .. Len(v) : /\ who[i] \in DOMAIN tables
                               /\ EngineReaches(tables[who[i]], to[i])
                               /\ v[i] = TokenWrite(tables, who, to, i)
    BY <1>6, <2>1, <2>2, <2>3, <2>4
  <2>. DEFINE a == Engines!Pool!AfterWrites(c, v)
  <2>6. /\ OnCells(a)
        /\ \A x \in DOMAIN tables : \A p :
             /\ EngineReaches(tables[x], p)
             /\ \/ \E i \in 1 .. Len(v) : who[i] = x /\ to[i] = p
                \/ Holds(c, tables[x], x, p)
             => Holds(a, tables[x], x, p)
    BY <2>2, <2>4, <2>5, EngineWritesLand
  <2>7. cache' = a
    BY <1>2, <2>1
  <2>. HIDE DEF a
  <2>8. ASSUME NEW x \in Working, NEW p \in 0 .. EngineTokenPosition(x)
        PROVE  Holds(a, tables[x], x, p)
    <3>1. EngineReaches(tables[x], p) /\ EngineTokenPosition(x) \in Nat
      BY <1>7, <2>1
    <3>2. CASE p = EngineTokenPosition(x)
      <4>1. PICK i \in 1 .. Len(s) : s[i] = x
        BY <1>4 DEF Range
      <4>2. at[i] = p
        BY <3>2, <4>1 DEF at
      <4>. QED  BY <2>1, <2>2, <2>4, <2>6, <3>1, <4>1, <4>2
    <3>3. CASE p \in 0 .. EngineTokenPosition(x) - 1
      <4>1. Holds(cache, block_tables[x], x, p)
        BY <1>1, <1>2, <3>3 DEF EngineCache
      <4>. QED  BY <2>1, <2>2, <2>6, <3>1, <4>1
    <3>. QED  BY <3>1, <3>2, <3>3
  <2>. QED  BY <2>1, <2>6, <2>7, <2>8
<1>. HIDE DEF s, w, at
<1>9. ASSUME NEW x \in Working
      PROVE  LET a == request_state[x]
                 b == request_state'[x]
             IN  /\ IsRecord(b) /\ SameLimits(b, a) /\ b.status = a.status
                 /\ b.generated_tokens = a.generated_tokens + 1
                 /\ b.num_computed_tokens = EngineTokenPosition(x) + 1
                 /\ b.next_token \in Nat
  <2>1. PICK old, table, n : /\ old = request_state[x] /\ table = block_tables[x]
                             /\ n = EngineTokenPosition(x) + 1
    OBVIOUS
  <2>2. IsRecord(old) /\ old.generated_tokens \in Nat
    BY <1>1, <1>4, <2>1, BegunAre, PositionOf DEF EnginesTyped, Working
  <2>3. request_state'[x] = [Engines!Generated(old, table) EXCEPT !.num_computed_tokens = n]
    BY <1>2, <1>4, <2>1
  <2>4. PICK q : q = Engines!Generated(old, table)
    OBVIOUS
  <2>5. /\ IsRecord(q) /\ SameLimits(q, old) /\ q.status = old.status
        /\ q.generated_tokens = old.generated_tokens + 1
        /\ q.next_token = old.generated_tokens + 1
    BY <2>2, <2>4, RecordSteps, RecordFieldsAfter
  <2>6. LET b == [q EXCEPT !.num_computed_tokens = n]
        IN  /\ IsRecord(b) /\ SameLimits(b, q) /\ b.status = q.status
            /\ b.generated_tokens = q.generated_tokens /\ b.next_token = q.next_token
            /\ b.num_computed_tokens = n
    <3>1. q = [f \in RecordFields |-> q[f]]
      BY <2>5 DEF IsRecord
    <3>. QED  BY <3>1 DEF IsRecord, SameLimits, RecordFields
  <2>. QED  BY <2>1, <2>2, <2>3, <2>4, <2>5, <2>6 DEF SameLimits
<1>10. EnginesRight'
  <2>1. /\ request_state' = [x \in Requests |-> request_state'[x]]
        /\ \A x \in Requests \ Working : request_state'[x] = request_state[x]
    BY <1>2, <1>4
  <2>. QED  BY <1>1, <1>2, <1>3, <1>4, <1>8, <1>9, <2>1, EverybodyAdvances
<1>. QED  BY <1>2, <1>3, <1>10 DEF DInv, HarnessRight, BatchBuilt

(* What one request of the harness's loop does to the blocks and the cache:  *)
(* given are the tables with room for its token, which is then written.      *)
AdvancedCache(r, c) ==
  /\ OnCells(c)
  /\ \A x \in Working : \A p \in 0 .. EngineTokenPosition(x) - 1 :
       Holds(c, RoomyTables(r)[x], x, p)
  /\ Holds(c, RoomyTables(r)[r], r, EngineTokenPosition(r))

LEMMA TokenLands ==
  ASSUME EnginesRight, config.driver # "hf", NEW r \in Working,
         request_state[r].generated_tokens < request_state[r].max_new_tokens,
         Engines!WriteTokens(RoomyTables(r)[r], r, <<EngineTokenPosition(r)>>)
  PROVE  AdvancedCache(r, cache')
<1>1. PICK free, tables, c, n :
        free = RoomyFree(r) /\ tables = RoomyTables(r) /\ c = cache /\ n = EngineTokenPosition(r)
  OBVIOUS
<1>2. /\ EnginesTyped /\ EngineRecords /\ EngineTables /\ EngineCache /\ OnCells(cache)
  BY DEF EnginesRight, EnginesTyped
<1>3. n \in Nat
  BY <1>1, <1>2, BegunAre, PositionOf DEF Working
<1>4. /\ Pool(free, tables) /\ DOMAIN tables = Working
      /\ Needed(n + 1) <= Len(tables[r]) /\ Len(tables[r]) \in Nat
      /\ \A x \in Working : \A p \in 0 .. EngineTokenPosition(x) - 1 :
           /\ EngineReaches(tables[x], p)
           /\ Holds(c, block_tables[x], x, p) => Holds(c, tables[x], x, p)
  BY <1>1, RoomGiven
<1>5. EngineReaches(tables[r], n)
  <2>1. n + 1 \in Nat /\ n \in 0 .. n + 1 - 1
    BY <1>3
  <2>. QED  BY <1>4, <2>1, InRoom
<1>. DEFINE v == [i \in DOMAIN <<n>> |->
                    Engines!Pool!Write(0, tables[r], <<n>>[i], Engines!Token(r, <<n>>[i]))]
<1>6. cache' = Engines!Pool!AfterWrites(c, v)
  BY <1>1 DEF Engines!WriteTokens
<1>7. PICK who, at : who = <<r>> /\ at = <<n>>
  OBVIOUS
<1>8. Len(v) = 1 /\ v[1] = TokenWrite(tables, who, at, 1)
  <2>1. DOMAIN <<n>> = 1 .. 1 /\ <<n>>[1] = n /\ <<r>>[1] = r
    OBVIOUS
  <2>2. v[1] = Engines!Pool!Write(0, tables[r], n, Engines!Token(r, n))
    BY <2>1
  <2>3. Len(v) = 1
    BY <2>1
  <2>. HIDE DEF v
  <2>4. who[1] = r /\ at[1] = n
    BY <1>7, <2>1
  <2>5. TokenWrite(tables, who, at, 1) = Engines!Pool!Write(0, tables[r], n, Engines!Token(r, n))
    BY <2>4 DEF TokenWrite
  <2>. QED  BY <2>2, <2>3, <2>5
<1>. HIDE DEF v
<1>9. PICK w : w = v
  OBVIOUS
<1>10. \A i \in 1 .. Len(w) : /\ who[i] \in DOMAIN tables
                              /\ EngineReaches(tables[who[i]], at[i])
                              /\ w[i] = TokenWrite(tables, who, at, i)
  <2>. SUFFICES ASSUME NEW i \in 1 .. Len(w)
                PROVE  /\ who[i] \in DOMAIN tables
                       /\ EngineReaches(tables[who[i]], at[i])
                       /\ w[i] = TokenWrite(tables, who, at, i)
    OBVIOUS
  <2>1. i = 1
    <3>1. Len(w) = 1
      BY <1>8, <1>9
    <3>. QED  BY <3>1
  <2>2. who[1] = r /\ at[1] = n
    BY <1>7
  <2>. QED  BY <1>4, <1>5, <1>8, <1>9, <2>1, <2>2
<1>. DEFINE a == Engines!Pool!AfterWrites(c, w)
<1>11. Partition(0 .. EngineBlocks - 1, free, tables) /\ OnCells(c) /\ Len(w) \in Nat
  BY <1>1, <1>2, <1>4, <1>8, <1>9 DEF Pool
<1>12. /\ OnCells(a)
       /\ \A x \in DOMAIN tables : \A p :
            /\ EngineReaches(tables[x], p)
            /\ \/ \E i \in 1 .. Len(w) : who[i] = x /\ at[i] = p
               \/ Holds(c, tables[x], x, p)
            => Holds(a, tables[x], x, p)
  BY <1>10, <1>11, EngineWritesLand
<1>13. cache' = a
  BY <1>6, <1>9
<1>. HIDE DEF a
<1>14. Holds(a, tables[r], r, n)
  <2>1. 1 \in 1 .. Len(w)
    <3>1. Len(w) = 1
      BY <1>8, <1>9
    <3>. QED  BY <3>1
  <2>2. who[1] = r /\ at[1] = n
    BY <1>7
  <2>. QED  BY <1>4, <1>5, <1>12, <2>1, <2>2
<1>15. ASSUME NEW x \in Working, NEW p \in 0 .. EngineTokenPosition(x) - 1
       PROVE  Holds(a, tables[x], x, p)
  <2>1. Holds(cache, block_tables[x], x, p)
    BY <1>2 DEF EngineCache
  <2>2. EngineReaches(tables[x], p) /\ Holds(c, tables[x], x, p)
    BY <1>1, <1>4, <2>1
  <2>3. x \in DOMAIN tables
    BY <1>4
  <2>. QED  BY <1>12, <2>2, <2>3
<1>. QED  BY <1>1, <1>12, <1>13, <1>14, <1>15 DEF AdvancedCache

LEMMA HarnessAdvanceKeeps ==
  ASSUME DInv, Engines!HarnessAdvance  PROVE DInv'
<1>0. PICK r : r = Members[local.position]
  OBVIOUS
<1>. DEFINE n == Len(Members)
            p == EngineTokenPosition(r)
            k == Len(step_metrics)
            given == RoomyTables(r)
            q == Engines!Generated(request_state[r], given[r])
            m == Engines!KV!MissingBlocks(r, p)
<1>1. /\ EnginesTyped /\ EnginesRight /\ EngineRecords /\ EngineTables /\ EngineCache
      /\ local.position \in Nat \ {0} /\ config \in Engines!Configs
  BY DEF DInv, EnginesRight, EnginesTyped
<1>2. phase = "attended" /\ config.driver = "harness"
  BY DEF Engines!HarnessAdvance
<1>3. Lockstep /\ StepRecords
  BY <1>2 DEF DInv, HarnessRight
<1>4. local.decode_batch.request_ids = Members
  BY <1>2, <1>3 DEF Lockstep
<1>5. local.position <= n /\ config' = config /\ step_metrics' = step_metrics
  BY <1>4 DEF Engines!HarnessAdvance
<1>6. /\ Members \in Seq(Requests) /\ n \in Nat /\ DOMAIN Members = 1 .. n
      /\ IsInjective(Members) /\ local.position \in 1 .. n
  BY <1>1, <1>5, MembersAre, LenProperties
<1>7. /\ Begun = Range(Members) /\ Range(Members) \subseteq Requests /\ r \in Range(Members)
      /\ ToApply = {}
  <2>1. r \in Range(Members)
    BY <1>0, <1>6 DEF Range
  <2>2. ToApply = {}
    BY <1>2 DEF ToApply
  <2>. QED  BY <1>1, <1>2, <2>1, <2>2, BegunAre
<1>8. k \in Nat
  BY <1>3, LenProperties DEF StepRecords
<1>9. /\ request_state[r].generated_tokens = k
      /\ request_state[r].status = "finished"
           <=> request_state[r].generated_tokens = request_state[r].max_new_tokens
  <2>1. /\ request_state[r].generated_tokens =
             k + (IF phase = "attended" /\ local.position < local.position THEN 1 ELSE 0)
        /\ request_state[r].status = "finished"
             <=> request_state[r].generated_tokens = request_state[r].max_new_tokens
    BY <1>0, <1>3, <1>6 DEF Lockstep
  <2>. QED  BY <1>1, <1>8, <2>1
<1>10. /\ request_state[r].max_new_tokens = config.max_new_tokens[r] /\ r \in Requests
       /\ config.max_new_tokens[r] \in Nat /\ IsRecord(request_state[r])
       /\ request_state[r].prompt_tokens = config.prompt_tokens
  BY <1>1, <1>7, PositionOf DEF BegunRight
<1>11. /\ k < request_state[r].max_new_tokens /\ request_state[r].status # "finished"
       /\ r \in Working
  <2>1. k < request_state[r].max_new_tokens
    BY <1>2, <1>3, <1>10 DEF Lockstep
  <2>. QED  BY <1>7, <1>8, <1>9, <1>10, <2>1 DEF Working
<1>. HIDE DEF n, p, k, given, q, m
<1>12. /\ Pool(RoomyFree(r), given) /\ DOMAIN given = Working
       /\ given[r] = block_tables[r] \o Engines!KV!FirstFree(m)
       /\ Needed(p + 1) <= Len(given[r]) /\ Len(given[r]) <= Needed(FinalTokens(r))
       /\ Len(given[r]) \in Nat
       /\ \A x \in Working \ {r} : given[x] = block_tables[x]
       /\ Engines!KV!EnsureCapacityForToken(r, p) =>
            free_blocks' = RoomyFree(r) /\ block_tables' = given
  BY <1>1, <1>9, <1>11, RoomGiven DEF given, m, p
<1>13. /\ Engines!WriteTokens(given[r], r, <<p>>)
       /\ IF Engines!IsFinished(q)
          THEN /\ request_state' = [request_state EXCEPT ![r] = Engines!MarkFinished(q)]
               /\ free_blocks' = Engines!KV!AfterPop(m) \o given[r]
               /\ block_tables' = [x \in Engines!KV!Owners \ {r} |-> block_tables[x]]
          ELSE /\ request_state' = [request_state EXCEPT ![r] = q]
               /\ Engines!KV!EnsureCapacityForToken(r, p)
       /\ Engines!At("attended", local.position + 1)
  <2>1. local.decode_batch.request_ids[local.position] = r
    BY <1>0, <1>4
  <2>2. Engines!TokenPosition(r) = p
    BY DEF p, EngineTokenPosition
  <2>. QED  BY <1>12, <2>1, <2>2 DEF Engines!HarnessAdvance, q, m
<1>14. AdvancedCache(r, cache')
  BY <1>1, <1>2, <1>9, <1>11, <1>13, TokenLands DEF given, p
<1>15. /\ phase' = "attended" /\ local'.position = local.position + 1
       /\ local'.decode_batch = local.decode_batch
       /\ local' = [position |-> local'.position, decode_batch |-> local'.decode_batch]
  BY <1>1, <1>13, AtIs
<1>16. /\ Members' = Members /\ Range(Members)' = Range(Members)
       /\ \A x : FinalTokens(x)' = FinalTokens(x)
  BY <1>5, SameMembers
<1>17. /\ IsRecord(q) /\ q.status = request_state[r].status
       /\ q.prompt_tokens = request_state[r].prompt_tokens
       /\ q.max_new_tokens = request_state[r].max_new_tokens
       /\ q.generated_tokens = k + 1 /\ q.next_token \in Nat
  <2>1. PICK old, table : old = request_state[r] /\ table = given[r]
    OBVIOUS
  <2>2. IsRecord(old)
    BY <1>10, <2>1
  <2>3. /\ IsRecord(Engines!Generated(old, table))
        /\ Engines!Generated(old, table).status = old.status
        /\ SameLimits(Engines!Generated(old, table), old)
        /\ Engines!Generated(old, table).generated_tokens = old.generated_tokens + 1
        /\ Engines!Generated(old, table).next_token = old.generated_tokens + 1
    BY <2>2, RecordSteps, RecordFieldsAfter
  <2>4. q = Engines!Generated(old, table)
    BY <2>1 DEF q
  <2>. QED  BY <1>8, <1>9, <2>1, <2>3, <2>4 DEF SameLimits
<1>. DEFINE over == k + 1 = request_state[r].max_new_tokens
            after == IF over THEN MarkFinished(q) ELSE q
<1>18. Engines!IsFinished(q) <=> over
  <2>1. Engines!IsFinished(q) <=> q.generated_tokens >= q.max_new_tokens
    BY EngineOperators DEF IsFinished
  <2>. QED  BY <1>8, <1>10, <1>11, <1>17, <2>1
<1>19. OnlyRecord(r, after)
  <2>1. request_state = [x \in Requests |-> request_state[x]]
    BY <1>1 DEF EnginesTyped
  <2>2. Engines!MarkFinished(q) = MarkFinished(q)
    BY EngineOperators
  <2>. QED  BY <1>13, <1>18, <2>1, <2>2 DEF OnlyRecord
<1>. HIDE DEF over
<1>20. /\ IsRecord(after)
       /\ after.prompt_tokens = config.prompt_tokens
       /\ after.max_new_tokens = config.max_new_tokens[r]
       /\ after.generated_tokens = k + 1 /\ after.next_token \in Nat
       /\ after.status = IF over THEN "finished" ELSE "decoding"
  <2>1. request_state[r].status = "decoding"
    BY <1>1, <1>7, <1>11 DEF EngineRecords, BegunRight
  <2>2. /\ IsRecord(MarkFinished(q)) /\ MarkFinished(q).status = "finished"
        /\ SameLimits(MarkFinished(q), q)
        /\ MarkFinished(q).generated_tokens = q.generated_tokens
        /\ MarkFinished(q).next_token = q.next_token
    BY <1>17, RecordSteps, RecordFieldsAfter
  <2>3. CASE over
    BY <1>10, <1>17, <2>2, <2>3 DEF SameLimits
  <2>4. CASE ~ over
    BY <1>10, <1>17, <2>1, <2>4
  <2>. QED  BY <2>3, <2>4
<1>. HIDE DEF after
<1>21. /\ request_state'[r] = after
       /\ \A x \in Requests \ {r} : request_state'[x] = request_state[x]
       /\ request_state' = [x \in Requests |-> request_state'[x]]
  BY <1>10, <1>19 DEF OnlyRecord
<1>22. /\ EngineTokenPosition(r)' = p + 1 /\ p \in Nat
       /\ \A x \in Requests \ {r} : EngineTokenPosition(x)' = EngineTokenPosition(x)
  <2>1. \A x \in Requests \ {r} : EngineTokenPosition(x)' = EngineTokenPosition(x)
    BY <1>21 DEF EngineTokenPosition, Engines!TokenPosition
  <2>2. p = config.prompt_tokens + k /\ config.prompt_tokens \in Nat
    BY <1>1, <1>7, <1>9, PositionOf DEF p
  <2>3. EngineTokenPosition(r)' = config.prompt_tokens + (k + 1)
    BY <1>20, <1>21 DEF EngineTokenPosition, Engines!TokenPosition
  <2>. QED  BY <1>8, <2>1, <2>2, <2>3
<1>23. Working' = IF over THEN Working \ {r} ELSE Working
  <2>1. Begun' = Range(Members)
    BY <1>15, <1>16 DEF Begun
  <2>. QED  BY <1>7, <1>11, <1>20, <1>21, <2>1 DEF Working
<1>24. /\ Pool(free_blocks', block_tables') /\ DOMAIN block_tables' = Working'
       /\ \A x \in Working' : block_tables'[x] = given[x]
  <2>1. CASE over
    <3>1. PICK free, tables : free = RoomyFree(r) /\ tables = given
      OBVIOUS
    <3>2. Pool(free, tables) /\ DOMAIN tables = Working
      BY <1>12, <3>1
    <3>3. TakenRight(free, tables, r)
      BY <1>1, <1>7, <1>11, <3>2, TakingKeeps
    <3>4. free_blocks' = free \o tables[r]
      <4>1. Engines!KV!AfterPop(m) = RoomyFree(r)
        BY DEF Engines!KV!AfterPop, Engines!KV!FreeBlockCount, RoomyFree, m, p
      <4>. QED  BY <1>13, <1>18, <2>1, <3>1, <4>1
    <3>5. block_tables' = TakeFrom(tables, r)
      <4>1. DOMAIN block_tables = Working
        BY <1>1 DEF EngineTables
      <4>2. block_tables' = [x \in Working \ {r} |-> block_tables[x]]
        BY <1>13, <1>18, <2>1, <4>1 DEF Engines!KV!Owners
      <4>. QED  BY <1>12, <3>1, <3>2, <4>2 DEF TakeFrom
    <3>. QED  BY <1>23, <2>1, <3>1, <3>2, <3>3, <3>4, <3>5 DEF TakenRight
  <2>2. CASE ~ over
    BY <1>12, <1>13, <1>18, <1>23, <2>2
  <2>. QED  BY <2>1, <2>2
<1>25. ASSUME NEW x \in Range(Members)  PROVE IsRecord(request_state'[x]) /\ BegunRight(x)'
  <2>1. CASE x = r
    <3>1. after.generated_tokens \in 0 .. after.max_new_tokens
      BY <1>8, <1>10, <1>11, <1>20
    <3>2. over => after.generated_tokens = after.max_new_tokens
      BY <1>8, <1>10, <1>11, <1>20 DEF over
    <3>3. ~ over => after.generated_tokens < after.max_new_tokens
      BY <1>8, <1>10, <1>11, <1>20 DEF over
    <3>. QED  BY <1>2, <1>5, <1>20, <1>21, <2>1, <3>1, <3>2, <3>3 DEF BegunRight
  <2>2. CASE x # r
    <3>1. /\ x \in Requests /\ BegunRight(x) /\ IsRecord(request_state[x])
          /\ request_state'[x] = request_state[x] /\ x \notin ToApply
      BY <1>1, <1>7, <1>21, <2>2, PositionOf
    <3>. QED  BY <1>2, <1>5, <3>1 DEF BegunRight
  <2>. QED  BY <2>1, <2>2
<1>26. ASSUME NEW x \in Working'
       PROVE  /\ Needed(EngineTokenPosition(x)') <= Len(block_tables'[x])
              /\ Len(block_tables'[x]) <= Needed(FinalTokens(x))
              /\ x \notin WithRoom'
  <2>1. x \in Working /\ x \in Requests /\ block_tables'[x] = given[x]
    BY <1>1, <1>7, <1>23, <1>24, BegunAre
  <2>2. WithRoom' = {}
    BY <1>2, <1>5, <1>15 DEF WithRoom
  <2>3. CASE x = r
    BY <1>12, <1>22, <2>1, <2>2, <2>3
  <2>4. CASE x # r
    BY <1>1, <1>12, <1>22, <2>1, <2>2, <2>4 DEF EngineTables
  <2>. QED  BY <2>3, <2>4
<1>27. ASSUME NEW x \in Working', NEW t \in 0 .. EngineTokenPosition(x)' - 1
       PROVE  Holds(cache', block_tables'[x], x, t)
  <2>1. x \in Working /\ x \in Requests /\ block_tables'[x] = given[x]
    BY <1>1, <1>7, <1>23, <1>24, BegunAre
  <2>2. CASE x = r
    <3>1. t \in 0 .. p - 1 \/ t = p
      BY <1>22, <2>2
    <3>. QED  BY <1>14, <2>1, <2>2, <3>1 DEF AdvancedCache, given, p
  <2>3. CASE x # r
    BY <1>14, <1>22, <2>1, <2>3 DEF AdvancedCache, given
  <2>. QED  BY <2>2, <2>3
<1>28. EnginesRight'
  <2>1. phase' \in PhasesOf(config.driver) \ {"initialize", "done"}
    BY <1>2, <1>15 DEF PhasesOf
  <2>2. /\ local'.position \in Nat \ {0} /\ OnCells(cache')
        /\ \A x \in Requests \ Range(Members) : request_state'[x] = request_state[x]
    BY <1>1, <1>7, <1>14, <1>15, <1>21 DEF AdvancedCache
  <2>. QED  BY <1>1, <1>2, <1>5, <1>15, <1>21, <1>24, <1>25, <1>26, <1>27, <2>1, <2>2, LoopStep
<1>29. Lockstep'
  <2>1. ASSUME NEW i \in 1 .. n
        PROVE  LET x == request_state'[Members[i]]
               IN  /\ x.generated_tokens = k + (IF i < local.position + 1 THEN 1 ELSE 0)
                   /\ x.status = "finished" <=> x.generated_tokens = x.max_new_tokens
    <3>1. CASE i = local.position
      <4>1. Members[i] = r
        BY <1>0, <3>1
      <4>2. over <=> after.generated_tokens = after.max_new_tokens
        BY <1>8, <1>10, <1>20 DEF over
      <4>. QED  BY <1>1, <1>8, <1>20, <1>21, <3>1, <4>1, <4>2
    <3>2. CASE i # local.position
      <4>1. Members[i] # r /\ Members[i] \in Requests
        BY <1>0, <1>6, <3>2 DEF IsInjective
      <4>2. LET x == request_state[Members[i]]
            IN  /\ x.generated_tokens = k + (IF i < local.position THEN 1 ELSE 0)
                /\ x.status = "finished" <=> x.generated_tokens = x.max_new_tokens
        BY <1>2, <1>3, <2>1 DEF Lockstep, n, k
      <4>3. i < local.position <=> i < local.position + 1
        BY <1>1, <1>6, <3>2
      <4>. QED  BY <1>21, <4>1, <4>2, <4>3
    <3>. QED  BY <3>1, <3>2
  <2>2. local.position + 1 <= n + 1
    BY <1>5, <1>6
  <2>3. \A x \in Requests : k < config.max_new_tokens[x]
    BY <1>2, <1>3 DEF Lockstep, k
  <2>. QED  BY <1>4, <1>5, <1>15, <1>16, <2>1, <2>2, <2>3 DEF Lockstep, n, k
<1>30. StepRecords' /\ BatchBuilt'
  <2>1. StepRecords'
    BY <1>3, <1>5 DEF StepRecords, StepRecord
  <2>2. local'.position # 1
    BY <1>1, <1>15
  <2>. QED  BY <2>1, <2>2 DEF BatchBuilt
<1>. QED  BY <1>28, <1>29, <1>30 DEF DInv, HarnessRight

-----------------------------------------------------------------------------
(* Initialization *)

(* The record of a request whose blocks are allocated.                       *)
InitialRecord(c, r, table) ==
  LET q == Engines!NewRequest(c, r)
  IN  IF c.driver = "hf"
      THEN [Engines!Prefilled(q) EXCEPT !.block_table = table]
      ELSE [Engines!MarkDecoding(q) EXCEPT !.block_table = table, !.next_token = 0,
              !.num_computed_tokens =
                IF c.driver = "synthetic" THEN c.prompt_tokens ELSE 0]

LEMMA InitialRecordIs ==
  ASSUME config \in Engines!Configs, NEW r \in Requests, NEW table
  PROVE  LET q == InitialRecord(config, r, table)
         IN  /\ IsRecord(q) /\ q.status = "decoding" /\ q.generated_tokens = 0
             /\ q.prompt_tokens = config.prompt_tokens
             /\ q.max_new_tokens = config.max_new_tokens[r]
             /\ config.driver = "hf" => q.past_length = config.prompt_tokens
             /\ config.driver # "hf" => q.next_token = 0
             /\ config.driver = "synthetic" => q.num_computed_tokens = config.prompt_tokens
<1>1. PICK old, n : /\ old = Engines!NewRequest(config, r)
                    /\ n = IF config.driver = "synthetic" THEN config.prompt_tokens ELSE 0
  OBVIOUS
<1>2. /\ IsRecord(old)
      /\ old.prompt = config.prompt_tokens /\ old.prompt_tokens = config.prompt_tokens
      /\ old.max_new_tokens = config.max_new_tokens[r] /\ old.generated_tokens = 0
  BY <1>1, NewRequestIs
<1>3. old = [f \in RecordFields |-> old[f]]
  BY <1>2 DEF IsRecord
<1>. DEFINE F == RecordFields
            hf == [Prefilled(old) EXCEPT !.block_table = table]
            other == [MarkDecoding(old) EXCEPT !.block_table = table, !.next_token = 0,
                        !.num_computed_tokens = n]
<1>4. /\ hf = [f \in F |-> hf[f]] /\ hf.status = "decoding" /\ hf.generated_tokens = 0
      /\ hf.prompt_tokens = config.prompt_tokens
      /\ hf.max_new_tokens = config.max_new_tokens[r]
      /\ hf.past_length = config.prompt_tokens
  BY <1>2, <1>3 DEF RecordFields, Prefilled, MarkDecoding, CountPromptTokens
<1>5. /\ other = [f \in F |-> other[f]] /\ other.status = "decoding"
      /\ other.generated_tokens = 0 /\ other.prompt_tokens = config.prompt_tokens
      /\ other.max_new_tokens = config.max_new_tokens[r] /\ other.next_token = 0
      /\ other.num_computed_tokens = n
  BY <1>2, <1>3 DEF RecordFields, MarkDecoding
<1>6. InitialRecord(config, r, table) = IF config.driver = "hf" THEN hf ELSE other
  <2>1. /\ Engines!Prefilled(old) = Prefilled(old)
        /\ Engines!MarkDecoding(old) = MarkDecoding(old)
    BY EngineOperators
  <2>. QED  BY <1>1, <2>1 DEF InitialRecord
<1>. HIDE DEF hf, other
<1>. QED  BY <1>1, <1>4, <1>5, <1>6 DEF IsRecord

(* The prompt of r has K/V; nobody else's cells changed.                     *)
LEMMA PromptLands ==
  ASSUME NEW free, NEW tables, Partition(0 .. EngineBlocks - 1, free, tables),
         NEW r \in DOMAIN tables, OnCells(cache), request_state[r].prompt_tokens \in Nat,
         Needed(request_state[r].prompt_tokens) <= Len(tables[r]),
         Engines!FillPromptKV(r, tables[r])
  PROVE  /\ OnCells(cache')
         /\ \A x \in DOMAIN tables : \A p :
              /\ EngineReaches(tables[x], p)
              /\ (x = r /\ p \in 0 .. request_state[r].prompt_tokens - 1)
                   \/ Holds(cache, tables[x], x, p)
              => Holds(cache', tables[x], x, p)
<1>1. PICK n, c : n = request_state[r].prompt_tokens /\ c = cache
  OBVIOUS
<1>2. tables[r] \in Seq(0 .. EngineBlocks - 1) /\ Len(tables[r]) \in Nat /\ n \in Nat
  <2>1. tables[r] \in Seq(0 .. EngineBlocks - 1)
    BY DEF Partition
  <2>. QED  BY <1>1, <2>1, LenProperties
<1>3. \A p \in 0 .. n - 1 : EngineReaches(tables[r], p)
  BY <1>1, <1>2, InRoom
<1>. DEFINE at == [i \in 1 .. n |-> i - 1]
            who == [i \in 1 .. n |-> r]
            w == [i \in 1 .. n |->
                    Engines!Pool!Write(0, tables[r], at[i], Engines!Token(r, at[i]))]
<1>4. cache' = Engines!Pool!AfterWrites(c, w)
  <2>1. DOMAIN at = 1 .. n
    OBVIOUS
  <2>. HIDE DEF at
  <2>. QED
    <3>1. Engines!WriteTokens(tables[r], r, at)
      BY <1>1 DEF Engines!FillPromptKV, at
    <3>. QED  BY <1>1, <2>1, <3>1 DEF Engines!WriteTokens
<1>5. /\ Len(w) = n
      /\ \A i \in 1 .. n : /\ at[i] = i - 1 /\ who[i] = r
                           /\ w[i] = TokenWrite(tables, who, at, i)
  <2>1. Len(w) = n
    BY <1>2
  <2>2. \A i \in 1 .. n : /\ at[i] = i - 1 /\ who[i] = r
                          /\ w[i] = Engines!Pool!Write(0, tables[r], at[i], Engines!Token(r, at[i]))
    OBVIOUS
  <2>. HIDE DEF at, who, w
  <2>. QED  BY <2>1, <2>2 DEF TokenWrite
<1>. HIDE DEF at, who, w
<1>6. PICK v, whose, to : v = w /\ whose = who /\ to = at
  OBVIOUS
<1>7. \A i \in 1 .. Len(v) : /\ whose[i] \in DOMAIN tables
                             /\ EngineReaches(tables[whose[i]], to[i])
                             /\ v[i] = TokenWrite(tables, whose, to, i)
  <2>. SUFFICES ASSUME NEW i \in 1 .. n
                PROVE  /\ who[i] \in DOMAIN tables
                       /\ EngineReaches(tables[who[i]], at[i])
                       /\ w[i] = TokenWrite(tables, who, at, i)
    BY <1>5, <1>6
  <2>1. i - 1 \in 0 .. n - 1
    BY <1>2
  <2>. QED  BY <1>3, <1>5, <2>1
<1>. DEFINE a == Engines!Pool!AfterWrites(c, v)
<1>8. OnCells(c) /\ Len(v) \in Nat
  BY <1>1, <1>2, <1>5, <1>6
<1>9. /\ OnCells(a)
      /\ \A x \in DOMAIN tables : \A p :
           /\ EngineReaches(tables[x], p)
           /\ \/ \E i \in 1 .. Len(v) : whose[i] = x /\ to[i] = p
              \/ Holds(c, tables[x], x, p)
           => Holds(a, tables[x], x, p)
  BY <1>7, <1>8, EngineWritesLand
<1>10. cache' = a
  BY <1>4, <1>6
<1>. HIDE DEF a
<1>11. \A p \in 0 .. n - 1 : \E i \in 1 .. Len(v) : whose[i] = r /\ to[i] = p
  <2>. SUFFICES ASSUME NEW p \in 0 .. n - 1
                PROVE  \E i \in 1 .. n : who[i] = r /\ at[i] = p
    BY <1>5, <1>6
  <2>1. p + 1 \in 1 .. n /\ p + 1 - 1 = p
    BY <1>2
  <2>. QED  BY <1>5, <2>1
<1>. QED  BY <1>1, <1>9, <1>10, <1>11

LEMMA InitializeKeeps ==
  ASSUME DInv, Engines!Initialize  PROVE DInv'
<1>0. PICK r : r = Members[local.position]
  OBVIOUS
<1>. DEFINE n == Len(Members)
            k == Needed(config.prompt_tokens)
            q == InitialRecord(config, r, block_tables'[r])
<1>1. /\ EnginesTyped /\ EnginesRight /\ EngineRecords /\ EngineTables /\ EngineCache
      /\ local.position \in Nat \ {0} /\ config \in Engines!Configs
      /\ OnCells(cache)
  BY DEF DInv, EnginesRight, EnginesTyped
<1>2. /\ phase = "initialize" /\ local.position <= n
      /\ config' = config /\ step_metrics' = step_metrics
      /\ Engines!At("initialize", local.position + 1)
      /\ Engines!KV!AllocateForTokens(r, request_state[r].prompt_tokens)
      /\ config.driver # "hf" => Engines!FillPromptKV(r, block_tables'[r])
      /\ config.driver = "hf" => cache' = cache
  BY <1>0 DEF Engines!Initialize, Members
<1>3. /\ Members \in Seq(Requests) /\ n \in Nat /\ DOMAIN Members = 1 .. n
      /\ IsInjective(Members) /\ local.position \in 1 .. n
  BY <1>1, <1>2, MembersAre, LenProperties
<1>4. /\ r \in Range(Members) /\ r \in Requests /\ r \notin Begun
      /\ Begun = {Members[i] : i \in 1 .. local.position - 1}
  <2>1. Begun = {Members[i] : i \in 1 .. local.position - 1}
    BY <1>2 DEF Begun
  <2>2. \A i \in 1 .. local.position - 1 : i \in 1 .. n /\ i # local.position
    BY <1>3
  <2>. QED  BY <1>0, <1>3, <2>1, <2>2 DEF Range, IsInjective
<1>5. request_state[r] = Engines!NewRequest(config, r)
  BY <1>1, <1>4 DEF EngineRecords
<1>6. /\ request_state[r].prompt_tokens = config.prompt_tokens
      /\ config.prompt_tokens \in Nat \ {0} /\ config.max_new_tokens[r] \in Nat \ {0}
      /\ FinalTokens(r) = config.prompt_tokens + config.max_new_tokens[r]
      /\ request_state[r].generated_tokens = 0
  BY <1>1, <1>4, <1>5, NewRequestIs, ConfigIs DEF FinalTokens
<1>7. /\ k \in Nat /\ k <= Needed(FinalTokens(r))
  <2>1. /\ config.prompt_tokens \in Nat /\ FinalTokens(r) \in Nat
        /\ config.prompt_tokens <= FinalTokens(r)
    BY <1>6
  <2>. QED  BY <2>1, NeededProperties
<1>8. /\ phase' = "initialize" /\ local'.position = local.position + 1
      /\ local' = [position |-> local'.position, decode_batch |-> local'.decode_batch]
  BY <1>1, <1>2, AtIs
<1>9. /\ Members' = Members /\ Range(Members)' = Range(Members)
      /\ \A x : FinalTokens(x)' = FinalTokens(x)
  BY <1>2, SameMembers
<1>10. Begun' = Begun \cup {r}
  <2>1. Begun' = {Members[i] : i \in 1 .. local.position}
    <3>1. Begun' = {Members'[i] : i \in 1 .. local'.position - 1}
      BY <1>8 DEF Begun
    <3>2. 1 .. local'.position - 1 = 1 .. local.position
      BY <1>1, <1>8
    <3>. QED  BY <1>9, <3>1, <3>2
  <2>2. 1 .. local.position = 1 .. local.position - 1 \cup {local.position}
    BY <1>1
  <2>. QED  BY <1>0, <1>4, <2>1, <2>2
<1>. HIDE DEF n, k, q
<1>11. OnlyRecord(r, q)
  <2>1. request_state = [x \in Requests |-> request_state[x]]
    BY <1>1 DEF EnginesTyped
  <2>2. request_state' = [request_state EXCEPT ![r] = q]
    <3>1. CASE config.driver = "hf"
      BY <1>0, <1>5, <3>1 DEF Engines!Initialize, InitialRecord, q, Members
    <3>2. CASE config.driver # "hf"
      BY <1>0, <1>5, <3>2 DEF Engines!Initialize, InitialRecord, q, Members
    <3>. QED  BY <3>1, <3>2
  <2>. QED  BY <1>4, <2>1, <2>2 DEF OnlyRecord
<1>12. /\ IsRecord(q) /\ q.status = "decoding" /\ q.generated_tokens = 0
       /\ q.prompt_tokens = config.prompt_tokens
       /\ q.max_new_tokens = config.max_new_tokens[r]
       /\ config.driver = "hf" => q.past_length = config.prompt_tokens
       /\ config.driver # "hf" => q.next_token = 0
       /\ config.driver = "synthetic" => q.num_computed_tokens = config.prompt_tokens
  <2>1. PICK table : table = block_tables'[r]
    OBVIOUS
  <2>. QED  BY <1>1, <1>4, <2>1, InitialRecordIs DEF q
<1>13. /\ request_state'[r] = q
       /\ \A x \in Requests \ {r} : request_state'[x] = request_state[x]
       /\ request_state' = [x \in Requests |-> request_state'[x]]
  BY <1>4, <1>11 DEF OnlyRecord
<1>14. Working' = Working \cup {r} /\ r \notin Working /\ Working \subseteq Requests
  <2>1. Begun \subseteq Requests
    BY <1>1, BegunAre
  <2>. QED  BY <1>4, <1>10, <1>12, <1>13, <2>1 DEF Working
<1>15. /\ EngineTokenPosition(r)' = config.prompt_tokens
       /\ \A x \in Requests \ {r} : EngineTokenPosition(x)' = EngineTokenPosition(x)
  <2>1. EngineTokenPosition(r)' = config.prompt_tokens + 0
    BY <1>12, <1>13 DEF EngineTokenPosition, Engines!TokenPosition
  <2>2. \A x \in Requests \ {r} : EngineTokenPosition(x)' = EngineTokenPosition(x)
    BY <1>13 DEF EngineTokenPosition, Engines!TokenPosition
  <2>. QED  BY <1>6, <2>1, <2>2
<1>16. /\ Pool(free_blocks', block_tables') /\ DOMAIN block_tables' = Working'
       /\ Len(block_tables'[r]) = k
       /\ \A x \in Working : block_tables'[x] = block_tables[x]
  <2>1. PICK free, tables, m : free = free_blocks /\ tables = block_tables /\ m = k
    OBVIOUS
  <2>2. /\ r \notin DOMAIN tables /\ m <= Len(free)
        /\ free_blocks' = SubSeq(free, m + 1, Len(free))
        /\ block_tables' = [x \in DOMAIN tables \cup {r} |->
                              IF x = r THEN SubSeq(free, 1, m) ELSE tables[x]]
    <3>1. Engines!KV!AllocateBlocks(r, k)
      BY <1>2, <1>6 DEF Engines!KV!AllocateForTokens, k, Needed
    <3>2. k <= Len(free_blocks)
      <4>1. Len(free_blocks) >= k
        BY <3>1 DEF Engines!KV!AllocateBlocks, Engines!KV!CanAllocateBlocks,
           Engines!KV!FreeBlockCount
      <4>. QED  BY <1>1, <1>7, <4>1, TablesTyped
    <3>. QED
      BY <2>1, <3>1, <3>2 DEF Engines!KV!AllocateBlocks, Engines!KV!FreeBlockCount,
         Engines!KV!AfterPop, Engines!KV!FirstFree, Engines!KV!Owners
  <2>3. Pool(free, tables) /\ DOMAIN tables = Working /\ m \in 0 .. Len(free)
    <3>1. Pool(free, tables) /\ DOMAIN tables = Working /\ Len(free) \in Nat
      BY <1>1, <2>1, TablesTyped DEF Pool, EnginesRight, AllBlocksThere, EngineTables
    <3>. QED  BY <1>7, <2>1, <2>2, <3>1
  <2>4. GivenRight(free, tables, r, m)
    BY <1>1, <1>4, <2>3, GivingKeeps
  <2>. DEFINE first == SubSeq(free, 1, m)
              given == GiveTo(tables, r, first)
  <2>5. TableIn(tables, r) = << >>
    BY <2>2 DEF TableIn
  <2>6. /\ Pool(free_blocks', given) /\ DOMAIN given = Working'
        /\ Len(given[r]) = Len(TableIn(tables, r)) + m
        /\ given[r] = TableIn(tables, r) \o first /\ first \in Seq(0 .. EngineBlocks - 1)
        /\ \A x \in Working \ {r} : given[x] = tables[x]
    BY <1>14, <2>2, <2>3, <2>4 DEF GivenRight
  <2>. HIDE DEF first
  <2>7. TableIn(tables, r) \o first = first
    BY <2>5, <2>6, ConcatEmptySeq
  <2>8. given = [x \in DOMAIN tables \cup {r} |-> IF x = r THEN first ELSE tables[x]]
    BY <2>7 DEF GiveTo
  <2>9. block_tables' = given
    BY <2>2, <2>8 DEF first
  <2>. HIDE DEF given
  <2>. QED  BY <1>7, <1>14, <2>1, <2>5, <2>6, <2>9
<1>17. EnginesTyped'
  <2>1. \A x \in Requests : IsRecord(request_state'[x])
    BY <1>1, <1>12, <1>13 DEF EnginesTyped
  <2>2. local'.position \in Nat \ {0} /\ local'.position <= Len(Members) + 1
    BY <1>2, <1>3, <1>8 DEF n
  <2>3. OnCells(cache')
    <3>1. CASE config.driver = "hf"
      BY <1>1, <1>2, <3>1
    <3>2. CASE config.driver # "hf"
      <4>1. PICK free, tables : free = free_blocks' /\ tables = block_tables'
        OBVIOUS
      <4>2. /\ Partition(0 .. EngineBlocks - 1, free, tables) /\ r \in DOMAIN tables
            /\ Needed(request_state[r].prompt_tokens) <= Len(tables[r])
        BY <1>6, <1>7, <1>14, <1>16, <4>1 DEF Pool, k
      <4>. QED  BY <1>1, <1>2, <1>6, <3>2, <4>1, <4>2, PromptLands
    <3>. QED  BY <3>1, <3>2
  <2>. QED  BY <1>1, <1>2, <1>8, <1>9, <1>13, <2>1, <2>2, <2>3 DEF EnginesTyped
<1>18. ToApply = {} /\ ToApply' = {} /\ WithRoom' = {}
  BY <1>2, <1>8 DEF ToApply, WithRoom
<1>19. EngineRecords'
  <2>1. ASSUME NEW x \in Begun'  PROVE BegunRight(x)'
    <3>1. CASE x = r
      <4>1. q.generated_tokens \in 0 .. q.max_new_tokens /\ q.generated_tokens < q.max_new_tokens
        BY <1>6, <1>12
      <4>. QED  BY <1>2, <1>12, <1>13, <1>15, <3>1, <4>1 DEF BegunRight
    <3>2. CASE x # r
      <4>1. x \in Begun /\ x \in Requests /\ BegunRight(x)
        BY <1>1, <1>10, <3>2, BegunAre DEF EngineRecords
      <4>. QED  BY <1>2, <1>13, <1>15, <1>18, <3>2, <4>1 DEF BegunRight
    <3>. QED  BY <3>1, <3>2
  <2>2. \A x \in Requests \ Begun' : request_state'[x] = Engines!NewRequest(config', x)
    BY <1>1, <1>2, <1>10, <1>13 DEF EngineRecords
  <2>. QED  BY <1>8, <2>1, <2>2 DEF EngineRecords
<1>20. AllBlocksThere' /\ Partition(0 .. EngineBlocks - 1, free_blocks', block_tables')
  <2>1. PICK free, tables : free = free_blocks' /\ tables = block_tables'
    OBVIOUS
  <2>. QED  BY <1>2, <1>16, <2>1, PoolNext
<1>21. EngineTables'
  <2>1. ASSUME NEW x \in Working'
        PROVE  /\ Needed(EngineTokenPosition(x)') <= Len(block_tables'[x])
               /\ Len(block_tables'[x]) <= Needed(FinalTokens(x))
    <3>1. CASE x = r
      BY <1>7, <1>15, <1>16, <3>1 DEF k
    <3>2. CASE x # r
      BY <1>1, <1>14, <1>15, <1>16, <3>2 DEF EngineTables
    <3>. QED  BY <3>1, <3>2
  <2>. QED  BY <1>9, <1>16, <1>18, <1>20, <2>1 DEF EngineTables
<1>22. EngineCache'
  <2>. SUFFICES ASSUME config.driver # "hf", NEW x \in Working',
                       NEW p \in 0 .. EngineTokenPosition(x)' - 1
                PROVE  Holds(cache', block_tables'[x], x, p)
    BY <1>2 DEF EngineCache, Holds
  <2>1. PICK free, tables : free = free_blocks' /\ tables = block_tables'
    OBVIOUS
  <2>2. /\ Partition(0 .. EngineBlocks - 1, free, tables) /\ r \in DOMAIN tables
        /\ Needed(request_state[r].prompt_tokens) <= Len(tables[r])
        /\ DOMAIN tables = Working' /\ k = Len(tables[r])
    BY <1>6, <1>7, <1>14, <1>16, <2>1 DEF Pool, k
  <2>3. \A y \in DOMAIN tables : \A t :
          /\ EngineReaches(tables[y], t)
          /\ (y = r /\ t \in 0 .. request_state[r].prompt_tokens - 1)
               \/ Holds(cache, tables[y], y, t)
          => Holds(cache', tables[y], y, t)
    BY <1>1, <1>2, <1>6, <2>1, <2>2, PromptLands
  <2>4. CASE x = r
    <3>1. p \in 0 .. config.prompt_tokens - 1
      BY <1>15, <2>4
    <3>2. EngineReaches(tables[r], p)
      <4>1. config.prompt_tokens \in Nat /\ Len(tables[r]) \in Nat
        BY <1>6, <1>7, <2>2
      <4>. QED  BY <1>6, <2>2, <3>1, <4>1, InRoom
    <3>. QED  BY <1>6, <2>1, <2>2, <2>3, <2>4, <3>1, <3>2
  <2>5. CASE x # r
    <3>1. x \in Working /\ tables[x] = block_tables[x]
      BY <1>14, <1>16, <2>1, <2>5
    <3>2. p \in 0 .. EngineTokenPosition(x) - 1
      BY <1>14, <1>15, <2>5, <3>1
    <3>3. EngineReaches(block_tables[x], p) /\ Holds(cache, block_tables[x], x, p)
      BY <1>1, <3>1, <3>2, Reached DEF EngineCache
    <3>. QED  BY <2>1, <2>2, <2>3, <3>1, <3>3
  <2>. QED  BY <2>4, <2>5
<1>23. HarnessRight'
  <2>. SUFFICES ASSUME config.driver = "harness"  PROVE (Lockstep /\ StepRecords)'
    BY <1>2 DEF HarnessRight
  <2>1. Lockstep /\ StepRecords
    BY DEF DInv, HarnessRight
  <2>2. StepRecords'
    BY <1>2, <2>1 DEF StepRecords, StepRecord
  <2>3. ASSUME NEW i \in 1 .. n
        PROVE  LET x == request_state'[Members[i]]
               IN  /\ x.generated_tokens = Len(step_metrics) + 0
                   /\ x.status = "finished" <=> x.generated_tokens = x.max_new_tokens
    <3>1. LET x == request_state[Members[i]]
          IN  /\ x.generated_tokens = Len(step_metrics) + 0
              /\ x.status = "finished" <=> x.generated_tokens = x.max_new_tokens
      BY <1>2, <2>1, <2>3 DEF Lockstep, n
    <3>2. CASE Members[i] = r
      <4>1. Len(step_metrics) + 0 = 0
        BY <1>6, <3>1, <3>2
      <4>2. q.generated_tokens # q.max_new_tokens
        BY <1>6, <1>12
      <4>. QED  BY <1>12, <1>13, <3>2, <4>1, <4>2
    <3>3. CASE Members[i] # r
      <4>1. Members[i] \in Requests
        BY <1>3
      <4>. QED  BY <1>13, <3>1, <3>3, <4>1
    <3>. QED  BY <3>2, <3>3
  <2>4. Lockstep'
    BY <1>2, <1>8, <1>9, <2>3 DEF Lockstep, n
  <2>. QED  BY <2>2, <2>4
<1>24. BatchBuilt'
  BY <1>8 DEF BatchBuilt
<1>. QED  BY <1>17, <1>19, <1>20, <1>21, <1>22, <1>23, <1>24 DEF DInv, EnginesRight

-----------------------------------------------------------------------------
(* All behaviours *)

LEMMA EnginesInit ==
  ASSUME MCInit, running = "engines"  PROVE DInv
<1>0. Engines!Init
  BY DEF MCInit
<1>1. /\ config \in Engines!Configs /\ phase = "initialize" /\ step_metrics = << >>
      /\ request_state = [r \in Requests |-> Engines!NewRequest(config, r)]
      /\ local = [position |-> 1, decode_batch |-> Engines!NoDecodeBatch]
      /\ cache = Engines!Pool!ZeroCache /\ Engines!KV!Init
  BY <1>0 DEF Engines!Init
<1>2. /\ config.driver \in {"harness", "synthetic", "hf"}
      /\ \A r \in Requests : config.max_new_tokens[r] \in Nat \ {0}
      /\ Members \in Seq(Requests) /\ DOMAIN Members = 1 .. Len(Members) /\ Len(Members) \in Nat
  BY <1>1, ConfigIs, MembersAre, LenProperties
<1>3. Begun = {} /\ Working = {} /\ ToApply = {} /\ WithRoom = {}
  <2>1. Begun = {Members[i] : i \in 1 .. 1 - 1}
    BY <1>1 DEF Begun
  <2>2. 1 .. 1 - 1 = {}
    OBVIOUS
  <2>3. Begun = {}
    BY <2>1, <2>2
  <2>. QED  BY <1>1, <2>3 DEF Working, ToApply, WithRoom
<1>4. EnginesTyped
  <2>1. \A r \in Requests : IsRecord(request_state[r])
    BY <1>1, NewRequestIs
  <2>2. OnCells(cache)
    BY <1>1 DEF OnCells, EngineCells, Engines!Pool!ZeroCache
  <2>3. phase \in PhasesOf(config.driver)
    BY <1>1, <1>2 DEF PhasesOf
  <2>4. /\ local.position = 1
        /\ local = [position |-> local.position, decode_batch |-> local.decode_batch]
    BY <1>1
  <2>5. 1 <= Len(Members) + 1
    BY <1>2
  <2>. QED  BY <1>1, <2>1, <2>2, <2>3, <2>4, <2>5 DEF EnginesTyped
<1>5. EngineRecords
  BY <1>1, <1>3 DEF EngineRecords
<1>6. /\ Partition(0 .. EngineBlocks - 1, free_blocks, block_tables)
      /\ DOMAIN block_tables = {} /\ Len(free_blocks) = EngineBlocks
  <2>1. free_blocks = [i \in 1 .. EngineBlocks |-> i - 1] /\ block_tables = [r \in {} |-> << >>]
    BY <1>1 DEF Engines!KV!Init
  <2>2. /\ free_blocks \in Seq(0 .. EngineBlocks - 1) /\ Len(free_blocks) = EngineBlocks
        /\ DOMAIN free_blocks = 1 .. EngineBlocks
        /\ \A i \in 1 .. EngineBlocks : free_blocks[i] = i - 1
    BY <2>1, EngineAssumption
  <2>3. /\ IsInjective(free_blocks)
        /\ \A b \in 0 .. EngineBlocks - 1 : b \in Range(free_blocks)
    <3>1. \A b \in 0 .. EngineBlocks - 1 :
            b + 1 \in 1 .. EngineBlocks /\ free_blocks[b + 1] = b
      BY <2>2, EngineAssumption
    <3>2. \A i, j \in 1 .. EngineBlocks : free_blocks[i] = free_blocks[j] => i = j
      BY <2>2
    <3>3. IsInjective(free_blocks)
      BY <2>2, <3>2 DEF IsInjective
    <3>. QED  BY <2>2, <3>1, <3>3 DEF Range
  <2>4. DOMAIN block_tables = {} /\ block_tables \in [{} -> Seq(0 .. EngineBlocks - 1)]
    BY <2>1
  <2>. QED  BY <2>2, <2>3, <2>4 DEF Partition
<1>7. EngineTables
  BY <1>3, <1>6 DEF EngineTables
<1>8. AllBlocksThere
  <2>. DEFINE S == Range(Members)
              w == Owned(block_tables)
  <2>1. w \in [S -> Nat]
    BY <1>6, OwnedTyped
  <2>2. \A x \in S : w[x] = 0
    <3>1. \A x : TableIn(block_tables, x) = << >>
      BY <1>6 DEF TableIn
    <3>. QED  BY <3>1, EmptySeq DEF Owned
  <2>3. IsFiniteSet(S)
    BY <1>1, ServedAre
  <2>4. EngineBlocks \in Nat
    BY EngineAssumption
  <2>. HIDE DEF S, w
  <2>5. SumFunctionOnSet(w, S) = 0
    BY <2>1, <2>2, <2>3, SumOfZeros
  <2>6. Len(free_blocks) + SumFunctionOnSet(w, S) = EngineBlocks
    BY <1>6, <2>4, <2>5
  <2>. QED  BY <2>6 DEF AllBlocksThere, AllThere, S, w
<1>9. EngineCache
  BY <1>3 DEF EngineCache
<1>10. HarnessRight
  <2>. SUFFICES ASSUME config.driver = "harness"  PROVE Lockstep /\ StepRecords
    BY DEF HarnessRight
  <2>1. Len(step_metrics) = 0 /\ step_metrics \in Seq(Range(step_metrics))
        /\ DOMAIN step_metrics = {}
    BY <1>1, EmptySeq
  <2>2. ASSUME NEW i \in 1 .. Len(Members)
        PROVE  /\ request_state[Members[i]].generated_tokens = 0 + 0
               /\ request_state[Members[i]].status # "finished"
               /\ request_state[Members[i]].max_new_tokens \in Nat \ {0}
    <3>1. PICK r \in Requests : r = Members[i]
      BY <1>2
    <3>2. request_state[r] = Engines!NewRequest(config, r)
      BY <1>1
    <3>. QED  BY <1>1, <1>2, <3>1, <3>2, NewRequestIs
  <2>3. Lockstep
    BY <1>1, <2>1, <2>2 DEF Lockstep
  <2>. QED  BY <2>1, <2>3 DEF StepRecords
<1>11. BatchBuilt
  BY <1>1 DEF BatchBuilt
<1>. QED  BY <1>4, <1>5, <1>7, <1>8, <1>9, <1>10, <1>11 DEF DInv, EnginesRight

LEMMA DInvKept ==
  ASSUME DInv, [Engines!Step]_(Engines!vars)  PROVE DInv'
<1>1. CASE Engines!Step
  <2>1. CASE Engines!Initialize
    BY <2>1, InitializeKeeps
  <2>2. CASE Engines!BeginIteration
    BY <2>2, BeginIterationKeeps
  <2>3. CASE Engines!Build
    BY <2>3, BuildKeeps
  <2>4. CASE Engines!HarnessAdvance
    BY <2>4, HarnessAdvanceKeeps
  <2>5. CASE Engines!Ensure
    BY <2>5, EnsureKeeps
  <2>6. CASE Engines!Ensured
    BY <2>6, EnsuredKeeps
  <2>7. CASE Engines!SyntheticDecodeStep
    BY <2>7, SyntheticDecodeStepKeeps
  <2>8. CASE Engines!HFDecodeStep
    BY <2>8, HFDecodeStepKeeps
  <2>9. CASE Engines!Apply
    BY <2>9, ApplyKeeps
  <2>10. CASE Engines!EndIteration
    BY <2>10, EndIterationKeeps
  <2>. QED
    BY <1>1, <2>1, <2>2, <2>3, <2>4, <2>5, <2>6, <2>7, <2>8, <2>9, <2>10 DEF Engines!Step
<1>2. CASE UNCHANGED Engines!vars
  <2>1. /\ request_state' = request_state /\ phase' = phase /\ local' = local
        /\ free_blocks' = free_blocks /\ block_tables' = block_tables
        /\ config' = config /\ cache' = cache /\ step_metrics' = step_metrics
    BY <1>2 DEF Engines!vars, Engines!kv_vars, Engines!engine_vars
  <2>2. Members' = Members /\ Engines!Active' = Engines!Active
    BY <2>1 DEF Members, Engines!Members, Engines!Active
  <2>3. /\ Begun' = Begun /\ Working' = Working /\ ToApply' = ToApply /\ WithRoom' = WithRoom
    BY <2>1, <2>2 DEF Begun, Working, ToApply, WithRoom
  <2>4. /\ \A r : EngineTokenPosition(r)' = EngineTokenPosition(r)
        /\ \A r : FinalTokens(r)' = FinalTokens(r)
    BY <2>1 DEF EngineTokenPosition, Engines!TokenPosition, FinalTokens
  <2>5. EnginesTyped' /\ EngineRecords'
    BY <2>1, <2>2, <2>3, <2>4
       DEF DInv, EnginesRight, EnginesTyped, EngineRecords, BegunRight, OnCells, IsRecord
  <2>6. EngineTables' /\ AllBlocksThere' /\ EngineCache'
    BY <2>1, <2>2, <2>3, <2>4
       DEF DInv, EnginesRight, EngineTables, AllBlocksThere, AllThere, Owned, EngineCache, Holds
  <2>7. HarnessRight' /\ BatchBuilt'
    BY <2>1, <2>2 DEF DInv, HarnessRight, BatchBuilt, Lockstep, StepRecords, StepRecord
  <2>. QED  BY <2>5, <2>6, <2>7 DEF DInv, EnginesRight
<1>. QED  BY <1>1, <1>2

(* A step of a behaviour in which an engine runs is one of the engine.       *)
LEMMA EnginesRunAlone ==
  ASSUME [MCNext]_mc_vars
  PROVE  running' = running /\ (running = "engines" => [Engines!Step]_(Engines!vars))
<1>1. CASE MCStep
  BY <1>1 DEF MCStep, ContinuousRuns, StaticRuns, EnginesRun
<1>2. ASSUME NEW r \in Requests, MCSubmit(r)
      PROVE  running' = running /\ running # "engines"
  BY <1>2 DEF MCSubmit, ContinuousRuns, StaticRuns
<1>3. CASE UNCHANGED mc_vars
  BY <1>3 DEF mc_vars, vars, slot_vars, kv_vars, engine_vars, Engines!vars, Engines!kv_vars,
     Engines!engine_vars
<1>. QED  BY <1>1, <1>2, <1>3 DEF MCNext, EnginesDone

-----------------------------------------------------------------------------
(* No request is short of a block, and each gets exactly its tokens *)

LEMMA EmittedSteps ==
  ASSUME NEW q, IsRecord(q), q.past_length \in Nat, q.generated_tokens \in Nat, NEW i \in Nat
  PROVE  LET after(j) == [q EXCEPT !.past_length = q.past_length + j,
                                   !.generated_tokens = q.generated_tokens + j]
         IN  after(0) = q /\ Emitted(after(i)) = after(i + 1)
<1>1. PICK p, g : p = q.past_length /\ g = q.generated_tokens
  OBVIOUS
<1>2. p \in Nat /\ g \in Nat /\ p + 0 = p /\ g + 0 = g
      /\ p + i + 1 = p + (i + 1) /\ g + i + 1 = g + (i + 1)
  BY <1>1
<1>3. q = [f \in RecordFields |-> q[f]]
  BY DEF IsRecord
<1>. DEFINE F == RecordFields
            a(j) == [f \in F |-> IF f = "past_length" THEN p + j
                                 ELSE IF f = "generated_tokens" THEN g + j ELSE q[f]]
<1>4. \A j : [q EXCEPT !.past_length = p + j, !.generated_tokens = g + j] = a(j)
  BY <1>3
<1>5. a(0) = q
  BY <1>1, <1>2, <1>3
<1>6. Emitted(a(i)) = a(i + 1)
  <2>1. {"past_length", "generated_tokens"} \subseteq F
    BY DEF RecordFields
  <2>. HIDE DEF F
  <2>2. Emitted(a(i)) = [f \in F |-> IF f = "past_length" THEN p + i + 1
                                     ELSE IF f = "generated_tokens" THEN g + i + 1 ELSE q[f]]
    BY <2>1 DEF Emitted
  <2>. QED  BY <1>2, <2>2
<1>. HIDE DEF a
<1>. QED  BY <1>1, <1>4, <1>5, <1>6

(* decode_from_prefill computes one position for each token it is asked for. *)
LEMMA DecodedFromPrefill ==
  ASSUME NEW q, IsRecord(q), q.past_length \in Nat, q.generated_tokens \in Nat, NEW n \in Nat
  PROVE  Engines!DecodeFromPrefill(q, n).past_length = q.past_length + n
<1>. DEFINE Rec(f) == f = [i \in 0 .. n |-> IF i = 0 THEN q ELSE Emitted(f[i - 1])]
            after(j) == [q EXCEPT !.past_length = q.past_length + j,
                                  !.generated_tokens = q.generated_tokens + j]
            g == [i \in 0 .. n |-> after(i)]
            f == CHOOSE h : Rec(h)
<1>1. after(0) = q /\ \A i \in Nat : Emitted(after(i)) = after(i + 1)
  BY EmittedSteps
<1>2. \A i \in 0 .. n : after(i).past_length = q.past_length + i
  BY DEF IsRecord, RecordFields
<1>. HIDE DEF after
<1>3. Rec(g)
  <2>1. \A i \in 1 .. n : after(i) = Emitted(g[i - 1])
    <3>. SUFFICES ASSUME NEW i \in 1 .. n  PROVE after(i) = Emitted(g[i - 1])
      OBVIOUS
    <3>1. i - 1 \in 0 .. n /\ i - 1 \in Nat /\ i - 1 + 1 = i
      OBVIOUS
    <3>2. g[i - 1] = after(i - 1)
      BY <3>1
    <3>. QED  BY <1>1, <3>1, <3>2
  <2>2. \A i \in 0 .. n : after(i) = IF i = 0 THEN q ELSE Emitted(g[i - 1])
    BY <1>1, <2>1
  <2>. QED  BY <2>2
<1>4. Rec(f)
  BY <1>3
<1>5. Engines!DecodeFromPrefill(q, n) = f[n]
  <2>1. \A x : Engines!Emitted(x) = Emitted(x)
    BY EngineOperators
  <2>. QED  BY <2>1 DEF Engines!DecodeFromPrefill
<1>. HIDE DEF f, g
<1>6. f[0] = q /\ \A i \in 1 .. n : f[i] = Emitted(f[i - 1])
  BY <1>4
<1>7. f[n] = after(n)
  <2>. DEFINE S == {i \in 0 .. n : f[i] = after(i)}
  <2>1. 0 \in S
    BY <1>1, <1>6
  <2>2. ASSUME NEW i \in 0 .. n - 1, i \in S  PROVE i + 1 \in S
    <3>1. i + 1 \in 1 .. n /\ i + 1 - 1 = i /\ i \in Nat
      OBVIOUS
    <3>2. f[i + 1] = Emitted(f[i])
      <4>1. f[i + 1] = Emitted(f[i + 1 - 1])
        BY <1>6, <3>1
      <4>. QED  BY <3>1, <4>1
    <3>. QED  BY <1>1, <2>2, <3>1, <3>2
  <2>. HIDE DEF S
  <2>3. \A i \in 0 .. n : i \in S
    BY <2>1, <2>2, CountingUp
  <2>. QED  BY <2>3 DEF S
<1>. QED  BY <1>2, <1>5, <1>7

(* Whose turn it is in the harness's loop has still a token to get.          *)
LEMMA HarnessNext ==
  ASSUME DInv, phase = "attended", config.driver = "harness",
         local.position <= Len(local.decode_batch.request_ids)
  PROVE  LET r == local.decode_batch.request_ids[local.position]
         IN  /\ r \in Working
             /\ request_state[r].generated_tokens < request_state[r].max_new_tokens
<1>1. PICK r : r = local.decode_batch.request_ids[local.position]
  OBVIOUS
<1>2. /\ EnginesTyped /\ EngineRecords /\ Lockstep /\ StepRecords
      /\ config \in Engines!Configs /\ local.position \in Nat \ {0}
  BY DEF DInv, EnginesRight, HarnessRight, EnginesTyped
<1>. DEFINE k == Len(step_metrics)
<1>3. local.decode_batch.request_ids = Members /\ \A x \in Requests : k < config.max_new_tokens[x]
  BY <1>2 DEF Lockstep
<1>4. /\ Members \in Seq(Requests) /\ local.position \in 1 .. Len(Members)
      /\ DOMAIN Members = 1 .. Len(Members)
  BY <1>2, <1>3, MembersAre, LenProperties
<1>5. r \in Range(Members) /\ r \in Requests /\ r = Members[local.position]
  BY <1>1, <1>3, <1>4 DEF Range
<1>6. Begun = Range(Members) /\ ToApply = {}
  BY <1>2, BegunAre DEF ToApply
<1>7. /\ request_state[r].max_new_tokens = config.max_new_tokens[r]
      /\ config.max_new_tokens[r] \in Nat /\ k \in Nat
      /\ request_state[r].generated_tokens \in Nat
  BY <1>2, <1>5, <1>6, PositionOf, LenProperties DEF BegunRight, StepRecords
<1>8. /\ request_state[r].generated_tokens =
           k + (IF phase = "attended" /\ local.position < local.position THEN 1 ELSE 0)
      /\ request_state[r].status = "finished"
           <=> request_state[r].generated_tokens = request_state[r].max_new_tokens
  BY <1>2, <1>4, <1>5 DEF Lockstep
<1>9. request_state[r].generated_tokens < request_state[r].max_new_tokens
  BY <1>2, <1>3, <1>5, <1>7, <1>8
<1>10. r \in Working
  BY <1>5, <1>6, <1>7, <1>8, <1>9 DEF Working
<1>. QED  BY <1>1, <1>9, <1>10

LEMMA NobodyIsShort ==
  ASSUME DInv  PROVE Engines!NeverShortOfBlocks
<1>1. EnginesTyped /\ EngineRecords /\ EngineTables /\ AllBlocksThere
  BY DEF DInv, EnginesRight
<1>2. ASSUME phase = "ensure", local.position <= Len(Engines!Active)
      PROVE  LET r == Engines!Active[local.position]
             IN  Engines!KV!CapacityAvailable(r, Engines!TokenPosition(r))
  <2>1. PICK r : r = Engines!Active[local.position]
    OBVIOUS
  <2>2. Begun = Range(Members) /\ ToApply = {}
    BY <1>1, <1>2, BegunAre DEF ToApply
  <2>3. r \in Working
    <3>. DEFINE s == Engines!Active
    <3>1. Range(s) = Working /\ DOMAIN s = 1 .. Len(s) /\ Len(s) \in Nat
      BY <1>1, <2>2, ActiveAre DEF Working
    <3>2. local.position \in Nat \ {0}
      BY <1>1 DEF EnginesTyped
    <3>. HIDE DEF s
    <3>3. local.position \in 1 .. Len(s)
      BY <1>2, <3>1, <3>2 DEF s
    <3>. QED  BY <2>1, <3>1, <3>3 DEF Range, s
  <2>4. request_state[r].generated_tokens < request_state[r].max_new_tokens
    BY <1>1, <2>2, <2>3, PositionOf DEF Working
  <2>5. Engines!KV!CapacityAvailable(r, EngineTokenPosition(r))
    BY <1>1, <2>3, <2>4, RoomForNext
  <2>. QED  BY <2>1, <2>5 DEF EngineTokenPosition
<1>3. ASSUME phase = "attended", config.driver = "harness",
             local.position <= Len(local.decode_batch.request_ids)
      PROVE  LET r == local.decode_batch.request_ids[local.position]
             IN  Engines!KV!CapacityAvailable(r, Engines!TokenPosition(r))
  <2>1. PICK r : r = local.decode_batch.request_ids[local.position]
    OBVIOUS
  <2>2. r \in Working /\ request_state[r].generated_tokens < request_state[r].max_new_tokens
    BY <1>3, <2>1, HarnessNext
  <2>3. Engines!KV!CapacityAvailable(r, EngineTokenPosition(r))
    BY <1>1, <2>2, RoomForNext
  <2>. QED  BY <2>1, <2>3 DEF EngineTokenPosition
<1>4. phase = "done" => Engines!KV!FreeBlockCount = EngineBlocks
  BY <1>1, AllBlocksBack DEF EngineRecords, Engines!KV!FreeBlockCount
<1>. QED  BY <1>2, <1>3, <1>4 DEF Engines!NeverShortOfBlocks

LEMMA EverybodyGotAll ==
  ASSUME DInv  PROVE Engines!TokensCountedOnce
<1>. SUFFICES ASSUME phase = "done"
     PROVE  /\ \A r \in Range(Members) :
                 LET q == request_state[r]
                 IN  /\ q.status = "finished" /\ q.generated_tokens = q.max_new_tokens
                     /\ config.driver = "hf" =>
                          q.past_length = Engines!DecodeFromPrefill(
                            Engines!Prefilled(Engines!NewRequest(config, r)),
                            q.max_new_tokens).past_length
                     /\ config.driver = "synthetic" =>
                          q.num_computed_tokens = EngineTokenPosition(r)
            /\ config.driver = "harness" =>
                 /\ \A r \in Requests : Len(step_metrics) = config.max_new_tokens[r]
                 /\ \A k \in DOMAIN step_metrics :
                      /\ step_metrics[k].active_batch_size = config.batch_size
                      /\ step_metrics[k].total_tokens_emitted = k * config.batch_size
                 /\ step_metrics[Len(step_metrics)].kv_used_blocks = 0
  <2>1. /\ Engines!Range(Engines!Members) = Range(Members)
        /\ Engines!Last(step_metrics) = step_metrics[Len(step_metrics)]
    BY EngineOperators DEF Members
  <2>. QED  BY <2>1 DEF Engines!TokensCountedOnce, EngineTokenPosition
<1>1. /\ EnginesTyped /\ EngineRecords /\ config \in Engines!Configs
      /\ Begun = Range(Members) /\ Range(Members) \subseteq Requests /\ Working = {}
  BY BegunAre DEF DInv, EnginesRight, EnginesTyped, EngineRecords
<1>2. ASSUME NEW r \in Range(Members)
      PROVE  /\ request_state[r].status = "finished" /\ r \in Requests
             /\ request_state[r].generated_tokens = request_state[r].max_new_tokens
             /\ request_state[r].max_new_tokens \in Nat /\ BegunRight(r)
             /\ request_state[r].max_new_tokens = config.max_new_tokens[r]
             /\ EngineTokenPosition(r) = config.prompt_tokens + request_state[r].generated_tokens
  BY <1>1, PositionOf DEF Working, BegunRight
<1>3. ASSUME NEW r \in Range(Members), config.driver = "hf"
      PROVE  request_state[r].past_length
               = Engines!DecodeFromPrefill(Engines!Prefilled(Engines!NewRequest(config, r)),
                                           request_state[r].max_new_tokens).past_length
  <2>1. PICK old, q, n : /\ old = Engines!NewRequest(config, r) /\ q = Engines!Prefilled(old)
                         /\ n = request_state[r].max_new_tokens
    OBVIOUS
  <2>2. q = Prefilled(old)
    <3>1. \A x : Engines!Prefilled(x) = Prefilled(x)
      BY EngineOperators
    <3>. QED  BY <2>1, <3>1
  <2>3. IsRecord(old) /\ old.prompt = config.prompt_tokens /\ old.generated_tokens = 0
    BY <1>1, <2>1, NewRequestIs
  <2>4. IsRecord(q)
    BY <2>2, <2>3, RecordSteps
  <2>5. q.past_length = config.prompt_tokens /\ q.generated_tokens = 0
    <3>1. old = [f \in RecordFields |-> old[f]]
      BY <2>3 DEF IsRecord
    <3>. QED  BY <2>2, <2>3, <3>1 DEF Prefilled, MarkDecoding, CountPromptTokens, RecordFields
  <2>6. n \in Nat /\ config.prompt_tokens \in Nat
    BY <1>1, <1>2, <2>1, ConfigIs
  <2>7. Engines!DecodeFromPrefill(q, n).past_length = q.past_length + n
    BY <2>4, <2>5, <2>6, DecodedFromPrefill
  <2>8. request_state[r].past_length = config.prompt_tokens + n
    BY <1>2, <1>3, <2>1 DEF BegunRight
  <2>. QED  BY <2>1, <2>5, <2>7, <2>8
<1>4. ASSUME config.driver = "harness"
      PROVE  /\ \A r \in Requests : Len(step_metrics) = config.max_new_tokens[r]
             /\ \A k \in DOMAIN step_metrics :
                  /\ step_metrics[k].active_batch_size = config.batch_size
                  /\ step_metrics[k].total_tokens_emitted = k * config.batch_size
             /\ step_metrics[Len(step_metrics)].kv_used_blocks = 0
  <2>1. Lockstep /\ StepRecords
    BY <1>4 DEF DInv, HarnessRight
  <2>2. Len(step_metrics) \in Nat /\ DOMAIN step_metrics = 1 .. Len(step_metrics)
    BY <2>1, LenProperties DEF StepRecords
  <2>3. PICK x \in Range(Members) : x = Members[1]
    BY <1>1, MembersAre, LenProperties DEF Range
  <2>4. request_state[x].generated_tokens = Len(step_metrics)
    <3>1. 1 \in 1 .. Len(Members)
      BY <1>1, MembersAre
    <3>2. request_state[x].generated_tokens = Len(step_metrics) + 0
      BY <2>1, <2>3, <3>1 DEF Lockstep
    <3>. QED  BY <2>2, <3>2
  <2>5. \A r \in Requests : Len(step_metrics) = config.max_new_tokens[r]
    BY <1>1, <1>2, <1>4, <2>3, <2>4, ConfigIs
  <2>6. Len(step_metrics) \in DOMAIN step_metrics
    BY <1>1, <1>2, <2>2, <2>3, <2>5, ConfigIs
  <2>7. StepRecord(Len(step_metrics))
    BY <2>1, <2>6 DEF StepRecords
  <2>8. step_metrics[Len(step_metrics)].kv_used_blocks = 0
    BY <1>2, <2>3, <2>5, <2>7 DEF StepRecord
  <2>. QED  BY <2>1, <2>5, <2>8 DEF StepRecords, StepRecord
<1>. QED  BY <1>2, <1>3, <1>4 DEF BegunRight

(* No request of a decode engine ever finds the pool empty, in the end all  *)
(* blocks are back, and each request was given exactly max_new_tokens, which *)
(* the runner's cache, the engine's counter and the harness's figures agree *)
(* on: the check of the pool made once in the beginning is enough.          *)
THEOREM EnginesAlwaysServeAllTokens == MCSpec => []EnginesServeAllTokens
<1>. DEFINE I == running = "engines" => DInv
<1>1. MCInit => I
  BY EnginesInit
<1>2. I /\ [MCNext]_mc_vars => I'
  BY EnginesRunAlone, DInvKept
<1>3. I => EnginesServeAllTokens
  BY NobodyIsShort, EverybodyGotAll DEF EnginesServeAllTokens
<1>. QED  BY <1>1, <1>2, <1>3, PTL DEF MCSpec

-----------------------------------------------------------------------------
(* Attention is led to the tokens that have K/V *)

(* The reference backend gets back the tables that the batch was built from. *)
LEMMA RowsAreTables ==
  ASSUME NEW n \in Nat, NEW tables, DOMAIN tables = 1 .. n,
         \A i \in 1 .. n : tables[i] \in Seq(0 .. EngineBlocks - 1)
  PROVE  \A i \in 1 .. n :
           Engines!TensorBlockTablesToLists(Engines!PaddedTables(tables))[i] = tables[i]
<1>. DEFINE S == {0} \cup {Len(tables[i]) : i \in DOMAIN tables}
            longest == Engines!Max(S)
            tensor == [i \in DOMAIN tables |->
                         tables[i] \o [j \in 1 .. longest - Len(tables[i]) |-> -1]]
<1>1. Engines!PaddedTables(tables) = tensor
  BY DEF Engines!PaddedTables, Engines!Padding
<1>2. \A i \in 1 .. n : Len(tables[i]) \in Nat
  BY LenProperties
<1>3. longest \in Nat /\ \A i \in 1 .. n : Len(tables[i]) <= longest
  <2>. DEFINE size == [i \in 1 .. n + 1 |-> IF i = n + 1 THEN 0 ELSE Len(tables[i])]
              m == n + 1
              T == {size[i] : i \in 1 .. m}
  <2>1. m \in Nat \ {0} /\ \A i \in 1 .. m : size[i] \in Nat
    BY <1>2
  <2>2. S = T
    <3>1. \A i \in 1 .. n : i \in 1 .. m /\ size[i] = Len(tables[i])
      OBVIOUS
    <3>2. m \in 1 .. m /\ size[m] = 0
      OBVIOUS
    <3>3. \A i \in 1 .. m : i = m \/ i \in 1 .. n
      OBVIOUS
    <3>. HIDE DEF size, m
    <3>. QED  BY <3>1, <3>2, <3>3
  <2>3. \A i \in 1 .. n : i \in 1 .. m /\ size[i] = Len(tables[i])
    OBVIOUS
  <2>. HIDE DEF size, m
  <2>4. Max(T) \in Nat /\ \A i \in 1 .. m : size[i] <= Max(T)
    BY <2>1, LongestTable
  <2>5. longest = Max(T)
    <3>1. \A X : Engines!Max(X) = Max(X)
      BY EngineOperators
    <3>. HIDE DEF S, T
    <3>. QED  BY <2>2, <3>1
  <2>. HIDE DEF longest, T
  <2>. QED  BY <2>3, <2>4, <2>5
<1>. HIDE DEF longest
<1>. SUFFICES ASSUME NEW i \in 1 .. n
              PROVE  Engines!TensorBlockTablesToLists(tensor)[i] = tables[i]
  BY <1>1
<1>4. Engines!TensorBlockTablesToLists(tensor)[i] = InOrder(tensor[i], Nat)
  <2>1. DOMAIN tensor = 1 .. n
    OBVIOUS
  <2>2. \A s, X : Engines!InOrder(s, X) = InOrder(s, X)
    BY EngineOperators
  <2>. HIDE DEF tensor
  <2>. QED  BY <2>1, <2>2 DEF Engines!TensorBlockTablesToLists
<1>5. PICK s, t : s = tables[i] /\ t = [j \in 1 .. longest - Len(tables[i]) |-> -1]
  OBVIOUS
<1>6. tensor[i] = s \o t
  BY <1>5
<1>. HIDE DEF tensor
<1>7. /\ s \in Seq(Int) /\ t \in Seq(Int)
      /\ Range(s) \subseteq Nat /\ Range(t) \cap Nat = {}
  <2>1. longest - Len(tables[i]) \in Nat
    BY <1>2, <1>3
  <2>2. t \in Seq(Int) /\ \A j \in DOMAIN t : t[j] = -1
    <3>1. PICK m \in Nat : m = longest - Len(tables[i])
      BY <2>1
    <3>2. t = [j \in 1 .. m |-> -1]
      BY <1>5, <3>1
    <3>. QED  BY <3>2
  <2>3. s \in Seq(0 .. EngineBlocks - 1)
    BY <1>5
  <2>4. \A j \in DOMAIN s : s[j] \in 0 .. EngineBlocks - 1
    BY <2>3, ElementOfSeq, LenProperties
  <2>5. \A x \in 0 .. EngineBlocks - 1 : x \in Nat /\ x \in Int
    BY EngineAssumption
  <2>6. s \in Seq(Int)
    <3>1. /\ s \in [1 .. Len(s) -> 0 .. EngineBlocks - 1] /\ Len(s) \in Nat
      BY <2>3, LenProperties
    <3>2. s \in [1 .. Len(s) -> Int]
      BY <2>5, <3>1
    <3>. QED  BY <3>1, <3>2
  <2>. QED  BY <2>2, <2>4, <2>5, <2>6 DEF Range
<1>8. InOrder(s \o t, Nat) = s
  <2>1. PICK X, N : X = Int /\ N = Nat
    OBVIOUS
  <2>2. s \in Seq(X) /\ t \in Seq(X) /\ Range(s) \subseteq N /\ Range(t) \cap N = {}
    BY <1>7, <2>1
  <2>3. InOrder(s \o t, N) = s
    BY <2>2, InOrderOfParts
  <2>. QED  BY <2>1, <2>3
<1>. QED  BY <1>4, <1>5, <1>6, <1>8

LEMMA AttentionIsRight ==
  ASSUME DInv  PROVE Engines!AttendsToExistingTokens
<1>. SUFFICES ASSUME phase = "attended", local.position = 1,
                     NEW i \in DOMAIN local.decode_batch.request_ids
              PROVE  LET batch == local.decode_batch
                         rows  == Engines!TensorBlockTablesToLists(batch.block_tables)
                     IN  Engines!Pool!GatherKVForSequence(cache, 0, rows[i], batch.seq_lens[i])
                           = [j \in 1 .. Engines!TokenPosition(batch.request_ids[i]) |->
                                Engines!Token(batch.request_ids[i], j - 1)]
  BY DEF Engines!AttendsToExistingTokens
<1>1. /\ EnginesTyped /\ EngineRecords /\ EngineTables /\ EngineCache
      /\ config \in Engines!Configs
      /\ local.decode_batch = Engines!BuildDecodeBatch(Members, request_state, block_tables)
  BY DEF DInv, EnginesRight, EnginesTyped, BatchBuilt
<1>2. config.driver # "hf"
  BY <1>1 DEF EnginesTyped, PhasesOf
<1>3. PICK s, tables : /\ s = Engines!Active
                       /\ tables = [k \in DOMAIN s |-> block_tables[s[k]]]
  OBVIOUS
<1>4. /\ local.decode_batch.request_ids = s
      /\ local.decode_batch.seq_lens = [k \in DOMAIN s |-> EngineTokenPosition(s[k])]
      /\ local.decode_batch.block_tables = Engines!PaddedTables(tables)
  BY <1>1, <1>3 DEF Engines!BuildDecodeBatch, Engines!Active, Members, EngineTokenPosition,
     Engines!TokenPosition
<1>5. /\ DOMAIN s = 1 .. Len(s) /\ Len(s) \in Nat /\ Range(s) = Working
      /\ Working \subseteq Begun
  BY <1>1, <1>3, BegunAre, ActiveAre DEF Working
<1>6. PICK r : r = s[i]
  OBVIOUS
<1>7. i \in DOMAIN s /\ r \in Working
  BY <1>4, <1>5, <1>6 DEF Range
<1>8. /\ DOMAIN tables = 1 .. Len(s) /\ i \in 1 .. Len(s)
      /\ \A k \in 1 .. Len(s) : tables[k] \in Seq(0 .. EngineBlocks - 1)
  <2>1. \A k \in 1 .. Len(s) : s[k] \in Working
    BY <1>5 DEF Range
  <2>. QED  BY <1>1, <1>3, <1>5, <1>7, <2>1, TablesTyped
<1>9. Engines!TensorBlockTablesToLists(local.decode_batch.block_tables)[i] = block_tables[r]
  <2>1. Engines!TensorBlockTablesToLists(Engines!PaddedTables(tables))[i] = tables[i]
    BY <1>5, <1>8, RowsAreTables
  <2>2. tables[i] = block_tables[r]
    BY <1>3, <1>6, <1>7
  <2>. QED  BY <1>4, <2>1, <2>2
<1>10. PICK n, table : n = EngineTokenPosition(r) /\ table = block_tables[r]
  OBVIOUS
<1>11. n \in Nat
  BY <1>1, <1>5, <1>7, <1>10, PositionOf
<1>12. \A j \in 1 .. n : Engines!Pool!ReadRequestToken(cache, 0, table, j - 1)
                           = Engines!Token(r, j - 1)
  <2>. SUFFICES ASSUME NEW j \in 1 .. n
                PROVE  Engines!Pool!ReadRequestToken(cache, 0, table, j - 1)
                         = Engines!Token(r, j - 1)
    OBVIOUS
  <2>1. j - 1 \in 0 .. EngineTokenPosition(r) - 1
    BY <1>10, <1>11
  <2>2. Holds(cache, block_tables[r], r, j - 1)
    BY <1>1, <1>2, <1>7, <2>1 DEF EngineCache
  <2>. QED  BY <1>10, <2>2 DEF Holds, Cell, Engines!Pool!ReadRequestToken
<1>13. Engines!Pool!GatherKVForSequence(cache, 0, table, n)
         = [j \in 1 .. n |-> Engines!Token(r, j - 1)]
  BY <1>12 DEF Engines!Pool!GatherKVForSequence
<1>14. /\ local.decode_batch.seq_lens[i] = n /\ local.decode_batch.request_ids[i] = r
       /\ Engines!TokenPosition(r) = n
  BY <1>4, <1>6, <1>7, <1>10 DEF EngineTokenPosition
<1>. QED  BY <1>9, <1>10, <1>13, <1>14

(* When the harness or the synthetic engine attends, the tensors of its     *)
(* batch lead it, for each request, to exactly the tokens that have K/V, in *)
(* their order: none of another request, none of a block's last owner, and  *)
(* not the pending token.                                                   *)
THEOREM EnginesAlwaysAttendRight == MCSpec => []EnginesAttendToExistingTokens
<1>. DEFINE I == running = "engines" => DInv
<1>1. MCInit => I
  BY EnginesInit
<1>2. I /\ [MCNext]_mc_vars => I'
  BY EnginesRunAlone, DInvKept
<1>3. I => EnginesAttendToExistingTokens
  BY AttentionIsRight DEF EnginesAttendToExistingTokens
<1>. QED  BY <1>1, <1>2, <1>3, PTL DEF MCSpec

=============================================================================
