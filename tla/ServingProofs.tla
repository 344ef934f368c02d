---------------------------- MODULE ServingProofs ----------------------------
(***************************************************************************)
(* Proofs about the two systems that run the engine scheduler's steps, and *)
(* rest on what is proved of them.                                         *)
(*                                                                         *)
(* PagedServing: the paged K/V cache of CustomLlamaDecodeEngine behaves    *)
(* like a private cache for each request, for every set of requests, pool, *)
(* number of slots, layers, budget and limit, with an engine that may      *)
(* raise in the middle of its writes.  Blocks are reused without being     *)
(* cleared, and the engine works with copies of block tables: cells are    *)
(* kept apart because the copies are prefixes of tables that share no      *)
(* block.                                                                  *)
(*                                                                         *)
(* Server: the worker threads of server.py run the engine scheduler's own  *)
(* steps, whatever start() and stop() do, and the reports put together by  *)
(* its handlers agree with themselves, for every number of requests and    *)
(* workers, every pool and both endpoints.                                 *)
(***************************************************************************)
EXTENDS PagedServing, Server, EngineSchedulerProofs

-----------------------------------------------------------------------------
(* Paged serving: the inductive invariant *)

(* The copy of the table of a request with record q reaches all its tokens,  *)
(* and no more of them were computed than there are.                         *)
CopyReaches(q) ==
  /\ q.num_computed_tokens <= q.prompt_tokens + q.generated_tokens
  /\ KV!BlocksNeeded(q.prompt_tokens + q.generated_tokens) <= Len(q.block_table)

CopiesReach == \A r \in InSlot : CopyReaches(request_state[r])

CopyInv == TInv /\ CopiesReach

(* The requests whose last token is in the cache and not yet counted as      *)
(* computed, until their output is applied.                                  *)
Unapplied == IF phase \in {"apply", "finish"} THEN OutputsOf(local.outputs) ELSE {}

(* How many tokens of r the cache holds.                                     *)
Held(r) == IF r \in Unapplied THEN TokenPosition(r) ELSE request_state[r].num_computed_tokens

CacheTyped == cache = [c \in Pool!Cells |-> cache[c]]

HoldsToken(r, position) ==
  \A l \in Layers :
    Pool!ReadRequestToken(cache, l, request_state[r].block_table, position) = Token(r, position)

CacheRight == \A r \in InSlot : \A p \in 0 .. Held(r) - 1 : HoldsToken(r, p)

PInv == CopyInv /\ CacheTyped /\ CacheRight


(* What is held is a number of tokens.                                       *)
LEMMA HeldTyped ==
  ASSUME TInv, NEW r \in InSlot
  PROVE  Held(r) \in Nat /\ TokenPosition(r) \in Nat /\ request_state[r].num_computed_tokens \in Nat
<1>1. request_state[r] \in RequestRecords
  BY InSlotTyped DEF TInv
<1>. QED  BY <1>1 DEF Held, TokenPosition, RequestRecords

-----------------------------------------------------------------------------
(* Rows, columns and blocks *)

(* The entries 1 .. k * n of a list of k rows of n, and their places.       *)
LEMMA RowsAndColumns ==
  ASSUME NEW k \in Nat, NEW n \in Nat
  PROVE  /\ k * n \in Nat
         /\ \A i \in 1 .. k * n : /\ (i - 1) \div n \in 0 .. k - 1
                                  /\ (i - 1) % n \in 0 .. n - 1
         /\ \A l \in 0 .. k - 1, t \in 0 .. n - 1 :
              \E i \in 1 .. k * n : (i - 1) \div n = l /\ (i - 1) % n = t
<1>1. k * n \in Nat
  OBVIOUS
<1>2. ASSUME NEW i \in 1 .. k * n
      PROVE  (i - 1) \div n \in 0 .. k - 1 /\ (i - 1) % n \in 0 .. n - 1
  <2>1. n # 0
    BY <1>1, <1>2
  <2>. DEFINE a == i - 1
              q == a \div n
  <2>2. a \in Nat /\ a < k * n
    BY <1>1
  <2>. HIDE DEF a
  <2>3. q \in Nat /\ a % n \in 0 .. n - 1 /\ a = n * q + (a % n)
    BY <2>1, <2>2, QuotientAndRemainder
  <2>. HIDE DEF q
  <2>4. ASSUME k <= q  PROVE FALSE
    <3>1. n * k <= n * q
      BY <2>3, <2>4
    <3>2. n * k = k * n /\ n * q \in Nat
      BY <2>3
    <3>. QED  BY <1>1, <2>2, <2>3, <3>1, <3>2
  <2>5. q < k
    BY <2>3, <2>4
  <2>. QED  BY <2>3, <2>5 DEF a, q
<1>3. ASSUME NEW l \in 0 .. k - 1, NEW t \in 0 .. n - 1
      PROVE  \E i \in 1 .. k * n : (i - 1) \div n = l /\ (i - 1) % n = t
  <2>. DEFINE a == n * l + t
              i == a + 1
  <2>1. n \in Nat \ {0} /\ l \in Nat /\ n * l \in Nat
    OBVIOUS
  <2>2. a \in Nat /\ a < n * l + n
    BY <2>1
  <2>3. n * l + n <= k * n
    <3>1. n * (l + 1) <= n * k
      OBVIOUS
    <3>2. n * (l + 1) = n * l + n /\ n * k = k * n
      OBVIOUS
    <3>. QED  BY <3>1, <3>2
  <2>4. i \in 1 .. k * n /\ i - 1 = a
    BY <1>1, <2>1, <2>2, <2>3
  <2>5. a \div n = l /\ a % n = t
    BY <2>1, <2>2, QuotientAndRemainder
  <2>. HIDE DEF a
  <2>. QED  BY <2>4, <2>5
<1>. QED  BY <1>1, <1>2, <1>3

(* The token at a position below n is in one of the blocks needed for n.     *)
LEMMA PositionsHaveBlocks ==
  ASSUME NEW n \in Nat, NEW p \in 0 .. n - 1
  PROVE  Pool!LogicalBlock(p) < KV!BlocksNeeded(n)
<1>1. BlockSize \in Nat \ {0}
  BY PoolAssumption
<1>. DEFINE q == p \div BlockSize
            t == p % BlockSize
<1>2. p \in Nat /\ q \in Nat /\ t \in 0 .. BlockSize - 1 /\ p = BlockSize * q + t
  <2>1. p \in Nat
    OBVIOUS
  <2>. QED  BY <1>1, <2>1, QuotientAndRemainder
<1>. HIDE DEF q, t
<1>. DEFINE b == p + BlockSize
<1>3. b \in Nat /\ b <= n + BlockSize - 1 /\ n + BlockSize - 1 \in Nat
  BY <1>1, <1>2
<1>4. b \div BlockSize = q + 1
  <2>1. BlockSize * (q + 1) = BlockSize * q + BlockSize
    BY <1>1, <1>2
  <2>2. b = BlockSize * (q + 1) + t
    <3>1. BlockSize * q \in Nat
      BY <1>1, <1>2
    <3>. QED  BY <1>1, <1>2, <2>1, <3>1
  <2>. DEFINE x == q + 1
  <2>3. x \in Nat /\ b = BlockSize * x + t
    BY <1>2, <2>2
  <2>. HIDE DEF b, x
  <2>4. b \div BlockSize = x
    BY <1>1, <1>2, <1>3, <2>3, QuotientAndRemainder
  <2>. QED  BY <2>4 DEF x
<1>. HIDE DEF b
<1>5. q + 1 <= KV!BlocksNeeded(n)
  BY <1>1, <1>3, <1>4, DivMonotone DEF KV!BlocksNeeded
<1>6. KV!BlocksNeeded(n) \in Nat
  BY BlocksNeededNat
<1>. QED  BY <1>2, <1>5, <1>6 DEF Pool!LogicalBlock, q

-----------------------------------------------------------------------------
(* Writes *)

(* A prefix has the entries of the list it is a prefix of.                   *)
LEMMA PrefixEntries ==
  ASSUME NEW S, NEW s \in Seq(S), NEW t \in Seq(S), IsPrefix(s, t), NEW i \in 1 .. Len(s)
  PROVE  i \in 1 .. Len(t) /\ s[i] = t[i] /\ s[i] \in S
<1>1. Len(s) \in Nat /\ Len(t) \in Nat /\ Len(s) <= Len(t)
  BY LenProperties DEF IsPrefix
<1>2. i \in 1 .. Len(t) /\ s[i] \in S /\ t[i] \in S
  BY <1>1, ElementOfSeq
<1>. DEFINE a == SubSeq(s, 1, Len(s))
            b == SubSeq(t, 1, Len(s))
<1>3. i \in 1 .. Len(s) - 1 + 1 /\ 1 + i - 1 = i
  BY <1>1
<1>4. a[i] = s[i] /\ b[i] = t[i]
  <2>1. \A j \in 1 .. Len(s) : s[j] \in S /\ t[j] \in S
    BY <1>1, ElementOfSeq
  <2>2. \A j \in 1 .. Len(s) - 1 + 1 : a[j] = s[1 + j - 1] /\ b[j] = t[1 + j - 1]
    BY <1>1, <2>1, SubSeqProperties
  <2>. QED  BY <1>3, <2>2
<1>. QED  BY <1>2, <1>4 DEF IsPrefix

(* Is there a block for the token at this position?                          *)
Reaches(r, position) ==
  position \in Nat /\ Pool!LogicalBlock(position) < Len(request_state[r].block_table)

(* The cell of a token: its address is in the pool ...                       *)
LEMMA CellIs ==
  ASSUME TInv, NEW r \in InSlot, NEW l \in Layers, NEW p, Reaches(r, p)
  PROVE  LET i == Pool!LogicalBlock(p) + 1
             b == block_tables[r][i]
         IN  /\ Pool!CellOf(l, request_state[r].block_table, p) = <<l, b, p % BlockSize>>
             /\ b \in KV!Blocks /\ i \in DOMAIN block_tables[r]
             /\ request_state[r].block_table[i] = b
             /\ <<l, b, p % BlockSize>> \in Pool!Cells
<1>. DEFINE copy == request_state[r].block_table
            i == Pool!LogicalBlock(p) + 1
            b == block_tables[r][i]
            o == p % BlockSize
<1>1. copy \in Seq(KV!Blocks) /\ block_tables[r] \in Seq(KV!Blocks)
  BY InSlotTyped DEF TInv
<1>2. Len(copy) \in Nat /\ DOMAIN block_tables[r] = 1 .. Len(block_tables[r])
  BY <1>1, LenProperties
<1>3. /\ Pool!LogicalBlock(p) \in Nat /\ o \in 0 .. BlockSize - 1
      /\ Pool!LogicalBlock(p) < Len(copy)
  BY PoolAssumption, QuotientAndRemainder DEF Reaches, Pool!LogicalBlock
<1>4. i \in 1 .. Len(copy)
  BY <1>2, <1>3
<1>5. IsPrefix(copy, block_tables[r])
  BY DEF TInv, Roomy, HasRoom
<1>. HIDE DEF copy, i
<1>6. i \in 1 .. Len(block_tables[r]) /\ copy[i] = b /\ b \in KV!Blocks
  BY <1>1, <1>4, <1>5, PrefixEntries
<1>7. Pool!CellOf(l, copy, p) = <<l, b, o>>
  <2>1. Pool!LocateToken(copy, p) = <<b, o>>
    BY <1>6 DEF Pool!LocateToken, i
  <2>. QED  BY <2>1 DEF Pool!CellOf
<1>8. <<l, b, o>> \in Pool!Cells
  BY <1>3, <1>6 DEF Pool!Cells, KV!Blocks
<1>. QED  BY <1>2, <1>6, <1>7, <1>8 DEF copy, i

(* ... and no other token, of this request or another, has it.               *)
LEMMA CellsApart ==
  ASSUME TInv, NEW r \in InSlot, NEW x \in InSlot, NEW l \in Layers, NEW m \in Layers,
         NEW p, NEW s, Reaches(r, p), Reaches(x, s),
         Pool!CellOf(l, request_state[r].block_table, p)
           = Pool!CellOf(m, request_state[x].block_table, s)
  PROVE  r = x /\ l = m /\ p = s
<1>. DEFINE i == Pool!LogicalBlock(p) + 1
            j == Pool!LogicalBlock(s) + 1
            b == block_tables[r][i]
            c == block_tables[x][j]
<1>1. /\ <<l, b, p % BlockSize>> = <<m, c, s % BlockSize>>
      /\ i \in DOMAIN block_tables[r] /\ j \in DOMAIN block_tables[x]
  <2>1. /\ Pool!CellOf(l, request_state[r].block_table, p) = <<l, b, p % BlockSize>>
        /\ i \in DOMAIN block_tables[r]
    BY CellIs
  <2>2. /\ Pool!CellOf(m, request_state[x].block_table, s) = <<m, c, s % BlockSize>>
        /\ j \in DOMAIN block_tables[x]
    BY CellIs
  <2>. QED  BY <2>1, <2>2
<1>2. l = m /\ b = c /\ p % BlockSize = s % BlockSize
  BY <1>1
<1>3. r = x
  <2>1. b \in Range(block_tables[r]) /\ c \in Range(block_tables[x])
    BY <1>1 DEF Range
  <2>2. r \in KV!Owners /\ x \in KV!Owners
    BY InSlotTyped DEF TInv
  <2>. QED
    BY <1>2, <2>1, <2>2 DEF TInv, SInv, HInv, IInv, BlocksInOnePlace, Partition, KV!Owners
<1>4. i = j
  <2>1. r \in KV!Owners
    BY InSlotTyped DEF TInv
  <2>2. IsInjective(block_tables[r])
    BY <2>1 DEF TInv, SInv, HInv, IInv, BlocksInOnePlace, Partition, KV!Owners
  <2>. HIDE DEF i, j
  <2>. QED  BY <1>1, <1>2, <1>3, <2>2 DEF IsInjective
<1>5. p = s
  <2>1. p \in Nat /\ s \in Nat
    BY DEF Reaches
  <2>. DEFINE u == p \div BlockSize
              v == s \div BlockSize
              o == p % BlockSize
  <2>2. u \in Nat /\ v \in Nat /\ p = BlockSize * u + o /\ s = BlockSize * v + o
    BY <1>2, <2>1, PoolAssumption, QuotientAndRemainder
  <2>3. u + 1 = v + 1
    BY <1>4 DEF Pool!LogicalBlock
  <2>. HIDE DEF u, v, o
  <2>4. u = v
    BY <2>2, <2>3
  <2>. QED  BY <2>2, <2>4
<1>. QED  BY <1>2, <1>3, <1>5

(* The write of the token of r at a position, in layer l.                    *)
TokenWrite(l, r, position) ==
  Pool!Write(l, request_state[r].block_table, position, Token(r, position))

(* Writes of tokens of requests in slots, none of which the cache holds.     *)
WritesNewTokens(w) ==
  \A i \in 1 .. Len(w) : \E l \in Layers, r \in InSlot : \E p \in Nat :
    Reaches(r, p) /\ p >= Held(r) /\ w[i] = TokenWrite(l, r, p)

WritesToken(w, r, position) ==
  \A l \in Layers : \E i \in 1 .. Len(w) : w[i] = TokenWrite(l, r, position)

(* Such writes leave what the cache held, and put the tokens where they will *)
(* be read.                                                                  *)
LEMMA NewTokensLand ==
  ASSUME TInv, CacheTyped, NEW w, Len(w) \in Nat, WritesNewTokens(w)
  PROVE  LET a == Pool!AfterWrites(cache, w)
         IN  /\ a = [c \in Pool!Cells |-> a[c]]
             /\ \A r \in InSlot : \A p : \A l \in Layers :
                  LET table == request_state[r].block_table
                  IN  Reaches(r, p) =>
                        /\ p < Held(r) => Pool!ReadRequestToken(a, l, table, p)
                                            = Pool!ReadRequestToken(cache, l, table, p)
                        /\ WritesToken(w, r, p) =>
                             Pool!ReadRequestToken(a, l, table, p) = Token(r, p)
<1>. DEFINE C == Pool!Cells
            a == Pool!AfterWrites(cache, w)
<1>1. ASSUME NEW i \in 1 .. Len(w)
      PROVE  w[i].cell \in C
  <2>1. PICK l \in Layers, r \in InSlot : \E p \in Nat :
          Reaches(r, p) /\ p >= Held(r) /\ w[i] = TokenWrite(l, r, p)
    BY DEF WritesNewTokens
  <2>2. PICK p \in Nat : Reaches(r, p) /\ p >= Held(r) /\ w[i] = TokenWrite(l, r, p)
    BY <2>1
  <2>3. w[i].cell = Pool!CellOf(l, request_state[r].block_table, p)
    BY <2>2 DEF TokenWrite, Pool!Write
  <2>4. Pool!CellOf(l, request_state[r].block_table, p) \in C
    BY <2>2, CellIs
  <2>. QED  BY <2>3, <2>4
<1>2. /\ a = [c \in C |-> a[c]]
      /\ \A c \in C : \/ \E i \in 1 .. Len(w) : w[i].cell = c /\ a[c] = w[i].kv
                      \/ (\A i \in 1 .. Len(w) : w[i].cell # c) /\ a[c] = cache[c]
  <2>1. cache = [c \in C |-> cache[c]]
    BY DEF CacheTyped
  <2>. DEFINE n == Len(w)
  <2>2. n \in Nat /\ Len(w) = n /\ \A i \in 1 .. n : w[i].cell \in C
    BY <1>1
  <2>3. PICK c : c = cache
    OBVIOUS
  <2>. DEFINE after == AllWritten(c, w, n)
  <2>4. a = after
    BY <2>3 DEF Pool!AfterWrites, AllWritten
  <2>. HIDE DEF C, n
  <2>5. /\ after = [x \in C |-> after[x]]
        /\ \A x \in C : \/ \E i \in 1 .. n : w[i].cell = x /\ after[x] = w[i].kv
                        \/ (\A i \in 1 .. n : w[i].cell # x) /\ after[x] = c[x]
    BY <2>1, <2>2, <2>3, WritesLand
  <2>. HIDE DEF a, after
  <2>. QED  BY <2>2, <2>3, <2>4, <2>5
<1>3. ASSUME NEW r \in InSlot, NEW p, NEW l \in Layers, Reaches(r, p)
      PROVE  LET table == request_state[r].block_table
             IN  /\ p < Held(r) => Pool!ReadRequestToken(a, l, table, p)
                                     = Pool!ReadRequestToken(cache, l, table, p)
                 /\ WritesToken(w, r, p) =>
                      Pool!ReadRequestToken(a, l, table, p) = Token(r, p)
  <2>. DEFINE c == Pool!CellOf(l, request_state[r].block_table, p)
  <2>1. c \in C
    BY <1>3, CellIs
  <2>2. ASSUME NEW i \in 1 .. Len(w), w[i].cell = c
        PROVE  w[i] = TokenWrite(l, r, p) /\ p >= Held(r)
    <3>1. PICK m \in Layers, x \in InSlot : \E s \in Nat :
            Reaches(x, s) /\ s >= Held(x) /\ w[i] = TokenWrite(m, x, s)
      BY DEF WritesNewTokens
    <3>2. PICK s \in Nat : Reaches(x, s) /\ s >= Held(x) /\ w[i] = TokenWrite(m, x, s)
      BY <3>1
    <3>3. w[i].cell = Pool!CellOf(m, request_state[x].block_table, s)
      BY <3>2 DEF TokenWrite, Pool!Write
    <3>4. r = x /\ l = m /\ p = s
      BY <1>3, <2>2, <3>2, <3>3, CellsApart
    <3>. QED  BY <3>2, <3>4
  <2>3. \A i \in 1 .. Len(w) : w[i] = TokenWrite(l, r, p) =>
          w[i].cell = c /\ w[i].kv = Token(r, p)
    BY DEF TokenWrite, Pool!Write
  <2>. DEFINE new == a[c]
              old == cache[c]
  <2>4. p < Held(r) => new = old
    <3>1. p \in Nat
      BY <1>3 DEF Reaches
    <3>2. ASSUME p < Held(r), NEW i \in 1 .. Len(w), w[i].cell = c  PROVE FALSE
      <4>1. p >= Held(r)
        BY <2>2, <3>2
      <4>2. Held(r) \in Nat
        BY HeldTyped
      <4>. QED  BY <3>1, <3>2, <4>1, <4>2
    <3>. HIDE DEF C, a, c
    <3>. QED  BY <1>2, <2>1, <3>2
  <2>5. WritesToken(w, r, p) => new = Token(r, p)
    <3>. SUFFICES ASSUME WritesToken(w, r, p)  PROVE new = Token(r, p)
      OBVIOUS
    <3>1. PICK i \in 1 .. Len(w) : w[i] = TokenWrite(l, r, p)
      BY DEF WritesToken
    <3>2. w[i].cell = c
      BY <2>3, <3>1
    <3>. HIDE DEF C, a, c
    <3>. QED  BY <1>2, <2>1, <2>2, <2>3, <3>2
  <2>. QED  BY <2>4, <2>5 DEF Pool!ReadRequestToken
<1>. QED  BY <1>2, <1>3

-----------------------------------------------------------------------------
(* What the scheduler's own steps do to the requests in slots *)

OnlyTouches(r) ==
  /\ InSlot' \ {r} = InSlot \ {r}
  /\ \A x \in InSlot \ {r} : /\ request_state'[x] = request_state[x]
                             /\ x \in Unapplied' <=> x \in Unapplied

SameTokens(q, p) ==
  /\ p.prompt_tokens = q.prompt_tokens /\ p.generated_tokens = q.generated_tokens

Leaves(r) == r \notin InSlot'

Enters(r) ==
  /\ r \notin InSlot /\ r \notin Unapplied'
  /\ request_state'[r].num_computed_tokens = 0
  /\ CopyReaches(request_state'[r])

(* The engine is told of a longer table.                                     *)
Extends(r) ==
  LET q == request_state[r]
      p == request_state'[r]
  IN  /\ r \in InSlot /\ (r \in Unapplied' <=> r \in Unapplied)
      /\ SameTokens(q, p) /\ p.num_computed_tokens = q.num_computed_tokens
      /\ IsPrefix(q.block_table, p.block_table)

(* The token that is in the cache already is counted as computed.            *)
Counts(r) ==
  LET q == request_state[r]
      p == request_state'[r]
  IN  /\ r \in InSlot /\ r \in Unapplied
      /\ SameTokens(q, p) /\ p.num_computed_tokens = TokenPosition(r)
      /\ p.block_table = q.block_table

SlotStep ==
  \/ OnlyTouches(NoRequest)
  \/ \E r \in Requests : OnlyTouches(r) /\ (Leaves(r) \/ Enters(r) \/ Extends(r) \/ Counts(r))

LEMMA DueIs ==
  /\ phase \in {"apply", "finish"} => Unapplied = OutputsOf(local.outputs)
  /\ phase \notin {"apply", "finish"} => Unapplied = {}
  /\ phase' \in {"apply", "finish"} => Unapplied' = OutputsOf(local'.outputs)
  /\ phase' \notin {"apply", "finish"} => Unapplied' = {}
BY DEF Unapplied, OutputsOf

LEMMA NobodyIsNotInSlot == NoRequest \notin InSlot
BY DEF InSlot

(* Taking the first output off changes nothing for the other requests.       *)
LEMMA DueOfOthers ==
  ASSUME HInv, phase \in {"apply", "finish"}, local.outputs # << >>,
         NEW x, x # Head(local.outputs).request_id
  PROVE  x \in OutputsOf(Tail(local.outputs)) <=> x \in OutputsOf(local.outputs)
<1>. DEFINE outputs == local.outputs
            r == Head(outputs).request_id
<1>1. /\ Len(outputs) \in Nat /\ Len(Tail(outputs)) = Len(outputs) - 1
      /\ \A i \in 1 .. Len(outputs) - 1 :
           Tail(outputs)[i] = outputs[i + 1] /\ i + 1 \in 1 .. Len(outputs)
      /\ OutputsOf(outputs) \ {r} \subseteq OutputsOf(Tail(outputs))
  BY OutputsRest
<1>. HIDE DEF outputs
<1>2. OutputsOf(Tail(outputs)) \subseteq OutputsOf(outputs)
  BY <1>1 DEF OutputsOf
<1>. QED  BY <1>1, <1>2 DEF outputs

(* Every ending.                                                             *)
LEMMA EndingIsASlotStep ==
  ASSUME TInv, NEW r, NEW status, EndRequest(r, status),
         \A x \in InSlot \ {r} : x \in Unapplied' <=> x \in Unapplied
  PROVE  SlotStep
<1>1. InSlot' = InSlot \ {r}
  BY EndingKeeps DEF TInv, SInv, HInv
<1>2. ASSUME NEW x \in InSlot \ {r}  PROVE request_state'[x] = request_state[x]
  <2>1. x \in Requests
    BY InSlotTyped DEF TInv
  <2>2. request_state \in [Requests -> RequestRecords]
    BY DEF TInv, SInv, HInv, Placed, Typed
  <2>. QED  BY <2>1, <2>2 DEF EndRequest
<1>3. OnlyTouches(r) /\ Leaves(r)
  BY <1>1, <1>2 DEF OnlyTouches, Leaves
<1>4. CASE r \in Requests
  BY <1>3, <1>4 DEF SlotStep
<1>5. CASE r \notin Requests
  <2>1. r \notin InSlot
    BY <1>5, InSlotTyped DEF TInv
  <2>2. OnlyTouches(NoRequest)
    BY <1>1, <1>3, <2>1, NobodyIsNotInSlot DEF OnlyTouches
  <2>. QED  BY <2>2 DEF SlotStep
<1>. QED  BY <1>4, <1>5

LEMMA EndingStepsAreSlotSteps ==
  ASSUME TInv,
         \/ FailAdmission \/ FailPrefill \/ EvictOneStalledRequest
         \/ FinishRequest \/ FailOneOfBatch
  PROVE  SlotStep
<1>1. CASE FailAdmission
  <2>1. EndRequest(Candidate, "failed") /\ phase = "admitting" /\ phase' = phase
    BY <1>1 DEF FailAdmission, Admitting
  <2>. QED  BY <2>1, DueIs, EndingIsASlotStep
<1>2. CASE FailPrefill
  <2>1. /\ EndRequest(Head(local.work_plan).request_state, "failed")
        /\ phase = "prefill" /\ phase' = phase
    BY <1>2 DEF FailPrefill, Prefilling
  <2>. QED  BY <2>1, DueIs, EndingIsASlotStep
<1>3. CASE EvictOneStalledRequest
  <2>1. EndRequest(Last(local.stalled), "failed") /\ phase = "ensure" /\ phase' = "idle"
    BY <1>3 DEF EvictOneStalledRequest, AllChecked, EndStep
  <2>. QED  BY <2>1, DueIs, EndingIsASlotStep
<1>4. CASE FinishRequest
  <2>. DEFINE r == Head(local.outputs).request_id
  <2>1. phase = "finish" /\ local.outputs # << >>
    BY <1>4 DEF FinishRequest, TInv, SInv, HInv, Placed, Loops, OutputsAreDecoding
  <2>2. EndRequest(r, "finished") /\ phase' = "apply" /\ local'.outputs = Tail(local.outputs)
    BY <1>4 DEF FinishRequest, TInv, SInv, HInv, Placed, Typed, Locals
  <2>3. \A x \in InSlot \ {r} : x \in Unapplied' <=> x \in Unapplied
    BY <2>1, <2>2, DueIs, DueOfOthers DEF TInv, SInv
  <2>. HIDE DEF r
  <2>. QED  BY <2>2, <2>3, EndingIsASlotStep
<1>5. CASE FailOneOfBatch
  <2>1. EndRequest(Head(local.decode_batch), "failed") /\ phase = "fail" /\ phase' = phase
    BY <1>5 DEF FailOneOfBatch
  <2>. QED  BY <2>1, DueIs, EndingIsASlotStep
<1>. QED  BY <1>1, <1>2, <1>3, <1>4, <1>5

(* Steps that leave all records of requests in slots as they are.            *)
LEMMA OtherStepsAreSlotSteps ==
  ASSUME TInv,
         \/ BeginStep \/ DrainOne \/ DrainEmpty
         \/ AdmitPass \/ DeferOne \/ AdmitPassDone
         \/ PlanPrefill \/ BeginDecode \/ ChooseBatch
         \/ AllApplied \/ AllFailed
         \/ \E r \in Requests : EnsureStalled(r)
         \/ \E r \in Requests : Submit(r)
  PROVE  SlotStep
<1>. DEFINE Same == \A x \in InSlot : request_state'[x] = request_state[x]
<1>1. ASSUME UNCHANGED slots, Same, Unapplied' = Unapplied  PROVE SlotStep
  <2>1. InSlot' = InSlot
    BY <1>1 DEF InSlot, SlotIndices
  <2>. QED  BY <1>1, <2>1 DEF SlotStep, OnlyTouches
<1>2. request_state \in [Requests -> RequestRecords]
  BY DEF TInv, SInv, HInv, Placed, Typed
<1>3. ASSUME NEW r \in Requests, Status(r) \notin {"prefill", "decoding"},
             \A x \in Requests : x # r => request_state'[x] = request_state[x]
      PROVE  Same
  <2>1. \A x \in InSlot : x \in Requests /\ x # r
    BY <1>3, InSlotTyped DEF TInv, Running, Status
  <2>. QED  BY <1>3, <2>1
<1>4. UNCHANGED request_state => Same
  OBVIOUS
<1>. HIDE DEF Same
<1>5. CASE BeginStep \/ DrainEmpty \/ AdmitPass \/ AdmitPassDone \/ PlanPrefill
           \/ AllApplied \/ AllFailed \/ BeginDecode \/ ChooseBatch
           \/ \E r \in Requests : EnsureStalled(r)
  <2>1. /\ UNCHANGED <<slots, request_state>> /\ phase' \notin {"apply", "finish"}
        /\ phase \notin {"apply", "finish"} \/ (phase = "apply" /\ local.outputs = << >>)
    BY <1>5 DEF BeginStep, DrainEmpty, AdmitPass, AdmitPassDone, PlanPrefill, AllApplied,
       AllFailed, BeginDecode, ChooseBatch, EnsureStalled, EnsureCapacity, AllChecked,
       Goto, EndStep
  <2>2. OutputsOf(<< >>) = {}
    BY DEF OutputsOf
  <2>3. Unapplied' = Unapplied
    BY <2>1, <2>2, DueIs
  <2>. QED  BY <1>1, <1>4, <2>1, <2>3
<1>6. CASE DrainOne
  <2>1. /\ UNCHANGED <<slots, phase>> /\ phase = "drain"
        /\ request_state' = [request_state EXCEPT ![Head(request_queue)].status = "waiting"]
    BY <1>6 DEF DrainOne
  <2>2. Head(request_queue) \in Requests /\ Status(Head(request_queue)) = "waiting"
    <3>1. request_queue \in Seq(Requests) /\ request_queue # << >>
      BY <1>6 DEF DrainOne, TInv, SInv, HInv, IInv, ListsTyped
    <3>2. Head(request_queue) \in Range(request_queue)
      BY <3>1, TailOfDistinct DEF TInv, SInv, HInv, Placed, Homes
    <3>. QED  BY <3>2 DEF TInv, SInv, HInv, Placed, Homes, InStatus
  <2>3. Same
    BY <1>2, <1>3, <2>1, <2>2
  <2>. QED  BY <1>1, <2>1, <2>3, DueIs
<1>7. CASE DeferOne
  <2>1. /\ UNCHANGED <<slots, phase>> /\ phase = "admitting"
        /\ request_state' = [request_state EXCEPT ![Candidate].status = "waiting"]
    BY <1>7 DEF DeferOne, Admitting
  <2>2. Candidate \in Requests /\ Status(Candidate) = "waiting"
    BY <1>7, CandidateWaits DEF DeferOne, TInv, SInv
  <2>3. Same
    BY <1>2, <1>3, <2>1, <2>2
  <2>. QED  BY <1>1, <2>1, <2>3, DueIs
<1>8. CASE \E r \in Requests : Submit(r)
  <2>1. PICK r \in Requests : Submit(r)
    BY <1>8
  <2>2. /\ UNCHANGED <<slots, phase, local>> /\ Status(r) = "new"
        /\ \E s \in Shapes :
             request_state' = [request_state EXCEPT ![r] =
                                 NewRequestState(s.prompt, s.max_new_tokens)]
    BY <2>1 DEF Submit
  <2>3. Same
    BY <1>2, <1>3, <2>2
  <2>4. Unapplied' = Unapplied
    BY <2>2 DEF Unapplied
  <2>. QED  BY <1>1, <2>2, <2>3, <2>4
<1>. QED  BY <1>5, <1>6, <1>7, <1>8

(* Admission.                                                                *)
LEMMA AdmitOneIsASlotStep ==
  ASSUME TInv, TInv', AdmitOne
  PROVE  SlotStep
<1>. DEFINE r == Candidate
            q == request_state[r]
            p == request_state'[r]
<1>1. /\ r \in Requests /\ q.status = "waiting" /\ q \in RequestRecords
      /\ request_state \in [Requests -> RequestRecords]
  BY CandidateWaits DEF AdmitOne, TInv, SInv, HInv, Placed, Typed, Status
<1>2. InSlot' = InSlot \cup {r} /\ r \notin InSlot
  BY AdmissionKeeps DEF TInv, SInv, HInv
<1>3. /\ request_state' = [request_state EXCEPT ![r].status = "prefill",
                                                ![r].block_table = block_tables'[r],
                                                ![r].prompt_tokens = q.prompt]
      /\ phase = "admitting" /\ phase' = "admitting"
  BY DEF AdmitOne, Admitting
<1>4. q.num_computed_tokens = 0 /\ q.generated_tokens = 0
  BY <1>1 DEF TInv, SInv, Counted, RecordsRight, RecordRight
<1>5. /\ p.block_table = block_tables'[r] /\ p.num_computed_tokens = 0
      /\ p.generated_tokens = 0 /\ p.prompt_tokens \in Nat
  <2>. DEFINE table == block_tables'[r]
              n == q.prompt
  <2>1. p = [q EXCEPT !.status = "prefill", !.block_table = table, !.prompt_tokens = n]
    BY <1>1, <1>3
  <2>2. n \in Nat
    BY <1>1 DEF RequestRecords
  <2>. HIDE DEF q, p, table, n
  <2>. QED  BY <1>1, <1>4, <2>1, <2>2 DEF RequestRecords, table
<1>6. HasRoom(p, block_tables'[r])
  BY <1>2 DEF TInv, Roomy
<1>7. CopyReaches(p)
  <2>1. 0 <= p.prompt_tokens + p.generated_tokens
    BY <1>5
  <2>. QED  BY <1>5, <1>6, <2>1 DEF CopyReaches, HasRoom
<1>8. OnlyTouches(r) /\ Enters(r)
  <2>1. \A x \in InSlot : x \in Requests /\ x # r
    BY <1>2, InSlotTyped DEF TInv
  <2>2. Unapplied = {} /\ Unapplied' = {}
    BY <1>3, DueIs
  <2>. HIDE DEF r
  <2>3. \A x \in InSlot : request_state'[x] = request_state[x]
    BY <1>1, <1>3, <2>1
  <2>. QED  BY <1>2, <1>5, <1>7, <2>1, <2>2, <2>3 DEF OnlyTouches, Enters
<1>. HIDE DEF r
<1>. QED  BY <1>1, <1>8 DEF SlotStep

(* The next token's block.                                                   *)
LEMMA EnsureRunnableIsASlotStep ==
  ASSUME TInv, NEW r \in Requests, EnsureRunnable(r)
  PROVE  SlotStep
<1>. DEFINE q == request_state[r]
            table == block_tables'[r]
            p == [q EXCEPT !.block_table = table]
<1>1. /\ r \in InSlot /\ q \in RequestRecords /\ HasRoom(q, table) /\ phase = "ensure"
  BY GrowingTable DEF EnsureRunnable
<1>2. UNCHANGED <<slots, phase>> /\ request_state' = [request_state EXCEPT ![r].block_table = table]
  BY DEF EnsureRunnable
<1>3. request_state \in [Requests -> RequestRecords] /\ \A x \in InSlot : x \in Requests
  BY InSlotTyped DEF TInv, SInv, HInv, Placed, Typed
<1>. HIDE DEF table
<1>4. request_state'[r] = p /\ \A x \in InSlot : x # r => request_state'[x] = request_state[x]
  BY <1>2, <1>3
<1>5. SameTokens(q, p) /\ p.num_computed_tokens = q.num_computed_tokens /\ p.block_table = table
  <2>. HIDE DEF q
  <2>. QED  BY <1>1 DEF SameTokens, RequestRecords
<1>6. Unapplied = {} /\ Unapplied' = {} /\ InSlot' = InSlot
  BY <1>1, <1>2, DueIs DEF InSlot, SlotIndices
<1>. HIDE DEF p
<1>7. OnlyTouches(r) /\ Extends(r)
  BY <1>1, <1>4, <1>5, <1>6 DEF OnlyTouches, Extends, HasRoom
<1>. QED  BY <1>7 DEF SlotStep

(* An output that is applied.                                                *)
LEMMA ApplyOutputIsASlotStep ==
  ASSUME TInv, ApplyOutput
  PROVE  SlotStep
<1>. DEFINE outputs == local.outputs
            output == Head(outputs)
            r == output.request_id
            q == request_state[r]
            p == WithOutput(q, output)
<1>1. phase = "apply" /\ outputs # << >>
  BY DEF ApplyOutput
<1>2. /\ r \in Requests /\ Running(q) /\ Len(outputs) \in Nat /\ 1 \in 1 .. Len(outputs)
      /\ output = outputs[1]
  BY <1>1, OutputsRest DEF TInv, SInv
<1>3. q \in RequestRecords /\ request_state \in [Requests -> RequestRecords]
  BY <1>2 DEF TInv, SInv, HInv, Placed, Typed
<1>4. r \in InSlot /\ r \in Unapplied
  <2>1. r \in InSlot
    BY <1>2 DEF TInv, SInv, HInv, Placed, Homes, InStatus, Status, Running
  <2>2. r \in OutputsOf(outputs)
    <3>. HIDE DEF outputs, output
    <3>. QED  BY <1>2 DEF OutputsOf
  <2>. QED  BY <1>1, <2>1, <2>2, DueIs
<1>5. /\ request_state' = [request_state EXCEPT ![r] = p] /\ UNCHANGED slots
      /\ phase' \in {"apply", "finish"}
      /\ local'.outputs = outputs \/ local'.outputs = Tail(outputs)
  BY <1>2, <1>3 DEF ApplyOutput, Goto, TInv, SInv, HInv, Placed, Typed, Locals
<1>6. /\ SameTokens(q, p) /\ p.block_table = q.block_table
      /\ p.num_computed_tokens = q.prompt_tokens + q.generated_tokens
  <2>. HIDE DEF q
  <2>. QED  BY <1>3 DEF SameTokens, WithOutput, RequestRecords
<1>7. \A x \in InSlot \ {r} : x \in Unapplied' <=> x \in Unapplied
  BY <1>1, <1>5, DueIs, DueOfOthers DEF TInv, SInv
<1>8. InSlot' = InSlot /\ \A x \in InSlot : x \in Requests
  BY <1>5, InSlotTyped DEF InSlot, SlotIndices, TInv
<1>. HIDE DEF p, r
<1>9. request_state'[r] = p /\ \A x \in InSlot \ {r} : request_state'[x] = request_state[x]
  BY <1>2, <1>3, <1>5, <1>8
<1>10. OnlyTouches(r) /\ Counts(r)
  BY <1>4, <1>6, <1>7, <1>8, <1>9 DEF OnlyTouches, Counts, TokenPosition
<1>. QED  BY <1>2, <1>10 DEF SlotStep

LEMMA StepsAreSlotSteps ==
  ASSUME TInv, TInv',
         StepWithoutEngine \/ FailPrefill \/ \E r \in Requests : Submit(r)
  PROVE  SlotStep
BY OtherStepsAreSlotSteps, EndingStepsAreSlotSteps, AdmitOneIsASlotStep,
   EnsureRunnableIsASlotStep, ApplyOutputIsASlotStep DEF StepWithoutEngine

-----------------------------------------------------------------------------
(* What such a step means for the copies and for what the cache holds *)

(* The held tokens of a request in a slot have their blocks.                 *)
LEMMA HeldIsReached ==
  ASSUME CopyInv, NEW r \in InSlot
  PROVE  /\ Held(r) <= TokenPosition(r)
         /\ \A p \in 0 .. TokenPosition(r) - 1 : Reaches(r, p)
         /\ \A p \in 0 .. Held(r) - 1 : Reaches(r, p)
<1>1. Held(r) \in Nat /\ TokenPosition(r) \in Nat
  BY HeldTyped DEF CopyInv
<1>2. CopyReaches(request_state[r])
  BY DEF CopyInv, CopiesReach
<1>3. Held(r) <= TokenPosition(r)
  BY <1>1, <1>2 DEF Held, TokenPosition, CopyReaches
<1>4. ASSUME NEW p \in 0 .. TokenPosition(r) - 1  PROVE Reaches(r, p)
  <2>. DEFINE need == KV!BlocksNeeded(TokenPosition(r))
              len == Len(request_state[r].block_table)
              block == Pool!LogicalBlock(p)
  <2>1. need \in Nat /\ block < need
    BY <1>1, BlocksNeededNat, PositionsHaveBlocks
  <2>2. need <= len
    BY <1>2 DEF CopyReaches, TokenPosition
  <2>3. len \in Nat
    <3>1. request_state[r].block_table \in Seq(KV!Blocks)
      BY InSlotTyped DEF CopyInv, TInv
    <3>. QED  BY <3>1, LenProperties
  <2>4. p \in Nat /\ block \in Nat
    <3>1. p \in Nat
      BY <1>1
    <3>. QED  BY <3>1, PoolAssumption, QuotientAndRemainder DEF Pool!LogicalBlock
  <2>. HIDE DEF need, len, block
  <2>5. block < len
    BY <2>1, <2>2, <2>3, <2>4
  <2>. QED  BY <2>4, <2>5 DEF Reaches, len, block
<1>5. \A p \in 0 .. Held(r) - 1 : p \in 0 .. TokenPosition(r) - 1
  BY <1>1, <1>3
<1>. QED  BY <1>3, <1>4, <1>5

LEMMA SlotStepKeepsCopies ==
  ASSUME CopyInv, SlotStep
  PROVE  CopiesReach'
<1>1. ASSUME NEW x \in InSlot, request_state'[x] = request_state[x]
      PROVE  CopyReaches(request_state'[x])
  BY <1>1 DEF CopyInv, CopiesReach
<1>2. CASE OnlyTouches(NoRequest)
  BY <1>1, <1>2, NobodyIsNotInSlot DEF OnlyTouches, CopiesReach, InSlot
<1>3. ASSUME NEW r \in Requests, OnlyTouches(r),
             Leaves(r) \/ Enters(r) \/ Extends(r) \/ Counts(r)
      PROVE  CopiesReach'
  <2>. DEFINE q == request_state[r]
              p == request_state'[r]
  <2>1. ASSUME r \in InSlot'  PROVE CopyReaches(p)
    <3>1. CASE Enters(r)
      BY <3>1 DEF Enters
    <3>2. CASE Extends(r) \/ Counts(r)
      <4>1. r \in InSlot
        BY <3>2 DEF Extends, Counts
      <4>2. /\ CopyReaches(q) /\ Len(q.block_table) \in Nat
            /\ KV!BlocksNeeded(q.prompt_tokens + q.generated_tokens) \in Nat
            /\ q.prompt_tokens + q.generated_tokens \in Nat
        <5>1. /\ q.prompt_tokens \in Nat /\ q.generated_tokens \in Nat
              /\ q.block_table \in Seq(KV!Blocks)
          BY <4>1, InSlotTyped DEF CopyInv, TInv
        <5>2. q.prompt_tokens + q.generated_tokens \in Nat
          BY <5>1
        <5>. QED  BY <4>1, <5>1, <5>2, LenProperties, BlocksNeededNat DEF CopyInv, CopiesReach
      <4>3. CASE Extends(r)
        <5>1. Len(q.block_table) <= Len(p.block_table)
          BY <4>3 DEF Extends, IsPrefix
        <5>. QED  BY <4>2, <4>3, <5>1 DEF Extends, SameTokens, CopyReaches
      <4>4. CASE Counts(r)
        BY <4>2, <4>4 DEF Counts, SameTokens, CopyReaches, TokenPosition
      <4>. QED  BY <3>2, <4>3, <4>4
    <3>. QED  BY <1>3, <2>1, <3>1, <3>2 DEF Leaves
  <2>2. ASSUME NEW x \in InSlot', x # r  PROVE CopyReaches(request_state'[x])
    BY <1>1, <1>3, <2>2 DEF OnlyTouches
  <2>. QED  BY <2>1, <2>2 DEF CopiesReach
<1>. QED  BY <1>2, <1>3 DEF SlotStep

(* The same address through a longer table.                                  *)
LEMMA SameCell ==
  ASSUME NEW s \in Seq(KV!Blocks), NEW t \in Seq(KV!Blocks), IsPrefix(s, t),
         NEW p \in Nat, Pool!LogicalBlock(p) < Len(s), NEW l
  PROVE  Pool!CellOf(l, t, p) = Pool!CellOf(l, s, p)
<1>. DEFINE i == Pool!LogicalBlock(p) + 1
<1>1. Pool!LogicalBlock(p) \in Nat /\ Len(s) \in Nat
  BY PoolAssumption, QuotientAndRemainder, LenProperties DEF Pool!LogicalBlock
<1>2. i \in 1 .. Len(s)
  BY <1>1
<1>. HIDE DEF i
<1>3. s[i] = t[i]
  BY <1>2, PrefixEntries
<1>. QED  BY <1>3 DEF Pool!CellOf, Pool!LocateToken, i

(* If nothing held of those who stay is written over, the cache stays right. *)
LEMMA SlotStepKeepsCache ==
  ASSUME CopyInv, TInv', CacheRight, SlotStep,
         \A x \in InSlot' \cap InSlot : \A p \in 0 .. Held(x) - 1 : \A l \in Layers :
           LET table == request_state[x].block_table
           IN  Pool!ReadRequestToken(cache', l, table, p)
                 = Pool!ReadRequestToken(cache, l, table, p)
  PROVE  CacheRight'
<1>1. ASSUME NEW x \in InSlot \cap InSlot', Held(x)' = Held(x),
             IsPrefix(request_state[x].block_table, request_state'[x].block_table),
             NEW p \in 0 .. Held(x)' - 1
      PROVE  HoldsToken(x, p)'
  <2>. DEFINE s == request_state[x].block_table
              t == request_state'[x].block_table
  <2>1. Held(x) \in Nat /\ s \in Seq(KV!Blocks)
    BY HeldTyped, InSlotTyped DEF CopyInv, TInv
  <2>2. t \in Seq(KV!Blocks)
    <3>1. x \in Requests /\ request_state'[x] \in RequestRecords
      BY InSlotTyped DEF CopyInv, TInv, SInv, HInv, Placed, Typed, RequestRecords
    <3>. QED  BY <3>1 DEF RequestRecords
  <2>3. p \in 0 .. Held(x) - 1 /\ p \in Nat /\ Pool!LogicalBlock(p) < Len(s)
    <3>1. p \in 0 .. Held(x) - 1
      BY <1>1
    <3>. QED  BY <2>1, <3>1, HeldIsReached DEF Reaches
  <2>4. ASSUME NEW l \in Layers
        PROVE  Pool!ReadRequestToken(cache', l, t, p) = Token(x, p)
    <3>1. Pool!CellOf(l, t, p) = Pool!CellOf(l, s, p)
      <4>. HIDE DEF s, t
      <4>. QED  BY <1>1, <2>1, <2>2, <2>3, SameCell DEF s, t
    <3>2. Pool!ReadRequestToken(cache', l, t, p) = Pool!ReadRequestToken(cache', l, s, p)
      BY <3>1 DEF Pool!ReadRequestToken
    <3>3. Pool!ReadRequestToken(cache', l, s, p) = Pool!ReadRequestToken(cache, l, s, p)
      BY <2>3
    <3>4. Pool!ReadRequestToken(cache, l, s, p) = Token(x, p)
      BY <2>3 DEF CacheRight, HoldsToken
    <3>. QED  BY <3>2, <3>3, <3>4
  <2>. QED  BY <2>4 DEF HoldsToken
<1>2. ASSUME NEW x \in InSlot \cap InSlot', request_state'[x] = request_state[x],
             x \in Unapplied' <=> x \in Unapplied
      PROVE  \A p \in 0 .. Held(x)' - 1 : HoldsToken(x, p)'
  <2>1. Held(x)' = Held(x)
    BY <1>2 DEF Held, TokenPosition
  <2>2. request_state[x].block_table \in Seq(KV!Blocks)
    BY InSlotTyped DEF CopyInv, TInv
  <2>3. IsPrefix(request_state[x].block_table, request_state'[x].block_table)
    BY <1>2, <2>2, LenProperties DEF IsPrefix
  <2>. QED  BY <1>1, <2>1, <2>3
<1>3. CASE OnlyTouches(NoRequest)
  <2>1. InSlot' = InSlot
    BY <1>3, NobodyIsNotInSlot DEF OnlyTouches, InSlot
  <2>2. \A x \in InSlot : request_state'[x] = request_state[x] /\ (x \in Unapplied' <=> x \in Unapplied)
    BY <1>3, NobodyIsNotInSlot DEF OnlyTouches
  <2>. QED  BY <1>2, <2>1, <2>2 DEF CacheRight
<1>4. ASSUME NEW r \in Requests, OnlyTouches(r),
             Leaves(r) \/ Enters(r) \/ Extends(r) \/ Counts(r)
      PROVE  CacheRight'
  <2>. DEFINE q == request_state[r]
              p == request_state'[r]
  <2>1. ASSUME r \in InSlot'  PROVE \A n \in 0 .. Held(r)' - 1 : HoldsToken(r, n)'
    <3>1. CASE Enters(r)
      <4>1. Held(r)' = 0
        BY <3>1 DEF Enters, Held
      <4>. QED  BY <4>1
    <3>2. CASE Extends(r)
      <4>1. Held(r)' = Held(r)
        BY <3>2 DEF Extends, SameTokens, Held, TokenPosition
      <4>. QED  BY <1>1, <2>1, <3>2, <4>1 DEF Extends
    <3>3. CASE Counts(r)
      <4>1. Held(r)' = Held(r)
        BY <3>3 DEF Counts, SameTokens, Held, TokenPosition
      <4>2. q.block_table \in Seq(KV!Blocks)
        BY <3>3, InSlotTyped DEF Counts, CopyInv, TInv
      <4>3. IsPrefix(q.block_table, p.block_table)
        BY <3>3, <4>2, LenProperties DEF Counts, IsPrefix
      <4>. QED  BY <1>1, <2>1, <3>3, <4>1, <4>3 DEF Counts
    <3>. QED  BY <1>4, <2>1, <3>1, <3>2, <3>3 DEF Leaves
  <2>2. ASSUME NEW x \in InSlot', x # r  PROVE \A n \in 0 .. Held(x)' - 1 : HoldsToken(x, n)'
    BY <1>2, <1>4, <2>2 DEF OnlyTouches
  <2>. QED  BY <2>1, <2>2 DEF CacheRight
<1>. QED  BY <1>3, <1>4 DEF SlotStep

-----------------------------------------------------------------------------
(* The engine's writes *)

LEMMA LayersAre ==
  Cardinality(Layers) \in Nat \ {0} /\ Layers = 0 .. Cardinality(Layers) - 1
<1>1. Cardinality(Layers) \in Nat /\ (Cardinality(Layers) = 0 <=> Layers = {})
  BY LayersAssumption, FS_CardinalityType, FS_EmptySet
<1>. QED  BY <1>1, LayersAssumption

(* A function on 1 .. n is a list.                                           *)
LEMMA FunctionsAreLists ==
  ASSUME NEW n \in Nat, NEW s, s = [i \in 1 .. n |-> s[i]]
  PROVE  s \in Seq(Range(s)) /\ Len(s) = n /\ DOMAIN s = 1 .. n
<1>. DEFINE R == Range(s)
<1>1. DOMAIN s = 1 .. n /\ \A i \in 1 .. n : s[i] \in R
  BY DEF Range
<1>. HIDE DEF R
<1>2. s \in [1 .. n -> R]
  BY <1>1
<1>3. s \in Seq(R)
  BY <1>2, SeqDef
<1>. QED  BY <1>1, <1>3, LenProperties DEF R

(* When a call raises, the first of its writes were carried out.             *)
LEMMA SomeOfTheWrites ==
  ASSUME NEW w, w \in Seq(Range(w)), WritesNewTokens(w), NEW n \in 0 .. Len(w)
  PROVE  Len(SubSeq(w, 1, n)) \in Nat /\ WritesNewTokens(SubSeq(w, 1, n))
<1>. DEFINE v == SubSeq(w, 1, n)
<1>1. Len(w) \in Nat /\ n \in Nat
  BY LenProperties
<1>2. Len(v) = n
  BY CutDeque
<1>3. \A i \in 1 .. n : i \in 1 .. Len(w) /\ v[i] = w[i]
  <2>1. \A i \in 1 .. n - 1 + 1 : v[i] = w[1 + i - 1]
    <3>1. \A i \in 1 .. n : w[i] \in Range(w)
      BY <1>1, ElementOfSeq
    <3>2. 1 \in Nat \ {0} /\ n \in Nat
      BY <1>1
    <3>. QED  BY <3>1, <1>1, SubSeqProperties
  <2>2. \A i \in 1 .. n : i \in 1 .. n - 1 + 1 /\ 1 + i - 1 = i /\ i \in 1 .. Len(w)
    BY <1>1
  <2>. QED  BY <2>1, <2>2
<1>. HIDE DEF v
<1>. QED  BY <1>1, <1>2, <1>3 DEF WritesNewTokens, v

(* The chunk that is about to be computed.                                   *)
LEMMA ChunkBounds ==
  ASSUME CopyInv, Prefilling
  PROVE  LET r     == Head(local.work_plan).request_state
             q     == request_state[r]
             start == q.num_computed_tokens
             end   == ChunkEnd(r, Head(local.work_plan).num_scheduled_tokens)
         IN  /\ r \in InSlot /\ r \in Requests /\ q.status = "prefill" /\ q \in RequestRecords
             /\ start \in Nat /\ end \in Nat /\ start <= end /\ end <= q.prompt_tokens
             /\ q.prompt_tokens \in Nat /\ q.generated_tokens = 0
             /\ TokenPosition(r) = q.prompt_tokens
             /\ Unapplied = {} /\ Held(r) = start
<1>. DEFINE r     == Head(local.work_plan).request_state
            n     == Head(local.work_plan).num_scheduled_tokens
            q     == request_state[r]
            start == q.num_computed_tokens
            end   == ChunkEnd(r, n)
<1>1. r \in Requests /\ q.status = "prefill" /\ n \in Nat /\ phase = "prefill"
  BY ChunkIsPrefilling DEF Prefilling, CopyInv, TInv, SInv, Status
<1>2. q \in RequestRecords
  BY <1>1 DEF CopyInv, TInv, SInv, HInv, Placed, Typed
<1>3. r \in InSlot
  BY <1>1 DEF CopyInv, TInv, SInv, HInv, Placed, Homes, InStatus, Status
<1>4. q.generated_tokens = 0 /\ start < q.prompt_tokens
  BY <1>1 DEF CopyInv, TInv, SInv, Counted, RecordsRight, RecordRight
<1>5. start \in Nat /\ q.prompt_tokens \in Nat
  BY <1>2 DEF RequestRecords
<1>6. Unapplied = {} /\ Held(r) = start
  BY <1>1, DueIs DEF Held
<1>7. end = IF start + n <= q.prompt_tokens THEN start + n ELSE q.prompt_tokens
  BY DEF ChunkEnd
<1>8. TokenPosition(r) = q.prompt_tokens
  BY <1>4, <1>5 DEF TokenPosition
<1>. HIDE DEF n, q, end
<1>9. end \in Nat /\ start <= end /\ end <= q.prompt_tokens
  BY <1>1, <1>4, <1>5, <1>7
<1>. QED  BY <1>1, <1>2, <1>3, <1>4, <1>5, <1>6, <1>8, <1>9 DEF n, q, end

(* It is written to the cells of its tokens, in every layer.                 *)
LEMMA ChunkWritesAre ==
  ASSUME CopyInv, Prefilling
  PROVE  LET r     == Head(local.work_plan).request_state
             start == request_state[r].num_computed_tokens
             end   == ChunkEnd(r, Head(local.work_plan).num_scheduled_tokens)
             w     == CurrentChunkWrites
         IN  /\ w \in Seq(Range(w)) /\ WritesNewTokens(w)
             /\ \A p \in start .. end - 1 : WritesToken(w, r, p)
<1>. DEFINE r     == Head(local.work_plan).request_state
            start == request_state[r].num_computed_tokens
            end   == ChunkEnd(r, Head(local.work_plan).num_scheduled_tokens)
            w     == CurrentChunkWrites
            k     == Cardinality(Layers)
            m     == end - start
            kvs   == ComputedTokens(r, start, end)
            table == request_state[r].block_table
<1>1. /\ r \in InSlot /\ start \in Nat /\ end \in Nat /\ start <= end
      /\ end <= TokenPosition(r) /\ TokenPosition(r) \in Nat /\ Held(r) = start
  BY ChunkBounds
<1>2. k \in Nat \ {0} /\ Layers = 0 .. k - 1 /\ m \in Nat
  BY <1>1, LayersAre
<1>3. kvs = [l \in 1 .. k |-> [i \in 1 .. m |-> Token(r, start + i - 1)]]
  BY DEF ComputedTokens
<1>4. w = Pool!PastKeyValuesWrites(table, kvs, start)
  BY DEF CurrentChunkWrites, ChunkWrites
<1>. HIDE DEF kvs, table, start, end, r, w, m, k
<1>5. Len(kvs) = k /\ kvs \in Seq(Range(kvs)) /\ Len(kvs[1]) = m
  <2>1. kvs[1] = [i \in 1 .. m |-> Token(r, start + i - 1)] /\ DOMAIN kvs = 1 .. k
    BY <1>2, <1>3
  <2>. DEFINE row == kvs[1]
  <2>2. row = [i \in 1 .. m |-> row[i]] /\ kvs = [l \in 1 .. k |-> kvs[l]]
    BY <1>3, <2>1
  <2>. HIDE DEF row
  <2>3. row \in Seq(Range(row)) /\ Len(row) = m
    BY <1>2, <2>2, FunctionsAreLists
  <2>4. kvs \in Seq(Range(kvs)) /\ Len(kvs) = k
    BY <1>2, <2>2, FunctionsAreLists
  <2>. QED  BY <2>3, <2>4 DEF row
<1>6. w = [i \in 1 .. k * m |->
             Pool!Write((i - 1) \div m, table, start + ((i - 1) % m),
                        kvs[(i - 1) \div m + 1][((i - 1) % m) + 1])]
  BY <1>4, <1>5 DEF Pool!PastKeyValuesWrites
<1>7. /\ k * m \in Nat
      /\ \A i \in 1 .. k * m : (i - 1) \div m \in Layers /\ (i - 1) % m \in 0 .. m - 1
      /\ \A l \in Layers, t \in 0 .. m - 1 :
           \E i \in 1 .. k * m : (i - 1) \div m = l /\ (i - 1) % m = t
  BY <1>2, RowsAndColumns
<1>8. ASSUME NEW i \in 1 .. k * m
      PROVE  w[i] = TokenWrite((i - 1) \div m, r, start + ((i - 1) % m))
  <2>. DEFINE l == (i - 1) \div m
              t == (i - 1) % m
  <2>1. l \in Layers /\ t \in 0 .. m - 1
    BY <1>7
  <2>2. w[i] = Pool!Write(l, table, start + t, kvs[l + 1][t + 1])
    BY <1>6
  <2>. HIDE DEF l, t
  <2>3. l + 1 \in 1 .. k /\ t + 1 \in 1 .. m /\ start + (t + 1) - 1 = start + t
    BY <1>1, <1>2, <2>1
  <2>4. kvs[l + 1][t + 1] = Token(r, start + t)
    BY <1>3, <2>3
  <2>5. w[i] = TokenWrite(l, r, start + t)
    BY <2>2, <2>4 DEF TokenWrite, table
  <2>. QED  BY <2>5 DEF l, t
<1>9. w \in Seq(Range(w)) /\ Len(w) = k * m
  <2>2. w = [i \in 1 .. k * m |-> w[i]]
    BY <1>6
  <2>. QED  BY <1>7, <2>2, FunctionsAreLists
<1>10. WritesNewTokens(w)
  <2>1. ASSUME NEW i \in 1 .. k * m
        PROVE  \E l \in Layers, x \in InSlot : \E p \in Nat :
                 Reaches(x, p) /\ p >= Held(x) /\ w[i] = TokenWrite(l, x, p)
    <3>. DEFINE l == (i - 1) \div m
                t == (i - 1) % m
                p == start + t
    <3>1. l \in Layers /\ t \in 0 .. m - 1 /\ w[i] = TokenWrite(l, r, p)
      BY <1>7, <1>8
    <3>. HIDE DEF l, t
    <3>2. p \in Nat /\ p >= Held(r) /\ p \in 0 .. TokenPosition(r) - 1
      BY <1>1, <1>2, <3>1 DEF m
    <3>3. Reaches(r, p)
      BY <1>1, <3>2, HeldIsReached
    <3>. QED  BY <1>1, <3>1, <3>2, <3>3
  <2>. QED  BY <1>9, <2>1 DEF WritesNewTokens
<1>11. ASSUME NEW p \in start .. end - 1  PROVE WritesToken(w, r, p)
  <2>. DEFINE t == p - start
  <2>1. t \in 0 .. m - 1 /\ p = start + t
    BY <1>1 DEF m
  <2>. HIDE DEF t
  <2>2. ASSUME NEW l \in Layers  PROVE \E i \in 1 .. Len(w) : w[i] = TokenWrite(l, r, p)
    <3>1. PICK i \in 1 .. k * m : (i - 1) \div m = l /\ (i - 1) % m = t
      BY <1>7, <2>1
    <3>2. w[i] = TokenWrite(l, r, start + t)
      BY <1>8, <3>1
    <3>. QED  BY <1>9, <2>1, <3>2
  <2>. QED  BY <2>2 DEF WritesToken
<1>. QED  BY <1>9, <1>10, <1>11 DEF r, start, end, w

(* The batch that is about to be decoded: each request has room for its      *)
(* next token, in the copy the engine has.                                   *)
LEMMA BatchReaches ==
  ASSUME CopyInv, phase = "run"
  PROVE  /\ local.decode_batch \in Seq(Requests) /\ Unapplied = {}
         /\ \A r \in Range(local.decode_batch) :
              /\ r \in InSlot /\ TokenPosition(r) \in Nat /\ TokenPosition(r) >= Held(r)
              /\ \A p \in 0 .. TokenPosition(r) : Reaches(r, p)
              /\ r \in Requests /\ request_state[r] \in RequestRecords
              /\ KV!BlocksNeeded(request_state[r].prompt_tokens
                                   + request_state[r].generated_tokens + 1)
                   <= Len(request_state[r].block_table)
              /\ request_state[r].num_computed_tokens = TokenPosition(r)
<1>1. local.decode_batch \in Seq(Requests) /\ Unapplied = {}
  BY DueIs DEF CopyInv, TInv, SInv, HInv, Placed, Typed, Locals
<1>2. ASSUME NEW r \in Range(local.decode_batch)
      PROVE  /\ r \in InSlot /\ TokenPosition(r) \in Nat /\ TokenPosition(r) >= Held(r)
             /\ \A p \in 0 .. TokenPosition(r) : Reaches(r, p)
             /\ r \in Requests /\ request_state[r] \in RequestRecords
             /\ KV!BlocksNeeded(request_state[r].prompt_tokens
                                  + request_state[r].generated_tokens + 1)
                  <= Len(request_state[r].block_table)
             /\ request_state[r].num_computed_tokens = TokenPosition(r)
  <2>1. r \in InStatus({"decoding"})
    BY DEF CopyInv, TInv, SInv, HInv, Placed, Loops, BatchIsDecoding, Distinct
  <2>2. r \in InSlot /\ r \in Checked
    BY <2>1, CheckedIs DEF CopyInv, TInv, SInv, HInv, Placed, Homes, InStatus
  <2>3. TokenPosition(r) \in Nat /\ Held(r) <= TokenPosition(r) /\ Held(r) \in Nat
    BY <2>2, HeldTyped, HeldIsReached DEF CopyInv
  <2>4. HasRoomForNext(request_state[r], block_tables[r])
    BY <2>2 DEF CopyInv, TInv, Roomy
  <2>5. r \in Requests /\ request_state[r] \in RequestRecords
        /\ request_state[r].block_table \in Seq(KV!Blocks)
    BY <2>2, InSlotTyped DEF CopyInv, TInv
  <2>6. KV!BlocksNeeded(request_state[r].prompt_tokens + request_state[r].generated_tokens + 1)
          <= Len(request_state[r].block_table)
    BY <2>4 DEF HasRoomForNext
  <2>7. ASSUME NEW p \in 0 .. TokenPosition(r)  PROVE Reaches(r, p)
    <3>. DEFINE n == TokenPosition(r) + 1
                len == Len(request_state[r].block_table)
                block == Pool!LogicalBlock(p)
    <3>1. n \in Nat /\ p \in 0 .. n - 1 /\ p \in Nat
      BY <2>3
    <3>2. KV!BlocksNeeded(n) <= len
      BY <2>6 DEF TokenPosition
    <3>. HIDE DEF n
    <3>3. block < KV!BlocksNeeded(n) /\ KV!BlocksNeeded(n) \in Nat
      BY <3>1, BlocksNeededNat, PositionsHaveBlocks
    <3>4. block \in Nat /\ len \in Nat
      BY <2>5, <3>1, LenProperties, PoolAssumption, QuotientAndRemainder DEF Pool!LogicalBlock
    <3>. HIDE DEF block, len
    <3>5. block < len
      BY <3>2, <3>3, <3>4
    <3>. QED  BY <3>1, <3>5 DEF Reaches, block, len
  <2>8. request_state[r].num_computed_tokens = TokenPosition(r)
    <3>1. r \notin Uncounted /\ request_state[r].status = "decoding"
      BY <2>1, UncountedIs DEF InStatus, Status
    <3>. QED
      BY <2>5, <3>1 DEF CopyInv, TInv, SInv, Counted, RecordsRight, RecordRight, TokenPosition
  <2>. QED  BY <2>2, <2>3, <2>5, <2>6, <2>7, <2>8
<1>. QED  BY <1>1, <1>2

LEMMA BatchWritesAre ==
  ASSUME CopyInv, phase = "run"
  PROVE  LET w == BatchWrites(local.decode_batch)
         IN  /\ w \in Seq(Range(w)) /\ WritesNewTokens(w)
             /\ \A r \in Range(local.decode_batch) : WritesToken(w, r, TokenPosition(r))
<1>. DEFINE batch == local.decode_batch
            w     == BatchWrites(batch)
            k     == Cardinality(Layers)
            n     == Len(batch)
<1>1. /\ batch \in Seq(Requests) /\ n \in Nat /\ DOMAIN batch = 1 .. n
      /\ \A r \in Range(batch) :
           /\ r \in InSlot /\ TokenPosition(r) \in Nat /\ TokenPosition(r) >= Held(r)
           /\ Reaches(r, TokenPosition(r))
  <2>1. batch \in Seq(Requests)
    BY BatchReaches
  <2>2. ASSUME NEW r \in Range(batch)
        PROVE  /\ r \in InSlot /\ TokenPosition(r) \in Nat /\ TokenPosition(r) >= Held(r)
               /\ Reaches(r, TokenPosition(r))
    <3>1. TokenPosition(r) \in Nat
      BY BatchReaches
    <3>2. TokenPosition(r) \in 0 .. TokenPosition(r)
      BY <3>1
    <3>. QED  BY <3>1, <3>2, BatchReaches
  <2>. QED  BY <2>1, <2>2, LenProperties
<1>2. k \in Nat /\ Layers = 0 .. k - 1
  BY LayersAre
<1>3. w = [i \in 1 .. k * n |->
             LET r == batch[((i - 1) % n) + 1]
             IN  Pool!Write((i - 1) \div n, request_state[r].block_table,
                            TokenPosition(r), Token(r, TokenPosition(r)))]
  BY DEF BatchWrites
<1>. HIDE DEF batch, w, k, n
<1>4. /\ k * n \in Nat
      /\ \A i \in 1 .. k * n : (i - 1) \div n \in Layers /\ (i - 1) % n \in 0 .. n - 1
      /\ \A l \in Layers, t \in 0 .. n - 1 :
           \E i \in 1 .. k * n : (i - 1) \div n = l /\ (i - 1) % n = t
  BY <1>1, <1>2, RowsAndColumns
<1>5. ASSUME NEW i \in 1 .. k * n
      PROVE  LET r == batch[((i - 1) % n) + 1]
             IN  r \in Range(batch) /\ w[i] = TokenWrite((i - 1) \div n, r, TokenPosition(r))
  <2>1. w[i] = TokenWrite((i - 1) \div n, batch[((i - 1) % n) + 1],
                          TokenPosition(batch[((i - 1) % n) + 1]))
    BY <1>3 DEF TokenWrite
  <2>2. (i - 1) % n \in 0 .. n - 1
    BY <1>4
  <2>3. ((i - 1) % n) + 1 \in DOMAIN batch
    BY <1>1, <2>2
  <2>. QED  BY <2>1, <2>3 DEF Range
<1>6. w \in Seq(Range(w)) /\ Len(w) = k * n
  <2>2. w = [i \in 1 .. k * n |-> w[i]]
    BY <1>3
  <2>. QED  BY <1>4, <2>2, FunctionsAreLists
<1>7. WritesNewTokens(w)
  <2>1. ASSUME NEW i \in 1 .. k * n
        PROVE  \E l \in Layers, x \in InSlot : \E p \in Nat :
                 Reaches(x, p) /\ p >= Held(x) /\ w[i] = TokenWrite(l, x, p)
    <3>. DEFINE l == (i - 1) \div n
                r == batch[((i - 1) % n) + 1]
    <3>1. l \in Layers /\ r \in Range(batch) /\ w[i] = TokenWrite(l, r, TokenPosition(r))
      BY <1>4, <1>5
    <3>. HIDE DEF l, r
    <3>. QED  BY <1>1, <3>1
  <2>. QED  BY <1>6, <2>1 DEF WritesNewTokens
<1>8. ASSUME NEW r \in Range(batch)  PROVE WritesToken(w, r, TokenPosition(r))
  <2>1. PICK j \in 1 .. n : batch[j] = r
    BY <1>1 DEF Range
  <2>. DEFINE t == j - 1
  <2>2. t \in 0 .. n - 1 /\ t + 1 = j
    BY <1>1
  <2>. HIDE DEF t
  <2>3. ASSUME NEW l \in Layers
        PROVE  \E i \in 1 .. Len(w) : w[i] = TokenWrite(l, r, TokenPosition(r))
    <3>1. PICK i \in 1 .. k * n : (i - 1) \div n = l /\ (i - 1) % n = t
      BY <1>4, <2>2
    <3>2. w[i] = TokenWrite(l, r, TokenPosition(r))
      BY <1>5, <2>1, <2>2, <3>1
    <3>. QED  BY <1>6, <3>2
  <2>. QED  BY <2>3 DEF WritesToken
<1>. QED  BY <1>6, <1>7, <1>8 DEF w, batch

-----------------------------------------------------------------------------
(* What the engine's calls leave behind *)

(* What is held of the requests in slots is read as before.                  *)
NothingLost ==
  \A x \in InSlot : \A p \in 0 .. Held(x) - 1 : \A l \in Layers :
    LET table == request_state[x].block_table
    IN  Pool!ReadRequestToken(cache', l, table, p) = Pool!ReadRequestToken(cache, l, table, p)

LEMMA WholeCall ==
  ASSUME CopyInv, CacheTyped, NEW w, Len(w) \in Nat, WritesNewTokens(w), WriteAll(w)
  PROVE  /\ CacheTyped' /\ NothingLost
         /\ \A x \in InSlot : \A p : Reaches(x, p) /\ WritesToken(w, x, p) =>
              \A l \in Layers :
                Pool!ReadRequestToken(cache', l, request_state[x].block_table, p) = Token(x, p)
<1>1. TInv /\ cache' = Pool!AfterWrites(cache, w)
  BY DEF CopyInv, WriteAll
<1>2. /\ cache' = [c \in Pool!Cells |-> cache'[c]]
      /\ \A x \in InSlot : \A p : \A l \in Layers :
           LET table == request_state[x].block_table
           IN  Reaches(x, p) =>
                 /\ p < Held(x) => Pool!ReadRequestToken(cache', l, table, p)
                                     = Pool!ReadRequestToken(cache, l, table, p)
                 /\ WritesToken(w, x, p) =>
                      Pool!ReadRequestToken(cache', l, table, p) = Token(x, p)
  BY <1>1, NewTokensLand
<1>3. CacheTyped'
  BY <1>2 DEF CacheTyped
<1>4. NothingLost
  <2>1. ASSUME NEW x \in InSlot, NEW p \in 0 .. Held(x) - 1
        PROVE  Reaches(x, p) /\ p < Held(x)
    <3>1. Held(x) \in Nat
      BY <1>1, HeldTyped
    <3>. QED  BY <3>1, HeldIsReached
  <2>. QED  BY <1>2, <2>1 DEF NothingLost
<1>. QED  BY <1>2, <1>3, <1>4

LEMMA PartOfACall ==
  ASSUME CopyInv, CacheTyped, NEW w, w \in Seq(Range(w)), WritesNewTokens(w), WriteSome(w)
  PROVE  CacheTyped' /\ NothingLost
<1>1. PICK n \in 0 .. Len(w) : WriteAll(SubSeq(w, 1, n))
  BY DEF WriteSome, WriteAll
<1>. DEFINE v == SubSeq(w, 1, n)
<1>2. Len(v) \in Nat /\ WritesNewTokens(v)
  BY SomeOfTheWrites
<1>. HIDE DEF v
<1>. QED  BY <1>1, <1>2, WholeCall DEF v

LEMMA NoCall ==
  ASSUME CacheTyped, UNCHANGED cache
  PROVE  CacheTyped' /\ NothingLost
BY DEF CacheTyped, NothingLost

(* The requests stay; what is held of each in addition has been written.     *)
LEMMA CacheStaysRight ==
  ASSUME CopyInv, CacheRight, NothingLost, InSlot' = InSlot,
         \A x \in InSlot :
           /\ request_state'[x].block_table = request_state[x].block_table /\ Held(x)' \in Nat
           /\ \A p \in Held(x) .. Held(x)' - 1 : \A l \in Layers :
                Pool!ReadRequestToken(cache', l, request_state[x].block_table, p) = Token(x, p)
  PROVE  CacheRight'
<1>1. ASSUME NEW x \in InSlot, NEW p \in 0 .. Held(x)' - 1, NEW l \in Layers
      PROVE  Pool!ReadRequestToken(cache', l, request_state'[x].block_table, p) = Token(x, p)
  <2>1. Held(x) \in Nat /\ Held(x)' \in Nat
    BY HeldTyped DEF CopyInv
  <2>2. p \in 0 .. Held(x) - 1 \/ p \in Held(x) .. Held(x)' - 1
    BY <2>1
  <2>3. CASE p \in 0 .. Held(x) - 1
    <3>1. Pool!ReadRequestToken(cache', l, request_state[x].block_table, p) = Token(x, p)
      BY <2>3 DEF NothingLost, CacheRight, HoldsToken
    <3>. QED  BY <3>1
  <2>4. CASE p \in Held(x) .. Held(x)' - 1
    BY <2>4
  <2>. QED  BY <2>2, <2>3, <2>4
<1>. QED  BY <1>1 DEF CacheRight, HoldsToken

LEMMA SlotStepsKeep ==
  ASSUME PInv, TInv', SlotStep, NothingLost
  PROVE  CopiesReach' /\ CacheRight'
<1>1. CopiesReach'
  BY SlotStepKeepsCopies DEF PInv
<1>2. CacheRight'
  <2>1. \A x \in InSlot' \cap InSlot : \A p \in 0 .. Held(x) - 1 : \A l \in Layers :
          LET table == request_state[x].block_table
          IN  Pool!ReadRequestToken(cache', l, table, p)
                = Pool!ReadRequestToken(cache, l, table, p)
    BY DEF NothingLost
  <2>. QED  BY <2>1, SlotStepKeepsCache DEF PInv
<1>. QED  BY <1>1, <1>2

LEMMA SchedulerStepKeepsCache ==
  ASSUME PInv, TInv', StepWithoutEngine \/ \E r \in Requests : Submit(r), UNCHANGED cache
  PROVE  CopiesReach' /\ CacheTyped' /\ CacheRight'
<1>1. CacheTyped' /\ NothingLost
  BY NoCall DEF PInv
<1>2. SlotStep
  BY StepsAreSlotSteps DEF PInv, CopyInv
<1>. QED  BY <1>1, <1>2, SlotStepsKeep

LEMMA FailPrefillKeepsCache ==
  ASSUME PInv, TInv', CachedFailPrefill
  PROVE  CopiesReach' /\ CacheTyped' /\ CacheRight'
<1>1. FailPrefill /\ Prefilling
  BY DEF CachedFailPrefill, FailPrefill
<1>2. SlotStep
  BY <1>1, StepsAreSlotSteps DEF PInv, CopyInv
<1>3. CacheTyped' /\ NothingLost
  <2>1. CASE EngineHasPrefillChunk
    <3>1. WriteSome(CurrentChunkWrites)
      BY <2>1 DEF CachedFailPrefill
    <3>2. CurrentChunkWrites \in Seq(Range(CurrentChunkWrites))
          /\ WritesNewTokens(CurrentChunkWrites)
      BY <1>1, ChunkWritesAre DEF PInv
    <3>. QED  BY <3>1, <3>2, PartOfACall DEF PInv
  <2>2. CASE ~ EngineHasPrefillChunk
    <3>1. UNCHANGED cache
      BY <2>2 DEF CachedFailPrefill
    <3>. QED  BY <3>1, NoCall DEF PInv
  <2>. QED  BY <2>1, <2>2
<1>. QED  BY <1>2, <1>3, SlotStepsKeep

LEMMA PrefillChunkKeepsCache ==
  ASSUME PInv, CachedPrefillChunk
  PROVE  CopiesReach' /\ CacheTyped' /\ CacheRight'
<1>. DEFINE r     == Head(local.work_plan).request_state
            q     == request_state[r]
            start == q.num_computed_tokens
            end   == ChunkEnd(r, Head(local.work_plan).num_scheduled_tokens)
            status == IF end = q.prompt_tokens THEN "decoding" ELSE q.status
            p     == [q EXCEPT !.num_computed_tokens = end, !.generated_tokens = 0,
                               !.status = status]
<1>1. CopyInv /\ Prefilling /\ phase = "prefill" /\ WriteAll(CurrentChunkWrites)
  BY DEF PInv, CachedPrefillChunk, PrefillChunk, Prefilling
<1>2. /\ r \in InSlot /\ r \in Requests /\ q \in RequestRecords
      /\ start \in Nat /\ end \in Nat /\ start <= end /\ end <= q.prompt_tokens
      /\ q.prompt_tokens \in Nat /\ q.generated_tokens = 0
      /\ TokenPosition(r) = q.prompt_tokens /\ Unapplied = {} /\ Held(r) = start
  BY <1>1, ChunkBounds
<1>3. /\ request_state \in [Requests -> RequestRecords]
      /\ \A x \in InSlot : x \in Requests
  BY <1>1, InSlotTyped DEF CopyInv, TInv, SInv, HInv, Placed, Typed
<1>4. /\ request_state' = [request_state EXCEPT ![r].num_computed_tokens = end,
                                                ![r].generated_tokens = 0,
                                                ![r].status = status]
      /\ UNCHANGED <<slots, phase>>
  BY DEF CachedPrefillChunk, PrefillChunk
<1>5. InSlot' = InSlot /\ Unapplied' = {}
  BY <1>1, <1>4, DueIs DEF InSlot, SlotIndices
<1>6. request_state'[r] = p /\ \A x \in InSlot : x # r => request_state'[x] = request_state[x]
  <2>. HIDE DEF r, end, status
  <2>. QED  BY <1>2, <1>3, <1>4 DEF p
<1>7. /\ p.num_computed_tokens = end /\ p.generated_tokens = 0
      /\ p.prompt_tokens = q.prompt_tokens /\ p.block_table = q.block_table
  <2>. HIDE DEF q, end, status
  <2>. QED  BY <1>2 DEF p, RequestRecords
<1>8. LET w == CurrentChunkWrites
      IN  /\ w \in Seq(Range(w)) /\ WritesNewTokens(w)
          /\ \A n \in start .. end - 1 : WritesToken(w, r, n)
  BY <1>1, ChunkWritesAre
<1>9. Len(CurrentChunkWrites) \in Nat
  BY <1>8, LenProperties
<1>10. /\ CacheTyped' /\ NothingLost
       /\ \A x \in InSlot : \A n : Reaches(x, n) /\ WritesToken(CurrentChunkWrites, x, n) =>
            \A l \in Layers :
              Pool!ReadRequestToken(cache', l, request_state[x].block_table, n) = Token(x, n)
  BY <1>1, <1>8, <1>9, WholeCall DEF PInv
<1>. HIDE DEF p
<1>11. CopiesReach'
  <2>1. CopyReaches(request_state'[r])
    <3>1. CopyReaches(q)
      BY <1>1, <1>2 DEF CopyInv, CopiesReach
    <3>. HIDE DEF q, end
    <3>2. KV!BlocksNeeded(p.prompt_tokens + p.generated_tokens) <= Len(p.block_table)
      BY <1>2, <1>7, <3>1 DEF CopyReaches
    <3>3. p.num_computed_tokens <= p.prompt_tokens + p.generated_tokens
      BY <1>2, <1>7
    <3>. QED  BY <1>6, <3>2, <3>3 DEF CopyReaches
  <2>2. ASSUME NEW x \in InSlot, x # r  PROVE CopyReaches(request_state'[x])
    BY <1>1, <1>6, <2>2 DEF CopyInv, CopiesReach
  <2>. QED  BY <1>5, <2>1, <2>2 DEF CopiesReach
<1>12. ASSUME NEW x \in InSlot
       PROVE  /\ request_state'[x].block_table = request_state[x].block_table
              /\ Held(x)' \in Nat
              /\ \A n \in Held(x) .. Held(x)' - 1 : \A l \in Layers :
                   Pool!ReadRequestToken(cache', l, request_state[x].block_table, n)
                     = Token(x, n)
  <2>1. CASE x = r
    <3>1. Held(x)' = end
      BY <1>5, <1>6, <1>7, <2>1 DEF Held
    <3>2. request_state'[x].block_table = request_state[x].block_table
      BY <1>6, <1>7, <2>1
    <3>3. ASSUME NEW n \in start .. end - 1
          PROVE  Reaches(r, n) /\ WritesToken(CurrentChunkWrites, r, n)
      <4>1. n \in 0 .. TokenPosition(r) - 1
        <5>. HIDE DEF start, end, q, r
        <5>. QED  BY <1>2
      <4>2. Reaches(r, n)
        BY <1>1, <1>2, <4>1, HeldIsReached
      <4>. QED  BY <1>8, <4>2
    <3>4. \A n \in start .. end - 1 : \A l \in Layers :
            Pool!ReadRequestToken(cache', l, request_state[r].block_table, n) = Token(r, n)
      BY <1>2, <1>10, <3>3
    <3>. HIDE DEF start, end, r
    <3>. QED  BY <1>2, <2>1, <3>1, <3>2, <3>4
  <2>2. CASE x # r
    <3>1. request_state'[x] = request_state[x]
      BY <1>6, <2>2
    <3>2. Held(x)' = Held(x)
      BY <1>2, <1>5, <3>1 DEF Held
    <3>3. Held(x) \in Nat
      BY <1>1, HeldTyped DEF CopyInv
    <3>4. \A n \in Held(x) .. Held(x) - 1 : FALSE
      BY <3>3
    <3>. QED  BY <3>1, <3>2, <3>3, <3>4
  <2>. QED  BY <2>1, <2>2
<1>13. CacheRight'
  BY <1>1, <1>5, <1>10, <1>12, CacheStaysRight DEF PInv
<1>. QED  BY <1>10, <1>11, <1>13

(* A token more for some requests of the batch.                              *)
LEMMA BatchKeepsCopies ==
  ASSUME PInv, phase = "run", UNCHANGED slots,
         \A x \in InSlot :
           LET q == request_state[x]
               p == request_state'[x]
           IN  /\ p.block_table = q.block_table /\ p.prompt_tokens = q.prompt_tokens
               /\ p.num_computed_tokens = q.num_computed_tokens
               /\ \/ p.generated_tokens = q.generated_tokens
                  \/ x \in Range(local.decode_batch)
                       /\ p.generated_tokens = q.generated_tokens + 1
  PROVE  InSlot' = InSlot /\ CopiesReach'
<1>1. InSlot' = InSlot
  BY DEF InSlot, SlotIndices
<1>2. ASSUME NEW x \in InSlot  PROVE CopyReaches(request_state'[x])
  <2>. DEFINE q == request_state[x]
              p == request_state'[x]
  <2>1. /\ q.prompt_tokens \in Nat /\ q.generated_tokens \in Nat
        /\ q.num_computed_tokens \in Nat /\ CopyReaches(q)
    BY InSlotTyped, HeldTyped DEF PInv, CopyInv, TInv, CopiesReach
  <2>2. CASE p.generated_tokens = q.generated_tokens
    BY <2>1, <2>2 DEF CopyReaches
  <2>3. CASE x \in Range(local.decode_batch) /\ p.generated_tokens = q.generated_tokens + 1
    <3>1. KV!BlocksNeeded(q.prompt_tokens + q.generated_tokens + 1) <= Len(q.block_table)
      BY <2>3, BatchReaches DEF PInv
    <3>2. p.prompt_tokens + p.generated_tokens = q.prompt_tokens + q.generated_tokens + 1
      <4>. HIDE DEF p, q
      <4>. QED  BY <2>1, <2>3 DEF p, q
    <3>3. p.num_computed_tokens <= q.prompt_tokens + q.generated_tokens + 1
      <4>. HIDE DEF p, q
      <4>. QED  BY <2>1 DEF p, q, CopyReaches
    <3>. QED  BY <3>1, <3>2, <3>3 DEF CopyReaches
  <2>. QED  BY <2>2, <2>3
<1>. QED  BY <1>1, <1>2 DEF CopiesReach

LEMMA RunDecodeBatchKeepsCache ==
  ASSUME PInv, CachedRunDecodeBatch
  PROVE  CopiesReach' /\ CacheTyped' /\ CacheRight'
<1>. DEFINE batch == local.decode_batch
            w == BatchWrites(batch)
<1>1. CopyInv /\ phase = "run" /\ phase' = "apply" /\ UNCHANGED slots /\ WriteAll(w)
  BY DEF PInv, CachedRunDecodeBatch, RunDecodeBatch
<1>2. /\ batch \in Seq(Requests) /\ Unapplied = {}
      /\ \A r \in Range(batch) :
           /\ TokenPosition(r) \in Nat /\ TokenPosition(r) >= Held(r)
           /\ \A p \in 0 .. TokenPosition(r) : Reaches(r, p)
           /\ request_state[r].num_computed_tokens = TokenPosition(r)
  BY <1>1, BatchReaches
<1>3. /\ w \in Seq(Range(w)) /\ WritesNewTokens(w)
      /\ \A r \in Range(batch) : WritesToken(w, r, TokenPosition(r))
  BY <1>1, BatchWritesAre
<1>4. Len(w) \in Nat
  BY <1>3, LenProperties
<1>5. /\ CacheTyped' /\ NothingLost
      /\ \A x \in InSlot : \A n : Reaches(x, n) /\ WritesToken(w, x, n) =>
           \A l \in Layers :
             Pool!ReadRequestToken(cache', l, request_state[x].block_table, n) = Token(x, n)
  BY <1>1, <1>3, <1>4, WholeCall DEF PInv
<1>6. Unapplied' = Range(batch)
  <2>1. /\ Len(local'.outputs) = Len(batch)
        /\ \A i \in 1 .. Len(batch) : local'.outputs[i].request_id = batch[i]
    <3>. DEFINE outputs(silent, eos) ==
                  [i \in 1 .. Len(batch) |->
                     [request_id |-> batch[i],
                      text |-> batch[i] \notin silent,
                      finished |-> Ends(batch[i], eos)]]
    <3>1. PICK silent \in SUBSET Range(batch) : \E eos \in SUBSET silent :
            local' = [local EXCEPT !.outputs = outputs(silent, eos)]
      BY DEF CachedRunDecodeBatch, RunDecodeBatch
    <3>2. PICK eos \in SUBSET silent : local' = [local EXCEPT !.outputs = outputs(silent, eos)]
      BY <3>1
    <3>3. local'.outputs = outputs(silent, eos)
      <4>1. local \in Locals
        BY <1>1 DEF CopyInv, TInv, SInv, HInv, Placed, Typed
      <4>. HIDE DEF outputs
      <4>. QED  BY <3>2, <4>1 DEF Locals
    <3>4. Len(batch) \in Nat
      BY <1>2, LenProperties
    <3>. DEFINE s == local'.outputs
                n == Len(batch)
    <3>5. s = [i \in 1 .. n |-> s[i]]
      BY <3>3
    <3>. HIDE DEF s, n
    <3>6. Len(s) = n
      BY <3>4, <3>5, FunctionsAreLists DEF n
    <3>. QED  BY <3>3, <3>6 DEF s, n
  <2>2. Unapplied' = OutputsOf(local'.outputs)
    BY <1>1, DueIs
  <2>3. Range(batch) = {batch[i] : i \in 1 .. Len(batch)}
    BY <1>2, LenProperties DEF Range
  <2>. QED  BY <2>1, <2>2, <2>3 DEF OutputsOf
<1>. HIDE DEF w
<1>7. ASSUME NEW x \in InSlot
      PROVE  LET q == request_state[x]
                 p == request_state'[x]
             IN  /\ p.block_table = q.block_table /\ p.prompt_tokens = q.prompt_tokens
                 /\ p.num_computed_tokens = q.num_computed_tokens
                 /\ p.generated_tokens = IF x \in Range(batch) THEN q.generated_tokens + 1
                                         ELSE q.generated_tokens
  <2>1. x \in Requests /\ request_state[x] \in RequestRecords
    BY <1>1, InSlotTyped DEF CopyInv, TInv
  <2>2. request_state'[x] = IF x \in Range(batch)
                            THEN [request_state[x] EXCEPT !.generated_tokens = @ + 1]
                            ELSE request_state[x]
    BY <2>1 DEF CachedRunDecodeBatch, RunDecodeBatch
  <2>. QED  BY <2>1, <2>2 DEF RequestRecords
<1>8. InSlot' = InSlot /\ CopiesReach'
  <2>1. \A x \in InSlot :
          LET q == request_state[x]
              p == request_state'[x]
          IN  /\ p.block_table = q.block_table /\ p.prompt_tokens = q.prompt_tokens
              /\ p.num_computed_tokens = q.num_computed_tokens
              /\ \/ p.generated_tokens = q.generated_tokens
                 \/ x \in Range(local.decode_batch)
                      /\ p.generated_tokens = q.generated_tokens + 1
    BY <1>7
  <2>. QED  BY <1>1, <2>1, BatchKeepsCopies
<1>9. ASSUME NEW x \in InSlot
      PROVE  /\ Held(x)' \in Nat
             /\ \A n \in Held(x) .. Held(x)' - 1 : \A l \in Layers :
                  Pool!ReadRequestToken(cache', l, request_state[x].block_table, n)
                    = Token(x, n)
  <2>1. /\ request_state[x].prompt_tokens \in Nat /\ request_state[x].generated_tokens \in Nat
        /\ Held(x) = request_state[x].num_computed_tokens /\ Held(x) \in Nat
    BY <1>1, <1>2, InSlotTyped, HeldTyped DEF CopyInv, TInv, Held
  <2>2. CASE x \in Range(batch)
    <3>1. TokenPosition(x)' = TokenPosition(x) + 1
      BY <1>7, <2>1, <2>2 DEF TokenPosition
    <3>2. Held(x)' = Held(x) + 1 /\ Held(x) = TokenPosition(x) /\ TokenPosition(x) \in Nat
      BY <1>2, <1>6, <2>1, <2>2, <3>1 DEF Held
    <3>3. \A n \in Held(x) .. Held(x)' - 1 : n = TokenPosition(x)
      BY <3>2
    <3>4. Reaches(x, TokenPosition(x)) /\ WritesToken(w, x, TokenPosition(x))
      <4>1. TokenPosition(x) \in 0 .. TokenPosition(x)
        BY <3>2
      <4>. QED  BY <1>2, <1>3, <2>2, <4>1
    <3>5. \A l \in Layers : Pool!ReadRequestToken(cache', l, request_state[x].block_table,
                              TokenPosition(x)) = Token(x, TokenPosition(x))
      BY <1>5, <3>4
    <3>. QED  BY <3>2, <3>3, <3>5
  <2>3. CASE x \notin Range(batch)
    <3>1. Held(x)' = Held(x)
      BY <1>6, <1>7, <2>1, <2>3 DEF Held
    <3>2. \A n \in Held(x) .. Held(x) - 1 : FALSE
      BY <2>1
    <3>. QED  BY <2>1, <3>1, <3>2
  <2>. QED  BY <2>2, <2>3
<1>10. CacheRight'
  <2>1. \A x \in InSlot : request_state'[x].block_table = request_state[x].block_table
    BY <1>7
  <2>. QED  BY <1>1, <1>5, <1>8, <1>9, <2>1, CacheStaysRight DEF PInv
<1>. QED  BY <1>5, <1>8, <1>10

LEMMA FailDecodeBatchKeepsCache ==
  ASSUME PInv, CachedFailDecodeBatch
  PROVE  CopiesReach' /\ CacheTyped' /\ CacheRight'
<1>. DEFINE batch == local.decode_batch
            w == BatchWrites(batch)
<1>1. /\ CopyInv /\ phase = "run" /\ phase' = "fail" /\ UNCHANGED slots
      /\ WriteSome(w) \/ UNCHANGED cache
  BY DEF PInv, CachedFailDecodeBatch, FailDecodeBatch
<1>2. CacheTyped' /\ NothingLost
  <2>1. CASE WriteSome(w)
    <3>1. w \in Seq(Range(w)) /\ WritesNewTokens(w)
      BY <1>1, BatchWritesAre
    <3>. QED  BY <1>1, <2>1, <3>1, PartOfACall DEF PInv
  <2>2. CASE UNCHANGED cache
    BY <2>2, NoCall DEF PInv
  <2>. QED  BY <1>1, <2>1, <2>2
<1>. HIDE DEF w
<1>3. Unapplied = {} /\ Unapplied' = {}
  BY <1>1, DueIs
<1>4. ASSUME NEW x \in InSlot
      PROVE  LET q == request_state[x]
                 p == request_state'[x]
             IN  /\ p.block_table = q.block_table /\ p.prompt_tokens = q.prompt_tokens
                 /\ p.num_computed_tokens = q.num_computed_tokens
                 /\ \/ p.generated_tokens = q.generated_tokens
                    \/ x \in Range(batch) /\ p.generated_tokens = q.generated_tokens + 1
  <2>1. x \in Requests /\ request_state[x] \in RequestRecords
    BY <1>1, InSlotTyped DEF CopyInv, TInv
  <2>2. PICK k \in 0 .. Len(batch) :
          request_state' = [r \in Requests |->
                              IF \E i \in 1 .. k : batch[i] = r
                              THEN [request_state[r] EXCEPT !.generated_tokens = @ + 1]
                              ELSE request_state[r]]
    BY DEF CachedFailDecodeBatch, FailDecodeBatch
  <2>3. (\E i \in 1 .. k : batch[i] = x) => x \in Range(batch)
    <3>1. batch \in Seq(Requests)
      BY <1>1, BatchReaches
    <3>2. Len(batch) \in Nat /\ DOMAIN batch = 1 .. Len(batch)
      BY <3>1, LenProperties
    <3>3. \A i \in 1 .. k : i \in DOMAIN batch
      BY <3>2
    <3>. QED  BY <3>3 DEF Range
  <2>. HIDE DEF batch
  <2>. QED  BY <2>1, <2>2, <2>3 DEF RequestRecords
<1>5. InSlot' = InSlot /\ CopiesReach'
  BY <1>1, <1>4, BatchKeepsCopies
<1>6. ASSUME NEW x \in InSlot
      PROVE  /\ Held(x)' \in Nat
             /\ \A n \in Held(x) .. Held(x)' - 1 : \A l \in Layers :
                  Pool!ReadRequestToken(cache', l, request_state[x].block_table, n)
                    = Token(x, n)
  <2>1. Held(x)' = Held(x) /\ Held(x) \in Nat
    BY <1>1, <1>3, <1>4, HeldTyped DEF Held, CopyInv
  <2>2. \A n \in Held(x) .. Held(x) - 1 : FALSE
    BY <2>1
  <2>. QED  BY <2>1, <2>2
<1>7. CacheRight'
  <2>1. \A x \in InSlot : request_state'[x].block_table = request_state[x].block_table
    BY <1>4
  <2>. QED  BY <1>1, <1>2, <1>5, <1>6, <2>1, CacheStaysRight DEF PInv
<1>. QED  BY <1>2, <1>5, <1>7

-----------------------------------------------------------------------------
(* The invariant holds *)

LEMMA ServingSteps ==
  /\ ServingNext => Next
  /\ ServingNext <=> \/ CachedPrefillChunk \/ CachedFailPrefill
                     \/ CachedRunDecodeBatch \/ CachedFailDecodeBatch
                     \/ /\ StepWithoutEngine \/ \E r \in Requests : Submit(r)
                        /\ UNCHANGED cache
BY DEF ServingNext, Next, Step, EngineStep, CachedPrefillChunk, CachedFailPrefill,
   CachedRunDecodeBatch, CachedFailDecodeBatch

LEMMA ServingRunsTheScheduler == ServingSpec => Spec
<1>1. ServingInit => Init
  BY DEF ServingInit
<1>2. [ServingNext]_serving_vars => [Next]_vars
  BY ServingSteps DEF serving_vars
<1>. QED  BY <1>1, <1>2, PTL DEF ServingSpec, Spec

NothingChanges == UNCHANGED serving_vars

LEMMA StutteringKeepsCache ==
  ASSUME PInv, NothingChanges
  PROVE  CopiesReach' /\ CacheTyped' /\ CacheRight'
<1>1. UNCHANGED <<request_state, slots, phase, local, cache>>
  BY DEF NothingChanges, serving_vars, vars
<1>2. InSlot' = InSlot /\ Unapplied' = Unapplied
  BY <1>1 DEF InSlot, SlotIndices, Unapplied
<1>3. \A x \in InSlot : Held(x)' = Held(x)
  BY <1>1, <1>2 DEF Held, TokenPosition
<1>. QED  BY <1>1, <1>2, <1>3 DEF PInv, CopyInv, CopiesReach, CacheTyped, CacheRight, HoldsToken

LEMMA PInvInvariant == ServingSpec => []PInv
<1>. DEFINE Rest == CopiesReach /\ CacheTyped /\ CacheRight
<1>1. ServingInit => Rest
  <2>. SUFFICES ASSUME ServingInit  PROVE Rest
    OBVIOUS
  <2>1. InSlot = {}
    BY DEF ServingInit, Init, InSlot
  <2>2. CacheTyped
    BY DEF ServingInit, CacheTyped, Pool!ZeroCache
  <2>. QED  BY <2>1, <2>2 DEF CopiesReach, CacheRight
<1>2. TInv /\ TInv' /\ Rest /\ [ServingNext]_serving_vars => Rest'
  <2>. SUFFICES ASSUME TInv, TInv', Rest, [ServingNext]_serving_vars  PROVE Rest'
    OBVIOUS
  <2>1. PInv
    BY DEF PInv, CopyInv
  <2>2. NothingChanges \/ ServingNext
    BY DEF NothingChanges
  <2>. QED
    BY <2>1, <2>2, ServingSteps, StutteringKeepsCache, PrefillChunkKeepsCache,
       FailPrefillKeepsCache, RunDecodeBatchKeepsCache, FailDecodeBatchKeepsCache,
       SchedulerStepKeepsCache
<1>3. TInv /\ Rest => PInv
  BY DEF PInv, CopyInv
<1>. HIDE DEF Rest
<1>. QED  BY <1>1, <1>2, <1>3, ServingRunsTheScheduler, TInvInvariant, PTL DEF ServingSpec

-----------------------------------------------------------------------------
(* Addresses *)

LEMMA ReachedIsLocatable ==
  ASSUME TInv, NEW r \in InSlot, NEW p, Reaches(r, p)
  PROVE  Pool!Locatable(request_state[r].block_table, p)
<1>1. 0 \in Layers
  BY LayersAre
<1>2. request_state[r].block_table[Pool!LogicalBlock(p) + 1] \in KV!Blocks
  BY <1>1, CellIs
<1>. QED  BY <1>2 DEF Reaches, Pool!Locatable, KV!Blocks

(* locate_token never raises: every position a chunk writes, and every       *)
(* position a batch writes or its attention reads, has its block in the copy *)
(* of the table that the engine was given.                                   *)
THEOREM AddressesAlwaysExist == ServingSpec => []AddressesExist
<1>1. ASSUME PInv, Prefilling
      PROVE  LET work == Head(local.work_plan)
                 q    == request_state[work.request_state]
             IN  \A p \in q.num_computed_tokens
                          .. ChunkEnd(work.request_state, work.num_scheduled_tokens) - 1 :
                   Pool!Locatable(q.block_table, p)
  <2>. DEFINE r     == Head(local.work_plan).request_state
              start == request_state[r].num_computed_tokens
              end   == ChunkEnd(r, Head(local.work_plan).num_scheduled_tokens)
  <2>1. /\ r \in InSlot /\ start \in Nat /\ end \in Nat /\ end <= TokenPosition(r)
        /\ TokenPosition(r) \in Nat
    BY <1>1, ChunkBounds DEF PInv
  <2>2. \A p \in start .. end - 1 : p \in 0 .. TokenPosition(r) - 1
    <3>. HIDE DEF r, start, end
    <3>. QED  BY <2>1
  <2>3. \A p \in start .. end - 1 : Reaches(r, p)
    BY <1>1, <2>1, <2>2, HeldIsReached DEF PInv
  <2>. QED  BY <1>1, <2>1, <2>3, ReachedIsLocatable DEF PInv, CopyInv
<1>2. ASSUME PInv, phase = "run"
      PROVE  \A r \in Range(local.decode_batch) : \A p \in 0 .. TokenPosition(r) :
               Pool!Locatable(request_state[r].block_table, p)
  BY <1>2, BatchReaches, ReachedIsLocatable DEF PInv, CopyInv
<1>3. PInv => AddressesExist
  BY <1>1, <1>2 DEF AddressesExist
<1>. QED  BY <1>3, PInvInvariant, PTL

-----------------------------------------------------------------------------
(* Attention *)

(* A row of the padded tensor leads to the same cells as the table.          *)
LEMMA TensorRows ==
  ASSUME CopyInv, phase = "run", NEW i \in DOMAIN local.decode_batch
  PROVE  LET r   == local.decode_batch[i]
             row == BlockTablesTensor(local.decode_batch)[i]
         IN  \A p \in 0 .. TokenPosition(r) : \A l :
               Pool!CellOf(l, row, p) = Pool!CellOf(l, request_state[r].block_table, p)
<1>. DEFINE batch == local.decode_batch
            n == Len(batch)
            lengths == {Len(request_state[r].block_table) : r \in Range(batch)}
            longest == Max(lengths)
            r == batch[i]
            copy == request_state[r].block_table
            row == BlockTablesTensor(batch)[i]
<1>1. /\ batch \in Seq(Requests) /\ n \in Nat /\ DOMAIN batch = 1 .. n /\ n # 0
      /\ \A j \in 1 .. n : Len(request_state[batch[j]].block_table) \in Nat
  <2>1. batch \in Seq(Requests)
    BY BatchReaches
  <2>2. n \in Nat /\ DOMAIN batch = 1 .. n
    BY <2>1, LenProperties
  <2>3. ASSUME NEW j \in 1 .. n  PROVE Len(request_state[batch[j]].block_table) \in Nat
    <3>1. batch[j] \in Range(batch)
      BY <2>2 DEF Range
    <3>2. request_state[batch[j]].block_table \in Seq(KV!Blocks)
      BY <3>1, BatchReaches, InSlotTyped DEF CopyInv, TInv
    <3>. QED  BY <3>2, LenProperties
  <2>. QED  BY <2>1, <2>2, <2>3
<1>2. longest \in Nat /\ Len(copy) <= longest
  <2>. DEFINE size == [j \in 1 .. n |-> Len(request_state[batch[j]].block_table)]
              S == {size[j] : j \in 1 .. n}
  <2>1. lengths = S
    BY <1>1 DEF Range
  <2>2. \A j \in 1 .. n : size[j] \in Nat
    BY <1>1
  <2>3. Max(S) \in Nat /\ \A j \in 1 .. n : size[j] <= Max(S)
    <3>. HIDE DEF size, batch, n
    <3>. QED  BY <1>1, <2>2, LongestTable
  <2>. HIDE DEF lengths, S
  <2>. QED  BY <1>1, <2>1, <2>3
<1>3. row = [j \in 1 .. longest |-> IF j <= Len(copy) THEN copy[j] ELSE -1]
  BY DEF BlockTablesTensor
<1>. HIDE DEF longest, row
<1>4. ASSUME NEW p \in 0 .. TokenPosition(r), NEW l
      PROVE  Pool!CellOf(l, row, p) = Pool!CellOf(l, copy, p)
  <2>. DEFINE b == Pool!LogicalBlock(p)
  <2>1. r \in Range(batch)
    BY DEF Range
  <2>2. p \in Nat /\ b < Len(copy)
    BY <2>1, BatchReaches DEF Reaches
  <2>3. b \in Nat /\ Len(copy) \in Nat
    <3>1. b \in Nat
      BY <2>2, PoolAssumption, QuotientAndRemainder DEF Pool!LogicalBlock
    <3>. QED  BY <1>1, <3>1
  <2>. HIDE DEF b
  <2>4. row[b + 1] = copy[b + 1]
    <3>. HIDE DEF copy
    <3>1. b + 1 \in 1 .. longest /\ b + 1 <= Len(copy)
      BY <1>2, <2>2, <2>3
    <3>. QED  BY <1>3, <3>1
  <2>. QED  BY <2>4 DEF Pool!CellOf, Pool!LocateToken, b
<1>. QED  BY <1>4 DEF row, copy, r

(* Only a batch that is decoded goes from "run" to "apply".                  *)
LEMMA OnlyBatchesApply ==
  ASSUME ServingNext, phase = "run", phase' = "apply"
  PROVE  CachedRunDecodeBatch
<1>1. ~ CachedPrefillChunk /\ ~ CachedFailPrefill /\ ~ CachedFailDecodeBatch
  BY DEF CachedPrefillChunk, PrefillChunk, CachedFailPrefill, FailPrefill, Prefilling,
     CachedFailDecodeBatch, FailDecodeBatch
<1>2. ~ StepWithoutEngine
  <2>1. ~ (\/ BeginStep \/ DrainOne \/ DrainEmpty \/ AdmitPass \/ AdmitPassDone
           \/ PlanPrefill \/ BeginDecode \/ ApplyOutput \/ FinishRequest \/ AllApplied
           \/ FailOneOfBatch \/ AllFailed)
    BY DEF BeginStep, DrainOne, DrainEmpty, AdmitPass, AdmitPassDone, PlanPrefill,
       BeginDecode, ApplyOutput, FinishRequest, AllApplied, FailOneOfBatch, AllFailed
  <2>2. ~ (AdmitOne \/ DeferOne \/ FailAdmission \/ EvictOneStalledRequest \/ ChooseBatch)
    BY DEF AdmitOne, DeferOne, FailAdmission, Admitting, EvictOneStalledRequest,
       ChooseBatch, AllChecked
  <2>3. ~ (\E r \in Requests : EnsureRunnable(r) \/ EnsureStalled(r))
    BY DEF EnsureRunnable, EnsureStalled, EnsureCapacity
  <2>. QED  BY <2>1, <2>2, <2>3 DEF StepWithoutEngine
<1>3. ~ (\E r \in Requests : Submit(r))
  BY DEF Submit
<1>. QED  BY <1>1, <1>2, <1>3, ServingSteps

(* Attention reads exactly the tokens of the request it is for, in order, in *)
(* every layer, whatever else the blocks were used for before.               *)
THEOREM AttentionReadsTheRightTokens == ServingSpec => AttentionReadsOwnTokens
<1>. DEFINE ReadsRight ==
       phase = "run" /\ phase' = "apply" =>
         LET tensor == BlockTablesTensor(local.decode_batch)
         IN  \A i \in DOMAIN local.decode_batch : \A l \in Layers :
               LET r == local.decode_batch[i]
               IN  Pool!GatherKVForSequence(cache', l, tensor[i], TokenPosition(r) + 1)
                     = [j \in 1 .. TokenPosition(r) + 1 |-> Token(r, j - 1)]
<1>1. ASSUME PInv, ServingNext, phase = "run", phase' = "apply"
      PROVE  ReadsRight
  <2>. DEFINE batch == local.decode_batch
              w == BatchWrites(batch)
              tensor == BlockTablesTensor(batch)
  <2>1. CopyInv /\ CachedRunDecodeBatch /\ WriteAll(w)
    BY <1>1, OnlyBatchesApply DEF PInv, CachedRunDecodeBatch
  <2>2. /\ w \in Seq(Range(w)) /\ WritesNewTokens(w)
        /\ \A r \in Range(batch) : WritesToken(w, r, TokenPosition(r))
    BY <1>1, <2>1, BatchWritesAre
  <2>3. Len(w) \in Nat
    BY <2>2, LenProperties
  <2>4. /\ NothingLost
        /\ \A x \in InSlot : \A n : Reaches(x, n) /\ WritesToken(w, x, n) =>
             \A l \in Layers :
               Pool!ReadRequestToken(cache', l, request_state[x].block_table, n) = Token(x, n)
    BY <1>1, <2>1, <2>2, <2>3, WholeCall DEF PInv
  <2>. HIDE DEF w
  <2>5. ASSUME NEW r \in Range(batch), NEW p \in 0 .. TokenPosition(r), NEW l \in Layers
        PROVE  Pool!ReadRequestToken(cache', l, request_state[r].block_table, p) = Token(r, p)
    <3>1. /\ r \in InSlot /\ TokenPosition(r) \in Nat /\ Reaches(r, p)
          /\ request_state[r].num_computed_tokens = TokenPosition(r) /\ Unapplied = {}
      BY <1>1, <2>1, BatchReaches
    <3>2. p \in 0 .. Held(r) - 1 \/ p = TokenPosition(r)
      <4>1. Held(r) = TokenPosition(r)
        BY <3>1 DEF Held
      <4>. QED  BY <3>1, <4>1
    <3>3. CASE p \in 0 .. Held(r) - 1
      <4>1. Pool!ReadRequestToken(cache, l, request_state[r].block_table, p) = Token(r, p)
        BY <1>1, <3>1, <3>3 DEF PInv, CacheRight, HoldsToken
      <4>. QED  BY <2>4, <3>1, <3>3, <4>1 DEF NothingLost
    <3>4. CASE p = TokenPosition(r)
      BY <2>2, <2>4, <3>1, <3>4
    <3>. QED  BY <3>2, <3>3, <3>4
  <2>6. ASSUME NEW i \in DOMAIN batch, NEW l \in Layers
        PROVE  LET r == batch[i]
               IN  Pool!GatherKVForSequence(cache', l, tensor[i], TokenPosition(r) + 1)
                     = [j \in 1 .. TokenPosition(r) + 1 |-> Token(r, j - 1)]
    <3>. DEFINE r == batch[i]
                n == TokenPosition(r) + 1
    <3>1. r \in Range(batch)
      BY DEF Range
    <3>2. TokenPosition(r) \in Nat
      BY <1>1, <2>1, <3>1, BatchReaches
    <3>3. ASSUME NEW j \in 1 .. n
          PROVE  Pool!ReadRequestToken(cache', l, tensor[i], j - 1) = Token(r, j - 1)
      <4>1. j - 1 \in 0 .. TokenPosition(r)
        BY <3>2
      <4>2. Pool!CellOf(l, tensor[i], j - 1)
              = Pool!CellOf(l, request_state[r].block_table, j - 1)
        BY <1>1, <2>1, <4>1, TensorRows
      <4>3. Pool!ReadRequestToken(cache', l, request_state[r].block_table, j - 1)
              = Token(r, j - 1)
        BY <2>5, <3>1, <4>1
      <4>. QED  BY <4>2, <4>3 DEF Pool!ReadRequestToken
    <3>. QED  BY <3>3 DEF Pool!GatherKVForSequence
  <2>. QED  BY <2>6
<1>2. PInv /\ [ServingNext]_serving_vars => [ReadsRight]_serving_vars
  <2>. HIDE DEF ReadsRight
  <2>1. ASSUME PInv, ServingNext  PROVE ReadsRight
    <3>1. CASE phase = "run" /\ phase' = "apply"
      BY <1>1, <2>1, <3>1
    <3>2. CASE ~ (phase = "run" /\ phase' = "apply")
      BY <3>2 DEF ReadsRight
    <3>. QED  BY <3>1, <3>2
  <2>. QED  BY <2>1
<1>. QED  BY <1>2, PInvInvariant, PTL DEF ServingSpec, AttentionReadsOwnTokens

-----------------------------------------------------------------------------
(* Refinement *)

(* How many tokens of r its private cache has.                               *)
Seen(r) == IF r \in InSlot THEN request_state[r].num_computed_tokens ELSE 0

SeenStays(r) == Seen(r)' = Seen(r)

(* Nobody's private cache changes, or one request's is extended or dropped.  *)
OneViewChanges ==
  \/ \A r \in Requests : SeenStays(r)
  \/ \E r \in Requests : /\ \A x \in Requests \ {r} : SeenStays(x)
                         /\ Seen(r)' = 0 \/ Seen(r)' > Seen(r)

ViewsRight ==
  \A r \in Requests : Seen(r) \in Nat /\ View(r) = PrivateCaches!Tokens(r, Seen(r))

LEMMA ViewsAreRight == PInv => ViewsRight
<1>. SUFFICES ASSUME PInv  PROVE ViewsRight
  OBVIOUS
<1>1. ASSUME NEW r \in InSlot  PROVE Seen(r) \in Nat /\ View(r) = PrivateCaches!Tokens(r, Seen(r))
  <2>. DEFINE n == request_state[r].num_computed_tokens
  <2>1. /\ n \in Nat /\ Held(r) \in Nat /\ TokenPosition(r) \in Nat
        /\ CopyReaches(request_state[r])
    BY HeldTyped DEF PInv, CopyInv, CopiesReach
  <2>2. n <= Held(r) /\ Seen(r) = n
    BY <2>1 DEF Held, CopyReaches, TokenPosition, Seen
  <2>3. \A i \in 1 .. n : \A l \in Layers :
          Pool!ReadRequestToken(cache, l, request_state[r].block_table, i - 1) = Token(r, i - 1)
    <3>1. \A i \in 1 .. n : i - 1 \in 0 .. Held(r) - 1
      BY <2>1, <2>2
    <3>. QED  BY <3>1 DEF PInv, CacheRight, HoldsToken
  <2>4. View(r) = [i \in 1 .. n |-> [l \in Layers |-> Token(r, i - 1)]]
    BY <2>3 DEF View
  <2>5. PrivateCaches!Tokens(r, n) = [i \in 1 .. n |-> [l \in Layers |-> Token(r, i - 1)]]
    BY DEF PrivateCaches!Tokens, PrivateCaches!Token, Token
  <2>. QED  BY <2>1, <2>2, <2>4, <2>5
<1>2. ASSUME NEW r, r \notin InSlot
      PROVE  Seen(r) \in Nat /\ View(r) = PrivateCaches!Tokens(r, Seen(r))
  <2>1. Seen(r) = 0 /\ View(r) = << >>
    BY <1>2 DEF Seen, View
  <2>2. PrivateCaches!Tokens(r, 0) = << >>
    BY DEF PrivateCaches!Tokens
  <2>. QED  BY <2>1, <2>2
<1>. QED  BY <1>1, <1>2 DEF ViewsRight

LEMMA SlotStepChangesOneView ==
  ASSUME PInv, SlotStep
  PROVE  OneViewChanges
<1>1. CASE OnlyTouches(NoRequest)
  <2>1. InSlot' = InSlot
    BY <1>1, NobodyIsNotInSlot DEF OnlyTouches, InSlot
  <2>. QED  BY <1>1, <2>1, NobodyIsNotInSlot DEF OnlyTouches, OneViewChanges, SeenStays, Seen
<1>2. ASSUME NEW r \in Requests, OnlyTouches(r),
             Leaves(r) \/ Enters(r) \/ Extends(r) \/ Counts(r)
      PROVE  OneViewChanges
  <2>1. \A x \in Requests \ {r} : SeenStays(x)
    <3>1. ASSUME NEW x \in Requests \ {r}  PROVE SeenStays(x)
      <4>1. x \in InSlot' <=> x \in InSlot
        BY <1>2 DEF OnlyTouches
      <4>2. x \in InSlot => request_state'[x] = request_state[x]
        BY <1>2 DEF OnlyTouches
      <4>. QED  BY <4>1, <4>2 DEF SeenStays, Seen
    <3>. QED  BY <3>1
  <2>2. Seen(r)' = 0 \/ SeenStays(r) \/ Seen(r)' > Seen(r)
    <3>1. CASE Leaves(r) \/ r \notin InSlot'
      BY <3>1 DEF Leaves, Seen
    <3>2. CASE r \in InSlot' /\ Enters(r)
      BY <3>2 DEF Enters, Seen
    <3>3. CASE r \in InSlot' /\ Extends(r)
      BY <3>3 DEF Extends, Seen, SeenStays
    <3>4. CASE r \in InSlot' /\ Counts(r)
      <4>1. /\ r \in InSlot /\ Seen(r)' = TokenPosition(r)
            /\ Seen(r) = request_state[r].num_computed_tokens
        BY <3>4 DEF Counts, Seen
      <4>2. /\ request_state[r].num_computed_tokens \in Nat /\ TokenPosition(r) \in Nat
            /\ request_state[r].num_computed_tokens <= TokenPosition(r)
        BY <4>1, HeldTyped DEF PInv, CopyInv, CopiesReach, CopyReaches, TokenPosition
      <4>. QED  BY <4>1, <4>2 DEF SeenStays
    <3>. QED  BY <1>2, <3>1, <3>2, <3>3, <3>4
  <2>. QED  BY <2>1, <2>2 DEF OneViewChanges
<1>. QED  BY <1>1, <1>2 DEF SlotStep

LEMMA ServingStepChangesOneView ==
  ASSUME PInv, TInv', ServingNext
  PROVE  OneViewChanges
<1>1. CASE CachedFailPrefill \/ StepWithoutEngine \/ \E r \in Requests : Submit(r)
  <2>1. StepWithoutEngine \/ FailPrefill \/ \E r \in Requests : Submit(r)
    BY <1>1 DEF CachedFailPrefill
  <2>. QED  BY <2>1, StepsAreSlotSteps, SlotStepChangesOneView DEF PInv, CopyInv
<1>2. /\ request_state \in [Requests -> RequestRecords]
      /\ \A x \in InSlot : x \in Requests
  BY InSlotTyped DEF PInv, CopyInv, TInv, SInv, HInv, Placed, Typed
<1>3. CASE CachedPrefillChunk
  <2>1. Prefilling /\ UNCHANGED slots
    BY <1>3 DEF CachedPrefillChunk, PrefillChunk
  <2>. DEFINE chunk == Head(local.work_plan)
  <2>2. PICK r \in Requests : r = chunk.request_state
    BY <2>1, ChunkBounds DEF PInv
  <2>3. PICK end \in Nat : end = ChunkEnd(chunk.request_state, chunk.num_scheduled_tokens)
    BY <2>1, ChunkBounds DEF PInv
  <2>4. /\ r \in InSlot
        /\ request_state[r].num_computed_tokens \in Nat
        /\ request_state[r].num_computed_tokens <= end
    <3>1. LET x == chunk.request_state
          IN  /\ x \in InSlot /\ request_state[x].num_computed_tokens \in Nat
              /\ request_state[x].num_computed_tokens
                   <= ChunkEnd(x, chunk.num_scheduled_tokens)
      BY <2>1, ChunkBounds DEF PInv
    <3>. QED  BY <2>2, <2>3, <3>1
  <2>5. \E status : request_state' = [request_state EXCEPT ![r].num_computed_tokens = end,
                                                           ![r].generated_tokens = 0,
                                                           ![r].status = status]
    BY <1>3, <2>2, <2>3 DEF CachedPrefillChunk, PrefillChunk
  <2>6. InSlot' = InSlot
    BY <2>1 DEF InSlot, SlotIndices
  <2>7. \A x \in Requests \ {r} : SeenStays(x)
    BY <1>2, <2>5, <2>6 DEF SeenStays, Seen
  <2>8. request_state'[r].num_computed_tokens = end
    <3>1. request_state[r] \in RequestRecords
      BY <1>2, <2>4
    <3>2. \E status : request_state'[r] =
            [request_state[r] EXCEPT !.num_computed_tokens = end, !.generated_tokens = 0,
                                     !.status = status]
      BY <1>2, <2>4, <2>5
    <3>. QED  BY <3>1, <3>2 DEF RequestRecords
  <2>9. Seen(r)' = end /\ Seen(r) = request_state[r].num_computed_tokens
    BY <2>4, <2>6, <2>8 DEF Seen
  <2>10. SeenStays(r) \/ Seen(r)' > Seen(r)
    BY <2>4, <2>9 DEF SeenStays
  <2>. QED  BY <2>4, <2>7, <2>10 DEF OneViewChanges
<1>4. CASE CachedRunDecodeBatch \/ CachedFailDecodeBatch
  <2>1. UNCHANGED slots
    BY <1>4 DEF CachedRunDecodeBatch, RunDecodeBatch, CachedFailDecodeBatch, FailDecodeBatch
  <2>2. InSlot' = InSlot
    BY <2>1 DEF InSlot, SlotIndices
  <2>3. \E S : request_state' = [r \in Requests |->
                  IF r \in S THEN [request_state[r] EXCEPT !.generated_tokens = @ + 1]
                  ELSE request_state[r]]
    <3>1. CASE CachedRunDecodeBatch
      BY <3>1 DEF CachedRunDecodeBatch, RunDecodeBatch
    <3>2. CASE CachedFailDecodeBatch
      <4>1. PICK k \in 0 .. Len(local.decode_batch) :
              request_state' = [r \in Requests |->
                                  IF \E i \in 1 .. k : local.decode_batch[i] = r
                                  THEN [request_state[r] EXCEPT !.generated_tokens = @ + 1]
                                  ELSE request_state[r]]
        BY <3>2 DEF CachedFailDecodeBatch, FailDecodeBatch
      <4>. DEFINE S == {local.decode_batch[i] : i \in 1 .. k}
      <4>2. \A r : r \in S <=> \E i \in 1 .. k : local.decode_batch[i] = r
        OBVIOUS
      <4>. HIDE DEF S
      <4>3. request_state' = [r \in Requests |->
                                IF r \in S
                                THEN [request_state[r] EXCEPT !.generated_tokens = @ + 1]
                                ELSE request_state[r]]
        BY <4>1, <4>2
      <4>. QED  BY <4>3
    <3>. QED  BY <1>4, <3>1, <3>2
  <2>4. ASSUME NEW r \in Requests  PROVE SeenStays(r)
    <3>1. request_state[r] \in RequestRecords
      BY <1>2
    <3>2. request_state'[r].num_computed_tokens = request_state[r].num_computed_tokens
      BY <2>3, <3>1 DEF RequestRecords
    <3>. QED  BY <2>2, <3>2 DEF SeenStays, Seen
  <2>. QED  BY <2>4 DEF OneViewChanges
<1>. QED  BY <1>1, <1>3, <1>4 DEF ServingNext

(* A change of one view is a step of the private caches.                     *)
LEMMA ViewsStep ==
  ASSUME ViewsRight, ViewsRight', OneViewChanges
  PROVE  [PrivateCaches!Next]_([r \in Requests |-> View(r)])
<1>. DEFINE before == [r \in Requests |-> View(r)]
            after  == [r \in Requests |-> View(r)']
            T(r, n) == PrivateCaches!Tokens(r, n)
<1>1. /\ \A r \in Requests : Seen(r) \in Nat /\ View(r) = T(r, Seen(r))
      /\ \A r \in Requests : Seen(r)' \in Nat /\ View(r)' = T(r, Seen(r)')
  BY DEF ViewsRight, PrivateCaches!Tokens, PrivateCaches!Token
<1>2. \A r \in Requests, n \in Nat : Len(T(r, n)) = n
  <2>. SUFFICES ASSUME NEW r \in Requests, NEW n \in Nat  PROVE Len(T(r, n)) = n
    OBVIOUS
  <2>. DEFINE s == T(r, n)
  <2>1. s = [i \in 1 .. n |-> s[i]]
    BY DEF PrivateCaches!Tokens
  <2>. HIDE DEF s
  <2>2. Len(s) = n
    BY <2>1, FunctionsAreLists
  <2>. QED  BY <2>2 DEF s
<1>3. \A r \in Requests : T(r, 0) = << >>
  BY DEF PrivateCaches!Tokens
<1>. HIDE DEF T
<1>4. CASE \A r \in Requests : SeenStays(r)
  <2>1. after = before
    BY <1>1, <1>4 DEF SeenStays
  <2>. QED  BY <2>1
<1>5. ASSUME NEW r \in Requests, \A x \in Requests \ {r} : SeenStays(x)
      PROVE  after = [before EXCEPT ![r] = T(r, Seen(r)')]
  BY <1>1, <1>5 DEF SeenStays
<1>6. ASSUME NEW r \in Requests, \A x \in Requests \ {r} : SeenStays(x), Seen(r)' = 0
      PROVE  PrivateCaches!Drop(r)
  <2>1. after = [before EXCEPT ![r] = << >>]
    BY <1>3, <1>5, <1>6
  <2>. QED  BY <2>1 DEF PrivateCaches!Drop
<1>7. ASSUME NEW r \in Requests, \A x \in Requests \ {r} : SeenStays(x), Seen(r)' > Seen(r)
      PROVE  PrivateCaches!Extend(r)
  <2>1. after = [before EXCEPT ![r] = T(r, Seen(r)')]
    BY <1>5, <1>7
  <2>2. /\ Len(before[r]) = Seen(r) /\ Len(after[r]) = Seen(r)'
    BY <1>1, <1>2
  <2>. QED  BY <1>7, <2>1, <2>2 DEF PrivateCaches!Extend, T
<1>8. OneViewChanges => (\A r \in Requests : SeenStays(r)) \/ PrivateCaches!Next
  BY <1>6, <1>7 DEF OneViewChanges, PrivateCaches!Next
<1>. QED  BY <1>4, <1>8

(* Block tables, their copies, the shared pool and reused blocks behave like *)
(* a private cache for each request, that only grows until it is dropped.    *)
THEOREM PagingIsInvisible == ServingSpec => ImplementsPrivateCaches
<1>1. ServingInit => PrivateCaches!Init
  <2>. SUFFICES ASSUME ServingInit  PROVE PrivateCaches!Init
    OBVIOUS
  <2>1. InSlot = {}
    BY DEF ServingInit, Init, InSlot
  <2>. QED  BY <2>1 DEF PrivateCaches!Init, View
<1>2. /\ PInv /\ TInv' /\ ViewsRight /\ ViewsRight' /\ [ServingNext]_serving_vars
      => [PrivateCaches!Next]_([r \in Requests |-> View(r)])
  <2>. SUFFICES ASSUME PInv, TInv', ViewsRight, ViewsRight', [ServingNext]_serving_vars
                PROVE  [PrivateCaches!Next]_([r \in Requests |-> View(r)])
    OBVIOUS
  <2>1. CASE ServingNext
    <3>1. OneViewChanges
      BY <2>1, ServingStepChangesOneView
    <3>. QED  BY <3>1, ViewsStep
  <2>2. CASE UNCHANGED serving_vars
    <3>1. UNCHANGED <<request_state, slots, cache>>
      BY <2>2 DEF serving_vars, vars
    <3>2. InSlot' = InSlot
      BY <3>1 DEF InSlot, SlotIndices
    <3>. QED  BY <3>1, <3>2 DEF View
  <2>. QED  BY <2>1, <2>2
<1>. QED
  BY <1>1, <1>2, PInvInvariant, ViewsAreRight, ServingRunsTheScheduler, TInvInvariant, PTL
     DEF ServingSpec, PrivateCaches!Spec, ImplementsPrivateCaches

-----------------------------------------------------------------------------
(* Server: the workers run the scheduler *)

(* Whatever its threads do, the server takes only steps of the scheduler:    *)
(* what is proved of Spec holds here, also across restarts.                 *)
THEOREM ServerRunsScheduler == ServerSpec => Spec
<1>1. ServerInit => Init
  BY DEF ServerInit
<1>2. [ServerNext]_server_vars => [Next]_vars
  BY DEF ServerNext, server_vars, Start, Stop, Work, Loop, TakeLock, GoOn, Receive, Handle,
     Poll, ReadEngine, ReadQueue, ReadMetrics, Next, Step, StepWithoutEngine
<1>. QED  BY <1>1, <1>2, PTL DEF ServerSpec, Spec

-----------------------------------------------------------------------------
(* Counting the requests *)

(* Every request that was sent is counted in one of the places.             *)
LEMMA SentAreCounted ==
  ASSUME HInv
  PROVE  /\ Len(request_queue) \in Nat /\ Len(waiting) \in Nat /\ Len(finished) \in Nat
         /\ OccupiedSlotCount \in Nat
         /\ Cardinality(Submitted)
              = Len(request_queue) + Len(waiting) + OccupiedSlotCount + Len(finished)
<1>. DEFINE Q == Range(request_queue)
            W == Range(waiting)
            F == Range(finished)
<1>1. /\ request_queue \in Seq(Requests) /\ waiting \in Seq(Requests)
      /\ finished \in Seq(Requests) /\ SlotsTyped /\ OneSlotEach /\ Homes
      /\ \A r \in Requests : Status(r) \in Statuses
  BY DEF HInv, IInv, ListsTyped, Placed, Typed, RequestRecords, Status
<1>2. /\ IsFiniteSet(Q) /\ Cardinality(Q) = Len(request_queue)
      /\ IsFiniteSet(W) /\ Cardinality(W) = Len(waiting)
      /\ IsFiniteSet(F) /\ Cardinality(F) = Len(finished)
  BY <1>1, CountingMembers DEF Homes
<1>3. IsFiniteSet(InSlot) /\ Cardinality(InSlot) = OccupiedSlotCount
  <2>. DEFINE O == {i \in SlotIndices : slots[i] # NoRequest}
              at == [i \in O |-> slots[i]]
  <2>1. IsFiniteSet(O)
    <3>1. IsFiniteSet(SlotIndices)
      BY MaxSlotsAssumption, FS_Interval DEF SlotIndices
    <3>. QED  BY <3>1, FS_Subset
  <2>2. at \in Injection(O, InSlot) /\ at \in Surjection(O, InSlot)
    <3>1. at \in [O -> InSlot]
      BY DEF InSlot
    <3>2. \A i, j \in O : at[i] = at[j] => i = j
      BY <1>1 DEF OneSlotEach
    <3>3. \A r \in InSlot : \E i \in O : at[i] = r
      BY DEF InSlot
    <3>4. DOMAIN at = O
      OBVIOUS
    <3>. HIDE DEF at, O
    <3>. QED  BY <3>1, <3>2, <3>3, <3>4 DEF Injection, Surjection, IsInjective
  <2>3. ExistsBijection(O, InSlot)
    BY <2>2 DEF ExistsBijection, Bijection
  <2>. QED  BY <2>1, <2>3, FS_Bijection DEF OccupiedSlotCount
<1>4. /\ Submitted = (Q \cup W) \cup (InSlot \cup F)
      /\ Q \cap W = {} /\ InSlot \cap F = {} /\ (Q \cup W) \cap (InSlot \cup F) = {}
  <2>1. /\ Q \cup W = InStatus({"waiting"}) /\ Q \cap W = {}
        /\ InSlot = InStatus({"prefill", "decoding"}) /\ F = InStatus(Ended)
    BY <1>1 DEF Homes
  <2>. HIDE DEF Q, W, F
  <2>. QED  BY <1>1, <2>1 DEF InStatus, Submitted, Statuses, Ended
<1>5. /\ IsFiniteSet(Q \cup W) /\ IsFiniteSet(InSlot \cup F)
      /\ Cardinality(Q \cup W) = Len(request_queue) + Len(waiting)
      /\ Cardinality(InSlot \cup F) = OccupiedSlotCount + Len(finished)
  <2>. HIDE DEF Q, W, F
  <2>1. IsFiniteSet(Q \cup W) /\ Cardinality(Q \cup W) = Cardinality(Q) + Cardinality(W)
    BY <1>2, <1>4, DisjointUnion
  <2>2. /\ IsFiniteSet(InSlot \cup F)
        /\ Cardinality(InSlot \cup F) = Cardinality(InSlot) + Cardinality(F)
    BY <1>2, <1>3, <1>4, DisjointUnion
  <2>. QED  BY <1>2, <1>3, <2>1, <2>2
<1>6. Cardinality(Submitted)
        = (Len(request_queue) + Len(waiting)) + (OccupiedSlotCount + Len(finished))
  <2>. DEFINE A == Q \cup W
              B == InSlot \cup F
  <2>1. IsFiniteSet(A) /\ IsFiniteSet(B) /\ A \cap B = {} /\ Submitted = A \cup B
    BY <1>4, <1>5
  <2>2. Cardinality(Submitted) = Cardinality(A) + Cardinality(B)
    <3>. HIDE DEF A, B
    <3>. QED  BY <2>1, DisjointUnion
  <2>. QED  BY <1>5, <2>2
<1>7. /\ Len(request_queue) \in Nat /\ Len(waiting) \in Nat /\ Len(finished) \in Nat
      /\ OccupiedSlotCount \in Nat
  BY <1>1, LenProperties, FinitelyMany
<1>. QED  BY <1>6, <1>7

(* Nobody is taken back, and nobody's end.                                  *)
LEMMA NobodyUnsent ==
  ASSUME SInv, Ledger, Next
  PROVE  Submitted \subseteq Submitted' /\ Len(finished) <= Len(finished')
<1>1. /\ stats \in [Counters -> Nat] /\ finished \in Seq(Requests) /\ Len(finished) \in Nat
      /\ request_state \in [Requests -> RequestRecords]
  BY LenProperties DEF SInv, HInv, Placed, Typed
<1>2. ASSUME \A x \in Requests : QuietRecord(request_state[x], request_state'[x]),
             UNCHANGED finished
      PROVE  Submitted \subseteq Submitted' /\ Len(finished) <= Len(finished')
  BY <1>1, <1>2 DEF Submitted, Status, QuietRecord, Ended
<1>3. CASE \/ FailAdmission \/ FailPrefill \/ EvictOneStalledRequest
           \/ FinishRequest \/ FailOneOfBatch
  <2>1. PICK r \in Requests, status \in Ended : EndRequest(r, status)
    BY <1>1, <1>3, EndingSteps
  <2>2. /\ finished' = Append(finished, r)
        /\ request_state'[r].status = status
        /\ \A x \in Requests : x # r => request_state'[x] = request_state[x]
    BY <1>1, <2>1 DEF EndRequest, RequestRecords
  <2>3. Len(finished') = Len(finished) + 1
    BY <1>1, <2>2, AppendProperties
  <2>. QED  BY <1>1, <2>2, <2>3 DEF Submitted, Status, Ended
<1>4. CASE AdmitOne
  <2>1. Candidate \in Requests
    BY <1>4, CandidateWaits DEF AdmitOne, SInv
  <2>2. /\ finished' = finished
        /\ request_state'[Candidate].status = "prefill"
        /\ \A x \in Requests : x # Candidate => request_state'[x] = request_state[x]
    BY <1>1, <1>4, <2>1 DEF AdmitOne, RequestRecords
  <2>. QED  BY <1>1, <2>2 DEF Submitted, Status
<1>5. CASE RunDecodeBatch \/ FailDecodeBatch
  BY <1>2, <1>5, DecodeRecords DEF SInv
<1>6. CASE \/ BeginStep \/ DrainOne \/ DrainEmpty
           \/ AdmitPass \/ DeferOne \/ AdmitPassDone
           \/ PlanPrefill \/ PrefillChunk \/ BeginDecode
           \/ \E r \in Requests : EnsureRunnable(r) \/ EnsureStalled(r)
           \/ ChooseBatch \/ ApplyOutput \/ AllApplied \/ AllFailed
           \/ \E r \in Requests : Submit(r)
  BY <1>1, <1>2, <1>6, QuietStepsRecords
<1>. QED  BY <1>3, <1>4, <1>5, <1>6 DEF Next, Step, EngineStep, StepWithoutEngine

(* Those who were sent, those who left the queue and those who ended only   *)
(* become more.                                                             *)
LEMMA CountsGrow ==
  ASSUME SInv, FinitelySubmitted', Ledger, [Next]_vars
  PROVE  /\ Cardinality(Submitted) \in Nat /\ Cardinality(Submitted') \in Nat
         /\ Len(request_queue) \in Nat /\ Len(request_queue') \in Nat
         /\ Len(finished) \in Nat
         /\ Cardinality(Submitted) <= Cardinality(Submitted')
         /\ Cardinality(Submitted) - Len(request_queue)
              <= Cardinality(Submitted') - Len(request_queue')
         /\ Len(finished) <= Len(finished')
<1>1. /\ request_queue \in Seq(Requests) /\ Len(request_queue) \in Nat
      /\ Len(finished) \in Nat /\ IsFiniteSet(Submitted) /\ IsFiniteSet(Submitted')
      /\ Cardinality(Submitted) \in Nat /\ Cardinality(Submitted') \in Nat
  <2>1. request_queue \in Seq(Requests) /\ finished \in Seq(Requests)
    BY DEF SInv, HInv, IInv, ListsTyped, Placed, Typed
  <2>2. IsFiniteSet(Submitted) /\ IsFiniteSet(Submitted')
    BY FinitelyMany DEF SInv, FinitelySubmitted
  <2>. QED  BY <2>1, <2>2, LenProperties, FS_CardinalityType
<1>2. CASE UNCHANGED vars
  <2>1. UNCHANGED <<request_queue, request_state, finished>>
    BY <1>2 DEF vars
  <2>2. Submitted' = Submitted
    BY <2>1 DEF Submitted, Status
  <2>. QED  BY <1>1, <2>1, <2>2
<1>3. CASE Next
  <2>1. Submitted \subseteq Submitted' /\ Len(finished) <= Len(finished')
    BY <1>3, NobodyUnsent
  <2>2. Cardinality(Submitted) <= Cardinality(Submitted')
    BY <1>1, <2>1, FS_Subset
  <2>3. CASE \E r \in Requests : Submit(r)
    <3>1. PICK r \in Requests : Submit(r)
      BY <2>3
    <3>2. r \notin Submitted /\ request_queue' = Append(request_queue, r)
      BY <3>1 DEF Submit, Submitted
    <3>3. Len(request_queue') = Len(request_queue) + 1
      BY <1>1, <3>2, AppendProperties
    <3>4. Submitted \cup {r} \subseteq Submitted'
      <4>1. request_state'[r].status = "waiting"
        BY <3>1 DEF Submit, NewRequestState, SInv, HInv, Placed, Typed
      <4>. QED  BY <2>1, <4>1 DEF Submitted, Status
    <3>5. Cardinality(Submitted) + 1 <= Cardinality(Submitted')
      <4>1. Cardinality(Submitted \cup {r}) = Cardinality(Submitted) + 1
        BY <1>1, <3>2, FS_AddElement
      <4>2. PICK U : U = Submitted \cup {r}
        OBVIOUS
      <4>3. Cardinality(U) <= Cardinality(Submitted')
        BY <1>1, <3>4, <4>2, FS_Subset
      <4>. QED  BY <4>1, <4>2, <4>3
    <3>. QED  BY <1>1, <2>1, <2>2, <3>3, <3>5
  <2>4. CASE DrainOne
    <3>1. request_queue' = Tail(request_queue) /\ request_queue # << >>
      BY <2>4 DEF DrainOne
    <3>2. Len(request_queue') = Len(request_queue) - 1 /\ Len(request_queue) # 0
      BY <1>1, <3>1, HeadTailProperties, EmptySeq
    <3>. QED  BY <1>1, <2>1, <2>2, <3>2
  <2>5. CASE ~ DrainOne /\ ~ \E r \in Requests : Submit(r)
    <3>1. UNCHANGED request_queue
      BY <1>3, <2>5
      DEF Next, Step, EngineStep, StepWithoutEngine, BeginStep, DrainEmpty, AdmitPass, AdmitOne,
          DeferOne, FailAdmission, AdmitPassDone, PlanPrefill, PrefillChunk, FailPrefill,
          BeginDecode, EnsureRunnable, EnsureStalled, EvictOneStalledRequest, ChooseBatch,
          RunDecodeBatch, FailDecodeBatch, ApplyOutput, FinishRequest, AllApplied,
          FailOneOfBatch, AllFailed
    <3>. QED  BY <1>1, <2>1, <2>2, <3>1
  <2>. QED  BY <2>3, <2>4, <2>5
<1>. QED  BY <1>2, <1>3

-----------------------------------------------------------------------------
(* The invariant of the reports *)

Reports ==
  [endpoint : {"none", "health", "metrics_json"}, todo : Seq({"engine", "queue", "metrics"}),
   engine : [waiting : Nat, active : Nat, finished : Nat], queued_requests : Nat,
   total_finished_requests : Nat, total_failed_requests : Nat]

(* The engine is read first. From then on those it counted have left the    *)
(* queue for good, so the queue, read later, has none of them.              *)
HealthReport ==
  report.endpoint = "health" =>
    \/ report.todo = <<"engine", "queue">>
    \/ /\ report.todo = <<"queue">>
       /\ InEngine(report.engine) <= Cardinality(Submitted) - Len(request_queue)
    \/ /\ report.todo = << >>
       /\ InEngine(report.engine) + report.queued_requests <= Cardinality(Submitted)

(* The metrics are read first: the engine, read last, has all they had.     *)
MetricsReport ==
  report.endpoint = "metrics_json" =>
    \/ report.todo = <<"metrics", "queue", "engine">>
    \/ /\ report.todo = <<"queue", "engine">> \/ report.todo = <<"engine">>
       /\ report.total_failed_requests <= report.total_finished_requests
       /\ report.total_finished_requests <= Len(finished)
    \/ /\ report.todo = << >>
       /\ report.total_failed_requests <= report.total_finished_requests
       /\ report.total_finished_requests <= report.engine.finished

ReportsRight ==
  /\ report \in Reports
  /\ report.endpoint = "none" => report.todo = << >>
  /\ HealthReport
  /\ MetricsReport

(* What the handlers make of their lists of reads.                          *)
LEMMA ReadsInOrder ==
  /\ Head(<<"engine", "queue">>) = "engine" /\ Tail(<<"engine", "queue">>) = <<"queue">>
  /\ Head(<<"queue">>) = "queue" /\ Tail(<<"queue">>) = << >>
  /\ Head(<<"metrics", "queue", "engine">>) = "metrics"
  /\ Tail(<<"metrics", "queue", "engine">>) = <<"queue", "engine">>
  /\ Head(<<"queue", "engine">>) = "queue" /\ Tail(<<"queue", "engine">>) = <<"engine">>
  /\ Head(<<"engine">>) = "engine" /\ Tail(<<"engine">>) = << >>
  /\ <<"engine", "queue">> # << >> /\ <<"queue">> # << >>
  /\ <<"metrics", "queue", "engine">> # << >> /\ <<"queue", "engine">> # << >>
  /\ <<"engine">> # << >>
  OBVIOUS

(* The failed among the metrics are some of those that ended.               *)
LEMMA FailedAreFinished ==
  ASSUME CInv
  PROVE  LET failed == {i \in DOMAIN metrics : metrics[i].status = "failed"}
         IN  /\ Cardinality(failed) \in Nat /\ Cardinality(failed) <= Len(metrics)
             /\ Len(metrics) = Len(finished) /\ Len(metrics) \in Nat
<1>. DEFINE failed == {i \in DOMAIN metrics : metrics[i].status = "failed"}
<1>1. /\ metrics \in Seq(MetricsRecords) /\ Len(finished) \in Nat
      /\ DOMAIN metrics = 1 .. Len(finished)
  <2>1. metrics \in Seq(MetricsRecords) /\ finished \in Seq(Requests)
    BY DEF CInv, TInv, SInv, HInv, Placed, Typed
  <2>2. DOMAIN metrics = 1 .. Len(finished)
    BY DEF CInv, Balanced, MetricsRight
  <2>. QED  BY <2>1, <2>2, LenProperties
<1>2. Len(metrics) = Len(finished)
  BY <1>1, LenProperties
<1>3. IsFiniteSet(1 .. Len(metrics)) /\ Cardinality(1 .. Len(metrics)) = Len(metrics)
  <2>1. \A n \in Nat : IsFiniteSet(1 .. n) /\ Cardinality(1 .. n) = n
    <3>. TAKE n \in Nat
    <3>1. /\ IsFiniteSet(1 .. n)
          /\ Cardinality(1 .. n) = IF 1 > n THEN 0 ELSE n - 1 + 1
      BY FS_Interval
    <3>. QED  BY <3>1
  <2>. QED  BY <1>1, <1>2, <2>1
<1>4. failed \in SUBSET (1 .. Len(metrics))
  BY <1>1, <1>2
<1>5. IsFiniteSet(failed) /\ Cardinality(failed) <= Cardinality(1 .. Len(metrics))
  <2>. HIDE DEF failed
  <2>. QED  BY <1>3, <1>4, FS_Subset
<1>6. Cardinality(failed) \in Nat
  BY <1>5, FS_CardinalityType
<1>. QED  BY <1>1, <1>2, <1>3, <1>5, <1>6

LEMMA ReportKept ==
  ASSUME CInv, FinitelySubmitted', ReportsRight, [ServerNext]_server_vars
  PROVE  ReportsRight'
<1>1. SInv /\ HInv /\ Ledger
  BY DEF CInv, TInv, SInv, Balanced, Ledger
<1>2. [Next]_vars
  BY DEF ServerNext, server_vars, Start, Stop, Work, Loop, TakeLock, GoOn, Receive, Handle,
     Poll, ReadEngine, ReadQueue, ReadMetrics, Next, Step, StepWithoutEngine
<1>3. /\ Cardinality(Submitted) \in Nat /\ Cardinality(Submitted') \in Nat
      /\ Len(request_queue) \in Nat /\ Len(request_queue') \in Nat
      /\ Len(finished) \in Nat
      /\ Cardinality(Submitted) <= Cardinality(Submitted')
      /\ Cardinality(Submitted) - Len(request_queue)
           <= Cardinality(Submitted') - Len(request_queue')
      /\ Len(finished) <= Len(finished')
  BY <1>1, <1>2, CountsGrow
<1>4. /\ report \in Reports
      /\ report.engine \in [waiting : Nat, active : Nat, finished : Nat]
      /\ InEngine(report.engine) \in Nat /\ report.queued_requests \in Nat
      /\ report.total_finished_requests \in Nat /\ report.total_failed_requests \in Nat
      /\ report.endpoint \in {"none", "health", "metrics_json"}
      /\ report.endpoint = "none" => report.todo = << >>
  BY DEF ReportsRight, Reports, InEngine
<1>5. CASE report' = report
  <2>1. HealthReport'
    <3>1. InEngine(report'.engine) = InEngine(report.engine)
      BY <1>5
    <3>2. HealthReport /\ report'.todo = report.todo /\ report'.endpoint = report.endpoint
          /\ report'.queued_requests = report.queued_requests
      BY <1>5 DEF ReportsRight
    <3>3. PICK n, q \in Nat : n = InEngine(report.engine) /\ q = report.queued_requests
      BY <1>4
    <3>4. n <= Cardinality(Submitted) - Len(request_queue)
            => n <= Cardinality(Submitted') - Len(request_queue')
      BY <1>3
    <3>5. n + q <= Cardinality(Submitted) => n + q <= Cardinality(Submitted')
      BY <1>3
    <3>. QED  BY <3>1, <3>2, <3>3, <3>4, <3>5 DEF HealthReport
  <2>2. MetricsReport'
    <3>1. \A n \in Nat : n <= Len(finished) => n <= Len(finished')
      BY <1>3
    <3>2. MetricsReport
      BY DEF ReportsRight
    <3>. QED  BY <1>4, <1>5, <3>1, <3>2 DEF MetricsReport
  <2>. QED  BY <1>5, <2>1, <2>2 DEF ReportsRight
<1>6. CASE \E e \in Endpoints : Poll(e)
  <2>1. PICK e \in Endpoints : Poll(e)
    BY <1>6
  <2>2. e \in {"health", "metrics_json"}
    BY EndpointsAssumption
  <2>3. /\ report'.endpoint = e /\ report'.todo = Reads(e)
        /\ report' \in Reports
    <3>1. Nothing \in [waiting : Nat, active : Nat, finished : Nat]
      BY DEF Nothing
    <3>2. Reads(e) \in Seq({"engine", "queue", "metrics"})
      BY DEF Reads
    <3>. QED  BY <2>1, <2>2, <3>1, <3>2 DEF Poll, Reports
  <2>. QED  BY <2>2, <2>3 DEF ReportsRight, HealthReport, MetricsReport, Reads
<1>7. CASE ReadEngine
  <2>. DEFINE now == Snapshot
  <2>1. /\ report.todo # << >> /\ Head(report.todo) = "engine"
        /\ report' = [report EXCEPT !.todo = Tail(@), !.engine = now]
        /\ UNCHANGED vars
    BY <1>7 DEF ReadEngine, Reading
  <2>2. /\ now.waiting = Len(waiting) /\ now.active = OccupiedSlotCount
        /\ now.finished = Len(finished)
        /\ now \in [waiting : Nat, active : Nat, finished : Nat]
        /\ InEngine(now) = Cardinality(Submitted) - Len(request_queue)
    <3>1. /\ now.waiting = Len(waiting) /\ now.active = OccupiedSlotCount
          /\ now.finished = Len(finished)
      BY DEF Snapshot
    <3>. QED  BY <1>1, <3>1, SentAreCounted DEF Snapshot, InEngine
  <2>3. /\ Submitted' = Submitted /\ request_queue' = request_queue /\ finished' = finished
    BY <2>1 DEF vars, Submitted, Status
  <2>. HIDE DEF now
  <2>4. /\ report' \in Reports /\ report'.endpoint = report.endpoint
        /\ report'.todo = Tail(report.todo) /\ report'.engine = now
        /\ report'.total_finished_requests = report.total_finished_requests
        /\ report'.total_failed_requests = report.total_failed_requests
    <3>1. Tail(report.todo) \in Seq({"engine", "queue", "metrics"})
      BY <1>4, <2>1, HeadTailProperties DEF Reports
    <3>. QED  BY <1>4, <2>1, <2>2, <3>1 DEF Reports
  <2>5. HealthReport'
    <3>1. report.endpoint = "health" => report.todo = <<"engine", "queue">>
      BY <2>1, ReadsInOrder DEF ReportsRight, HealthReport
    <3>2. InEngine(report'.engine) = InEngine(now)
      BY <2>4
    <3>3. report.endpoint = "health" => report'.todo = <<"queue">>
      BY <2>4, <3>1, ReadsInOrder
    <3>. QED  BY <1>3, <2>2, <2>3, <2>4, <3>2, <3>3 DEF HealthReport
  <2>6. MetricsReport'
    <3>1. report.endpoint = "metrics_json" =>
            /\ report.todo = <<"engine">>
            /\ report.total_failed_requests <= report.total_finished_requests
            /\ report.total_finished_requests <= Len(finished)
      BY <2>1, ReadsInOrder DEF ReportsRight, MetricsReport
    <3>2. report.endpoint = "metrics_json" => report'.todo = << >>
      BY <2>4, <3>1, ReadsInOrder
    <3>. QED  BY <2>2, <2>4, <3>1, <3>2 DEF MetricsReport
  <2>. QED  BY <1>4, <2>1, <2>4, <2>5, <2>6 DEF ReportsRight
<1>8. CASE ReadQueue
  <2>1. /\ report.todo # << >> /\ Head(report.todo) = "queue"
        /\ report' = [report EXCEPT !.todo = Tail(@), !.queued_requests = Len(request_queue)]
        /\ UNCHANGED vars
    BY <1>8 DEF ReadQueue, Reading
  <2>2. /\ Submitted' = Submitted /\ request_queue' = request_queue /\ finished' = finished
    BY <2>1 DEF vars, Submitted, Status
  <2>3. /\ report' \in Reports /\ report'.endpoint = report.endpoint
        /\ report'.todo = Tail(report.todo) /\ report'.engine = report.engine
        /\ report'.queued_requests = Len(request_queue)
        /\ report'.total_finished_requests = report.total_finished_requests
        /\ report'.total_failed_requests = report.total_failed_requests
    <3>1. Tail(report.todo) \in Seq({"engine", "queue", "metrics"})
      BY <1>4, <2>1, HeadTailProperties DEF Reports
    <3>. QED  BY <1>3, <1>4, <2>1, <3>1 DEF Reports
  <2>4. HealthReport'
    <3>1. report.endpoint = "health" =>
            /\ report.todo = <<"queue">>
            /\ InEngine(report.engine) <= Cardinality(Submitted) - Len(request_queue)
      BY <2>1, ReadsInOrder DEF ReportsRight, HealthReport
    <3>2. report.endpoint = "health" => report'.todo = << >>
      BY <2>3, <3>1, ReadsInOrder
    <3>3. InEngine(report'.engine) = InEngine(report.engine)
      BY <2>3
    <3>4. PICK a, b, c \in Nat : /\ a = InEngine(report.engine) /\ b = Len(request_queue)
                                 /\ c = Cardinality(Submitted)
      BY <1>3, <1>4
    <3>5. a <= c - b => a + b <= c
      OBVIOUS
    <3>6. report.endpoint = "health" =>
            InEngine(report'.engine) + report'.queued_requests <= Cardinality(Submitted')
      BY <2>2, <2>3, <3>1, <3>3, <3>4, <3>5
    <3>. QED  BY <2>3, <3>2, <3>6 DEF HealthReport
  <2>5. MetricsReport'
    <3>1. report.endpoint = "metrics_json" =>
            /\ report.todo = <<"queue", "engine">>
            /\ report.total_failed_requests <= report.total_finished_requests
            /\ report.total_finished_requests <= Len(finished)
      BY <2>1, ReadsInOrder DEF ReportsRight, MetricsReport
    <3>2. report.endpoint = "metrics_json" => report'.todo = <<"engine">>
      BY <2>3, <3>1, ReadsInOrder
    <3>. QED  BY <2>2, <2>3, <3>1, <3>2 DEF MetricsReport
  <2>. QED  BY <1>4, <2>1, <2>3, <2>4, <2>5 DEF ReportsRight
<1>9. CASE ReadMetrics
  <2>. DEFINE failed == {i \in DOMAIN metrics : metrics[i].status = "failed"}
  <2>1. /\ report.todo # << >> /\ Head(report.todo) = "metrics"
        /\ report' = [report EXCEPT !.todo = Tail(@),
                                    !.total_finished_requests = Len(metrics),
                                    !.total_failed_requests = Cardinality(failed)]
        /\ UNCHANGED vars
    BY <1>9 DEF ReadMetrics, Reading
  <2>2. /\ Cardinality(failed) \in Nat /\ Cardinality(failed) <= Len(metrics)
        /\ Len(metrics) = Len(finished) /\ Len(metrics) \in Nat
    BY FailedAreFinished
  <2>. HIDE DEF failed
  <2>3. /\ report' \in Reports /\ report'.endpoint = report.endpoint
        /\ report'.todo = Tail(report.todo)
        /\ report'.total_finished_requests = Len(metrics)
        /\ report'.total_failed_requests = Cardinality(failed)
    <3>1. Tail(report.todo) \in Seq({"engine", "queue", "metrics"})
      BY <1>4, <2>1, HeadTailProperties DEF Reports
    <3>. QED  BY <1>4, <2>1, <2>2, <3>1 DEF Reports
  <2>4. report.endpoint = "metrics_json"
    <3>1. report.endpoint # "health"
      BY <2>1, ReadsInOrder DEF ReportsRight, HealthReport
    <3>. QED  BY <1>4, <2>1, <3>1
  <2>5. report.todo = <<"metrics", "queue", "engine">>
    BY <2>1, <2>4, ReadsInOrder DEF ReportsRight, MetricsReport
  <2>6. report'.todo = <<"queue", "engine">> /\ finished' = finished
    BY <2>1, <2>3, <2>5, ReadsInOrder DEF vars
  <2>7. HealthReport'
    BY <2>3, <2>4 DEF HealthReport
  <2>8. MetricsReport'
    <3>1. /\ report'.todo = <<"queue", "engine">>
          /\ report'.total_failed_requests <= report'.total_finished_requests
          /\ report'.total_finished_requests <= Len(finished')
      <4>1. PICK n, m \in Nat : n = Cardinality(failed) /\ m = Len(metrics) /\ n <= m
        BY <2>2
      <4>2. report'.total_failed_requests = n /\ report'.total_finished_requests = m
        BY <2>3, <4>1
      <4>3. Len(finished') = m
        BY <2>2, <2>6, <4>1
      <4>. QED  BY <2>6, <4>1, <4>2, <4>3
    <3>. QED  BY <3>1 DEF MetricsReport
  <2>. QED  BY <2>3, <2>4, <2>7, <2>8 DEF ReportsRight
<1>. QED
  BY <1>5, <1>6, <1>7, <1>8, <1>9
  DEF ServerNext, server_vars, Start, Stop, Work, Loop, TakeLock, GoOn, Receive, Handle

-----------------------------------------------------------------------------
(* Theorems *)

LEMMA ReportsInvariant == ServerSpec => [](CInv /\ ReportsRight)
<1>1. ServerInit => ReportsRight
  <2>. SUFFICES ASSUME ServerInit  PROVE ReportsRight
    OBVIOUS
  <2>1. report = [endpoint |-> "none", todo |-> << >>, engine |-> Nothing,
                  queued_requests |-> 0, total_finished_requests |-> 0,
                  total_failed_requests |-> 0]
    BY DEF ServerInit
  <2>2. Nothing \in [waiting : Nat, active : Nat, finished : Nat]
    BY DEF Nothing
  <2>3. report \in Reports
    BY <2>1, <2>2 DEF Reports
  <2>. QED  BY <2>1, <2>3 DEF ReportsRight, HealthReport, MetricsReport
<1>2. /\ CInv => FinitelySubmitted
  BY SubmittedFinite DEF CInv, TInv, SInv
<1>3. CInv /\ FinitelySubmitted' /\ ReportsRight /\ [ServerNext]_server_vars => ReportsRight'
  BY ReportKept
<1>. QED  BY <1>1, <1>2, <1>3, ServerRunsScheduler, CInvInvariant, PTL DEF ServerSpec

(* /health counts no request twice, and /metrics_json tells of no end that   *)
(* its engine part has not seen, although the parts of a report are read at *)
(* different times, by any number of restarted workers in between.          *)
THEOREM ReportsAgreeAlways == ServerSpec => []ReportsAgree
<1>1. ASSUME ReportsRight  PROVE ReportsAgree
  <2>1. HealthCountsOnce
    BY <1>1 DEF ReportsRight, HealthReport, HealthCountsOnce, Done
  <2>2. MetricsWithinEngine
    BY <1>1 DEF ReportsRight, MetricsReport, MetricsWithinEngine, Done
  <2>. QED  BY <2>1, <2>2 DEF ReportsAgree
<1>. QED  BY <1>1, ReportsInvariant, PTL

(* A snapshot, taken under the lock, shows every request that left the       *)
(* queue, no request with all its tokens in a slot, and all tokens counted. *)
THEOREM SnapshotsAreWhole == ServerSpec => SnapshotsWhole
<1>. DEFINE Whole == /\ InEngine(report'.engine) = Cardinality(Submitted) - Len(request_queue)
                     /\ \A r \in InSlot : request_state[r].generated_tokens
                                            < request_state[r].max_new_tokens
                     /\ EngineMayFail \/ stats.tokens_generated = TokensCounted
            ReadsEngine == report'.todo # report.todo /\ Reading("engine")
<1>1. ASSUME CInv, ReportsRight, ServerNext, report'.todo # report.todo, Reading("engine")
      PROVE  Whole
  <2>1. ReadEngine
    BY <1>1 DEF ServerNext, Start, Stop, Work, Loop, TakeLock, GoOn, Receive, Handle,
       Poll, ReadQueue, ReadMetrics, Reading
  <2>2. phase = "idle" /\ report'.engine = Snapshot
    BY <1>1, <2>1 DEF ReadEngine, ReportsRight, Reports
  <2>3. SInv /\ HInv /\ TokensAdd
    BY <1>1 DEF CInv, TInv, SInv, Balanced
  <2>4. InEngine(report'.engine) = Cardinality(Submitted) - Len(request_queue)
    BY <2>2, <2>3, SentAreCounted DEF Snapshot, InEngine
  <2>5. ASSUME NEW r \in InSlot
        PROVE  request_state[r].generated_tokens < request_state[r].max_new_tokens
    <3>1. r \in Requests /\ Status(r) \in {"prefill", "decoding"}
      BY <2>3 DEF HInv, Placed, Homes, InStatus
    <3>2. RecordRight(request_state[r], r \notin Uncounted)
      BY <2>3, <3>1 DEF SInv, Counted, RecordsRight
    <3>3. r \notin Uncounted
      BY <2>2, UncountedIs
    <3>. QED  BY <3>1, <3>2, <3>3 DEF RecordRight, Status
  <2>6. EngineMayFail \/ stats.tokens_generated = TokensCounted
    <3>1. Due = 0
      BY <2>2 DEF Due
    <3>2. stats.tokens_generated \in Nat
      BY <2>3 DEF HInv, Placed, Typed, Counters
    <3>. QED  BY <2>3, <3>1, <3>2 DEF TokensAdd
  <2>. QED  BY <2>4, <2>5, <2>6
<1>2. CInv /\ ReportsRight /\ [ServerNext]_server_vars => [ReadsEngine => Whole]_server_vars
  BY <1>1
<1>. QED  BY <1>2, ReportsInvariant, PTL DEF ServerSpec, SnapshotsWhole

-----------------------------------------------------------------------------
(* The lock *)

(* A worker is in a step exactly while the lock is taken.                   *)
LockHeld ==
  /\ phase # "idle" <=> \E w \in Workers : worker[w] = "step"
  /\ \A v, w \in Workers : worker[v] = "step" /\ worker[w] = "step" => v = w

(* Of all the threads that start() and stop() leave behind, never two run a *)
(* step of the scheduler at once, and one that begins finds no half of a    *)
(* step of another.                                                         *)
THEOREM OneWorkerSteps == ServerSpec => []LockHeld
<1>. DEFINE Threads == DOMAIN worker = Workers /\ LockHeld
<1>1. ServerInit => Threads
  BY DEF ServerInit, Init, LockHeld
<1>2. ASSUME Threads, [ServerNext]_server_vars  PROVE Threads'
  <2>1. CASE UNCHANGED <<worker, phase>>
    BY <1>2, <2>1 DEF LockHeld
  <2>2. CASE Start
    BY <1>2, <2>2 DEF Start, LockHeld, vars
  <2>3. CASE \E w \in Workers : Loop(w)
    BY <1>2, <2>3 DEF Loop, LockHeld, vars
  <2>4. CASE \E w \in Workers : TakeLock(w)
    BY <1>2, <2>4 DEF TakeLock, BeginStep, Goto, LockHeld
  <2>5. CASE \E w \in Workers : GoOn(w)
    <3>1. PICK w \in Workers : GoOn(w)
      BY <2>5
    <3>2. /\ worker[w] = "step" /\ phase # "idle"
          /\ \A v \in Workers \ {w} : worker[v] # "step"
      BY <1>2, <3>1 DEF GoOn, LockHeld
    <3>3. /\ DOMAIN worker' = Workers
          /\ worker'[w] = IF phase' = "idle" THEN "loop" ELSE "step"
          /\ \A v \in Workers \ {w} : worker'[v] = worker[v]
      BY <1>2, <3>1, <3>2 DEF GoOn
    <3>. QED  BY <3>2, <3>3 DEF LockHeld
  <2>. QED
    BY <1>2, <2>1, <2>2, <2>3, <2>4, <2>5
    DEF ServerNext, server_vars, vars, Stop, Work, Submit, Receive, Handle, Poll, ReadEngine,
        ReadQueue, ReadMetrics
<1>. QED  BY <1>1, <1>2, PTL DEF ServerSpec

=============================================================================
