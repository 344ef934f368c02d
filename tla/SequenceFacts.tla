---------------------------- MODULE SequenceFacts ----------------------------
(***************************************************************************)
(* Facts about lists that the proofs cite: the first occurrence of an      *)
(* element, lists without repetitions as queues (append, head, tail, taking*)
(* out, putting in front), selections, prefixes, counting up, and functions*)
(* that are computed by counting up; and why the two moves of              *)
(* runtime/kv_block_manager.py keep physical blocks apart, for any deque   *)
(* and any tables: the first blocks of the deque go to the end of one      *)
(* table, or a whole table goes to the end of the deque.                   *)
(***************************************************************************)
EXTENDS Integers, SequencesExt, Selection, SequenceTheorems, FiniteSetTheorems,
        WellFoundedInduction, TLAPS

(* A set of natural numbers has a least one.                                *)
LEMMA MinExists ==
  ASSUME NEW S \in SUBSET Nat, S # {}
  PROVE  Min(S) \in S /\ \A y \in S : Min(S) <= y
<1>1. PICK x \in S : \A y \in S : ~ (<<y, x>> \in OpToRel(<, Nat))
  BY NatLessThanWellFounded, WFMin
<1>2. ASSUME NEW y \in S, y < x PROVE FALSE
  <2>1. <<y, x>> \in {ss \in Nat \X Nat : ss[1] < ss[2]}
    BY <1>2
  <2>2. OpToRel(<, Nat) = {ss \in Nat \X Nat : ss[1] < ss[2]}
    BY DEF OpToRel
  <2>. QED BY <1>1, <2>1, <2>2
<1>3. \A y \in S : x <= y
  BY <1>2
<1>. QED  BY <1>3 DEF Min

(* SelectInSeq finds an occurrence when there is one, and says so by 0.     *)
LEMMA IndexOf ==
  ASSUME NEW S, NEW s \in Seq(S), NEW e
  PROVE  LET i == SelectInSeq(s, LAMBDA v : v = e)
         IN  IF \E j \in 1 .. Len(s) : s[j] = e
             THEN i \in 1 .. Len(s) /\ s[i] = e
             ELSE i = 0
<1>. DEFINE I == {j \in 1 .. Len(s) : s[j] = e}
<1>1. SelectInSeq(s, LAMBDA v : v = e) = IF I # {} THEN Min(I) ELSE 0
  BY DEF SelectInSeq
<1>2. I \in SUBSET Nat
  BY LenProperties
<1>3. I # {} => Min(I) \in I
  BY <1>2, MinExists
<1>. QED  BY <1>1, <1>3

(* Counting up to n with a set for the hypothesis.                          *)
LEMMA CountingUp ==
  ASSUME NEW n \in Nat, NEW S, 0 \in S, \A i \in 0 .. n - 1 : i \in S => i + 1 \in S
  PROVE  \A i \in 0 .. n : i \in S
<1>. DEFINE Bad == {i \in 0 .. n : i \notin S}
<1>1. ASSUME Bad # {}  PROVE FALSE
  <2>. DEFINE least == Min(Bad)
  <2>1. least \in Bad /\ \A y \in Bad : least <= y
    <3>1. Bad \in SUBSET Nat
      OBVIOUS
    <3>. QED  BY <1>1, <3>1, MinExists
  <2>. HIDE DEF least
  <2>2. least - 1 \in 0 .. n - 1
    BY <2>1
  <2>3. least - 1 \in S
    BY <2>1, <2>2
  <2>4. (least - 1) + 1 \in S
    BY <2>2, <2>3
  <2>5. (least - 1) + 1 = least
    BY <2>1
  <2>. QED  BY <2>1, <2>4, <2>5
<1>. QED  BY <1>1

(* A function that says how to go on from each index and result, defines    *)
(* one that is computed by going on from a first result.                    *)
Computable(n, X, first, step) ==
  \E f \in [0 .. n -> X] : f[0] = first /\ \A i \in 1 .. n : f[i] = step[i][f[i - 1]]

(* There is such a function.                                                *)
LEMMA Recursion ==
  ASSUME NEW n \in Nat, NEW X, NEW first \in X, NEW step \in [1 .. n -> [X -> X]]
  PROVE  Computable(n, X, first, step)
<1>. DEFINE Upto(k) == \E f \in [0 .. k -> X] :
                /\ f[0] = first
                /\ \A i \in 1 .. k : f[i] = step[i][f[i - 1]]
            S == {k \in Nat : Upto(k)}
<1>1. 0 \in S
  <2>. DEFINE f == [i \in 0 .. 0 |-> first]
  <2>1. f \in [0 .. 0 -> X] /\ f[0] = first /\ \A i \in 1 .. 0 : f[i] = step[i][f[i - 1]]
    OBVIOUS
  <2>. HIDE DEF f
  <2>2. Upto(0)
    BY <2>1
  <2>. QED  BY <2>2
<1>2. ASSUME NEW k \in 0 .. n - 1, k \in S  PROVE k + 1 \in S
  <2>1. PICK f \in [0 .. k -> X] :
          f[0] = first /\ \A i \in 1 .. k : f[i] = step[i][f[i - 1]]
    BY <1>2
  <2>. DEFINE g == [i \in 0 .. k + 1 |-> IF i = k + 1 THEN step[i][f[k]] ELSE f[i]]
  <2>2. k + 1 \in 1 .. n /\ f[k] \in X
    BY <1>2
  <2>3. step[k + 1][f[k]] \in X
    BY <2>2
  <2>4. g \in [0 .. k + 1 -> X]
    BY <2>3
  <2>5. g[0] = first
    BY <2>1
  <2>6. ASSUME NEW i \in 1 .. k + 1  PROVE g[i] = step[i][g[i - 1]]
    BY <2>1
  <2>. HIDE DEF g
  <2>7. Upto(k + 1)
    BY <2>4, <2>5, <2>6
  <2>. QED  BY <2>2, <2>7
<1>. HIDE DEF S
<1>3. n \in S
  <2>1. \A i \in 0 .. n : i \in S
    BY <1>1, <1>2, CountingUp
  <2>. QED  BY <2>1
<1>. QED  BY <1>3 DEF S, Computable

(* What appending an element does to the members of a list.                 *)
LEMMA AppendRange ==
  ASSUME NEW S, NEW s \in Seq(S), NEW e \in S
  PROVE  /\ Append(s, e) \in Seq(S)
         /\ Range(Append(s, e)) = Range(s) \cup {e}
<1>1. /\ Append(s, e) \in Seq(S) /\ Len(Append(s, e)) = Len(s) + 1
      /\ \A i \in 1 .. Len(s) : Append(s, e)[i] = s[i]
      /\ Append(s, e)[Len(s) + 1] = e
  BY AppendProperties
<1>2. /\ DOMAIN s = 1 .. Len(s) /\ Len(s) \in Nat
      /\ DOMAIN Append(s, e) = 1 .. Len(s) + 1
  BY <1>1, LenProperties
<1>. QED  BY <1>1, <1>2 DEF Range

(* Appending a new element to a list without repetitions repeats nothing.   *)
LEMMA AppendToDistinct ==
  ASSUME NEW S, NEW s \in Seq(S), NEW e \in S, IsInjective(s), e \notin Range(s)
  PROVE  IsInjective(Append(s, e))
<1>1. /\ Append(s, e) \in Seq(S) /\ Len(Append(s, e)) = Len(s) + 1
      /\ \A i \in 1 .. Len(s) : Append(s, e)[i] = s[i]
      /\ Append(s, e)[Len(s) + 1] = e
  BY AppendProperties
<1>2. /\ DOMAIN s = 1 .. Len(s) /\ Len(s) \in Nat
      /\ DOMAIN Append(s, e) = 1 .. Len(s) + 1
  BY <1>1, LenProperties
<1>. QED  BY <1>1, <1>2 DEF Range, IsInjective

(* The head of a list without repetitions is not in its tail.               *)
LEMMA TailOfDistinct ==
  ASSUME NEW S, NEW s \in Seq(S), s # << >>
  PROVE  /\ Head(s) \in Range(s) /\ Tail(s) \in Seq(S)
         /\ Range(s) = Range(Tail(s)) \cup {Head(s)}
         /\ IsInjective(s) => IsInjective(Tail(s)) /\ Head(s) \notin Range(Tail(s))
<1>1. /\ Tail(s) \in Seq(S) /\ Len(Tail(s)) = Len(s) - 1
      /\ \A i \in 1 .. Len(Tail(s)) : Tail(s)[i] = s[i + 1]
  BY HeadTailProperties
<1>2. Len(s) \in Nat /\ DOMAIN s = 1 .. Len(s) /\ Len(s) # 0
  BY LenProperties, EmptySeq
<1>3. DOMAIN Tail(s) = 1 .. Len(s) - 1 /\ \A i \in 1 .. Len(s) - 1 : Tail(s)[i] = s[i + 1]
  BY <1>1, LenProperties
<1>4. Head(s) = s[1] /\ 1 \in DOMAIN s
  BY <1>2
<1>5. Range(s) = Range(Tail(s)) \cup {Head(s)}
  <2>1. ASSUME NEW i \in DOMAIN s  PROVE s[i] \in Range(Tail(s)) \cup {Head(s)}
    <3>1. CASE i = 1
      BY <1>4, <3>1
    <3>2. CASE i # 1
      <4>1. i - 1 \in DOMAIN Tail(s) /\ Tail(s)[i - 1] = s[i]
        BY <1>2, <1>3, <3>2
      <4>. QED  BY <4>1 DEF Range
    <3>. QED  BY <3>1, <3>2
  <2>2. ASSUME NEW i \in DOMAIN Tail(s)  PROVE Tail(s)[i] \in Range(s)
    BY <1>2, <1>3 DEF Range
  <2>3. Head(s) \in Range(s)
    BY <1>4 DEF Range
  <2>. QED  BY <2>1, <2>2, <2>3 DEF Range
<1>6. ASSUME IsInjective(s)  PROVE IsInjective(Tail(s)) /\ Head(s) \notin Range(Tail(s))
  <2>1. ASSUME NEW i \in 1 .. Len(s) - 1, NEW j \in 1 .. Len(s) - 1, Tail(s)[i] = Tail(s)[j]
        PROVE  i = j
    <3>1. i + 1 \in DOMAIN s /\ j + 1 \in DOMAIN s /\ s[i + 1] = s[j + 1]
      BY <1>2, <1>3, <2>1
    <3>2. i + 1 = j + 1
      BY <1>6, <3>1 DEF IsInjective
    <3>. QED  BY <3>2
  <2>2. ASSUME NEW i \in 1 .. Len(s) - 1, Tail(s)[i] = Head(s)  PROVE FALSE
    <3>1. i + 1 \in DOMAIN s /\ s[i + 1] = s[1]
      BY <1>2, <1>3, <1>4, <2>2
    <3>2. i + 1 = 1
      BY <1>4, <1>6, <3>1 DEF IsInjective
    <3>. QED  BY <3>2
  <2>. QED  BY <1>3, <2>1, <2>2 DEF IsInjective, Range
<1>. QED  BY <1>1, <1>4, <1>5, <1>6 DEF Range

(* Taking the first e out of a list moves those behind it up.                *)
LEMMA RemovedAt ==
  ASSUME NEW S, NEW s \in Seq(S), NEW e, \E j \in 1 .. Len(s) : s[j] = e
  PROVE  LET rest == RemoveFirst(s, e)
         IN  \E i \in 1 .. Len(s) :
               /\ s[i] = e
               /\ rest \in Seq(S) /\ Len(rest) = Len(s) - 1
               /\ \A j \in 1 .. Len(s) - 1 : rest[j] = IF j <= i - 1 THEN s[j] ELSE s[j + 1]
<1>0. Len(s) \in Nat /\ DOMAIN s = 1 .. Len(s) /\ (\A j \in 1 .. Len(s) : s[j] \in S)
  BY LenProperties, ElementOfSeq
<1>. DEFINE i == SelectInSeq(s, LAMBDA v : v = e)
            rest == RemoveFirst(s, e)
<1>1. rest = SubSeq(s, 1, i - 1) \o SubSeq(s, i + 1, Len(s))
  BY DEF RemoveFirst, RemoveAt
<1>2. i \in 1 .. Len(s) /\ s[i] = e
  BY IndexOf
<1>. HIDE DEF i
<1>3. /\ SubSeq(s, 1, i - 1) \in Seq(S) /\ Len(SubSeq(s, 1, i - 1)) = i - 1
      /\ \A j \in 1 .. i - 1 : SubSeq(s, 1, i - 1)[j] = s[j]
  <2>1. i - 1 \in Int /\ \A j \in 1 .. i - 1 : s[j] \in S
    BY <1>0, <1>2
  <2>2. /\ SubSeq(s, 1, i - 1) \in Seq(S)
        /\ Len(SubSeq(s, 1, i - 1)) = IF 1 <= i - 1 THEN i - 1 - 1 + 1 ELSE 0
        /\ \A j \in 1 .. i - 1 - 1 + 1 : SubSeq(s, 1, i - 1)[j] = s[1 + j - 1]
    BY <2>1, SubSeqProperties
  <2>. QED  BY <1>2, <2>2
<1>4. /\ SubSeq(s, i + 1, Len(s)) \in Seq(S)
      /\ Len(SubSeq(s, i + 1, Len(s))) = Len(s) - i
      /\ \A j \in 1 .. Len(s) - i : SubSeq(s, i + 1, Len(s))[j] = s[i + j]
  <2>1. i + 1 \in Int /\ Len(s) \in Int /\ \A j \in i + 1 .. Len(s) : s[j] \in S
    BY <1>0, <1>2
  <2>2. /\ SubSeq(s, i + 1, Len(s)) \in Seq(S)
        /\ Len(SubSeq(s, i + 1, Len(s)))
             = IF i + 1 <= Len(s) THEN Len(s) - (i + 1) + 1 ELSE 0
        /\ \A j \in 1 .. Len(s) - (i + 1) + 1 :
             SubSeq(s, i + 1, Len(s))[j] = s[i + 1 + j - 1]
    BY <2>1, SubSeqProperties
  <2>3. Len(SubSeq(s, i + 1, Len(s))) = Len(s) - i
    <3>1. \A n \in Nat : \A k \in 1 .. n :
            (IF k + 1 <= n THEN n - (k + 1) + 1 ELSE 0) = n - k
      OBVIOUS
    <3>. QED  BY <1>0, <1>2, <2>2, <3>1
  <2>4. ASSUME NEW j \in 1 .. Len(s) - i
        PROVE  SubSeq(s, i + 1, Len(s))[j] = s[i + j]
    <3>1. j \in 1 .. Len(s) - (i + 1) + 1 /\ i + 1 + j - 1 = i + j
      BY <1>0, <1>2
    <3>. QED  BY <2>2, <3>1
  <2>. QED  BY <2>2, <2>3, <2>4
<1>5. /\ rest \in Seq(S) /\ Len(rest) = Len(s) - 1
      /\ \A j \in 1 .. Len(s) - 1 : rest[j] = IF j <= i - 1 THEN s[j] ELSE s[j + 1]
  <2>1. /\ rest \in Seq(S) /\ Len(rest) = (i - 1) + (Len(s) - i)
        /\ \A j \in 1 .. (i - 1) + (Len(s) - i) :
             rest[j] = IF j <= i - 1 THEN SubSeq(s, 1, i - 1)[j]
                       ELSE SubSeq(s, i + 1, Len(s))[j - (i - 1)]
    <3>. DEFINE u == SubSeq(s, 1, i - 1)
                v == SubSeq(s, i + 1, Len(s))
    <3>1. u \in Seq(S) /\ v \in Seq(S) /\ rest = u \o v
      BY <1>1, <1>3, <1>4
    <3>2. Len(u) = i - 1 /\ Len(v) = Len(s) - i
      BY <1>3, <1>4
    <3>. HIDE DEF u, v, rest
    <3>3. /\ rest \in Seq(S) /\ Len(rest) = Len(u) + Len(v)
          /\ \A j \in 1 .. Len(u) + Len(v) :
               rest[j] = IF j <= Len(u) THEN u[j] ELSE v[j - Len(u)]
      BY <3>1, ConcatProperties
    <3>4. /\ rest \in Seq(S) /\ Len(rest) = (i - 1) + (Len(s) - i)
          /\ \A j \in 1 .. (i - 1) + (Len(s) - i) :
               rest[j] = IF j <= i - 1 THEN u[j] ELSE v[j - (i - 1)]
      BY <3>2, <3>3
    <3>. QED  BY <3>4 DEF u, v
  <2>2. ASSUME NEW j \in 1 .. Len(s) - 1, ~ (j <= i - 1)
        PROVE  SubSeq(s, i + 1, Len(s))[j - (i - 1)] = s[j + 1]
    <3>1. j - (i - 1) \in 1 .. Len(s) - i /\ i + (j - (i - 1)) = j + 1
      BY <1>0, <1>2, <2>2
    <3>. QED  BY <1>4, <3>1
  <2>3. Len(rest) = Len(s) - 1 /\ (i - 1) + (Len(s) - i) = Len(s) - 1
    BY <1>0, <1>2, <2>1
  <2>4. ASSUME NEW j \in 1 .. Len(s) - 1
        PROVE  rest[j] = IF j <= i - 1 THEN s[j] ELSE s[j + 1]
    <3>1. CASE j <= i - 1
      BY <1>3, <2>1, <2>3, <3>1
    <3>2. CASE ~ (j <= i - 1)
      BY <2>1, <2>2, <2>3, <3>2
    <3>. QED  BY <3>1, <3>2
  <2>. QED  BY <2>1, <2>3, <2>4
<1>. QED  BY <1>2, <1>5

(* Taking e out of a list without repetitions takes out e and nothing else. *)
LEMMA RemoveFirstOfDistinct ==
  ASSUME NEW S, NEW s \in Seq(S), NEW e, IsInjective(s)
  PROVE  /\ RemoveFirst(s, e) \in Seq(S)
         /\ IsInjective(RemoveFirst(s, e))
         /\ Range(RemoveFirst(s, e)) = Range(s) \ {e}
<1>0. Len(s) \in Nat /\ DOMAIN s = 1 .. Len(s) /\ (\A j \in 1 .. Len(s) : s[j] \in S)
  BY LenProperties, ElementOfSeq
<1>1. CASE \E j \in 1 .. Len(s) : s[j] = e
  <2>. DEFINE rest == RemoveFirst(s, e)
  <2>1. PICK i \in 1 .. Len(s) :
          /\ s[i] = e
          /\ rest \in Seq(S) /\ Len(rest) = Len(s) - 1
          /\ \A j \in 1 .. Len(s) - 1 : rest[j] = IF j <= i - 1 THEN s[j] ELSE s[j + 1]
    BY <1>1, RemovedAt
  <2>2. i \in 1 .. Len(s) /\ s[i] = e
    BY <2>1
  <2>3. /\ rest \in Seq(S) /\ Len(rest) = Len(s) - 1
        /\ \A j \in 1 .. Len(s) - 1 : rest[j] = IF j <= i - 1 THEN s[j] ELSE s[j + 1]
    BY <2>1
  <2>. HIDE DEF rest
  <2>4. DOMAIN rest = 1 .. Len(s) - 1
    BY <2>3, LenProperties
  <2>. DEFINE At(j) == IF j <= i - 1 THEN j ELSE j + 1
  <2>5. ASSUME NEW j \in 1 .. Len(s) - 1
        PROVE  rest[j] = s[At(j)] /\ At(j) \in 1 .. Len(s) /\ At(j) # i
    BY <1>0, <2>2, <2>3
  <2>6. IsInjective(rest)
    <3>. SUFFICES ASSUME NEW a \in 1 .. Len(s) - 1, NEW b \in 1 .. Len(s) - 1,
                         rest[a] = rest[b]
                  PROVE  a = b
      BY <2>4 DEF IsInjective
    <3>1. s[At(a)] = s[At(b)] /\ At(a) \in DOMAIN s /\ At(b) \in DOMAIN s
      BY <1>0, <2>5
    <3>2. At(a) = At(b)
      <4>. HIDE DEF At
      <4>. QED  BY <3>1 DEF IsInjective
    <3>. QED  BY <1>0, <2>2, <3>2
  <2>7. Range(rest) \subseteq Range(s) \ {e}
    <3>. SUFFICES ASSUME NEW a \in 1 .. Len(s) - 1  PROVE rest[a] \in Range(s) \ {e}
      BY <2>4 DEF Range
    <3>1. rest[a] = s[At(a)] /\ At(a) \in DOMAIN s /\ At(a) # i /\ i \in DOMAIN s
      BY <1>0, <2>2, <2>5
    <3>. HIDE DEF At
    <3>. QED  BY <2>2, <3>1 DEF IsInjective, Range
  <2>8. Range(s) \ {e} \subseteq Range(rest)
    <3>. SUFFICES ASSUME NEW a \in 1 .. Len(s), s[a] # e  PROVE s[a] \in Range(rest)
      BY <1>0 DEF Range
    <3>1. CASE a < i
      <4>1. a \in DOMAIN rest /\ rest[a] = s[a]
        BY <1>0, <2>2, <2>3, <2>4, <3>1
      <4>. QED  BY <4>1 DEF Range
    <3>2. CASE a > i
      <4>1. a - 1 \in DOMAIN rest /\ rest[a - 1] = s[(a - 1) + 1] /\ (a - 1) + 1 = a
        BY <1>0, <2>2, <2>3, <2>4, <3>2
      <4>. QED  BY <4>1 DEF Range
    <3>. QED  BY <1>0, <2>2, <3>1, <3>2
  <2>. QED  BY <2>3, <2>6, <2>7, <2>8 DEF rest
<1>2. CASE ~ \E j \in 1 .. Len(s) : s[j] = e
  <2>1. RemoveFirst(s, e) = s
    BY <1>2 DEF RemoveFirst
  <2>2. e \notin Range(s)
    BY <1>0, <1>2 DEF Range
  <2>. QED  BY <2>1, <2>2
<1>. QED  BY <1>1, <1>2

(* x is ahead of y in a line.                                               *)
Ahead(s, x, y) == \E i, j \in DOMAIN s : i < j /\ s[i] = x /\ s[j] = y

(* Nobody is both ahead of another and behind him.                          *)
LEMMA OneOrder ==
  ASSUME NEW S, NEW s \in Seq(S), IsInjective(s), NEW x, NEW y, Ahead(s, x, y)
  PROVE  ~ Ahead(s, y, x)
<1>1. DOMAIN s = 1 .. Len(s) /\ Len(s) \in Nat
  BY LenProperties
<1>2. PICK i \in DOMAIN s, j \in DOMAIN s : i < j /\ s[i] = x /\ s[j] = y
  BY DEF Ahead
<1>3. ASSUME NEW k \in DOMAIN s, NEW l \in DOMAIN s, k < l, s[k] = y, s[l] = x  PROVE FALSE
  <2>1. k = j /\ l = i
    BY <1>2, <1>3 DEF IsInjective
  <2>. QED  BY <1>1, <1>2, <1>3, <2>1
<1>. QED  BY <1>3 DEF Ahead

(* Leaving, like joining at the end, changes no order.                      *)
LEMMA RemovingKeepsOrder ==
  ASSUME NEW S, NEW s \in Seq(S), NEW e, NEW x, NEW y, Ahead(RemoveFirst(s, e), x, y)
  PROVE  Ahead(s, x, y)
<1>. DEFINE rest == RemoveFirst(s, e)
<1>1. DOMAIN s = 1 .. Len(s) /\ Len(s) \in Nat
  BY LenProperties
<1>2. CASE \E j \in 1 .. Len(s) : s[j] = e
  <2>1. PICK i \in 1 .. Len(s) :
          /\ rest \in Seq(S) /\ Len(rest) = Len(s) - 1
          /\ \A j \in 1 .. Len(s) - 1 : rest[j] = IF j <= i - 1 THEN s[j] ELSE s[j + 1]
    BY <1>2, RemovedAt
  <2>2. DOMAIN rest = 1 .. Len(s) - 1
    BY <2>1, LenProperties
  <2>3. PICK k \in DOMAIN rest, l \in DOMAIN rest : k < l /\ rest[k] = x /\ rest[l] = y
    BY DEF Ahead
  <2>. DEFINE At(j) == IF j <= i - 1 THEN j ELSE j + 1
  <2>4. /\ At(k) \in DOMAIN s /\ At(l) \in DOMAIN s /\ At(k) < At(l)
        /\ s[At(k)] = x /\ s[At(l)] = y
    <3>. HIDE DEF rest
    <3>. QED  BY <1>1, <2>1, <2>2, <2>3
  <2>. HIDE DEF At
  <2>. QED  BY <2>4 DEF Ahead
<1>3. CASE ~ \E j \in 1 .. Len(s) : s[j] = e
  <2>1. rest = s
    BY <1>3 DEF RemoveFirst
  <2>. QED  BY <2>1
<1>. QED  BY <1>2, <1>3

LEMMA JoiningKeepsOrder ==
  ASSUME NEW S, NEW s \in Seq(S), NEW e \in S, NEW x, NEW y, y # e, Ahead(Append(s, e), x, y)
  PROVE  Ahead(s, x, y)
<1>. DEFINE t == Append(s, e)
<1>1. /\ t \in Seq(S) /\ Len(t) = Len(s) + 1 /\ t[Len(s) + 1] = e
      /\ \A i \in 1 .. Len(s) : t[i] = s[i]
  BY AppendProperties
<1>2. DOMAIN t = 1 .. Len(s) + 1 /\ DOMAIN s = 1 .. Len(s) /\ Len(s) \in Nat
  BY <1>1, LenProperties
<1>3. PICK k \in DOMAIN t, l \in DOMAIN t : k < l /\ t[k] = x /\ t[l] = y
  BY DEF Ahead
<1>. HIDE DEF t
<1>4. l # Len(s) + 1
  BY <1>1, <1>3
<1>5. k \in DOMAIN s /\ l \in DOMAIN s
  BY <1>2, <1>3, <1>4
<1>. QED  BY <1>1, <1>2, <1>3, <1>5 DEF Ahead

(* Only those that are put in front pass anybody.                           *)
LEMMA PrependingKeepsOrder ==
  ASSUME NEW S, NEW s \in Seq(S), NEW e \in S, NEW x, NEW y, x # e, Ahead(<<e>> \o s, x, y)
  PROVE  Ahead(s, x, y)
<1>. DEFINE t == <<e>> \o s
<1>1. <<e>> \in Seq(S) /\ Len(<<e>>) = 1 /\ <<e>>[1] = e
  OBVIOUS
<1>2. /\ t \in Seq(S) /\ Len(t) = 1 + Len(s)
      /\ \A i \in 1 .. 1 + Len(s) : t[i] = IF i <= 1 THEN <<e>>[i] ELSE s[i - 1]
  BY <1>1, ConcatProperties
<1>3. DOMAIN t = 1 .. 1 + Len(s) /\ DOMAIN s = 1 .. Len(s) /\ Len(s) \in Nat
  BY <1>2, LenProperties
<1>4. PICK k \in DOMAIN t, l \in DOMAIN t : k < l /\ t[k] = x /\ t[l] = y
  BY DEF Ahead
<1>. HIDE DEF t
<1>5. t[1] = e
  BY <1>1, <1>2, <1>3
<1>6. k # 1
  BY <1>4, <1>5
<1>7. /\ k - 1 \in DOMAIN s /\ l - 1 \in DOMAIN s /\ k - 1 < l - 1
      /\ t[k] = s[k - 1] /\ t[l] = s[l - 1]
  BY <1>2, <1>3, <1>4, <1>6
<1>. QED  BY <1>4, <1>7 DEF Ahead

(* sel is a stretch of the line w, behind the first d of it.                *)
Stretch(w, d, sel) ==
  d + Len(sel) <= Len(w) /\ \A i \in 1 .. Len(sel) : w[d + i] = sel[i]

(* When the first of a stretch leaves the line, the others are one.         *)
LEMMA WorkingOff ==
  ASSUME NEW S, NEW w \in Seq(S), NEW sel \in Seq(S), sel # << >>, IsInjective(w),
         NEW d \in 0 .. Len(w), Stretch(w, d, sel)
  PROVE  LET rest == RemoveFirst(w, Head(sel))
         IN  /\ rest \in Seq(S) /\ Len(rest) = Len(w) - 1
             /\ d + 1 \in 1 .. Len(w) /\ w[d + 1] = Head(sel)
             /\ Stretch(rest, d, Tail(sel))
             /\ \A i \in 1 .. d : rest[i] = w[i]
<1>. DEFINE rest == RemoveFirst(w, Head(sel))
<1>1. /\ Len(w) \in Nat /\ DOMAIN w = 1 .. Len(w)
      /\ Len(sel) \in Nat \ {0} /\ Head(sel) = sel[1]
      /\ Len(Tail(sel)) = Len(sel) - 1
      /\ \A i \in 1 .. Len(sel) - 1 : Tail(sel)[i] = sel[i + 1]
  BY LenProperties, EmptySeq, HeadTailProperties
<1>2. d + 1 \in 1 .. Len(w) /\ w[d + 1] = Head(sel)
  BY <1>1 DEF Stretch
<1>3. PICK i \in 1 .. Len(w) :
        /\ w[i] = Head(sel)
        /\ rest \in Seq(S) /\ Len(rest) = Len(w) - 1
        /\ \A j \in 1 .. Len(w) - 1 : rest[j] = IF j <= i - 1 THEN w[j] ELSE w[j + 1]
  <2>1. PICK e : e = Head(sel)
    OBVIOUS
  <2>2. \E j \in 1 .. Len(w) : w[j] = e
    BY <1>2, <2>1
  <2>3. \E i \in 1 .. Len(w) :
          /\ w[i] = e
          /\ RemoveFirst(w, e) \in Seq(S) /\ Len(RemoveFirst(w, e)) = Len(w) - 1
          /\ \A j \in 1 .. Len(w) - 1 :
               RemoveFirst(w, e)[j] = IF j <= i - 1 THEN w[j] ELSE w[j + 1]
    <3>. HIDE <2>1
    <3>. QED  BY <2>2, RemovedAt
  <2>4. rest = RemoveFirst(w, e)
    BY <2>1
  <2>. HIDE DEF rest
  <2>. QED  BY <2>1, <2>3, <2>4
<1>4. i = d + 1
  BY <1>1, <1>2, <1>3 DEF IsInjective
<1>. HIDE DEF rest
<1>5. \A j \in 1 .. d : rest[j] = w[j]
  BY <1>1, <1>2, <1>3, <1>4
<1>6. ASSUME NEW j \in 1 .. Len(sel) - 1  PROVE rest[d + j] = Tail(sel)[j]
  <2>1. d + j \in 1 .. Len(w) - 1 /\ ~ (d + j <= i - 1) /\ d + j + 1 = d + (j + 1)
    BY <1>1, <1>4 DEF Stretch
  <2>2. rest[d + j] = w[d + j + 1]
    BY <1>3, <2>1
  <2>3. w[d + (j + 1)] = sel[j + 1]
    BY <1>1 DEF Stretch
  <2>. QED  BY <1>1, <2>1, <2>2, <2>3
<1>7. d + Len(Tail(sel)) <= Len(rest)
  BY <1>1, <1>3 DEF Stretch
<1>. QED  BY <1>1, <1>2, <1>3, <1>5, <1>6, <1>7 DEF Stretch, rest

(* Putting an element in front of a list.                                   *)
LEMMA PrependToDistinct ==
  ASSUME NEW S, NEW s \in Seq(S), NEW e \in S, IsInjective(s), e \notin Range(s)
  PROVE  IsInjective(<<e>> \o s) /\ Range(<<e>> \o s) = Range(s) \cup {e}
<1>1. <<e>> \in Seq(S) /\ Len(<<e>>) = 1 /\ <<e>>[1] = e
  OBVIOUS
<1>. DEFINE t == <<e>> \o s
<1>2. /\ t \in Seq(S) /\ Len(t) = 1 + Len(s)
      /\ \A i \in 1 .. 1 + Len(s) : t[i] = IF i <= 1 THEN <<e>>[i] ELSE s[i - 1]
  BY <1>1, ConcatProperties
<1>. HIDE DEF t
<1>3. Len(s) \in Nat /\ DOMAIN s = 1 .. Len(s) /\ DOMAIN t = 1 .. 1 + Len(s)
  BY <1>2, LenProperties
<1>4. t[1] = e /\ \A i \in 1 .. Len(s) : t[i + 1] = s[i]
  BY <1>1, <1>2, <1>3
<1>5. ASSUME NEW i \in DOMAIN t, i # 1  PROVE i - 1 \in DOMAIN s /\ t[i] = s[i - 1]
  BY <1>2, <1>3, <1>5
<1>6. IsInjective(t)
  <2>. SUFFICES ASSUME NEW a \in DOMAIN t, NEW b \in DOMAIN t, t[a] = t[b]  PROVE a = b
    BY DEF IsInjective
  <2>1. CASE a # 1 /\ b # 1
    <3>1. a - 1 = b - 1
      BY <1>5, <2>1 DEF IsInjective
    <3>. QED  BY <1>3, <3>1
  <2>2. CASE a = 1 \/ b = 1
    BY <1>3, <1>4, <1>5, <2>2 DEF Range
  <2>. QED  BY <2>1, <2>2
<1>7. Range(t) = Range(s) \cup {e}
  <2>1. ASSUME NEW i \in DOMAIN t  PROVE t[i] \in Range(s) \cup {e}
    BY <1>4, <1>5 DEF Range
  <2>2. ASSUME NEW i \in DOMAIN s  PROVE s[i] \in Range(t)
    <3>1. i + 1 \in DOMAIN t /\ t[i + 1] = s[i]
      BY <1>3, <1>4
    <3>. QED  BY <3>1 DEF Range
  <2>3. e \in Range(t)
    BY <1>3, <1>4 DEF Range
  <2>. QED  BY <2>1, <2>2, <2>3 DEF Range
<1>. QED  BY <1>6, <1>7 DEF t

-----------------------------------------------------------------------------
(* Facts about sequences *)

(* Two sequences without repetitions and with nothing in common can be      *)
(* joined: what appending popped blocks to a table, or a freed table to the *)
(* deque, relies on.                                                        *)
LEMMA InjectiveConcat ==
  ASSUME NEW S, NEW s \in Seq(S), NEW t \in Seq(S),
         IsInjective(s), IsInjective(t), Range(s) \cap Range(t) = {}
  PROVE  IsInjective(s \o t)
<1>1. /\ s \o t \in Seq(S)
      /\ Len(s \o t) = Len(s) + Len(t)
      /\ \A i \in 1 .. Len(s) + Len(t) :
            (s \o t)[i] = IF i <= Len(s) THEN s[i] ELSE t[i - Len(s)]
  BY ConcatProperties
<1>2. DOMAIN (s \o t) = 1 .. Len(s) + Len(t)
  BY <1>1, LenProperties
<1>3. /\ Len(s) \in Nat /\ DOMAIN s = 1 .. Len(s)
      /\ Len(t) \in Nat /\ DOMAIN t = 1 .. Len(t)
  BY LenProperties
<1>. SUFFICES ASSUME NEW a \in 1 .. Len(s) + Len(t), NEW b \in 1 .. Len(s) + Len(t),
                     (s \o t)[a] = (s \o t)[b]
              PROVE  a = b
  BY <1>2 DEF IsInjective
<1>4. CASE a <= Len(s) /\ b <= Len(s)
  BY <1>1, <1>3, <1>4 DEF IsInjective
<1>5. CASE a > Len(s) /\ b > Len(s)
  <2>1. t[a - Len(s)] = t[b - Len(s)]
    BY <1>1, <1>3, <1>5
  <2>2. a - Len(s) \in DOMAIN t /\ b - Len(s) \in DOMAIN t
    BY <1>3, <1>5
  <2>3. a - Len(s) = b - Len(s)
    BY <2>1, <2>2 DEF IsInjective
  <2>. QED  BY <2>3, <1>3
<1>6. CASE a <= Len(s) /\ b > Len(s)
  <2>1. s[a] = t[b - Len(s)]
    BY <1>1, <1>3, <1>6
  <2>2. a \in DOMAIN s /\ b - Len(s) \in DOMAIN t
    BY <1>3, <1>6
  <2>. QED  BY <2>1, <2>2 DEF Range
<1>7. CASE a > Len(s) /\ b <= Len(s)
  <2>1. s[b] = t[a - Len(s)]
    BY <1>1, <1>3, <1>7
  <2>2. b \in DOMAIN s /\ a - Len(s) \in DOMAIN t
    BY <1>3, <1>7
  <2>. QED  BY <2>1, <2>2 DEF Range
<1>. QED  BY <1>3, <1>4, <1>5, <1>6, <1>7

(* Popping k ids cuts the deque in two parts that, when it repeats nothing, *)
(* have no id in common.                                                    *)
LEMMA CutDeque ==
  ASSUME NEW S, NEW s \in Seq(S), NEW k \in 0 .. Len(s)
  PROVE  /\ SubSeq(s, 1, k) \in Seq(S)
         /\ SubSeq(s, k + 1, Len(s)) \in Seq(S)
         /\ Len(SubSeq(s, 1, k)) = k
         /\ Len(SubSeq(s, k + 1, Len(s))) = Len(s) - k
         /\ Range(s) = Range(SubSeq(s, 1, k)) \cup Range(SubSeq(s, k + 1, Len(s)))
         /\ IsInjective(s) =>
              /\ IsInjective(SubSeq(s, 1, k))
              /\ IsInjective(SubSeq(s, k + 1, Len(s)))
              /\ Range(SubSeq(s, 1, k)) \cap Range(SubSeq(s, k + 1, Len(s))) = {}
<1>. DEFINE u == SubSeq(s, 1, k)
            v == SubSeq(s, k + 1, Len(s))
<1>1. Len(s) \in Nat /\ DOMAIN s = 1 .. Len(s) /\ \A i \in 1 .. Len(s) : s[i] \in S
  BY LenProperties, ElementOfSeq
<1>2. u \in Seq(S) /\ Len(u) = k /\ \A i \in 1 .. k : u[i] = s[i]
  <2>1. \A i \in 1 .. k : s[i] \in S
    BY <1>1
  <2>2. /\ u \in Seq(S)
        /\ Len(u) = IF 1 <= k THEN k - 1 + 1 ELSE 0
        /\ \A i \in 1 .. k - 1 + 1 : u[i] = s[1 + i - 1]
    BY <1>1, <2>1, SubSeqProperties
  <2>. QED  BY <1>1, <2>2
<1>3. v \in Seq(S) /\ Len(v) = Len(s) - k /\ \A i \in 1 .. Len(s) - k : v[i] = s[k + i]
  <2>1. \A i \in k + 1 .. Len(s) : s[i] \in S
    BY <1>1
  <2>2. /\ v \in Seq(S)
        /\ Len(v) = IF k + 1 <= Len(s) THEN Len(s) - (k + 1) + 1 ELSE 0
        /\ \A i \in 1 .. Len(s) - (k + 1) + 1 : v[i] = s[k + 1 + i - 1]
    BY <1>1, <2>1, SubSeqProperties
  <2>3. Len(v) = Len(s) - k
    <3>1. Len(v) = IF k + 1 <= Len(s) THEN Len(s) - (k + 1) + 1 ELSE 0
      BY <2>2
    <3>2. Len(s) \in Nat
      BY <1>1
    <3>. DEFINE n == Len(s)
                m == Len(v)
    <3>3. n \in Nat /\ k \in 0 .. n /\ m = IF k + 1 <= n THEN n - (k + 1) + 1 ELSE 0
      BY <3>1, <3>2
    <3>. HIDE DEF n, m
    <3>4. m = n - k
      BY <3>3
    <3>. QED  BY <3>4 DEF n, m
  <2>4. ASSUME NEW i \in 1 .. Len(s) - k  PROVE v[i] = s[k + i]
    <3>1. i \in 1 .. Len(s) - (k + 1) + 1 /\ k + 1 + i - 1 = k + i
      BY <1>1
    <3>2. v[i] = s[k + 1 + i - 1]
      BY <2>2, <3>1
    <3>. QED  BY <3>1, <3>2
  <2>. QED  BY <2>2, <2>3, <2>4
<1>4. DOMAIN u = 1 .. k /\ DOMAIN v = 1 .. Len(s) - k
  BY <1>2, <1>3, LenProperties
<1>5. Range(s) = Range(u) \cup Range(v)
  <2>1. s = u \o v
    <3>1. 1 \in 1 .. Len(s) + 1 /\ k \in 1 - 1 .. Len(s) /\ Len(s) \in k .. Len(s)
      BY <1>1
    <3>2. u \o v = SubSeq(s, 1, Len(s))
      BY <3>1, ConcatAdjacentSubSeq
    <3>. QED  BY <3>2, SubSeqFull
  <2>. HIDE DEF u, v
  <2>. QED  BY <2>1, <1>2, <1>3, RangeConcatenation
<1>6. ASSUME IsInjective(s)
      PROVE  IsInjective(u) /\ IsInjective(v) /\ Range(u) \cap Range(v) = {}
  <2>1. IsInjective(u)
    BY <1>1, <1>2, <1>4, <1>6 DEF IsInjective
  <2>2. IsInjective(v)
    <3>. SUFFICES ASSUME NEW a \in 1 .. Len(s) - k, NEW b \in 1 .. Len(s) - k,
                         v[a] = v[b]
                  PROVE  a = b
      BY <1>4 DEF IsInjective
    <3>0. k + a \in DOMAIN s /\ k + b \in DOMAIN s
      BY <1>1
    <3>1. s[k + a] = s[k + b]
      BY <1>3
    <3>2. k + a = k + b
      BY <3>0, <3>1, <1>6 DEF IsInjective
    <3>. QED  BY <3>2, <1>1
  <2>3. ASSUME NEW a \in 1 .. k, NEW b \in 1 .. Len(s) - k, u[a] = v[b]
        PROVE  FALSE
    <3>0. a \in DOMAIN s /\ k + b \in DOMAIN s
      BY <1>1
    <3>1. s[a] = s[k + b]
      BY <1>2, <1>3, <2>3
    <3>2. a = k + b
      BY <3>0, <3>1, <1>6 DEF IsInjective
    <3>. QED  BY <3>2, <1>1
  <2>4. Range(u) \cap Range(v) = {}
    BY <1>4, <2>3 DEF Range
  <2>. QED  BY <2>1, <2>2, <2>4
<1>. QED  BY <1>2, <1>3, <1>5, <1>6

(* Choosing computes list after list, with or without the next element.     *)
Chooses(s, S, f) ==
  /\ f[0] = << >>
  /\ \A i \in 1 .. Len(s) :
       f[i] = IF s[i] \in S THEN Append(f[i - 1], s[i]) ELSE f[i - 1]

LEMMA InOrderComputes ==
  ASSUME NEW T, NEW s \in Seq(T), NEW S
  PROVE  \E f \in [0 .. Len(s) -> Seq(T)] : Chooses(s, S, f) /\ InOrder(s, S) = f[Len(s)]
<1>. DEFINE n == Len(s)
            X == Seq(T)
            step == [i \in 1 .. n |-> [acc \in X |->
                       IF s[i] \in S THEN Append(acc, s[i]) ELSE acc]]
            Is(f) == f = [i \in 0 .. n |->
                            IF i = 0 THEN << >>
                            ELSE IF s[i] \in S THEN Append(f[i - 1], s[i]) ELSE f[i - 1]]
            chosen == CHOOSE f : Is(f)
<1>1. n \in Nat /\ (\A i \in 1 .. n : s[i] \in T)
  BY LenProperties, ElementOfSeq
<1>2. step \in [1 .. n -> [X -> X]]
  <2>. SUFFICES ASSUME NEW i \in 1 .. n, NEW acc \in X
                PROVE  (IF s[i] \in S THEN Append(acc, s[i]) ELSE acc) \in X
    OBVIOUS
  <2>. QED  BY <1>1, AppendProperties
<1>3. << >> \in X
  BY EmptySeq
<1>4. \A i \in 1 .. n, acc \in X :
        step[i][acc] = IF s[i] \in S THEN Append(acc, s[i]) ELSE acc
  OBVIOUS
<1>5. InOrder(s, S) = chosen[n]
  BY DEF InOrder
<1>. HIDE DEF X, step, n, chosen
<1>. DEFINE first == << >>
<1>6. first \in X
  BY <1>3
<1>. HIDE DEF first
<1>7. PICK f \in [0 .. n -> X] : f[0] = first /\ \A i \in 1 .. n : f[i] = step[i][f[i - 1]]
  <2>1. Computable(n, X, first, step)
    BY <1>1, <1>2, <1>6, Recursion
  <2>. QED  BY <2>1 DEF Computable
<1>8. ASSUME NEW i \in 1 .. n
      PROVE  f[i] = IF s[i] \in S THEN Append(f[i - 1], s[i]) ELSE f[i - 1]
  <2>1. f[i - 1] \in X /\ f[i] = step[i][f[i - 1]]
    BY <1>1, <1>7
  <2>. QED  BY <1>4, <2>1
<1>9. Is(f)
  <2>1. f[0] = << >> /\ \A i \in 0 .. n : i # 0 => i \in 1 .. n
    BY <1>1, <1>7 DEF first
  <2>2. \A i \in 0 .. n :
          f[i] = IF i = 0 THEN << >>
                 ELSE IF s[i] \in S THEN Append(f[i - 1], s[i]) ELSE f[i - 1]
    BY <1>8, <2>1
  <2>. QED  BY <1>7, <2>2
<1>. HIDE DEF Is
<1>10. Is(chosen)
  BY <1>9 DEF chosen
<1>11. /\ chosen[0] = << >>
       /\ \A i \in 1 .. n :
            chosen[i] = IF s[i] \in S THEN Append(chosen[i - 1], s[i]) ELSE chosen[i - 1]
  <2>1. \A i \in 0 .. n :
          chosen[i] = IF i = 0 THEN << >>
                      ELSE IF s[i] \in S THEN Append(chosen[i - 1], s[i]) ELSE chosen[i - 1]
    BY <1>10 DEF Is
  <2>2. 0 \in 0 .. n /\ \A i \in 1 .. n : i \in 0 .. n /\ i # 0
    BY <1>1
  <2>. QED  BY <2>1, <2>2
<1>12. chosen \in [0 .. n -> X]
  <2>1. \A i \in 0 .. n : chosen[i] \in X
    <3>. DEFINE Good == {i \in 0 .. n : chosen[i] \in X}
    <3>1. 0 \in Good
      BY <1>1, <1>3, <1>11
    <3>2. ASSUME NEW k \in 0 .. n - 1, k \in Good  PROVE k + 1 \in Good
      <4>1. k + 1 \in 1 .. n /\ (k + 1) - 1 = k /\ chosen[k] \in X
        BY <1>1, <3>2
      <4>2. chosen[k + 1] = IF s[k + 1] \in S THEN Append(chosen[k], s[k + 1]) ELSE chosen[k]
        BY <1>11, <4>1
      <4>3. s[k + 1] \in T
        BY <1>1, <4>1
      <4>4. Append(chosen[k], s[k + 1]) \in X
        BY <4>1, <4>3, AppendProperties DEF X
      <4>. QED  BY <1>1, <4>1, <4>2, <4>4
    <3>. HIDE DEF Good
    <3>3. \A i \in 0 .. n : i \in Good
      BY <1>1, <3>1, <3>2, CountingUp
    <3>. QED  BY <3>3 DEF Good
  <2>2. chosen = [i \in 0 .. n |-> chosen[i]]
    BY <1>10 DEF Is
  <2>. QED  BY <2>1, <2>2
<1>. QED  BY <1>5, <1>11, <1>12 DEF Chooses, X, n

(* Choosing members of a list keeps exactly these, and repeats none that is *)
(* not repeated.                                                            *)
LEMMA InOrderProperties ==
  ASSUME NEW T, NEW s \in Seq(T), NEW S
  PROVE  /\ InOrder(s, S) \in Seq(T)
         /\ Range(InOrder(s, S)) = Range(s) \cap S
         /\ (\A i, j \in 1 .. Len(s) : s[i] = s[j] /\ s[i] \in S => i = j)
              => IsInjective(InOrder(s, S))
<1>. DEFINE n == Len(s)
<1>1. n \in Nat /\ (\A i \in 1 .. n : s[i] \in T) /\ DOMAIN s = 1 .. n
  BY LenProperties, ElementOfSeq
<1>2. PICK chosen \in [0 .. n -> Seq(T)] : Chooses(s, S, chosen) /\ InOrder(s, S) = chosen[n]
  BY InOrderComputes
<1>3. InOrder(s, S) = chosen[n]
  BY <1>2
<1>. DEFINE First(i) == {s[j] : j \in 1 .. i}
            Distinct == \A i, j \in 1 .. n : s[i] = s[j] /\ s[i] \in S => i = j
            Good == {i \in 0 .. n : /\ chosen[i] \in Seq(T)
                                    /\ Range(chosen[i]) = First(i) \cap S
                                    /\ Distinct => IsInjective(chosen[i])}
<1>4. 0 \in Good
  <2>1. 0 \in 0 .. n
    BY <1>1
  <2>2. chosen[0] = << >>
    BY <1>2 DEF Chooses
  <2>3. << >> \in Seq(T) /\ Range(<< >>) = {} /\ IsInjective(<< >>)
    BY EmptySeq DEF Range, IsInjective
  <2>4. First(0) = {}
    OBVIOUS
  <2>. QED  BY <2>1, <2>2, <2>3, <2>4
<1>5. ASSUME NEW k \in 0 .. n - 1, k \in Good  PROVE k + 1 \in Good
  <2>. DEFINE i == k + 1
              acc == chosen[k]
  <2>1. i \in 1 .. n /\ i - 1 = k
    BY <1>1
  <2>2. chosen[i] = IF s[i] \in S THEN Append(acc, s[i]) ELSE acc
    BY <1>2, <2>1 DEF Chooses
  <2>3. acc \in Seq(T) /\ Range(acc) = First(k) \cap S /\ (Distinct => IsInjective(acc))
    BY <1>5
  <2>4. First(i) = First(k) \cup {s[i]}
    BY <2>1, <1>1
  <2>5. s[i] \in T
    BY <1>1, <2>1
  <2>. HIDE DEF acc
  <2>6. CASE s[i] \in S
    <3>1. chosen[i] = Append(acc, s[i])
      BY <2>2, <2>6
    <3>2. Append(acc, s[i]) \in Seq(T) /\ Range(Append(acc, s[i])) = Range(acc) \cup {s[i]}
      BY <2>3, <2>5, AppendRange
    <3>3. ASSUME Distinct  PROVE IsInjective(Append(acc, s[i]))
      <4>1. s[i] \notin First(k)
        BY <1>1, <2>1, <2>6, <3>3
      <4>. QED  BY <2>3, <2>5, <3>3, <4>1, AppendToDistinct
    <3>4. Range(chosen[i]) = First(i) \cap S
      BY <2>3, <2>4, <2>6, <3>1, <3>2
    <3>5. chosen[i] \in Seq(T) /\ (Distinct => IsInjective(chosen[i]))
      BY <3>1, <3>2, <3>3
    <3>. QED  BY <2>1, <3>4, <3>5
  <2>7. CASE s[i] \notin S
    <3>1. chosen[i] = acc
      BY <2>2, <2>7
    <3>2. Range(chosen[i]) = First(i) \cap S
      BY <2>3, <2>4, <2>7, <3>1
    <3>3. chosen[i] \in Seq(T) /\ (Distinct => IsInjective(chosen[i]))
      BY <2>3, <3>1
    <3>. QED  BY <2>1, <3>2, <3>3
  <2>. QED  BY <2>6, <2>7
<1>. HIDE DEF Good
<1>6. n \in Good
  <2>1. \A i \in 0 .. n : i \in Good
    <3>. HIDE DEF n
    <3>. QED  BY <1>1, <1>4, <1>5, CountingUp
  <2>. QED  BY <1>1, <2>1
<1>7. First(n) = Range(s)
  BY <1>1 DEF Range
<1>. QED  BY <1>3, <1>6, <1>7 DEF Good

(* Choosing from an ascending list gives an ascending list.                 *)
Ascending(s) == \A i, j \in DOMAIN s : i < j => s[i] < s[j]

LEMMA InOrderAscends ==
  ASSUME NEW s \in Seq(Int), NEW S, Ascending(s)
  PROVE  Ascending(InOrder(s, S))
<1>1. PICK f \in [0 .. Len(s) -> Seq(Int)] : Chooses(s, S, f) /\ InOrder(s, S) = f[Len(s)]
  BY InOrderComputes
<1>2. Len(s) \in Nat /\ DOMAIN s = 1 .. Len(s) /\ \A i \in 1 .. Len(s) : s[i] \in Int
  BY LenProperties, ElementOfSeq
<1>. DEFINE Good == {k \in 0 .. Len(s) :
                       /\ Ascending(f[k])
                       /\ \A j \in DOMAIN f[k] : \E i \in 1 .. k : f[k][j] = s[i]}
<1>3. 0 \in Good
  BY <1>1, <1>2 DEF Chooses, Ascending
<1>4. ASSUME NEW k \in 0 .. Len(s) - 1, k \in Good  PROVE k + 1 \in Good
  <2>. DEFINE i == k + 1
              acc == f[k]
              e == s[i]
  <2>1. i \in 1 .. Len(s) /\ i - 1 = k /\ acc \in Seq(Int) /\ e \in Int /\ k \in 0 .. Len(s)
    BY <1>2
  <2>2. /\ Ascending(acc) /\ \A j \in DOMAIN acc : \E h \in 1 .. k : acc[j] = s[h]
    <3>. HIDE DEF i, e
    <3>. QED  BY <1>4, SMTT(30)
  <2>3. f[i] = IF e \in S THEN Append(acc, e) ELSE acc
    BY <1>1, <2>1 DEF Chooses
  <2>4. \A j \in DOMAIN acc : acc[j] < e
    <3>1. \A h \in 1 .. k : h \in DOMAIN s /\ i \in DOMAIN s /\ h < i
      BY <1>2, <2>1
    <3>2. \A h \in 1 .. k : s[h] < s[i]
      BY <3>1 DEF Ascending
    <3>. QED  BY <2>2, <3>2
  <2>5. /\ Len(acc) \in Nat /\ DOMAIN acc = 1 .. Len(acc)
        /\ DOMAIN Append(acc, e) = 1 .. Len(acc) + 1
        /\ \A j \in 1 .. Len(acc) : Append(acc, e)[j] = acc[j]
        /\ Append(acc, e)[Len(acc) + 1] = e
    BY <2>1, AppendProperties, LenProperties
  <2>6. \A j \in 1 .. Len(acc) + 1 : j \in 1 .. Len(acc) \/ j = Len(acc) + 1
    BY <2>5
  <2>7. Ascending(Append(acc, e))
    BY <2>2, <2>4, <2>5, <2>6 DEF Ascending
  <2>8. \A j \in DOMAIN Append(acc, e) : \E h \in 1 .. i : Append(acc, e)[j] = s[h]
    <3>1. \A h \in 1 .. k : h \in 1 .. i
      BY <2>1
    <3>2. i \in 1 .. i
      BY <2>1
    <3>. QED  BY <2>2, <2>5, <2>6, <3>1, <3>2
  <2>9. \A j \in DOMAIN acc : \E h \in 1 .. i : acc[j] = s[h]
    BY <2>1, <2>2
  <2>10. i \in 0 .. Len(s)
    BY <2>1
  <2>. HIDE DEF i, acc, e
  <2>11. i \in Good
    <3>1. Ascending(f[i]) /\ \A j \in DOMAIN f[i] : \E h \in 1 .. i : f[i][j] = s[h]
      BY <2>2, <2>3, <2>7, <2>8, <2>9
    <3>. QED  BY <2>10, <3>1
  <2>. QED  BY <2>11 DEF i
<1>. HIDE DEF Good
<1>5. Len(s) \in Good
  <2>1. \A i \in 0 .. Len(s) : i \in Good
    BY <1>2, <1>3, <1>4, CountingUp
  <2>. QED  BY <1>2, <2>1
<1>. QED  BY <1>1, <1>5 DEF Good

(* Of two parts of which only one is wanted, choosing gives that part.      *)
LEMMA InOrderOfParts ==
  ASSUME NEW T, NEW s \in Seq(T), NEW t \in Seq(T), NEW S
  PROVE  /\ Range(s) \subseteq S /\ Range(t) \cap S = {} => InOrder(s \o t, S) = s
         /\ Range(s) \cap S = {} /\ Range(t) \subseteq S => InOrder(s \o t, S) = t
<1>. DEFINE u == s \o t
            m == Len(s)
            n == Len(u)
<1>1. /\ u \in Seq(T) /\ m \in Nat /\ n \in Nat /\ n = m + Len(t) /\ Len(t) \in Nat
      /\ \A i \in 1 .. n : u[i] = IF i <= m THEN s[i] ELSE t[i - m]
      /\ DOMAIN s = 1 .. m /\ DOMAIN t = 1 .. Len(t)
  <2>1. /\ s \o t \in Seq(T) /\ Len(s \o t) = Len(s) + Len(t)
        /\ \A i \in 1 .. Len(s) + Len(t) :
             (s \o t)[i] = IF i <= Len(s) THEN s[i] ELSE t[i - Len(s)]
    BY ConcatProperties
  <2>2. Len(s) \in Nat /\ Len(t) \in Nat /\ DOMAIN s = 1 .. Len(s) /\ DOMAIN t = 1 .. Len(t)
    BY LenProperties
  <2>. QED  BY <2>1, <2>2
<1>. HIDE DEF u, m, n
<1>2. PICK f \in [0 .. n -> Seq(T)] : Chooses(u, S, f) /\ InOrder(u, S) = f[n]
  BY <1>1, InOrderComputes DEF n
<1>3. f[0] = << >> /\ \A k \in 0 .. n - 1 :
                        f[k + 1] = IF u[k + 1] \in S THEN Append(f[k], u[k + 1]) ELSE f[k]
  <2>1. \A k \in 0 .. n - 1 : k + 1 \in 1 .. n /\ (k + 1) - 1 = k
    BY <1>1
  <2>. QED  BY <1>2, <2>1 DEF Chooses, n
<1>4. /\ \A i \in 1 .. m : s[i] \in Range(s) /\ s[i] \in T
      /\ \A i \in 1 .. Len(t) : t[i] \in Range(t) /\ t[i] \in T
  BY <1>1, ElementOfSeq DEF Range, m
<1>5. ASSUME Range(s) \subseteq S, Range(t) \cap S = {}  PROVE f[n] = s
  <2>. DEFINE Part(k) == SubSeq(s, 1, IF k <= m THEN k ELSE m)
              Good == {k \in 0 .. n : f[k] = Part(k)}
  <2>1. 0 \in Good
    <3>1. 0 \in 0 .. n /\ 0 <= m
      BY <1>1
    <3>2. SubSeq(s, 1, 0) = << >>
      BY SubSeqEmpty
    <3>. QED  BY <1>3, <3>1, <3>2
  <2>2. ASSUME NEW k \in 0 .. n - 1, k \in Good  PROVE k + 1 \in Good
    <3>1. k + 1 \in 0 .. n /\ k + 1 \in 1 .. n /\ f[k] = Part(k)
      BY <1>1, <2>2
    <3>2. CASE k + 1 <= m
      <4>1. k + 1 \in 1 .. m /\ u[k + 1] = s[k + 1] /\ k <= m
        BY <1>1, <3>1, <3>2
      <4>2. f[k + 1] = Append(SubSeq(s, 1, k), s[k + 1])
        BY <1>3, <1>4, <1>5, <3>1, <4>1
      <4>3. SubSeq(s, 1, k + 1) = Append(SubSeq(s, 1, k), s[k + 1])
        BY <1>1, <4>1, SubSeqRecursiveSecond, SubSeqProperties, AppendIsConcat, SMTT(30) DEF m
      <4>. QED  BY <3>1, <3>2, <4>2, <4>3
    <3>3. CASE ~ k + 1 <= m
      <4>1. (k + 1) - m \in 1 .. Len(t) /\ u[k + 1] = t[(k + 1) - m]
        BY <1>1, <3>1, <3>3
      <4>2. f[k + 1] = f[k]
        BY <1>3, <1>4, <1>5, <4>1
      <4>3. Part(k + 1) = Part(k)
        BY <1>1, <3>3
      <4>. QED  BY <3>1, <4>2, <4>3
    <3>. QED  BY <3>2, <3>3
  <2>. HIDE DEF Good
  <2>3. n \in Good
    <3>1. \A i \in 0 .. n : i \in Good
      BY <1>1, <2>1, <2>2, CountingUp
    <3>. QED  BY <1>1, <3>1
  <2>4. f[n] = SubSeq(s, 1, m)
    BY <1>1, <2>3 DEF Good
  <2>. QED  BY <2>4, SubSeqFull DEF m
<1>6. ASSUME Range(s) \cap S = {}, Range(t) \subseteq S  PROVE f[n] = t
  <2>. DEFINE Part(k) == SubSeq(t, 1, IF k <= m THEN 0 ELSE k - m)
              Good == {k \in 0 .. n : f[k] = Part(k)}
  <2>1. 0 \in Good
    <3>1. 0 \in 0 .. n /\ 0 <= m
      BY <1>1
    <3>2. SubSeq(t, 1, 0) = << >>
      BY SubSeqEmpty
    <3>. QED  BY <1>3, <3>1, <3>2
  <2>2. ASSUME NEW k \in 0 .. n - 1, k \in Good  PROVE k + 1 \in Good
    <3>1. k + 1 \in 0 .. n /\ k + 1 \in 1 .. n /\ f[k] = Part(k)
      BY <1>1, <2>2
    <3>2. CASE k + 1 <= m
      <4>1. k + 1 \in 1 .. m /\ u[k + 1] = s[k + 1] /\ k <= m
        BY <1>1, <3>1, <3>2
      <4>2. f[k + 1] = f[k]
        BY <1>3, <1>4, <1>6, <4>1
      <4>. QED  BY <3>1, <3>2, <4>1, <4>2
    <3>3. CASE ~ k + 1 <= m
      <4>. DEFINE j == (k + 1) - m
      <4>1. j \in 1 .. Len(t) /\ u[k + 1] = t[j] /\ (IF k <= m THEN 0 ELSE k - m) = j - 1
        BY <1>1, <3>1, <3>3
      <4>. HIDE DEF j
      <4>2. f[k + 1] = Append(SubSeq(t, 1, j - 1), t[j])
        BY <1>3, <1>4, <1>6, <3>1, <4>1
      <4>3. SubSeq(t, 1, j) = Append(SubSeq(t, 1, j - 1), t[j])
        BY <4>1, SubSeqRecursiveSecond, SubSeqProperties, AppendIsConcat
      <4>. QED  BY <3>1, <3>3, <4>2, <4>3 DEF j
    <3>. QED  BY <3>2, <3>3
  <2>. HIDE DEF Good
  <2>3. n \in Good
    <3>1. \A i \in 0 .. n : i \in Good
      BY <1>1, <2>1, <2>2, CountingUp
    <3>. QED  BY <1>1, <3>1
  <2>4. f[n] = SubSeq(t, 1, Len(t))
    <3>1. Len(t) = 0 => SubSeq(t, 1, 0) = SubSeq(t, 1, Len(t))
      OBVIOUS
    <3>. QED  BY <1>1, <2>3, <3>1 DEF Good
  <2>. QED  BY <2>4, SubSeqFull
<1>. QED  BY <1>2, <1>5, <1>6 DEF u

(* A prefix of a list is one of every list that continues it.               *)
LEMMA PrefixExtends ==
  ASSUME NEW S, NEW s \in Seq(S), NEW t \in Seq(S), NEW u \in Seq(S), IsPrefix(s, t)
  PROVE  IsPrefix(s, t \o u)
<1>1. /\ Len(s) \in Nat /\ Len(t) \in Nat /\ Len(u) \in Nat /\ Len(s) <= Len(t)
      /\ SubSeq(s, 1, Len(s)) = SubSeq(t, 1, Len(s))
  BY LenProperties DEF IsPrefix
<1>2. /\ t \o u \in Seq(S) /\ Len(t \o u) = Len(t) + Len(u)
      /\ \A i \in 1 .. Len(t) : (t \o u)[i] = t[i] /\ t[i] \in S
  <2>1. \A i \in 1 .. Len(t) : i \in 1 .. Len(t) + Len(u) /\ i <= Len(t)
    BY <1>1
  <2>. QED  BY <2>1, ConcatProperties, ElementOfSeq
<1>. DEFINE a == SubSeq(t, 1, Len(s))
            b == SubSeq(t \o u, 1, Len(s))
<1>3. Len(s) \in 0 .. Len(t) /\ Len(s) \in 0 .. Len(t \o u)
  BY <1>1, <1>2
<1>4. a \in Seq(S) /\ Len(a) = Len(s) /\ b \in Seq(S) /\ Len(b) = Len(s)
  BY <1>2, <1>3, CutDeque
<1>5. \A i \in 1 .. Len(s) : a[i] = t[i] /\ b[i] = (t \o u)[i]
  <2>1. \A i \in 1 .. Len(s) : /\ i \in 1 .. Len(t) /\ i \in 1 .. Len(t \o u)
                               /\ i \in 1 .. Len(s) - 1 + 1 /\ 1 + i - 1 = i
    BY <1>1, <1>2
  <2>2. \A i \in 1 .. Len(s) : t[i] \in S /\ (t \o u)[i] \in S
    BY <1>2, <2>1
  <2>3. \A i \in 1 .. Len(s) - 1 + 1 : a[i] = t[1 + i - 1] /\ b[i] = (t \o u)[1 + i - 1]
    BY <1>1, <2>2, SubSeqProperties
  <2>. QED  BY <2>1, <2>3
<1>. HIDE DEF a, b
<1>6. \A i \in 1 .. Len(s) : a[i] = b[i]
  <2>1. \A i \in 1 .. Len(s) : i \in 1 .. Len(t)
    BY <1>1
  <2>. QED  BY <1>2, <1>5, <2>1
<1>7. a = b
  BY <1>4, <1>6, SeqEqual
<1>. QED  BY <1>1, <1>2, <1>7 DEF IsPrefix, a, b

(* Division does not reverse an order.                                      *)
LEMMA DivMonotone ==
  ASSUME NEW a \in Nat, NEW b \in Nat, NEW d \in Nat \ {0}, a <= b
  PROVE  a \div d <= b \div d
<1>. DEFINE p == a \div d
            q == b \div d
<1>1. /\ p \in Nat /\ d * p <= a /\ a < d * p + d
      /\ q \in Nat /\ d * q <= b /\ b < d * q + d
  OBVIOUS
<1>. HIDE DEF p, q
<1>2. ASSUME q < p  PROVE FALSE
  <2>1. q + 1 <= p
    BY <1>1, <1>2
  <2>2. d * (q + 1) <= d * p
    BY <1>1, <2>1
  <2>3. d * (q + 1) = d * q + d
    BY <1>1
  <2>4. d * q \in Int /\ d * p \in Int
    BY <1>1
  <2>. QED  BY <1>1, <2>2, <2>3, <2>4
<1>. QED  BY <1>1, <1>2 DEF p, q

-----------------------------------------------------------------------------
(* Partitions of a set of blocks into a deque and tables *)

(* Every block of B is in exactly one place of the deque or of one table.   *)
Partition(B, free, tables) ==
  /\ free \in Seq(B)
  /\ tables \in [DOMAIN tables -> Seq(B)]
  /\ IsInjective(free)
  /\ \A q \in DOMAIN tables : IsInjective(tables[q])
  /\ \A q, r \in DOMAIN tables : q # r => Range(tables[q]) \cap Range(tables[r]) = {}
  /\ \A q \in DOMAIN tables : Range(free) \cap Range(tables[q]) = {}
  /\ \A b \in B : \/ b \in Range(free)
                 \/ \E q \in DOMAIN tables : b \in Range(tables[q])

(* The table of r, or the empty one it starts from. *)
TableIn(tables, r) == IF r \in DOMAIN tables THEN tables[r] ELSE << >>

(* tables with s appended to r's. *)
GiveTo(tables, r, s) ==
  [q \in DOMAIN tables \cup {r} |->
     IF q = r THEN TableIn(tables, r) \o s ELSE tables[q]]

(* tables without r's. *)
TakeFrom(tables, r) == [q \in DOMAIN tables \ {r} |-> tables[q]]

(* Whoever is given the first k free blocks, the blocks stay partitioned.   *)
LEMMA GiveKeepsPartition ==
  ASSUME NEW B, NEW free, NEW tables, Partition(B, free, tables),
         NEW r, NEW k \in 0 .. Len(free)
  PROVE  Partition(B, SubSeq(free, k + 1, Len(free)),
                   GiveTo(tables, r, SubSeq(free, 1, k)))
<1>. DEFINE old == TableIn(tables, r)
            got == SubSeq(free, 1, k)
            rest == SubSeq(free, k + 1, Len(free))
            after == GiveTo(tables, r, got)
<1>1. /\ got \in Seq(B) /\ rest \in Seq(B)
      /\ Range(free) = Range(got) \cup Range(rest)
      /\ IsInjective(got) /\ IsInjective(rest)
      /\ Range(got) \cap Range(rest) = {}
  BY CutDeque DEF Partition
<1>2. /\ old \in Seq(B) /\ IsInjective(old)
      /\ Range(free) \cap Range(old) = {}
      /\ \A q \in DOMAIN tables : q # r => Range(tables[q]) \cap Range(old) = {}
  <2>1. CASE r \in DOMAIN tables
    BY <2>1 DEF Partition, TableIn
  <2>2. CASE r \notin DOMAIN tables
    <3>1. old = << >>
      BY <2>2 DEF TableIn
    <3>2. Range(<< >>) = {} /\ IsInjective(<< >>) /\ << >> \in Seq(B)
      BY DEF Range, IsInjective
    <3>. QED  BY <3>1, <3>2
  <2>. QED  BY <2>1, <2>2
<1>3. /\ old \o got \in Seq(B)
      /\ Range(old \o got) = Range(old) \cup Range(got)
      /\ IsInjective(old \o got)
  <2>1. Range(old) \cap Range(got) = {}
    BY <1>1, <1>2
  <2>. HIDE DEF old, got
  <2>. QED  BY <1>1, <1>2, <2>1, RangeConcatenation, ConcatProperties, InjectiveConcat
<1>4. /\ DOMAIN after = DOMAIN tables \cup {r}
      /\ after[r] = old \o got
      /\ \A q \in DOMAIN tables : q # r => after[q] = tables[q]
      /\ after = [q \in DOMAIN after |-> after[q]]
  BY DEF GiveTo
<1>. HIDE DEF old, got, rest, after
<1>5. after \in [DOMAIN after -> Seq(B)]
  <2>1. \A q \in DOMAIN after : after[q] \in Seq(B)
    BY <1>3, <1>4 DEF Partition
  <2>. QED  BY <1>4, <2>1
<1>6. \A q \in DOMAIN after : IsInjective(after[q])
  BY <1>3, <1>4 DEF Partition
<1>7. \A p, q \in DOMAIN after : p # q => Range(after[p]) \cap Range(after[q]) = {}
  <2>1. ASSUME NEW q \in DOMAIN tables, q # r
        PROVE  Range(tables[q]) \cap Range(old \o got) = {}
    BY <1>1, <1>2, <1>3, <2>1 DEF Partition
  <2>. QED  BY <1>4, <2>1 DEF Partition
<1>8. \A q \in DOMAIN after : Range(rest) \cap Range(after[q]) = {}
  <2>1. Range(rest) \cap Range(old \o got) = {}
    BY <1>1, <1>2, <1>3
  <2>2. \A q \in DOMAIN tables : Range(rest) \cap Range(tables[q]) = {}
    BY <1>1 DEF Partition
  <2>. QED  BY <1>4, <2>1, <2>2
<1>9. ASSUME NEW b \in B
      PROVE  b \in Range(rest) \/ \E q \in DOMAIN after : b \in Range(after[q])
  <2>1. CASE b \in Range(free)
    BY <1>1, <1>3, <1>4, <2>1
  <2>2. CASE \E q \in DOMAIN tables : b \in Range(tables[q])
    <3>1. PICK q \in DOMAIN tables : b \in Range(tables[q])
      BY <2>2
    <3>2. CASE q = r
      <4>1. b \in Range(old)
        BY <3>1, <3>2 DEF old, TableIn
      <4>. QED  BY <1>3, <1>4, <4>1
    <3>3. CASE q # r
      BY <1>4, <3>1, <3>3
    <3>. QED  BY <3>2, <3>3
  <2>. QED  BY <2>1, <2>2 DEF Partition
<1>10. Partition(B, rest, after)
  BY <1>1, <1>5, <1>6, <1>7, <1>8, <1>9 DEF Partition
<1>. QED  BY <1>10 DEF rest, after, got

(* Returning a table to the tail of the deque keeps the blocks partitioned. *)
LEMMA TakeKeepsPartition ==
  ASSUME NEW B, NEW free, NEW tables, Partition(B, free, tables),
         NEW r \in DOMAIN tables
  PROVE  Partition(B, free \o tables[r], TakeFrom(tables, r))
<1>. DEFINE after == TakeFrom(tables, r)
<1>1. /\ DOMAIN after = DOMAIN tables \ {r}
      /\ \A q \in DOMAIN after : after[q] = tables[q]
      /\ after = [q \in DOMAIN after |-> after[q]]
  BY DEF TakeFrom
<1>. HIDE DEF after
<1>2. /\ free \in Seq(B) /\ tables[r] \in Seq(B)
      /\ IsInjective(free) /\ IsInjective(tables[r])
      /\ Range(free) \cap Range(tables[r]) = {}
  BY DEF Partition
<1>3. /\ free \o tables[r] \in Seq(B)
      /\ Range(free \o tables[r]) = Range(free) \cup Range(tables[r])
      /\ IsInjective(free \o tables[r])
  BY <1>2, RangeConcatenation, ConcatProperties, InjectiveConcat
<1>4. after \in [DOMAIN after -> Seq(B)]
  <2>1. \A q \in DOMAIN after : after[q] \in Seq(B)
    BY <1>1 DEF Partition
  <2>. QED  BY <1>1, <2>1
<1>5. \A q \in DOMAIN after : Range(free \o tables[r]) \cap Range(after[q]) = {}
  <2>1. \A q \in DOMAIN after : /\ Range(tables[r]) \cap Range(after[q]) = {}
                              /\ Range(free) \cap Range(after[q]) = {}
    BY <1>1 DEF Partition
  <2>. QED  BY <1>3, <2>1
<1>6. \A b \in B : \/ b \in Range(free \o tables[r])
                 \/ \E q \in DOMAIN after : b \in Range(after[q])
  BY <1>1, <1>3 DEF Partition
<1>7. Partition(B, free \o tables[r], after)
  BY <1>1, <1>3, <1>4, <1>5, <1>6 DEF Partition
<1>. QED  BY <1>7 DEF after

(* The members of a list are finitely many, as many as its length if it     *)
(* repeats none.                                                            *)
LEMMA CountingMembers ==
  ASSUME NEW S, NEW s \in Seq(S)
  PROVE  /\ IsFiniteSet(Range(s)) /\ Cardinality(Range(s)) \in Nat
         /\ IsInjective(s) => Cardinality(Range(s)) = Len(s)
<1>1. Len(s) \in Nat /\ DOMAIN s = 1 .. Len(s)
  BY LenProperties
<1>2. s \in [1 .. Len(s) -> Range(s)]
  BY <1>1 DEF Range
<1>3. s \in Surjection(1 .. Len(s), Range(s))
  BY <1>1, <1>2 DEF Surjection, Range
<1>4. ExistsSurjection(1 .. Len(s), Range(s))
  BY <1>3 DEF ExistsSurjection
<1>5. IsFiniteSet(Range(s))
  BY <1>1, <1>4, FS_NatSurjection
<1>6. ASSUME IsInjective(s)  PROVE Cardinality(Range(s)) = Len(s)
  <2>1. s \in Injection(1 .. Len(s), Range(s))
    BY <1>1, <1>2, <1>6 DEF Injection, IsInjective
  <2>2. ExistsBijection(1 .. Len(s), Range(s))
    BY <1>3, <2>1 DEF ExistsBijection, Bijection
  <2>. QED  BY <1>1, <2>2, FS_CountingElements
<1>. QED  BY <1>5, <1>6, FS_CardinalityType

LEMMA DisjointUnion ==
  ASSUME NEW A, NEW B, IsFiniteSet(A), IsFiniteSet(B), A \cap B = {}
  PROVE  /\ IsFiniteSet(A \cup B)
         /\ Cardinality(A \cup B) = Cardinality(A) + Cardinality(B)
<1>1. Cardinality(A) \in Nat /\ Cardinality(B) \in Nat
  BY FS_CardinalityType
<1>2. Cardinality(A \cap B) = 0
  BY FS_EmptySet
<1>3. /\ IsFiniteSet(A \cup B)
      /\ Cardinality(A \cup B) = Cardinality(A) + Cardinality(B) - Cardinality(A \cap B)
  BY FS_Union
<1>4. Cardinality(A \cup B) = Cardinality(A) + Cardinality(B)
  BY <1>1, <1>2, <1>3
<1>. QED  BY <1>3, <1>4

-----------------------------------------------------------------------------
(* Sums over finite sets *)

(* f gives the sum of w over each subset of U, one chosen member at a time, *)
(* as the folds of the community modules define it.                         *)
Sums(w, U, f) ==
  f = [s \in SUBSET U |->
         IF s = {} THEN 0
         ELSE LET x == CHOOSE x \in s : TRUE IN w[x] + f[s \ {x}]]

LEMMA SumIsOne ==
  ASSUME NEW w, NEW U
  PROVE  SumFunctionOnSet(w, U) = (CHOOSE f : Sums(w, U, f))[U]
BY DEF SumFunctionOnSet, FoldFunctionOnSet, MapThenFoldSet, Sums

(* There is such a function.                                                *)
LEMMA SumsExist ==
  ASSUME NEW T, NEW w \in [T -> Nat], NEW U \in SUBSET T, IsFiniteSet(U)
  PROVE  \E f \in [SUBSET U -> Nat] : Sums(w, U, f)
<1>. DEFINE n == Cardinality(U)
            X == [SUBSET U -> Nat]
            Pick(s) == CHOOSE x \in s : TRUE
            zero == [s \in SUBSET U |-> 0]
            Next(f) == [s \in SUBSET U |-> IF s = {} THEN 0 ELSE w[Pick(s)] + f[s \ {Pick(s)}]]
            step == [i \in 1 .. n + 1 |-> [f \in X |-> Next(f)]]
<1>1. n \in Nat
  BY FS_CardinalityType
<1>2. ASSUME NEW s \in SUBSET U, s # {}
      PROVE  /\ Pick(s) \in s /\ Pick(s) \in U /\ w[Pick(s)] \in Nat
             /\ s \ {Pick(s)} \in SUBSET U
             /\ Cardinality(s) \in Nat /\ Cardinality(s \ {Pick(s)}) = Cardinality(s) - 1
  <2>1. Pick(s) \in s
    BY <1>2
  <2>2. IsFiniteSet(s)
    BY FS_Subset
  <2>. HIDE DEF Pick
  <2>. QED  BY <2>1, <2>2, FS_CardinalityType, FS_RemoveElement
<1>. HIDE DEF Pick
<1>3. ASSUME NEW f \in X  PROVE Next(f) \in X
  <2>1. \A s \in SUBSET U : s # {} => w[Pick(s)] \in Nat /\ f[s \ {Pick(s)}] \in Nat
    BY <1>2
  <2>. QED  BY <2>1
<1>4. zero \in X
  OBVIOUS
<1>5. step \in [1 .. n + 1 -> [X -> X]] /\ \A i \in 1 .. n + 1, f \in X : step[i][f] = Next(f)
  BY <1>3
<1>. HIDE DEF step, zero
<1>6. Computable(n + 1, X, zero, step)
  <2>1. n + 1 \in Nat
    BY <1>1
  <2>. HIDE DEF n, X
  <2>. QED  BY <1>4, <1>5, <2>1, Recursion
<1>7. PICK F \in [0 .. n + 1 -> X] :
        F[0] = zero /\ \A i \in 1 .. n + 1 : F[i] = step[i][F[i - 1]]
  BY <1>6 DEF Computable
<1>8. ASSUME NEW k \in 0 .. n
      PROVE  F[k] \in X /\ F[k + 1] \in X /\ F[k + 1] = Next(F[k])
  <2>1. k + 1 \in 1 .. n + 1 /\ k \in 0 .. n + 1 /\ (k + 1) - 1 = k
    BY <1>1
  <2>. HIDE DEF n, X, Next
  <2>. QED  BY <1>5, <1>7, <2>1
<1>. DEFINE Good == {k \in 0 .. n : \A s \in SUBSET U : Cardinality(s) <= k => F[k + 1][s] = F[k][s]}
<1>9. 0 \in Good
  <2>1. ASSUME NEW s \in SUBSET U, Cardinality(s) <= 0  PROVE F[0 + 1][s] = F[0][s]
    <3>1. s = {}
      <4>1. IsFiniteSet(s)
        BY FS_Subset
      <4>2. Cardinality(s) \in Nat
        BY <4>1, FS_CardinalityType
      <4>3. Cardinality(s) = 0
        BY <2>1, <4>2
      <4>. QED  BY <4>1, <4>3, FS_EmptySet
    <3>2. 0 \in 0 .. n
      BY <1>1
    <3>3. F[0 + 1] = Next(F[0])
      BY <1>8, <3>2
    <3>. QED  BY <1>7, <3>1, <3>3 DEF zero
  <2>. QED  BY <1>1, <2>1
<1>10. ASSUME NEW k \in 0 .. n - 1, k \in Good  PROVE k + 1 \in Good
  <2>1. k \in 0 .. n /\ k + 1 \in 0 .. n
    BY <1>1
  <2>2. F[k + 1] = Next(F[k]) /\ F[(k + 1) + 1] = Next(F[k + 1])
    BY <1>8, <2>1
  <2>3. ASSUME NEW s \in SUBSET U, Cardinality(s) <= k + 1
        PROVE  F[(k + 1) + 1][s] = F[k + 1][s]
    <3>1. CASE s = {}
      BY <2>2, <3>1
    <3>2. CASE s # {}
      <4>. DEFINE x == Pick(s)
      <4>1. s \ {x} \in SUBSET U /\ Cardinality(s \ {x}) <= k
        BY <1>2, <2>1, <2>3, <3>2
      <4>2. F[k + 1][s \ {x}] = F[k][s \ {x}]
        BY <1>10, <4>1
      <4>. QED  BY <2>2, <3>2, <4>1, <4>2
    <3>. QED  BY <3>1, <3>2
  <2>. QED  BY <2>1, <2>3
<1>11. n \in Good
  <2>1. \A k \in 0 .. n : k \in Good
    <3>. HIDE DEF Good, n
    <3>. QED  BY <1>1, <1>9, <1>10, CountingUp
  <2>. QED  BY <1>1, <2>1
<1>12. F[n + 1] = F[n]
  <2>1. n \in 0 .. n
    BY <1>1
  <2>2. F[n] \in X /\ F[n + 1] \in X
    BY <1>8, <2>1
  <2>3. \A s \in SUBSET U : Cardinality(s) <= n
    <3>. TAKE s \in SUBSET U
    <3>. QED  BY FS_Subset
  <2>4. \A s \in SUBSET U : F[n + 1][s] = F[n][s]
    BY <1>11, <2>3
  <2>. QED  BY <2>2, <2>4
<1>13. n \in 0 .. n
  BY <1>1
<1>14. F[n] \in X /\ F[n] = Next(F[n])
  BY <1>8, <1>12, <1>13
<1>15. Sums(w, U, F[n])
  BY <1>14 DEF Sums, Pick
<1>. QED  BY <1>14, <1>15

Alike(w, f, g, s) ==
  /\ f[s] = g[s] /\ f[s] \in Nat
  /\ \A x \in s : f[s] = w[x] + f[s \ {x}]

(* What it says of a finite set does not depend on the order in which the   *)
(* members are chosen, nor on the set it was made for.                      *)
LEMMA SumsAgree ==
  ASSUME NEW T, NEW w \in [T -> Nat], NEW U \in SUBSET T, NEW V \in SUBSET T,
         IsFiniteSet(U), NEW f, NEW g, Sums(w, U, f), Sums(w, V, g),
         NEW r \in SUBSET (U \cap V)
  PROVE  Alike(w, f, g, r)
<1>. DEFINE n == Cardinality(U)
            W == SUBSET (U \cap V)
            Holds(s) == /\ f[s] = g[s] /\ f[s] \in Nat
                        /\ \A x \in s : f[s] = w[x] + f[s \ {x}]
            Good == {k \in 0 .. n : \A s \in W : Cardinality(s) <= k => Holds(s)}
<1>1. n \in Nat /\ \A s \in W : IsFiniteSet(s) /\ Cardinality(s) \in Nat /\ Cardinality(s) <= n
  <2>1. ASSUME NEW s \in W  PROVE IsFiniteSet(s) /\ Cardinality(s) \in Nat /\ Cardinality(s) <= n
    BY FS_Subset, FS_CardinalityType
  <2>. QED  BY <2>1, FS_CardinalityType
<1>2. ASSUME NEW s \in W, NEW x \in s
      PROVE  /\ s \ {x} \in W /\ Cardinality(s \ {x}) = Cardinality(s) - 1 /\ w[x] \in Nat
  BY <1>1, FS_RemoveElement
<1>3. f[{}] = 0 /\ g[{}] = 0
  BY DEF Sums
<1>4. ASSUME NEW s \in W, s # {}
      PROVE  \E y \in s : f[s] = w[y] + f[s \ {y}] /\ g[s] = w[y] + g[s \ {y}]
  <2>. DEFINE y == CHOOSE x \in s : TRUE
  <2>1. y \in s
    BY <1>4
  <2>2. s \in SUBSET U /\ s \in SUBSET V
    OBVIOUS
  <2>3. f[s] = w[y] + f[s \ {y}] /\ g[s] = w[y] + g[s \ {y}]
    BY <1>4, <2>2 DEF Sums
  <2>. HIDE DEF y
  <2>. QED  BY <2>1, <2>3
<1>5. 0 \in Good
  <2>1. ASSUME NEW s \in W, Cardinality(s) <= 0  PROVE s = {}
    <3>1. ASSUME NEW x \in s  PROVE FALSE
      <4>1. Cardinality(s \ {x}) \in Nat /\ Cardinality(s \ {x}) = Cardinality(s) - 1
        BY <1>1, <1>2
      <4>. QED  BY <1>1, <2>1, <4>1
    <3>. QED  BY <3>1
  <2>2. Holds({})
    BY <1>3
  <2>. HIDE DEF Holds, W
  <2>3. \A s \in W : Cardinality(s) <= 0 => Holds(s)
    BY <2>1, <2>2
  <2>4. 0 \in 0 .. n
    BY <1>1
  <2>. QED  BY <2>3, <2>4
<1>6. ASSUME NEW k \in 0 .. n - 1, k \in Good  PROVE k + 1 \in Good
  <2>1. ASSUME NEW s \in W, Cardinality(s) <= k + 1, s # {}  PROVE Holds(s)
    <3>1. PICK y \in s : f[s] = w[y] + f[s \ {y}] /\ g[s] = w[y] + g[s \ {y}]
      BY <1>4, <2>1
    <3>2. \A x \in s : s \ {x} \in W /\ Cardinality(s \ {x}) <= k /\ w[x] \in Nat
      BY <1>1, <1>2, <2>1
    <3>3. \A x \in s : Holds(s \ {x})
      <4>. HIDE DEF Holds, W
      <4>. QED  BY <1>6, <3>2
    <3>4. f[s] = g[s] /\ f[s] \in Nat
      <4>1. f[s \ {y}] = g[s \ {y}] /\ f[s \ {y}] \in Nat
        BY <3>3
      <4>2. w[y] \in Nat
        BY <3>2
      <4>. QED  BY <3>1, <4>1, <4>2
    <3>5. ASSUME NEW x \in s, x # y  PROVE f[s] = w[x] + f[s \ {x}]
      <4>1. f[s \ {y}] = w[x] + f[(s \ {y}) \ {x}]
        BY <3>3, <3>5
      <4>2. f[s \ {x}] = w[y] + f[(s \ {x}) \ {y}]
        BY <3>3, <3>5
      <4>3. (s \ {y}) \ {x} = (s \ {x}) \ {y}
        OBVIOUS
      <4>4. (s \ {x}) \ {y} \in W
        OBVIOUS
      <4>5. f[(s \ {x}) \ {y}] \in Nat
        <5>0. s \ {x} \in W /\ Cardinality(s \ {x}) <= k /\ y \in s \ {x}
          BY <3>2, <3>5
        <5>a. Cardinality((s \ {x}) \ {y}) = Cardinality(s \ {x}) - 1
          BY <1>2, <5>0
        <5>b. Cardinality(s \ {x}) \in Nat
          BY <1>1, <5>0
        <5>1. Cardinality((s \ {x}) \ {y}) <= k
          BY <5>0, <5>a, <5>b
        <5>2. Holds((s \ {x}) \ {y})
          <6>. HIDE DEF Holds, W
          <6>. QED  BY <1>6, <4>4, <5>1
        <5>. QED  BY <5>2
      <4>6. w[x] \in Nat /\ w[y] \in Nat
        BY <3>2
      <4>7. f[s] = w[y] + (w[x] + f[(s \ {x}) \ {y}])
        BY <3>1, <4>1, <4>3
      <4>8. \A a, b, c \in Nat : a + (b + c) = b + (a + c)
        OBVIOUS
      <4>. QED  BY <4>2, <4>5, <4>6, <4>7, <4>8
    <3>. QED  BY <3>1, <3>4, <3>5
  <2>2. Holds({})
    BY <1>3
  <2>3. \A s \in W : Cardinality(s) <= k + 1 => Holds(s)
    <3>. HIDE DEF Holds, W
    <3>. QED  BY <2>1, <2>2
  <2>4. k + 1 \in 0 .. n
    BY <1>1
  <2>. HIDE DEF Holds, W, n
  <2>. QED  BY <2>3, <2>4
<1>7. \A k \in 0 .. n : k \in Good
  <2>. HIDE DEF Good, n
  <2>. QED  BY <1>1, <1>5, <1>6, CountingUp
<1>8. n \in Good
  BY <1>1, <1>7
<1>9. \A s \in W : Holds(s)
  <2>. HIDE DEF Holds, W
  <2>. QED  BY <1>1, <1>8
<1>. QED  BY <1>9 DEF Alike

(* A sum takes its members in any order.                                    *)
LEMMA SumProperties ==
  ASSUME NEW T, NEW w \in [T -> Nat], NEW U \in SUBSET T, IsFiniteSet(U)
  PROVE  /\ SumFunctionOnSet(w, U) \in Nat
         /\ SumFunctionOnSet(w, {}) = 0
         /\ \A x \in U : SumFunctionOnSet(w, U) = w[x] + SumFunctionOnSet(w, U \ {x})
<1>1. ASSUME NEW V \in SUBSET U
      PROVE  \E g : Sums(w, V, g) /\ SumFunctionOnSet(w, V) = g[V]
  <2>1. V \in SUBSET T /\ IsFiniteSet(V)
    BY FS_Subset
  <2>2. \E g : Sums(w, V, g)
    BY <2>1, SumsExist
  <2>3. Sums(w, V, CHOOSE g : Sums(w, V, g))
    BY <2>2
  <2>. QED  BY <2>3, SumIsOne
<1>2. PICK f : Sums(w, U, f) /\ SumFunctionOnSet(w, U) = f[U]
  BY <1>1
<1>3. ASSUME NEW V \in SUBSET U
      PROVE  /\ SumFunctionOnSet(w, V) = f[V] /\ f[V] \in Nat
             /\ \A x \in V : f[V] = w[x] + f[V \ {x}]
  <2>1. PICK g : Sums(w, V, g) /\ SumFunctionOnSet(w, V) = g[V]
    BY <1>1
  <2>2. V \in SUBSET (U \cap V) /\ V \in SUBSET T
    OBVIOUS
  <2>3. /\ f[V] = g[V] /\ f[V] \in Nat
        /\ \A x \in V : f[V] = w[x] + f[V \ {x}]
    <3>1. V \in SUBSET (U \cap V) /\ Sums(w, U, f) /\ Sums(w, V, g)
      BY <1>2, <2>1
    <3>2. Alike(w, f, g, V)
      BY <2>2, <3>1, SumsAgree
    <3>. QED  BY <3>2 DEF Alike
  <2>. QED  BY <2>1, <2>3
<1>4. f[{}] = 0
  BY <1>2 DEF Sums
<1>5. U \in SUBSET U /\ {} \in SUBSET U /\ \A x \in U : U \ {x} \in SUBSET U
  OBVIOUS
<1>. QED  BY <1>3, <1>4, <1>5

(* Counting one more for each member of B adds as many as B has members; a  *)
(* function that is nowhere less has no lesser sum.                         *)
LEMMA SumOfMore ==
  ASSUME NEW T, NEW v \in [T -> Nat], NEW w \in [T -> Nat], NEW U \in SUBSET T, IsFiniteSet(U)
  PROVE  /\ (\A x \in U : v[x] <= w[x]) => SumFunctionOnSet(v, U) <= SumFunctionOnSet(w, U)
         /\ \A B : (\A x \in U : w[x] = IF x \in B THEN v[x] + 1 ELSE v[x]) =>
                     SumFunctionOnSet(w, U) = SumFunctionOnSet(v, U) + Cardinality(U \cap B)
<1>. DEFINE n == Cardinality(U)
            More(s) == (\A x \in s : v[x] <= w[x]) =>
                         SumFunctionOnSet(v, s) <= SumFunctionOnSet(w, s)
            Adds(s) == \A B : (\A x \in s : w[x] = IF x \in B THEN v[x] + 1 ELSE v[x]) =>
                     SumFunctionOnSet(w, s) = SumFunctionOnSet(v, s) + Cardinality(s \cap B)
            Good == {k \in 0 .. n : \A s \in SUBSET U : Cardinality(s) = k => More(s) /\ Adds(s)}
<1>1. n \in Nat
  BY FS_CardinalityType
<1>2. ASSUME NEW s \in SUBSET U
      PROVE  /\ IsFiniteSet(s) /\ Cardinality(s) \in Nat /\ (Cardinality(s) = 0 => s = {})
             /\ SumFunctionOnSet(v, s) \in Nat /\ SumFunctionOnSet(w, s) \in Nat
  <2>1. IsFiniteSet(s)
    BY FS_Subset
  <2>2. s \in SUBSET T
    OBVIOUS
  <2>. QED  BY <2>1, <2>2, FS_CardinalityType, FS_EmptySet, SumProperties
<1>3. 0 \in Good
  <2>1. SumFunctionOnSet(v, {}) = 0 /\ SumFunctionOnSet(w, {}) = 0
    BY SumProperties
  <2>2. Cardinality({}) = 0
    BY FS_EmptySet
  <2>3. More({})
    BY <2>1
  <2>4. Adds({})
    <3>. SUFFICES ASSUME NEW B
                  PROVE  SumFunctionOnSet(w, {}) = SumFunctionOnSet(v, {}) + Cardinality({} \cap B)
      OBVIOUS
    <3>1. {} \cap B = {}
      OBVIOUS
    <3>. QED  BY <2>1, <2>2, <3>1
  <2>. HIDE DEF More, Adds
  <2>. QED  BY <1>1, <1>2, <2>3, <2>4
<1>4. ASSUME NEW k \in 0 .. n - 1, k \in Good  PROVE k + 1 \in Good
  <2>1. ASSUME NEW s \in SUBSET U, Cardinality(s) = k + 1  PROVE More(s) /\ Adds(s)
    <3>0. s # {}
      BY <2>1, FS_EmptySet
    <3>1. PICK x \in s : TRUE
      BY <3>0
    <3>. DEFINE t == s \ {x}
    <3>2. IsFiniteSet(s) /\ s \in SUBSET T /\ t \in SUBSET U /\ x \in T
      BY <1>2
    <3>3. Cardinality(t) = k /\ Cardinality(t) \in Nat /\ IsFiniteSet(t)
      <4>1. Cardinality(t) = Cardinality(s) - 1
        BY <3>2, FS_RemoveElement
      <4>. QED  BY <1>2, <2>1, <3>2, <4>1
    <3>4. /\ SumFunctionOnSet(v, s) = v[x] + SumFunctionOnSet(v, t)
          /\ SumFunctionOnSet(w, s) = w[x] + SumFunctionOnSet(w, t)
          /\ SumFunctionOnSet(v, t) \in Nat /\ SumFunctionOnSet(w, t) \in Nat
          /\ v[x] \in Nat /\ w[x] \in Nat
      BY <1>2, <3>2, SumProperties
    <3>5. More(t) /\ Adds(t)
      <4>. HIDE DEF t, More, Adds
      <4>. QED  BY <1>4, <3>2, <3>3
    <3>6. More(s)
      <4>. HAVE \A y \in s : v[y] <= w[y]
      <4>1. SumFunctionOnSet(v, t) <= SumFunctionOnSet(w, t) /\ v[x] <= w[x]
        BY <3>5
      <4>. HIDE DEF t
      <4>. QED  BY <3>4, <4>1
    <3>7. Adds(s)
      <4>. SUFFICES ASSUME NEW B, \A y \in s : w[y] = IF y \in B THEN v[y] + 1 ELSE v[y]
                    PROVE  SumFunctionOnSet(w, s) = SumFunctionOnSet(v, s) + Cardinality(s \cap B)
        OBVIOUS
      <4>1. SumFunctionOnSet(w, t) = SumFunctionOnSet(v, t) + Cardinality(t \cap B)
        BY <3>5
      <4>2. IsFiniteSet(t \cap B) /\ Cardinality(t \cap B) \in Nat
        BY <3>3, FS_Subset, FS_CardinalityType
      <4>3. CASE x \in B
        <5>1. s \cap B = (t \cap B) \cup {x} /\ x \notin t \cap B
          BY <4>3
        <5>2. Cardinality(s \cap B) = Cardinality(t \cap B) + 1
          <6>. HIDE DEF t
          <6>. QED  BY <4>2, <5>1, FS_AddElement
        <5>3. w[x] = v[x] + 1
          BY <4>3
        <5>. HIDE DEF t
        <5>. QED  BY <3>4, <4>1, <4>2, <5>2, <5>3
      <4>4. CASE x \notin B
        <5>1. s \cap B = t \cap B
          BY <4>4
        <5>2. Cardinality(s \cap B) = Cardinality(t \cap B)
          BY <5>1
        <5>3. w[x] = v[x]
          BY <4>4
        <5>. HIDE DEF t
        <5>. QED  BY <3>4, <4>1, <4>2, <5>2, <5>3
      <4>. QED  BY <4>3, <4>4
    <3>. QED  BY <3>6, <3>7
  <2>. HIDE DEF More, Adds
  <2>. QED  BY <1>1, <2>1
<1>5. \A k \in 0 .. n : k \in Good
  <2>. HIDE DEF Good, n
  <2>. QED  BY <1>1, <1>3, <1>4, CountingUp
<1>6. More(U) /\ Adds(U)
  <2>. HIDE DEF More, Adds
  <2>. QED  BY <1>1, <1>5
<1>. QED  BY <1>6

(* Its second part by itself.                                               *)
LEMMA SumOfOneMore ==
  ASSUME NEW T, NEW v \in [T -> Nat], NEW w \in [T -> Nat], NEW U \in SUBSET T, IsFiniteSet(U),
         NEW B, \A x \in U : w[x] = IF x \in B THEN v[x] + 1 ELSE v[x]
  PROVE  SumFunctionOnSet(w, U) = SumFunctionOnSet(v, U) + Cardinality(U \cap B)
<1>1. \A C : (\A x \in U : w[x] = IF x \in C THEN v[x] + 1 ELSE v[x]) =>
             SumFunctionOnSet(w, U) = SumFunctionOnSet(v, U) + Cardinality(U \cap C)
  BY SumOfMore
<1>. QED  BY <1>1

(* The same for a single member.                                            *)
LEMMA SumOfOneChange ==
  ASSUME NEW T, NEW v \in [T -> Nat], NEW w \in [T -> Nat], NEW U \in SUBSET T, IsFiniteSet(U)
  PROVE  \A r \in U : (\A x \in U : w[x] = IF x = r THEN v[x] + 1 ELSE v[x]) =>
           SumFunctionOnSet(w, U) = SumFunctionOnSet(v, U) + 1
<1>1. \A C : (\A x \in U : w[x] = IF x \in C THEN v[x] + 1 ELSE v[x]) =>
             SumFunctionOnSet(w, U) = SumFunctionOnSet(v, U) + Cardinality(U \cap C)
  BY SumOfMore
<1>2. TAKE r \in U
<1>3. HAVE \A x \in U : w[x] = IF x = r THEN v[x] + 1 ELSE v[x]
<1>4. \A x \in U : w[x] = IF x \in {r} THEN v[x] + 1 ELSE v[x]
  BY <1>3
<1>5. SumFunctionOnSet(w, U) = SumFunctionOnSet(v, U) + Cardinality(U \cap {r})
  BY <1>1, <1>4
<1>6. U \cap {r} = {r} /\ Cardinality({r}) = 1
  BY FS_Singleton
<1>. QED  BY <1>5, <1>6

(* Members that count nothing may be left out.                              *)
LEMMA SumOfSome ==
  ASSUME NEW T, NEW w \in [T -> Nat], NEW U \in SUBSET T, IsFiniteSet(U), NEW V \in SUBSET U,
         \A x \in U \ V : w[x] = 0
  PROVE  SumFunctionOnSet(w, U) = SumFunctionOnSet(w, V)
<1>. DEFINE n == Cardinality(U \ V)
            Same(s) == SumFunctionOnSet(w, V \cup s) = SumFunctionOnSet(w, V)
            Good == {k \in 0 .. n : \A s \in SUBSET (U \ V) : Cardinality(s) = k => Same(s)}
<1>1. n \in Nat /\ IsFiniteSet(U \ V)
  BY FS_Subset, FS_CardinalityType
<1>2. ASSUME NEW s \in SUBSET (U \ V)
      PROVE  /\ IsFiniteSet(s) /\ Cardinality(s) \in Nat /\ (Cardinality(s) = 0 <=> s = {})
             /\ V \cup s \in SUBSET T /\ IsFiniteSet(V \cup s)
  BY <1>1, FS_Subset, FS_CardinalityType, FS_EmptySet
<1>3. 0 \in Good
  <2>1. ASSUME NEW s \in SUBSET (U \ V), Cardinality(s) = 0  PROVE Same(s)
    <3>1. V \cup s = V
      BY <1>2, <2>1
    <3>. QED  BY <3>1
  <2>. HIDE DEF Same
  <2>. QED  BY <1>1, <2>1
<1>4. ASSUME NEW k \in 0 .. n - 1, k \in Good  PROVE k + 1 \in Good
  <2>1. ASSUME NEW s \in SUBSET (U \ V), Cardinality(s) = k + 1  PROVE Same(s)
    <3>1. s # {}
      <4>1. k + 1 # 0
        BY <1>1
      <4>. QED  BY <1>2, <2>1, <4>1
    <3>2. PICK x \in s : TRUE
      BY <3>1
    <3>3. s \ {x} \in SUBSET (U \ V) /\ Cardinality(s \ {x}) = k
      <4>1. Cardinality(s \ {x}) = Cardinality(s) - 1
        BY <1>2, FS_RemoveElement
      <4>. QED  BY <1>1, <2>1, <4>1
    <3>4. Same(s \ {x})
      <4>. HIDE DEF Same
      <4>. QED  BY <1>4, <3>3
    <3>5. (V \cup s) \ {x} = V \cup (s \ {x}) /\ x \in V \cup s /\ w[x] = 0
      OBVIOUS
    <3>6. SumFunctionOnSet(w, V \cup s) = w[x] + SumFunctionOnSet(w, (V \cup s) \ {x})
      <4>1. PICK A \in SUBSET T : A = V \cup s /\ IsFiniteSet(A) /\ x \in A
        BY <1>2, <3>5
      <4>2. SumFunctionOnSet(w, A) = w[x] + SumFunctionOnSet(w, A \ {x})
        BY <4>1, SumProperties
      <4>. QED  BY <4>1, <4>2
    <3>7. SumFunctionOnSet(w, V \cup (s \ {x})) \in Nat
      BY <1>2, <3>3, SumProperties
    <3>8. SumFunctionOnSet(w, V \cup s) = 0 + SumFunctionOnSet(w, V \cup (s \ {x}))
      BY <3>5, <3>6
    <3>9. SumFunctionOnSet(w, V \cup s) = SumFunctionOnSet(w, V \cup (s \ {x}))
      BY <3>7, <3>8
    <3>. QED  BY <3>4, <3>9
  <2>. HIDE DEF Same
  <2>. QED  BY <1>1, <2>1
<1>5. \A k \in 0 .. n : k \in Good
  <2>. HIDE DEF Good, n
  <2>. QED  BY <1>1, <1>3, <1>4, CountingUp
<1>6. Same(U \ V)
  <2>1. n \in 0 .. n /\ U \ V \in SUBSET (U \ V)
    BY <1>1
  <2>. HIDE DEF Same
  <2>. QED  BY <1>5, <2>1
<1>7. V \cup (U \ V) = U
  OBVIOUS
<1>. QED  BY <1>6, <1>7

(* A sum that matches each of its members with one of its own in another    *)
(* sum, that counts no less there, is no greater.                           *)
LEMMA SumOfMatched ==
  ASSUME NEW T, NEW v \in [T -> Nat], NEW U \in SUBSET T, IsFiniteSet(U),
         NEW D, NEW w \in [D -> Nat], NEW J \in SUBSET D, IsFiniteSet(J), NEW f,
         \A i \in J : f[i] \in U /\ w[i] <= v[f[i]],
         \A i, j \in J : f[i] = f[j] => i = j
  PROVE  SumFunctionOnSet(w, J) <= SumFunctionOnSet(v, U)
<1>. DEFINE n == Cardinality(J)
            Less(s) == \A V \in SUBSET U : (\A i \in s : f[i] \in V) =>
                         SumFunctionOnSet(w, s) <= SumFunctionOnSet(v, V)
            Good == {k \in 0 .. n : \A s \in SUBSET J : Cardinality(s) = k => Less(s)}
<1>1. n \in Nat
  BY FS_CardinalityType
<1>2. ASSUME NEW s \in SUBSET J
      PROVE  /\ IsFiniteSet(s) /\ Cardinality(s) \in Nat /\ (Cardinality(s) = 0 => s = {})
             /\ s \in SUBSET D
  BY FS_Subset, FS_CardinalityType, FS_EmptySet
<1>3. ASSUME NEW V \in SUBSET U  PROVE IsFiniteSet(V) /\ V \in SUBSET T
  BY FS_Subset
<1>4. 0 \in Good
  <2>1. ASSUME NEW V \in SUBSET U  PROVE SumFunctionOnSet(w, {}) <= SumFunctionOnSet(v, V)
    <3>1. SumFunctionOnSet(w, {}) = 0
      BY SumProperties
    <3>2. SumFunctionOnSet(v, V) \in Nat
      BY <1>3, SumProperties
    <3>. QED  BY <3>1, <3>2
  <2>2. Less({})
    BY <2>1
  <2>. HIDE DEF Less
  <2>. QED  BY <1>1, <1>2, <2>2
<1>5. ASSUME NEW k \in 0 .. n - 1, k \in Good  PROVE k + 1 \in Good
  <2>1. ASSUME NEW s \in SUBSET J, Cardinality(s) = k + 1  PROVE Less(s)
    <3>. SUFFICES ASSUME NEW V \in SUBSET U, \A i \in s : f[i] \in V
                  PROVE  SumFunctionOnSet(w, s) <= SumFunctionOnSet(v, V)
      OBVIOUS
    <3>1. s # {}
      BY <2>1, FS_EmptySet
    <3>2. PICK x \in s : TRUE
      BY <3>1
    <3>3. s \ {x} \in SUBSET J /\ V \ {f[x]} \in SUBSET U /\ f[x] \in V
      OBVIOUS
    <3>4. Cardinality(s \ {x}) = k
      <4>1. Cardinality(s \ {x}) = Cardinality(s) - 1
        BY <1>2, FS_RemoveElement
      <4>. QED  BY <1>1, <2>1, <4>1
    <3>5. Less(s \ {x})
      <4>. HIDE DEF Less
      <4>. QED  BY <1>5, <3>3, <3>4
    <3>6. \A i \in s \ {x} : f[i] \in V \ {f[x]}
      OBVIOUS
    <3>7. SumFunctionOnSet(w, s \ {x}) <= SumFunctionOnSet(v, V \ {f[x]})
      BY <3>3, <3>5, <3>6
    <3>8. /\ SumFunctionOnSet(w, s) = w[x] + SumFunctionOnSet(w, s \ {x})
          /\ SumFunctionOnSet(v, V) = v[f[x]] + SumFunctionOnSet(v, V \ {f[x]})
      BY <1>2, <1>3, <3>3, SumProperties
    <3>9. /\ SumFunctionOnSet(w, s \ {x}) \in Nat /\ SumFunctionOnSet(v, V \ {f[x]}) \in Nat
          /\ w[x] \in Nat /\ v[f[x]] \in Nat /\ w[x] <= v[f[x]]
      BY <1>2, <1>3, <3>3, SumProperties
    <3>. QED  BY <3>7, <3>8, <3>9
  <2>. HIDE DEF Less
  <2>. QED  BY <1>1, <2>1
<1>6. \A k \in 0 .. n : k \in Good
  <2>. HIDE DEF Good, n
  <2>. QED  BY <1>1, <1>4, <1>5, CountingUp
<1>7. Less(J)
  <2>1. n \in 0 .. n /\ J \in SUBSET J
    BY <1>1
  <2>. HIDE DEF Less
  <2>. QED  BY <1>6, <2>1
<1>8. U \in SUBSET U /\ \A i \in J : f[i] \in U
  OBVIOUS
<1>. QED  BY <1>7, <1>8

(* A sum asks its function only for the members that are summed.            *)
LEMMA SumsSame ==
  ASSUME NEW T, NEW v \in [T -> Nat], NEW D, NEW w \in [D -> Nat],
         NEW U \in SUBSET T, U \in SUBSET D, IsFiniteSet(U), \A x \in U : v[x] = w[x]
  PROVE  SumFunctionOnSet(v, U) = SumFunctionOnSet(w, U)
<1>. DEFINE f == [x \in U |-> x]
            sv == SumFunctionOnSet(v, U)
            sw == SumFunctionOnSet(w, U)
<1>1. sv \in Nat /\ sw \in Nat
  BY SumProperties
<1>2. \A x, y \in U : f[x] = f[y] => x = y
  OBVIOUS
<1>3. \A x \in U : f[x] \in U /\ w[x] <= v[f[x]] /\ v[x] <= w[f[x]]
  OBVIOUS
<1>. HIDE DEF f
<1>4. sw <= sv
  BY <1>2, <1>3, SumOfMatched
<1>5. sv <= sw
  BY <1>2, <1>3, SumOfMatched
<1>. HIDE DEF sv, sw
<1>6. sv = sw
  BY <1>1, <1>4, <1>5
<1>. QED  BY <1>6 DEF sv, sw

(* The sum of a list that grows.                                            *)
LEMMA SumOfAppend ==
  ASSUME NEW s \in Seq(Nat), NEW n \in Nat
  PROVE  /\ SumFunctionOnSet(s, DOMAIN s) \in Nat
         /\ SumFunctionOnSet(Append(s, n), DOMAIN Append(s, n))
              = SumFunctionOnSet(s, DOMAIN s) + n
<1>. DEFINE t == Append(s, n)
            U == 1 .. Len(s)
            V == 1 .. Len(s) + 1
<1>1. /\ Len(s) \in Nat /\ DOMAIN s = U /\ DOMAIN t = V /\ t \in Seq(Nat)
      /\ \A i \in U : t[i] = s[i]
      /\ t[Len(s) + 1] = n
  BY AppendProperties, LenProperties
<1>2. s \in [U -> Nat] /\ t \in [V -> Nat]
  BY <1>1, ElementOfSeq, LenProperties
<1>3. IsFiniteSet(U) /\ IsFiniteSet(V) /\ U \subseteq V /\ V \ {Len(s) + 1} = U /\ Len(s) + 1 \in V
  <2>1. U \subseteq V /\ V \ {Len(s) + 1} = U /\ Len(s) + 1 \in V
    BY <1>1
  <2>2. 1 \in Int /\ Len(s) \in Int /\ Len(s) + 1 \in Int
    BY <1>1
  <2>. QED  BY <2>1, <2>2, FS_Interval
<1>. HIDE DEF t, U, V
<1>4. SumFunctionOnSet(t, V) = n + SumFunctionOnSet(t, U)
  BY <1>1, <1>2, <1>3, SumProperties
<1>5. SumFunctionOnSet(s, U) = SumFunctionOnSet(t, U)
  <2>1. U \in SUBSET U /\ U \in SUBSET V /\ \A x \in U : s[x] = t[x]
    BY <1>1, <1>3
  <2>. QED  BY <1>2, <1>3, <2>1, SumsSame
<1>6. SumFunctionOnSet(s, U) \in Nat
  BY <1>2, <1>3, SumProperties
<1>7. SumFunctionOnSet(t, V) = SumFunctionOnSet(s, U) + n
  BY <1>4, <1>5, <1>6
<1>. QED  BY <1>1, <1>6, <1>7 DEF t

(* A sum of sums is the sum of the sums.                                    *)
LEMMA SumOfTwo ==
  ASSUME NEW T, NEW u \in [T -> Nat], NEW v \in [T -> Nat], NEW w \in [T -> Nat],
         IsFiniteSet(T), \A x \in T : w[x] = u[x] + v[x]
  PROVE  SumFunctionOnSet(w, T) = SumFunctionOnSet(u, T) + SumFunctionOnSet(v, T)
<1>. DEFINE Adds(s) == SumFunctionOnSet(w, s) = SumFunctionOnSet(u, s) + SumFunctionOnSet(v, s)
            n == Cardinality(T)
            Good == {k \in 0 .. n : \A s \in SUBSET T : Cardinality(s) = k => Adds(s)}
<1>1. n \in Nat /\ \A s \in SUBSET T : IsFiniteSet(s) /\ Cardinality(s) \in Nat
  BY FS_CardinalityType, FS_Subset
<1>2. 0 \in Good
  <2>1. ASSUME NEW s \in SUBSET T, Cardinality(s) = 0  PROVE Adds(s)
    <3>1. s = {}
      BY <1>1, <2>1, FS_EmptySet
    <3>2. SumFunctionOnSet(w, {}) = 0 /\ SumFunctionOnSet(u, {}) = 0 /\ SumFunctionOnSet(v, {}) = 0
      BY <1>1, SumProperties
    <3>. QED  BY <3>1, <3>2
  <2>. HIDE DEF Adds
  <2>. QED  BY <1>1, <2>1
<1>3. ASSUME NEW k \in 0 .. n - 1, k \in Good  PROVE k + 1 \in Good
  <2>1. ASSUME NEW s \in SUBSET T, Cardinality(s) = k + 1  PROVE Adds(s)
    <3>1. PICK x : x \in s
      <4>1. k + 1 # 0
        BY <1>1
      <4>. QED  BY <2>1, <4>1, FS_EmptySet
    <3>2. s \ {x} \in SUBSET T /\ Cardinality(s \ {x}) = k
      <4>1. Cardinality(s \ {x}) = Cardinality(s) - 1
        BY <1>1, <3>1, FS_RemoveElement
      <4>. QED  BY <1>1, <2>1, <4>1
    <3>3. Adds(s \ {x})
      BY <1>3, <3>2
    <3>4. /\ SumFunctionOnSet(w, s) = w[x] + SumFunctionOnSet(w, s \ {x})
          /\ SumFunctionOnSet(u, s) = u[x] + SumFunctionOnSet(u, s \ {x})
          /\ SumFunctionOnSet(v, s) = v[x] + SumFunctionOnSet(v, s \ {x})
      BY <1>1, <3>1, SumProperties
    <3>5. /\ SumFunctionOnSet(u, s \ {x}) \in Nat /\ SumFunctionOnSet(v, s \ {x}) \in Nat
      BY <1>1, <3>2, SumProperties
    <3>6. u[x] \in Nat /\ v[x] \in Nat /\ w[x] = u[x] + v[x]
      BY <3>1
    <3>. QED  BY <3>3, <3>4, <3>5, <3>6
  <2>2. k + 1 \in 0 .. n
    BY <1>1
  <2>. HIDE DEF Adds
  <2>. QED  BY <2>1, <2>2
<1>. HIDE DEF Good
<1>4. n \in Good
  <2>1. \A k \in 0 .. n : k \in Good
    <3>. HIDE DEF n
    <3>. QED  BY <1>1, <1>2, <1>3, CountingUp
  <2>. QED  BY <1>1, <2>1
<1>. QED  BY <1>4 DEF Good

(* A sum of zeros.                                                          *)
LEMMA SumOfZeros ==
  ASSUME NEW T, NEW w \in [T -> Nat], IsFiniteSet(T), \A x \in T : w[x] = 0
  PROVE  SumFunctionOnSet(w, T) = 0
<1>1. PICK U \in SUBSET T : U = T
  OBVIOUS
<1>2. PICK none \in SUBSET U : none = {}
  OBVIOUS
<1>3. IsFiniteSet(U) /\ \A x \in U \ none : w[x] = 0
  BY <1>1
<1>4. SumFunctionOnSet(w, U) = SumFunctionOnSet(w, none)
  BY <1>3, SumOfSome
<1>5. SumFunctionOnSet(w, {}) = 0
  BY <1>3, SumProperties
<1>. QED  BY <1>1, <1>2, <1>4, <1>5

(* What one member gives up the sum gives up.                               *)
LEMMA SumOfOneLess ==
  ASSUME NEW T, NEW w \in [T -> Nat], NEW v \in [T -> Nat], IsFiniteSet(T),
         NEW x \in T, NEW n \in Nat, w[x] = v[x] + n, \A y \in T \ {x} : w[y] = v[y]
  PROVE  SumFunctionOnSet(w, T) = SumFunctionOnSet(v, T) + n
<1>1. PICK U \in SUBSET T : U = T
  OBVIOUS
<1>2. IsFiniteSet(U) /\ x \in U
  BY <1>1
<1>3. /\ SumFunctionOnSet(w, U) = w[x] + SumFunctionOnSet(w, U \ {x})
      /\ SumFunctionOnSet(v, U) = v[x] + SumFunctionOnSet(v, U \ {x})
  BY <1>2, SumProperties
<1>4. PICK R \in SUBSET U : R = U \ {x}
  OBVIOUS
<1>5. IsFiniteSet(R) /\ R \in SUBSET T /\ \A y \in R : w[y] = v[y]
  BY <1>2, <1>4, FS_Subset
<1>6. SumFunctionOnSet(w, R) = SumFunctionOnSet(v, R) /\ SumFunctionOnSet(v, R) \in Nat
  BY <1>5, SumsSame, SumProperties
<1>7. v[x] \in Nat /\ w[x] \in Nat
  OBVIOUS
<1>. QED  BY <1>1, <1>3, <1>4, <1>6, <1>7

(* Quotient and remainder determine a number and are determined by it.      *)
LEMMA QuotientAndRemainder ==
  ASSUME NEW a \in Nat, NEW d \in Nat \ {0}
  PROVE  /\ a \div d \in Nat /\ a % d \in 0 .. d - 1
         /\ a = d * (a \div d) + (a % d)
         /\ \A q \in Nat, t \in 0 .. d - 1 : a = d * q + t => a \div d = q /\ a % d = t
<1>1. /\ a \div d \in Nat /\ a % d \in 0 .. d - 1
      /\ a = d * (a \div d) + (a % d)
  OBVIOUS
<1>2. ASSUME NEW q \in Nat, NEW t \in 0 .. d - 1, a = d * q + t
      PROVE  a \div d = q /\ a % d = t
  <2>. DEFINE p == a \div d
              s == a % d
  <2>1. p \in Nat /\ s \in 0 .. d - 1 /\ d * p + s = d * q + t
    BY <1>1, <1>2
  <2>. HIDE DEF p, s
  <2>2. ASSUME NEW x \in Nat, NEW y \in Nat, NEW u \in 0 .. d - 1, NEW v \in 0 .. d - 1,
               d * x + u = d * y + v, x < y
        PROVE  FALSE
    <3>1. d * (x + 1) <= d * y
      BY <2>2
    <3>2. d * (x + 1) = d * x + d
      OBVIOUS
    <3>3. d * x \in Nat /\ d * y \in Nat
      OBVIOUS
    <3>. QED  BY <2>2, <3>1, <3>2, <3>3
  <2>3. ~ (p < q) /\ ~ (q < p)
    BY <2>1, <2>2
  <2>4. p = q
    BY <2>1, <2>3
  <2>5. d * q \in Nat
    OBVIOUS
  <2>6. s = t
    BY <2>1, <2>4, <2>5
  <2>. QED  BY <2>4, <2>6 DEF p, s
<1>. QED  BY <1>1, <1>2

(* A function that is changed at one place after the other.                 *)
AllWritten(c, w, n) ==
  LET after[i \in 0 .. n] ==
        IF i = 0 THEN c ELSE [after[i - 1] EXCEPT ![w[i].cell] = w[i].kv]
  IN  after[n]

(* In the end each cell holds what one of the writes to it wrote, or has   *)
(* not been written.                                                        *)
LEMMA WritesLand ==
  ASSUME NEW C, NEW c, c = [x \in C |-> c[x]], NEW w, NEW n \in Nat,
         \A i \in 1 .. n : w[i].cell \in C
  PROVE  LET a == AllWritten(c, w, n)
         IN  /\ a = [x \in C |-> a[x]]
             /\ \A x \in C : \/ \E i \in 1 .. n : w[i].cell = x /\ a[x] = w[i].kv
                             \/ (\A i \in 1 .. n : w[i].cell # x) /\ a[x] = c[x]
<1>. DEFINE V == {c[x] : x \in C} \cup {w[i].kv : i \in 1 .. n}
            X == [C -> V]
            step == [i \in 1 .. n |-> [d \in X |-> [d EXCEPT ![w[i].cell] = w[i].kv]]]
            Writes(f) == f = [i \in 0 .. n |->
                           IF i = 0 THEN c
                           ELSE [f[i - 1] EXCEPT ![w[i].cell] = w[i].kv]]
            after == CHOOSE f : Writes(f)
<1>1. \E f \in [0 .. n -> X] : Writes(f)
  <2>1. c \in X
    OBVIOUS
  <2>2. step \in [1 .. n -> [X -> X]]
    <3>. SUFFICES ASSUME NEW i \in 1 .. n, NEW d \in X
                  PROVE  [d EXCEPT ![w[i].cell] = w[i].kv] \in X
      OBVIOUS
    <3>1. w[i].kv \in V
      OBVIOUS
    <3>. HIDE DEF V
    <3>. QED  BY <3>1
  <2>3. \A i \in 1 .. n, d \in X : step[i][d] = [d EXCEPT ![w[i].cell] = w[i].kv]
    OBVIOUS
  <2>. HIDE DEF X, step
  <2>4. PICK f \in [0 .. n -> X] : f[0] = c /\ \A i \in 1 .. n : f[i] = step[i][f[i - 1]]
    <3>1. Computable(n, X, c, step)
      BY <2>1, <2>2, Recursion
    <3>. QED  BY <3>1 DEF Computable
  <2>5. ASSUME NEW i \in 0 .. n
        PROVE  f[i] = IF i = 0 THEN c ELSE [f[i - 1] EXCEPT ![w[i].cell] = w[i].kv]
    <3>1. CASE i = 0
      BY <2>4, <3>1
    <3>2. CASE i # 0
      <4>1. i \in 1 .. n /\ f[i - 1] \in X
        BY <3>2
      <4>. QED  BY <2>3, <2>4, <3>2, <4>1
    <3>. QED  BY <3>1, <3>2
  <2>6. Writes(f)
    BY <2>5
  <2>. HIDE DEF Writes
  <2>. QED  BY <2>6
<1>2. Writes(after)
  <2>. HIDE DEF Writes, X
  <2>. QED  BY <1>1
<1>3. AllWritten(c, w, n) = after[n]
  BY DEF AllWritten
<1>. HIDE DEF after, V, X, step
<1>4. /\ after[0] = c
      /\ \A i \in 1 .. n : after[i] = [after[i - 1] EXCEPT ![w[i].cell] = w[i].kv]
  <2>1. \A i \in 1 .. n : i \in 0 .. n /\ i # 0
    OBVIOUS
  <2>2. 0 \in 0 .. n
    OBVIOUS
  <2>. QED  BY <1>2, <2>1, <2>2
<1>. HIDE DEF Writes
<1>. DEFINE Right(k) ==
              LET a == after[k]
              IN  /\ a = [x \in C |-> a[x]]
                  /\ \A x \in C : \/ \E i \in 1 .. k : w[i].cell = x /\ a[x] = w[i].kv
                                  \/ (\A i \in 1 .. k : w[i].cell # x) /\ a[x] = c[x]
            S == {k \in 0 .. n : Right(k)}
<1>5. 0 \in S
  BY <1>4
<1>6. ASSUME NEW j \in 0 .. n - 1, j \in S  PROVE j + 1 \in S
  <2>. DEFINE k == j + 1
              a == after[j]
              b == after[k]
  <2>1. k \in 1 .. n /\ k - 1 = j /\ k \in 0 .. n
    OBVIOUS
  <2>2. b = [a EXCEPT ![w[k].cell] = w[k].kv]
    BY <1>4, <2>1
  <2>3. /\ a = [x \in C |-> a[x]]
        /\ \A x \in C : \/ \E i \in 1 .. j : w[i].cell = x /\ a[x] = w[i].kv
                        \/ (\A i \in 1 .. j : w[i].cell # x) /\ a[x] = c[x]
    BY <1>6
  <2>4. \A i \in 1 .. k : i = k \/ i \in 1 .. j
    OBVIOUS
  <2>5. \A i \in 1 .. j : i \in 1 .. k
    OBVIOUS
  <2>6. k \in 1 .. k
    BY <2>1
  <2>. HIDE DEF k, a, b
  <2>7. b = [x \in C |-> b[x]] /\ \A x \in C : b[x] = IF x = w[k].cell THEN w[k].kv ELSE a[x]
    BY <2>2, <2>3
  <2>8. ASSUME NEW x \in C
        PROVE  \/ \E i \in 1 .. k : w[i].cell = x /\ b[x] = w[i].kv
               \/ (\A i \in 1 .. k : w[i].cell # x) /\ b[x] = c[x]
    <3>1. CASE x = w[k].cell
      BY <2>6, <2>7, <3>1
    <3>2. CASE x # w[k].cell
      BY <2>3, <2>4, <2>5, <2>7, <3>2
    <3>. QED  BY <3>1, <3>2
  <2>9. Right(k)
    BY <2>7, <2>8 DEF b
  <2>. QED  BY <2>1, <2>9 DEF k
<1>. HIDE DEF S
<1>7. \A k \in 0 .. n : k \in S
  BY <1>5, <1>6, CountingUp
<1>8. Right(n)
  BY <1>7 DEF S
<1>. QED  BY <1>3, <1>8

(* A bounded set of natural numbers has a greatest one.                      *)
LEMMA MaxExists ==
  ASSUME NEW S \in SUBSET Nat, S # {}, NEW b \in Nat, \A x \in S : x <= b
  PROVE  Max(S) \in S /\ \A y \in S : y <= Max(S)
<1>. DEFINE D == {b - x : x \in S}
            d == Min(D)
<1>1. D \in SUBSET Nat /\ D # {}
  <2>1. \A x \in S : x \in Nat /\ x <= b
    OBVIOUS
  <2>2. \A x \in S : b - x \in Nat
    BY <2>1
  <2>. QED  BY <2>2
<1>2. d \in D /\ \A y \in D : d <= y
  BY <1>1, MinExists
<1>. HIDE DEF d
<1>3. PICK x \in S : d = b - x
  BY <1>2
<1>4. ASSUME NEW y \in S  PROVE x >= y
  <2>1. d <= b - y
    BY <1>2
  <2>2. x \in Nat /\ y \in Nat
    OBVIOUS
  <2>. QED  BY <1>3, <2>1, <2>2
<1>5. Max(S) \in S /\ \A y \in S : Max(S) >= y
  BY <1>4 DEF Max
<1>. QED  BY <1>5

(* Of finitely many natural numbers one is the greatest.                    *)
LEMMA LongestTable ==
  ASSUME NEW n \in Nat \ {0}, NEW size, \A i \in 1 .. n : size[i] \in Nat
  PROVE  LET S == {size[i] : i \in 1 .. n}
         IN  Max(S) \in Nat /\ \A i \in 1 .. n : size[i] <= Max(S)
<1>. DEFINE S == {size[i] : i \in 1 .. n}
            Bounded == {k \in 0 .. n : \E b \in Nat : \A i \in 1 .. k : size[i] <= b}
<1>1. 0 \in Bounded
  OBVIOUS
<1>2. ASSUME NEW k \in 0 .. n - 1, k \in Bounded  PROVE k + 1 \in Bounded
  <2>1. PICK b \in Nat : \A i \in 1 .. k : size[i] <= b
    BY <1>2
  <2>2. k + 1 \in 1 .. n /\ size[k + 1] \in Nat
    OBVIOUS
  <2>. DEFINE c == b + size[k + 1]
  <2>3. c \in Nat /\ b <= c /\ size[k + 1] <= c
    BY <2>2
  <2>. HIDE DEF c
  <2>4. \A i \in 1 .. k + 1 : size[i] <= c
    <3>1. \A i \in 1 .. k + 1 : (i = k + 1 \/ i \in 1 .. k) /\ size[i] \in Nat
      OBVIOUS
    <3>. QED  BY <2>1, <2>3, <3>1
  <2>. QED  BY <2>2, <2>3, <2>4
<1>. HIDE DEF Bounded
<1>3. n \in Bounded
  <2>1. \A k \in 0 .. n : k \in Bounded
    BY <1>1, <1>2, CountingUp
  <2>. QED  BY <2>1
<1>4. PICK b \in Nat : \A i \in 1 .. n : size[i] <= b
  BY <1>3 DEF Bounded
<1>5. S \in SUBSET Nat /\ S # {} /\ \A x \in S : x <= b
  BY <1>4
<1>6. Max(S) \in S /\ \A y \in S : y <= Max(S)
  <2>. HIDE DEF S
  <2>. QED  BY <1>5, MaxExists
<1>. QED  BY <1>5, <1>6

(* When everybody counts one more, the sum grows by how many they are.       *)
LEMMA SumOfAllOneMore ==
  ASSUME NEW T, NEW u \in [T -> Nat], NEW v \in [T -> Nat], IsFiniteSet(T),
         \A x \in T : v[x] = u[x] + 1
  PROVE  SumFunctionOnSet(v, T) = SumFunctionOnSet(u, T) + Cardinality(T)
<1>1. PICK U \in SUBSET T : U = T
  OBVIOUS
<1>2. PICK B : B = T
  OBVIOUS
<1>3. IsFiniteSet(U) /\ \A x \in U : v[x] = IF x \in B THEN u[x] + 1 ELSE u[x]
  BY <1>1, <1>2
<1>4. SumFunctionOnSet(v, U) = SumFunctionOnSet(u, U) + Cardinality(U \cap B)
  BY <1>3, SumOfOneMore
<1>5. U \cap B = T
  BY <1>1, <1>2
<1>. QED  BY <1>1, <1>4, <1>5

(* The sum of equal values.                                                 *)
LEMMA SumOfSame ==
  ASSUME NEW T, NEW w \in [T -> Nat], IsFiniteSet(T), NEW b \in Nat, \A x \in T : w[x] = b
  PROVE  SumFunctionOnSet(w, T) = Cardinality(T) * b
<1>. DEFINE n == Cardinality(T)
            All(k) == [x \in T |-> k]
            Good == {k \in 0 .. b : SumFunctionOnSet(All(k), T) = n * k}
<1>1. n \in Nat
  BY FS_CardinalityType
<1>2. \A k \in Nat : All(k) \in [T -> Nat] /\ \A x \in T : All(k)[x] = k
  OBVIOUS
<1>3. w = All(b)
  OBVIOUS
<1>. HIDE DEF n, All
<1>4. 0 \in Good
  <2>1. SumFunctionOnSet(All(0), T) = 0
    BY <1>2, SumOfZeros
  <2>. QED  BY <1>1, <2>1
<1>5. ASSUME NEW k \in 0 .. b - 1, k \in Good  PROVE k + 1 \in Good
  <2>1. k \in Nat /\ k + 1 \in Nat /\ k + 1 \in 0 .. b
    OBVIOUS
  <2>2. SumFunctionOnSet(All(k + 1), T) = SumFunctionOnSet(All(k), T) + Cardinality(T)
    <3>1. /\ All(k) \in [T -> Nat] /\ All(k + 1) \in [T -> Nat]
          /\ \A x \in T : All(k + 1)[x] = All(k)[x] + 1
      BY <1>2, <2>1
    <3>. QED  BY <3>1, SumOfAllOneMore
  <2>3. SumFunctionOnSet(All(k), T) = n * k
    BY <1>5
  <2>4. n * (k + 1) = n * k + n
    BY <1>1, <2>1
  <2>. QED  BY <2>1, <2>2, <2>3, <2>4 DEF n
<1>. HIDE DEF Good
<1>6. b \in Good
  <2>1. \A k \in 0 .. b : k \in Good
    BY <1>4, <1>5, CountingUp
  <2>. QED  BY <2>1
<1>. QED  BY <1>3, <1>6 DEF Good, n

(* No sum is larger than as many times the largest of its values.            *)
LEMMA SumOfBounded ==
  ASSUME NEW T, NEW w \in [T -> Nat], IsFiniteSet(T), NEW b \in Nat, \A x \in T : w[x] <= b
  PROVE  SumFunctionOnSet(w, T) <= Cardinality(T) * b
<1>. DEFINE v == [x \in T |-> b]
<1>1. v \in [T -> Nat] /\ \A x \in T : v[x] = b
  OBVIOUS
<1>. HIDE DEF v
<1>2. SumFunctionOnSet(v, T) = Cardinality(T) * b
  BY <1>1, SumOfSame
<1>3. PICK U \in SUBSET T : U = T
  OBVIOUS
<1>4. SumFunctionOnSet(w, U) <= SumFunctionOnSet(v, U)
  <2>1. IsFiniteSet(U) /\ \A x \in U : w[x] <= v[x]
    BY <1>1, <1>3
  <2>. QED  BY <1>1, <2>1, SumOfMore
<1>. QED  BY <1>2, <1>3, <1>4

(* When each value times their number is at most t, so is the sum.           *)
LEMMA SumOfShares ==
  ASSUME NEW T, NEW w \in [T -> Nat], IsFiniteSet(T), T # {},
         NEW t \in Nat, \A x \in T : Cardinality(T) * w[x] <= t
  PROVE  SumFunctionOnSet(w, T) <= t
<1>. DEFINE n == Cardinality(T)
            b == t \div n
<1>1. n \in Nat \ {0}
  BY FS_CardinalityType, FS_EmptySet
<1>2. b \in Nat /\ (t % n) \in 0 .. n - 1 /\ t = n * b + (t % n)
  <2>. HIDE DEF n
  <2>. QED  BY <1>1, QuotientAndRemainder
<1>. HIDE DEF n, b
<1>3. ASSUME NEW x \in T  PROVE w[x] <= b
  <2>1. w[x] \in Nat /\ n * w[x] <= t
    BY DEF n
  <2>2. ASSUME w[x] >= b + 1  PROVE FALSE
    <3>1. n * (b + 1) <= n * w[x]
      BY <1>1, <1>2, <2>1, <2>2
    <3>2. n * (b + 1) = n * b + n
      BY <1>1, <1>2
    <3>3. n * b \in Nat /\ n * w[x] \in Nat
      BY <1>1, <1>2, <2>1
    <3>. QED  BY <1>1, <1>2, <2>1, <3>1, <3>2, <3>3
  <2>. QED  BY <1>2, <2>1, <2>2
<1>4. SumFunctionOnSet(w, T) <= n * b
  BY <1>2, <1>3, SumOfBounded DEF n
<1>5. SumFunctionOnSet(w, T) \in Nat
  <2>1. PICK U \in SUBSET T : U = T
    OBVIOUS
  <2>. QED  BY <2>1, SumProperties
<1>6. n * b \in Nat
  BY <1>1, <1>2
<1>. QED  BY <1>2, <1>4, <1>5, <1>6

=============================================================================
