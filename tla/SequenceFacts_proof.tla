------------------------- MODULE SequenceFacts_proof -------------------------
(***************************************************************************)
(* What the operators on sequences yield that the models are built from:   *)
(* sorting a finite set by a strict total order, and flattening.           *)
(***************************************************************************)
EXTENDS Ordering, SequencesExt, SequenceTheorems, Induction_proof

StrictOrder(S, R) ==
    /\ \A x \in S : <<x, x>> \notin R
    /\ \A x, y, z \in S : <<x, y>> \in R /\ <<y, z>> \in R => <<x, z>> \in R
    /\ \A x, y \in S : x = y \/ <<x, y>> \in R \/ <<y, x>> \in R

\* Later elements of a strictly ordered set have a higher rank.
LEMMA RankGrows ==
    ASSUME NEW S, IsFiniteSet(S), NEW R, StrictOrder(S, R), NEW x \in S, NEW y \in S
    PROVE  /\ RankIn(S, R, x) \in 0 .. Cardinality(S) - 1
           /\ <<x, y>> \in R => RankIn(S, R, x) < RankIn(S, R, y)
<1> DEFINE Below(z) == {w \in S : <<w, z>> \in R}
<1>1. Cardinality(S) \in Nat
  BY FS_CardinalityType
<1>2. \A z \in S : IsFiniteSet(Below(z)) /\ Cardinality(Below(z)) \in Nat
  <2>1. \A z \in S : Below(z) \in SUBSET S
    OBVIOUS
  <2> HIDE DEF Below
  <2> QED BY <2>1, FS_Subset, FS_CardinalityType
<1>3. x \notin Below(x) /\ (<<x, y>> \in R => Below(x) \cup {x} \subseteq Below(y))
  BY DEF StrictOrder
<1>4. Below(x) \cup {x} \subseteq S
  OBVIOUS
<1> HIDE DEF Below
<1>5. Cardinality(Below(x) \cup {x}) = Cardinality(Below(x)) + 1
  BY <1>2, <1>3, FS_AddElement
<1>6. Cardinality(Below(x) \cup {x}) <= Cardinality(S)
  BY <1>4, FS_Subset
<1>7. <<x, y>> \in R => Cardinality(Below(x) \cup {x}) <= Cardinality(Below(y))
  BY <1>2, <1>3, FS_Subset
<1>8. RankIn(S, R, x) = Cardinality(Below(x)) /\ RankIn(S, R, y) = Cardinality(Below(y))
  BY DEF RankIn, Below
<1> QED BY <1>1, <1>2, <1>5, <1>6, <1>7, <1>8

\* Ranked lists a finite set with a strict order, each element once, in order.
LEMMA RankedEnumerates ==
    ASSUME NEW S, IsFiniteSet(S), NEW R, StrictOrder(S, R)
    PROVE  /\ Ranked(S, R) \in Seq(S)
           /\ Range(Ranked(S, R)) = S
           /\ \A i, j \in DOMAIN Ranked(S, R) :
                 i < j => <<Ranked(S, R)[i], Ranked(S, R)[j]>> \in R
<1> DEFINE n == Cardinality(S)
           rank == [x \in S |-> RankIn(S, R, x)]
           s == Ranked(S, R)
<1>1. n \in Nat
  BY FS_CardinalityType
<1>2. rank \in Injection(S, 0 .. n - 1)
  <2>1. rank \in [S -> 0 .. n - 1]
    BY RankGrows
  <2>2. \A x, y \in S : rank[x] = rank[y] => x = y
    <3> SUFFICES ASSUME NEW x \in S, NEW y \in S, rank[x] = rank[y] PROVE x = y
      OBVIOUS
    <3>1. RankIn(S, R, x) \in Int /\ RankIn(S, R, x) = RankIn(S, R, y)
      BY <2>1
    <3>2. ~ (<<x, y>> \in R) /\ ~ (<<y, x>> \in R)
      BY <3>1, RankGrows
    <3> QED BY <3>2 DEF StrictOrder
  <2> HIDE DEF rank, n
  <2> QED BY <2>1, <2>2 DEF Injection, IsInjective
<1>3. rank \in Surjection(S, 0 .. n - 1)
  <2>1. IsFiniteSet(0 .. n - 1) /\ Cardinality(0 .. n - 1) = n
    BY SMTT(60), <1>1, FS_Interval
  <2> HIDE DEF rank
  <2> QED BY <1>2, <2>1, FS_Injection
<1>4. \A k \in 1 .. n : s[k] \in S /\ RankIn(S, R, s[k]) = k - 1
  <2> SUFFICES ASSUME NEW k \in 1 .. n PROVE s[k] \in S /\ RankIn(S, R, s[k]) = k - 1
    OBVIOUS
  <2>1. k - 1 \in 0 .. n - 1
    BY <1>1
  <2>2. \E x \in S : rank[x] = k - 1
    <3> HIDE DEF rank, n
    <3> QED BY <1>3, <2>1 DEF Surjection
  <2>3. \E x \in S : RankIn(S, R, x) = k - 1
    BY <2>2
  <2>4. s[k] = CHOOSE x \in S : RankIn(S, R, x) = k - 1
    BY DEF Ranked
  <2> HIDE DEF s
  <2> QED BY <2>3, <2>4
<1>5. DOMAIN s = 1 .. n /\ s \in [1 .. n -> S]
  <2>1. DOMAIN s = 1 .. n /\ s = [k \in 1 .. n |-> s[k]]
    BY DEF Ranked
  <2> HIDE DEF s
  <2> QED BY <2>1, <1>4
<1>6. s \in Seq(S)
  <2> HIDE DEF s
  <2> QED BY <1>1, <1>5
<1>7. Range(s) = S
  <2>1. \A x \in S : \E k \in 1 .. n : s[k] = x
    <3> SUFFICES ASSUME NEW x \in S PROVE \E k \in 1 .. n : s[k] = x
      OBVIOUS
    <3>1. rank[x] \in 0 .. n - 1
      BY RankGrows
    <3>2. rank[x] + 1 \in 1 .. n
      BY <1>1, <3>1
    <3>3. RankIn(S, R, s[rank[x] + 1]) = rank[x] /\ s[rank[x] + 1] \in S
      BY <1>4, <3>1, <3>2
    <3>4. rank[s[rank[x] + 1]] = rank[x]
      BY <3>3
    <3> HIDE DEF rank, s
    <3>5. s[rank[x] + 1] = x
      BY <1>2, <3>3, <3>4 DEF Injection, IsInjective
    <3> QED BY <3>2, <3>5
  <2> HIDE DEF s
  <2> QED BY <2>1, <1>5 DEF Range
<1>8. ASSUME NEW i \in DOMAIN s, NEW j \in DOMAIN s, i < j PROVE <<s[i], s[j]>> \in R
  <2> HIDE DEF s, n, rank
  <2>1. i \in 1 .. n /\ j \in 1 .. n
    BY <1>5
  <2>2. /\ s[i] \in S /\ s[j] \in S
        /\ RankIn(S, R, s[i]) = i - 1 /\ RankIn(S, R, s[j]) = j - 1
        /\ i \in Int /\ j \in Int /\ i - 1 < j - 1
    BY <1>1, <1>4, <1>8, <2>1
  <2>3. s[i] # s[j] /\ ~ (<<s[j], s[i]>> \in R)
    BY <2>2, RankGrows
  <2> QED BY <2>2, <2>3 DEF StrictOrder
<1> QED BY <1>6, <1>7, <1>8

\* Ascending lists a finite set of naturals from the smallest to the largest.
LEMMA AscendingEnumerates ==
    ASSUME NEW S, S \subseteq Nat, IsFiniteSet(S)
    PROVE  /\ Ascending(S) \in Seq(S) /\ Range(Ascending(S)) = S
           /\ \A i, j \in DOMAIN Ascending(S) : i < j => Ascending(S)[i] < Ascending(S)[j]
<1> DEFINE R == {e \in S \X S : e[1] < e[2]}
<1>1. \A x, y \in S : <<x, y>> \in R <=> x < y
  OBVIOUS
<1>2. StrictOrder(S, R)
  <2> HIDE DEF R
  <2> QED BY <1>1 DEF StrictOrder
<1>3. Ascending(S) = Ranked(S, R)
  BY DEF Ascending
<1> HIDE DEF R
<1>4. /\ Ascending(S) \in Seq(S) /\ Range(Ascending(S)) = S
      /\ \A i, j \in DOMAIN Ascending(S) :
            i < j => <<Ascending(S)[i], Ascending(S)[j]>> \in R
  BY <1>2, <1>3, RankedEnumerates
<1>5. \A i \in DOMAIN Ascending(S) : Ascending(S)[i] \in S
  BY <1>4
<1> QED BY <1>1, <1>4, <1>5

-----------------------------------------------------------------------------
LEMMA AppendRange ==
    ASSUME NEW S, NEW s \in Seq(S), NEW e \in S
    PROVE  /\ Append(s, e) \in Seq(S) /\ Range(Append(s, e)) = Range(s) \cup {e}
           /\ Len(Append(s, e)) = Len(s) + 1 /\ Len(s) \in Nat
<1>1. /\ Append(s, e) \in Seq(S) /\ Len(s) \in Nat /\ Len(Append(s, e)) = Len(s) + 1
      /\ DOMAIN s = 1 .. Len(s) /\ DOMAIN Append(s, e) = 1 .. Len(s) + 1
      /\ \A i \in 1 .. Len(s) : Append(s, e)[i] = s[i]
      /\ Append(s, e)[Len(s) + 1] = e
  BY AppendProperties
<1> QED BY <1>1 DEF Range

LEMMA HeadTailRange ==
    ASSUME NEW S, NEW s \in Seq(S), s # <<>>
    PROVE  /\ Head(s) \in Range(s) /\ Tail(s) \in Seq(S)
           /\ Range(s) = {Head(s)} \cup Range(Tail(s))
<1>1. /\ Tail(s) \in Seq(S) /\ Len(s) \in Nat \ {0} /\ Len(Tail(s)) = Len(s) - 1
      /\ \A i \in 1 .. Len(s) - 1 : Tail(s)[i] = s[i + 1]
      /\ DOMAIN s = 1 .. Len(s) /\ DOMAIN Tail(s) = 1 .. Len(s) - 1
      /\ Head(s) = s[1]
  BY HeadTailProperties
<1>2. Range(Tail(s)) = {s[i] : i \in 2 .. Len(s)}
  <2>1. Range(Tail(s)) = {s[i + 1] : i \in 1 .. Len(s) - 1}
    BY <1>1 DEF Range
  <2>2. \A i \in 2 .. Len(s) : i - 1 \in 1 .. Len(s) - 1 /\ (i - 1) + 1 = i
    BY <1>1
  <2>3. \A i \in 1 .. Len(s) - 1 : i + 1 \in 2 .. Len(s)
    BY <1>1
  <2> QED BY <2>1, <2>2, <2>3
<1>3. Range(s) = {s[1]} \cup {s[i] : i \in 2 .. Len(s)}
  <2>1. \A i : i \in 1 .. Len(s) <=> i = 1 \/ i \in 2 .. Len(s)
    BY <1>1
  <2> QED BY <1>1, <2>1 DEF Range
<1> QED BY <1>1, <1>2, <1>3

-----------------------------------------------------------------------------
\* Flattening is a chain of concatenations.
LEMMA FlattenUnfolds ==
    ASSUME NEW S, NEW ss \in Seq(S), Len(ss) # 0
    PROVE  \E f : /\ FlattenSeq(ss) = f[Len(ss)]
                  /\ f[1] = ss[1]
                  /\ \A i \in 1 .. Len(ss) - 1 : f[i + 1] = f[i] \o ss[i + 1]
<1> DEFINE n == Len(ss)
           Is(f, m) == f = [i \in 1 .. m |-> IF i = 1 THEN ss[i] ELSE f[i - 1] \o ss[i]]
           flatten == CHOOSE f : Is(f, n)
<1>0. n \in Nat \ {0} /\ 1 \in 1 .. n /\ n \in 1 .. n
  OBVIOUS
<1>1. FlattenSeq(ss) = flatten[n]
  BY <1>0 DEF FlattenSeq
<1>2. \E f : Is(f, n)
  <2> DEFINE Built == {m \in 1 .. n : \E f : Is(f, m)}
  <2>1. 1 \in Built
    <3>1. Is([i \in 1 .. 1 |-> ss[i]], 1)
      OBVIOUS
    <3> HIDE DEF Is
    <3> QED BY <1>0, <3>1
  <2>2. ASSUME NEW m \in 1 .. n - 1, m \in Built PROVE m + 1 \in Built
    <3>1. PICK f : Is(f, m)
      BY <2>2
    <3> DEFINE g == [i \in 1 .. m + 1 |-> IF i = 1 THEN ss[i] ELSE f[i - 1] \o ss[i]]
    <3>2. \A i \in 1 .. m : f[i] = IF i = 1 THEN ss[i] ELSE f[i - 1] \o ss[i]
      BY <3>1
    <3>3. \A i \in 1 .. m : g[i] = f[i]
      BY <3>2
    <3>4. \A i \in 1 .. m + 1 : i = 1 \/ i - 1 \in 1 .. m
      OBVIOUS
    <3>5. Is(g, m + 1)
      BY <3>3, <3>4
    <3>6. m + 1 \in 1 .. n
      BY <1>0
    <3> HIDE DEF Is, g
    <3> QED BY <3>5, <3>6
  <2>3. \A m \in 1 .. n : m \in Built
    <3> HIDE DEF Built
    <3> QED BY <1>0, <2>1, <2>2, Inductive
  <2> HIDE DEF Is
  <2> QED BY <1>0, <2>3
<1>3. Is(flatten, n)
  BY <1>2
<1> HIDE DEF flatten
<1>4. \A i \in 1 .. n : flatten[i] = IF i = 1 THEN ss[i] ELSE flatten[i - 1] \o ss[i]
  BY <1>3
<1>5. \A i \in 1 .. n - 1 : i + 1 \in 1 .. n /\ i + 1 # 1 /\ (i + 1) - 1 = i
  BY <1>0
<1>6. \A i \in 1 .. n - 1 : flatten[i + 1] = flatten[i] \o ss[i + 1]
  BY <1>4, <1>5
<1>7. flatten[1] = ss[1]
  BY <1>0, <1>4
<1> QED BY <1>1, <1>6, <1>7

\* Flattening a sequence of sequences keeps their elements and no other.
LEMMA FlattenElements ==
    ASSUME NEW S, NEW ss \in Seq(Seq(S))
    PROVE  /\ FlattenSeq(ss) \in Seq(S)
           /\ Range(FlattenSeq(ss)) = UNION {Range(ss[i]) : i \in DOMAIN ss}
           /\ FlattenSeq(ss) = <<>> <=> \A i \in DOMAIN ss : ss[i] = <<>>
<1> DEFINE n == Len(ss)
<1>1. n \in Nat /\ DOMAIN ss = 1 .. n /\ \A i \in 1 .. n : ss[i] \in Seq(S)
  OBVIOUS
<1>2. CASE n = 0
  <2>1. ss = <<>> /\ FlattenSeq(ss) = <<>>
    BY <1>1, <1>2 DEF FlattenSeq
  <2>2. DOMAIN ss = {} /\ Range(<<>>) = {} /\ <<>> \in Seq(S)
    BY <2>1 DEF Range
  <2> QED BY <2>1, <2>2
<1>3. CASE n # 0
  <2>1. PICK flatten : /\ FlattenSeq(ss) = flatten[n]
                       /\ flatten[1] = ss[1]
                       /\ \A i \in 1 .. n - 1 : flatten[i + 1] = flatten[i] \o ss[i + 1]
    <3> DEFINE T == Seq(S)
    <3> HIDE DEF T
    <3>1. ss \in Seq(T)
      BY DEF T
    <3> QED BY <1>3, <3>1, FlattenUnfolds
  <2> DEFINE Good == {i \in 1 .. n :
                 /\ flatten[i] \in Seq(S)
                 /\ Range(flatten[i]) = UNION {Range(ss[j]) : j \in 1 .. i}
                 /\ flatten[i] = <<>> <=> \A j \in 1 .. i : ss[j] = <<>>}
  <2>5. 1 \in Good
    BY <1>1, <1>3, <2>1
  <2>6. ASSUME NEW i \in 1 .. n - 1, i \in Good PROVE i + 1 \in Good
    <3>1. i + 1 \in 1 .. n /\ ss[i + 1] \in Seq(S) /\ flatten[i] \in Seq(S)
      BY <1>1, <2>6
    <3>2. flatten[i + 1] = flatten[i] \o ss[i + 1]
      BY <2>1
    <3>3. /\ flatten[i + 1] \in Seq(S)
          /\ Range(flatten[i + 1]) = Range(flatten[i]) \cup Range(ss[i + 1])
          /\ flatten[i + 1] = <<>> <=> flatten[i] = <<>> /\ ss[i + 1] = <<>>
      BY <3>1, <3>2, ConcatProperties, RangeConcatenation, ConcatEqualIffEmpty
    <3>4. \A j : j \in 1 .. i + 1 <=> j \in 1 .. i \/ j = i + 1
      OBVIOUS
    <3>5. Range(flatten[i + 1]) = UNION {Range(ss[j]) : j \in 1 .. i + 1}
      BY <2>6, <3>3, <3>4
    <3>6. flatten[i + 1] = <<>> <=> \A j \in 1 .. i + 1 : ss[j] = <<>>
      BY <2>6, <3>3, <3>4
    <3> QED BY <3>1, <3>3, <3>5, <3>6
  <2>7. n \in Good
    <3>1. n \in 1 .. n
      BY <1>1, <1>3
    <3> HIDE DEF Good, n
    <3> QED BY <1>1, <2>5, <2>6, <3>1, Inductive
  <2> QED BY <1>1, <2>1, <2>7
<1> QED BY <1>2, <1>3
\* No two elements at different places are related.
Pairwise(s, R) == \A a, b \in DOMAIN s : a # b => <<s[a], s[b]>> \notin R

LEMMA ConcatPairwise ==
    ASSUME NEW S, NEW s \in Seq(S), NEW t \in Seq(S), NEW R, Pairwise(s, R), Pairwise(t, R),
           \A x \in Range(s) : \A y \in Range(t) : <<x, y>> \notin R /\ <<y, x>> \notin R
    PROVE  Pairwise(s \o t, R)
<1> DEFINE u == s \o t
<1>1. /\ u \in Seq(S) /\ Len(u) = Len(s) + Len(t) /\ Len(s) \in Nat /\ Len(t) \in Nat
      /\ \A i \in 1 .. Len(s) + Len(t) : u[i] = IF i <= Len(s) THEN s[i] ELSE t[i - Len(s)]
  BY ConcatProperties
<1>2. DOMAIN u = 1 .. Len(s) + Len(t) /\ DOMAIN s = 1 .. Len(s) /\ DOMAIN t = 1 .. Len(t)
  BY <1>1
<1> HIDE DEF u
<1>3. ASSUME NEW i \in DOMAIN u
      PROVE  \/ i \in DOMAIN s /\ u[i] = s[i]
             \/ i \notin DOMAIN s /\ i - Len(s) \in DOMAIN t /\ u[i] = t[i - Len(s)]
  BY <1>1, <1>2
<1>4. \A i \in DOMAIN s : s[i] \in Range(s)
  BY DEF Range
<1>5. \A i \in DOMAIN t : t[i] \in Range(t)
  BY DEF Range
<1>6. ASSUME NEW a \in DOMAIN u, NEW b \in DOMAIN u, a # b PROVE <<u[a], u[b]>> \notin R
  <2>1. CASE a \in DOMAIN s /\ b \in DOMAIN s
    BY <1>3, <1>6, <2>1 DEF Pairwise
  <2>2. CASE a \notin DOMAIN s /\ b \notin DOMAIN s
    <3>1. a - Len(s) # b - Len(s)
      BY <1>1, <1>2, <1>6
    <3> QED BY <1>3, <2>2, <3>1 DEF Pairwise
  <2>3. CASE a \in DOMAIN s /\ b \notin DOMAIN s
    BY <1>3, <1>4, <1>5, <2>3
  <2>4. CASE a \notin DOMAIN s /\ b \in DOMAIN s
    BY <1>3, <1>4, <1>5, <2>4
  <2> QED BY <2>1, <2>2, <2>3, <2>4
<1> QED BY <1>6 DEF Pairwise, u

\* Nor in the flattening of sequences that share nothing related.
LEMMA FlattenPairwise ==
    ASSUME NEW S, NEW ss \in Seq(Seq(S)), NEW R,
           \A i \in DOMAIN ss : Pairwise(ss[i], R),
           \A i, j \in DOMAIN ss : i # j =>
              \A x \in Range(ss[i]) : \A y \in Range(ss[j]) : <<x, y>> \notin R
    PROVE  Pairwise(FlattenSeq(ss), R)
<1> DEFINE n == Len(ss)
<1>1. n \in Nat /\ DOMAIN ss = 1 .. n /\ \A i \in 1 .. n : ss[i] \in Seq(S)
  OBVIOUS
<1>2. ss = [i \in 1 .. n |-> ss[i]]
  OBVIOUS
<1>3. CASE n = 0
  <2>1. FlattenSeq(ss) = <<>>
    BY <1>2, <1>3 DEF FlattenSeq
  <2> QED BY <2>1 DEF Pairwise
<1>4. CASE n # 0
  <2>1. PICK flatten : /\ FlattenSeq(ss) = flatten[n]
                       /\ flatten[1] = ss[1]
                       /\ \A i \in 1 .. n - 1 : flatten[i + 1] = flatten[i] \o ss[i + 1]
    <3> DEFINE T == Seq(S)
    <3> HIDE DEF T
    <3>1. ss \in Seq(T)
      BY DEF T
    <3> QED BY <1>4, <3>1, FlattenUnfolds
  <2> DEFINE Good == {i \in 1 .. n :
                 /\ flatten[i] \in Seq(S)
                 /\ \A x \in Range(flatten[i]) : \E j \in 1 .. i : x \in Range(ss[j])
                 /\ Pairwise(flatten[i], R)}
  <2>2. 1 \in Good
    BY <1>1, <1>4, <2>1
  <2>3. ASSUME NEW i \in 1 .. n - 1, i \in Good PROVE i + 1 \in Good
    <3>1. i + 1 \in 1 .. n /\ ss[i + 1] \in Seq(S) /\ flatten[i] \in Seq(S)
      BY <1>1, <2>3
    <3>2. flatten[i + 1] = flatten[i] \o ss[i + 1]
      BY <2>1
    <3>3. /\ flatten[i + 1] \in Seq(S)
          /\ Range(flatten[i + 1]) = Range(flatten[i]) \cup Range(ss[i + 1])
      BY <3>1, <3>2, ConcatProperties, RangeConcatenation
    <3>4. \A j \in 1 .. i : j \in 1 .. i + 1 /\ j \in 1 .. n /\ j # i + 1
      BY <1>1
    <3>5. \A x \in Range(flatten[i + 1]) : \E j \in 1 .. i + 1 : x \in Range(ss[j])
      <4>1. i + 1 \in 1 .. i + 1
        OBVIOUS
      <4> QED BY <2>3, <3>3, <3>4, <4>1
    <3>6. \A x \in Range(flatten[i]) : \A y \in Range(ss[i + 1]) : <<x, y>> \notin R /\ <<y, x>> \notin R
      BY <1>1, <2>3, <3>1, <3>4
    <3>7. Pairwise(flatten[i], R) /\ Pairwise(ss[i + 1], R)
      BY <1>1, <2>3, <3>1
    <3>8. Pairwise(flatten[i + 1], R)
      BY <3>1, <3>2, <3>6, <3>7, ConcatPairwise
    <3> QED BY <3>1, <3>3, <3>5, <3>8
  <2>4. n \in Good
    <3>1. n \in 1 .. n
      BY <1>1, <1>4
    <3> HIDE DEF Good, n
    <3> QED BY <1>1, <2>2, <2>3, <3>1, Inductive
  <2> QED BY <2>1, <2>4
<1> QED BY <1>3, <1>4
=============================================================================
