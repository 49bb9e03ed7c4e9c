--------------------------- MODULE Induction_proof ---------------------------
(***************************************************************************)
(* Induction by a smallest counterexample, and what it shows of            *)
(* reachability.  The induction theorems of the library take a predicate   *)
(* as a parameter; the facts about well-founded relations they rest on do  *)
(* not, and give the same for sets.                                        *)
(***************************************************************************)
EXTENDS Reachability, FiniteSetTheorems, TLAPS

LessThan == {p \in Nat \X Nat : p[1] < p[2]}

\* A set of naturals that is not empty has a least element.
LEMMA LeastNatural ==
    ASSUME NEW S, S \subseteq Nat, S # {}
    PROVE  \E m \in S : \A k \in S : m <= k
<1>1. IsWellFoundedOn(LessThan, Nat)
  BY NatLessThanWellFounded DEF OpToRel, LessThan
<1>2. PICK m \in S : \A k \in S : ~ (<<k, m>> \in LessThan)
  BY <1>1, WFMin
<1>3. \A k \in S : k \in Nat /\ m \in Nat
  OBVIOUS
<1>4. \A k, l \in Nat : k < l => <<k, l>> \in LessThan
  BY DEF LessThan
<1>5. \A k \in S : ~ (k < m)
  BY <1>2, <1>3, <1>4
<1> QED BY <1>3, <1>5

\* What a natural k has, and every natural beyond it inherits from the one
\* before, all naturals from k on have.
LEMMA Inductive ==
    ASSUME NEW S, NEW k \in Nat, k \in S,
           NEW n \in Nat, \A i \in k .. n - 1 : i \in S => i + 1 \in S
    PROVE  \A i \in k .. n : i \in S
<1> DEFINE Bad == {i \in k .. n : i \notin S}
<1> SUFFICES ASSUME Bad # {} PROVE FALSE
  OBVIOUS
<1>1. PICK m \in Bad : \A i \in Bad : m <= i
  <2>1. Bad \subseteq Nat
    OBVIOUS
  <2> HIDE DEF Bad
  <2> QED BY <2>1, LeastNatural
<1>2. m \in k .. n /\ m \notin S /\ m # k
  OBVIOUS
<1>3. m - 1 \in k .. n - 1 /\ m - 1 \notin Bad
  BY <1>1, <1>2
<1>4. m - 1 \in S
  BY <1>3
<1> QED BY <1>2, <1>3, <1>4

\* A recursive function over 0 .. n: its first value, and each from the one before.
Builds(n, D, a, G, f) ==
    f \in [0 .. n -> D] /\ f[0] = a /\ \A i \in 1 .. n : f[i] = G[<<i, f[i - 1]>>]

\* It exists when every step stays in a set.
LEMMA Recursion ==
    ASSUME NEW n \in Nat, NEW D, NEW a \in D, NEW G \in [(1 .. n) \X D -> D]
    PROVE  \E f : Builds(n, D, a, G, f)
<1> DEFINE Is(f, m) == f \in [0 .. m -> D] /\ f[0] = a /\ \A i \in 1 .. m : f[i] = G[<<i, f[i - 1]>>]
           Built == {m \in 0 .. n : \E f : Is(f, m)}
<1>1. 0 \in Built
  <2>1. Is([i \in 0 .. 0 |-> a], 0)
    OBVIOUS
  <2> HIDE DEF Is
  <2> QED BY <2>1
<1>2. ASSUME NEW m \in 0 .. n - 1, m \in Built PROVE m + 1 \in Built
  <2>1. PICK f : Is(f, m)
    BY <1>2
  <2> DEFINE x == G[<<m + 1, f[m]>>]
             g == [i \in 0 .. m + 1 |-> IF i = m + 1 THEN x ELSE f[i]]
  <2>2. m + 1 \in 1 .. n /\ f[m] \in D /\ x \in D
    BY <2>1
  <2>3. \A i \in 0 .. m : g[i] = f[i]
    BY <2>1
  <2>4. g[m + 1] = x
    BY <2>2
  <2>5. g \in [0 .. m + 1 -> D]
    BY <2>1, <2>2
  <2> HIDE DEF g
  <2>6. g[0] = a
    BY <2>1, <2>3
  <2>7. ASSUME NEW i \in 1 .. m + 1 PROVE g[i] = G[<<i, g[i - 1]>>]
    <3>1. i - 1 \in 0 .. m /\ g[i - 1] = f[i - 1]
      BY <2>3
    <3>2. CASE i = m + 1
      BY <2>4, <3>1, <3>2
    <3>3. CASE i # m + 1
      <4>1. i \in 1 .. m /\ i \in 0 .. m
        BY <3>3
      <4> QED BY <2>1, <2>3, <3>1, <4>1
    <3> QED BY <3>2, <3>3
  <2>8. Is(g, m + 1)
    BY <2>5, <2>6, <2>7
  <2> HIDE DEF Is
  <2> QED BY <2>2, <2>8
<1>3. \A m \in 0 .. n : m \in Built
  <2> HIDE DEF Built
  <2> QED BY <1>1, <1>2, Inductive
<1> QED BY <1>3 DEF Builds

\* What holds of the first value, and of the next if of one, holds of all.
LEMMA Stays ==
    ASSUME NEW n \in Nat, NEW D, NEW f, f[0] \in D, \A i \in 1 .. n : f[i - 1] \in D => f[i] \in D
    PROVE  \A i \in 0 .. n : f[i] \in D
<1> DEFINE S == {i \in 0 .. n : f[i] \in D}
<1>1. 0 \in S
  OBVIOUS
<1>2. \A i \in 0 .. n - 1 : i \in S => i + 1 \in S
  <2> SUFFICES ASSUME NEW i \in 0 .. n - 1, i \in S PROVE i + 1 \in S
    OBVIOUS
  <2>1. i + 1 \in 1 .. n /\ (i + 1) - 1 = i
    OBVIOUS
  <2> QED BY <2>1
<1>3. \A i \in 0 .. n : i \in S
  <2> HIDE DEF S
  <2> QED BY <1>1, <1>2, Inductive
<1> QED BY <1>3

\* A set of subsets of a finite set has a largest among them.
LEMMA LargestSubset ==
    ASSUME NEW S, IsFiniteSet(S), NEW T, T \subseteq SUBSET S, T # {}
    PROVE  \E x \in T : \A y \in T : x \subseteq y => y = x
<1> DEFINE Rest == {S \ x : x \in T}
<1>1. Rest \subseteq SUBSET S /\ Rest # {}
  <2>1. PICK x : x \in T
    OBVIOUS
  <2>2. S \ x \in Rest
    BY <2>1
  <2>3. \A r \in Rest : r \subseteq S
    OBVIOUS
  <2> HIDE DEF Rest
  <2> QED BY <2>2, <2>3
<1>2. IsWellFoundedOn(StrictSubsetOrdering(S), SUBSET S)
  BY FS_FiniteSubsetsOfFinite, FS_StrictSubsetOrderingWellFounded
<1>3. PICK r \in Rest : \A y \in Rest : ~ (<<y, r>> \in StrictSubsetOrdering(S))
  <2> HIDE DEF Rest
  <2> QED BY <1>1, <1>2, WFMin
<1>4. PICK x \in T : r = S \ x
  OBVIOUS
<1>5. ASSUME NEW y \in T, x \subseteq y PROVE y = x
  <2>1. S \ y \in Rest /\ S \ y \subseteq S \ x
    BY <1>5
  <2>2. <<S \ y, r>> \in StrictSubsetOrdering(S) \/ S \ y = r
    BY <1>4, <2>1 DEF StrictSubsetOrdering
  <2>3. S \ y = S \ x
    BY <1>3, <1>4, <2>1, <2>2
  <2> QED BY <1>4, <1>5, <2>3
<1> QED BY <1>5

-----------------------------------------------------------------------------
Closed(R, S) == \A e \in R : e[1] \in S => e[2] \in S
ClosedUnder(next, S) == \A n \in S \cap DOMAIN next : next[n] \subseteq S

\* What is reached from a along next is the least set that holds a and
\* everything that comes after its nodes.
LEMMA ClosureLeast ==
    ASSUME NEW next, IsFiniteSet(DOMAIN next), NEW a \in DOMAIN next,
           \A n \in DOMAIN next : next[n] \subseteq DOMAIN next
    PROVE  /\ a \in Closure(next, a) /\ Closure(next, a) \subseteq DOMAIN next
           /\ ClosedUnder(next, Closure(next, a))
           /\ \A C : a \in C /\ ClosedUnder(next, C) => Closure(next, a) \subseteq C
<1> DEFINE nodes == DOMAIN next
           Is(f) == f = [S \in SUBSET nodes |->
                            IF Wider(next, S) = S THEN S ELSE f[Wider(next, S)]]
           grow == CHOOSE f : Is(f)
           Hull(S) == {n \in nodes : \A C \in SUBSET nodes :
                            S \subseteq C /\ ClosedUnder(next, C) => n \in C}
<1>1. Closure(next, a) = grow[{a}]
  BY DEF Closure
<1>2. IsFiniteSet(nodes) /\ {a} \in SUBSET nodes
  OBVIOUS
<1>3. \A S \in SUBSET nodes : Wider(next, S) \in SUBSET nodes /\ S \subseteq Wider(next, S)
  BY DEF Wider
<1>4. \A S \in SUBSET nodes : Wider(next, S) = S <=> ClosedUnder(next, S)
  BY DEF Wider, ClosedUnder
<1>5. \A S \in SUBSET nodes : \A C :
         S \subseteq C /\ ClosedUnder(next, C) => Wider(next, S) \subseteq C
  BY DEF Wider, ClosedUnder
<1> HIDE DEF nodes
<1>6. Is([S \in SUBSET nodes |-> Hull(S)])
  <2>1. ASSUME NEW S \in SUBSET nodes, Wider(next, S) = S PROVE Hull(S) = S
    BY <2>1, <1>4
  <2>2. ASSUME NEW S \in SUBSET nodes PROVE Hull(S) = Hull(Wider(next, S))
    <3>1. \A C \in SUBSET nodes :
             ClosedUnder(next, C) => (S \subseteq C <=> Wider(next, S) \subseteq C)
      BY <1>3, <1>5
    <3> QED BY <3>1
  <2> HIDE DEF Hull
  <2> QED BY <2>1, <2>2, <1>3
<1>7. Is(grow)
  BY <1>6
<1> HIDE DEF grow
<1>8. \A S \in SUBSET nodes :
         grow[S] = IF Wider(next, S) = S THEN S ELSE grow[Wider(next, S)]
  BY <1>7
<1> DEFINE Good(S) == /\ S \subseteq grow[S] /\ grow[S] \subseteq nodes
                      /\ ClosedUnder(next, grow[S])
                      /\ \A C : S \subseteq C /\ ClosedUnder(next, C) => grow[S] \subseteq C
           Bad == {S \in SUBSET nodes : ~ Good(S)}
<1>9. Bad = {}
  <2> SUFFICES ASSUME Bad # {} PROVE FALSE
    OBVIOUS
  <2>1. PICK S \in Bad : \A T \in Bad : S \subseteq T => T = S
    <3>1. Bad \subseteq SUBSET nodes
      OBVIOUS
    <3> HIDE DEF Bad
    <3> QED BY <3>1, <1>2, LargestSubset
  <2>2. S \in SUBSET nodes /\ ~ Good(S)
    OBVIOUS
  <2>3. CASE Wider(next, S) = S
    BY <2>2, <2>3, <1>4, <1>8
  <2>4. CASE Wider(next, S) # S
    <3>1. Wider(next, S) \notin Bad
      BY <2>1, <2>2, <2>4, <1>3
    <3>2. Good(Wider(next, S)) /\ grow[S] = grow[Wider(next, S)]
      BY <3>1, <2>2, <2>4, <1>3, <1>8
    <3>3. Good(S)
      BY <3>2, <2>2, <1>3, <1>5
    <3> QED BY <3>3, <2>2
  <2> QED BY <2>3, <2>4
<1>10. Good({a})
  BY <1>2, <1>9
<1> QED BY <1>1, <1>10 DEF nodes

\* What is reached from a is a and what is reached from the nodes after it.
LEMMA ClosureSteps ==
    ASSUME NEW next, IsFiniteSet(DOMAIN next), NEW a \in DOMAIN next,
           \A n \in DOMAIN next : next[n] \subseteq DOMAIN next
    PROVE  /\ \A b \in Closure(next, a) : Closure(next, b) \subseteq Closure(next, a)
           /\ \A b \in Closure(next, a) : b # a => \E c \in next[a] : b \in Closure(next, c)
<1>1. ASSUME NEW b \in Closure(next, a) PROVE Closure(next, b) \subseteq Closure(next, a)
  BY ClosureLeast
<1> DEFINE C == {a} \cup UNION {Closure(next, c) : c \in next[a]}
<1>2. ClosedUnder(next, C)
  <2>1. next[a] \subseteq C
    BY ClosureLeast
  <2>2. ASSUME NEW c \in next[a], NEW n \in Closure(next, c)
        PROVE  n \in DOMAIN next /\ next[n] \subseteq Closure(next, c)
    <3>1. /\ Closure(next, c) \subseteq DOMAIN next
          /\ ClosedUnder(next, Closure(next, c))
      BY ClosureLeast
    <3> QED BY <3>1 DEF ClosedUnder
  <2> QED BY <2>1, <2>2 DEF ClosedUnder
<1>3. Closure(next, a) \subseteq C
  BY <1>2, ClosureLeast
<1> QED BY <1>1, <1>3

-----------------------------------------------------------------------------
\* What is reached from a in a finite relation is the least set that holds a
\* and is closed under it.
LEMMA ReachLeast ==
    ASSUME NEW R, IsFiniteSet(R), NEW a
    PROVE  /\ a \in Reach(R, a)
           /\ Closed(R, Reach(R, a))
           /\ \A C : a \in C /\ Closed(R, C) => Reach(R, a) \subseteq C
<1> DEFINE ends(i) == {e[i] : e \in R}
           nodes == {a} \cup ends(1) \cup ends(2)
           after(n) == {e[2] : e \in {d \in R : d[1] = n}}
           next == [n \in nodes |-> after(n)]
<1>1. IsFiniteSet(nodes)
  <2>1. ASSUME NEW i \in {1, 2} PROVE IsFiniteSet(ends(i))
    <3> DEFINE part == [e \in R |-> e[i]]
    <3>1. part \in Surjection(R, ends(i))
      BY DEF Surjection
    <3> HIDE DEF part, ends
    <3> QED BY <3>1, FS_Surjection
  <2> HIDE DEF ends
  <2>2. IsFiniteSet({a} \cup ends(1))
    BY <2>1, FS_Singleton, FS_Union
  <2> QED BY <2>1, <2>2, FS_Union
<1>2. DOMAIN next = nodes /\ a \in nodes
  OBVIOUS
<1>3. \A n \in nodes : next[n] \subseteq nodes
  OBVIOUS
<1>4. ASSUME NEW C PROVE Closed(R, C) <=> ClosedUnder(next, C)
  BY DEF Closed, ClosedUnder
<1>5. Reach(R, a) = Closure(next, a)
  BY DEF Reach
<1> HIDE DEF next, nodes
<1>6. /\ a \in Closure(next, a)
      /\ ClosedUnder(next, Closure(next, a))
      /\ \A C : a \in C /\ ClosedUnder(next, C) => Closure(next, a) \subseteq C
  BY <1>1, <1>2, <1>3, ClosureLeast
<1> QED BY <1>4, <1>5, <1>6

\* More of the relation reaches more.
LEMMA ReachMonotone ==
    ASSUME NEW R, NEW Q, IsFiniteSet(R), IsFiniteSet(Q), R \subseteq Q, NEW a
    PROVE  Reach(R, a) \subseteq Reach(Q, a)
<1>1. a \in Reach(Q, a) /\ Closed(Q, Reach(Q, a))
  BY ReachLeast
<1>2. Closed(R, Reach(Q, a))
  BY <1>1 DEF Closed
<1> QED BY <1>1, <1>2, ReachLeast
=============================================================================
