------------------------ MODULE CohesionGraph_proof ------------------------
(***************************************************************************)
(* The union-find of CohesionGraph counts the components of the methods    *)
(* that are joined by members or calls, in whatever order they are added.  *)
(***************************************************************************)
EXTENDS CohesionGraph, Induction_proof

-----------------------------------------------------------------------------
(* Trees of parents.  What the search computes is said without it: a rank  *)
(* that falls towards the roots, and the root of every node.               *)

Parents(n) == [1 .. n -> 1 .. n]

Falls(n, p, rank) ==
    /\ rank \in [1 .. n -> Nat]
    /\ \A x \in 1 .. n : p[x] # x => rank[p[x]] < rank[x]

Rooted(n, p, top) ==
    /\ top \in Parents(n)
    /\ \A x \in 1 .. n : /\ top[p[x]] = top[x]
                         /\ p[top[x]] = top[x]
                         /\ p[x] = x => top[x] = x

Tree(n, p, rank, top) == p \in Parents(n) /\ Falls(n, p, rank) /\ Rooted(n, p, top)

\* Halving a path moves a node past its parent: the roots stay, and the search
\* goes on in the same tree, further down the ranks.
LEMMA HalvingKeeps ==
    ASSUME NEW n \in Nat, NEW p, NEW rank, NEW top, Tree(n, p, rank, top),
           NEW x \in 1 .. n, p[x] # x
    PROVE  LET s == Halved([root |-> x, parent |-> p])
           IN  /\ s.root \in 1 .. n /\ top[s.root] = top[x] /\ rank[s.root] < rank[x]
               /\ Tree(n, s.parent, rank, top)
               /\ s = [root |-> s.root, parent |-> s.parent]
<1> DEFINE s == Halved([root |-> x, parent |-> p])
           up == p[p[x]]
           q == [p EXCEPT ![x] = up]
<1>1. p \in Parents(n) /\ Falls(n, p, rank) /\ Rooted(n, p, top)
  BY DEF Tree
<1>2. p[x] \in 1 .. n /\ up \in 1 .. n
  BY <1>1 DEF Parents
<1>3. s = [root |-> up, parent |-> q]
  BY DEF Halved
<1>4. top[up] = top[x]
  BY <1>1, <1>2 DEF Rooted
<1>5. rank[up] < rank[x]
  <2>1. rank[p[x]] < rank[x] /\ (up # p[x] => rank[up] < rank[p[x]])
    BY <1>1, <1>2 DEF Falls
  <2>2. rank[x] \in Nat /\ rank[p[x]] \in Nat /\ rank[up] \in Nat
    BY <1>1, <1>2 DEF Falls
  <2> QED BY <2>1, <2>2
<1> HIDE DEF up
<1>6. q \in Parents(n) /\ q[x] = up /\ \A y \in 1 .. n : y # x => q[y] = p[y]
  BY <1>1, <1>2 DEF Parents
<1> HIDE DEF q
<1>7. Falls(n, q, rank)
  BY <1>1, <1>5, <1>6 DEF Falls
<1>8. Rooted(n, q, top)
  <2> SUFFICES ASSUME NEW y \in 1 .. n
               PROVE  top[q[y]] = top[y] /\ q[top[y]] = top[y] /\ (q[y] = y => top[y] = y)
    BY <1>1 DEF Rooted
  <2>1. top[y] \in 1 .. n /\ p[top[y]] = top[y] /\ top[y] # x
    BY <1>1 DEF Rooted, Parents
  <2>2. q[top[y]] = top[y]
    BY <1>6, <2>1
  <2>3. CASE y = x
    <3>1. rank[x] \in Nat
      BY <1>1 DEF Falls
    <3>2. up # x
      BY <1>5, <3>1
    <3> QED BY <1>4, <1>6, <2>2, <2>3, <3>2
  <2>4. CASE y # x
    BY <1>1, <1>6, <2>2, <2>4 DEF Rooted
  <2> QED BY <2>3, <2>4
<1>9. s.root = up /\ s.parent = q
  BY <1>3
<1> HIDE DEF s
<1>10. /\ s.root \in 1 .. n /\ top[s.root] = top[x] /\ rank[s.root] < rank[x]
       /\ Tree(n, s.parent, rank, top)
       /\ s = [root |-> s.root, parent |-> s.parent]
  BY <1>2, <1>3, <1>4, <1>5, <1>6, <1>7, <1>8, <1>9 DEF Tree
<1> QED BY <1>10 DEF s

\* The search is a sequence of such rounds, as many as there are nodes.
Walks(n, p, x, f) ==
    /\ Find(p, x) = f[n]
    /\ f[0] = [root |-> x, parent |-> p]
    /\ \A k \in 0 .. n - 1 : f[k + 1] = Halved(f[k])

LEMMA FindUnfolds ==
    ASSUME NEW n \in Nat, NEW p \in Parents(n), NEW x
    PROVE  \E f : Walks(n, p, x, f)
<1> DEFINE Is(f, m) == f = [k \in 0 .. m |-> IF k = 0 THEN [root |-> x, parent |-> p]
                                           ELSE Halved(f[k - 1])]
           walk == CHOOSE f : Is(f, n)
<1>1. Len(p) = n
  BY DEF Parents
<1>2. Find(p, x) = walk[n]
  BY <1>1 DEF Find
<1>3. \E f : Is(f, n)
  <2> DEFINE Built == {m \in 0 .. n : \E f : Is(f, m)}
  <2>1. 0 \in Built
    <3>1. Is([k \in 0 .. 0 |-> [root |-> x, parent |-> p]], 0)
      OBVIOUS
    <3> HIDE DEF Is
    <3> QED BY <3>1
  <2>2. ASSUME NEW m \in 0 .. n - 1, m \in Built PROVE m + 1 \in Built
    <3>1. PICK f : Is(f, m)
      BY <2>2
    <3> DEFINE g == [k \in 0 .. m + 1 |-> IF k = 0 THEN [root |-> x, parent |-> p]
                                         ELSE Halved(f[k - 1])]
    <3>2. \A k \in 0 .. m : f[k] = IF k = 0 THEN [root |-> x, parent |-> p]
                                   ELSE Halved(f[k - 1])
      BY <3>1
    <3>3. \A k \in 0 .. m : g[k] = f[k]
      BY <3>2
    <3>4. \A k \in 0 .. m + 1 : k = 0 \/ k - 1 \in 0 .. m
      OBVIOUS
    <3>5. Is(g, m + 1)
      BY <3>3, <3>4
    <3>6. m + 1 \in 0 .. n
      OBVIOUS
    <3> HIDE DEF Is, g
    <3> QED BY <3>5, <3>6
  <2>3. \A m \in 0 .. n : m \in Built
    <3> HIDE DEF Built
    <3> QED BY <2>1, <2>2, Inductive
  <2> HIDE DEF Is
  <2> QED BY <2>3
<1>4. Is(walk, n)
  BY <1>3
<1> HIDE DEF walk
<1>5. \A k \in 0 .. n : walk[k] = IF k = 0 THEN [root |-> x, parent |-> p]
                                  ELSE Halved(walk[k - 1])
  BY <1>4
<1>6. \A k \in 0 .. n - 1 : k + 1 \in 0 .. n /\ k + 1 # 0 /\ (k + 1) - 1 = k
  OBVIOUS
<1>7. \A k \in 0 .. n - 1 : walk[k + 1] = Halved(walk[k])
  BY <1>5, <1>6
<1>8. walk[0] = [root |-> x, parent |-> p]
  BY <1>5
<1> QED BY <1>2, <1>7, <1>8 DEF Walks

\* What falls from each position to the next falls from any to any later one.
LEMMA FallsFurther ==
    ASSUME NEW n \in Nat, NEW r \in [0 .. n -> Nat],
           \A k \in 0 .. n - 1 : r[k + 1] < r[k],
           NEW i \in 0 .. n, NEW j \in 0 .. n, i < j
    PROVE  r[j] < r[i]
<1> DEFINE S == {k \in 0 .. n : r[k] < r[i]}
<1>1. i + 1 \in Nat /\ i + 1 \in S
  OBVIOUS
<1>2. \A k \in i + 1 .. j - 1 : k \in S => k + 1 \in S
  <2> SUFFICES ASSUME NEW k \in i + 1 .. j - 1, k \in S PROVE k + 1 \in S
    OBVIOUS
  <2>1. k \in 0 .. n - 1 /\ k + 1 \in 0 .. n
    OBVIOUS
  <2>2. r[k + 1] < r[k] /\ r[k] < r[i] /\ r[k] \in Nat /\ r[i] \in Nat /\ r[k + 1] \in Nat
    BY <2>1
  <2> QED BY <2>1, <2>2
<1>3. j \in i + 1 .. j /\ j \in Nat
  OBVIOUS
<1> HIDE DEF S
<1>4. \A k \in i + 1 .. j : k \in S
  BY <1>1, <1>2, <1>3, Inductive
<1>5. j \in S
  BY <1>3, <1>4
<1> QED BY <1>5 DEF S

\* The search ends at the root, and leaves every root as it was.
THEOREM FindsRoot ==
    ASSUME NEW n \in Nat, NEW p, NEW rank, NEW top, Tree(n, p, rank, top), NEW x \in 1 .. n
    PROVE  /\ Find(p, x).root = top[x]
           /\ Tree(n, Find(p, x).parent, rank, top)
<1>1. p \in Parents(n) /\ top \in Parents(n) /\ rank \in [1 .. n -> Nat]
  BY DEF Tree, Falls, Rooted
<1>2. PICK f : /\ Find(p, x) = f[n]
               /\ f[0] = [root |-> x, parent |-> p]
               /\ \A k \in 0 .. n - 1 : f[k + 1] = Halved(f[k])
  <2>1. \E f : Walks(n, p, x, f)
    BY <1>1, FindUnfolds
  <2> QED BY <2>1 DEF Walks
<1> DEFINE Good(s) == /\ s.root \in 1 .. n /\ top[s.root] = top[x]
                      /\ Tree(n, s.parent, rank, top)
                      /\ s = [root |-> s.root, parent |-> s.parent]
           AtRoot(s) == s.parent[s.root] = s.root
<1>3. ASSUME NEW s, Good(s), ~ AtRoot(s)
      PROVE  Good(Halved(s)) /\ rank[Halved(s).root] < rank[s.root]
  <2> DEFINE y == s.root
             q == s.parent
  <2>1. y \in 1 .. n /\ Tree(n, q, rank, top) /\ q[y] # y /\ s = [root |-> y, parent |-> q]
        /\ top[y] = top[x]
    BY <1>3
  <2> HIDE DEF y, q
  <2>2. Good(Halved([root |-> y, parent |-> q]))
        /\ rank[Halved([root |-> y, parent |-> q]).root] < rank[y]
    BY <2>1, HalvingKeeps
  <2>3. s = [root |-> y, parent |-> q]
    BY <2>1
  <2>4. s.root = y
    BY DEF y
  <2> HIDE DEF Good
  <2> QED BY <2>2, <2>3, <2>4
<1>4. ASSUME NEW s, AtRoot(s) PROVE Halved(s) = s
  BY <1>4 DEF Halved
<1>5. Good(f[0])
  BY <1>1, <1>2
<1> HIDE DEF Good, AtRoot
<1>6. \A k \in 0 .. n : Good(f[k])
  <2> DEFINE S == {k \in 0 .. n : Good(f[k])}
  <2>1. 0 \in S
    BY <1>5
  <2>2. \A k \in 0 .. n - 1 : k \in S => k + 1 \in S
    <3> SUFFICES ASSUME NEW k \in 0 .. n - 1, k \in S PROVE k + 1 \in S
      OBVIOUS
    <3>1. f[k + 1] = Halved(f[k]) /\ k + 1 \in 0 .. n /\ Good(f[k])
      BY <1>2
    <3>2. CASE AtRoot(f[k])
      BY <3>1, <3>2, <1>4
    <3>3. CASE ~ AtRoot(f[k])
      BY <3>1, <3>3, <1>3
    <3> QED BY <3>2, <3>3
  <2> HIDE DEF S
  <2>3. \A k \in 0 .. n : k \in S
    BY <2>1, <2>2, Inductive
  <2> QED BY <2>3 DEF S
<1>7. AtRoot(f[n])
  <2> SUFFICES ASSUME ~ AtRoot(f[n]) PROVE FALSE
    OBVIOUS
  <2>1. \A k \in 0 .. n : ~ AtRoot(f[k])
    <3> SUFFICES ASSUME NEW k \in 0 .. n, AtRoot(f[k]) PROVE FALSE
      OBVIOUS
    <3> DEFINE S == {i \in 0 .. n : AtRoot(f[i])}
    <3>1. k \in S /\ k \in Nat
      OBVIOUS
    <3>2. \A i \in k .. n - 1 : i \in S => i + 1 \in S
      <4> SUFFICES ASSUME NEW i \in k .. n - 1, i \in S PROVE i + 1 \in S
        OBVIOUS
      <4>1. i \in 0 .. n - 1 /\ i + 1 \in 0 .. n
        OBVIOUS
      <4>2. f[i + 1] = Halved(f[i]) /\ AtRoot(f[i])
        BY <1>2, <4>1
      <4>3. AtRoot(f[i + 1])
        BY <4>2, <1>4
      <4> QED BY <4>1, <4>3
    <3>3. n \in k .. n
      OBVIOUS
    <3> HIDE DEF S
    <3>4. n \in S
      BY <3>1, <3>2, <3>3, Inductive
    <3> QED BY <3>4 DEF S
  <2> DEFINE r == [k \in 0 .. n |-> rank[f[k].root]]
             node == [k \in 0 .. n |-> f[k].root]
  <2>2. \A k \in 0 .. n : f[k].root \in 1 .. n
    BY <1>6 DEF Good
  <2>3. r \in [0 .. n -> Nat] /\ node \in [0 .. n -> 1 .. n]
    BY <1>1, <2>2
  <2>4. \A k \in 0 .. n - 1 : r[k + 1] < r[k]
    <3> SUFFICES ASSUME NEW k \in 0 .. n - 1 PROVE r[k + 1] < r[k]
      OBVIOUS
    <3>1. k \in 0 .. n /\ k + 1 \in 0 .. n /\ f[k + 1] = Halved(f[k])
      BY <1>2
    <3>2. rank[f[k + 1].root] < rank[f[k].root]
      BY <3>1, <1>3, <1>6, <2>1
    <3> QED BY <3>1, <3>2
  <2>5. \A i, j \in 0 .. n : i < j => node[i] # node[j]
    <3> SUFFICES ASSUME NEW i \in 0 .. n, NEW j \in 0 .. n, i < j, node[i] = node[j]
                 PROVE  FALSE
      OBVIOUS
    <3>1. r[i] = r[j] /\ r[i] \in Nat
      BY <2>3
    <3> HIDE DEF r
    <3>2. r[j] < r[i]
      BY <2>3, <2>4, FallsFurther
    <3> QED BY <3>1, <3>2
  <2>6. /\ IsFiniteSet(0 .. n) /\ Cardinality(0 .. n) = n + 1
        /\ IsFiniteSet(1 .. n) /\ Cardinality(1 .. n) = n
    <3>1. 0 \in Int /\ 1 \in Int /\ n \in Int
      OBVIOUS
    <3> QED BY <3>1, FS_Interval
  <2> HIDE DEF node, r
  <2>7. Cardinality(1 .. n) < Cardinality(0 .. n)
    BY <2>6
  <2>8. \E i, j \in 0 .. n : i # j /\ node[i] = node[j]
    BY ONLY <2>3, <2>6, <2>7, FS_PigeonHole, ZenonT(30)
  <2>9. PICK i \in 0 .. n, j \in 0 .. n : i # j /\ node[i] = node[j]
    BY <2>8
  <2> QED BY <2>5, <2>9
<1>8. Good(f[n])
  BY <1>6
<1>9. f[n].root = top[f[n].root]
  BY <1>7, <1>8 DEF Good, AtRoot, Tree, Rooted
<1> QED BY <1>2, <1>8, <1>9 DEF Good

\* A root that is given another root as its parent brings its tree along.
Onto(n, top, a, b) == [x \in 1 .. n |-> IF top[x] = a THEN b ELSE top[x]]

LEMMA AttachMoves ==
    ASSUME NEW n \in Nat, NEW p, NEW rank, NEW top, Tree(n, p, rank, top),
           NEW a \in 1 .. n, NEW b \in 1 .. n, p[a] = a, p[b] = b
    PROVE  \E low : Tree(n, [p EXCEPT ![a] = b], low, Onto(n, top, a, b))
<1> DEFINE q == [p EXCEPT ![a] = b]
           new == Onto(n, top, a, b)
           low == [x \in 1 .. n |-> IF top[x] = a THEN rank[x] + rank[b] + 1 ELSE rank[x]]
<1>1. /\ p \in Parents(n) /\ top \in Parents(n) /\ rank \in [1 .. n -> Nat]
      /\ \A x \in 1 .. n : p[x] # x => rank[p[x]] < rank[x]
      /\ \A x \in 1 .. n : /\ top[p[x]] = top[x]
                           /\ p[top[x]] = top[x]
                           /\ p[x] = x => top[x] = x
  BY DEF Tree, Falls, Rooted
<1>2. CASE a = b
  <2>1. q = p /\ new = top
    BY <1>1, <1>2 DEF Parents, Onto
  <2> QED BY <2>1
<1>3. CASE a # b
  <2>1. q \in Parents(n) /\ q[a] = b /\ \A x \in 1 .. n : x # a => q[x] = p[x]
    BY <1>1 DEF Parents
  <2>2. /\ new \in Parents(n)
        /\ \A x \in 1 .. n : new[x] = IF top[x] = a THEN b ELSE top[x]
    BY <1>1 DEF Onto, Parents
  <2>3. top[a] = a /\ top[b] = b
    BY <1>1
  <2>4. low \in [1 .. n -> Nat]
    BY <1>1
  <2>5. \A x \in 1 .. n : low[x] = IF top[x] = a THEN rank[x] + rank[b] + 1 ELSE rank[x]
    OBVIOUS
  <2> HIDE DEF q, new, low
  <2>6. ASSUME NEW x \in 1 .. n, q[x] # x PROVE low[q[x]] < low[x]
    <3>1. rank[x] \in Nat /\ rank[b] \in Nat
      BY <1>1
    <3>2. CASE x = a
      <4>1. low[a] = rank[a] + rank[b] + 1 /\ low[b] = rank[b]
        BY <1>3, <2>3, <2>5
      <4> QED BY <2>1, <3>1, <3>2, <4>1
    <3>3. CASE x # a
      <4>1. q[x] = p[x] /\ p[x] \in 1 .. n /\ rank[p[x]] \in Nat /\ rank[p[x]] < rank[x]
        BY <1>1, <2>1, <2>6, <3>3 DEF Parents
      <4>2. top[p[x]] = top[x]
        BY <1>1
      <4> QED BY <2>5, <3>1, <4>1, <4>2
    <3> QED BY <3>2, <3>3
  <2>7. ASSUME NEW x \in 1 .. n
        PROVE  new[q[x]] = new[x] /\ q[new[x]] = new[x] /\ (q[x] = x => new[x] = x)
    <3>1. top[x] \in 1 .. n /\ p[x] \in 1 .. n
      BY <1>1 DEF Parents
    <3>2. new[q[x]] = new[x]
      <4>1. CASE x = a
        BY <1>3, <2>1, <2>2, <2>3, <4>1
      <4>2. CASE x # a
        <5>1. q[x] = p[x] /\ top[p[x]] = top[x]
          BY <1>1, <2>1, <4>2
        <5> QED BY <2>2, <3>1, <5>1
      <4> QED BY <4>1, <4>2
    <3>3. q[new[x]] = new[x]
      <4>1. q[b] = b /\ p[top[x]] = top[x]
        BY <1>1, <1>3, <2>1
      <4>2. top[x] # a => q[top[x]] = top[x]
        BY <2>1, <3>1, <4>1
      <4> QED BY <2>2, <4>1, <4>2
    <3>4. q[x] = x => new[x] = x
      <4>1. CASE x = a
        BY <1>3, <2>1, <4>1
      <4>2. CASE x # a
        <5>1. q[x] = p[x] /\ (p[x] = x => top[x] = x)
          BY <1>1, <2>1, <4>2
        <5> QED BY <2>2, <4>2, <5>1
      <4> QED BY <4>1, <4>2
    <3> QED BY <3>2, <3>3, <3>4
  <2>8. Tree(n, q, low, new)
    BY <2>1, <2>2, <2>4, <2>6, <2>7 DEF Tree, Falls, Rooted
  <2> QED BY <2>8 DEF q, new
<1> QED BY <1>2, <1>3

-----------------------------------------------------------------------------
(* What is linked by a set of edges, in either direction. *)

Linked(E, x) == Reach(E \cup {<<e[2], e[1]>> : e \in E}, x)

Respects(E, C) == \A e \in E : e[1] \in C <=> e[2] \in C

Edges(n) == (1 .. n) \X (1 .. n)

\* What is linked to x is the least set with x that no edge leaves or enters.
LEMMA LinkedLeast ==
    ASSUME NEW n \in Nat, NEW E \in SUBSET Edges(n), NEW x \in 1 .. n
    PROVE  /\ x \in Linked(E, x) /\ Linked(E, x) \subseteq 1 .. n
           /\ Respects(E, Linked(E, x))
           /\ \A C : x \in C /\ Respects(E, C) => Linked(E, x) \subseteq C
<1> DEFINE R == E \cup {<<e[2], e[1]>> : e \in E}
<1>1. IsFiniteSet(R)
  <2>1. IsFiniteSet(1 .. n)
    BY FS_Interval
  <2>2. IsFiniteSet(Edges(n))
    BY <2>1, FS_Product DEF Edges
  <2>3. R \subseteq Edges(n)
    BY DEF Edges
  <2> HIDE DEF R
  <2> QED BY <2>2, <2>3, FS_Subset
<1>2. ASSUME NEW C PROVE Respects(E, C) <=> Closed(R, C)
  <2>1. \A e \in E : e \in R /\ <<e[2], e[1]>> \in R
    OBVIOUS
  <2>2. \A d \in R : d \in E \/ \E e \in E : d[1] = e[2] /\ d[2] = e[1]
    OBVIOUS
  <2>3. \A e \in E : <<e[2], e[1]>>[1] = e[2] /\ <<e[2], e[1]>>[2] = e[1]
    OBVIOUS
  <2> HIDE DEF R
  <2>4. Respects(E, C) => Closed(R, C)
    BY <2>2 DEF Respects, Closed
  <2>5. Closed(R, C) => Respects(E, C)
    BY <2>1, <2>3 DEF Respects, Closed
  <2> QED BY <2>4, <2>5
<1>3. Linked(E, x) = Reach(R, x)
  BY DEF Linked
<1> HIDE DEF R
<1>4. /\ x \in Linked(E, x) /\ Respects(E, Linked(E, x))
      /\ \A C : x \in C /\ Respects(E, C) => Linked(E, x) \subseteq C
  BY <1>1, <1>2, <1>3, ReachLeast
<1>5. Respects(E, 1 .. n)
  BY DEF Respects, Edges
<1> QED BY <1>4, <1>5

\* Nodes are linked to the same nodes if they are linked to each other.
LEMMA LinkedClasses ==
    ASSUME NEW n \in Nat, NEW E \in SUBSET Edges(n), NEW x \in 1 .. n, NEW y \in Linked(E, x)
    PROVE  Linked(E, y) = Linked(E, x)
<1>1. \A z \in 1 .. n : \A w \in Linked(E, z) : w \in 1 .. n /\ Linked(E, w) \subseteq Linked(E, z)
  <2> SUFFICES ASSUME NEW z \in 1 .. n, NEW w \in Linked(E, z)
               PROVE  w \in 1 .. n /\ Linked(E, w) \subseteq Linked(E, z)
    OBVIOUS
  <2>1. w \in 1 .. n /\ Respects(E, Linked(E, z))
    BY LinkedLeast
  <2> QED BY <2>1, LinkedLeast
<1> DEFINE C == {z \in 1 .. n : x \in Linked(E, z)}
<1>2. Respects(E, C)
  <2> SUFFICES ASSUME NEW e \in E PROVE e[1] \in C <=> e[2] \in C
    BY DEF Respects
  <2>1. e[1] \in 1 .. n /\ e[2] \in 1 .. n
    BY DEF Edges
  <2>2. e[2] \in Linked(E, e[1]) /\ e[1] \in Linked(E, e[2])
    <3>1. /\ Respects(E, Linked(E, e[1])) /\ e[1] \in Linked(E, e[1])
          /\ Respects(E, Linked(E, e[2])) /\ e[2] \in Linked(E, e[2])
      BY <2>1, LinkedLeast
    <3> QED BY <3>1 DEF Respects
  <2>3. Linked(E, e[1]) = Linked(E, e[2])
    BY <1>1, <2>1, <2>2
  <2> QED BY <2>1, <2>3
<1>3. x \in C
  BY LinkedLeast
<1> HIDE DEF C
<1>4. y \in C
  BY <1>2, <1>3, LinkedLeast
<1>5. y \in 1 .. n /\ x \in Linked(E, y)
  BY <1>4 DEF C
<1> QED BY <1>1, <1>5

\* Edges between nodes that are linked already link nothing more.
LEMMA LinkedEnough ==
    ASSUME NEW n \in Nat, NEW F \in SUBSET Edges(n), NEW E \in SUBSET F,
           \A e \in F : e[2] \in Linked(E, e[1]),
           NEW x \in 1 .. n
    PROVE  Linked(F, x) = Linked(E, x)
<1>1. E \in SUBSET Edges(n)
  OBVIOUS
<1>2. Respects(E, Linked(F, x)) /\ x \in Linked(F, x)
  BY LinkedLeast DEF Respects
<1>3. Linked(E, x) \subseteq Linked(F, x)
  BY <1>1, <1>2, LinkedLeast
<1>4. Respects(F, Linked(E, x))
  <2> SUFFICES ASSUME NEW e \in F PROVE e[1] \in Linked(E, x) <=> e[2] \in Linked(E, x)
    BY DEF Respects
  <2>1. e[1] \in 1 .. n /\ e[2] \in Linked(E, e[1]) /\ e[2] \in 1 .. n
    BY DEF Edges
  <2>2. Linked(E, e[1]) = Linked(E, e[2])
    BY <1>1, <2>1, LinkedClasses
  <2>3. e[1] \in Linked(E, e[1]) /\ e[2] \in Linked(E, e[2])
    BY <1>1, <2>1, LinkedLeast
  <2>4. \A z \in Linked(E, x) : Linked(E, z) = Linked(E, x)
    BY <1>1, LinkedClasses
  <2> QED BY <2>2, <2>3, <2>4
<1>5. Linked(F, x) \subseteq Linked(E, x)
  BY <1>1, <1>4, LinkedLeast
<1> QED BY <1>3, <1>5

-----------------------------------------------------------------------------
(* The trees are the components. *)

Splits(n, top, E) ==
    \A x, y \in 1 .. n : top[x] = top[y] <=> Linked(E, x) = Linked(E, y)

Holds(n, p, E) ==
    /\ E \in SUBSET Edges(n)
    /\ \E rank, top : Tree(n, p, rank, top) /\ Splits(n, top, E)

\* Joining the trees of a and b joins the components that an edge between the
\* two joins, and no others.
LEMMA MergeSplits ==
    ASSUME NEW n \in Nat, NEW E \in SUBSET Edges(n), NEW top \in Parents(n),
           Splits(n, top, E), NEW a \in 1 .. n, NEW b \in 1 .. n
    PROVE  Splits(n, Onto(n, top, top[a], top[b]), E \cup {<<a, b>>})
<1> DEFINE F == E \cup {<<a, b>>}
           new == Onto(n, top, top[a], top[b])
<1>1. F \in SUBSET Edges(n) /\ E \subseteq F /\ <<a, b>> \in F
      /\ \A e \in F : e \in E \/ (e[1] = a /\ e[2] = b)
  BY DEF Edges
<1>2. \A x \in 1 .. n : new[x] = IF top[x] = top[a] THEN top[b] ELSE top[x]
  BY DEF Onto
<1> HIDE DEF F, new
<1>3. ASSUME NEW x \in 1 .. n, NEW y \in 1 .. n, top[x] = top[y]
      PROVE  Linked(F, x) = Linked(F, y)
  <2>1. Linked(E, x) = Linked(E, y) /\ y \in Linked(E, y)
    BY <1>3, LinkedLeast DEF Splits
  <2>2. Respects(F, Linked(F, x)) /\ x \in Linked(F, x)
    BY <1>1, LinkedLeast
  <2>3. Respects(E, Linked(F, x))
    BY <1>1, <2>2 DEF Respects
  <2>4. y \in Linked(F, x)
    BY <2>1, <2>2, <2>3, LinkedLeast
  <2> QED BY <1>1, <2>4, LinkedClasses
<1>4. Linked(F, a) = Linked(F, b)
  <2>1. Respects(F, Linked(F, a)) /\ a \in Linked(F, a)
    BY <1>1, LinkedLeast
  <2>2. <<a, b>>[1] = a /\ <<a, b>>[2] = b
    OBVIOUS
  <2>3. b \in Linked(F, a)
    BY <1>1, <2>1, <2>2 DEF Respects
  <2> QED BY <1>1, <2>3, LinkedClasses
<1> SUFFICES ASSUME NEW x \in 1 .. n, NEW y \in 1 .. n
             PROVE  new[x] = new[y] <=> Linked(F, x) = Linked(F, y)
  BY DEF Splits, F, new
<1>5. ASSUME new[x] = new[y] PROVE Linked(F, x) = Linked(F, y)
  <2>1. CASE top[x] = top[y]
    BY <1>3, <2>1
  <2>2. CASE top[x] = top[a] /\ top[y] = top[b]
    BY <1>3, <1>4, <2>2
  <2>3. CASE top[x] = top[b] /\ top[y] = top[a]
    BY <1>3, <1>4, <2>3
  <2> QED BY <1>2, <1>5, <2>1, <2>2, <2>3
<1>6. ASSUME Linked(F, x) = Linked(F, y) PROVE new[x] = new[y]
  <2> DEFINE C == {z \in 1 .. n : new[z] = new[x]}
  <2>1. Respects(F, C)
    <3> SUFFICES ASSUME NEW e \in F PROVE e[1] \in C <=> e[2] \in C
      BY DEF Respects
    <3>1. e[1] \in 1 .. n /\ e[2] \in 1 .. n
      BY <1>1 DEF Edges
    <3>2. CASE e \in E
      <4>1. /\ Respects(E, Linked(E, e[1])) /\ e[1] \in Linked(E, e[1])
        BY <3>1, LinkedLeast
      <4>2. e[2] \in Linked(E, e[1])
        BY <3>2, <4>1 DEF Respects
      <4>3. Linked(E, e[1]) = Linked(E, e[2])
        BY <3>1, <4>2, LinkedClasses
      <4>4. top[e[1]] = top[e[2]]
        BY <3>1, <4>3 DEF Splits
      <4> QED BY <1>2, <3>1, <4>4
    <3>3. CASE e[1] = a /\ e[2] = b
      BY <1>2, <3>1, <3>3
    <3> QED BY <1>1, <3>2, <3>3
  <2>2. x \in C
    OBVIOUS
  <2> HIDE DEF C
  <2>3. Linked(F, x) \subseteq C /\ y \in Linked(F, y)
    BY <1>1, <2>1, <2>2, LinkedLeast
  <2>4. y \in C
    BY <1>6, <2>3
  <2> QED BY <2>4 DEF C
<1> QED BY <1>5, <1>6

\* Graph h differs from g at most in its trees, which join by E.
OnlyJoins(n, g, h, E) ==
    /\ Holds(n, h.parent, E)
    /\ h = [parent |-> h.parent, active |-> g.active, owner |-> g.owner]
    /\ h.active = g.active /\ h.owner = g.owner

\* A union adds one edge to what the trees hold.
LEMMA UnionHolds ==
    ASSUME NEW n \in Nat, NEW g, NEW E, OnlyJoins(n, g, g, E), NEW a \in 1 .. n, NEW b \in 1 .. n
    PROVE  OnlyJoins(n, g, Union(g, a, b), E \cup {<<a, b>>})
<1> DEFINE fa == Find(g.parent, a)
           fb == Find(fa.parent, b)
           q == [fb.parent EXCEPT ![fa.root] = fb.root]
<1>0. /\ Holds(n, g.parent, E)
      /\ g = [parent |-> g.parent, active |-> g.active, owner |-> g.owner]
  BY DEF OnlyJoins
<1>1. PICK rank, top : Tree(n, g.parent, rank, top) /\ Splits(n, top, E)
  BY <1>0 DEF Holds
<1>2. fa.root = top[a] /\ Tree(n, fa.parent, rank, top)
  BY <1>1, FindsRoot
<1>3. fb.root = top[b] /\ Tree(n, fb.parent, rank, top)
  <2> HIDE DEF fa
  <2> QED BY <1>2, FindsRoot
<1>4. Union(g, a, b) = [parent |-> q, active |-> g.active, owner |-> g.owner]
  <2>1. Union(g, a, b) = [g EXCEPT !.parent = q]
    BY DEF Union
  <2> HIDE DEF q
  <2> QED BY <1>0, <2>1
<1> HIDE DEF fa, fb
<1>5. /\ top \in Parents(n) /\ top[a] \in 1 .. n /\ top[b] \in 1 .. n
      /\ fb.parent[top[a]] = top[a] /\ fb.parent[top[b]] = top[b]
  BY <1>3 DEF Tree, Rooted, Parents
<1>6. q = [fb.parent EXCEPT ![top[a]] = top[b]]
  BY <1>2, <1>3
<1> HIDE DEF q
<1>7. PICK low : Tree(n, q, low, Onto(n, top, top[a], top[b]))
  BY <1>3, <1>5, <1>6, AttachMoves
<1>8. Splits(n, Onto(n, top, top[a], top[b]), E \cup {<<a, b>>})
  BY <1>0, <1>1, <1>5, MergeSplits DEF Holds
<1>9. E \cup {<<a, b>>} \in SUBSET Edges(n)
  BY <1>0 DEF Holds, Edges
<1>10. Holds(n, q, E \cup {<<a, b>>})
  BY <1>7, <1>8, <1>9 DEF Holds
<1>11. /\ Union(g, a, b).parent = q /\ Union(g, a, b).active = g.active
       /\ Union(g, a, b).owner = g.owner
  BY <1>4
<1> QED BY <1>4, <1>10, <1>11 DEF OnlyJoins

-----------------------------------------------------------------------------
(* What a graph records: methods of 1 .. n that use members (pairs of a    *)
(* method and a member) and that call each other (pairs of methods).       *)

Sharing(n, uses) ==
    {e \in Edges(n) : \E u \in uses : u[1] = e[1] /\ <<e[2], u[2]>> \in uses}

Joined(n, uses, callees) == callees \cup Sharing(n, uses)

Counted(n, uses, callees) ==
    {i \in 1 .. n : \/ \E u \in uses : u[1] = i
                    \/ \E e \in callees : i \in {e[1], e[2]}}

Records(n, g, uses, callees) ==
    /\ \A u \in uses : u[1] \in 1 .. n /\ u = <<u[1], u[2]>>
    /\ callees \in SUBSET Edges(n)
    /\ g = [parent |-> g.parent, active |-> g.active, owner |-> g.owner]
    /\ Holds(n, g.parent, Joined(n, uses, callees))
    /\ g.active = Counted(n, uses, callees)
    /\ DOMAIN g.owner = {u[2] : u \in uses}
    /\ \A m \in DOMAIN g.owner : <<g.owner[m], m>> \in uses

\* The trees hold more edges if those link nothing new.
LEMMA HoldsEnough ==
    ASSUME NEW n \in Nat, NEW p, NEW F \in SUBSET Edges(n), NEW E \in SUBSET F,
           Holds(n, p, E), \A e \in F : e[2] \in Linked(E, e[1])
    PROVE  Holds(n, p, F)
<1>1. \A x \in 1 .. n : Linked(F, x) = Linked(E, x)
  BY LinkedEnough
<1>2. PICK rank, top : Tree(n, p, rank, top) /\ Splits(n, top, E)
  BY DEF Holds
<1>3. Splits(n, top, F)
  BY <1>1, <1>2 DEF Splits
<1> QED BY <1>2, <1>3 DEF Holds

\* A new graph records nothing.
LEMMA NewRecords ==
    ASSUME NEW n \in Nat
    PROVE  Records(n, NewGraph(n), {}, {})
<1> DEFINE id == [i \in 1 .. n |-> i]
           zero == [i \in 1 .. n |-> 0]
<1>1. /\ NewGraph(n) = [parent |-> id, active |-> {}, owner |-> <<>>]
      /\ NewGraph(n).parent = id /\ NewGraph(n).active = {} /\ NewGraph(n).owner = <<>>
  BY DEF NewGraph
<1>2. Tree(n, id, zero, id)
  BY DEF Tree, Parents, Falls, Rooted
<1>3. \A x \in 1 .. n : Linked({}, x) = {x}
  <2> SUFFICES ASSUME NEW x \in 1 .. n PROVE Linked({}, x) = {x}
    OBVIOUS
  <2>1. {} \in SUBSET Edges(n) /\ Respects({}, {x})
    BY DEF Respects
  <2> QED BY <2>1, LinkedLeast
<1>4. Splits(n, id, {})
  BY <1>3 DEF Splits
<1>5. Joined(n, {}, {}) = {} /\ Counted(n, {}, {}) = {}
  BY DEF Joined, Sharing, Counted
<1> HIDE DEF id, zero
<1>6. Holds(n, id, {})
  BY <1>2, <1>4 DEF Holds
<1>7. DOMAIN <<>> = {}
  OBVIOUS
<1> QED BY <1>1, <1>5, <1>6, <1>7 DEF Records

\* A call adds an edge between the two methods.
LEMMA CallRecords ==
    ASSUME NEW n \in Nat, NEW g, NEW uses, NEW callees, Records(n, g, uses, callees),
           NEW i \in 1 .. n, NEW j \in 1 .. n
    PROVE  Records(n, Call(g, i, j), uses, callees \cup {<<i, j>>})
<1> DEFINE h == [g EXCEPT !.active = @ \cup {i, j}]
           more == callees \cup {<<i, j>>}
<1>1. /\ h = [parent |-> g.parent, active |-> g.active \cup {i, j}, owner |-> g.owner]
      /\ h.parent = g.parent /\ h.active = g.active \cup {i, j} /\ h.owner = g.owner
  <2>1. g = [parent |-> g.parent, active |-> g.active, owner |-> g.owner]
    BY DEF Records
  <2> QED BY <2>1
<1>2. Call(g, i, j) = Union(h, i, j)
  BY DEF Call
<1> HIDE DEF h
<1>3. /\ Holds(n, Union(h, i, j).parent, Joined(n, uses, callees) \cup {<<i, j>>})
      /\ Union(h, i, j).active = h.active /\ Union(h, i, j).owner = h.owner
      /\ Union(h, i, j) = [parent |-> Union(h, i, j).parent, active |-> h.active,
                           owner |-> h.owner]
  <2> DEFINE E == Joined(n, uses, callees)
  <2>1. OnlyJoins(n, h, h, E)
    BY <1>1 DEF Records, OnlyJoins
  <2> HIDE DEF E
  <2>2. OnlyJoins(n, h, Union(h, i, j), E \cup {<<i, j>>})
    BY <2>1, UnionHolds
  <2> QED BY <2>2 DEF OnlyJoins, E
<1>4. Joined(n, uses, more) = Joined(n, uses, callees) \cup {<<i, j>>}
  BY DEF Joined
<1>5. Counted(n, uses, more) = Counted(n, uses, callees) \cup {i, j}
  <2>1. \A k : (\E e \in more : k \in {e[1], e[2]}) <=>
                 (k \in {i, j} \/ \E e \in callees : k \in {e[1], e[2]})
    <3>1. <<i, j>>[1] = i /\ <<i, j>>[2] = j
      OBVIOUS
    <3>2. \A e : e \in more <=> (e \in callees \/ e = <<i, j>>)
      OBVIOUS
    <3> HIDE DEF more
    <3> QED BY <3>1, <3>2
  <2> HIDE DEF more
  <2> QED BY <2>1 DEF Counted
<1>6. more \in SUBSET Edges(n)
  BY DEF Records, Edges
<1> HIDE DEF more
<1> QED BY <1>1, <1>2, <1>3, <1>4, <1>5, <1>6 DEF Records, more

\* A use joins a method to all that use the same member: to the first of them,
\* and through it to the others.
LEMMA UseRecords ==
    ASSUME NEW n \in Nat, NEW g, NEW uses, NEW callees, Records(n, g, uses, callees),
           NEW i \in 1 .. n, NEW m
    PROVE  Records(n, Use(g, i, m), uses \cup {<<i, m>>}, callees)
<1> DEFINE h == [g EXCEPT !.active = @ \cup {i}]
           more == uses \cup {<<i, m>>}
           E == Joined(n, uses, callees)
           F == Joined(n, more, callees)
<1>1. /\ h = [parent |-> g.parent, active |-> g.active \cup {i}, owner |-> g.owner]
      /\ h.parent = g.parent /\ h.active = g.active \cup {i} /\ h.owner = g.owner
  <2>1. g = [parent |-> g.parent, active |-> g.active, owner |-> g.owner]
    BY DEF Records
  <2> QED BY <2>1
<1>2. Use(g, i, m) = IF m \in DOMAIN g.owner THEN Union(h, i, g.owner[m])
                     ELSE [h EXCEPT !.owner = [z \in DOMAIN @ \cup {m} |->
                                                 IF z = m THEN i ELSE @[z]]]
  BY DEF Use
<1> HIDE DEF h
<1>3. /\ <<i, m>>[1] = i /\ <<i, m>>[2] = m
      /\ \A u \in more : u[1] \in 1 .. n /\ u = <<u[1], u[2]>>
  BY DEF Records
<1>4. Counted(n, more, callees) = Counted(n, uses, callees) \cup {i}
  BY <1>3 DEF Counted
<1>5. {u[2] : u \in more} = {u[2] : u \in uses} \cup {m}
  BY <1>3
<1>6. /\ E \in SUBSET Edges(n) /\ F \in SUBSET Edges(n) /\ E \subseteq F
      /\ Holds(n, g.parent, E) /\ callees \in SUBSET Edges(n)
  BY DEF Records, Joined, Sharing
<1>7. \A e \in F : \/ e \in E
                   \/ e[1] = i /\ (e[2] = i \/ <<e[2], m>> \in uses)
                   \/ e[2] = i /\ <<e[1], m>> \in uses
  <2> SUFFICES ASSUME NEW e \in F, e \notin E
               PROVE  \/ e[1] = i /\ (e[2] = i \/ <<e[2], m>> \in uses)
                      \/ e[2] = i /\ <<e[1], m>> \in uses
    OBVIOUS
  <2>1. PICK u \in more : u[1] = e[1] /\ <<e[2], u[2]>> \in more
    BY DEF Joined, Sharing
  <2>2. u = <<e[1], u[2]>>
    BY <1>3, <2>1
  <2>3. e \in Edges(n)
    BY <1>6
  <2>4. CASE u \in uses
    <3>1. <<e[2], u[2]>> \notin uses
      BY <2>1, <2>3, <2>4 DEF Joined, Sharing
    <3>2. e[2] = i /\ u[2] = m
      BY <2>1, <3>1
    <3> QED BY <2>2, <2>4, <3>2
  <2>5. CASE u = <<i, m>>
    BY <2>1, <2>5
  <2> QED BY <2>4, <2>5
<1> HIDE DEF more, E, F
<1>8. \A k \in 1 .. n : OnlyJoins(n, h, Union(h, i, k), E \cup {<<i, k>>})
  <2>1. OnlyJoins(n, h, h, E)
    BY <1>1, <1>6 DEF OnlyJoins
  <2> QED BY <2>1, UnionHolds
<1>9. CASE m \in DOMAIN g.owner
  <2> DEFINE o == g.owner[m]
             D == E \cup {<<i, o>>}
  <2>1. <<o, m>> \in uses /\ o \in 1 .. n
    <3>1. <<o, m>> \in uses
      BY <1>9 DEF Records
    <3>2. <<o, m>>[1] = o
      OBVIOUS
    <3> QED BY <3>1, <3>2 DEF Records
  <2>2. Use(g, i, m) = Union(h, i, o)
    BY <1>2, <1>9
  <2> HIDE DEF o
  <2>3. /\ Holds(n, Union(h, i, o).parent, E \cup {<<i, o>>})
        /\ Union(h, i, o).active = h.active /\ Union(h, i, o).owner = h.owner
        /\ Union(h, i, o) = [parent |-> Union(h, i, o).parent, active |-> h.active,
                             owner |-> h.owner]
    BY <1>8, <2>1 DEF OnlyJoins
  <2>4. D \in SUBSET Edges(n) /\ E \subseteq D /\ <<i, o>> \in D
    BY <1>6, <2>1 DEF Edges
  <2>5. D \subseteq F /\ Holds(n, Union(h, i, o).parent, D)
    <3>1. <<i, o>> \in Edges(n) /\ <<i, m>> \in more /\ <<o, m>> \in more
      BY <2>1 DEF Edges, more
    <3>2. <<i, o>>[1] = i /\ <<i, o>>[2] = o
      OBVIOUS
    <3>3. <<i, o>> \in F
      BY <1>3, <3>1, <3>2 DEF F, Joined, Sharing
    <3> QED BY <1>6, <2>3, <3>3
  <2> HIDE DEF D
  <2>6. \A x \in 1 .. n : \A y \in Linked(D, x) : y \in 1 .. n /\ Linked(D, y) = Linked(D, x)
    BY <2>4, LinkedLeast, LinkedClasses
  <2>7. \A e \in D : e[1] \in 1 .. n /\ e[2] \in 1 .. n /\ Linked(D, e[1]) = Linked(D, e[2])
    <3> SUFFICES ASSUME NEW e \in D
                 PROVE  e[1] \in 1 .. n /\ e[2] \in 1 .. n /\ Linked(D, e[1]) = Linked(D, e[2])
      OBVIOUS
    <3>1. e[1] \in 1 .. n /\ e[2] \in 1 .. n
      BY <2>4 DEF Edges
    <3>2. Respects(D, Linked(D, e[1])) /\ e[1] \in Linked(D, e[1])
      BY <2>4, <3>1, LinkedLeast
    <3>3. e[2] \in Linked(D, e[1])
      BY <3>2 DEF Respects
    <3> QED BY <2>6, <3>1, <3>3
  <2>8. Linked(D, i) = Linked(D, o)
    <3>1. <<i, o>>[1] = i /\ <<i, o>>[2] = o
      OBVIOUS
    <3> QED BY <2>4, <2>7, <3>1
  <2>9. \A k \in 1 .. n : <<k, m>> \in uses => Linked(D, k) = Linked(D, o)
    <3> SUFFICES ASSUME NEW k \in 1 .. n, <<k, m>> \in uses
                 PROVE  Linked(D, k) = Linked(D, o)
      OBVIOUS
    <3>1. /\ <<o, k>> \in Edges(n) /\ <<o, k>>[1] = o /\ <<o, k>>[2] = k
          /\ <<o, m>>[1] = o /\ <<o, m>>[2] = m
      BY <2>1 DEF Edges
    <3>2. <<o, k>> \in E
      BY <2>1, <3>1 DEF E, Joined, Sharing
    <3> QED BY <2>4, <2>7, <3>1, <3>2
  <2>10. \A e \in F : e[2] \in Linked(D, e[1])
    <3> SUFFICES ASSUME NEW e \in F PROVE e[2] \in Linked(D, e[1])
      OBVIOUS
    <3>1. e[1] \in 1 .. n /\ e[2] \in 1 .. n
      BY <1>6 DEF Edges
    <3>2. Linked(D, e[1]) = Linked(D, e[2])
      BY <1>7, <2>4, <2>7, <2>8, <2>9, <3>1
    <3> QED BY <2>4, <3>1, <3>2, LinkedLeast
  <2>11. Holds(n, Union(h, i, o).parent, F)
    BY <1>6, <2>5, <2>10, HoldsEnough
  <2>12. {u[2] : u \in uses} \cup {m} = {u[2] : u \in uses}
    BY <1>9 DEF Records
  <2>13. /\ g.active = Counted(n, uses, callees)
         /\ DOMAIN g.owner = {u[2] : u \in uses}
         /\ \A z \in DOMAIN g.owner : <<g.owner[z], z>> \in more
    BY DEF Records, more
  <2> QED BY <1>1, <1>3, <1>4, <1>5, <1>6, <2>2, <2>3, <2>11, <2>12, <2>13 DEF Records, more, F
<1>10. CASE m \notin DOMAIN g.owner
  <2> DEFINE owner == [z \in DOMAIN g.owner \cup {m} |-> IF z = m THEN i ELSE g.owner[z]]
  <2>1. Use(g, i, m) = [parent |-> g.parent, active |-> g.active \cup {i}, owner |-> owner]
    BY <1>1, <1>2, <1>10
  <2>2. \A k : <<k, m>> \notin uses
    <3> SUFFICES ASSUME NEW k, <<k, m>> \in uses PROVE FALSE
      OBVIOUS
    <3>1. <<k, m>>[2] = m
      OBVIOUS
    <3> QED BY <1>10, <3>1 DEF Records
  <2>3. \A e \in F : e[2] \in Linked(E, e[1])
    <3> SUFFICES ASSUME NEW e \in F PROVE e[2] \in Linked(E, e[1])
      OBVIOUS
    <3>1. e[1] \in 1 .. n /\ e[2] \in 1 .. n
      BY <1>6 DEF Edges
    <3>2. Respects(E, Linked(E, e[1])) /\ e[1] \in Linked(E, e[1])
      BY <1>6, <3>1, LinkedLeast
    <3> QED BY <1>7, <2>2, <3>2 DEF Respects
  <2>4. Holds(n, g.parent, F)
    BY <1>6, <2>3, HoldsEnough
  <2>5. /\ DOMAIN owner = DOMAIN g.owner \cup {m}
        /\ \A z \in DOMAIN owner : <<owner[z], z>> \in more
    BY <1>10 DEF Records, more
  <2>6. g.active = Counted(n, uses, callees) /\ DOMAIN g.owner = {u[2] : u \in uses}
    BY DEF Records
  <2> HIDE DEF owner
  <2> DEFINE q == Use(g, i, m)
  <2>7. /\ q = [parent |-> q.parent, active |-> q.active, owner |-> q.owner]
        /\ q.parent = g.parent /\ q.active = g.active \cup {i} /\ q.owner = owner
    BY <2>1
  <2> HIDE DEF q
  <2>8. Records(n, q, more, callees)
    BY <1>3, <1>4, <1>5, <1>6, <2>4, <2>5, <2>6, <2>7 DEF Records, F
  <2> QED BY <2>8 DEF more, q
<1> QED BY <1>9, <1>10

\* What is counted is the components of the methods that use or call.
THEOREM CountsComponents ==
    ASSUME NEW n \in Nat, NEW g, NEW uses, NEW callees, Records(n, g, uses, callees)
    PROVE  Components(g) =
             IF Counted(n, uses, callees) = {} THEN 1
             ELSE Cardinality({Linked(Joined(n, uses, callees), i) : i \in Counted(n, uses, callees)})
<1> DEFINE A == Counted(n, uses, callees)
           E == Joined(n, uses, callees)
           roots == {Find(g.parent, i).root : i \in A}
           parts == {Linked(E, i) : i \in A}
<1>1. A \subseteq 1 .. n /\ g.active = A
  BY DEF Records, Counted
<1>2. PICK rank, top : Tree(n, g.parent, rank, top) /\ Splits(n, top, E)
  BY DEF Records, Holds
<1>3. \A i \in A : Find(g.parent, i).root = top[i]
  BY <1>1, <1>2, FindsRoot
<1>4. \A i, j \in A : top[i] = top[j] <=> Linked(E, i) = Linked(E, j)
  BY <1>1, <1>2 DEF Splits
<1>5. Components(g) = IF roots = {} THEN 1 ELSE Cardinality(roots)
  BY <1>1 DEF Components
<1>6. roots = {top[i] : i \in A}
  BY <1>3
<1> HIDE DEF E, A, roots
<1>7. roots = {} <=> A = {}
  BY <1>6
<1>8. IsFiniteSet(roots)
  <2>1. roots \subseteq 1 .. n
    BY <1>1, <1>2, <1>6 DEF Tree, Rooted, Parents
  <2>2. IsFiniteSet(1 .. n)
    BY FS_Interval
  <2> QED BY <2>1, <2>2, FS_Subset
<1>9. ExistsBijection(roots, parts)
  <2> DEFINE part == [r \in roots |-> Linked(E, CHOOSE i \in A : top[i] = r)]
  <2>1. \A i \in A : part[top[i]] = Linked(E, i)
    <3> SUFFICES ASSUME NEW i \in A PROVE part[top[i]] = Linked(E, i)
      OBVIOUS
    <3> DEFINE j == CHOOSE j \in A : top[j] = top[i]
    <3>1. j \in A /\ top[j] = top[i]
      OBVIOUS
    <3>2. part[top[i]] = Linked(E, j)
      BY <1>6
    <3> HIDE DEF j, part
    <3> QED BY <1>4, <3>1, <3>2
  <2>2. DOMAIN part = roots
    OBVIOUS
  <2>3. part \in [roots -> parts]
    <3>1. \A r \in roots : part[r] \in parts
      <4> HIDE DEF part
      <4> QED BY <1>6, <2>1
    <3>2. part = [r \in roots |-> part[r]]
      OBVIOUS
    <3> HIDE DEF part, parts
    <3> QED BY <3>1, <3>2
  <2> HIDE DEF part
  <2>4. part \in Injection(roots, parts)
    <3>1. \A r, s \in roots : part[r] = part[s] => r = s
      BY <1>4, <1>6, <2>1
    <3> QED BY <2>3, <3>1 DEF Injection, IsInjective
  <2>5. part \in Surjection(roots, parts)
    <3>1. \A q \in parts : \E r \in roots : part[r] = q
      BY <1>6, <2>1
    <3> QED BY <2>3, <3>1 DEF Surjection
  <2> QED BY <2>4, <2>5 DEF ExistsBijection, Bijection
<1>10. Cardinality(parts) = Cardinality(roots)
  <2> HIDE DEF parts
  <2> QED BY <1>8, <1>9, FS_Bijection
<1> QED BY <1>5, <1>7, <1>10 DEF A, E

\* One step of building a graph: a method uses a member, or calls a method.
Adds(n, Members, g, uses, callees, next, moreUses, moreCallees) ==
    \E i \in 1 .. n :
        \/ \E m \in Members : /\ next = Use(g, i, m)
                              /\ moreUses = uses \cup {<<i, m>>} /\ moreCallees = callees
        \/ \E j \in 1 .. n : /\ next = Call(g, i, j)
                             /\ moreUses = uses /\ moreCallees = callees \cup {<<i, j>>}

\* Whatever the order in which the uses and calls of a class are added to a new
\* graph, lcom4 counts the components of what they join.
THEOREM AnyOrderCounts ==
    ASSUME NEW n \in Nat, NEW Members, NEW k \in Nat, NEW g, NEW uses, NEW callees,
           g[0] = NewGraph(n), uses[0] = {}, callees[0] = {},
           \A t \in 0 .. k - 1 : Adds(n, Members, g[t], uses[t], callees[t],
                                         g[t + 1], uses[t + 1], callees[t + 1])
    PROVE  Components(g[k]) =
             IF Counted(n, uses[k], callees[k]) = {} THEN 1
             ELSE Cardinality({Linked(Joined(n, uses[k], callees[k]), i) :
                                 i \in Counted(n, uses[k], callees[k])})
<1> DEFINE Sound == {t \in 0 .. k : Records(n, g[t], uses[t], callees[t])}
<1>1. 0 \in Sound
  BY NewRecords
<1>2. \A t \in 0 .. k - 1 : t \in Sound => t + 1 \in Sound
  <2> SUFFICES ASSUME NEW t \in 0 .. k - 1, Records(n, g[t], uses[t], callees[t])
               PROVE  Records(n, g[t + 1], uses[t + 1], callees[t + 1])
    OBVIOUS
  <2>1. PICK i \in 1 .. n :
           \/ \E m \in Members : /\ g[t + 1] = Use(g[t], i, m)
                                 /\ uses[t + 1] = uses[t] \cup {<<i, m>>}
                                 /\ callees[t + 1] = callees[t]
           \/ \E j \in 1 .. n : /\ g[t + 1] = Call(g[t], i, j) /\ uses[t + 1] = uses[t]
                                /\ callees[t + 1] = callees[t] \cup {<<i, j>>}
    BY DEF Adds
  <2> DEFINE now == g[t]
             used == uses[t]
             called == callees[t]
  <2>2. Records(n, now, used, called)
    OBVIOUS
  <2> HIDE DEF now, used, called
  <2>3. /\ \A m \in Members : Records(n, Use(now, i, m), used \cup {<<i, m>>}, called)
        /\ \A j \in 1 .. n : Records(n, Call(now, i, j), used, called \cup {<<i, j>>})
    BY <2>2, UseRecords, CallRecords
  <2> QED BY <2>1, <2>3 DEF now, used, called
<1>3. Records(n, g[k], uses[k], callees[k])
  <2> HIDE DEF Sound
  <2>1. \A t \in 0 .. k : t \in Sound
    <3>1. 0 \in Nat /\ k \in Nat
      OBVIOUS
    <3> QED BY ONLY <1>1, <1>2, <3>1, Inductive
  <2> QED BY <2>1 DEF Sound
<1> DEFINE last == g[k]
           used == uses[k]
           called == callees[k]
<1>4. Records(n, last, used, called)
  BY <1>3
<1> HIDE DEF last, used, called
<1>5. Components(last) = IF Counted(n, used, called) = {} THEN 1
                         ELSE Cardinality({Linked(Joined(n, used, called), i) :
                                             i \in Counted(n, used, called)})
  BY <1>4, CountsComponents
<1> QED BY <1>5 DEF last, used, called
=============================================================================
