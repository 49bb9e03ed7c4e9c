-------------------------- MODULE EffectGraph_proof --------------------------
(***************************************************************************)
(* Proofs about the effect analysis: the graph and the facts are well      *)
(* formed, facts only grow, and when the sweeps end the facts are closed   *)
(* under every call of the graph, whatever the program.                    *)
(***************************************************************************)
EXTENDS EffectGraph, SequenceFacts_proof

-----------------------------------------------------------------------------
(* Finite images *)

\* The values of a function with a finite domain.
LEMMA FiniteImage ==
    ASSUME NEW g, NEW S, IsFiniteSet(S)
    PROVE  IsFiniteSet({g[x] : x \in S})
<1> DEFINE T == {g[x] : x \in S}
           h == [x \in S |-> g[x]]
<1>1. h \in Surjection(S, T)
  BY DEF Surjection
<1> HIDE DEF h, T
<1>2. IsFiniteSet(T)
  BY <1>1, FS_Surjection
<1> QED BY <1>2 DEF T

\* A sequence has finitely many elements.
LEMMA FiniteRange ==
    ASSUME NEW S, NEW s \in Seq(S)
    PROVE  IsFiniteSet(Range(s)) /\ Range(s) \subseteq S
<1>1. Range(s) = {s[i] : i \in 1 .. Len(s)} /\ Len(s) \in Nat /\ Range(s) \subseteq S
  BY DEF Range
<1>2. IsFiniteSet(1 .. Len(s))
  BY <1>1, FS_Interval
<1> QED BY <1>1, <1>2, FiniteImage

-----------------------------------------------------------------------------
(* The program *)

Callable == DOMAIN prog.funcs
Variable == DOMAIN prog.vars
Expr == prog.exprs
IsNamed(f) == f \in Callable /\ Fn(f).parent = NoFunc
IsLiteral(f) == f \in Callable /\ Fn(f).parent # NoFunc

\* What the assumption about programs says of the one that is analysed.
LEMMA ProgramFacts ==
    ASSUME prog \in Programs
    PROVE  /\ IsFiniteSet(Callable) /\ IsFiniteSet(Expr) /\ NoFunc \notin Callable
           /\ NoVar \notin Variable /\ [kind |-> "other"] \in Expr
           /\ \A f \in prog.roots : IsNamed(f)
           /\ \A f \in Callable : f \in Declared(prog) <=> IsNamed(f)
           /\ \A f \in Callable : f \in Literals(prog) <=> IsLiteral(f)
           /\ \A f \in Literals(prog) : f \in Callable
           /\ \A f \in Declared(prog) : f \in Callable
<1>1. /\ IsFiniteSet(DOMAIN prog.funcs) /\ IsFiniteSet(prog.exprs)
      /\ prog.roots \subseteq Declared(prog) /\ NoFunc \notin DOMAIN prog.funcs
      /\ NoVar \notin DOMAIN prog.vars /\ [kind |-> "other"] \in prog.exprs
  BY ProgramsAssumption
<1> QED BY <1>1 DEF Callable, Variable, Expr, IsNamed, IsLiteral, Declared, Literals, Fn

LEMMA ExpressionFacts ==
    ASSUME prog \in Programs, NEW e \in Expr
    PROVE  /\ HasRoot(e) => /\ e.var \in Variable
                            /\ [kind |-> "var", var |-> e.var] \in Expr
                            /\ [kind |-> "part", var |-> e.var] \in Expr
           /\ e.kind = "lit" => IsLiteral(e.fn)
           /\ e.kind \in {"func", "call", "method"} => IsNamed(e.fn)
           /\ e.kind = "call" => e.args \in Seq(Expr)
           /\ e.kind = "method" => /\ e.recv \in Expr /\ e.recv.kind # "method" /\ e.typed \in BOOLEAN
                                   /\ \A x \in Expr : x.kind # "method" => [e EXCEPT !.recv = x] \in Expr
<1>1. IsExpression(prog, e)
  BY ProgramsAssumption DEF Expr
<1>2. \A k \in {"var", "part"} :
         HasRoot(e) => [kind |-> k, var |-> e.var] \in prog.exprs
  BY <1>1 DEF IsExpression
<1>3. /\ e.kind = "lit" => e.fn \in Literals(prog)
      /\ e.kind \in {"func", "call", "method"} => e.fn \in Declared(prog)
  BY <1>1 DEF IsExpression
<1>4. /\ e.kind = "lit" => IsLiteral(e.fn)
      /\ e.kind \in {"func", "call", "method"} => IsNamed(e.fn)
  BY <1>3 DEF Literals, Declared, IsLiteral, IsNamed, Callable, Fn
<1> QED BY <1>1, <1>2, <1>4 DEF IsExpression, Expr, Variable

LEMMA FunctionFacts ==
    ASSUME prog \in Programs, NEW f \in Callable
    PROVE  /\ Fn(f).params \in Seq(Variable) /\ Fn(f).variadic \in BOOLEAN /\ Fn(f).body \in BOOLEAN
           /\ Fn(f).receiver \in Variable \cup {NoVar} /\ Fn(f).owned \subseteq Variable
           /\ \A v \in Fn(f).tracked : v \in Variable /\ [kind |-> "var", var |-> v] \in Expr
           /\ Fn(f).returns \in Seq(Expr)
           /\ Fn(f).literals \in Seq(Literals(prog)) /\ IsInjective(Fn(f).literals)
           /\ Fn(f).direct \in [Kinds -> Seq({x \in EffectsOf(prog) : x.line > 0})]
           /\ Fn(f).sites \in Seq(SitesOf(prog))
           /\ \A e \in Expr : IsStorage(prog, StorageOf(prog, f, e))
<1>1. IsFunction(prog, Fn(f)) /\ \A e \in prog.exprs : IsStorage(prog, StorageOf(prog, f, e))
  BY ProgramsAssumption DEF Callable, Fn
<1> QED BY <1>1 DEF IsFunction, Expr, Variable

-----------------------------------------------------------------------------
(* The graph *)

\* Callables listed once each, a literal only with the function it belongs to.
Graphs ==
    {s \in Seq(Callable) :
        /\ IsInjective(s)
        /\ \A f \in Callable : \A l \in Range(Fn(f).literals) :
              IsNamed(f) /\ l \in Range(s) => f \in Range(s)}

\* A graph with more callables at its end.
Extends(s, t) == Len(s) <= Len(t) /\ \A i \in DOMAIN s : i \in DOMAIN t /\ t[i] = s[i]

\* A callable that may be added: none, one with a declaration or one that is there.
Addable(s, f) == f = NoFunc \/ IsNamed(f) \/ (IsLiteral(f) /\ f \in Range(s))

LEMMA ExtendsOrder ==
    /\ \A s : Extends(s, s) \/ ~ (Len(s) \in Nat)
    /\ \A s, t, u \in Seq(Callable) : Extends(s, t) /\ Extends(t, u) => Extends(s, u)
    /\ \A s, t \in Seq(Callable) : Extends(s, t) => Range(s) \subseteq Range(t)
<1>1. \A s : Len(s) \in Nat => Extends(s, s)
  BY DEF Extends
<1>2. \A s, t, u \in Seq(Callable) : Extends(s, t) /\ Extends(t, u) => Extends(s, u)
  <2> SUFFICES ASSUME NEW s \in Seq(Callable), NEW t \in Seq(Callable), NEW u \in Seq(Callable),
                      Extends(s, t), Extends(t, u)
               PROVE  Extends(s, u)
    OBVIOUS
  <2>1. Len(s) \in Nat /\ Len(t) \in Nat /\ Len(u) \in Nat
    OBVIOUS
  <2> QED BY <2>1 DEF Extends
<1>3. \A s, t : Extends(s, t) => Range(s) \subseteq Range(t)
  BY DEF Extends, Range
<1> QED BY <1>1, <1>2, <1>3

\* A subtree lists a declared function and its literals, each once.
LEMMA SubtreeFacts ==
    ASSUME prog \in Programs, NEW f, IsNamed(f)
    PROVE  /\ Subtree(f) \in Seq(Callable) /\ IsInjective(Subtree(f))
           /\ Range(Subtree(f)) = {f} \cup Range(Fn(f).literals)
<1> DEFINE ls == Fn(f).literals
           head == <<f>>
<1>1. f \in Callable /\ ls \in Seq(Literals(prog)) /\ IsInjective(ls)
  BY FunctionFacts DEF IsNamed
<1>2. Literals(prog) \subseteq Callable /\ f \notin Literals(prog)
  BY <1>1, ProgramFacts DEF IsLiteral, IsNamed
<1>3. ls \in Seq(Callable) /\ \A i \in DOMAIN ls : ls[i] # f
  BY <1>1, <1>2
<1>4. head \in Seq(Callable) /\ Len(head) = 1 /\ head[1] = f
  BY <1>1
<1>5. Subtree(f) = head \o ls
  BY DEF Subtree
<1> HIDE DEF ls, head
<1>6. /\ head \o ls \in Seq(Callable) /\ Len(head \o ls) = 1 + Len(ls) /\ Len(ls) \in Nat
      /\ \A i \in 1 .. 1 + Len(ls) : (head \o ls)[i] = IF i <= 1 THEN head[i] ELSE ls[i - 1]
  BY <1>3, <1>4, ConcatProperties, SMTT(30)
<1> DEFINE s == head \o ls
<1>7. DOMAIN s = 1 .. 1 + Len(ls) /\ DOMAIN ls = 1 .. Len(ls)
  BY <1>3, <1>6
<1> HIDE DEF s
<1>8. s[1] = f /\ \A i \in DOMAIN s : i # 1 => i - 1 \in DOMAIN ls /\ s[i] = ls[i - 1]
  BY <1>4, <1>6, <1>7 DEF s
<1>9. ASSUME NEW i \in DOMAIN s, NEW j \in DOMAIN s, s[i] = s[j] PROVE i = j
  <2>1. CASE i = 1 \/ j = 1
    BY <1>3, <1>8, <1>9, <2>1
  <2>2. CASE i # 1 /\ j # 1
    <3>1. ls[i - 1] = ls[j - 1] /\ i - 1 \in DOMAIN ls /\ j - 1 \in DOMAIN ls
      BY <1>8, <1>9, <2>2
    <3>2. i - 1 = j - 1
      BY <1>1, <3>1 DEF IsInjective, ls
    <3> QED BY <1>6, <1>7, <3>2
  <2> QED BY <2>1, <2>2
<1>10. Range(s) = {f} \cup Range(ls)
  <2>1. \A i \in DOMAIN ls : i + 1 \in DOMAIN s /\ i + 1 # 1 /\ (i + 1) - 1 = i
    BY <1>6, <1>7
  <2>2. \A i \in DOMAIN ls : s[i + 1] = ls[i]
    BY <1>8, <2>1
  <2>3. 1 \in DOMAIN s
    BY <1>6, <1>7
  <2> QED BY <1>8, <2>1, <2>2, <2>3 DEF Range
<1> QED BY <1>5, <1>6, <1>9, <1>10 DEF s, ls, IsInjective

LEMMA ContainsIsRange ==
    ASSUME NEW S, NEW s \in Seq(S), NEW f
    PROVE  Contains(s, f) <=> f \in Range(s)
<1>1. DOMAIN s = 1 .. Len(s)
  OBVIOUS
<1> QED BY <1>1 DEF Contains, Range

\* Adding a callable extends the graph.
LEMMA AddedExtends ==
    ASSUME prog \in Programs, NEW s \in Graphs, NEW f, Addable(s, f)
    PROVE  /\ Added(s, f) \in Graphs /\ Extends(s, Added(s, f))
           /\ f # NoFunc => f \in Range(Added(s, f))
<1>1. s \in Seq(Callable) /\ IsInjective(s) /\ Len(s) \in Nat /\ Extends(s, s)
  <2>1. s \in Seq(Callable) /\ IsInjective(s)
    BY DEF Graphs
  <2>2. Len(s) \in Nat
    BY <2>1
  <2> QED BY <2>1, <2>2, ExtendsOrder
<1>2. CASE f = NoFunc \/ f \in Range(s)
  <2>1. Added(s, f) = s
    BY <1>1, <1>2, ContainsIsRange DEF Added
  <2> QED BY <1>1, <1>2, <2>1
<1>3. CASE ~ (f = NoFunc \/ f \in Range(s))
  <2> DEFINE t == Subtree(f)
             u == s \o t
  <2>1. IsNamed(f) /\ f \in Callable
    BY <1>3 DEF Addable, IsNamed
  <2>2. Added(s, f) = u
    BY <1>1, <1>3, ContainsIsRange DEF Added
  <2>3. t \in Seq(Callable) /\ IsInjective(t) /\ Range(t) = {f} \cup Range(Fn(f).literals)
    BY <2>1, SubtreeFacts
  <2>4. \A x \in Range(s) : x \notin Range(t)
    BY <1>3, <2>1, <2>3 DEF Graphs
  <2> HIDE DEF t
  <2>5. /\ u \in Seq(Callable) /\ Len(u) = Len(s) + Len(t) /\ Len(t) \in Nat
        /\ \A i \in 1 .. Len(s) + Len(t) : u[i] = IF i <= Len(s) THEN s[i] ELSE t[i - Len(s)]
        /\ Range(u) = Range(s) \cup Range(t)
    BY <1>1, <2>3, ConcatProperties, RangeConcatenation
  <2> HIDE DEF u
  <2>6. DOMAIN u = 1 .. Len(s) + Len(t) /\ DOMAIN s = 1 .. Len(s) /\ DOMAIN t = 1 .. Len(t)
    BY <1>1, <2>3, <2>5
  <2>7. Extends(s, u)
    BY <1>1, <2>5, <2>6 DEF Extends
  <2>8. ASSUME NEW i \in DOMAIN u
        PROVE  \/ i \in DOMAIN s /\ u[i] = s[i] /\ u[i] \in Range(s)
               \/ i \notin DOMAIN s /\ i - Len(s) \in DOMAIN t /\ u[i] = t[i - Len(s)] /\ u[i] \in Range(t)
    BY <1>1, <2>5, <2>6 DEF Range
  <2>9. IsInjective(u)
    <3> SUFFICES ASSUME NEW i \in DOMAIN u, NEW j \in DOMAIN u, u[i] = u[j] PROVE i = j
      BY DEF IsInjective
    <3>1. CASE i \in DOMAIN s /\ j \in DOMAIN s
      BY <1>1, <2>8, <3>1 DEF IsInjective
    <3>2. CASE i \notin DOMAIN s /\ j \notin DOMAIN s
      <4>1. t[i - Len(s)] = t[j - Len(s)] /\ i - Len(s) \in DOMAIN t /\ j - Len(s) \in DOMAIN t
        BY <2>8, <3>2
      <4>2. i - Len(s) = j - Len(s)
        BY <2>3, <4>1 DEF IsInjective
      <4> QED BY <1>1, <2>6, <4>2
    <3>3. CASE i \in DOMAIN s /\ j \notin DOMAIN s
      BY <2>4, <2>8, <3>3
    <3>4. CASE i \notin DOMAIN s /\ j \in DOMAIN s
      BY <2>4, <2>8, <3>4
    <3> QED BY <3>1, <3>2, <3>3, <3>4
  <2>10. ASSUME NEW d \in Callable, NEW l \in Range(Fn(d).literals), IsNamed(d), l \in Range(u)
         PROVE  d \in Range(u)
    <3>1. CASE l \in Range(s)
      BY <2>5, <2>10, <3>1 DEF Graphs
    <3>2. CASE l = f
      <4>1. l \in Literals(prog)
        <5>1. Fn(d).literals \in Seq(Literals(prog))
          BY FunctionFacts
        <5> QED BY <5>1 DEF Range
      <4> QED BY <2>1, <3>2, <4>1, ProgramFacts DEF IsLiteral, IsNamed
    <3>3. CASE l \in Range(Fn(f).literals)
      <4>1. f \in Declared(prog) /\ d \in Declared(prog)
        BY <2>1, <2>10, ProgramFacts
      <4>2. f # d => ToSet(Fn(f).literals) \cap ToSet(Fn(d).literals) = {}
        BY <4>1, ProgramsAssumption DEF Fn
      <4>3. f = d
        BY <2>10, <3>3, <4>2 DEF ToSet, Range
      <4> QED BY <2>3, <2>5, <4>3
    <3> QED BY <2>3, <2>5, <2>10, <3>1, <3>2, <3>3
  <2>11. u \in Graphs
    BY <2>5, <2>9, <2>10 DEF Graphs
  <2> QED BY <2>2, <2>3, <2>5, <2>7, <2>11
<1> QED BY <1>2, <1>3

\* The graph starts as the subtree of a function.
LEMMA SubtreeIsGraph ==
    ASSUME prog \in Programs, NEW f, IsNamed(f)
    PROVE  Subtree(f) \in Graphs /\ f \in Range(Subtree(f))
<1>1. <<>> \in Graphs
  BY DEF Graphs, Range, IsInjective
<1>2. f # NoFunc /\ f \in Callable
  BY ProgramFacts DEF IsNamed
<1>3. ~ Contains(<<>>, f)
  BY DEF Contains
<1>4. Added(<<>>, f) = <<>> \o Subtree(f)
  BY <1>2, <1>3 DEF Added
<1>5. Added(<<>>, f) = Subtree(f)
  BY <1>4, SubtreeFacts, ConcatEmptySeq
<1>6. Addable(<<>>, f)
  BY DEF Addable
<1> QED BY <1>1, <1>2, <1>5, <1>6, AddedExtends

-----------------------------------------------------------------------------
(* Resolution *)

Results == [fn : Callable \cup {NoFunc}, nodes : Seq(Callable)]
Inner == [Query -> Results]

\* The query of the i-th result of f, after the ones before it.
ResultQuery(q, f, i, prior) ==
    [expr |-> Fn(f).returns[i], returning |-> q.returning \cup {f}, nodes |-> prior.nodes]

\* What the results up to the i-th denote.
Chosen(q, f, inner, i, prior) ==
    LET next == inner[ResultQuery(q, f, i, prior)]
    IN  IF i > 1 /\ prior.fn = NoFunc THEN prior
        ELSE IF i > 1 /\ next.fn # prior.fn THEN Found(NoFunc, next.nodes)
        ELSE next

\* The result of a function is chosen from its results one by one.
Chooses(q, f, inner, choose) ==
    /\ Returned(q, f, inner) = choose[Len(Fn(f).returns)]
    /\ choose[0] = Found(NoFunc, Added(q.nodes, f))
    /\ \A i \in 1 .. Len(Fn(f).returns) : choose[i] = Chosen(q, f, inner, i, choose[i - 1])

LEMMA AddedTyped ==
    ASSUME prog \in Programs, NEW s \in Seq(Callable), NEW f \in Callable \cup {NoFunc}
    PROVE  Added(s, f) \in Seq(Callable)
<1>1. CASE f = NoFunc
  BY <1>1 DEF Added
<1>2. CASE f # NoFunc
  <2>1. f \in Callable /\ Fn(f).literals \in Seq(Literals(prog))
    BY <1>2, FunctionFacts
  <2>2. Fn(f).literals \in Seq(Callable)
    BY <2>1, ProgramFacts
  <2>3. Subtree(f) \in Seq(Callable)
    <3>1. <<f>> \in Seq(Callable)
      BY <2>1
    <3> QED BY <2>2, <3>1, ConcatProperties DEF Subtree
  <2>4. s \o Subtree(f) \in Seq(Callable)
    BY <2>3, ConcatProperties
  <2> QED BY <2>4 DEF Added
<1> QED BY <1>1, <1>2

LEMMA ChosenTyped ==
    ASSUME prog \in Programs, NEW q \in Query, NEW f \in Callable, NEW inner \in Inner,
           NEW i \in 1 .. Len(Fn(f).returns), NEW prior \in Results
    PROVE  ResultQuery(q, f, i, prior) \in Query /\ Chosen(q, f, inner, i, prior) \in Results
<1>1. Fn(f).returns[i] \in Expr
  BY FunctionFacts
<1>2. ResultQuery(q, f, i, prior) \in Query
  BY <1>1 DEF ResultQuery, Query, Results, Expr, Callable
<1>3. inner[ResultQuery(q, f, i, prior)] \in Results
  BY <1>2 DEF Inner
<1> HIDE DEF ResultQuery
<1> QED BY <1>2, <1>3 DEF Chosen, Results, Found

LEMMA ReturnedUnfolds ==
    ASSUME prog \in Programs, NEW q \in Query, NEW f \in Callable, NEW inner \in Inner
    PROVE  \E choose \in [0 .. Len(Fn(f).returns) -> Results] : Chooses(q, f, inner, choose)
<1> DEFINE n == Len(Fn(f).returns)
           a == Found(NoFunc, Added(q.nodes, f))
           G == [p \in (1 .. n) \X Results |-> Chosen(q, f, inner, p[1], p[2])]
           Is(g) == g = [i \in 0 .. n |-> IF i = 0 THEN a ELSE Chosen(q, f, inner, i, g[i - 1])]
           val == CHOOSE g : Is(g)
<1>1. n \in Nat
  BY FunctionFacts
<1>2. a \in Results
  BY AddedTyped DEF Found, Results, Query, Callable
<1>3. G \in [(1 .. n) \X Results -> Results]
  BY ChosenTyped
<1>4. Returned(q, f, inner) = val[n]
  BY DEF Returned, Chosen, ResultQuery
<1> HIDE DEF a
<1>5. PICK g : Builds(n, Results, a, G, g)
  <2> HIDE DEF G, n
  <2> QED BY ONLY <1>1, <1>2, <1>3, Recursion
<1>6. Is(g)
  <2>0. g \in [0 .. n -> Results] /\ g[0] = a /\ \A i \in 1 .. n : g[i] = G[<<i, g[i - 1]>>]
    BY <1>5 DEF Builds
  <2>1. \A i \in 1 .. n : i - 1 \in 0 .. n
    BY <1>1
  <2>2. \A i \in 1 .. n : g[i] = Chosen(q, f, inner, i, g[i - 1])
    BY <2>0, <2>1
  <2>3. \A i \in 0 .. n : g[i] = IF i = 0 THEN a ELSE Chosen(q, f, inner, i, g[i - 1])
    BY <1>1, <2>0, <2>2
  <2> HIDE DEF n
  <2> QED BY <2>0, <2>3
<1>7. Is(val)
  <2> HIDE DEF Is
  <2> QED BY <1>6
<1> HIDE DEF val
<1>8. /\ DOMAIN val = 0 .. n /\ val = [i \in 0 .. n |-> val[i]] /\ val[0] = a
      /\ \A i \in 1 .. n : val[i] = Chosen(q, f, inner, i, val[i - 1])
  <2> HIDE DEF n
  <2> QED BY <1>1, <1>7
<1>9. \A i \in 0 .. n : val[i] \in Results
  <2>1. \A i \in 1 .. n : val[i - 1] \in Results => val[i] \in Results
    BY <1>8, ChosenTyped
  <2> HIDE DEF n
  <2> QED BY <1>1, <1>2, <1>8, <2>1, Stays
<1>10. Chooses(q, f, inner, val)
  BY <1>4, <1>8 DEF Chooses, a
<1> QED BY <1>8, <1>9, <1>10

\* Following bindings leads from expressions to expressions.
LEMMA FollowedTyped ==
    ASSUME prog \in Programs, NEW e \in Expr
    PROVE  Followed(e) \subseteq Expr
<1> DEFINE S == {x \in Expr : x.kind = "var" /\ SingleBinding(x.var) /\ BindingExpression(x.var) \in Expr}
           g == [x \in S |-> <<x, BindingExpression(x.var)>>]
<1>1. IsFiniteSet(S)
  <2>1. S \in SUBSET Expr /\ IsFiniteSet(Expr)
    BY ProgramFacts
  <2> HIDE DEF S
  <2> QED BY <2>1, FS_Subset
<1>2. Bindings = {g[x] : x \in S}
  BY DEF Bindings, Expr
<1>3. IsFiniteSet(Bindings)
  <2> HIDE DEF S, g
  <2> QED BY <1>1, <1>2, FiniteImage
<1>4. Closed(Bindings, Expr)
  BY DEF Bindings, Closed, Expr
<1>5. Reach(Bindings, e) \subseteq Expr
  BY <1>3, <1>4, ReachLeast
<1> QED BY <1>5 DEF Followed

\* A result for a graph s: it extends s, and its callable may be added.
Kept(s, r) == r.nodes \in Graphs /\ Extends(s, r.nodes) /\ Addable(r.nodes, r.fn)

\* Whatever is resolved is.
Keeping(inner) == \A q \in Query : q.nodes \in Graphs => Kept(q.nodes, inner[q])

\* A declared function that an expression denotes does not depend on the graph.
Stable(inner) ==
    \A p, q \in Query :
        p.expr = q.expr /\ p.returning = q.returning /\ IsNamed(inner[p].fn)
            => inner[q].fn = inner[p].fn

LEMMA KeptSteps ==
    /\ \A s, r, t : r.nodes \in Graphs /\ s \in Graphs /\ Kept(s, r) /\ Kept(r.nodes, t) => Kept(s, t)
    /\ \A s \in Graphs : Kept(s, Found(NoFunc, s)) /\ Extends(s, s) /\ s \in Seq(Callable)
    /\ \A s, r : Kept(s, r) => Kept(s, Found(NoFunc, r.nodes))
<1>1. \A s \in Graphs : s \in Seq(Callable) /\ Extends(s, s)
  BY ExtendsOrder DEF Graphs
<1>2. \A s, r, t : r.nodes \in Graphs /\ s \in Graphs /\ Kept(s, r) /\ Kept(r.nodes, t) => Kept(s, t)
  <2> SUFFICES ASSUME NEW s \in Graphs, NEW r, NEW t, r.nodes \in Graphs, Kept(s, r), Kept(r.nodes, t)
               PROVE  Kept(s, t)
    OBVIOUS
  <2>1. /\ r.nodes \in Seq(Callable) /\ t.nodes \in Graphs /\ t.nodes \in Seq(Callable) /\ s \in Seq(Callable)
        /\ Extends(s, r.nodes) /\ Extends(r.nodes, t.nodes) /\ Addable(t.nodes, t.fn)
    BY <1>1 DEF Kept
  <2>2. Extends(s, t.nodes)
    BY <2>1, ExtendsOrder
  <2> QED BY <2>1, <2>2 DEF Kept
<1>3. \A s : Addable(s, NoFunc)
  BY DEF Addable
<1> QED BY <1>1, <1>2, <1>3 DEF Kept, Found

LEMMA ChosenKeeps ==
    ASSUME prog \in Programs, NEW q \in Query, NEW f \in Callable, NEW inner \in Inner, Keeping(inner),
           NEW i \in 1 .. Len(Fn(f).returns), NEW prior \in Results, q.nodes \in Graphs, Kept(q.nodes, prior)
    PROVE  Kept(q.nodes, Chosen(q, f, inner, i, prior))
<1> DEFINE next == inner[ResultQuery(q, f, i, prior)]
<1>1. ResultQuery(q, f, i, prior) \in Query /\ ResultQuery(q, f, i, prior).nodes = prior.nodes
  BY ChosenTyped DEF ResultQuery
<1>2. prior.nodes \in Graphs
  BY DEF Kept
<1>3. Kept(prior.nodes, next)
  BY <1>1, <1>2 DEF Keeping
<1>4. Kept(q.nodes, next) /\ Kept(q.nodes, Found(NoFunc, next.nodes))
  BY <1>2, <1>3, KeptSteps
<1> QED BY <1>4 DEF Chosen

LEMMA ReturnedKeeps ==
    ASSUME prog \in Programs, NEW q \in Query, NEW f, IsNamed(f), NEW inner \in Inner
    PROVE  /\ Returned(q, f, inner) \in Results
           /\ Keeping(inner) /\ q.nodes \in Graphs => Kept(q.nodes, Returned(q, f, inner))
<1> DEFINE n == Len(Fn(f).returns)
<1>1. f \in Callable /\ n \in Nat
  BY FunctionFacts DEF IsNamed
<1>2. PICK choose \in [0 .. n -> Results] : Chooses(q, f, inner, choose)
  BY <1>1, ReturnedUnfolds
<1>3. /\ Returned(q, f, inner) = choose[n]
      /\ choose[0] = Found(NoFunc, Added(q.nodes, f))
      /\ \A i \in 1 .. n : choose[i] = Chosen(q, f, inner, i, choose[i - 1])
  BY <1>2 DEF Chooses
<1>4. ASSUME Keeping(inner), q.nodes \in Graphs PROVE Kept(q.nodes, choose[n])
  <2> DEFINE D == {r \in Results : Kept(q.nodes, r)}
  <2>1. choose[0] \in D
    <3>1. Addable(q.nodes, f)
      BY DEF Addable
    <3>2. Added(q.nodes, f) \in Graphs /\ Extends(q.nodes, Added(q.nodes, f))
      BY <1>4, <3>1, AddedExtends
    <3>3. Kept(q.nodes, choose[0])
      BY <1>3, <3>2 DEF Kept, Found, Addable
    <3>4. choose[0] \in Results
      BY <1>1, <1>2
    <3> QED BY <3>3, <3>4
  <2>2. \A i \in 1 .. n : choose[i - 1] \in D => choose[i] \in D
    <3> SUFFICES ASSUME NEW i \in 1 .. n, choose[i - 1] \in D PROVE choose[i] \in D
      OBVIOUS
    <3>1. choose[i] \in Results
      BY <1>1, <1>2
    <3>2. Kept(q.nodes, Chosen(q, f, inner, i, choose[i - 1]))
      BY <1>1, <1>4, ChosenKeeps
    <3> QED BY <1>3, <3>1, <3>2
  <2>3. n \in 0 .. n
    BY <1>1
  <2> HIDE DEF n
  <2>4. choose[n] \in D
    <3> HIDE DEF D
    <3> QED BY <1>1, <2>1, <2>2, <2>3, Stays
  <2> QED BY <2>4
<1> QED BY <1>1, <1>2, <1>3, <1>4

\* The declared function that a function returns does not depend on the graph.
LEMMA ReturnedStable ==
    ASSUME prog \in Programs, NEW p \in Query, NEW q \in Query, p.returning = q.returning,
           NEW f, IsNamed(f), NEW inner \in Inner, Stable(inner), IsNamed(Returned(p, f, inner).fn)
    PROVE  Returned(q, f, inner).fn = Returned(p, f, inner).fn
<1> DEFINE n == Len(Fn(f).returns)
<1>1. f \in Callable /\ n \in Nat
  BY FunctionFacts DEF IsNamed
<1>2. PICK b \in [0 .. n -> Results] : Chooses(p, f, inner, b)
  BY <1>1, ReturnedUnfolds
<1>3. PICK c \in [0 .. n -> Results] : Chooses(q, f, inner, c)
  BY <1>1, ReturnedUnfolds
<1>4. /\ Returned(p, f, inner) = b[n] /\ Returned(q, f, inner) = c[n]
      /\ b[0].fn = NoFunc
      /\ \A i \in 1 .. n : b[i] = Chosen(p, f, inner, i, b[i - 1])
      /\ \A i \in 1 .. n : c[i] = Chosen(q, f, inner, i, c[i - 1])
  BY <1>2, <1>3 DEF Chooses, Found
<1>5. ~ IsNamed(NoFunc)
  BY ProgramFacts DEF IsNamed
<1> DEFINE S == {i \in 0 .. n : IsNamed(b[i].fn) => c[i].fn = b[i].fn}
<1>6. 0 \in S
  BY <1>1, <1>4, <1>5
<1>7. \A i \in 0 .. n - 1 : i \in S => i + 1 \in S
  <2> SUFFICES ASSUME NEW i \in 0 .. n - 1, i \in S, IsNamed(b[i + 1].fn) PROVE c[i + 1].fn = b[i + 1].fn
    BY <1>1
  <2> DEFINE j == i + 1
             x == inner[ResultQuery(p, f, j, b[i])]
             y == inner[ResultQuery(q, f, j, c[i])]
  <2>1. j \in 1 .. n /\ j - 1 = i /\ b[i] \in Results /\ c[i] \in Results /\ (j > 1 <=> i # 0)
    BY <1>1, <1>2, <1>3
  <2>2. b[j] = Chosen(p, f, inner, j, b[i]) /\ c[j] = Chosen(q, f, inner, j, c[i])
    BY <1>4, <2>1
  <2>3. b[j] = x /\ (i # 0 => b[i].fn = x.fn)
    <3>1. b[j] = IF j > 1 /\ b[i].fn = NoFunc THEN b[i]
                 ELSE IF j > 1 /\ x.fn # b[i].fn THEN Found(NoFunc, x.nodes) ELSE x
      BY <2>2 DEF Chosen
    <3> HIDE DEF x, j
    <3> QED BY <1>5, <2>1, <3>1 DEF Found, j
  <2>4. y.fn = x.fn
    <3>1. ResultQuery(p, f, j, b[i]) \in Query /\ ResultQuery(q, f, j, c[i]) \in Query
      BY <1>1, <2>1, ChosenTyped
    <3>2. /\ ResultQuery(p, f, j, b[i]).expr = ResultQuery(q, f, j, c[i]).expr
          /\ ResultQuery(p, f, j, b[i]).returning = ResultQuery(q, f, j, c[i]).returning
      BY DEF ResultQuery
    <3>3. IsNamed(x.fn)
      BY <2>3
    <3> HIDE DEF ResultQuery, j
    <3> QED BY <3>1, <3>2, <3>3 DEF Stable
  <2>5. i # 0 => c[i].fn = b[i].fn /\ c[i].fn # NoFunc
    BY <1>5, <2>3
  <2>6. c[j] = IF j > 1 /\ c[i].fn = NoFunc THEN c[i]
               ELSE IF j > 1 /\ y.fn # c[i].fn THEN Found(NoFunc, y.nodes) ELSE y
    BY <2>2 DEF Chosen
  <2> HIDE DEF x, y, j
  <2>7. c[j] = y
    BY <2>1, <2>3, <2>4, <2>5, <2>6
  <2> QED BY <2>3, <2>4, <2>7 DEF j
<1>8. n \in 0 .. n
  BY <1>1
<1> HIDE DEF n
<1>9. n \in S
  <2> HIDE DEF S
  <2> QED BY <1>1, <1>6, <1>7, <1>8, Inductive
<1> QED BY <1>4, <1>9

\* Where an expression leads, and what it denotes there.
LEMMA DenotedCases ==
    ASSUME prog \in Programs, NEW q \in Query, NEW inner
    PROVE  \/ Denoted(q, inner) = Found(NoFunc, q.nodes)
           \/ \E e \in Expr : /\ Followed(q.expr) # {} /\ e = (CHOOSE x \in Followed(q.expr) : TRUE)
                              /\ \/ /\ e.kind = "lit" /\ Contains(q.nodes, e.fn)
                                    /\ Denoted(q, inner) = Found(e.fn, q.nodes)
                                 \/ e.kind = "func" /\ Denoted(q, inner) = Found(e.fn, q.nodes)
                                 \/ /\ e.kind = "call" /\ e.fn \notin q.returning /\ Fn(e.fn).body
                                    /\ Denoted(q, inner) = Returned(q, e.fn, inner)
<1> DEFINE e == CHOOSE x \in Followed(q.expr) : TRUE
<1>1. CASE Followed(q.expr) = {}
  BY <1>1 DEF Denoted
<1>2. CASE Followed(q.expr) # {}
  <2>1. e \in Expr
    <3>1. q.expr \in Expr
      BY DEF Query, Expr
    <3>2. Followed(q.expr) \subseteq Expr
      BY <3>1, FollowedTyped
    <3> QED BY <1>2, <3>2
  <2>2. CASE e.kind = "lit"
    <3>1. Denoted(q, inner) = Found(IF Contains(q.nodes, e.fn) THEN e.fn ELSE NoFunc, q.nodes)
      BY <1>2, <2>2 DEF Denoted
    <3> HIDE DEF e
    <3>2. CASE Contains(q.nodes, e.fn)
      BY <1>2, <2>1, <2>2, <3>1, <3>2 DEF e
    <3>3. CASE ~ Contains(q.nodes, e.fn)
      BY <3>1, <3>3
    <3> QED BY <3>2, <3>3
  <2>3. CASE e.kind = "func"
    <3>1. Denoted(q, inner) = Found(e.fn, q.nodes)
      BY <1>2, <2>3 DEF Denoted
    <3> QED BY <1>2, <2>1, <2>3, <3>1
  <2>4. CASE e.kind = "call" /\ e.fn \notin q.returning /\ Fn(e.fn).body
    <3>1. Denoted(q, inner) = Returned(q, e.fn, inner)
      BY <1>2, <2>4 DEF Denoted
    <3> QED BY <1>2, <2>1, <2>4, <3>1
  <2>5. CASE /\ e.kind # "lit" /\ e.kind # "func"
             /\ ~ (e.kind = "call" /\ e.fn \notin q.returning /\ Fn(e.fn).body)
    BY <1>2, <2>5 DEF Denoted
  <2> QED BY <2>2, <2>3, <2>4, <2>5
<1> QED BY <1>1, <1>2

LEMMA DenotedKeeps ==
    ASSUME prog \in Programs, NEW q \in Query, NEW inner \in Inner
    PROVE  /\ Denoted(q, inner) \in Results
           /\ Keeping(inner) /\ q.nodes \in Graphs => Kept(q.nodes, Denoted(q, inner))
<1>1. q.nodes \in Seq(Callable)
  BY DEF Query, Callable
<1>2. CASE Denoted(q, inner) = Found(NoFunc, q.nodes)
  BY <1>1, <1>2, KeptSteps DEF Results, Found
<1>3. ASSUME NEW e \in Expr, e.kind = "lit", Contains(q.nodes, e.fn), Denoted(q, inner) = Found(e.fn, q.nodes)
      PROVE  /\ Denoted(q, inner) \in Results
             /\ Keeping(inner) /\ q.nodes \in Graphs => Kept(q.nodes, Denoted(q, inner))
  <2>1. IsLiteral(e.fn) /\ e.fn \in Range(q.nodes)
    BY <1>1, <1>3, ExpressionFacts, ContainsIsRange
  <2>2. q.nodes \in Graphs => Extends(q.nodes, q.nodes)
    BY KeptSteps
  <2> QED BY <1>1, <1>3, <2>1, <2>2 DEF Kept, Results, Found, Addable, IsLiteral
<1>4. ASSUME NEW e \in Expr, e.kind = "func", Denoted(q, inner) = Found(e.fn, q.nodes)
      PROVE  /\ Denoted(q, inner) \in Results
             /\ Keeping(inner) /\ q.nodes \in Graphs => Kept(q.nodes, Denoted(q, inner))
  <2>1. IsNamed(e.fn)
    BY <1>4, ExpressionFacts
  <2>2. q.nodes \in Graphs => Extends(q.nodes, q.nodes)
    BY KeptSteps
  <2> QED BY <1>1, <1>4, <2>1, <2>2 DEF Kept, Results, Found, Addable, IsNamed
<1>5. ASSUME NEW e \in Expr, e.kind = "call", Denoted(q, inner) = Returned(q, e.fn, inner)
      PROVE  /\ Denoted(q, inner) \in Results
             /\ Keeping(inner) /\ q.nodes \in Graphs => Kept(q.nodes, Denoted(q, inner))
  <2>1. IsNamed(e.fn)
    BY <1>5, ExpressionFacts
  <2> QED BY <1>5, <2>1, ReturnedKeeps
<1> QED BY <1>2, <1>3, <1>4, <1>5, DenotedCases

LEMMA DenotedStable ==
    ASSUME prog \in Programs, NEW p \in Query, NEW q \in Query, p.expr = q.expr, p.returning = q.returning,
           NEW inner \in Inner, Stable(inner), IsNamed(Denoted(p, inner).fn)
    PROVE  Denoted(q, inner).fn = Denoted(p, inner).fn
<1>1. Denoted(p, inner) # Found(NoFunc, p.nodes)
  BY ProgramFacts DEF IsNamed, Found
<1>2. PICK e \in Expr : /\ Followed(p.expr) # {} /\ e = (CHOOSE x \in Followed(p.expr) : TRUE)
                        /\ \/ /\ e.kind = "lit" /\ Contains(p.nodes, e.fn)
                              /\ Denoted(p, inner) = Found(e.fn, p.nodes)
                           \/ e.kind = "func" /\ Denoted(p, inner) = Found(e.fn, p.nodes)
                           \/ /\ e.kind = "call" /\ e.fn \notin p.returning /\ Fn(e.fn).body
                              /\ Denoted(p, inner) = Returned(p, e.fn, inner)
  BY <1>1, DenotedCases
<1>3. CASE e.kind = "lit" /\ Denoted(p, inner) = Found(e.fn, p.nodes)
  <2>1. IsLiteral(e.fn)
    BY <1>3, ExpressionFacts
  <2>2. Denoted(p, inner).fn = e.fn
    BY <1>3 DEF Found
  <2>3. IsNamed(e.fn)
    BY <2>2
  <2> QED BY <2>1, <2>3 DEF IsLiteral, IsNamed
<1>4. CASE e.kind = "func" /\ Denoted(p, inner) = Found(e.fn, p.nodes)
  <2>1. Denoted(q, inner) = Found(e.fn, q.nodes)
    BY <1>2, <1>4 DEF Denoted
  <2> QED BY <1>4, <2>1 DEF Found
<1>5. CASE e.kind = "call" /\ e.fn \notin p.returning /\ Fn(e.fn).body /\ Denoted(p, inner) = Returned(p, e.fn, inner)
  <2>1. Denoted(q, inner) = Returned(q, e.fn, inner)
    BY <1>2, <1>5 DEF Denoted
  <2>2. IsNamed(e.fn)
    BY <1>5, ExpressionFacts
  <2> QED BY <1>5, <2>1, <2>2, ReturnedStable
<1> QED BY <1>2, <1>3, <1>4, <1>5

\* The query that resolves an expression in a graph.
Asked(nodes, e) == [expr |-> e, returning |-> {}, nodes |-> nodes]

\* Resolution answers every query in one way.
LEMMA ResolutionUnfolds ==
    ASSUME prog \in Programs
    PROVE  \E inner \in Inner : /\ Keeping(inner) /\ Stable(inner)
                                /\ \A s, e : Resolution(s, e) = inner[Asked(s, e)]
<1> DEFINE n == Cardinality(DOMAIN prog.funcs) + 1
           a == [q \in Query |-> Found(NoFunc, q.nodes)]
           Step(x) == [q \in Query |-> Denoted(q, x)]
           G == [p \in (1 .. n) \X Inner |-> Step(p[2])]
           Is(g) == g = [k \in 0 .. n |-> [q \in Query |-> IF k = 0 THEN Found(NoFunc, q.nodes) ELSE Denoted(q, g[k - 1])]]
           val == CHOOSE g : Is(g)
<1>1. n \in Nat
  BY ProgramFacts, FS_CardinalityType DEF Callable
<1>2. a \in Inner
  BY DEF Inner, Found, Results, Query, Callable
<1>3. \A x \in Inner : Step(x) \in Inner
  BY DenotedKeeps DEF Inner
<1>4. G \in [(1 .. n) \X Inner -> Inner]
  BY <1>3
<1>5. \A s, e : Resolution(s, e) = val[n][Asked(s, e)]
  BY DEF Resolution, Asked
<1>6. PICK g : Builds(n, Inner, a, G, g)
  <2> HIDE DEF G, n, a
  <2> QED BY ONLY <1>1, <1>2, <1>4, Recursion
<1>7. Is(g)
  <2>1. g \in [0 .. n -> Inner] /\ g[0] = a /\ \A i \in 1 .. n : g[i] = G[<<i, g[i - 1]>>]
    BY <1>6 DEF Builds
  <2>2. \A i \in 1 .. n : i - 1 \in 0 .. n
    BY <1>1
  <2>3. \A i \in 1 .. n : g[i] = Step(g[i - 1])
    BY <2>1, <2>2
  <2>4. ASSUME NEW i \in 0 .. n
        PROVE  g[i] = [q \in Query |-> IF i = 0 THEN Found(NoFunc, q.nodes) ELSE Denoted(q, g[i - 1])]
    <3>1. CASE i = 0
      BY <2>1, <3>1
    <3>2. CASE i # 0
      <4>1. i \in 1 .. n
        BY <1>1, <3>2
      <4>2. g[i] = Step(g[i - 1])
        BY <2>3, <4>1
      <4> QED BY <3>2, <4>2
    <3> QED BY <3>1, <3>2
  <2> HIDE DEF n
  <2> QED BY <2>1, <2>4
<1>8. Is(val)
  <2> HIDE DEF Is
  <2> QED BY <1>7
<1> HIDE DEF val
<1>9. val[0] = a /\ \A i \in 1 .. n : val[i] = Step(val[i - 1])
  <2>1. \A i \in 0 .. n : val[i] = [q \in Query |-> IF i = 0 THEN Found(NoFunc, q.nodes) ELSE Denoted(q, val[i - 1])]
    <3> HIDE DEF n
    <3> QED BY <1>8
  <2>2. 0 \in 0 .. n /\ \A i \in 1 .. n : i \in 0 .. n /\ i # 0
    BY <1>1
  <2>3. val[0] = a
    BY <2>1, <2>2
  <2>4. ASSUME NEW i \in 1 .. n PROVE val[i] = Step(val[i - 1])
    <3>1. i \in 0 .. n /\ i # 0
      BY <2>2
    <3>2. val[i] = [q \in Query |-> IF i = 0 THEN Found(NoFunc, q.nodes) ELSE Denoted(q, val[i - 1])]
      BY <2>1, <3>1
    <3> QED BY <3>1, <3>2
  <2> QED BY <2>3, <2>4
<1> DEFINE D == {x \in Inner : Keeping(x) /\ Stable(x)}
<1>10. a \in D
  <2>1. Keeping(a)
    BY KeptSteps DEF Keeping
  <2>2. Stable(a)
    BY ProgramFacts DEF Stable, IsNamed, Found
  <2> QED BY <1>2, <2>1, <2>2
<1>11. ASSUME NEW x \in D PROVE Step(x) \in D
  <2>1. Step(x) \in Inner /\ \A q \in Query : Step(x)[q] = Denoted(q, x)
    BY <1>3
  <2>2. Keeping(Step(x))
    BY <2>1, DenotedKeeps DEF Keeping
  <2>3. Stable(Step(x))
    BY <2>1, DenotedStable DEF Stable
  <2> HIDE DEF Step
  <2> QED BY <2>1, <2>2, <2>3
<1>12. \A i \in 0 .. n : val[i] \in D
  <2>1. \A i \in 1 .. n : val[i - 1] \in D => val[i] \in D
    <3> HIDE DEF D, Step, n
    <3> QED BY <1>9, <1>11
  <2>2. val[0] \in D
    BY <1>9, <1>10
  <2> HIDE DEF D, n
  <2> QED BY <1>1, <2>1, <2>2, Stays
<1>13. val[n] \in D
  BY <1>1, <1>12
<1> HIDE DEF n
<1> QED BY <1>5, <1>13

\* Resolving an expression extends the graph, the callable found may be added
\* to it, and a declared function is found in any other graph too.
LEMMA ResolutionFacts ==
    ASSUME prog \in Programs, NEW s \in Graphs, NEW e \in Expr
    PROVE  /\ Kept(s, Resolution(s, e)) /\ Resolution(s, e) \in Results
           /\ \A t \in Graphs : IsNamed(Resolution(s, e).fn) => Resolution(t, e).fn = Resolution(s, e).fn
<1>1. PICK inner \in Inner : /\ Keeping(inner) /\ Stable(inner)
                             /\ \A t, x : Resolution(t, x) = inner[Asked(t, x)]
  BY ResolutionUnfolds
<1>2. \A t \in Graphs : /\ Asked(t, e) \in Query /\ Asked(t, e).nodes = t
                        /\ Asked(t, e).expr = e /\ Asked(t, e).returning = {}
  BY DEF Asked, Query, Graphs, Expr, Callable
<1> HIDE DEF Asked
<1>3. Kept(s, Resolution(s, e))
  BY <1>1, <1>2 DEF Keeping
<1>4. Resolution(s, e) \in Results
  BY <1>1, <1>2 DEF Inner
<1>5. ASSUME NEW t \in Graphs, IsNamed(Resolution(s, e).fn) PROVE Resolution(t, e).fn = Resolution(s, e).fn
  <2> DEFINE p == Asked(s, e)
             q == Asked(t, e)
  <2>1. /\ p \in Query /\ q \in Query /\ p.expr = q.expr /\ p.returning = q.returning
        /\ Resolution(s, e) = inner[p] /\ Resolution(t, e) = inner[q]
    BY <1>1, <1>2
  <2> HIDE DEF p, q
  <2> QED BY <1>1, <1>5, <2>1 DEF Stable
<1> QED BY <1>3, <1>4, <1>5

-----------------------------------------------------------------------------
(* Collection *)

LEMMA ExtendsTransitive ==
    ASSUME NEW S, NEW s \in Seq(S), NEW t \in Seq(S), NEW u \in Seq(S), Extends(s, t), Extends(t, u)
    PROVE  Extends(s, u)
<1>1. Len(s) \in Nat /\ Len(t) \in Nat /\ Len(u) \in Nat
  OBVIOUS
<1> QED BY <1>1 DEF Extends

LEMMA AppendExtends ==
    ASSUME NEW S, NEW s \in Seq(S), NEW x \in S
    PROVE  /\ Append(s, x) \in Seq(S) /\ Extends(s, Append(s, x)) /\ Extends(s, s)
           /\ \A i \in DOMAIN Append(s, x) : Append(s, x)[i] = x \/ (i \in DOMAIN s /\ Append(s, x)[i] = s[i])
<1>1. /\ Append(s, x) \in Seq(S) /\ Len(s) \in Nat /\ Len(Append(s, x)) = Len(s) + 1
      /\ DOMAIN s = 1 .. Len(s) /\ DOMAIN Append(s, x) = 1 .. Len(s) + 1
      /\ \A i \in 1 .. Len(s) : Append(s, x)[i] = s[i]
      /\ Append(s, x)[Len(s) + 1] = x
  BY AppendProperties
<1>2. \A i \in 1 .. Len(s) + 1 : i \in 1 .. Len(s) \/ i = Len(s) + 1
  BY <1>1
<1> QED BY <1>1, <1>2 DEF Extends

\* Effects that have a place.
Placed == {x \in EffectsOf(prog) : x.line > 0}

\* What a search has found so far: calls of callables of the graph.
Accs ==
    {a \in [nodes : Graphs, calls : Seq(EdgeRecord), unknown : Seq(Placed)] :
        \A i \in DOMAIN a.calls : a.calls[i].callee \in Range(a.nodes)}

\* It grows.
Grown(a, b) == b \in Accs /\ Extends(a.nodes, b.nodes) /\ Extends(a.unknown, b.unknown)

LEMMA GrownOrder ==
    /\ \A a \in Accs : Grown(a, a)
    /\ \A a, b, c : a \in Accs /\ Grown(a, b) /\ Grown(b, c) => Grown(a, c)
<1>1. \A a \in Accs : a.nodes \in Seq(Callable) /\ a.unknown \in Seq(Placed)
  BY DEF Accs, Graphs
<1>2. \A a \in Accs : Grown(a, a)
  <2> SUFFICES ASSUME NEW a \in Accs PROVE Grown(a, a)
    OBVIOUS
  <2>1. Len(a.nodes) \in Nat /\ Len(a.unknown) \in Nat
    BY <1>1
  <2> QED BY <2>1, ExtendsOrder DEF Grown
<1>3. ASSUME NEW a \in Accs, NEW b, NEW c, Grown(a, b), Grown(b, c) PROVE Grown(a, c)
  <2>1. b \in Accs /\ c \in Accs
    BY <1>3 DEF Grown
  <2>2. Extends(a.nodes, c.nodes)
    BY <1>1, <1>3, <2>1, ExtendsTransitive DEF Grown
  <2>3. Extends(a.unknown, c.unknown)
    BY <1>1, <1>3, <2>1, ExtendsTransitive DEF Grown
  <2> QED BY <2>1, <2>2, <2>3 DEF Grown
<1> QED BY <1>2, <1>3

\* A larger graph, one more call of a callable in it, or one more effect.
LEMMA GrownBy ==
    ASSUME NEW acc \in Accs, NEW nodes \in Graphs, Extends(acc.nodes, nodes)
    PROVE  /\ Grown(acc, [acc EXCEPT !.nodes = nodes])
           /\ \A e \in EdgeRecord : e.callee \in Range(nodes) =>
                 Grown(acc, [acc EXCEPT !.nodes = nodes, !.calls = Append(@, e)])
           /\ \A x \in Placed : Grown(acc, [acc EXCEPT !.nodes = nodes, !.unknown = Append(@, x)])
<1>1. /\ acc \in [nodes : Graphs, calls : Seq(EdgeRecord), unknown : Seq(Placed)]
      /\ acc.nodes \in Graphs /\ acc.calls \in Seq(EdgeRecord) /\ acc.unknown \in Seq(Placed)
      /\ \A i \in DOMAIN acc.calls : acc.calls[i].callee \in Range(acc.nodes)
  BY DEF Accs
<1>2. Range(acc.nodes) \subseteq Range(nodes)
  BY <1>1, ExtendsOrder DEF Graphs
<1>3. Extends(acc.unknown, acc.unknown)
  <2>1. Len(acc.unknown) \in Nat
    BY <1>1
  <2> QED BY <2>1, ExtendsOrder
<1>4. Grown(acc, [acc EXCEPT !.nodes = nodes])
  <2> DEFINE b == [acc EXCEPT !.nodes = nodes]
  <2>1. /\ b \in [nodes : Graphs, calls : Seq(EdgeRecord), unknown : Seq(Placed)]
        /\ b.nodes = nodes /\ b.calls = acc.calls /\ b.unknown = acc.unknown
    BY <1>1
  <2> HIDE DEF b
  <2>2. Grown(acc, b)
    BY <1>1, <1>2, <1>3, <2>1 DEF Grown, Accs
  <2> QED BY <2>2 DEF b
<1>5. ASSUME NEW e \in EdgeRecord, e.callee \in Range(nodes)
      PROVE  Grown(acc, [acc EXCEPT !.nodes = nodes, !.calls = Append(@, e)])
  <2> DEFINE cs == Append(acc.calls, e)
             b == [acc EXCEPT !.nodes = nodes, !.calls = Append(@, e)]
  <2>1. /\ cs \in Seq(EdgeRecord)
        /\ \A i \in DOMAIN cs : cs[i] = e \/ (i \in DOMAIN acc.calls /\ cs[i] = acc.calls[i])
    BY <1>1, AppendExtends
  <2>2. /\ b \in [nodes : Graphs, calls : Seq(EdgeRecord), unknown : Seq(Placed)]
        /\ b.nodes = nodes /\ b.calls = cs /\ b.unknown = acc.unknown
    BY <1>1, <2>1
  <2> HIDE DEF cs, b
  <2>3. Grown(acc, b)
    BY <1>1, <1>2, <1>3, <1>5, <2>1, <2>2 DEF Grown, Accs
  <2> QED BY <2>3 DEF b
<1>6. ASSUME NEW x \in Placed
      PROVE  Grown(acc, [acc EXCEPT !.nodes = nodes, !.unknown = Append(@, x)])
  <2> DEFINE us == Append(acc.unknown, x)
             b == [acc EXCEPT !.nodes = nodes, !.unknown = Append(@, x)]
  <2>1. us \in Seq(Placed) /\ Extends(acc.unknown, us)
    BY <1>1, AppendExtends
  <2>2. /\ b \in [nodes : Graphs, calls : Seq(EdgeRecord), unknown : Seq(Placed)]
        /\ b.nodes = nodes /\ b.calls = acc.calls /\ b.unknown = us
    BY <1>1, <2>1
  <2> HIDE DEF us, b
  <2>3. Grown(acc, b)
    BY <1>1, <1>2, <1>3, <2>1, <2>2 DEF Grown, Accs
  <2> QED BY <2>3 DEF b
<1> QED BY <1>4, <1>5, <1>6

LEMMA SiteFacts ==
    ASSUME prog \in Programs, NEW site \in SitesOf(prog)
    PROVE  /\ site.line \in Nat \ {0} /\ site.range \in BOOLEAN /\ site.established \in BOOLEAN
           /\ site.fun \in Expr /\ site.args \in Seq(Expr) /\ site.callbacks \in Seq(Nat \ {0})
           /\ \A i \in DOMAIN site.args : site.args[i] \in Expr
<1>1. site.args \in Seq(Expr)
  BY DEF SitesOf, Expr
<1> QED BY <1>1 DEF SitesOf, Expr

LEMMA EffectTyped ==
    ASSUME prog \in Programs, NEW line \in Nat, NEW what \in Whats, NEW v \in Variable \cup {NoVar}
    PROVE  /\ Effect(line, what, "", v) \in EffectsOf(prog)
           /\ line > 0 => Effect(line, what, "", v) \in Placed
<1> DEFINE S == Seq(prog.exprs)
           empty == <<>>
           x == Effect(line, what, "", v)
<1>1. empty \in S
  OBVIOUS
<1>2. EffectsOf(prog) =
        [line : Nat, what : Whats, name : Variable \cup {"", NoVar}, binding : Variable \cup {NoVar},
         deep : BOOLEAN, callable : BOOLEAN, args : S, access : BOOLEAN, stored : BOOLEAN]
  BY DEF EffectsOf, Variable
<1>3. x = [line |-> line, what |-> what, name |-> "", binding |-> v, deep |-> FALSE,
           callable |-> FALSE, args |-> empty, access |-> FALSE, stored |-> FALSE]
  BY DEF Effect
<1> HIDE DEF S, empty, x
<1>4. x \in EffectsOf(prog) /\ x.line = line
  BY <1>1, <1>2, <1>3
<1>5. line > 0 => x \in Placed
  BY <1>4 DEF Placed
<1> QED BY <1>4, <1>5 DEF x

LEMMA UnresolvedTyped ==
    ASSUME prog \in Programs, NEW site \in SitesOf(prog)
    PROVE  UnresolvedCall(site) \in Placed
<1>1. "unresolved call" \in Whats
  BY DEF Whats
<1>2. site.line \in Nat /\ site.line > 0 /\ site.args \in Seq(Expr)
  BY SiteFacts
<1>3. CASE site.fun.kind = "var"
  <2> DEFINE e == Effect(site.line, "unresolved call", "", site.fun.var)
  <2>1. site.fun.var \in Variable
    BY <1>3, SiteFacts, ExpressionFacts DEF HasRoot
  <2>2. e \in Placed
    BY <1>1, <1>2, <2>1, EffectTyped
  <2>3. UnresolvedCall(site) = [e EXCEPT !.callable = TRUE, !.args = site.args]
    BY <1>3 DEF UnresolvedCall
  <2>4. site.args \in Seq(prog.exprs)
    BY <1>2 DEF Expr
  <2> HIDE DEF e
  <2> QED BY <2>2, <2>3, <2>4 DEF Placed, EffectsOf
<1>4. CASE site.fun.kind # "var"
  <2>1. NoVar \in Variable \cup {NoVar}
    OBVIOUS
  <2>2. Effect(site.line, "unresolved call", "", NoVar) \in Placed
    BY <1>1, <1>2, <2>1, EffectTyped
  <2> QED BY <1>4, <2>2 DEF UnresolvedCall
<1> QED BY <1>3, <1>4

LEMMA EdgeTyped ==
    ASSUME prog \in Programs, NEW site \in SitesOf(prog), NEW callee \in Callable,
           NEW args \in Seq(Expr), NEW range \in BOOLEAN
    PROVE  Edge(site, callee, args, range) \in EdgeRecord /\ Edge(site, callee, args, range).callee = callee
<1>1. FactoryCall(site.fun) \subseteq {e \in Expr : e.kind = "call"}
  BY SiteFacts, FollowedTyped DEF FactoryCall
<1> QED BY <1>1, SiteFacts DEF Edge, EdgeRecord, Expr, Callable

\* The edge of a callback has no factory.
LEMMA CallbackEdgeTyped ==
    ASSUME prog \in Programs, NEW e \in EdgeRecord
    PROVE  [e EXCEPT !.factory = {}] \in EdgeRecord /\ [e EXCEPT !.factory = {}].callee = e.callee
BY DEF EdgeRecord

LEMMA FromCalleeGrows ==
    ASSUME prog \in Programs, NEW acc \in Accs, NEW site \in SitesOf(prog)
    PROVE  Grown(acc, FromCallee(acc, site))
<1> DEFINE r == ResolveCallee(acc.nodes, site.fun)
           unresolved == IF site.range THEN Effect(site.line, "range over function", "", NoVar)
                         ELSE UnresolvedCall(site)
<1>1. acc.nodes \in Graphs /\ site.fun \in Expr /\ site.args \in Seq(Expr) /\ site.range \in BOOLEAN
  BY SiteFacts DEF Accs
<1>2. Kept(acc.nodes, r) /\ r.fn \in Callable \cup {NoFunc}
  <2>1. CASE site.fun.kind = "method"
    <3>1. r = Found(site.fun.fn, acc.nodes)
      BY <2>1 DEF ResolveCallee, Found
    <3>2. IsNamed(site.fun.fn) /\ Extends(acc.nodes, acc.nodes)
      BY <1>1, <2>1, ExpressionFacts, KeptSteps
    <3> HIDE DEF r
    <3> QED BY <1>1, <3>1, <3>2 DEF Kept, Found, Addable, IsNamed
  <2>2. CASE site.fun.kind # "method"
    <3>1. r = Resolution(acc.nodes, site.fun)
      BY <2>2 DEF ResolveCallee
    <3> HIDE DEF r
    <3> QED BY <1>1, <3>1, ResolutionFacts DEF Results
  <2> QED BY <2>1, <2>2
<1> HIDE DEF r
<1>3. CASE r.fn # NoFunc
  <2> DEFINE nodes == Added(r.nodes, r.fn)
             e == Edge(site, r.fn, site.args, site.range)
  <2>1. FromCallee(acc, site) = [acc EXCEPT !.nodes = nodes, !.calls = Append(@, e)]
    BY <1>3 DEF FromCallee, r
  <2>2. nodes \in Graphs /\ Extends(r.nodes, nodes) /\ r.fn \in Range(nodes)
    BY <1>2, <1>3, AddedExtends DEF Kept
  <2>3. Extends(acc.nodes, nodes)
    <3>1. acc.nodes \in Seq(Callable) /\ r.nodes \in Seq(Callable) /\ nodes \in Seq(Callable)
      BY <1>1, <1>2, <2>2 DEF Kept, Graphs
    <3>2. Extends(acc.nodes, r.nodes)
      BY <1>2 DEF Kept
    <3> HIDE DEF nodes
    <3> QED BY <2>2, <3>1, <3>2, ExtendsTransitive
  <2>4. e \in EdgeRecord /\ e.callee = r.fn
    <3> DEFINE f == r.fn
               args == site.args
               range == site.range
    <3>1. f \in Callable /\ args \in Seq(Expr) /\ range \in BOOLEAN
      BY <1>1, <1>2, <1>3
    <3> HIDE DEF f, args, range
    <3>2. Edge(site, f, args, range) \in EdgeRecord /\ Edge(site, f, args, range).callee = f
      BY <3>1, EdgeTyped
    <3> QED BY <3>2 DEF f, args, range
  <2> HIDE DEF nodes, e
  <2> QED BY <2>1, <2>2, <2>3, <2>4, GrownBy
<1>4. CASE r.fn = NoFunc /\ site.established
  <2>1. FromCallee(acc, site) = [acc EXCEPT !.nodes = r.nodes, !.unknown = @]
    BY <1>4 DEF FromCallee, r
  <2>2. [acc EXCEPT !.nodes = r.nodes, !.unknown = @] = [acc EXCEPT !.nodes = r.nodes]
    BY DEF Accs
  <2> QED BY <1>2, <2>1, <2>2, GrownBy DEF Kept
<1>5. CASE r.fn = NoFunc /\ ~ site.established
  <2>1. FromCallee(acc, site) = [acc EXCEPT !.nodes = r.nodes, !.unknown = Append(@, unresolved)]
    BY <1>5 DEF FromCallee, r
  <2>2. unresolved \in Placed
    <3>1. "range over function" \in Whats /\ NoVar \in Variable \cup {NoVar}
      BY DEF Whats
    <3>2. site.line \in Nat /\ site.line > 0
      BY SiteFacts
    <3>3. Effect(site.line, "range over function", "", NoVar) \in Placed
      BY <3>1, <3>2, EffectTyped
    <3> QED BY <3>3, UnresolvedTyped
  <2> HIDE DEF unresolved
  <2> DEFINE nodes == r.nodes
  <2>3. nodes \in Graphs /\ Extends(acc.nodes, nodes)
    BY <1>2 DEF Kept
  <2>4. FromCallee(acc, site) = [acc EXCEPT !.nodes = nodes, !.unknown = Append(@, unresolved)]
    BY <2>1
  <2> HIDE DEF nodes
  <2>5. Grown(acc, [acc EXCEPT !.nodes = nodes, !.unknown = Append(@, unresolved)])
    BY <2>2, <2>3, GrownBy
  <2> QED BY <2>4, <2>5
<1>6. site.established \in BOOLEAN
  BY SiteFacts
<1> QED BY <1>3, <1>4, <1>5, <1>6

\* The declared function that an expression denotes, if any, is in the graph.
Joined(nodes, e) ==
    \A t \in Graphs : IsNamed(Resolution(t, e).fn) => Resolution(t, e).fn \in Range(nodes)

LEMMA WithCallableJoins ==
    ASSUME prog \in Programs, NEW s \in Graphs, NEW e \in Expr
    PROVE  WithCallable(s, e) \in Graphs /\ Extends(s, WithCallable(s, e)) /\ Joined(WithCallable(s, e), e)
<1> DEFINE r == Resolution(s, e)
           nodes == Added(r.nodes, r.fn)
<1>1. Kept(s, r) /\ \A t \in Graphs : IsNamed(Resolution(t, e).fn) => r.fn = Resolution(t, e).fn
  BY ResolutionFacts
<1>2. WithCallable(s, e) = nodes
  BY DEF WithCallable
<1> HIDE DEF r
<1>3. nodes \in Graphs /\ Extends(r.nodes, nodes) /\ (r.fn # NoFunc => r.fn \in Range(nodes))
  BY <1>1, AddedExtends DEF Kept
<1> HIDE DEF nodes
<1>4. Extends(s, nodes)
  <2>1. s \in Seq(Callable) /\ r.nodes \in Seq(Callable) /\ nodes \in Seq(Callable) /\ Extends(s, r.nodes)
    BY <1>1, <1>3 DEF Kept, Graphs
  <2> QED BY <1>3, <2>1, ExtendsTransitive
<1>5. \A t \in Graphs : IsNamed(Resolution(t, e).fn) => Resolution(t, e).fn # NoFunc
  BY ProgramFacts DEF IsNamed
<1>6. Joined(nodes, e)
  BY <1>1, <1>3, <1>5 DEF Joined
<1> QED BY <1>2, <1>3, <1>4, <1>6

LEMMA JoinedStays ==
    ASSUME NEW s \in Graphs, NEW t \in Graphs, Extends(s, t), NEW e, Joined(s, e)
    PROVE  Joined(t, e)
<1>1. Range(s) \subseteq Range(t)
  BY ExtendsOrder DEF Graphs
<1> QED BY <1>1 DEF Joined

\* After the arguments of a call were added, all that they denote is there.
LEMMA FromArgumentsGrows ==
    ASSUME prog \in Programs, NEW acc \in Accs, NEW site \in SitesOf(prog)
    PROVE  /\ Grown(acc, FromArguments(acc, site))
           /\ \A i \in DOMAIN site.args : Joined(FromArguments(acc, site).nodes, site.args[i])
<1> DEFINE n == Len(site.args)
           a == acc.nodes
           G == [p \in (1 .. n) \X Graphs |-> WithCallable(p[2], site.args[p[1]])]
           Is(g) == g = [i \in 0 .. n |-> IF i = 0 THEN a ELSE WithCallable(g[i - 1], site.args[i])]
           val == CHOOSE g : Is(g)
<1>1. n \in Nat /\ DOMAIN site.args = 1 .. n /\ \A i \in 1 .. n : site.args[i] \in Expr
  BY SiteFacts
<1>2. a \in Graphs
  BY DEF Accs
<1>3. G \in [(1 .. n) \X Graphs -> Graphs]
  BY <1>1, WithCallableJoins
<1>4. FromArguments(acc, site) = [acc EXCEPT !.nodes = val[n]]
  BY DEF FromArguments
<1> HIDE DEF a
<1>5. PICK g : Builds(n, Graphs, a, G, g)
  <2> HIDE DEF G, n
  <2> QED BY ONLY <1>1, <1>2, <1>3, Recursion
<1>6. Is(g)
  <2>1. g \in [0 .. n -> Graphs] /\ g[0] = a /\ \A i \in 1 .. n : g[i] = G[<<i, g[i - 1]>>]
    BY <1>5 DEF Builds
  <2>2. \A i \in 1 .. n : i - 1 \in 0 .. n
    BY <1>1
  <2>3. \A i \in 1 .. n : g[i] = WithCallable(g[i - 1], site.args[i])
    BY <2>1, <2>2
  <2>4. \A i \in 0 .. n : g[i] = IF i = 0 THEN a ELSE WithCallable(g[i - 1], site.args[i])
    BY <1>1, <2>1, <2>3
  <2> HIDE DEF n
  <2> QED BY <2>1, <2>4
<1>7. Is(val)
  <2> HIDE DEF Is
  <2> QED BY <1>6
<1> HIDE DEF val
<1>8. val[0] = a /\ \A i \in 1 .. n : val[i] = WithCallable(val[i - 1], site.args[i])
  <2> HIDE DEF n
  <2> QED BY <1>1, <1>7
<1> DEFINE D(i) == /\ val[i] \in Graphs /\ Extends(a, val[i])
                   /\ \A j \in 1 .. i : Joined(val[i], site.args[j])
           S == {i \in 0 .. n : D(i)}
<1>9. 0 \in S
  BY <1>1, <1>2, <1>8, KeptSteps
<1>10. \A i \in 0 .. n - 1 : i \in S => i + 1 \in S
  <2> SUFFICES ASSUME NEW i \in 0 .. n - 1, D(i) PROVE D(i + 1) /\ i + 1 \in 0 .. n
    OBVIOUS
  <2> DEFINE j == i + 1
  <2>1. j \in 1 .. n /\ j - 1 = i /\ j \in 0 .. n /\ \A k \in 1 .. j : k = j \/ k \in 1 .. i
    BY <1>1
  <2>2. val[j] = WithCallable(val[i], site.args[j]) /\ site.args[j] \in Expr
    BY <1>1, <1>8, <2>1
  <2> HIDE DEF j
  <2>3. val[j] \in Graphs /\ Extends(val[i], val[j]) /\ Joined(val[j], site.args[j])
    BY <2>2, WithCallableJoins
  <2>4. \A k \in 1 .. i : Joined(val[j], site.args[k])
    BY <2>3, JoinedStays
  <2>5. Extends(a, val[j])
    BY <1>2, <2>3, ExtendsTransitive DEF Graphs
  <2>6. D(j)
    BY <2>1, <2>3, <2>4, <2>5
  <2> HIDE DEF D
  <2> QED BY <2>1, <2>6 DEF j
<1>11. n \in 0 .. n
  BY <1>1
<1>12. n \in S
  <2> HIDE DEF S, n
  <2> QED BY <1>1, <1>9, <1>10, <1>11, Inductive
<1>13. val[n] \in Graphs /\ Extends(acc.nodes, val[n]) /\ \A j \in 1 .. n : Joined(val[n], site.args[j])
  BY <1>12 DEF a
<1>14. FromArguments(acc, site).nodes = val[n]
  BY <1>4 DEF Accs
<1> QED BY <1>1, <1>4, <1>13, <1>14, GrownBy

\* All callables among some expressions are in the graph.
AllJoined(nodes, args) == \A i \in DOMAIN args : Joined(nodes, args[i])

LEMMA ElementTyped ==
    ASSUME prog \in Programs, NEW e \in Expr
    PROVE  Element(e) \in Expr
BY ExpressionFacts, ProgramFacts DEF Element

LEMMA FromCallbackGrows ==
    ASSUME prog \in Programs, NEW acc \in Accs, NEW site \in SitesOf(prog), NEW index \in Nat \ {0},
           AllJoined(acc.nodes, site.args)
    PROVE  Grown(acc, FromCallback(acc, site, index)) /\ AllJoined(FromCallback(acc, site, index).nodes, site.args)
<1> DEFINE r == Resolution(acc.nodes, site.args[index])
           last == IF index > 1 /\ r.fn # NoFunc THEN Len(Fn(r.fn).params) ELSE 0
           elements == [i \in 1 .. last |-> Element(site.args[IF i < index THEN i ELSE index - 1])]
           new == FromCallback(acc, site, index)
<1>1. /\ acc.nodes \in Graphs /\ site.args \in Seq(Expr) /\ Len(site.args) \in Nat
      /\ DOMAIN site.args = 1 .. Len(site.args) /\ \A i \in DOMAIN site.args : site.args[i] \in Expr
  BY SiteFacts DEF Accs
<1>2. Grown(acc, new) => AllJoined(new.nodes, site.args)
  <2>1. Grown(acc, new) => new.nodes \in Graphs /\ Extends(acc.nodes, new.nodes)
    BY DEF Grown, Accs
  <2> HIDE DEF new
  <2> QED BY <1>1, <2>1, JoinedStays DEF AllJoined
<1>3. CASE index > Len(site.args)
  <2>1. new = acc
    BY <1>3 DEF FromCallback
  <2> QED BY <1>2, <2>1, GrownOrder
<1>4. CASE ~ (index > Len(site.args))
  <2>1. index \in DOMAIN site.args /\ site.args[index] \in Expr
    BY <1>1, <1>4
  <2>2. Kept(acc.nodes, r) /\ r \in Results
    BY <1>1, <2>1, ResolutionFacts
  <2>3. r.nodes \in Graphs /\ Extends(acc.nodes, r.nodes) /\ Addable(r.nodes, r.fn)
    BY <2>2 DEF Kept
  <2>4. r.fn # NoFunc => r.fn \in Callable /\ r.fn \in Range(r.nodes)
    <3>1. Range(acc.nodes) \subseteq Range(r.nodes)
      BY <1>1, <2>3, ExtendsOrder DEF Graphs
    <3>2. IsNamed(r.fn) => r.fn \in Range(acc.nodes)
      BY <1>1, <2>1 DEF AllJoined, Joined
    <3>3. r.fn # NoFunc => r.fn \in Callable
      BY <2>2 DEF Results
    <3> HIDE DEF r
    <3> QED BY <2>3, <3>1, <3>2, <3>3 DEF Addable
  <2>5. CASE r.fn = NoFunc
    <3> DEFINE x == Effect(site.line, "unresolved callback", "", NoVar)
    <3>1. new = [acc EXCEPT !.nodes = r.nodes, !.unknown = Append(@, x)]
      BY <1>4, <2>5 DEF FromCallback
    <3>2. x \in Placed
      <4>1. "unresolved callback" \in Whats /\ NoVar \in Variable \cup {NoVar}
        BY DEF Whats
      <4>2. site.line \in Nat /\ site.line > 0
        BY SiteFacts
      <4> QED BY <4>1, <4>2, EffectTyped
    <3> HIDE DEF x, r, new
    <3>3. Grown(acc, new)
      <4> DEFINE nodes == r.nodes
      <4>1. nodes \in Graphs /\ Extends(acc.nodes, nodes)
        BY <2>3
      <4>2. new = [acc EXCEPT !.nodes = nodes, !.unknown = Append(@, x)]
        BY <3>1
      <4> HIDE DEF nodes
      <4>3. Grown(acc, [acc EXCEPT !.nodes = nodes, !.unknown = Append(@, x)])
        BY <3>2, <4>1, GrownBy
      <4> QED BY <4>2, <4>3
    <3> QED BY <1>2, <3>3 DEF new
  <2>6. CASE r.fn # NoFunc
    <3> DEFINE edge == Edge(site, r.fn, elements, FALSE)
               f == r.fn
               e == [edge EXCEPT !.factory = {}]
    <3>1. new = [acc EXCEPT !.nodes = r.nodes, !.calls = Append(@, e)]
      BY <1>4, <2>6 DEF FromCallback
    <3>2. last \in Nat /\ (last # 0 => index > 1)
      <4>1. Len(Fn(r.fn).params) \in Nat
        <5>1. Fn(r.fn).params \in Seq(Variable)
          BY <2>4, <2>6, FunctionFacts
        <5> QED BY <5>1
      <4> QED BY <4>1
    <3>3. elements \in Seq(Expr)
      <4>1. ASSUME NEW i \in 1 .. last
            PROVE  Element(site.args[IF i < index THEN i ELSE index - 1]) \in Expr
        <5>1. index > 1 /\ i \in Nat \ {0} /\ index <= Len(site.args)
          BY <1>1, <1>4, <3>2
        <5>2. (IF i < index THEN i ELSE index - 1) \in DOMAIN site.args
          BY <1>1, <5>1
        <5> QED BY <1>1, <5>2, ElementTyped
      <4> HIDE DEF last
      <4> QED BY <3>2, <4>1
    <3> HIDE DEF elements
    <3>4. edge \in EdgeRecord /\ edge.callee = f
      <4>1. f \in Callable /\ edge = Edge(site, f, elements, FALSE)
        BY <2>4, <2>6
      <4> HIDE DEF f, edge
      <4> QED BY <3>3, <4>1, EdgeTyped
    <3> HIDE DEF edge
    <3>5. e \in EdgeRecord /\ e.callee = f
      BY <3>4, CallbackEdgeTyped
    <3> HIDE DEF e
    <3>6. e.callee \in Range(r.nodes)
      BY <2>4, <2>6, <3>5
    <3> HIDE DEF r, f
    <3>7. Grown(acc, new)
      <4> DEFINE nodes == r.nodes
      <4>1. nodes \in Graphs /\ Extends(acc.nodes, nodes) /\ e.callee \in Range(nodes)
        BY <2>3, <3>6
      <4>2. new = [acc EXCEPT !.nodes = nodes, !.calls = Append(@, e)]
        BY <3>1
      <4> HIDE DEF nodes, new
      <4>3. Grown(acc, [acc EXCEPT !.nodes = nodes, !.calls = Append(@, e)])
        BY <3>5, <4>1, GrownBy
      <4> QED BY <4>2, <4>3
    <3> QED BY <1>2, <3>7
  <2> QED BY <2>5, <2>6
<1> QED BY <1>3, <1>4

LEMMA FromCallbacksGrows ==
    ASSUME prog \in Programs, NEW acc \in Accs, NEW site \in SitesOf(prog), AllJoined(acc.nodes, site.args)
    PROVE  Grown(acc, FromCallbacks(acc, site))
<1> DEFINE n == Len(site.callbacks)
           D == {a \in Accs : Grown(acc, a) /\ AllJoined(a.nodes, site.args)}
           G == [p \in (1 .. n) \X D |-> FromCallback(p[2], site, site.callbacks[p[1]])]
           Is(g) == g = [i \in 0 .. n |-> IF i = 0 THEN acc ELSE FromCallback(g[i - 1], site, site.callbacks[i])]
           val == CHOOSE g : Is(g)
<1>1. n \in Nat /\ \A i \in 1 .. n : site.callbacks[i] \in Nat \ {0}
  <2>1. site.callbacks \in Seq(Nat \ {0})
    BY SiteFacts
  <2> QED BY <2>1
<1>2. acc \in D
  BY GrownOrder
<1>3. ASSUME NEW i \in 1 .. n, NEW a \in D PROVE FromCallback(a, site, site.callbacks[i]) \in D
  <2> DEFINE k == site.callbacks[i]
             b == FromCallback(a, site, k)
  <2>1. k \in Nat \ {0} /\ a \in Accs /\ Grown(acc, a) /\ AllJoined(a.nodes, site.args)
    BY <1>1
  <2>2. Grown(a, b) /\ AllJoined(b.nodes, site.args)
    <3> HIDE DEF k
    <3> QED BY <2>1, FromCallbackGrows
  <2> HIDE DEF b
  <2>3. Grown(acc, b) /\ b \in Accs
    BY <2>1, <2>2, GrownOrder DEF Grown
  <2> QED BY <2>2, <2>3 DEF b
<1>4. G \in [(1 .. n) \X D -> D]
  <2> HIDE DEF D
  <2> QED BY <1>3
<1>5. FromCallbacks(acc, site) = val[n]
  BY DEF FromCallbacks
<1>6. PICK g : Builds(n, D, acc, G, g)
  <2> HIDE DEF G, n, D
  <2> QED BY ONLY <1>1, <1>2, <1>4, Recursion
<1>7. Is(g)
  <2>1. g \in [0 .. n -> D] /\ g[0] = acc /\ \A i \in 1 .. n : g[i] = G[<<i, g[i - 1]>>]
    BY <1>6 DEF Builds
  <2>2. \A i \in 1 .. n : i - 1 \in 0 .. n
    BY <1>1
  <2> HIDE DEF D
  <2>3. \A i \in 1 .. n : g[i] = FromCallback(g[i - 1], site, site.callbacks[i])
    BY <2>1, <2>2
  <2>4. \A i \in 0 .. n : g[i] = IF i = 0 THEN acc ELSE FromCallback(g[i - 1], site, site.callbacks[i])
    BY <1>1, <2>1, <2>3
  <2> HIDE DEF n
  <2> QED BY <2>1, <2>4
<1>8. Is(val)
  <2> HIDE DEF Is
  <2> QED BY <1>7
<1> HIDE DEF val
<1>9. val[0] = acc /\ \A i \in 1 .. n : val[i] = FromCallback(val[i - 1], site, site.callbacks[i])
  <2> HIDE DEF n
  <2> QED BY <1>1, <1>8
<1>10. \A i \in 0 .. n : val[i] \in D
  <2> HIDE DEF D, n
  <2>1. \A i \in 1 .. n : val[i - 1] \in D => val[i] \in D
    BY <1>3, <1>9
  <2> QED BY <1>1, <1>2, <1>9, <2>1, Stays
<1>11. val[n] \in D
  <2> HIDE DEF D
  <2> QED BY <1>1, <1>10
<1> QED BY <1>5, <1>11

LEMMA CollectSiteGrows ==
    ASSUME prog \in Programs, NEW acc \in Accs, NEW site \in SitesOf(prog)
    PROVE  Grown(acc, CollectSite(acc, site))
<1> DEFINE a == FromCallee(acc, site)
           b == FromArguments(a, site)
           c == FromCallbacks(b, site)
<1>1. Grown(acc, a)
  BY FromCalleeGrows
<1>2. a \in Accs
  BY <1>1 DEF Grown
<1>3. CollectSite(acc, site) = IF site.range THEN a ELSE c
  BY DEF CollectSite
<1> HIDE DEF a
<1>4. Grown(a, b) /\ AllJoined(b.nodes, site.args)
  BY <1>2, FromArgumentsGrows DEF AllJoined
<1>5. b \in Accs
  BY <1>4 DEF Grown
<1> HIDE DEF b
<1>6. Grown(b, c)
  BY <1>4, <1>5, FromCallbacksGrows
<1> HIDE DEF c
<1>7. Grown(acc, b)
  BY <1>1, <1>2, <1>4, GrownOrder
<1>8. Grown(acc, c)
  BY <1>6, <1>7, GrownOrder
<1> QED BY <1>1, <1>3, <1>8

\* The search of a body only adds to what was found.
LEMMA CollectSitesGrows ==
    ASSUME prog \in Programs, NEW acc \in Accs, NEW sites \in Seq(SitesOf(prog))
    PROVE  Grown(acc, CollectSites(acc, sites))
<1> DEFINE n == Len(sites)
           D == {a \in Accs : Grown(acc, a)}
           G == [p \in (1 .. n) \X D |-> CollectSite(p[2], sites[p[1]])]
           Is(g) == g = [i \in 0 .. n |-> IF i = 0 THEN acc ELSE CollectSite(g[i - 1], sites[i])]
           val == CHOOSE g : Is(g)
<1>1. n \in Nat /\ \A i \in 1 .. n : sites[i] \in SitesOf(prog)
  OBVIOUS
<1>2. acc \in D
  BY GrownOrder
<1>3. ASSUME NEW i \in 1 .. n, NEW a \in D PROVE CollectSite(a, sites[i]) \in D
  <2> DEFINE site == sites[i]
             b == CollectSite(a, site)
  <2>1. site \in SitesOf(prog) /\ a \in Accs /\ Grown(acc, a)
    BY <1>1
  <2>2. Grown(a, b)
    <3> HIDE DEF site
    <3> QED BY <2>1, CollectSiteGrows
  <2> HIDE DEF b
  <2>3. Grown(acc, b) /\ b \in Accs
    BY <2>1, <2>2, GrownOrder DEF Grown
  <2> QED BY <2>3 DEF b
<1>4. G \in [(1 .. n) \X D -> D]
  <2> HIDE DEF D
  <2> QED BY <1>3
<1>5. CollectSites(acc, sites) = val[n]
  BY DEF CollectSites
<1>6. PICK g : Builds(n, D, acc, G, g)
  <2> HIDE DEF G, n, D
  <2> QED BY ONLY <1>1, <1>2, <1>4, Recursion
<1>7. Is(g)
  <2>1. g \in [0 .. n -> D] /\ g[0] = acc /\ \A i \in 1 .. n : g[i] = G[<<i, g[i - 1]>>]
    BY <1>6 DEF Builds
  <2>2. \A i \in 1 .. n : i - 1 \in 0 .. n
    BY <1>1
  <2> HIDE DEF D
  <2>3. \A i \in 1 .. n : g[i] = CollectSite(g[i - 1], sites[i])
    BY <2>1, <2>2
  <2>4. \A i \in 0 .. n : g[i] = IF i = 0 THEN acc ELSE CollectSite(g[i - 1], sites[i])
    BY <1>1, <2>1, <2>3
  <2> HIDE DEF n
  <2> QED BY <2>1, <2>4
<1>8. Is(val)
  <2> HIDE DEF Is
  <2> QED BY <1>7
<1> HIDE DEF val
<1>9. val[0] = acc /\ \A i \in 1 .. n : val[i] = CollectSite(val[i - 1], sites[i])
  <2> HIDE DEF n
  <2> QED BY <1>1, <1>8
<1>10. \A i \in 0 .. n : val[i] \in D
  <2> HIDE DEF D, n
  <2>1. \A i \in 1 .. n : val[i - 1] \in D => val[i] \in D
    BY <1>3, <1>9
  <2> QED BY <1>1, <1>2, <1>9, <2>1, Stays
<1>11. val[n] \in D
  <2> HIDE DEF D
  <2> QED BY <1>1, <1>10
<1> QED BY <1>5, <1>11

-----------------------------------------------------------------------------
(* Translation *)

\* Effects at a line, and finitely many of them.
At(line) == {x \in EffectsOf(prog) : x.line = line}
Told(S, line) == IsFiniteSet(S) /\ S \subseteq At(line)

LEMMA ToldSets ==
    ASSUME NEW line
    PROVE  /\ Told({}, line) /\ \A x \in At(line) : Told({x}, line)
           /\ \A S, T : Told(S, line) /\ Told(T, line) => Told(S \cup T, line)
<1>1. IsFiniteSet({}) /\ \A x : IsFiniteSet({x})
  BY FS_EmptySet, FS_Singleton
<1>2. \A S, T : IsFiniteSet(S) /\ IsFiniteSet(T) => IsFiniteSet(S \cup T)
  BY FS_Union
<1> QED BY <1>1, <1>2 DEF Told

LEMMA ToldImage ==
    ASSUME NEW line, NEW g, NEW S, IsFiniteSet(S), \A x \in S : g[x] \in At(line)
    PROVE  Told({g[x] : x \in S}, line)
<1>1. IsFiniteSet({g[x] : x \in S})
  BY FiniteImage
<1>2. {g[x] : x \in S} \subseteq At(line)
  OBVIOUS
<1> QED BY <1>1, <1>2 DEF Told

LEMMA ToldUnions ==
    ASSUME NEW line, NEW g, NEW S, IsFiniteSet(S), \A x \in S : Told(g[x], line)
    PROVE  Told(UNION {g[x] : x \in S}, line)
<1> DEFINE T == {g[x] : x \in S}
<1>1. IsFiniteSet(T)
  BY FiniteImage
<1>2. \A t \in T : IsFiniteSet(t) /\ t \subseteq At(line)
  BY DEF Told
<1> HIDE DEF T
<1>3. IsFiniteSet(UNION T)
  BY <1>1, <1>2, FS_UNION
<1>4. Told(UNION T, line)
  BY <1>2, <1>3 DEF Told
<1> QED BY <1>4 DEF T

\* An effect with another name, binding or depth.
LEMMA Rewritten ==
    ASSUME NEW line, NEW x \in At(line)
    PROVE  /\ x \in EffectsOf(prog) /\ x.line = line
           /\ \A v \in Variable \cup {NoVar} : [x EXCEPT !.binding = v] \in At(line)
           /\ \A v \in Variable : [x EXCEPT !.name = v] \in At(line)
           /\ \A w \in Whats : [x EXCEPT !.what = w] \in At(line)
           /\ \A w \in Whats, v \in Variable : [x EXCEPT !.what = w, !.name = v] \in At(line)
           /\ \A b \in BOOLEAN : [x EXCEPT !.deep = b] \in At(line)
<1>1. x \in EffectsOf(prog) /\ x.line = line
  BY DEF At
<1>2. \A v \in Variable \cup {NoVar} : [x EXCEPT !.binding = v] \in At(line)
  BY <1>1 DEF At, EffectsOf, Variable
<1>3. \A v \in Variable : [x EXCEPT !.name = v] \in At(line)
  BY <1>1 DEF At, EffectsOf, Variable
<1>4. \A w \in Whats : [x EXCEPT !.what = w] \in At(line)
  BY <1>1 DEF At, EffectsOf
<1>5. \A w \in Whats, v \in Variable : [x EXCEPT !.what = w, !.name = v] \in At(line)
  BY <1>1 DEF At, EffectsOf, Variable
<1>6. \A b \in BOOLEAN : [x EXCEPT !.deep = b] \in At(line)
  BY <1>1 DEF At, EffectsOf
<1> QED BY <1>1, <1>2, <1>3, <1>4, <1>5, <1>6

LEMMA OriginEffectsTold ==
    ASSUME NEW line, NEW x \in At(line), NEW storage, IsStorage(prog, storage)
    PROVE  Told(OriginEffects(x, storage), line)
<1> DEFINE S == storage.origins \cup IF storage.origins = {} \/ storage.ambient THEN {NoVar} ELSE {}
           g == [o \in S |-> [x EXCEPT !.binding = o]]
<1>1. IsFiniteSet(S) /\ S \subseteq Variable \cup {NoVar}
  <2>1. storage.origins \subseteq Variable /\ IsFiniteSet(storage.origins)
    BY DEF IsStorage, Variable
  <2>2. IsFiniteSet({NoVar}) /\ IsFiniteSet({})
    BY FS_EmptySet, FS_Singleton
  <2> QED BY <2>1, <2>2, FS_Union
<1>2. OriginEffects(x, storage) = {g[o] : o \in S}
  BY DEF OriginEffects
<1> HIDE DEF S
<1>3. \A o \in S : g[o] \in At(line)
  BY <1>1, Rewritten
<1> HIDE DEF g
<1> QED BY <1>1, <1>2, <1>3, ToldImage

LEMMA ArgumentPartTyped ==
    ASSUME NEW line, NEW x \in At(line), NEW f, NEW v \in Variable
    PROVE  ArgumentPart(f, v, x) \in At(line)
<1>1. {"package variable", "receiver write", "parameter write"} \subseteq Whats
  BY DEF Whats
<1>2. /\ [x EXCEPT !.name = v] \in At(line)
      /\ [x EXCEPT !.what = "package variable", !.name = v] \in At(line)
      /\ [x EXCEPT !.what = "receiver write", !.name = v] \in At(line)
      /\ [x EXCEPT !.what = "parameter write", !.name = v] \in At(line)
  BY <1>1, Rewritten
<1> QED BY <1>2 DEF ArgumentPart

LEMMA OriginNameTyped ==
    ASSUME prog \in Programs, NEW line, NEW x \in At(line), NEW f \in Callable, NEW v \in Variable
    PROVE  OriginName(f, v, x) \in At(line)
<1>1. {"receiver write", "local write"} \subseteq Whats
  BY DEF Whats
<1>2. x.binding \in Variable \cup {NoVar}
  BY DEF At, EffectsOf, Variable
<1>3. x.binding # NoVar =>
        /\ [x EXCEPT !.what = "receiver write", !.name = x.binding] \in At(line)
        /\ [x EXCEPT !.name = x.binding] \in At(line)
  BY <1>1, <1>2, Rewritten
<1>4. [x EXCEPT !.what = "local write"] \in At(line)
  BY <1>1, Rewritten
<1>5. \A i \in DOMAIN Fn(f).params : Fn(f).params[i] = x.binding => x.binding # NoVar
  <2>1. Fn(f).params \in Seq(Variable)
    BY FunctionFacts
  <2> QED BY <2>1, ProgramFacts
<1> QED BY <1>3, <1>4, <1>5 DEF OriginName

LEMMA ArgumentEffectsTold ==
    ASSUME prog \in Programs, NEW line, NEW x \in At(line), NEW f \in Callable, NEW e \in Expr
    PROVE  Told(ArgumentEffects(f, e, x), line)
<1> DEFINE storage == StorageOf(prog, f, e)
           part == ArgumentPart(f, e.var, x)
           S == OriginEffects(part, storage)
           g == [y \in S |-> OriginName(f, e.var, y)]
<1>1. IsStorage(prog, storage)
  BY FunctionFacts
<1>2. Told({}, line) /\ Told(OriginEffects(x, storage), line)
  BY <1>1, ToldSets, OriginEffectsTold
<1>3. CASE HasRoot(e)
  <2>1. e.var \in Variable
    BY <1>3, ExpressionFacts
  <2>2. part \in At(line)
    BY <2>1, ArgumentPartTyped
  <2>3. Told(S, line)
    <3> HIDE DEF part, storage
    <3> QED BY <1>1, <2>2, OriginEffectsTold
  <2>4. ArgumentEffects(f, e, x) \in {{}, {g[y] : y \in S}}
    BY <1>3 DEF ArgumentEffects
  <2> HIDE DEF S
  <2>5. \A y \in S : g[y] \in At(line)
    BY <2>1, <2>3, OriginNameTyped DEF Told
  <2> HIDE DEF g
  <2>6. Told({g[y] : y \in S}, line)
    BY <2>3, <2>5, ToldImage DEF Told
  <2> QED BY <1>2, <2>4, <2>6
<1>4. CASE ~ HasRoot(e)
  <2>1. ArgumentEffects(f, e, x) \in {{}, OriginEffects(x, storage)}
    BY <1>4 DEF ArgumentEffects
  <2> HIDE DEF storage
  <2> QED BY <1>2, <2>1
<1> QED BY <1>3, <1>4

LEMMA ParameterArgumentsTyped ==
    ASSUME NEW callee, NEW args \in Seq(Expr), NEW index \in Nat \ {0}
    PROVE  /\ ParameterArguments(callee, args, index) \subseteq Expr
           /\ IsFiniteSet(ParameterArguments(callee, args, index))
<1>1. DOMAIN args = 1 .. Len(args) /\ Len(args) \in Nat /\ \A i \in DOMAIN args : args[i] \in Expr
  OBVIOUS
<1>2. IsFiniteSet(index .. Len(args)) /\ IsFiniteSet({index} \cap DOMAIN args)
  <2>1. IsFiniteSet(index .. Len(args))
    BY <1>1, FS_Interval
  <2>2. {index} \cap DOMAIN args \in SUBSET {index} /\ IsFiniteSet({index})
    BY FS_Singleton
  <2> QED BY <2>1, <2>2, FS_Subset
<1>3. /\ IsFiniteSet({args[i] : i \in index .. Len(args)})
      /\ IsFiniteSet({args[i] : i \in {index} \cap DOMAIN args})
  BY <1>2, FiniteImage
<1>4. /\ {args[i] : i \in index .. Len(args)} \subseteq Expr
      /\ {args[i] : i \in {index} \cap DOMAIN args} \subseteq Expr
  BY <1>1
<1> QED BY <1>3, <1>4 DEF ParameterArguments

\* The effects on all of some arguments.
LEMMA ArgumentsTold ==
    ASSUME prog \in Programs, NEW line, NEW x \in At(line), NEW f \in Callable,
           NEW S, IsFiniteSet(S), S \subseteq Expr
    PROVE  Told(UNION {ArgumentEffects(f, a, x) : a \in S}, line)
<1> DEFINE g == [a \in S |-> ArgumentEffects(f, a, x)]
<1>1. \A a \in S : Told(g[a], line)
  BY ArgumentEffectsTold
<1>2. UNION {ArgumentEffects(f, a, x) : a \in S} = UNION {g[a] : a \in S}
  OBVIOUS
<1> HIDE DEF g
<1> QED BY <1>1, <1>2, ToldUnions

LEMMA ParameterEffectsTold ==
    ASSUME prog \in Programs, NEW line, NEW x \in At(line), NEW f \in Callable,
           NEW callee, NEW args \in Seq(Expr), NEW index \in Nat \ {0}
    PROVE  Told(ParameterEffects(f, callee, args, index, x), line)
<1> DEFINE actual == ParameterArguments(callee, args, index)
<1>1. actual \subseteq Expr /\ IsFiniteSet(actual)
  BY ParameterArgumentsTyped
<1>2. [x EXCEPT !.binding = NoVar] \in At(line)
  BY Rewritten
<1>3. ParameterEffects(f, callee, args, index, x) \in
        {{}, {[x EXCEPT !.binding = NoVar]}, UNION {ArgumentEffects(f, a, x) : a \in actual}}
  BY DEF ParameterEffects
<1> HIDE DEF actual
<1>4. Told(UNION {ArgumentEffects(f, a, x) : a \in actual}, line)
  BY <1>1, ArgumentsTold
<1>5. Told({}, line) /\ Told({[x EXCEPT !.binding = NoVar]}, line)
  BY <1>2, ToldSets
<1> QED BY <1>3, <1>4, <1>5

\* A call whose effects can be translated.
Usable(edge) ==
    /\ edge.callee \in Callable /\ edge.args \in Seq(Expr)
    /\ edge.line \in Nat /\ edge.range \in BOOLEAN
    /\ edge.fun.kind = "method" => edge.fun.recv \in Expr /\ edge.fun.typed \in BOOLEAN
    /\ IsFiniteSet(edge.factory)
    /\ \A e \in edge.factory : e.fn \in Callable /\ e.args \in Seq(Expr)

LEMMA EdgeUsable ==
    ASSUME prog \in Programs, NEW edge \in EdgeRecord
    PROVE  Usable(edge)
<1>1. /\ edge.callee \in Callable /\ edge.args \in Seq(Expr) /\ edge.line \in Nat \ {0}
      /\ edge.range \in BOOLEAN /\ edge.fun \in Expr
      /\ edge.factory \in SUBSET Expr /\ \A e \in edge.factory : e.kind = "call"
  BY DEF EdgeRecord, Expr, Callable
<1>2. IsFiniteSet(edge.factory)
  BY <1>1, ProgramFacts, FS_Subset
<1>3. \A e \in edge.factory : IsNamed(e.fn) /\ e.args \in Seq(Expr)
  BY <1>1, ExpressionFacts
<1>4. edge.fun.kind = "method" => edge.fun.recv \in Expr /\ edge.fun.typed \in BOOLEAN
  BY <1>1, ExpressionFacts
<1> QED BY <1>1, <1>2, <1>3, <1>4 DEF Usable, IsNamed

LEMMA ReceiverEffectsTold ==
    ASSUME prog \in Programs, NEW line, NEW x \in At(line), NEW f \in Callable, NEW edge, Usable(edge)
    PROVE  Told(ReceiverEffects(f, edge, x), line)
<1>1. CASE edge.fun.kind = "method"
  <2> DEFINE y == [x EXCEPT !.deep = @ \/ ~ edge.fun.typed]
             e == edge.fun.recv
  <2>1. e \in Expr /\ edge.fun.typed \in BOOLEAN
    BY <1>1 DEF Usable
  <2>2. y \in At(line)
    <3>1. x.deep \in BOOLEAN
      BY DEF At, EffectsOf
    <3> QED BY <2>1, <3>1, Rewritten
  <2>3. ReceiverEffects(f, edge, x) = ArgumentEffects(f, e, y)
    BY <1>1 DEF ReceiverEffects
  <2> HIDE DEF y, e
  <2> QED BY <2>1, <2>2, <2>3, ArgumentEffectsTold
<1>2. CASE edge.fun.kind # "method"
  <2>1. [x EXCEPT !.binding = NoVar] \in At(line)
    BY Rewritten
  <2> QED BY <1>2, <2>1, ToldSets DEF ReceiverEffects
<1> QED BY <1>1, <1>2

LEMMA CapturedEffectsTold ==
    ASSUME prog \in Programs, NEW line, NEW x \in At(line), NEW f \in Callable
    PROVE  Told(CapturedEffects(f, x), line)
<1> DEFINE e == [kind |-> "var", var |-> x.binding]
<1>1. Told({}, line) /\ Told({x}, line)
  BY ToldSets
<1>2. CASE x.binding \in Tracked(f, x.line)
  <2>1. e \in Expr
    BY <1>2, FunctionFacts DEF Tracked
  <2>2. CapturedEffects(f, x) = ArgumentEffects(f, e, x)
    BY <1>2 DEF CapturedEffects
  <2> HIDE DEF e
  <2> QED BY <2>1, <2>2, ArgumentEffectsTold
<1>3. CASE x.binding \notin Tracked(f, x.line)
  BY <1>1, <1>3 DEF CapturedEffects
<1> QED BY <1>2, <1>3

LEMMA ParamIndexesTyped ==
    ASSUME prog \in Programs, NEW f \in Callable, NEW v
    PROVE  ParamIndexes(f, v) \subseteq Nat \ {0} /\ IsFiniteSet(ParamIndexes(f, v))
<1>1. Fn(f).params \in Seq(Variable)
  BY FunctionFacts
<1>2. DOMAIN Fn(f).params = 1 .. Len(Fn(f).params) /\ Len(Fn(f).params) \in Nat
  BY <1>1
<1>3. IsFiniteSet(1 .. Len(Fn(f).params)) /\ ParamIndexes(f, v) \in SUBSET (1 .. Len(Fn(f).params))
  BY <1>2, FS_Interval DEF ParamIndexes
<1>4. 1 .. Len(Fn(f).params) \subseteq Nat \ {0}
  BY <1>2
<1> QED BY <1>3, <1>4, FS_Subset

LEMMA OperandTyped ==
    ASSUME prog \in Programs, NEW f \in Callable, NEW edge, Usable(edge), NEW e \in Expr
    PROVE  SubstitutedOperand(f, edge, e) \subseteq Expr
<1> DEFINE index == CHOOSE i \in ParamIndexes(edge.callee, e.var) : TRUE
           actual == IF Fn(edge.callee).variadic /\ index = Len(Fn(edge.callee).params) THEN {}
                     ELSE ParameterArguments(edge.callee, edge.args, index)
           S == {IF e.kind = "part" /\ HasRoot(a) THEN Element(a) ELSE a : a \in actual}
<1>1. CASE HasRoot(e) /\ ParamIndexes(edge.callee, e.var) # {} /\ Var(e.var).kind # "global"
  <2>1. index \in Nat \ {0}
    BY <1>1, ParamIndexesTyped DEF Usable
  <2>2. actual \subseteq Expr
    <3> HIDE DEF index
    <3>1. ParameterArguments(edge.callee, edge.args, index) \subseteq Expr
      BY <2>1, ParameterArgumentsTyped DEF Usable
    <3> QED BY <3>1
  <2>3. SubstitutedOperand(f, edge, e) = S
    BY <1>1 DEF SubstitutedOperand
  <2> HIDE DEF actual
  <2> QED BY <2>2, <2>3, ElementTyped
<1>2. CASE ~ (HasRoot(e) /\ ParamIndexes(edge.callee, e.var) # {} /\ Var(e.var).kind # "global")
  BY <1>2 DEF SubstitutedOperand
<1> QED BY <1>1, <1>2

LEMMA SubstitutedTyped ==
    ASSUME prog \in Programs, NEW f \in Callable, NEW edge, Usable(edge), NEW e \in Expr
    PROVE  Substituted(f, edge, e) \subseteq Expr
<1>1. CASE e.kind # "method"
  BY <1>1, OperandTyped DEF Substituted
<1>2. CASE e.kind = "method"
  <2> DEFINE S == {y \in SubstitutedOperand(f, edge, e.recv) : y.kind # "method"}
  <2>1. e.recv \in Expr /\ \A x \in Expr : x.kind # "method" => [e EXCEPT !.recv = x] \in Expr
    BY <1>2, ExpressionFacts
  <2>2. S \subseteq Expr /\ \A x \in S : x.kind # "method"
    BY <2>1, OperandTyped
  <2>3. Substituted(f, edge, e) = {[e EXCEPT !.recv = x] : x \in S}
    BY <1>2 DEF Substituted
  <2> HIDE DEF S
  <2> QED BY <2>1, <2>2, <2>3
<1> QED BY <1>1, <1>2

LEMMA CallableBindingTyped ==
    ASSUME prog \in Programs, NEW f \in Callable, NEW edge, Usable(edge), NEW v
    PROVE  CallableBinding(f, edge, v) \in Variable \cup {NoVar}
<1> DEFINE index == CHOOSE i \in ParamIndexes(edge.callee, v) : TRUE
<1>1. CASE ParamIndexes(edge.callee, v) # {}
  <2>1. CallableBinding(f, edge, v) =
          IF index \in DOMAIN edge.args /\ edge.args[index].kind = "var" THEN edge.args[index].var ELSE NoVar
    BY <1>1 DEF CallableBinding
  <2> HIDE DEF index
  <2>2. index \in DOMAIN edge.args => edge.args[index] \in Expr
    BY DEF Usable
  <2>3. index \in DOMAIN edge.args /\ edge.args[index].kind = "var" => edge.args[index].var \in Variable
    BY <2>2, ExpressionFacts DEF HasRoot
  <2> QED BY <2>1, <2>3
<1>2. CASE ParamIndexes(edge.callee, v) = {}
  <2>1. v \in Tracked(f, edge.line) \/ Owns(f, v) => v \in Variable
    BY FunctionFacts DEF Owns, Tracked
  <2> QED BY <1>2, <2>1 DEF CallableBinding
<1> QED BY <1>1, <1>2

LEMMA CallableEffectTyped ==
    ASSUME prog \in Programs, NEW line, NEW x \in At(line), NEW f \in Callable, NEW edge, Usable(edge)
    PROVE  CallableEffect(f, edge, x) \in At(line)
<1> DEFINE binding == CallableBinding(f, edge, x.binding)
           args == [i \in DOMAIN x.args |-> Substituted(f, edge, x.args[i])]
           picked == [i \in DOMAIN args |-> CHOOSE a \in args[i] : TRUE]
           hopeless == binding = NoVar \/ \E i \in DOMAIN args : args[i] = {}
<1>1. /\ x \in EffectsOf(prog) /\ x.line = line /\ x.args \in Seq(Expr)
      /\ Len(x.args) \in Nat /\ DOMAIN x.args = 1 .. Len(x.args)
      /\ \A i \in DOMAIN x.args : x.args[i] \in Expr
  <2>1. x \in EffectsOf(prog) /\ x.line = line /\ x.args \in Seq(Expr)
    BY DEF At, EffectsOf, Expr
  <2> QED BY <2>1
<1>2. binding \in Variable \cup {NoVar}
  BY CallableBindingTyped
<1>3. CASE hopeless
  <2> DEFINE empty == <<>>
  <2>1. CallableEffect(f, edge, x) = [x EXCEPT !.binding = NoVar, !.callable = FALSE, !.args = empty]
    BY <1>3 DEF CallableEffect
  <2>2. empty \in Seq(prog.exprs)
    OBVIOUS
  <2> HIDE DEF empty
  <2> QED BY <1>1, <2>1, <2>2 DEF At, EffectsOf
<1>4. CASE ~ hopeless
  <2>1. CallableEffect(f, edge, x) = [x EXCEPT !.binding = binding, !.args = picked]
    BY <1>4 DEF CallableEffect
  <2>2. picked \in Seq(Expr)
    <3>1. DOMAIN args = 1 .. Len(x.args)
      BY <1>1
    <3>2. ASSUME NEW i \in DOMAIN args PROVE (CHOOSE a \in args[i] : TRUE) \in Expr
      <4>1. args[i] # {}
        BY <1>4
      <4>2. args[i] \subseteq Expr
        BY <1>1, SubstitutedTyped
      <4> HIDE DEF args
      <4> QED BY <4>1, <4>2
    <3> DEFINE n == Len(x.args)
               pick(i) == CHOOSE a \in args[i] : TRUE
    <3>3. n \in Nat /\ picked = [i \in 1 .. n |-> pick(i)] /\ \A i \in 1 .. n : pick(i) \in Expr
      BY <1>1, <3>1, <3>2
    <3> HIDE DEF n, pick, picked
    <3> QED BY <3>3
  <2> HIDE DEF binding, picked
  <2> QED BY <1>1, <1>2, <2>1, <2>2 DEF At, EffectsOf, Variable, Expr
<1> QED BY <1>3, <1>4

\* What an effect is to the caller: finitely many effects at the call.
LEMMA TranslatedTold ==
    ASSUME prog \in Programs, NEW f \in Callable, NEW edge, Usable(edge), NEW x \in EffectsOf(prog)
    PROVE  Told(Translated(f, edge, x), edge.line)
<1> DEFINE line == edge.line
           fact == [x EXCEPT !.line = line]
           v == fact.binding
           index == ParamIndexes(edge.callee, v)
           made == {e \in edge.factory : ParamIndexes(e.fn, v) # {}}
           ofIndex == [i \in index |-> ParameterEffects(f, edge.callee, edge.args, i, fact)]
<1>1. line \in Nat /\ edge.callee \in Callable /\ edge.args \in Seq(Expr)
  BY DEF Usable
<1>2. fact \in At(line)
  BY <1>1 DEF At, EffectsOf
<1>3. fact.callable \in BOOLEAN /\ fact.access \in BOOLEAN
  BY <1>2 DEF At, EffectsOf
<1>4. Translated(f, edge, x) \in
        {{CallableEffect(f, edge, fact)}, {fact}, {},
         UNION {ParameterEffects(f, edge.callee, edge.args, i, fact) : i \in index},
         ReceiverEffects(f, edge, fact),
         UNION {UNION {ParameterEffects(f, e.fn, e.args, i, fact) : i \in ParamIndexes(e.fn, v)} : e \in made},
         CapturedEffects(f, fact)}
  <2> HIDE DEF fact, line
  <2>1. Translated(f, edge, x) =
          CASE fact.callable -> {CallableEffect(f, edge, fact)}
            [] ~ fact.callable /\ v = NoVar -> {fact}
            [] ~ fact.callable /\ v # NoVar /\ fact.access -> IF Owns(f, v) THEN {} ELSE {fact}
            [] OTHER ->
                IF index # {} THEN UNION {ParameterEffects(f, edge.callee, edge.args, i, fact) : i \in index}
                ELSE IF v = Fn(edge.callee).receiver THEN ReceiverEffects(f, edge, fact)
                ELSE IF made # {}
                  THEN UNION {UNION {ParameterEffects(f, e.fn, e.args, i, fact) :
                                i \in ParamIndexes(e.fn, v)} : e \in made}
                ELSE CapturedEffects(f, fact)
    BY DEF Translated, fact, line
  <2> HIDE DEF v, index, made
  <2>2. CASE fact.callable
    BY <2>1, <2>2
  <2>3. CASE ~ fact.callable /\ v = NoVar
    BY <2>1, <2>3
  <2>4. CASE ~ fact.callable /\ v # NoVar /\ fact.access
    BY <2>1, <2>4
  <2>5. CASE ~ fact.callable /\ v # NoVar /\ ~ fact.access
    BY <2>1, <2>5
  <2> QED BY <1>3, <2>2, <2>3, <2>4, <2>5
<1> HIDE DEF fact, line
<1>5. Told({CallableEffect(f, edge, fact)}, line) /\ Told({fact}, line) /\ Told({}, line)
  BY <1>2, CallableEffectTyped, ToldSets
<1>6. Told(ReceiverEffects(f, edge, fact), line) /\ Told(CapturedEffects(f, fact), line)
  BY <1>2, ReceiverEffectsTold, CapturedEffectsTold
<1> HIDE DEF v
<1>7. Told(UNION {ParameterEffects(f, edge.callee, edge.args, i, fact) : i \in index}, line)
  <2>1. index \subseteq Nat \ {0} /\ IsFiniteSet(index)
    BY <1>1, ParamIndexesTyped
  <2> HIDE DEF index
  <2>2. \A i \in index : Told(ofIndex[i], line)
    BY <1>1, <1>2, <2>1, ParameterEffectsTold
  <2>3. {ParameterEffects(f, edge.callee, edge.args, i, fact) : i \in index} = {ofIndex[i] : i \in index}
    OBVIOUS
  <2> HIDE DEF ofIndex
  <2> QED BY <2>1, <2>2, <2>3, ToldUnions
<1>8. Told(UNION {UNION {ParameterEffects(f, e.fn, e.args, i, fact) : i \in ParamIndexes(e.fn, v)} : e \in made}, line)
  <2>1. ASSUME NEW e \in made
        PROVE  Told(UNION {ParameterEffects(f, e.fn, e.args, i, fact) : i \in ParamIndexes(e.fn, v)}, line)
    <3> DEFINE I == ParamIndexes(e.fn, v)
               g == [i \in I |-> ParameterEffects(f, e.fn, e.args, i, fact)]
    <3>1. e.fn \in Callable /\ e.args \in Seq(Expr)
      BY DEF Usable
    <3>2. I \subseteq Nat \ {0} /\ IsFiniteSet(I)
      BY <3>1, ParamIndexesTyped
    <3> HIDE DEF I
    <3>3. \A i \in I : Told(g[i], line)
      BY <1>2, <3>1, <3>2, ParameterEffectsTold
    <3>4. {ParameterEffects(f, e.fn, e.args, i, fact) : i \in I} = {g[i] : i \in I}
      OBVIOUS
    <3> HIDE DEF g
    <3>5. Told(UNION {ParameterEffects(f, e.fn, e.args, i, fact) : i \in I}, line)
      BY <3>2, <3>3, <3>4, ToldUnions
    <3> QED BY <3>5 DEF I
  <2> DEFINE g == [e \in made |-> UNION {ParameterEffects(f, e.fn, e.args, i, fact) : i \in ParamIndexes(e.fn, v)}]
  <2>2. IsFiniteSet(made)
    <3>1. made \in SUBSET edge.factory /\ IsFiniteSet(edge.factory)
      BY DEF Usable
    <3> HIDE DEF made
    <3> QED BY <3>1, FS_Subset
  <2> HIDE DEF made
  <2>3. \A e \in made : Told(g[e], line)
    BY <2>1
  <2>4. {UNION {ParameterEffects(f, e.fn, e.args, i, fact) : i \in ParamIndexes(e.fn, v)} : e \in made} = {g[e] : e \in made}
    OBVIOUS
  <2> HIDE DEF g
  <2> QED BY <2>2, <2>3, <2>4, ToldUnions
<1> QED BY <1>4, <1>5, <1>6, <1>7, <1>8 DEF line

-----------------------------------------------------------------------------
(* Propagation *)

LEMMA TranslatedAllTold ==
    ASSUME prog \in Programs, NEW f \in Callable, NEW edge, Usable(edge),
           NEW S, IsFiniteSet(S), S \subseteq EffectsOf(prog)
    PROVE  Told(UNION {Translated(f, edge, x) : x \in S}, edge.line)
<1> DEFINE g == [x \in S |-> Translated(f, edge, x)]
<1>1. \A x \in S : Told(g[x], edge.line)
  BY TranslatedTold
<1>2. {Translated(f, edge, x) : x \in S} = {g[x] : x \in S}
  OBVIOUS
<1> HIDE DEF g
<1> QED BY <1>1, <1>2, ToldUnions

FactsTyped == facts \in [Node -> [Kinds -> Seq(EffectsOf(prog))]]

LEMMA FactsFinite ==
    ASSUME FactsTyped, NEW f \in Node, NEW k \in Kinds
    PROVE  IsFiniteSet(Range(facts[f][k])) /\ Range(facts[f][k]) \subseteq EffectsOf(prog)
<1>1. facts[f][k] \in Seq(EffectsOf(prog))
  BY DEF FactsTyped
<1> QED BY <1>1, FiniteRange

\* Sets of effects that an edge adds one after the other.
Batches(line) == {S \in SUBSET At(line) : IsFiniteSet(S)}

LEMMA ThroughCallbackTold ==
    ASSUME prog \in Programs, FactsTyped, NEW f \in Callable, NEW edge \in EdgeRecord,
           NEW x \in EffectsOf(prog), NEW actual \in Callable, NEW k \in Kinds
    PROVE  ThroughCallback(f, edge, x, actual, k) \in Seq(Batches(edge.line))
<1> DEFINE inner == [edge EXCEPT !.line = 0, !.callee = actual, !.args = x.args, !.factory = {},
                                 !.fun = [kind |-> "func", fn |-> actual]]
           effects == IF actual \in Node THEN facts[actual][k] ELSE <<>>
           batch(i) == UNION {Translated(f, edge, y) : y \in Translated(edge.callee, inner, effects[i])}
<1>1. Usable(edge) /\ edge.callee \in Callable /\ edge.range \in BOOLEAN
  BY EdgeUsable DEF Usable
<1>2. effects \in Seq(EffectsOf(prog))
  BY DEF FactsTyped
<1>3. ThroughCallback(f, edge, x, actual, k) = [i \in DOMAIN effects |-> batch(i)]
  BY DEF ThroughCallback
<1>4. Usable(inner) /\ inner.line = 0
  <2>1. x.args \in Seq(Expr)
    BY DEF EffectsOf, Expr
  <2>2. /\ inner.callee = actual /\ inner.args = x.args /\ inner.factory = {}
        /\ inner.fun = [kind |-> "func", fn |-> actual]
        /\ inner.line = 0 /\ inner.range = edge.range
    BY DEF EdgeRecord
  <2> HIDE DEF inner
  <2>3. inner.fun.kind # "method"
    BY <2>2
  <2> QED BY <1>1, <2>1, <2>2, <2>3, FS_EmptySet DEF Usable
<1> HIDE DEF inner, effects
<1>5. ASSUME NEW i \in DOMAIN effects PROVE batch(i) \in Batches(edge.line)
  <2> DEFINE local == Translated(edge.callee, inner, effects[i])
  <2>1. effects[i] \in EffectsOf(prog)
    BY <1>2
  <2>2. Told(local, inner.line)
    BY <1>1, <1>4, <2>1, TranslatedTold
  <2> HIDE DEF local
  <2>3. IsFiniteSet(local) /\ local \subseteq EffectsOf(prog)
    BY <2>2 DEF Told, At
  <2>4. Told(UNION {Translated(f, edge, y) : y \in local}, edge.line)
    BY <1>1, <2>3, TranslatedAllTold
  <2> QED BY <2>4 DEF Told, Batches, local
<1> HIDE DEF batch
<1> QED BY <1>2, <1>3, <1>5

\* The callables that an unknown call is known to make.
LEMMA KnownTyped ==
    ASSUME prog \in Programs, order \in Graphs, NEW edge \in EdgeRecord, NEW x \in EffectsOf(prog)
    PROVE  Known(edge, x) \subseteq Callable /\ IsFiniteSet(Known(edge, x))
<1> DEFINE index == {i \in ParamIndexes(edge.callee, x.binding) : i \in DOMAIN edge.args}
           g == [i \in index |-> Resolution(order, edge.args[i]).fn]
           fns == {g[i] : i \in index}
<1>1. edge.callee \in Callable /\ edge.args \in Seq(Expr)
  BY DEF EdgeRecord, Callable, Expr
<1>2. IsFiniteSet(index)
  <2>1. index \in SUBSET ParamIndexes(edge.callee, x.binding)
    OBVIOUS
  <2> HIDE DEF index
  <2> QED BY <1>1, <2>1, ParamIndexesTyped, FS_Subset
<1>3. ASSUME NEW i \in index PROVE g[i] \in Callable \cup {NoFunc}
  <2>1. edge.args[i] \in Expr
    BY <1>1
  <2> QED BY <2>1, ResolutionFacts DEF Results
<1>4. Known(edge, x) \in {fns \ {NoFunc}, {}}
  BY DEF Known
<1> HIDE DEF index, g
<1>5. IsFiniteSet(fns) /\ fns \subseteq Callable \cup {NoFunc}
  BY <1>2, <1>3, FiniteImage
<1> HIDE DEF fns
<1>6. IsFiniteSet(fns \ {NoFunc})
  BY <1>5, FS_Difference
<1> QED BY <1>4, <1>5, <1>6, FS_EmptySet

LEMMA FromUnknownTold ==
    ASSUME prog \in Programs, order \in Graphs, FactsTyped, NEW f \in Callable, NEW edge \in EdgeRecord,
           NEW x \in EffectsOf(prog), NEW k \in Kinds
    PROVE  FromUnknown(f, edge, x, k) \in Seq(Batches(edge.line))
<1> DEFINE known == Known(edge, x)
           passed == CHOOSE a \in known : TRUE
           own == Translated(f, edge, x)
<1>1. known \subseteq Callable
  BY KnownTyped
<1>2. \/ FromUnknown(f, edge, x, k) = <<>>
      \/ known # {} /\ FromUnknown(f, edge, x, k) = ThroughCallback(f, edge, x, passed, k)
      \/ FromUnknown(f, edge, x, k) = <<own>>
  BY DEF FromUnknown
<1> HIDE DEF known
<1>3. known # {} => passed \in Callable
  BY <1>1
<1> HIDE DEF passed
<1>4. known # {} => ThroughCallback(f, edge, x, passed, k) \in Seq(Batches(edge.line))
  BY <1>3, ThroughCallbackTold
<1>5. own \in Batches(edge.line)
  BY EdgeUsable, TranslatedTold DEF Told, Batches
<1> HIDE DEF own
<1>6. <<>> \in Seq(Batches(edge.line)) /\ <<own>> \in Seq(Batches(edge.line))
  <2> DEFINE S == Batches(edge.line)
  <2>1. own \in S
    BY <1>5
  <2> HIDE DEF S
  <2>2. <<>> \in Seq(S) /\ <<own>> \in Seq(S)
    BY <2>1
  <2> QED BY <2>2 DEF S
<1> QED BY <1>2, <1>4, <1>6

\* What an edge adds to the caller are finitely many effects at its line, for
\* one effect of the callee after the other.
LEMMA ContributionsTold ==
    ASSUME prog \in Programs, order \in Graphs, FactsTyped, NEW f \in Callable, NEW edge \in EdgeRecord,
           edge.callee \in Node, NEW k \in Kinds
    PROVE  Contributions(f, edge, k) \in Seq(Batches(edge.line))
<1> DEFINE called == facts[edge.callee][k]
           unknown == facts[edge.callee]["unknown"]
           S == Batches(edge.line)
           own == IF k = "unknown" THEN <<>> ELSE [i \in DOMAIN called |-> Translated(f, edge, called[i])]
           ss == [i \in DOMAIN unknown |-> FromUnknown(f, edge, unknown[i], k)]
<1>1. "unknown" \in Kinds /\ facts[edge.callee].unknown = facts[edge.callee]["unknown"]
  BY DEF Kinds
<1>2. Contributions(f, edge, k) = own \o FlattenSeq(ss)
  BY DEF Contributions
<1>3. unknown \in Seq(EffectsOf(prog)) /\ called \in Seq(EffectsOf(prog))
  BY <1>1 DEF FactsTyped
<1> HIDE DEF unknown, called
<1>4. own \in Seq(S)
  <2>1. ASSUME NEW i \in DOMAIN called PROVE Translated(f, edge, called[i]) \in S
    <3>1. called[i] \in EffectsOf(prog)
      BY <1>3
    <3> QED BY <3>1, EdgeUsable, TranslatedTold DEF Told, Batches
  <2> HIDE DEF S
  <2> QED BY <1>3, <2>1
<1>5. ss \in Seq(Seq(S))
  <2>1. ASSUME NEW i \in DOMAIN unknown PROVE FromUnknown(f, edge, unknown[i], k) \in Seq(S)
    <3>1. unknown[i] \in EffectsOf(prog)
      BY <1>3
    <3> QED BY <3>1, FromUnknownTold
  <2> DEFINE T == Seq(S)
  <2>2. \A i \in DOMAIN unknown : FromUnknown(f, edge, unknown[i], k) \in T
    BY <2>1
  <2> HIDE DEF T
  <2>3. ss \in Seq(T)
    BY <1>3, <2>2
  <2> QED BY <2>3 DEF T
<1> HIDE DEF own, ss, S
<1>6. FlattenSeq(ss) \in Seq(S)
  BY <1>5, FlattenElements
<1>7. own \o FlattenSeq(ss) \in Seq(S)
  BY <1>4, <1>6
<1> QED BY <1>2, <1>7 DEF S

-----------------------------------------------------------------------------
(* Facts are added *)

\* An effect at another line.
Moved(x, line) == [x EXCEPT !.line = line]

\* It is the same effect still.
LEMMA MovedFacts ==
    ASSUME NEW x \in Placed, NEW line \in Nat \ {0}
    PROVE  Moved(x, line) \in Placed /\ Moved(x, line).line = line /\ SameEffect(x, Moved(x, line))
<1>1. x \in EffectsOf(prog) /\ x.line \in Nat
  BY DEF Placed, EffectsOf
<1> DEFINE y == Moved(x, line)
<1>2. y \in EffectsOf(prog) /\ y.line = line
  BY <1>1 DEF Moved, EffectsOf
<1>3. [x EXCEPT !.line = 0, !.args = <<>>] = [y EXCEPT !.line = 0, !.args = <<>>]
  BY <1>1 DEF Moved, EffectsOf
<1> HIDE DEF y
<1>4. y \in Placed
  BY <1>2 DEF Placed
<1> QED BY <1>2, <1>3, <1>4 DEF y, SameEffect

\* Facts are kept through any number of steps, and what was among them stays.
LEMMA KeepsOrder ==
    /\ \A s \in Seq(EffectsOf(prog)) : Keeps(s, s)
    /\ \A s, t, u \in Seq(EffectsOf(prog)) : Keeps(s, t) /\ Keeps(t, u) => Keeps(s, u)
    /\ \A s, t \in Seq(EffectsOf(prog)) : \A x \in EffectsOf(prog) : Keeps(s, t) /\ Among(x, s) => Among(x, t)
    /\ \A s, t \in Seq(EffectsOf(prog)) : Extends(s, t) => Keeps(s, t)
<1>1. \A s \in Seq(EffectsOf(prog)) : \A i \in DOMAIN s : s[i].line \in Nat
  <2>1. \A x \in EffectsOf(prog) : x.line \in Nat
    BY DEF EffectsOf
  <2> QED BY <2>1
<1>2. \A s \in Seq(EffectsOf(prog)) : Len(s) \in Nat /\ DOMAIN s = 1 .. Len(s)
  OBVIOUS
<1>3. \A a : SameEffect(a, a)
  BY DEF SameEffect
<1>4. \A a, b, c : SameEffect(a, b) /\ SameEffect(b, c) => SameEffect(a, c)
  BY DEF SameEffect
<1>5. \A a, b : SameEffect(a, b) => SameEffect(b, a)
  BY DEF SameEffect
<1>6. \A x \in EffectsOf(prog) : x.line \in Nat
  BY DEF EffectsOf
<1> DEFINE E == EffectsOf(prog)
<1> HIDE DEF E
<1>7. \A s \in Seq(E) : Keeps(s, s)
  BY <1>1, <1>2, <1>3 DEF Keeps, E
<1>8. ASSUME NEW s \in Seq(E), NEW t \in Seq(E), NEW u \in Seq(E), Keeps(s, t), Keeps(t, u)
      PROVE  Keeps(s, u)
  <2>1. Len(s) <= Len(u) /\ \A i \in DOMAIN s : i \in DOMAIN t /\ i \in DOMAIN u
    BY <1>2, <1>8 DEF Keeps, E
  <2>2. ASSUME NEW i \in DOMAIN s PROVE SameEffect(s[i], u[i]) /\ u[i].line <= s[i].line
    <3>1. SameEffect(s[i], t[i]) /\ SameEffect(t[i], u[i]) /\ t[i].line <= s[i].line /\ u[i].line <= t[i].line
      BY <1>8, <2>1 DEF Keeps
    <3>2. s[i].line \in Nat /\ t[i].line \in Nat /\ u[i].line \in Nat
      BY <1>1, <2>1 DEF E
    <3> QED BY <1>4, <3>1, <3>2
  <2> QED BY <2>1, <2>2 DEF Keeps
<1>9. ASSUME NEW s \in Seq(E), NEW t \in Seq(E), NEW x \in E, Keeps(s, t), Among(x, s)
      PROVE  Among(x, t)
  <2>1. PICK i \in DOMAIN s : SameEffect(s[i], x) /\ s[i].line <= x.line
    BY <1>9 DEF Among
  <2>2. i \in DOMAIN t /\ SameEffect(s[i], t[i]) /\ t[i].line <= s[i].line
    BY <1>2, <1>9 DEF Keeps, E
  <2>3. SameEffect(t[i], x)
    BY <1>4, <1>5, <2>1, <2>2
  <2>4. t[i].line <= x.line
    BY <1>1, <1>6, <2>1, <2>2 DEF E
  <2> QED BY <2>2, <2>3, <2>4 DEF Among
<1>10. ASSUME NEW s \in Seq(E), NEW t \in Seq(E), Extends(s, t) PROVE Keeps(s, t)
  BY <1>1, <1>2, <1>3, <1>10 DEF Keeps, Extends, E
<1> QED BY <1>7, <1>8, <1>9, <1>10 DEF E

\* An effect that is added is among the facts, and the others are kept.
LEMMA AddEffectKeeps ==
    ASSUME NEW s \in Seq(Placed), NEW x \in Placed
    PROVE  /\ AddEffect(s, x) \in Seq(Placed) /\ Keeps(s, AddEffect(s, x))
           /\ Among(x, AddEffect(s, x))
<1> DEFINE same == {j \in DOMAIN s : SameEffect(s[j], x)}
           i == CHOOSE j \in same : TRUE
           t == AddEffect(s, x)
<1>1. /\ s \in Seq(EffectsOf(prog)) /\ \A j \in DOMAIN s : s[j] \in Placed /\ s[j].line \in Nat \ {0}
      /\ x \in EffectsOf(prog) /\ x.line \in Nat \ {0} /\ SameEffect(x, x)
  <2>1. \A y \in EffectsOf(prog) : y.line \in Nat
    BY DEF EffectsOf
  <2>2. \A y \in Placed : y \in EffectsOf(prog) /\ y.line \in Nat \ {0}
    BY <2>1 DEF Placed
  <2>3. SameEffect(x, x)
    BY DEF SameEffect
  <2> QED BY <2>2, <2>3
<1>2. Keeps(s, s)
  BY <1>1, KeepsOrder
<1>3. CASE same = {}
  <2>1. t = Append(s, x)
    BY <1>3 DEF AddEffect
  <2> HIDE DEF t, same
  <2>2. /\ t \in Seq(Placed) /\ Extends(s, t)
    BY <2>1, AppendExtends
  <2>3. t[Len(s) + 1] = x /\ Len(s) + 1 \in DOMAIN t
    <3>1. Len(s) \in Nat /\ Len(t) = Len(s) + 1 /\ t[Len(s) + 1] = x /\ DOMAIN t = 1 .. Len(t)
      BY <2>1
    <3> QED BY <3>1
  <2>4. t \in Seq(EffectsOf(prog))
    BY <2>2 DEF Placed
  <2>5. Keeps(s, t)
    BY <1>1, <2>2, <2>4, KeepsOrder
  <2>6. Among(x, t)
    BY <1>1, <2>3 DEF Among
  <2> QED BY <2>2, <2>5, <2>6 DEF t
<1>4. CASE same # {}
  <2>1. i \in same
    BY <1>4
  <2>2. t = IF x.line > 0 /\ (s[i].line = 0 \/ x.line < s[i].line)
              THEN [s EXCEPT ![i].line = x.line] ELSE s
    BY <1>4 DEF AddEffect
  <2>3. i \in DOMAIN s /\ SameEffect(s[i], x)
    BY <2>1
  <2> HIDE DEF i, t, same
  <2>4. CASE ~ x.line < s[i].line
    <3>1. t = s /\ s[i].line <= x.line
      BY <1>1, <2>2, <2>3, <2>4
    <3> QED BY <1>2, <2>3, <3>1 DEF Among, t
  <2>5. CASE x.line < s[i].line
    <3> DEFINE y == Moved(s[i], x.line)
    <3>1. y \in Placed /\ y.line = x.line /\ SameEffect(s[i], y)
      BY <1>1, <2>3, MovedFacts
    <3>2. t = [s EXCEPT ![i] = y]
      BY <1>1, <2>2, <2>5 DEF Moved
    <3> HIDE DEF y
    <3>3. t \in Seq(Placed) /\ Len(t) = Len(s) /\ DOMAIN t = DOMAIN s /\ Len(s) \in Nat
      BY <2>3, <3>1, <3>2
    <3>4. \A j \in DOMAIN s : t[j] = IF j = i THEN y ELSE s[j]
      BY <3>2
    <3>5. \A j \in DOMAIN s : SameEffect(s[j], s[j])
      BY DEF SameEffect
    <3>6. \A j \in DOMAIN s : SameEffect(s[j], t[j]) /\ t[j].line <= s[j].line
      BY <1>1, <2>3, <2>5, <3>1, <3>4, <3>5
    <3>7. Keeps(s, t)
      BY <3>3, <3>6 DEF Keeps
    <3>8. SameEffect(t[i], x) /\ t[i].line <= x.line
      <4>1. SameEffect(y, x)
        BY <2>3, <3>1 DEF SameEffect
      <4> QED BY <1>1, <2>3, <3>1, <3>4, <4>1
    <3>9. Among(x, t)
      BY <2>3, <3>3, <3>8 DEF Among
    <3> QED BY <3>3, <3>7, <3>9 DEF t
  <2> QED BY <2>4, <2>5
<1> QED BY <1>3, <1>4

\* The effects still to add, and the facts with the others.
Adding(s, new) ==
    {p \in [left : SUBSET new, known : Seq(Placed)] :
        Keeps(s, p.known) /\ \A x \in new \ p.left : Among(x, p.known)}

AddedOne(p) ==
    LET x == CHOOSE y \in p.left : TRUE
    IN  [left |-> p.left \ {x}, known |-> AddEffect(p.known, x)]

LEMMA AddedOneKeeps ==
    ASSUME NEW s \in Seq(Placed), NEW new \in SUBSET Placed, NEW p \in Adding(s, new), p.left # {}
    PROVE  AddedOne(p) \in Adding(s, new) /\ \E x \in p.left : AddedOne(p).left = p.left \ {x}
<1> DEFINE x == CHOOSE y \in p.left : TRUE
           known == AddEffect(p.known, x)
           q == AddedOne(p)
<1>1. x \in p.left
  OBVIOUS
<1>2. q = [left |-> p.left \ {x}, known |-> known]
  BY DEF AddedOne
<1> HIDE DEF x, q
<1>3. /\ p.left \in SUBSET new /\ p.known \in Seq(Placed) /\ Keeps(s, p.known)
      /\ \A y \in new \ p.left : Among(y, p.known)
  BY DEF Adding
<1>4. known \in Seq(Placed) /\ Keeps(p.known, known) /\ Among(x, known)
  BY <1>1, <1>3, AddEffectKeeps
<1> HIDE DEF known
<1>5. \A t \in Seq(Placed) : t \in Seq(EffectsOf(prog))
  BY DEF Placed
<1>6. Keeps(s, known)
  BY <1>3, <1>4, <1>5, KeepsOrder
<1>7. \A y \in new : y \in EffectsOf(prog)
  BY DEF Placed
<1>8. ASSUME NEW y \in new \ (p.left \ {x}) PROVE Among(y, known)
  <2>1. CASE y = x
    BY <1>4, <2>1
  <2>2. CASE y # x
    BY <1>3, <1>4, <1>5, <1>7, <2>2, KeepsOrder
  <2> QED BY <2>1, <2>2
<1>9. q.left = p.left \ {x} /\ q.known = known /\ q \in [left : SUBSET new, known : Seq(Placed)]
  BY <1>2, <1>3, <1>4
<1>10. q \in Adding(s, new)
  BY <1>6, <1>8, <1>9 DEF Adding
<1> QED BY <1>1, <1>9, <1>10 DEF q

\* Effects that are added are among the facts, and the others are kept.
LEMMA AddEffectsKeep ==
    ASSUME NEW s \in Seq(Placed), NEW new \in SUBSET Placed, IsFiniteSet(new)
    PROVE  /\ AddEffects(s, new) \in Seq(Placed) /\ Keeps(s, AddEffects(s, new))
           /\ \A x \in new : Among(x, AddEffects(s, new))
<1> DEFINE n == Cardinality(new)
           D == Adding(s, new)
           start == [left |-> new, known |-> s]
           G == [c \in (1 .. n) \X D |-> IF c[2].left = {} THEN c[2] ELSE AddedOne(c[2])]
           Is(g) == g = [i \in 0 .. n |-> IF i = 0 THEN start ELSE AddedOne(g[i - 1])]
           val == CHOOSE g : Is(g)
           Inv(p, i) == p \in D /\ Cardinality(p.left) = n - i
<1>1. n \in Nat
  BY FS_CardinalityType
<1>2. start \in D
  <2>1. s \in Seq(EffectsOf(prog))
    BY DEF Placed
  <2>2. Keeps(s, s)
    BY <2>1, KeepsOrder
  <2> QED BY <2>2 DEF Adding
<1>3. \A p \in D : p.left # {} => AddedOne(p) \in D /\ \E x \in p.left : AddedOne(p).left = p.left \ {x}
  BY AddedOneKeeps
<1>4. \A p \in D : p.left \in SUBSET new /\ IsFiniteSet(p.left)
  <2>1. \A p \in D : p.left \in SUBSET new
    BY DEF Adding
  <2> HIDE DEF D
  <2> QED BY <2>1, FS_Subset
<1>5. AddEffects(s, new) = val[n].known
  BY DEF AddEffects, AddedOne
<1>6. Inv(start, 0)
  BY <1>1, <1>2
<1> HIDE DEF D
<1>7. ASSUME NEW i \in 1 .. n, NEW p, Inv(p, i - 1) PROVE p.left # {} /\ Inv(AddedOne(p), i)
  <2>1. Cardinality(p.left) = n - (i - 1) /\ p \in D /\ IsFiniteSet(p.left)
    BY <1>4, <1>7
  <2>2. p.left # {}
    <3>1. n - (i - 1) # 0
      BY <1>1
    <3> QED BY <2>1, <3>1, FS_EmptySet
  <2>3. PICK x \in p.left : AddedOne(p).left = p.left \ {x}
    BY <1>3, <2>1, <2>2
  <2>4. Cardinality(p.left \ {x}) = Cardinality(p.left) - 1
    BY <2>1, FS_RemoveElement
  <2>5. Cardinality(AddedOne(p).left) = n - i
    BY <1>1, <2>1, <2>3, <2>4
  <2> QED BY <1>3, <2>1, <2>2, <2>5
<1>8. start \in D
  BY <1>6
<1> HIDE DEF start
<1>9. G \in [(1 .. n) \X D -> D]
  BY <1>3
<1>10. PICK g : Builds(n, D, start, G, g)
  <2> HIDE DEF G, n
  <2> QED BY ONLY <1>1, <1>8, <1>9, Recursion
<1>11. ASSUME NEW h, h[0] = start, \A i \in 1 .. n : Inv(h[i - 1], i - 1) => Inv(h[i], i)
       PROVE  \A i \in 0 .. n : Inv(h[i], i)
  <2> DEFINE S == {i \in 0 .. n : Inv(h[i], i)}
  <2> HIDE DEF Inv
  <2>1. 0 \in S
    BY <1>1, <1>6, <1>11
  <2>2. \A i \in 0 .. n - 1 : i \in S => i + 1 \in S
    <3> SUFFICES ASSUME NEW i \in 0 .. n - 1, i \in S PROVE i + 1 \in S
      OBVIOUS
    <3>1. i + 1 \in 1 .. n /\ (i + 1) - 1 = i
      BY <1>1
    <3> HIDE DEF n
    <3> QED BY <1>1, <1>11, <3>1
  <2>3. \A i \in 0 .. n : i \in S
    <3> HIDE DEF S, n
    <3> QED BY <1>1, <2>1, <2>2, Inductive
  <2> HIDE DEF n
  <2> QED BY <2>3
<1> HIDE DEF Inv, n
<1>12. g \in [0 .. n -> D] /\ g[0] = start /\ \A i \in 1 .. n : g[i] = G[<<i, g[i - 1]>>]
  BY <1>10 DEF Builds
<1>13. \A i \in 1 .. n : i - 1 \in 0 .. n /\ g[i - 1] \in D
  BY <1>1, <1>12
<1>14. \A i \in 1 .. n : g[i] = IF g[i - 1].left = {} THEN g[i - 1] ELSE AddedOne(g[i - 1])
  BY <1>12, <1>13
<1> HIDE DEF G
<1>15. \A i \in 1 .. n : Inv(g[i - 1], i - 1) => g[i] = AddedOne(g[i - 1]) /\ Inv(g[i], i)
  BY <1>7, <1>14
<1>16. \A i \in 0 .. n : Inv(g[i], i)
  BY <1>11, <1>12, <1>15
<1>17. Is(g)
  <2>1. \A i \in 1 .. n : g[i] = AddedOne(g[i - 1])
    BY <1>13, <1>15, <1>16
  <2>2. \A i \in 0 .. n : g[i] = IF i = 0 THEN start ELSE AddedOne(g[i - 1])
    BY <1>1, <1>12, <2>1
  <2> QED BY <1>12, <2>2
<1>18. Is(val)
  <2> HIDE DEF Is
  <2> QED BY <1>17
<1> HIDE DEF val
<1>19. val[0] = start /\ \A i \in 1 .. n : val[i] = AddedOne(val[i - 1])
  BY <1>1, <1>18
<1>20. \A i \in 0 .. n : Inv(val[i], i)
  BY <1>7, <1>11, <1>19
<1>21. Inv(val[n], n)
  BY <1>1, <1>20
<1>22. val[n] \in D /\ val[n].left = {}
  <2>1. Cardinality(val[n].left) = 0 /\ val[n] \in D
    BY <1>1, <1>21 DEF Inv
  <2> QED BY <1>4, <2>1, FS_EmptySet
<1> QED BY <1>5, <1>22 DEF D, Adding

\* So are the effects of sets that are added one after the other.
LEMMA AddInTurnKeeps ==
    ASSUME NEW s \in Seq(Placed), NEW sets \in Seq({S \in SUBSET Placed : IsFiniteSet(S)})
    PROVE  /\ AddInTurn(s, sets) \in Seq(Placed) /\ Keeps(s, AddInTurn(s, sets))
           /\ \A x \in UNION Range(sets) : Among(x, AddInTurn(s, sets))
<1> DEFINE n == Len(sets)
           D == Seq(Placed)
           G == [c \in (1 .. n) \X D |-> AddEffects(c[2], sets[c[1]])]
           Is(g) == g = [i \in 0 .. n |-> IF i = 0 THEN s ELSE AddEffects(g[i - 1], sets[i])]
           val == CHOOSE g : Is(g)
           Holds(i) == /\ val[i] \in D /\ Keeps(s, val[i])
                       /\ \A j \in 1 .. i : \A x \in sets[j] : Among(x, val[i])
<1>1. n \in Nat /\ DOMAIN sets = 1 .. n
  OBVIOUS
<1>2. \A i \in 1 .. n : sets[i] \in SUBSET Placed /\ IsFiniteSet(sets[i])
  OBVIOUS
<1>3. AddInTurn(s, sets) = val[n]
  BY DEF AddInTurn
<1>4. ASSUME NEW i \in 1 .. n, NEW t \in D
      PROVE  /\ AddEffects(t, sets[i]) \in D /\ Keeps(t, AddEffects(t, sets[i]))
             /\ \A x \in sets[i] : Among(x, AddEffects(t, sets[i]))
  BY <1>2, AddEffectsKeep
<1>5. \A t \in D : t \in Seq(EffectsOf(prog))
  BY DEF Placed
<1>6. \A i \in 1 .. n : \A x \in sets[i] : x \in EffectsOf(prog)
  BY <1>2 DEF Placed
<1>7. s \in D
  OBVIOUS
<1> HIDE DEF n, D
<1>8. G \in [(1 .. n) \X D -> D]
  BY <1>4
<1>9. PICK g : Builds(n, D, s, G, g)
  <2> HIDE DEF G
  <2> QED BY <1>1, <1>7, <1>8, Recursion
<1>10. g \in [0 .. n -> D] /\ g[0] = s /\ \A i \in 1 .. n : g[i] = G[<<i, g[i - 1]>>]
  BY <1>9 DEF Builds
<1>11. \A i \in 1 .. n : i - 1 \in 0 .. n /\ g[i - 1] \in D
  BY <1>1, <1>10
<1>12. \A i \in 1 .. n : g[i] = AddEffects(g[i - 1], sets[i])
  BY <1>10, <1>11
<1>13. Is(g)
  BY <1>1, <1>10, <1>12
<1>14. Is(val)
  <2> HIDE DEF Is
  <2> QED BY <1>13
<1> HIDE DEF val
<1>15. val[0] = s /\ \A i \in 1 .. n : val[i] = AddEffects(val[i - 1], sets[i])
  BY <1>1, <1>14
<1>16. Holds(0)
  BY <1>5, <1>7, <1>15, KeepsOrder
<1>17. ASSUME NEW i \in 0 .. n - 1, Holds(i) PROVE Holds(i + 1)
  <2> DEFINE m == i + 1
  <2>1. m \in 1 .. n /\ m - 1 = i
    BY <1>1
  <2>2. val[m] = AddEffects(val[i], sets[m])
    BY <1>15, <2>1
  <2>3. val[m] \in D /\ Keeps(val[i], val[m]) /\ \A x \in sets[m] : Among(x, val[m])
    BY <1>4, <1>17, <2>1, <2>2
  <2>4. Keeps(s, val[m])
    BY <1>5, <1>7, <1>17, <2>3, KeepsOrder
  <2>5. ASSUME NEW j \in 1 .. m, NEW x \in sets[j] PROVE Among(x, val[m])
    <3>1. CASE j = m
      BY <2>3, <2>5, <3>1
    <3>2. CASE j # m
      <4>1. j \in 1 .. i /\ j \in 1 .. n
        BY <1>1, <2>1, <3>2
      <4>2. Among(x, val[i]) /\ x \in EffectsOf(prog)
        BY <1>6, <1>17, <2>5, <4>1
      <4> QED BY <1>5, <1>17, <2>3, <4>2, KeepsOrder
    <3> QED BY <3>1, <3>2
  <2> QED BY <2>3, <2>4, <2>5
<1>18. Holds(n)
  <2> DEFINE S == {i \in 0 .. n : Holds(i)}
  <2> HIDE DEF Holds
  <2>1. 0 \in S
    BY <1>1, <1>16
  <2>2. \A i \in 0 .. n - 1 : i \in S => i + 1 \in S
    <3> SUFFICES ASSUME NEW i \in 0 .. n - 1, i \in S PROVE i + 1 \in S
      OBVIOUS
    <3> QED BY <1>1, <1>17
  <2>3. \A i \in 0 .. n : i \in S
    <3> HIDE DEF S
    <3> QED BY <1>1, <2>1, <2>2, Inductive
  <2> QED BY <1>1, <2>3
<1>19. ASSUME NEW x \in UNION Range(sets) PROVE Among(x, val[n])
  <2>1. PICK j \in 1 .. n : x \in sets[j]
    BY <1>1 DEF Range
  <2> QED BY <1>18, <2>1
<1> QED BY <1>3, <1>18, <1>19 DEF D

-----------------------------------------------------------------------------
(* Steps that change nothing that an operator depends on *)

\* The program has not changed.
Same == prog' = prog

LEMMA SameFn ==
    ASSUME Same
    PROVE  \A f : Fn(f)' = Fn(f)
BY DEF Same, Fn

LEMMA SameVar ==
    ASSUME Same
    PROVE  \A v : Var(v)' = Var(v)
BY DEF Same, Var

LEMMA SameSingle ==
    ASSUME Same
    PROVE  \A v : SingleBinding(v)' <=> SingleBinding(v)
BY SameVar DEF SingleBinding

LEMMA SameBinding ==
    ASSUME Same
    PROVE  \A v : BindingExpression(v)' = BindingExpression(v)
BY SameVar DEF BindingExpression

LEMMA SameBindings ==
    ASSUME Same
    PROVE  Bindings' = Bindings
<1>1. prog' = prog /\ (\A v : SingleBinding(v)' <=> SingleBinding(v)) /\ \A v : BindingExpression(v)' = BindingExpression(v)
  BY SameSingle, SameBinding DEF Same
<1> QED BY <1>1 DEF Bindings

LEMMA SameFollowed ==
    ASSUME Same
    PROVE  \A e : Followed(e)' = Followed(e)
BY SameBindings DEF Followed

LEMMA SameQuery ==
    ASSUME Same
    PROVE  Query' = Query
BY DEF Same, Query

LEMMA SameAdded ==
    ASSUME Same
    PROVE  \A n, f : Added(n, f)' = Added(n, f)
BY SameFn DEF Added, Subtree

LEMMA SameReturned ==
    ASSUME Same
    PROVE  \A q, f, inner : Returned(q, f, inner)' = Returned(q, f, inner)
<1> SUFFICES ASSUME NEW q, NEW f, NEW inner
             PROVE  Returned(q, f, inner)' = Returned(q, f, inner)
  OBVIOUS
<1> DEFINE results == Fn(f).returns
           start == Added(q.nodes, f)
           Is(choose) == choose = [i \in 0 .. Len(results) |->
            IF i = 0 THEN Found(NoFunc, start)
            ELSE LET prior == choose[i - 1]
                     next == inner[[expr |-> results[i], returning |-> q.returning \cup {f}, nodes |-> prior.nodes]]
                 IN  IF i > 1 /\ prior.fn = NoFunc THEN prior
                     ELSE IF i > 1 /\ next.fn # prior.fn THEN Found(NoFunc, next.nodes)
                     ELSE next]
           val == CHOOSE choose : Is(choose)
<1>1. results' = results /\ start' = start
  BY SameFn, SameAdded
<1>2. Returned(q, f, inner) = val[Len(results)] /\ Returned(q, f, inner)' = val'[Len(results')]
  BY DEF Returned
<1> HIDE DEF results, start
<1>3. \A g : Is(g)' <=> Is(g)
  BY <1>1
<1> HIDE DEF Is
<1>4. val' = val
  BY <1>3, Zenon
<1> QED BY <1>1, <1>2, <1>4

LEMMA SameDenoted ==
    ASSUME Same
    PROVE  \A q, inner : Denoted(q, inner)' = Denoted(q, inner)
<1> SUFFICES ASSUME NEW q, NEW inner
             PROVE  Denoted(q, inner)' = Denoted(q, inner)
  OBVIOUS
<1> DEFINE S == Followed(q.expr)
           e == CHOOSE x \in S : TRUE
           body == Fn(e.fn).body
           returned == Returned(q, e.fn, inner)
           val == CASE S = {} -> Found(NoFunc, q.nodes)
                    [] S # {} /\ e.kind = "lit" -> Found(IF Contains(q.nodes, e.fn) THEN e.fn ELSE NoFunc, q.nodes)
                    [] S # {} /\ e.kind = "func" -> Found(e.fn, q.nodes)
                    [] S # {} /\ e.kind = "call" /\ e.fn \notin q.returning /\ body -> returned
                    [] OTHER -> Found(NoFunc, q.nodes)
<1>1. S' = S
  BY SameFollowed
<1>2. Denoted(q, inner) = val /\ Denoted(q, inner)' = val'
  BY DEF Denoted
<1> HIDE DEF S
<1>3. e' = e
  BY <1>1
<1> HIDE DEF e
<1>4. body' = body /\ returned' = returned
  BY <1>3, SameFn, SameReturned
<1> HIDE DEF body, returned
<1>5. val' = val
  BY <1>1, <1>3, <1>4 DEF Found
<1> QED BY <1>2, <1>5

\* What an expression denotes is the same while the program is.
LEMMA SameResolution ==
    ASSUME Same
    PROVE  \A nodes, e : Resolution(nodes, e)' = Resolution(nodes, e)
<1> SUFFICES ASSUME NEW nodes, NEW e
             PROVE  Resolution(nodes, e)' = Resolution(nodes, e)
  OBVIOUS
<1> DEFINE depth == Cardinality(DOMAIN prog.funcs) + 1
           Is(resolve) == resolve = [k \in 0 .. depth |->
            [q \in Query |-> IF k = 0 THEN Found(NoFunc, q.nodes) ELSE Denoted(q, resolve[k - 1])]]
           val == CHOOSE resolve : Is(resolve)
<1>1. depth' = depth
  BY DEF Same
<1>2. /\ Resolution(nodes, e) = val[depth][[expr |-> e, returning |-> {}, nodes |-> nodes]]
      /\ Resolution(nodes, e)' = val'[depth'][[expr |-> e, returning |-> {}, nodes |-> nodes]]
  BY DEF Resolution
<1> HIDE DEF depth
<1>3. \A g : Is(g)' <=> Is(g)
  BY <1>1, SameQuery, SameDenoted
<1> HIDE DEF Is
<1>4. val' = val
  BY <1>3, Zenon
<1> QED BY <1>1, <1>2, <1>4

LEMMA SameIndexes ==
    ASSUME Same
    PROVE  /\ \A f, v : ParamIndexes(f, v)' = ParamIndexes(f, v)
           /\ \A f, v : Owns(f, v)' <=> Owns(f, v)
BY SameFn DEF ParamIndexes, Owns

LEMMA SamePart ==
    ASSUME Same
    PROVE  \A f, v, x : ArgumentPart(f, v, x)' = ArgumentPart(f, v, x)
BY SameFn, SameVar DEF ArgumentPart, Same

LEMMA SameOrigin ==
    ASSUME Same
    PROVE  \A f, v, x : OriginName(f, v, x)' = OriginName(f, v, x)
<1> SUFFICES ASSUME NEW f, NEW v, NEW x
             PROVE  OriginName(f, v, x)' = OriginName(f, v, x)
  OBVIOUS
<1> DEFINE params == Fn(f).params
           receiver == Fn(f).receiver
           shares == Var(x.binding).shares
           other == x.what # "parameter write" \/ x.name # v
           ofReceiver == x.binding # NoVar /\ x.binding = receiver
           ofParameter == \E i \in DOMAIN params : params[i] = x.binding /\ shares
           val == IF other THEN x
                  ELSE IF ofReceiver THEN [x EXCEPT !.what = "receiver write", !.name = x.binding]
                  ELSE IF ofParameter THEN [x EXCEPT !.name = x.binding]
                  ELSE [x EXCEPT !.what = "local write"]
<1>1. params' = params /\ receiver' = receiver /\ shares' = shares
  BY SameFn, SameVar
<1>2. OriginName(f, v, x) = val /\ OriginName(f, v, x)' = val'
  BY DEF OriginName
<1> HIDE DEF params, receiver, shares
<1>3. (ofReceiver' <=> ofReceiver) /\ (ofParameter' <=> ofParameter)
  BY <1>1
<1> HIDE DEF ofReceiver, ofParameter, other
<1>4. other' <=> other
  BY DEF other
<1>5. val' = val
  BY <1>3, <1>4
<1> HIDE DEF val
<1> QED BY <1>2, <1>5

\* So are the effects on an argument,
LEMMA SameArgument ==
    ASSUME Same
    PROVE  \A f, e, x : ArgumentEffects(f, e, x)' = ArgumentEffects(f, e, x)
BY SamePart, SameOrigin DEF ArgumentEffects, Same

LEMMA SameArguments ==
    ASSUME Same
    PROVE  \A c, args, i : ParameterArguments(c, args, i)' = ParameterArguments(c, args, i)
BY SameFn DEF ParameterArguments

\* on a parameter,
LEMMA SameParameter ==
    ASSUME Same
    PROVE  \A f, c, args, i, x : ParameterEffects(f, c, args, i, x)' = ParameterEffects(f, c, args, i, x)
<1> SUFFICES ASSUME NEW f, NEW c, NEW args, NEW i, NEW x
             PROVE  ParameterEffects(f, c, args, i, x)' = ParameterEffects(f, c, args, i, x)
  OBVIOUS
<1> DEFINE actual == ParameterArguments(c, args, i)
           all == UNION {ArgumentEffects(f, a, x) : a \in actual}
           rest == Fn(c).variadic /\ i = Len(Fn(c).params)
           val == IF rest THEN IF x.deep THEN all ELSE {}
                  ELSE IF actual = {} THEN {[x EXCEPT !.binding = NoVar]} ELSE all
<1>1. actual' = actual /\ (rest' <=> rest)
  BY SameFn, SameArguments
<1>2. ParameterEffects(f, c, args, i, x) = val /\ ParameterEffects(f, c, args, i, x)' = val'
  BY DEF ParameterEffects
<1> HIDE DEF actual, rest
<1>3. all' = all
  BY <1>1, SameArgument
<1> HIDE DEF all
<1> QED BY <1>1, <1>2, <1>3

LEMMA SameReceiver ==
    ASSUME Same
    PROVE  \A f, e, x : ReceiverEffects(f, e, x)' = ReceiverEffects(f, e, x)
BY SameArgument DEF ReceiverEffects

LEMMA SameTracked ==
    ASSUME Same
    PROVE  \A f, line : Tracked(f, line)' = Tracked(f, line)
BY SameFn DEF Tracked

LEMMA SameCaptured ==
    ASSUME Same
    PROVE  \A f, x : CapturedEffects(f, x)' = CapturedEffects(f, x)
BY SameTracked, SameIndexes, SameArgument DEF CapturedEffects

LEMMA SameOperand ==
    ASSUME Same
    PROVE  \A f, edge, e : SubstitutedOperand(f, edge, e)' = SubstitutedOperand(f, edge, e)
<1> SUFFICES ASSUME NEW f, NEW edge, NEW e
             PROVE  SubstitutedOperand(f, edge, e)' = SubstitutedOperand(f, edge, e)
  OBVIOUS
<1> DEFINE indexes == ParamIndexes(edge.callee, e.var)
           index == CHOOSE i \in indexes : TRUE
           rest == Fn(edge.callee).variadic /\ index = Len(Fn(edge.callee).params)
           given == ParameterArguments(edge.callee, edge.args, index)
           actual == IF rest THEN {} ELSE given
           of(a) == IF e.kind = "part" /\ HasRoot(a) THEN Element(a) ELSE a
           global == Var(e.var).kind = "global"
           tracked == e.var \in Tracked(f, edge.line)
           val == IF ~ HasRoot(e) THEN IF e.kind \in {"constant", "func"} THEN {e} ELSE {}
                  ELSE IF global THEN {e}
                  ELSE IF indexes # {} THEN {of(a) : a \in actual}
                  ELSE IF tracked THEN {e} ELSE {}
<1>1. indexes' = indexes /\ (global' <=> global) /\ (tracked' <=> tracked)
  BY SameTracked, SameVar, SameIndexes
<1>2. SubstitutedOperand(f, edge, e) = val /\ SubstitutedOperand(f, edge, e)' = val'
  BY DEF SubstitutedOperand
<1> HIDE DEF indexes, global, tracked
<1>3. index' = index
  BY <1>1
<1> HIDE DEF index
<1>4. (rest' <=> rest) /\ given' = given
  BY <1>3, SameFn, SameArguments
<1> HIDE DEF rest, given
<1>5. actual' = actual
  BY <1>4
<1> HIDE DEF actual, of
<1> QED BY <1>1, <1>2, <1>5

LEMMA SameSubstituted ==
    ASSUME Same
    PROVE  \A f, edge, e : Substituted(f, edge, e)' = Substituted(f, edge, e)
BY SameOperand DEF Substituted

LEMMA SameCallable ==
    ASSUME Same
    PROVE  \A f, edge, v : CallableBinding(f, edge, v)' = CallableBinding(f, edge, v)
<1> SUFFICES ASSUME NEW f, NEW edge, NEW v
             PROVE  CallableBinding(f, edge, v)' = CallableBinding(f, edge, v)
  OBVIOUS
<1> DEFINE indexes == ParamIndexes(edge.callee, v)
           index == CHOOSE i \in indexes : TRUE
           own == v \in Tracked(f, edge.line) \/ Owns(f, v)
           val == IF indexes # {}
                    THEN IF index \in DOMAIN edge.args /\ edge.args[index].kind = "var" THEN edge.args[index].var ELSE NoVar
                    ELSE IF own THEN v ELSE NoVar
<1>1. indexes' = indexes /\ (own' <=> own)
  BY SameTracked, SameIndexes
<1>2. CallableBinding(f, edge, v) = val /\ CallableBinding(f, edge, v)' = val'
  BY DEF CallableBinding
<1> HIDE DEF indexes, own
<1>3. index' = index
  BY <1>1
<1> HIDE DEF index
<1> QED BY <1>1, <1>2, <1>3

\* the unresolved calls of a parameter,
LEMMA SameCallableEffect ==
    ASSUME Same
    PROVE  \A f, edge, x : CallableEffect(f, edge, x)' = CallableEffect(f, edge, x)
<1> SUFFICES ASSUME NEW f, NEW edge, NEW x
             PROVE  CallableEffect(f, edge, x)' = CallableEffect(f, edge, x)
  OBVIOUS
<1> DEFINE binding == CallableBinding(f, edge, x.binding)
           args == [i \in DOMAIN x.args |-> Substituted(f, edge, x.args[i])]
           lost == binding = NoVar \/ \E i \in DOMAIN args : args[i] = {}
           chosen == [i \in DOMAIN args |-> CHOOSE a \in args[i] : TRUE]
           val == IF lost THEN [x EXCEPT !.binding = NoVar, !.callable = FALSE, !.args = <<>>]
                  ELSE [x EXCEPT !.binding = binding, !.args = chosen]
<1>1. binding' = binding /\ args' = args
  BY SameSubstituted, SameCallable
<1>2. CallableEffect(f, edge, x) = val /\ CallableEffect(f, edge, x)' = val'
  BY DEF CallableEffect
<1> HIDE DEF binding, args
<1>3. (lost' <=> lost) /\ chosen' = chosen
  BY <1>1
<1> HIDE DEF lost, chosen
<1> QED BY <1>1, <1>2, <1>3

\* and all that an effect of a callee is to a caller.
LEMMA SameTranslated ==
    ASSUME Same
    PROVE  \A f, edge, x : Translated(f, edge, x)' = Translated(f, edge, x)
<1> SUFFICES ASSUME NEW f, NEW edge, NEW x
             PROVE  Translated(f, edge, x)' = Translated(f, edge, x)
  OBVIOUS
<1> DEFINE fact == [x EXCEPT !.line = edge.line]
           v == fact.binding
           callable == CallableEffect(f, edge, fact)
           owns == Owns(f, v)
           index == ParamIndexes(edge.callee, v)
           made == {e \in edge.factory : ParamIndexes(e.fn, v) # {}}
           ofIndex == UNION {ParameterEffects(f, edge.callee, edge.args, i, fact) : i \in index}
           receives == v = Fn(edge.callee).receiver
           ofReceiver == ReceiverEffects(f, edge, fact)
           ofFactory == UNION {UNION {ParameterEffects(f, e.fn, e.args, i, fact) : i \in ParamIndexes(e.fn, v)} : e \in made}
           captured == CapturedEffects(f, fact)
           val == CASE fact.callable -> {callable}
                    [] ~ fact.callable /\ v = NoVar -> {fact}
                    [] ~ fact.callable /\ v # NoVar /\ fact.access -> IF owns THEN {} ELSE {fact}
                    [] OTHER -> IF index # {} THEN ofIndex
                                ELSE IF receives THEN ofReceiver
                                ELSE IF made # {} THEN ofFactory ELSE captured
<1>1. Translated(f, edge, x) = val /\ Translated(f, edge, x)' = val'
  BY DEF Translated
<1> HIDE DEF fact
<1>2. /\ callable' = callable /\ (owns' <=> owns) /\ index' = index /\ made' = made
      /\ (receives' <=> receives) /\ ofReceiver' = ofReceiver /\ captured' = captured
  BY SameFn, SameIndexes, SameCallableEffect, SameReceiver, SameCaptured
<1> HIDE DEF callable, owns, index, made, receives, ofReceiver, captured
<1>3. ofIndex' = ofIndex
  BY <1>2, SameParameter
<1>4. ofFactory' = ofFactory
  <2> DEFINE each(e) == UNION {ParameterEffects(f, e.fn, e.args, i, fact) : i \in ParamIndexes(e.fn, v)}
  <2>1. \A e : each(e)' = each(e)
    BY SameIndexes, SameParameter
  <2> HIDE DEF each
  <2>2. (UNION {each(e) : e \in made})' = UNION {each(e) : e \in made}
    BY <1>2, <2>1
  <2> QED BY <2>2 DEF each
<1> HIDE DEF ofIndex, ofFactory
<1> QED BY <1>1, <1>2, <1>3, <1>4

\* Nor have the graph and the facts.
Still == prog' = prog /\ order' = order /\ facts' = facts

LEMMA StillKnown ==
    ASSUME Still
    PROVE  \A edge, x : Known(edge, x)' = Known(edge, x)
<1>1. Same
  BY DEF Same, Still
<1> QED BY <1>1, SameIndexes, SameResolution DEF Known, Still

LEMMA StillThrough ==
    ASSUME Still
    PROVE  \A f, edge, x, a, k : ThroughCallback(f, edge, x, a, k)' = ThroughCallback(f, edge, x, a, k)
<1> SUFFICES ASSUME NEW f, NEW edge, NEW x, NEW a, NEW k
             PROVE  ThroughCallback(f, edge, x, a, k)' = ThroughCallback(f, edge, x, a, k)
  OBVIOUS
<1> DEFINE inner == [edge EXCEPT !.line = 0, !.callee = a, !.args = x.args, !.factory = {},
                                 !.fun = [kind |-> "func", fn |-> a]]
           effects == IF a \in Node THEN facts[a][k] ELSE <<>>
           batch(i) == UNION {Translated(f, edge, y) : y \in Translated(edge.callee, inner, effects[i])}
           val == [i \in DOMAIN effects |-> batch(i)]
<1>1. Same /\ effects' = effects
  BY DEF Same, Still, Node
<1>2. ThroughCallback(f, edge, x, a, k) = val /\ ThroughCallback(f, edge, x, a, k)' = val'
  BY DEF ThroughCallback
<1> HIDE DEF inner, effects
<1>3. inner' = inner
  BY DEF inner
<1>4. \A i : batch(i)' = batch(i)
  BY <1>1, <1>3, SameTranslated
<1> HIDE DEF batch
<1>5. val' = val
  BY <1>1, <1>4
<1> QED BY <1>2, <1>5

LEMMA StillFromUnknown ==
    ASSUME Still
    PROVE  \A f, edge, x, k : FromUnknown(f, edge, x, k)' = FromUnknown(f, edge, x, k)
<1> SUFFICES ASSUME NEW f, NEW edge, NEW x, NEW k
             PROVE  FromUnknown(f, edge, x, k)' = FromUnknown(f, edge, x, k)
  OBVIOUS
<1> DEFINE known == Known(edge, x)
           ranged == x.callable /\ edge.range /\ 1 \in ParamIndexes(edge.callee, x.binding)
           passed == CHOOSE a \in known : TRUE
           through == ThroughCallback(f, edge, x, passed, k)
           translated == Translated(f, edge, x)
           val == IF ranged THEN <<>> ELSE IF known # {} THEN through
                  ELSE IF k = "unknown" THEN <<translated>> ELSE <<>>
<1>1. Same
  BY DEF Same, Still
<1>2. FromUnknown(f, edge, x, k) = val /\ FromUnknown(f, edge, x, k)' = val'
  BY DEF FromUnknown
<1>3. known' = known /\ (ranged' <=> ranged) /\ translated' = translated
  BY <1>1, SameIndexes, StillKnown, SameTranslated
<1> HIDE DEF known, ranged, translated
<1>4. passed' = passed
  BY <1>3
<1> HIDE DEF passed
<1>5. through' = through
  BY <1>4, StillThrough
<1> HIDE DEF through
<1> QED BY <1>2, <1>3, <1>5

\* Nothing new comes along an edge while the graph and the facts are the same.
LEMMA StillPropagated ==
    ASSUME Still
    PROVE  \A f, edge, k : Propagated(f, edge, k)' = Propagated(f, edge, k)
<1> SUFFICES ASSUME NEW f, NEW edge, NEW k
             PROVE  Contributions(f, edge, k)' = Contributions(f, edge, k)
  BY DEF Propagated
<1> DEFINE called == facts[edge.callee]
           own == IF k = "unknown" THEN <<>> ELSE [i \in DOMAIN called[k] |-> Translated(f, edge, called[k][i])]
           ss == [i \in DOMAIN called.unknown |-> FromUnknown(f, edge, called.unknown[i], k)]
           rest == FlattenSeq(ss)
<1>1. Same /\ called' = called
  BY DEF Same, Still
<1>2. Contributions(f, edge, k) = own \o rest /\ Contributions(f, edge, k)' = own' \o rest'
  BY DEF Contributions
<1> HIDE DEF called
<1>3. own' = own
  BY <1>1, SameTranslated
<1>4. ss' = ss
  BY <1>1, StillFromUnknown
<1> HIDE DEF own, ss
<1>5. rest' = rest
  BY <1>4
<1> HIDE DEF rest
<1> QED BY <1>2, <1>3, <1>5

-----------------------------------------------------------------------------
(* The invariant *)

GraphPart == prog \in Programs /\ root \in prog.roots /\ order \in Graphs /\ root \in Node

\* The calls of the callables that were searched, of which one without a body
\* has none.
CallsPart ==
    /\ DOMAIN calls = {order[i] : i \in 1 .. collected}
    /\ \A f \in DOMAIN calls :
          /\ calls[f] \in Seq(EdgeRecord) /\ \A i \in DOMAIN calls[f] : calls[f][i].callee \in Node
          /\ calls[f] # <<>> => Fn(f).body

\* Only a callable without a body has a fact that has no place.
FactsPart == FactsTyped /\ \A f \in Node : Fn(f).body => \A k \in Kinds : facts[f][k] \in Seq(Placed)

ControlPart ==
    /\ collected \in 0 .. Len(order) /\ changed \in BOOLEAN /\ phase \in {"collect", "sweep", "done"}
    /\ turn \in (1 .. Len(order) + 1) \X (Nat \ {0})
    /\ phase = "collect" => turn = <<1, 1>>
    /\ phase # "collect" => collected = Len(order)

\* What an edge has to add is there.
Absorbed(f, edge) == \A k \in Kinds : \A x \in Propagated(f, edge, k) : Among(x, facts[f][k])

\* A sweep has been at an edge.
Behind(m, n) == m < turn[1] \/ (m = turn[1] /\ n < turn[2])

\* While a sweep has changed nothing, the edges behind it have nothing to add,
\* and no edge has when the sweeps have ended.
SweptPart ==
    phase # "collect" =>
        \A m \in DOMAIN order : \A n \in DOMAIN calls[order[m]] :
            (phase = "sweep" => ~ changed /\ Behind(m, n)) => Absorbed(order[m], calls[order[m]][n])

Invariant == GraphPart /\ CallsPart /\ FactsPart /\ ControlPart /\ SweptPart

LEMMA SameTypes ==
    ASSUME Same
    PROVE  Graphs' = Graphs /\ Placed' = Placed /\ EdgeRecord' = EdgeRecord /\ Callable' = Callable
<1>1. prog' = prog /\ \A f : Fn(f)' = Fn(f)
  BY SameFn DEF Same
<1>2. Callable' = Callable /\ \A f : IsNamed(f)' <=> IsNamed(f)
  BY <1>1 DEF Callable, IsNamed
<1>3. Placed' = Placed /\ EdgeRecord' = EdgeRecord
  BY <1>1 DEF Placed, EdgeRecord
<1>4. Graphs' = Graphs
  BY <1>1, <1>2 DEF Graphs
<1> QED BY <1>2, <1>3, <1>4

LEMMA PlacedSequences ==
    /\ \A s \in Seq(Placed) : s \in Seq(EffectsOf(prog))
    /\ \A s \in Graphs : s \in Seq(Callable) /\ IsInjective(s) /\ Len(s) \in Nat /\ DOMAIN s = 1 .. Len(s)
<1>1. \A s \in Seq(Placed) : s \in Seq(EffectsOf(prog))
  BY DEF Placed
<1>2. \A s \in Graphs : s \in Seq(Callable) /\ IsInjective(s)
  BY DEF Graphs
<1>3. \A s \in Seq(Callable) : Len(s) \in Nat /\ DOMAIN s = 1 .. Len(s)
  OBVIOUS
<1> QED BY <1>1, <1>2, <1>3

\* The invariant says what the type invariant says.
LEMMA InvariantTypes ==
    ASSUME Invariant
    PROVE  TypeOK
<1>1. order \in Seq(Callable) /\ IsInjective(order)
  BY PlacedSequences DEF Invariant, GraphPart
<1> QED BY <1>1 DEF TypeOK, Invariant, GraphPart, CallsPart, FactsPart, ControlPart, FactsTyped, Callable

LEMMA InitInvariant ==
    ASSUME Init
    PROVE  Invariant
<1>1. /\ prog \in Programs /\ root \in prog.roots /\ order = Subtree(root) /\ collected = 0
      /\ DOMAIN calls = {} /\ facts = [f \in Node |-> Fn(f).direct]
      /\ turn = <<1, 1>> /\ changed = FALSE /\ phase = "collect"
  BY DEF Init, NoFacts
<1>2. IsNamed(root)
  BY <1>1, ProgramFacts
<1>3. order \in Graphs /\ root \in Node
  BY <1>1, <1>2, SubtreeIsGraph DEF Node
<1>4. \A f \in Node : f \in Callable
  BY <1>3, PlacedSequences DEF Node, Range
<1>5. \A f \in Node : facts[f] \in [Kinds -> Seq(Placed)]
  BY <1>1, <1>4, FunctionFacts DEF Placed
<1>6. \A f \in Node : facts[f] \in [Kinds -> Seq(EffectsOf(prog))]
  BY <1>5, PlacedSequences
<1>7. FactsPart
  BY <1>1, <1>5, <1>6 DEF FactsPart, FactsTyped
<1>8. GraphPart
  BY <1>1, <1>3 DEF GraphPart
<1>9. CallsPart
  BY <1>1 DEF CallsPart
<1>10. ControlPart
  <2>1. Len(order) \in Nat
    BY <1>3, PlacedSequences
  <2>2. 0 \in 0 .. Len(order) /\ 1 \in 1 .. Len(order) + 1
    BY <2>1
  <2>3. <<1, 1>> \in (1 .. Len(order) + 1) \X (Nat \ {0})
    BY <2>2
  <2> QED BY <1>1, <2>2, <2>3 DEF ControlPart
<1>11. SweptPart
  BY <1>1 DEF SweptPart
<1> QED BY <1>7, <1>8, <1>9, <1>10, <1>11 DEF Invariant

-----------------------------------------------------------------------------
(* The calls of a callable are collected *)

\* What is known when it has been searched.
Searched(f) ==
    LET start == [nodes |-> order, calls |-> <<>>, unknown |-> facts[f].unknown]
    IN  IF Fn(f).body THEN CollectSites(start, Fn(f).sites)
        ELSE [start EXCEPT !.unknown = Append(@, Effect(0, "unavailable function body", "", NoVar))]

LEMMA SearchedFacts ==
    ASSUME prog \in Programs, order \in Graphs, FactsPart, NEW f \in Node
    PROVE  /\ Searched(f).nodes \in Graphs /\ Extends(order, Searched(f).nodes)
           /\ Searched(f).calls \in Seq(EdgeRecord)
           /\ \A i \in DOMAIN Searched(f).calls : Searched(f).calls[i].callee \in Range(Searched(f).nodes)
           /\ Searched(f).unknown \in Seq(EffectsOf(prog)) /\ Keeps(facts[f]["unknown"], Searched(f).unknown)
           /\ Fn(f).body => Searched(f).unknown \in Seq(Placed)
           /\ Searched(f).calls # <<>> => Fn(f).body
<1> DEFINE known == facts[f]["unknown"]
           start == [nodes |-> order, calls |-> <<>>, unknown |-> known]
           end == Searched(f)
<1>1. "unknown" \in Kinds /\ facts[f].unknown = known
  BY DEF Kinds
<1>2. known \in Seq(EffectsOf(prog)) /\ (Fn(f).body => known \in Seq(Placed)) /\ f \in Callable
  BY <1>1, PlacedSequences DEF FactsPart, FactsTyped, Node, Range
<1>3. Extends(order, order)
  BY PlacedSequences, ExtendsOrder
<1>4. end = IF Fn(f).body THEN CollectSites(start, Fn(f).sites)
            ELSE [start EXCEPT !.unknown = Append(known, Effect(0, "unavailable function body", "", NoVar))]
  BY <1>1 DEF Searched
<1> HIDE DEF known, end
<1>5. CASE Fn(f).body
  <2>1. start \in Accs
    BY <1>2, <1>5 DEF Accs
  <2>2. Fn(f).sites \in Seq(SitesOf(prog))
    BY <1>2, FunctionFacts
  <2>3. start.nodes = order /\ start.unknown = known
    OBVIOUS
  <2> HIDE DEF start
  <2>4. Grown(start, end)
    BY <1>4, <1>5, <2>1, <2>2, CollectSitesGrows
  <2>5. /\ end.nodes \in Graphs /\ Extends(order, end.nodes) /\ end.calls \in Seq(EdgeRecord)
        /\ end.unknown \in Seq(Placed) /\ Extends(known, end.unknown)
        /\ \A i \in DOMAIN end.calls : end.calls[i].callee \in Range(end.nodes)
    BY <2>3, <2>4 DEF Grown, Accs
  <2>6. end.unknown \in Seq(EffectsOf(prog))
    BY <2>5, PlacedSequences
  <2>7. Keeps(known, end.unknown)
    BY <1>2, <2>5, <2>6, KeepsOrder
  <2> QED BY <1>5, <2>5, <2>6, <2>7 DEF known, end
<1>6. CASE ~ Fn(f).body
  <2> DEFINE x == Effect(0, "unavailable function body", "", NoVar)
  <2>1. x \in EffectsOf(prog)
    BY EffectTyped DEF Whats
  <2> HIDE DEF x
  <2>2. end.nodes = order /\ end.calls = <<>> /\ end.unknown = Append(known, x)
    BY <1>4, <1>6 DEF x
  <2>3. end.unknown \in Seq(EffectsOf(prog)) /\ Extends(known, end.unknown)
    BY <1>2, <2>1, <2>2, AppendExtends
  <2>4. Keeps(known, end.unknown)
    BY <1>2, <2>3, KeepsOrder
  <2> QED BY <1>3, <1>6, <2>2, <2>3, <2>4 DEF known, end
<1> QED BY <1>5, <1>6

\* The invariant holds after a callable was searched, and facts were kept.
LEMMA CollectStep ==
    ASSUME Invariant, Collect
    PROVE  Invariant' /\ \A f \in Node : \A k \in Kinds : Keeps(facts[f][k], facts'[f][k])
<1> DEFINE f == order[collected + 1]
           end == Searched(f)
<1>1. /\ prog \in Programs /\ root \in prog.roots /\ order \in Graphs /\ root \in Node
      /\ order \in Seq(Callable) /\ Len(order) \in Nat /\ DOMAIN order = 1 .. Len(order)
  BY PlacedSequences DEF Invariant, GraphPart
<1>2. /\ phase = "collect" /\ collected \in 0 .. Len(order) /\ collected < Len(order)
      /\ order' = end.nodes /\ collected' = collected + 1
      /\ calls' = [g \in DOMAIN calls \cup {f} |-> IF g = f THEN end.calls ELSE calls[g]]
      /\ facts' = [g \in Range(end.nodes) |->
                      IF g = f THEN [facts[f] EXCEPT !.unknown = end.unknown]
                      ELSE IF g \in Node THEN facts[g] ELSE Fn(g).direct]
      /\ prog' = prog /\ root' = root /\ turn' = turn /\ changed' = changed /\ phase' = phase
  BY DEF Collect, Searched, Invariant, ControlPart
<1>3. collected + 1 \in DOMAIN order /\ f \in Node
  BY <1>1, <1>2 DEF Node, Range
<1>4. /\ end.nodes \in Graphs /\ Extends(order, end.nodes) /\ end.calls \in Seq(EdgeRecord)
      /\ \A i \in DOMAIN end.calls : end.calls[i].callee \in Range(end.nodes)
      /\ end.unknown \in Seq(EffectsOf(prog)) /\ Keeps(facts[f]["unknown"], end.unknown)
      /\ Fn(f).body => end.unknown \in Seq(Placed)
      /\ end.calls # <<>> => Fn(f).body
  BY <1>1, <1>3, SearchedFacts DEF Invariant
<1>5. /\ FactsPart /\ CallsPart /\ ControlPart
  BY DEF Invariant
<1> HIDE DEF f, end
<1>6. Same
  BY <1>2 DEF Same
<1>7. Node \subseteq Node' /\ Node' = Range(end.nodes) /\ Len(order) <= Len(end.nodes) /\ Len(end.nodes) \in Nat
      /\ \A i \in 1 .. Len(order) : order'[i] = order[i]
  BY <1>1, <1>2, <1>4, ExtendsOrder, PlacedSequences DEF Node, Extends
<1>8. GraphPart'
  <2>1. order' \in Graphs'
    BY <1>2, <1>4, <1>6, SameTypes
  <2> QED BY <1>1, <1>2, <1>7, <2>1 DEF GraphPart
<1>9. CallsPart'
  <2>1. DOMAIN calls' = {order'[i] : i \in 1 .. collected'}
    <3>1. DOMAIN calls = {order[i] : i \in 1 .. collected}
      BY <1>5 DEF CallsPart
    <3>2. DOMAIN calls' = DOMAIN calls \cup {order[collected + 1]}
      BY <1>2 DEF f
    <3>3. \A i \in 1 .. collected + 1 : i \in 1 .. Len(order) /\ (i \in 1 .. collected \/ i = collected + 1)
      BY <1>1, <1>2
    <3>4. 1 .. collected \subseteq 1 .. collected + 1 /\ collected + 1 \in 1 .. collected + 1
      BY <1>2
    <3> QED BY <1>2, <1>7, <3>1, <3>2, <3>3, <3>4
  <2>2. ASSUME NEW g \in DOMAIN calls'
        PROVE  /\ calls'[g] \in Seq(EdgeRecord) /\ \A i \in DOMAIN calls'[g] : calls'[g][i].callee \in Node'
               /\ calls'[g] # <<>> => Fn(g).body
    <3>1. CASE g = f
      <4>1. calls'[g] = end.calls
        BY <1>2, <3>1
      <4> QED BY <1>4, <1>7, <3>1, <4>1
    <3>2. CASE g # f
      <4>1. g \in DOMAIN calls /\ calls'[g] = calls[g]
        BY <1>2, <2>2, <3>2
      <4> QED BY <1>5, <1>7, <4>1 DEF CallsPart
    <3> QED BY <3>1, <3>2
  <2>3. EdgeRecord' = EdgeRecord /\ \A g : Fn(g)' = Fn(g)
    BY <1>6, SameTypes, SameFn
  <2> QED BY <2>1, <2>2, <2>3 DEF CallsPart
<1>10. ASSUME NEW g \in Node'
       PROVE  /\ facts'[g] \in [Kinds -> Seq(EffectsOf(prog))]
              /\ Fn(g).body => \A k \in Kinds : facts'[g][k] \in Seq(Placed)
              /\ g \in Node => \A k \in Kinds : Keeps(facts[g][k], facts'[g][k])
  <2>1. g \in Callable
    <3>1. end.nodes \in Seq(Callable)
      BY <1>4, PlacedSequences
    <3> QED BY <1>7, <3>1 DEF Range
  <2>2. \A h \in Node : facts[h] \in [Kinds -> Seq(EffectsOf(prog))]
    BY <1>5 DEF FactsPart, FactsTyped
  <2>3. \A h \in Node : \A k \in Kinds : Keeps(facts[h][k], facts[h][k])
    BY <2>2, KeepsOrder
  <2>4. CASE g = f
    <3>1. facts'[g] = [facts[f] EXCEPT !["unknown"] = end.unknown]
      BY <1>2, <1>7, <2>4
    <3>2. facts[f] \in [Kinds -> Seq(EffectsOf(prog))] /\ "unknown" \in Kinds
      BY <1>3, <2>2 DEF Kinds
    <3>3. facts'[g] \in [Kinds -> Seq(EffectsOf(prog))]
      BY <1>4, <3>1, <3>2
    <3>4. \A k \in Kinds : facts'[g][k] = IF k = "unknown" THEN end.unknown ELSE facts[f][k]
      BY <3>1, <3>2
    <3>5. Fn(g).body => \A k \in Kinds : facts[f][k] \in Seq(Placed)
      BY <1>3, <1>5, <2>4 DEF FactsPart
    <3>6. Fn(g).body => \A k \in Kinds : facts'[g][k] \in Seq(Placed)
      BY <1>4, <2>4, <3>4, <3>5
    <3>7. \A k \in Kinds : Keeps(facts[g][k], facts'[g][k])
      BY <1>3, <1>4, <2>3, <2>4, <3>4
    <3> QED BY <3>3, <3>6, <3>7
  <2>5. CASE g # f /\ g \in Node
    <3>1. facts'[g] = facts[g]
      BY <1>2, <1>7, <2>5
    <3> QED BY <1>5, <2>2, <2>3, <2>5, <3>1 DEF FactsPart
  <2>6. CASE g # f /\ g \notin Node
    <3>1. facts'[g] = Fn(g).direct
      BY <1>2, <1>7, <2>6
    <3>2. facts'[g] \in [Kinds -> Seq(Placed)]
      BY <1>1, <2>1, <3>1, FunctionFacts DEF Placed
    <3>3. facts'[g] \in [Kinds -> Seq(EffectsOf(prog))]
      BY <3>2, PlacedSequences
    <3> QED BY <2>6, <3>2, <3>3
  <2> QED BY <2>4, <2>5, <2>6
<1>11. FactsPart'
  <2>1. Placed' = Placed /\ (\A g : Fn(g)' = Fn(g)) /\ prog' = prog
    BY <1>2, <1>6, SameTypes, SameFn
  <2>2. DOMAIN facts' = Node' /\ facts' \in [Node' -> [Kinds -> Seq(EffectsOf(prog))]]
    BY <1>2, <1>7, <1>10
  <2> QED BY <1>10, <2>1, <2>2 DEF FactsPart, FactsTyped
<1>12. ControlPart'
  <2>1. collected + 1 \in 0 .. Len(order')
    BY <1>1, <1>2, <1>7
  <2>2. turn = <<1, 1>> /\ 1 \in 1 .. Len(order') + 1
    BY <1>2, <1>5, <1>7 DEF ControlPart
  <2> QED BY <1>2, <1>5, <2>1, <2>2 DEF ControlPart
<1>13. SweptPart'
  BY <1>2 DEF SweptPart
<1> QED BY <1>7, <1>8, <1>9, <1>10, <1>11, <1>12, <1>13 DEF Invariant

-----------------------------------------------------------------------------
(* The sweeps *)

\* A step of a sweep leaves the graph and its edges alone.
LEMMA SweepFrame ==
    ASSUME Invariant, prog' = prog, root' = root, order' = order, collected' = collected, calls' = calls
    PROVE  GraphPart' /\ CallsPart'
<1>1. Same
  BY DEF Same
<1>2. Graphs' = Graphs /\ EdgeRecord' = EdgeRecord /\ (\A f : Fn(f)' = Fn(f)) /\ Node' = Node
  BY <1>1, SameTypes, SameFn DEF Node
<1>3. GraphPart'
  BY <1>2 DEF Invariant, GraphPart
<1>4. CallsPart'
  BY <1>2 DEF Invariant, CallsPart
<1> QED BY <1>3, <1>4

LEMMA StillFacts ==
    ASSUME Invariant, Still
    PROVE  FactsPart' /\ (\A f, edge : Absorbed(f, edge)' <=> Absorbed(f, edge))
           /\ \A f \in Node : \A k \in Kinds : Keeps(facts[f][k], facts'[f][k])
<1>1. Same
  BY DEF Same, Still
<1>2. Placed' = Placed /\ (\A f : Fn(f)' = Fn(f)) /\ Node' = Node
  BY <1>1, SameTypes, SameFn DEF Node, Still
<1>3. FactsPart'
  BY <1>2 DEF Invariant, FactsPart, FactsTyped, Still
<1>4. \A f, edge : Absorbed(f, edge)' <=> Absorbed(f, edge)
  BY StillPropagated DEF Absorbed, Still
<1>5. \A f \in Node : \A k \in Kinds : Keeps(facts[f][k], facts[f][k])
  BY KeepsOrder DEF Invariant, FactsPart, FactsTyped
<1> QED BY <1>3, <1>4, <1>5 DEF Still

LEMMA EndCollectionStep ==
    ASSUME Invariant, EndCollection
    PROVE  Invariant' /\ \A f \in Node : \A k \in Kinds : Keeps(facts[f][k], facts'[f][k])
<1>1. /\ phase = "collect" /\ collected = Len(order) /\ phase' = "sweep"
      /\ prog' = prog /\ root' = root /\ order' = order /\ collected' = collected /\ calls' = calls
      /\ facts' = facts /\ turn' = turn /\ changed' = changed
  BY DEF EndCollection
<1>2. Still
  BY <1>1 DEF Still
<1>3. turn = <<1, 1>> /\ ControlPart'
  BY <1>1 DEF Invariant, ControlPart
<1>4. order \in Graphs /\ \A g \in DOMAIN calls : calls[g] \in Seq(EdgeRecord)
  BY DEF Invariant, GraphPart, CallsPart
<1>5. DOMAIN order = 1 .. Len(order) /\ DOMAIN calls = {order[i] : i \in 1 .. Len(order)}
  BY <1>1, <1>4, PlacedSequences DEF Invariant, CallsPart
<1>6. SweptPart'
  <2>1. ASSUME NEW m \in DOMAIN order, NEW n \in DOMAIN calls[order[m]] PROVE ~ Behind(m, n)'
    <3>1. m \in 1 .. Len(order) /\ calls[order[m]] \in Seq(EdgeRecord)
      BY <1>4, <1>5
    <3>2. n \in 1 .. Len(calls[order[m]])
      BY <3>1
    <3>3. turn'[1] = 1 /\ turn'[2] = 1
      BY <1>1, <1>3
    <3> QED BY <3>1, <3>2, <3>3 DEF Behind
  <2> QED BY <1>1, <2>1 DEF SweptPart
<1> QED BY <1>1, <1>2, <1>3, <1>6, SweepFrame, StillFacts DEF Invariant

\* A step that only goes on in a sweep.
LEMMA SweepGoesOn ==
    ASSUME Invariant, phase = "sweep", Still, root' = root, collected' = collected, calls' = calls,
           turn' \in (1 .. Len(order) + 1) \X (Nat \ {0}), phase' \in {"sweep", "done"}, changed' \in BOOLEAN,
           \A m \in DOMAIN order : \A n \in DOMAIN calls[order[m]] :
              (phase' = "sweep" => ~ changed' /\ Behind(m, n)') => Absorbed(order[m], calls[order[m]][n])
    PROVE  Invariant' /\ \A f \in Node : \A k \in Kinds : Keeps(facts[f][k], facts'[f][k])
<1>1. prog' = prog /\ order' = order /\ facts' = facts
  BY DEF Still
<1>2. ControlPart'
  BY <1>1 DEF Invariant, ControlPart
<1>3. SweptPart'
  BY <1>1, StillFacts DEF SweptPart
<1> QED BY <1>1, <1>2, <1>3, SweepFrame, StillFacts DEF Invariant

LEMMA NextCallableStep ==
    ASSUME Invariant, NextCallable
    PROVE  Invariant' /\ \A f \in Node : \A k \in Kinds : Keeps(facts[f][k], facts'[f][k])
<1>1. /\ phase = "sweep" /\ turn[1] <= Len(order) /\ turn[2] > Len(calls[order[turn[1]]])
      /\ turn' = <<turn[1] + 1, 1>> /\ phase' = phase /\ changed' = changed
      /\ prog' = prog /\ root' = root /\ order' = order /\ collected' = collected /\ calls' = calls /\ facts' = facts
  BY DEF NextCallable
<1>2. /\ turn \in (1 .. Len(order) + 1) \X (Nat \ {0}) /\ changed \in BOOLEAN /\ collected = Len(order)
      /\ order \in Graphs /\ (\A g \in DOMAIN calls : calls[g] \in Seq(EdgeRecord))
      /\ DOMAIN calls = {order[i] : i \in 1 .. Len(order)} /\ SweptPart
  BY <1>1 DEF Invariant, ControlPart, GraphPart, CallsPart
<1>3. Len(order) \in Nat /\ DOMAIN order = 1 .. Len(order) /\ turn[1] \in Nat /\ turn[2] \in Nat
  BY <1>2, PlacedSequences
<1>4. turn' \in (1 .. Len(order) + 1) \X (Nat \ {0}) /\ turn'[1] = turn[1] + 1 /\ turn'[2] = 1
  BY <1>1, <1>2, <1>3
<1>5. ASSUME NEW m \in DOMAIN order, NEW n \in DOMAIN calls[order[m]], ~ changed, Behind(m, n)'
      PROVE  Absorbed(order[m], calls[order[m]][n])
  <2>1. m \in 1 .. Len(order) /\ calls[order[m]] \in Seq(EdgeRecord)
    BY <1>2, <1>3
  <2>2. n \in 1 .. Len(calls[order[m]]) /\ Len(calls[order[m]]) \in Nat
    BY <2>1
  <2>3. m < turn[1] + 1 \/ (m = turn[1] + 1 /\ n < 1)
    BY <1>4, <1>5 DEF Behind
  <2>4. m < turn[1] \/ m = turn[1]
    BY <1>3, <2>1, <2>2, <2>3
  <2>5. m = turn[1] => n < turn[2]
    BY <1>1, <1>3, <2>2
  <2>6. Behind(m, n)
    BY <2>4, <2>5 DEF Behind
  <2> QED BY <1>1, <1>2, <1>5, <2>6 DEF SweptPart
<1>6. Still
  BY <1>1 DEF Still
<1> QED BY <1>1, <1>2, <1>4, <1>5, <1>6, SweepGoesOn

LEMMA EndSweepStep ==
    ASSUME Invariant, EndSweep
    PROVE  Invariant' /\ \A f \in Node : \A k \in Kinds : Keeps(facts[f][k], facts'[f][k])
<1>1. /\ phase = "sweep" /\ turn[1] > Len(order)
      /\ turn' = <<1, 1>> /\ phase' = (IF changed THEN "sweep" ELSE "done") /\ changed' = FALSE
      /\ prog' = prog /\ root' = root /\ order' = order /\ collected' = collected /\ calls' = calls /\ facts' = facts
  BY DEF EndSweep
<1>2. /\ turn \in (1 .. Len(order) + 1) \X (Nat \ {0}) /\ changed \in BOOLEAN /\ collected = Len(order)
      /\ order \in Graphs /\ (\A g \in DOMAIN calls : calls[g] \in Seq(EdgeRecord))
      /\ DOMAIN calls = {order[i] : i \in 1 .. Len(order)} /\ SweptPart
  BY <1>1 DEF Invariant, ControlPart, GraphPart, CallsPart
<1>3. Len(order) \in Nat /\ DOMAIN order = 1 .. Len(order) /\ turn[1] \in Nat
  BY <1>2, PlacedSequences
<1>4. turn' \in (1 .. Len(order) + 1) \X (Nat \ {0}) /\ turn'[1] = 1 /\ turn'[2] = 1
  BY <1>1, <1>3
<1>5. ASSUME NEW m \in DOMAIN order, NEW n \in DOMAIN calls[order[m]],
             phase' = "sweep" => ~ changed' /\ Behind(m, n)'
      PROVE  Absorbed(order[m], calls[order[m]][n])
  <2>1. m \in 1 .. Len(order) /\ calls[order[m]] \in Seq(EdgeRecord)
    BY <1>2, <1>3
  <2>2. n \in 1 .. Len(calls[order[m]])
    BY <2>1
  <2>3. ~ Behind(m, n)'
    BY <1>4, <2>1, <2>2 DEF Behind
  <2>4. ~ changed
    BY <1>1, <1>2, <1>5, <2>3
  <2>5. Behind(m, n)
    BY <1>1, <1>3, <2>1 DEF Behind
  <2> QED BY <1>1, <1>2, <2>4, <2>5 DEF SweptPart
<1>6. Still
  BY <1>1 DEF Still
<1>7. phase' \in {"sweep", "done"} /\ changed' \in BOOLEAN
  BY <1>1, <1>2
<1> QED BY <1>1, <1>4, <1>5, <1>6, <1>7, SweepGoesOn

\* An edge adds what it has to add, and unless that was all there the sweep
\* has changed something.
LEMMA PropagateStep ==
    ASSUME Invariant, Propagate
    PROVE  Invariant' /\ \A f \in Node : \A k \in Kinds : Keeps(facts[f][k], facts'[f][k])
<1> DEFINE f == order[turn[1]]
           edge == calls[f][turn[2]]
           new == [k \in Kinds |-> Contributions(f, edge, k)]
           grown == [k \in Kinds |-> AddInTurn(facts[f][k], new[k])]
<1>1. /\ phase = "sweep" /\ turn[1] <= Len(order) /\ turn[2] <= Len(calls[f])
      /\ facts' = [facts EXCEPT ![f] = grown] /\ changed' = (changed \/ grown # facts[f])
      /\ turn' = <<turn[1], turn[2] + 1>> /\ phase' = phase
      /\ prog' = prog /\ root' = root /\ order' = order /\ collected' = collected /\ calls' = calls
  BY DEF Propagate
<1>2. /\ turn \in (1 .. Len(order) + 1) \X (Nat \ {0}) /\ changed \in BOOLEAN /\ collected = Len(order)
      /\ prog \in Programs /\ order \in Graphs /\ SweptPart /\ FactsPart
      /\ DOMAIN calls = {order[i] : i \in 1 .. Len(order)}
      /\ \A g \in DOMAIN calls :
            /\ calls[g] \in Seq(EdgeRecord) /\ \A i \in DOMAIN calls[g] : calls[g][i].callee \in Node
            /\ calls[g] # <<>> => Fn(g).body
  BY <1>1 DEF Invariant, ControlPart, GraphPart, CallsPart
<1>3. Len(order) \in Nat /\ DOMAIN order = 1 .. Len(order) /\ turn[1] \in 1 .. Len(order) /\ turn[2] \in Nat \ {0}
  BY <1>1, <1>2, PlacedSequences
<1>4. f \in Node /\ f \in Callable /\ f \in DOMAIN calls
  BY <1>2, <1>3, PlacedSequences DEF Node, Range
<1>5. edge \in EdgeRecord /\ edge.callee \in Node /\ Fn(f).body
  <2>1. calls[f] \in Seq(EdgeRecord) /\ turn[2] \in 1 .. Len(calls[f])
    BY <1>1, <1>2, <1>3, <1>4
  <2> HIDE DEF f
  <2>2. turn[2] \in DOMAIN calls[f] /\ calls[f] # <<>>
    BY <2>1
  <2>3. calls[f][turn[2]] \in EdgeRecord
    BY <2>1
  <2>4. calls[f][turn[2]].callee \in Node /\ Fn(f).body
    BY <1>2, <1>4, <2>2
  <2> QED BY <2>3, <2>4
<1> HIDE DEF f, edge
<1>6. ASSUME NEW k \in Kinds
      PROVE  facts[f][k] \in Seq(Placed) /\ new[k] \in Seq({S \in SUBSET Placed : IsFiniteSet(S)})
  <2>1. Contributions(f, edge, k) \in Seq(Batches(edge.line))
    BY <1>2, <1>4, <1>5, ContributionsTold DEF FactsPart
  <2>2. edge.line > 0
    BY <1>5 DEF EdgeRecord
  <2>3. Batches(edge.line) \subseteq {S \in SUBSET Placed : IsFiniteSet(S)}
    BY <2>2 DEF Batches, At, Placed
  <2>4. Contributions(f, edge, k) \in Seq({S \in SUBSET Placed : IsFiniteSet(S)})
    BY <2>1, <2>3
  <2> QED BY <1>2, <1>4, <1>5, <2>4 DEF FactsPart
<1>7. \A k \in Kinds : UNION Range(new[k]) = Propagated(f, edge, k)
  BY DEF Propagated
<1> HIDE DEF new
<1>8. /\ grown \in [Kinds -> Seq(Placed)]
      /\ \A k \in Kinds : Keeps(facts[f][k], grown[k]) /\ \A x \in UNION Range(new[k]) : Among(x, grown[k])
  BY <1>6, AddInTurnKeeps
<1> HIDE DEF grown
<1>9. facts \in [Node -> [Kinds -> Seq(EffectsOf(prog))]] /\ grown \in [Kinds -> Seq(EffectsOf(prog))]
  BY <1>2, <1>8, PlacedSequences DEF FactsPart, FactsTyped
<1>10. /\ facts' \in [Node -> [Kinds -> Seq(EffectsOf(prog))]]
       /\ \A g \in Node : facts'[g] = IF g = f THEN grown ELSE facts[g]
  BY <1>1, <1>4, <1>9
<1>11. \A g \in Node : \A k \in Kinds : Keeps(facts[g][k], facts'[g][k])
  <2>1. \A g \in Node : \A k \in Kinds : Keeps(facts[g][k], facts[g][k])
    BY <1>9, KeepsOrder
  <2> QED BY <1>8, <1>10, <2>1
<1>12. Same
  BY <1>1 DEF Same
<1>13. FactsPart'
  <2>1. Placed' = Placed /\ (\A g : Fn(g)' = Fn(g)) /\ Node' = Node
    BY <1>1, <1>12, SameTypes, SameFn DEF Node
  <2>2. \A g \in Node : Fn(g).body => \A k \in Kinds : facts'[g][k] \in Seq(Placed)
    BY <1>2, <1>8, <1>10 DEF FactsPart
  <2> QED BY <1>1, <1>10, <2>1, <2>2 DEF FactsPart, FactsTyped
<1>14. ControlPart'
  <2>1. turn' \in (1 .. Len(order) + 1) \X (Nat \ {0}) /\ changed' \in BOOLEAN
    BY <1>1, <1>2, <1>3
  <2> QED BY <1>1, <2>1 DEF Invariant, ControlPart
<1>15. SweptPart'
  <2>1. SUFFICES ASSUME NEW m \in DOMAIN order, NEW n \in DOMAIN calls[order[m]], ~ changed', Behind(m, n)'
                 PROVE  Absorbed(order[m], calls[order[m]][n])'
    BY <1>1 DEF SweptPart
  <2>2. ~ changed /\ grown = facts[f]
    BY <1>1, <1>2, <2>1
  <2>3. facts' = facts
    BY <1>1, <1>4, <1>9, <2>2
  <2>4. Still
    BY <1>1, <2>3 DEF Still
  <2>5. Absorbed(order[m], calls[order[m]][n])
    <3>1. m \in 1 .. Len(order) /\ calls[order[m]] \in Seq(EdgeRecord)
      BY <1>2, <1>3
    <3>2. n \in Nat
      BY <3>1
    <3>3. m < turn[1] \/ (m = turn[1] /\ n < turn[2] + 1)
      BY <1>1, <2>1 DEF Behind
    <3>4. Behind(m, n) \/ (m = turn[1] /\ n = turn[2])
      BY <1>3, <3>2, <3>3 DEF Behind
    <3>5. CASE Behind(m, n)
      BY <1>1, <1>2, <2>2, <3>5 DEF SweptPart
    <3>6. CASE m = turn[1] /\ n = turn[2]
      <4>1. order[m] = f /\ calls[order[m]][n] = edge
        BY <3>6 DEF f, edge
      <4>2. Absorbed(f, edge)
        BY <1>7, <1>8, <2>2 DEF Absorbed
      <4> QED BY <4>1, <4>2
    <3> QED BY <3>4, <3>5, <3>6
  <2>6. \A g, e : Absorbed(g, e)' <=> Absorbed(g, e)
    BY <2>4, StillFacts
  <2> QED BY <1>1, <2>5, <2>6
<1> QED BY <1>1, <1>11, <1>13, <1>14, <1>15, SweepFrame DEF Invariant

-----------------------------------------------------------------------------
(* Theorems *)

LEMMA NextInvariant ==
    ASSUME Invariant, Next
    PROVE  Invariant' /\ \A f \in Node : \A k \in Kinds : Keeps(facts[f][k], facts'[f][k])
BY CollectStep, EndCollectionStep, PropagateStep, NextCallableStep, EndSweepStep DEF Next

LEMMA StutterInvariant ==
    ASSUME Invariant, UNCHANGED vars
    PROVE  Invariant'
<1>1. Still /\ Same
  BY DEF Still, Same, vars
<1>2. GraphPart' /\ CallsPart' /\ FactsPart'
  BY <1>1, SweepFrame, StillFacts DEF vars
<1>3. ControlPart'
  BY DEF Invariant, ControlPart, vars
<1>4. SweptPart'
  <2>1. \A m, n : Behind(m, n)' <=> Behind(m, n)
    BY DEF Behind, vars
  <2> QED BY <1>1, <2>1, StillFacts DEF Invariant, SweptPart, vars
<1> QED BY <1>2, <1>3, <1>4 DEF Invariant

\* The invariant holds of every program: what a sweep left behind, without
\* having changed anything, has nothing more to add.
THEOREM InvariantAlways == Spec => []Invariant
<1>1. Init => Invariant
  BY InitInvariant
<1>2. Invariant /\ [Next]_vars => Invariant'
  BY NextInvariant, StutterInvariant
<1> QED BY <1>1, <1>2, PTL DEF Spec

\* The graph lists its callables once and holds whatever is called, with facts
\* for each, so that a sweep (collectFacts, propagate) finds what it looks up,
\* whatever the program.
THEOREM EffectTypes == Spec => []TypeOK
<1>1. Invariant => TypeOK
  BY InvariantTypes
<1> QED BY <1>1, InvariantAlways, PTL

\* No step takes an effect back, changes what it says or moves it to a later
\* line (addEffect), whatever the program.
THEOREM FactsOnlyGrow == Spec => OnlyGrows
<1>1. Invariant /\ [Next]_vars => [\A f \in Node : \A k \in Kinds : Keeps(facts[f][k], facts'[f][k])]_vars
  BY NextInvariant
<1> QED BY <1>1, InvariantAlways, PTL DEF Spec, OnlyGrows

\* When the sweeps of propagateCallEdges end, every effect of a callee,
\* translated along any call, is a fact of the caller: one more sweep would
\* change nothing, whatever the program.
THEOREM FixedPoint == Spec => []Settled
<1>1. Invariant => Settled
  <2> SUFFICES ASSUME Invariant, phase = "done", NEW f \in Node, NEW i \in DOMAIN calls[f], NEW k \in Kinds,
                      NEW x \in Propagated(f, calls[f][i], k)
               PROVE  Among(x, facts[f][k])
    BY DEF Settled
  <2>1. PICK m \in DOMAIN order : order[m] = f
    BY DEF Node, Range
  <2>2. Absorbed(order[m], calls[order[m]][i])
    BY <2>1 DEF Invariant, SweptPart
  <2> QED BY <2>1, <2>2 DEF Absorbed
<1> QED BY <1>1, InvariantAlways, PTL
=============================================================================
