------------------------------- MODULE Metrics -------------------------------
(***************************************************************************)
(* The metrics of a function: cyclomatic complexity, NPath complexity,     *)
(* nesting depth, cognitive complexity and lines that carry code.          *)
(*                                                                         *)
(* A node of the syntax tree has a kind, a name or operator "op" and five  *)
(* sequences of nodes in source order: "init", "head" (a condition, a tag, *)
(* operands, results, case labels), "post", "body" and "els".  A block     *)
(* holds its statements in "body"; optional parts are empty sequences.     *)
(* An identifier is of kind "id" if the object of that name in the file's  *)
(* or the function's scope is meant, "shadow" if an inner one is, "free"   *)
(* if the file does not resolve it.                                        *)
(***************************************************************************)
EXTENDS Saturating, FiniteSets

Children(n) == n.init \o n.head \o n.post \o n.body \o n.els

Concat(ss) == FoldLeft(LAMBDA a, b : a \o b, <<>>, ss)
CountIf(s, Test(_)) == Len(SelectSeq(s, Test))
Largest(base, s) == FoldLeft(LAMBDA a, b : IF b > a THEN b ELSE a, base, s)

\* The nodes that a walk visits when it enters no node of a kind in "stops".
RECURSIVE Inspect(_, _)
Inspect(n, stops) ==
    <<n>> \o IF n.kind \in stops THEN <<>>
             ELSE LET cs == Children(n) IN Concat([i \in DOMAIN cs |-> Inspect(cs[i], stops)])

InspectAll(ns, stops) == Concat([i \in DOMAIN ns |-> Inspect(ns[i], stops)])

IsLogical(n) == n.kind = "binary" /\ n.op \in {"&&", "||"}

-----------------------------------------------------------------------------
(* If chains *)

RECURSIVE Clauses(_)
Clauses(n) ==
    <<n>> \o IF n.els # <<>> /\ n.els[1].kind = "if" THEN Clauses(n.els[1]) ELSE <<>>

\* The block after the last clause, if there is one.
ElseOf(n) == Last(Clauses(n)).els

-----------------------------------------------------------------------------
(* Cyclomatic complexity *)

IsDecision(n) ==
    \/ n.kind \in {"if", "for", "range"}
    \/ n.kind \in {"case", "comm"} /\ n.head # <<>>
    \/ IsLogical(n)

\* "body" is the block of a function, or empty.
Cyclomatic(body) == 1 + CountIf(InspectAll(body, {}), IsDecision)

-----------------------------------------------------------------------------
(* NPath complexity *)

Operators(es) == CountIf(InspectAll(es, {"lit"}), IsLogical)
OperatorSum(es) == Sum([i \in DOMAIN es |-> Operators(<<es[i]>>)])
AssignOperators(s) == Sum([i \in DOMAIN s |-> IF s[i].kind = "assign" THEN OperatorSum(s[i].head) ELSE 0])

RECURSIVE NPathStmts(_), NPathStmt(_)

\* A literal's own walk covers the literals within it.
LiteralPaths(ns) ==
    LET lits == SelectSeq(InspectAll(ns, {"lit"}), LAMBDA n : n.kind = "lit")
    IN  Product([i \in DOMAIN lits |-> NPathStmts(lits[i].body)])

OrOne(paths) == IF paths = 0 THEN 1 ELSE paths

IfClausePaths(c, elsePart) ==
    LET paths == Add(Add(Add(elsePart, NPathStmts(c.body)), OperatorSum(c.head)), AssignOperators(c.init))
    IN  Mul(paths, Mul(LiteralPaths(c.init), LiteralPaths(c.head)))

IfPaths(n) == FoldRight(IfClausePaths, Clauses(n), IF ElseOf(n) = <<>> THEN 1 ELSE NPathStmts(ElseOf(n)))

LoopPaths(n) ==
    LET paths == Sum(<<1, OperatorSum(n.head), AssignOperators(n.init), AssignOperators(n.post), NPathStmts(n.body)>>)
    IN  Mul(paths, Product(<<LiteralPaths(n.init), LiteralPaths(n.head), LiteralPaths(n.post)>>))

CasePaths(c) ==
    LET others == IF Len(c.head) > 1 THEN Len(c.head) - 1 ELSE 0
        paths == Add(Add(NPathStmts(c.body), others), OperatorSum(c.head))
    IN  Mul(paths, Product([i \in DOMAIN c.head |-> LiteralPaths(<<c.head[i]>>)]))

\* The guard of a type switch is a statement: it adds no operators.
SwitchPaths(n) ==
    LET cs == n.body[1].body
        tag == IF n.kind = "switch" THEN OperatorSum(n.head) ELSE 0
        paths == OrOne(Sum(<<tag>> \o [i \in DOMAIN cs |-> CasePaths(cs[i])]))
    IN  Mul(Add(paths, AssignOperators(n.init)), Mul(LiteralPaths(n.init), LiteralPaths(n.head)))

SelectPaths(n) ==
    LET cs == n.body[1].body
    IN  OrOne(Sum([i \in DOMAIN cs |-> Mul(LiteralPaths(cs[i].head), NPathStmts(cs[i].body))]))

ReturnPaths(n) == Mul(OrOne(OperatorSum(n.head)), LiteralPaths(n.head))

NPathStmt(s) ==
    CASE s.kind \in {"switch", "typeswitch"} -> SwitchPaths(s)
      [] s.kind = "select" -> SelectPaths(s)
      [] s.kind = "if" -> IfPaths(s)
      [] s.kind \in {"for", "range"} -> LoopPaths(s)
      [] s.kind \in {"block", "labeled"} -> NPathStmts(s.body)
      [] s.kind = "return" -> ReturnPaths(s)
      [] OTHER -> LiteralPaths(<<s>>)

NPathStmts(ss) == Product([i \in DOMAIN ss |-> NPathStmt(ss[i])])
NPath(body) == NPathStmts(body)

-----------------------------------------------------------------------------
(* Nesting depth *)

RECURSIVE MaxNesting(_, _)

\* Literals outside any block; their bodies stay at the level of the literal.
LiteralNesting(n, depth) ==
    LET lits == SelectSeq(Inspect(n, {"lit", "block"}), LAMBDA m : m.kind = "lit")
    IN  Largest(depth, [i \in DOMAIN lits |-> MaxNesting(lits[i].body, depth)])

IfNesting(n, depth) ==
    LET bodies == Concat([i \in DOMAIN Clauses(n) |-> Clauses(n)[i].body]) \o ElseOf(n)
    IN  MaxNesting(bodies, depth + 1)

ClauseNesting(c, depth) ==
    Largest(MaxNesting(c.body, depth), [i \in DOMAIN c.head |-> LiteralNesting(c.head[i], depth)])

ControlNesting(s, depth) ==
    CASE s.kind = "if" -> IfNesting(s, depth)
      [] s.kind \in {"for", "range"} -> MaxNesting(s.body, depth + 1)
      [] s.kind \in {"switch", "typeswitch", "select"} ->
            LET cs == s.body[1].body
            IN  Largest(depth + 1, [i \in DOMAIN cs |-> ClauseNesting(cs[i], depth + 1)])
      [] s.kind \in {"labeled", "block"} -> MaxNesting(s.body, depth)
      [] OTHER -> depth

\* Mutation: the walk for literals is left to the control structures.
UnderControl(s, depth) == ControlNesting(s, depth)

StmtNesting(s, depth) == Largest(LiteralNesting(s, depth), <<ControlNesting(s, depth)>>)
MaxNesting(ss, depth) == Largest(depth, [i \in DOMAIN ss |-> StmtNesting(ss[i], depth)])

Nesting(body) == MaxNesting(body, 0)

-----------------------------------------------------------------------------
(* Cognitive complexity: a visitor with a score, a nesting level and the   *)
(* operators already scored, known by their place in the tree              *)

Inc(v) == [v EXCEPT !.score = @ + 1]
IncIf(v, b) == IF b THEN Inc(v) ELSE v
NestInc(v) == [v EXCEPT !.score = @ + v.nesting + 1]
IncNesting(v) == [v EXCEPT !.nesting = @ + 1]
\* Mutation: a level is never left.
KeepNesting(v) == v

DecNesting(v) == [v EXCEPT !.nesting = @ - 1]

\* The logical operators under an operator, through operators only, and the
\* places of all operators on the way: they are not scored again.
RECURSIVE BinaryOps(_, _)
BinaryOps(e, at) ==
    IF e.kind # "binary" THEN [ops |-> <<>>, places |-> {}]
    ELSE LET x == BinaryOps(e.head[1], Append(at, 1))
             y == BinaryOps(e.head[2], Append(at, 2))
         IN  [ops |-> x.ops \o (IF IsLogical(e) THEN <<e.op>> ELSE <<>>) \o y.ops,
              places |-> {at} \cup x.places \cup y.places]

VisitBinary(e, at, v) ==
    LET all == BinaryOps(e, at)
        changes == {i \in DOMAIN all.ops : i = 1 \/ all.ops[i] # all.ops[i - 1]}
    IN  IF ~IsLogical(e) THEN v
        ELSE [v EXCEPT !.score = @ + Cardinality(changes), !.scored = @ \cup all.places]

RECURSIVE Callee(_)
Callee(e) == IF e.kind \in {"paren", "index"} THEN Callee(e.head[1]) ELSE e

\* A method's name has no object, as an unresolved name has none.
IsRecursion(n, fn) ==
    LET c == Callee(n.head[1])
    IN  \/ c.kind = (IF fn.recv = "" THEN "id" ELSE "free") /\ c.op = fn.name
        \/ c.kind = "sel" /\ c.op = fn.name /\ c.head[1].kind = "id" /\ c.head[1].op = fn.recvName

VisitNonNesting(n, at, v) ==
    CASE n.kind = "branch" -> IncIf(v, n.op # "")
      [] n.kind = "binary" -> VisitBinary(n, at, v)
      [] n.kind = "call" -> IncIf(v, IsRecursion(n, v.fn))
      [] OTHER -> v

RECURSIVE Visit(_, _, _)

\* The children from a first to a last one, in order.
VisitFrom(n, at, v, first, last) ==
    FoldLeft(LAMBDA w, i : Visit(Children(n)[i], Append(at, i), w), v, [k \in 1..(last - first + 1) |-> first + k - 1])

Header(n) == Len(n.init \o n.head \o n.post)

VisitBody(n, at, v) ==
    LET first == Header(n) + 1
    IN  DecNesting(VisitFrom(n, at, IncNesting(v), first, first + Len(n.body) - 1))

VisitNesting(n, at, v) == VisitBody(n, at, VisitFrom(n, at, v, 1, Header(n)))

\* A whole chain, from one of its clauses on.
RECURSIVE VisitChain(_, _, _)
VisitChain(c, at, v) ==
    LET clause == VisitNesting(c, at, v)
        next == Append(at, Len(Children(c)))
    IN  IF c.els = <<>> THEN clause
        ELSE IF c.els[1].kind = "if" THEN VisitChain(c.els[1], next, Inc(clause))
        ELSE DecNesting(Visit(c.els[1], next, IncNesting(Inc(clause))))

Visit(n, at, v) ==
    CASE at \in v.scored -> VisitFrom(n, at, v, 1, 2)
      [] n.kind = "if" -> VisitChain(n, at, NestInc(v))
      [] n.kind \in {"switch", "typeswitch", "select", "for", "range"} -> VisitNesting(n, at, NestInc(v))
      [] n.kind = "lit" -> VisitNesting(n, at, v)
      [] OTHER -> VisitFrom(n, at, VisitNonNesting(n, at, v), 1, Len(Children(n)))

Cognitive(fn) ==
    LET start == [fn |-> fn, score |-> 0, nesting |-> 0, scored |-> {}]
    IN  IF fn.body = <<>> THEN 0 ELSE Visit(fn.body[1], <<>>, start).score

-----------------------------------------------------------------------------
(* Lines: a line is the sequence of its tokens *)

LinesOfCode(first, last) == last - first + 1

MaskComments(lines) ==
    [i \in DOMAIN lines |-> [k \in DOMAIN lines[i] |-> IF lines[i][k] = "comment" THEN "space" ELSE lines[i][k]]]

HasCode(line) == \E k \in DOMAIN line : line[k] # "space"

\* Entry i + 1 counts the lines with code through line i.
LineIndex(lines) ==
    FoldLeft(LAMBDA p, line : Append(p, Last(p) + (IF HasCode(line) THEN 1 ELSE 0)), <<0>>, MaskComments(lines))

EffectiveLines(lines, start, end) ==
    LET index == LineIndex(lines)
        first == IF start < 1 THEN 1 ELSE start
        last == IF end > Len(index) - 1 THEN Len(index) - 1 ELSE end
    IN  IF last < first THEN 0 ELSE index[last + 1] - index[first]
=============================================================================
