---------------------------- MODULE RuleReference ----------------------------
(***************************************************************************)
(* What the metrics and the rules of RuleEngine mean: executions for path  *)
(* counts, places in the syntax tree for nesting and cognitive complexity, *)
(* a relation between methods for cohesion, and reachability of embedded   *)
(* types for promotion.                                                    *)
(***************************************************************************)
EXTENDS RuleEngine, FiniteSetsExt

Loading == status = "loading" /\ next = 1

-----------------------------------------------------------------------------
(* Executions.  A statement has a set of them; in a sequence each          *)
(* execution of one is followed by each execution of the next.             *)

Tagged(tag, S) == {<<tag, x>> : x \in S}

InTurn(sets) == FoldLeft(LAMBDA acc, S : {Append(a, x) : a \in acc, x \in S}, {<<>>}, sets)

\* Every logical operator is one more way out of an expression.
WaysOut(tag, es) == {<<tag, i>> : i \in 1..Operators(es)}
Assigned(init) == Concat([i \in DOMAIN init |-> IF init[i].kind = "assign" THEN init[i].head ELSE <<>>])

AtLeastOne(S) == IF S = {} THEN {<<"on">>} ELSE S

RECURSIVE Executions(_), ExecutionsOf(_), Arms(_)

\* Literals run where they stand, each in every way.
Literals(ns) ==
    LET lits == SelectSeq(InspectAll(ns, {"lit"}), LAMBDA n : n.kind = "lit")
    IN  InTurn([i \in DOMAIN lits |-> Executions(lits[i].body)])

\* An if with an else-if is one with an else block of that if alone.
IfExecutions(n) ==
    LET arms == UNION {Tagged("then", Executions(n.body)), WaysOut("cond", n.head), WaysOut("init", Assigned(n.init)),
                       Tagged("else", Executions(n.els))}
    IN  InTurn(<<Literals(n.init), Literals(n.head), arms>>)

LoopExecutions(n) ==
    LET arms == UNION {{<<"skip">>}, Tagged("loop", Executions(n.body)), WaysOut("head", n.head),
                       WaysOut("init", Assigned(n.init)), WaysOut("post", Assigned(n.post))}
    IN  InTurn(<<Literals(n.init), Literals(n.head), Literals(n.post), arms>>)

\* The executions of each clause of a switch or select, told apart.
Arms(cs) ==
    UNION {LET c == cs[i]
               labels == IF c.kind = "case"
                           THEN WaysOut("label", c.head) \cup {<<"other", k>> : k \in 2..Len(c.head)} ELSE {}
           IN  Tagged(i, InTurn(<<Literals(c.head), Tagged("body", Executions(c.body)) \cup labels>>)) : i \in DOMAIN cs}

SwitchExecutions(n) ==
    LET tag == IF n.kind = "switch" THEN WaysOut("tag", n.head) ELSE {}
        arms == AtLeastOne(Tagged("tag", tag) \cup Tagged("arm", Arms(n.body[1].body)))
    IN  InTurn(<<Literals(n.init), Literals(n.head), Tagged("switch", arms) \cup Tagged("init", WaysOut("op", Assigned(n.init)))>>)

ExecutionsOf(s) ==
    CASE s.kind = "if" -> IfExecutions(s)
      [] s.kind \in {"for", "range"} -> LoopExecutions(s)
      [] s.kind \in {"switch", "typeswitch"} -> SwitchExecutions(s)
      [] s.kind = "select" -> AtLeastOne(Arms(s.body[1].body))
      [] s.kind \in {"block", "labeled"} -> Executions(s.body)
      [] s.kind = "return" -> InTurn(<<Literals(s.head), AtLeastOne(WaysOut("result", s.head))>>)
      [] OTHER -> Literals(<<s>>)

Executions(ss) == InTurn([i \in DOMAIN ss |-> ExecutionsOf(ss[i])])

\* A statement with every else-if written as else { if }, and a body with such statements.
RECURSIVE Nested(_)
Nested(n) ==
    LET part(s) == [i \in DOMAIN s |-> Nested(s[i])]
        els == part(n.els)
        block == [n EXCEPT !.kind = "block", !.op = "", !.init = <<>>, !.head = <<>>, !.post = <<>>, !.body = els, !.els = <<>>]
    IN  [n EXCEPT !.init = part(@), !.head = part(@), !.post = part(@), !.body = part(@),
                  !.els = IF els # <<>> /\ els[1].kind = "if" THEN <<block>> ELSE els]

Unchained(body) == [k \in DOMAIN body |-> Nested(body[k])]

\* A path count is the number of acyclic executions, or the largest integer:
\* it never wraps around into a small one that no threshold would report.  Paths
\* and decisions do not depend on how a chain of ifs is written.
NPathExact ==
    Loading => \A i \in DOMAIN file.funcs :
        LET body == file.funcs[i].body
            count == Cardinality(Executions(body))
        IN  /\ {NPath(body), NPath(Unchained(body))} = {IF count > MaxInt THEN MaxInt ELSE count}
            /\ Cyclomatic(Unchained(body)) = Cyclomatic(body)

-----------------------------------------------------------------------------
(* Places in a tree: the numbers of the children from the root down *)

RECURSIVE Places(_)
Places(n) ==
    {<<>>} \cup UNION {{<<i>> \o p : p \in Places(Children(n)[i])} : i \in DOMAIN Children(n)}

RECURSIVE At(_, _)
At(n, p) == IF p = <<>> THEN n ELSE At(Children(n)[Head(p)], Tail(p))

Controls == {"if", "for", "range", "switch", "typeswitch", "select"}

\* A chained if is a child of an if, not of its body or else block.
Chained(root, p) == p # <<>> /\ At(root, p).kind = "if" /\ At(root, Front(p)).kind = "if"

\* The structures of some kinds whose body or else block holds a place.
Level(root, p, kinds) ==
    Cardinality({i \in DOMAIN p :
        LET n == At(root, SubSeq(p, 1, i - 1))
        IN  n.kind \in kinds /\ p[i] > Header(n) /\ Children(n)[p[i]].kind # "if"})

\* The nesting depth of a function is the length of the longest stack of
\* control structures in it; literals and chained clauses add no level, and
\* writing them nested saves none.
NestingExact ==
    Loading => \A i \in DOMAIN file.funcs : file.funcs[i].body # <<>> =>
        LET body == file.funcs[i].body
            root == body[1]
            levels == {Level(root, p, Controls) + 1 : p \in {q \in Places(root) : At(root, q).kind \in Controls}}
        IN  /\ Nesting(body) = Max(levels \cup {0})
            /\ Nesting(Unchained(body)) >= Nesting(body)

\* The first operator of an expression in source order that holds this one
\* through operators only is scored for all of them.
Scored(root, p) ==
    /\ IsLogical(At(root, p))
    /\ ~\E k \in 0..(Len(p) - 1) :
          /\ IsLogical(At(root, SubSeq(p, 1, k)))
          /\ \A j \in k..Len(p) : At(root, SubSeq(p, 1, j)).kind = "binary"

\* What one place adds; an object is compared as the parser resolves it.
Effort(fn, p) ==
    LET root == fn.body[1]
        n == At(root, p)
        parent == At(root, Front(p))
        runs == BinaryOps(n, <<>>).ops
    IN  CASE Chained(root, p) -> 1
          [] n.kind \in Controls -> 1 + Level(root, p, Controls \cup {"lit"})
          [] n.kind = "block" -> IF p # <<>> /\ parent.kind = "if" /\ parent.els = <<n>>
                                    /\ Last(p) = Len(Children(parent)) THEN 1 ELSE 0
          [] n.kind = "branch" -> IF n.op # "" THEN 1 ELSE 0
          [] n.kind = "binary" -> IF Scored(root, p) THEN 1 + Cardinality({k \in 2..Len(runs) : runs[k] # runs[k - 1]}) ELSE 0
          [] n.kind = "call" -> IF IsRecursion(n, fn) THEN 1 ELSE 0
          [] OTHER -> 0

\* Cognitive complexity is a sum over the places of a function: the visitor
\* leaves every level it enters and scores no operator twice.  A chain of ifs
\* that is written nested costs no less.
CognitiveExact ==
    Loading => \A i \in DOMAIN file.funcs : file.funcs[i].body # <<>> =>
        LET fn == file.funcs[i]
        IN  /\ Cognitive(fn) = MapThenSumSet(LAMBDA p : Effort(fn, p), Places(fn.body[1]))
            /\ Cognitive([fn EXCEPT !.body = Unchained(fn.body)]) >= Cognitive(fn)

-----------------------------------------------------------------------------
(* Promotion and cohesion *)

TypesNamed(name) ==
    {file.classes[i] : i \in {k \in DOMAIN file.classes : file.classes[k].name = name}} \cup
    {file.interfaces[i] : i \in {k \in DOMAIN file.interfaces : file.interfaces[k].name = name}}

RECURSIVE Embedded(_)
Embedded(S) ==
    LET T == S \cup UNION {TypesNamed(CleanName(e)) : e \in UNION {Range(t.embeds) : t \in S}}
    IN  IF T = S THEN S ELSE Embedded(T)

IsClass(t) == t \in Range(file.classes)

\* The members promoted to a class are those of every type it embeds, at any
\* depth and also in a cycle, that no member of its own hides.
PromotedExact ==
    Loading => \A i \in DOMAIN file.classes :
        LET c == file.classes[i]
            own == Names(c.fields) \cup Names(MethodsOf(file, c))
            types == Embedded({c}) \ {c}
            promoted == Promoted(file, c)
        IN  /\ promoted.fields = UNION {Names(t.fields) : t \in {u \in types : IsClass(u)}} \ own
            /\ promoted.methods =
                  UNION {IF IsClass(t) THEN Names(MethodsOf(file, t)) ELSE Names(t.methods) : t \in types} \ own

\* The members that a method uses: fields, also through accessors, promoted
\* methods, and its siblings.
Selected(fn) == IF fn.recvName = "_" THEN {}
                ELSE {n.op : n \in {m \in Range(InspectAll(fn.body, {})) : OnReceiver(m, fn)}}

\* Methods share a component if a chain of common members and calls joins them.
RECURSIVE Closure(_, _)
Closure(S, joined) ==
    LET T == S \cup {j \in DOMAIN joined : \E i \in S : j \in joined[i] \/ i \in joined[j]}
    IN  IF T = S THEN S ELSE Closure(T, joined)

ComponentsOf(c) ==
    LET promoted == Promoted(file, c)
        methods == MethodsOf(file, c)
        fields == Names(c.fields) \cup promoted.fields
        wraps == [i \in DOMAIN methods |-> AccessorField(methods[i], fields)]
        nodes == {i \in DOMAIN methods : wraps[i] = ""}
        members == [i \in nodes |->
            UNION {IF u \in fields \cup promoted.methods THEN {u}
                   ELSE {wraps[k] : k \in {j \in DOMAIN methods \ nodes : methods[j].name = u}} : u \in Selected(methods[i])}]
        calls == [i \in nodes |-> {j \in nodes : methods[j].name \in Selected(methods[i]) \ fields}]
        joined == [i \in nodes |-> calls[i] \cup {j \in nodes : members[i] \cap members[j] # {}}]
        active == {i \in nodes : joined[i] # {} \/ \E j \in nodes : i \in joined[j]}
    IN  {Closure({i}, joined) : i \in active}

\* The metric is the number of components, whatever the order of the methods
\* and of their uses: halving paths and joining roots loses no connection.
ComponentsExact ==
    Loading => \A i \in DOMAIN file.classes :
        LackOfCohesion(file, file.classes[i]) =
            (IF ComponentsOf(file.classes[i]) = {} THEN 1 ELSE Cardinality(ComponentsOf(file.classes[i])))

-----------------------------------------------------------------------------
(* Reports *)

CodeLines(first, last) ==
    Cardinality({l \in (first..last) \cap DOMAIN file.lines : \E k \in DOMAIN file.lines[l] : file.lines[l][k] = "code"})

\* The largest value that is not reported.
Allowed(r, threshold) == IF Declaration[r].above THEN threshold ELSE threshold - 1

Threshold(r, raw) == IF raw.kind = "integer" THEN raw.value ELSE Declaration[r].default

Reported(r) == {<<violations[i].class, violations[i].name>> : i \in {k \in DOMAIN violations : violations[k].rule = r}}

\* A file is reported exactly where it breaches the limits the ruleset
\* states: lines without code count for no length that ignores them, a class
\* weighs what its methods weigh, an interface has a limit of its own, and no
\* artifact is reported twice by a rule.
ReportsExact ==
    status = "done" =>
        LET limit(r) == Allowed(r, Threshold(r, Setting(r, Declaration[r].property)))
            long(fn) == IF Bool(Setting("LongMethod", "ignore-whitespace"), FALSE) /\ fn.body # <<>>
                          THEN CodeLines(fn.first, fn.last) ELSE fn.last - fn.first + 1
            weight(c) == MapThenSumSet(LAMBDA i : IF file.funcs[i].recv = c.name THEN Cyclomatic(file.funcs[i].body) ELSE 0,
                                       DOMAIN file.funcs)
            counted(ms) == {m \in ms : Setting("TooManyMethods", "ignorepattern").kind # "none" \/ ~m.accessor}
            ifaceLimit == LET raw == Setting("TooManyMethods", "maxifacemethods")
                          IN  IF raw.kind = "integer" THEN raw.value ELSE 10
            methods(c) == {fn \in Range(file.funcs) : fn.recv = c.name}
        IN  /\ \A r \in Range(Rules) :
                 Cardinality(Reported(r)) = Cardinality({k \in DOMAIN violations : violations[k].rule = r})
            /\ Reported("LongMethod") =
                 {<<fn.recv, fn.name>> : fn \in {f \in Range(file.funcs) : long(f) > limit("LongMethod")}}
            /\ Reported("WeightedMethodCount") =
                 {<<c.name, "">> : c \in {d \in Range(file.classes) : weight(d) > limit("WeightedMethodCount")}}
            /\ Reported("LackOfCohesionOfMethods") =
                 {<<c.name, "">> : c \in {d \in Range(file.classes) :
                                            Cardinality(ComponentsOf(d)) > limit("LackOfCohesionOfMethods")
                                            \/ limit("LackOfCohesionOfMethods") < 1}}
            /\ Reported("TooManyMethods") =
                 {<<c.name, "">> : c \in {d \in Range(file.classes) :
                                            Cardinality(counted(methods(d))) > limit("TooManyMethods")}} \cup
                 {<<i.name, "">> : i \in {j \in Range(file.interfaces) :
                                            Cardinality(counted(Range(j.methods))) > ifaceLimit}}
=============================================================================
