------------------------------ MODULE Cohesion ------------------------------
(***************************************************************************)
(* The lack of cohesion of a class (LCOM4): the components of the graph    *)
(* whose nodes are its methods, two of them joined by a common field or by *)
(* a call through the receiver.  Members promoted from embedded types of   *)
(* the package count as its own; trivial accessors stand for their field.  *)
(***************************************************************************)
EXTENDS Metrics, CohesionGraph

-----------------------------------------------------------------------------
(* Promoted members: the classes embedded, breadth first, then interfaces *)

Names(s) == {s[i].name : i \in DOMAIN s}
ByName(s, name) == s[CHOOSE i \in DOMAIN s : s[i].name = name]

\* The package's own type that is embedded, or "".
CleanName(e) == IF e.foreign THEN "" ELSE e.name

EnqueueIface(pkg, c, e) ==
    LET n == CleanName(e)
    IN  IF n = "" \/ n \in c.visited THEN c
        ELSE [c EXCEPT !.visited = @ \cup {n},
                       !.ifaces = IF n \in Names(pkg.interfaces) THEN Append(@, ByName(pkg.interfaces, n)) ELSE @]

EnqueueClass(pkg, c, e) ==
    LET n == CleanName(e)
    IN  IF n \notin c.visited /\ n \in Names(pkg.classes)
          THEN [c EXCEPT !.visited = @ \cup {n}, !.classes = Append(@, ByName(pkg.classes, n))]
          ELSE EnqueueIface(pkg, c, e)

\* Mutation: direct members do not hide promoted ones.
AddAllMembers(c, fields, methods) ==
    [c EXCEPT !.fields = @ \cup fields, !.methods = @ \cup methods]

AddMembers(c, fields, methods) ==
    [c EXCEPT !.fields = @ \cup (fields \ c.direct), !.methods = @ \cup (methods \ c.direct)]

MethodsOf(pkg, class) == SelectSeq(pkg.funcs, LAMBDA fn : fn.recv = class.name)

RECURSIVE ProcessIfaces(_, _)
ProcessIfaces(pkg, c) ==
    IF c.ifaces = <<>> THEN c
    ELSE LET i == Head(c.ifaces)
             added == AddMembers([c EXCEPT !.ifaces = Tail(@)], {}, Names(i.methods))
         IN  ProcessIfaces(pkg, FoldLeft(LAMBDA d, e : EnqueueIface(pkg, d, e), added, i.embeds))

RECURSIVE ProcessClasses(_, _)
ProcessClasses(pkg, c) ==
    IF c.classes = <<>> THEN c
    ELSE LET k == Head(c.classes)
             added == AddMembers([c EXCEPT !.classes = Tail(@)], Names(k.fields), Names(MethodsOf(pkg, k)))
         IN  ProcessClasses(pkg, FoldLeft(LAMBDA d, e : EnqueueClass(pkg, d, e), added, k.embeds))

Promoted(pkg, class) ==
    LET start == [visited |-> {class.name}, classes |-> <<>>, ifaces |-> <<>>, fields |-> {}, methods |-> {},
                  direct |-> Names(class.fields) \cup Names(MethodsOf(pkg, class))]
        embedded == FoldLeft(LAMBDA d, e : EnqueueClass(pkg, d, e), start, class.embeds)
    IN  ProcessIfaces(pkg, ProcessClasses(pkg, embedded))

-----------------------------------------------------------------------------
(* What a method does with its receiver, found by the receiver's name *)

IsIdent(e) == e.kind \in {"id", "shadow", "free"}
IsReceiver(e, fn) == IsIdent(e) /\ e.op = fn.recvName
OnReceiver(n, fn) == n.kind = "sel" /\ IsReceiver(n.head[1], fn)

\* The field that a method of one statement returns or sets, or "".
AccessorField(fn, fields) ==
    LET s == fn.body[1].body[1]
        field(e) == IF OnReceiver(e, fn) /\ e.op \in fields THEN e.op ELSE ""
    IN  IF fn.body = <<>> \/ Len(fn.body[1].body) # 1 THEN ""
        ELSE CASE s.kind = "return" /\ Len(s.head) = 1 -> field(s.head[1])
               [] s.kind = "assign" /\ s.op = "=" /\ Len(s.init) = 1 /\ Len(s.head) = 1
                    /\ (IsIdent(s.head[1]) \/ s.head[1].kind = "basic") -> field(s.init[1])
               [] OTHER -> ""

\* Its fields and methods, each once, in the order they are met.
ReceiverUses(fn, fields, methods) ==
    LET met == SelectSeq(InspectAll(fn.body, {}), LAMBDA n : OnReceiver(n, fn) /\ n.op \in fields \cup methods)
        once == FoldLeft(LAMBDA seen, n : IF Contains(seen, n.op) THEN seen ELSE Append(seen, n.op), <<>>, met)
    IN  IF fn.recvName \in {"", "_"} THEN [fields |-> <<>>, methods |-> <<>>]
        ELSE [fields |-> SelectSeq(once, LAMBDA u : u \in fields),
              methods |-> SelectSeq(once, LAMBDA u : u \notin fields)]

-----------------------------------------------------------------------------
(* What the methods of a class add to its graph *)

\* An accessor's call counts as a use of its field; a promoted field and a
\* promoted method of one name are two members.
RecordCall(g, i, name, methods, accessorOf) ==
    CASE name \in Names(methods) /\ accessorOf[name] # "" -> Use(g, i, <<"field", accessorOf[name]>>)
      [] name \in Names(methods) -> Call(g, i, CHOOSE j \in DOMAIN methods : methods[j].name = name)
      [] OTHER -> Use(g, i, <<"method", name>>)

RecordMethod(g, i, methods, fields, known, accessorOf) ==
    LET uses == ReceiverUses(methods[i], fields, known)
        used == FoldLeft(LAMBDA h, f : Use(h, i, <<"field", f>>), g, uses.fields)
    IN  IF accessorOf[methods[i].name] # "" THEN g
        ELSE FoldLeft(LAMBDA h, m : RecordCall(h, i, m, methods, accessorOf), used, uses.methods)

LackOfCohesion(pkg, class) ==
    LET promoted == Promoted(pkg, class)
        methods == MethodsOf(pkg, class)
        fields == Names(class.fields) \cup promoted.fields
        known == Names(methods) \cup promoted.methods
        accessorOf == [name \in Names(methods) |-> AccessorField(ByName(methods, name), fields)]
        record(g, i) == RecordMethod(g, i, methods, fields, known, accessorOf)
    IN  Components(FoldLeft(record, NewGraph(Len(methods)), [i \in DOMAIN methods |-> i]))
=============================================================================
