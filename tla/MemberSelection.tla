--------------------------- MODULE MemberSelection ---------------------------
(***************************************************************************)
(* Which members of which types a file selects.  The unused-member rules   *)
(* rely on it: a private member nobody selects is reported.                *)
(*                                                                         *)
(* A file has declarations, the classes (structs) and interfaces of its    *)
(* package, the results of its functions and the type behind every type    *)
(* name.  Syntax is a tree of records: "kind" says what a node is, "x" is  *)
(* its operand or, for a type, its element; "type" is a type it mentions.  *)
(* Statements without a part in typing are blocks of what they contain.    *)
(*                                                                         *)
(* A function is walked twice: once to bind its variables to types, the    *)
(* last binding of a name winning, and once to record what it selects.     *)
(***************************************************************************)
EXTENDS Naturals, Sequences, SequencesExt, FiniteSets, TLC

CONSTANT Files

VARIABLES
    file,    \* the file and what is known of its package
    decls,   \* its declarations yet to be looked at
    frames,  \* walks under way, the innermost first
    uses     \* pairs of a type and a member selected on it

vars == <<file, decls, frames, uses>>

None == [kind |-> "none"]
Types == DOMAIN file.typeDefs
Classes == DOMAIN file.classes
Interfaces == DOMAIN file.interfaces

-----------------------------------------------------------------------------
(* Types: a name, and the shape of a container with the name of its key *)

RECURSIVE TypeName(_)
TypeName(t) ==
    CASE t.kind = "id" -> t.name
      [] t.kind = "sel" -> t.text
      [] t.kind \in {"paren", "star", "index", "array", "chan", "map"} -> TypeName(t.x)
      [] OTHER -> ""

RECURSIVE Container(_)
Container(t) == IF t.kind \in {"paren", "star"} THEN Container(t.x) ELSE t

VarType(t) ==
    LET c == Container(t)
        shaped == c.kind \in {"array", "chan", "map"}
    IN  [name |-> TypeName(t),
         key |-> IF c.kind = "map" THEN TypeName(c.key) ELSE "",
         shape |-> IF shaped THEN c.kind ELSE "none"]

Named(name) == [name |-> name, key |-> "", shape |-> "none"]
Empty(t) == t.name = "" /\ t.key = ""
NoType == Named("")

FieldsOf(c) == Range(file.classes[c].fields)
MethodsOf(t) ==
    Range(IF t \in Classes THEN file.classes[t].methods
          ELSE IF t \in Interfaces THEN file.interfaces[t].methods ELSE <<>>)

\* The holder of a member that a search through embedded types meets first,
\* with the embedded fields on the way.  It looks into no type twice.
RECURSIVE Search(_, _, _)
Search(todo, seen, holders) ==
    IF todo = <<>> THEN {}
    ELSE LET h == Head(todo)
             step(f) == [type |-> TypeName(f.type), path |-> Append(h.path, <<h.type, f.name>>)]
             embedded == CASE h.type \in Classes ->
                                LET fs == SelectSeq(file.classes[h.type].fields, LAMBDA f : f.embedded)
                                IN  [i \in DOMAIN fs |-> step(fs[i])]
                           [] h.type \in Interfaces ->
                                LET es == file.interfaces[h.type].embeds
                                IN  [i \in DOMAIN es |-> [type |-> es[i], path |-> <<>>]]
                           [] OTHER -> <<>>
         IN  IF h.type \in seen THEN Search(Tail(todo), seen, holders)
             ELSE IF h.type \in holders THEN {h}
             ELSE Search(embedded \o Tail(todo), seen \cup {h.type}, holders)

Lookup(t, holders) == Search(<<[type |-> t, path |-> <<>>]>>, {}, holders)

Results(m) == [i \in DOMAIN m.results |-> VarType(m.results[i])]
OnlyResult(results) == IF Len(results) = 1 THEN results[1] ELSE NoType

\* Fields and methods of classes; interfaces hold none of them.
Member(t, name) ==
    Lookup(t, {c \in Classes : \E m \in FieldsOf(c) \cup MethodsOf(c) : m.name = name})

Method(t, name) ==
    LET found == Lookup(t, {c \in Classes \cup Interfaces : \E m \in MethodsOf(c) : m.name = name})
    IN  UNION {{m \in MethodsOf(h.type) : m.name = name} : h \in found}

DirectMemberType(c, name) ==
    LET fields == {f \in FieldsOf(c) : f.name = name}
        any(S) == CHOOSE x \in S : TRUE
    IN  IF fields # {} THEN VarType(any(fields).type)
        ELSE OnlyResult(Results(any({m \in MethodsOf(c) : m.name = name})))

-----------------------------------------------------------------------------
(* Expressions: types binds names to types *)

RECURSIVE Unwrapped(_)
Unwrapped(e) == IF e.kind = "paren" THEN Unwrapped(e.x) ELSE e

RECURSIVE Resolved(_, _)

\* A method is looked for where the code looks: on classes and interfaces.
CallResults(call, types) ==
    LET fun == Unwrapped(call.fun)
        base == Resolved(fun.x, types).name
    IN  CASE fun.kind = "id" /\ fun.name \in Types -> <<VarType(fun)>>
          [] fun.kind = "id" /\ fun.name = "new" /\ Len(call.args) = 1 ->
                SelectSeq(<<VarType(call.args[1])>>, LAMBDA t : ~ Empty(t))
          [] fun.kind = "id" /\ fun.name \in DOMAIN file.functions -> Results(file.functions[fun.name])
          [] fun.kind = "sel" /\ base # "" ->
                FlattenSeq(SetToSeq({Results(m) : m \in Method(base, fun.name)}))
          [] OTHER -> <<>>

Resolved(e, types) ==
    CASE e.kind = "id" /\ e.name \in DOMAIN types -> types[e.name]
      [] e.kind = "id" /\ e.name \in Types \ DOMAIN types -> Named(e.name)
      [] e.kind = "sel" ->
            LET found == Member(Resolved(e.x, types).name, e.name)
            IN  IF found = {} THEN NoType
                ELSE DirectMemberType((CHOOSE h \in found : TRUE).type, e.name)
      [] e.kind \in {"lit", "assert"} -> VarType(e.type)
      [] e.kind = "call" -> OnlyResult(CallResults(e, types))
      [] e.kind \in {"paren", "star", "unary", "slice"} -> Resolved(e.x, types)
      [] e.kind = "index" -> Named(Resolved(e.x, types).name)
      [] OTHER -> NoType

-----------------------------------------------------------------------------
(* Bindings *)

\* names[i] is "" where the target is no name.
BindAll(types, names, ts) ==
    LET bound(n) == {i \in DOMAIN names \cap DOMAIN ts : names[i] = n /\ ~ Empty(ts[i])}
        new == {names[i] : i \in DOMAIN names} \ {"", "_"}
    IN  [n \in {m \in new : bound(m) # {}} |->
            ts[CHOOSE i \in bound(n) : \A j \in bound(n) : j <= i]] @@ types

ValueTypes(values, count, types) ==
    IF Len(values) = 1 /\ count > 1 /\ Unwrapped(values[1]).kind = "call"
      THEN CallResults(Unwrapped(values[1]), types)
      ELSE [i \in DOMAIN values |-> Resolved(values[i], types)]

AddValueSpec(types, spec) ==
    BindAll(types, spec.names,
            IF ~ Empty(VarType(spec.type)) THEN [i \in DOMAIN spec.names |-> VarType(spec.type)]
            ELSE ValueTypes(spec.values, Len(spec.names), types))

NameIn(e) == IF e.kind = "id" THEN e.name ELSE ""

AddAssignment(types, s) ==
    BindAll(types, [i \in DOMAIN s.lhs |-> NameIn(s.lhs[i])], ValueTypes(s.rhs, Len(s.lhs), types))

\* Of a map the key comes first, of a channel the element, of a sequence the index.
AddRange(types, s) ==
    LET subject == Resolved(s.x, types)
        element == Named(subject.name)
        pair == <<NameIn(s.key), NameIn(s.value)>>
    IN  CASE subject.shape = "map" -> BindAll(types, pair, <<Named(subject.key), element>>)
          [] subject.shape = "chan" -> BindAll(types, pair, <<element>>)
          [] subject.shape = "array" \/ s.value # None -> BindAll(types, pair, <<NoType, element>>)
          [] OTHER -> BindAll(types, pair, <<element>>)

BindNode(n, types) ==
    CASE n.kind = "var" -> AddValueSpec(types, n)
      [] n.kind = "assign" -> AddAssignment(types, n)
      [] n.kind = "range" -> AddRange(types, n)
      [] OTHER -> types

AddParameters(types, params) ==
    FoldLeft(LAMBDA acc, p : BindAll(acc, <<p.name>>, <<VarType(p.type)>>), types, params)

\* The clause of a type switch has its variable at the type of the case, if it is one.
\* A type without a name is bound too: the variable hides a type of its name.
ClauseTypes(types, bound, clause) ==
    LET others == [n \in DOMAIN types \ {bound} |-> types[n]]
    IN  IF Len(clause.types) = 1 THEN (bound :> VarType(clause.types[1])) @@ others ELSE others

-----------------------------------------------------------------------------
(* Uses *)

RECURSIVE Underlying(_)
Underlying(t) == IF t.kind = "id" /\ t.name \in Types THEN Underlying(file.typeDefs[t.name]) ELSE t

\* Elements without a type of their own have that of the collection.
RECURSIVE LiteralUses(_, _)
LiteralUses(lit, type) ==
    LET under == Underlying(type)
        child(e, t) == IF e.kind = "lit" /\ e.type = None THEN LiteralUses(e, t) ELSE {}
        elements == Range(lit.elts)
        keyed == {e \in elements : e.key # None}
        name == TypeName(type)
    IN  CASE under.kind = "array" -> UNION {child(e.value, under.x) : e \in elements}
          [] under.kind = "map" ->
                UNION {child(e.key, under.key) \cup child(e.value, under.x) : e \in keyed}
          [] under.kind \notin {"array", "map"} /\ keyed # {} ->
                {<<name, e.key.name>> : e \in {k \in keyed : k.key.kind = "id" /\ name # ""}}
          [] OTHER -> IF elements # {} /\ name \in Classes
                      THEN {<<name, f.name>> : f \in FieldsOf(name)} ELSE {}

\* Mutation: a selection on a value of no known type is a use all the same.
SelectorUsesAny(sel, types) ==
    LET base == Resolved(sel.x, types).name
    IN  {<<base, sel.name>>} \cup UNION {Range(h.path) \cup {<<h.type, sel.name>>} : h \in Member(base, sel.name)}

\* A selection uses what it names and the embedded fields it goes through.
SelectorUses(sel, types) ==
    LET base == Resolved(sel.x, types).name
        promoted(h) == Range(h.path) \cup {<<h.type, sel.name>>}
    IN  IF base = "" THEN {}
        ELSE {<<base, sel.name>>} \cup UNION {promoted(h) : h \in Member(base, sel.name)}

NodeUses(n, types) ==
    CASE n.kind = "sel" -> SelectorUses(n, types)
      [] n.kind = "lit" -> LiteralUses(n, n.type)
      [] OTHER -> {}

\* A clause of a type switch contains the types of its cases.
Clause(c) == c.types \o c.body

\* What a node contains, in source order: types are nodes too.
Inner(n) ==
    CASE n.kind \in {"sel", "index", "paren", "star", "unary", "slice", "array", "chan"} -> <<n.x>>
      [] n.kind = "map" -> <<n.key, n.x>>
      [] n.kind = "assert" -> <<n.x, n.type>>
      [] n.kind = "lit" -> <<n.type>> \o FlattenSeq([i \in DOMAIN n.elts |-> <<n.elts[i].key, n.elts[i].value>>])
      [] n.kind = "call" -> <<n.fun>> \o n.args
      [] n.kind = "assign" -> n.lhs \o n.rhs
      [] n.kind = "var" -> <<n.type>> \o n.values
      [] n.kind = "range" -> <<n.key, n.value, n.x>> \o n.body
      [] n.kind = "block" -> n.body
      [] n.kind = "func" -> [i \in DOMAIN n.params |-> n.params[i].type] \o n.body
      [] n.kind = "switch" -> n.init \o <<n.assign>> \o FlattenSeq([i \in DOMAIN n.clauses |-> Clause(n.clauses[i])])
      [] OTHER -> <<>>

-----------------------------------------------------------------------------
(* The walk *)

PackageTypes(f) ==
    FoldLeft(LAMBDA acc, d : IF d.kind = "var" THEN AddValueSpec(acc, d) ELSE acc, <<>>, f.decls)

Binding(body, types) == [stage |-> "bind", todo |-> body, body |-> body, types |-> types]
Recording(stage, body, types) == [stage |-> stage, todo |-> body, body |-> body, types |-> types]

Init == file \in Files /\ decls = file.decls /\ frames = <<>> /\ uses = {}

Top == frames[1]
Walking(stages) == frames # <<>> /\ Top.stage \in stages /\ Top.todo # <<>>
Node == Head(Top.todo)
Continued(inner) == [Top EXCEPT !.todo = inner \o Tail(Top.todo)]

\* A function of its own, or a declaration seen with the package's variables only.
Declare ==
    /\ frames = <<>> /\ decls # <<>>
    /\ LET d == Head(decls) types == PackageTypes(file)
       IN  frames' = <<IF d.kind = "decl" THEN Binding(d.body, AddParameters(types, d.params))
                       ELSE Recording("top", <<d>>, types)>>
    /\ decls' = Tail(decls)
    /\ UNCHANGED <<file, uses>>

Bind ==
    /\ Walking({"bind"})
    /\ frames' = <<[Continued(IF Node.kind = "func" THEN <<>> ELSE Inner(Node))
                      EXCEPT !.types = BindNode(Node, Top.types)]>> \o Tail(frames)
    /\ UNCHANGED <<file, decls, uses>>

EndBinding ==
    /\ frames # <<>> /\ Top.stage = "bind" /\ Top.todo = <<>>
    /\ frames' = <<Recording("record", Top.body, Top.types)>> \o Tail(frames)
    /\ UNCHANGED <<file, decls, uses>>

\* Mutation: a literal sees what is bound so far, its own bindings left out.
RecordThrough ==
    /\ Walking({"record", "top"})
    /\ uses' = uses \cup NodeUses(Node, Top.types)
    /\ frames' = <<Continued(Inner(Node))>> \o Tail(frames)
    /\ UNCHANGED <<file, decls>>

Record ==
    /\ Walking({"record", "top"}) /\ (Top.stage = "top" \/ Node.kind \notin {"func", "switch"})
    /\ uses' = uses \cup NodeUses(Node, Top.types)
    /\ frames' = <<Continued(Inner(Node))>> \o Tail(frames)
    /\ UNCHANGED <<file, decls>>

EnterLiteral ==
    /\ Walking({"record"}) /\ Node.kind = "func"
    /\ frames' = <<Binding(Node.body, AddParameters(Top.types, Node.params)), Continued(<<>>)>> \o Tail(frames)
    /\ UNCHANGED <<file, decls, uses>>

\* Every clause is recorded with bindings of its own.
EnterSwitch ==
    /\ Walking({"record"}) /\ Node.kind = "switch"
    /\ LET bound == IF Node.assign.kind = "assign" THEN NameIn(Node.assign.lhs[1]) ELSE ""
           clause(c) == Recording("record", Clause(c), ClauseTypes(Top.types, bound, c))
       IN  frames' = <<Recording("record", Append(Node.init, Node.assign), Top.types)>>
                       \o [i \in DOMAIN Node.clauses |-> clause(Node.clauses[i])]
                       \o <<Continued(<<>>)>> \o Tail(frames)
    /\ UNCHANGED <<file, decls, uses>>

Leave ==
    /\ frames # <<>> /\ Top.stage # "bind" /\ Top.todo = <<>>
    /\ frames' = Tail(frames)
    /\ UNCHANGED <<file, decls, uses>>

Next ==
    Declare \/ Bind \/ EndBinding \/ Record \/ EnterLiteral \/ EnterSwitch \/ Leave

Spec == Init /\ [][Next]_vars

-----------------------------------------------------------------------------
Selected == decls = <<>> /\ frames = <<>>

\* Frames are binding, recording or of the top level, only the innermost binds,
\* and every use is one of a type that has a name.
TypeOK ==
    /\ file \in Files /\ IsSuffix(decls, file.decls)
    /\ \A i \in DOMAIN frames :
        /\ frames[i].stage \in {"bind", "record", "top"}
        /\ frames[i].stage = "bind" => i = 1
    /\ \A u \in uses : u[1] # ""
=============================================================================
