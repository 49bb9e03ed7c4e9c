--------------------------- MODULE MemberReference ---------------------------
(***************************************************************************)
(* What a file selects by the rules of Go: variables have the type of      *)
(* their declaration in the block they are declared in, named types stand  *)
(* for the types behind them, and a promoted member is that of the         *)
(* shallowest embedded type.                                               *)
(***************************************************************************)
EXTENDS MemberSelection

Opaque == [kind |-> "opaque"]
Pointer(t) == [kind |-> "star", x |-> t]
TypeNamed(n) == [kind |-> "id", name |-> n]

\* Parentheses and type arguments do not tell types apart here.
RECURSIVE Plain(_)
Plain(t) == IF t.kind \in {"paren", "index"} THEN Plain(t.x) ELSE t

Shape(t) == Underlying(Plain(t))
Element(t) == IF Shape(t).kind \in {"array", "map", "chan", "star"} THEN Plain(Shape(t).x) ELSE Opaque

\* A type or the type it points to, by name.
BaseName(t) ==
    LET b == IF Plain(t).kind = "star" THEN Plain(Plain(t).x) ELSE Plain(t)
    IN  IF b.kind = "id" THEN b.name ELSE ""

-----------------------------------------------------------------------------
(* Promotion, level by level *)

Step(h) ==
    IF h.type \in Classes
      THEN {[type |-> BaseName(f.type), path |-> h.path \cup {<<h.type, f.name>>}] :
                f \in {g \in FieldsOf(h.type) : g.embedded}}
      ELSE IF h.type \in Interfaces
        THEN {[type |-> e, path |-> h.path] : e \in Range(file.interfaces[h.type].embeds)}
        ELSE {}

Declares(t, name) ==
    (t \in Classes /\ \E f \in FieldsOf(t) : f.name = name) \/ \E m \in MethodsOf(t) : m.name = name

RECURSIVE Shallowest(_, _, _)
Shallowest(level, name, depth) ==
    LET holders == {h \in level : Declares(h.type, name)}
    IN  IF holders # {} \/ depth = 0 THEN holders
        ELSE Shallowest(UNION {Step(h) : h \in level}, name, depth - 1)

\* One holder, or none if the name is unknown or ambiguous.
Holder(t, name) ==
    LET found == Shallowest({[type |-> BaseName(t), path |-> {}]}, name,
                            Cardinality(Classes) + Cardinality(Interfaces))
    IN  IF Cardinality(found) = 1 THEN found ELSE {}

\* The type of a field, or of the only result of a method.
MemberType(t, name) ==
    LET types(h) ==
            IF h.type \in Classes /\ \E f \in FieldsOf(h.type) : f.name = name
              THEN {f.type : f \in {g \in FieldsOf(h.type) : g.name = name}}
              ELSE {[kind |-> "func", results |-> m.results] : m \in {n \in MethodsOf(h.type) : n.name = name}}
        found == UNION {types(h) : h \in Holder(t, name)}
    IN  IF found = {} THEN Opaque ELSE CHOOSE x \in found : TRUE

-----------------------------------------------------------------------------
(* Typing; a name that env leaves free is a type, a function or a value of no interest *)

RECURSIVE TypesOf(_, _)
TypeOf(e, env) == LET ts == TypesOf(e, env) IN IF Len(ts) = 1 THEN ts[1] ELSE Opaque

\* The types of an expression with several values, or with one.
TypesOf(e, env) ==
    CASE e.kind = "id" -> <<IF e.name \in DOMAIN env THEN env[e.name]
                            ELSE IF e.name \in DOMAIN file.functions
                              THEN [kind |-> "func", results |-> file.functions[e.name].results]
                              ELSE Opaque>>
      [] e.kind = "sel" -> <<MemberType(TypeOf(e.x, env), e.name)>>
      [] e.kind \in {"lit", "assert"} -> <<e.type>>
      [] e.kind = "paren" -> TypesOf(e.x, env)
      [] e.kind = "slice" -> <<TypeOf(e.x, env)>>
      [] e.kind = "star" -> <<Element(TypeOf(e.x, env))>>
      [] e.kind = "index" -> <<Element(TypeOf(e.x, env))>>
      [] e.kind = "unary" -> <<IF e.op = "&" THEN Pointer(TypeOf(e.x, env)) ELSE Element(TypeOf(e.x, env))>>
      [] e.kind = "call" ->
            LET fun == Unwrapped(e.fun)
                free == fun.kind = "id" /\ fun.name \notin DOMAIN env
                type == TypeOf(fun, env)
            IN  IF free /\ fun.name = "new" THEN <<Pointer(e.args[1])>>
                ELSE IF free /\ fun.name \in Types THEN <<fun>>
                ELSE IF type.kind = "func" THEN type.results ELSE <<Opaque>>
      [] OTHER -> <<Opaque>>

ValuesOf(values, count, env) ==
    IF Len(values) = 1 /\ count > 1 THEN TypesOf(values[1], env) \o <<Opaque>>
    ELSE [i \in DOMAIN values |-> TypeOf(values[i], env)]

\* Declared names; an assignment declares nothing.
Declared(n, env) ==
    LET names == CASE n.kind = "var" -> n.names
                   [] n.kind = "assign" /\ n.define -> [i \in DOMAIN n.lhs |-> NameIn(n.lhs[i])]
                   [] OTHER -> <<>>
        types == CASE n.kind = "var" /\ n.type # None -> [i \in DOMAIN n.names |-> n.type]
                   [] n.kind = "var" /\ n.type = None -> ValuesOf(n.values, Len(n.names), env)
                   [] n.kind = "assign" -> ValuesOf(n.rhs, Len(n.lhs), env)
                   [] OTHER -> <<>>
        at(x) == CHOOSE i \in DOMAIN names : names[i] = x
    IN  [x \in Range(names) \ {"", "_"} |-> types[at(x)]] @@ env

Iterated(n, env) ==
    LET subject == Shape(TypeOf(n.x, env))
        shape == IF subject.kind = "star" THEN Shape(subject.x) ELSE subject
        key == CASE shape.kind = "map" -> shape.key [] shape.kind = "chan" -> shape.x [] OTHER -> Opaque
        value == IF shape.kind \in {"array", "map"} THEN shape.x ELSE Opaque
    IN  (NameIn(n.key) :> key) @@ (NameIn(n.value) :> value) @@ env

WithParams(params, env) ==
    [x \in {params[i].name : i \in DOMAIN params} |->
        (CHOOSE p \in Range(params) : p.name = x).type] @@ env

-----------------------------------------------------------------------------
(* Selections: pairs of a type and a member, with None for one that cannot be resolved *)

Unresolved == <<"", "">>

\* A type of another package, or without a name: no class here has its members.
Elsewhere(t) == Plain(t).kind \in {"sel", "struct"}

Selection(sel, env) ==
    LET operand == Unwrapped(IF Unwrapped(sel.x).kind = "star" THEN Unwrapped(sel.x).x ELSE sel.x)
        expression == operand.kind = "id" /\ operand.name \in Types \ DOMAIN env
        t == IF expression THEN operand ELSE TypeOf(sel.x, env)
        imported == operand.kind = "id" /\ operand.name \in file.imports \ DOMAIN env
    IN  IF imported \/ Elsewhere(t) THEN {}
        ELSE IF Holder(t, sel.name) = {} THEN {Unresolved}
        ELSE {<<BaseName(t), sel.name>>} \cup
             UNION {h.path \cup {<<h.type, sel.name>>} : h \in Holder(t, sel.name)}

RECURSIVE Initialized(_, _)
Initialized(lit, type) ==
    LET t == IF lit.type = None /\ Plain(type).kind = "star" THEN Plain(Plain(type).x) ELSE Plain(type)
        shape == Shape(t)
        child(e, x) == IF e.kind = "lit" /\ e.type = None THEN Initialized(e, x) ELSE {}
        elements == Range(lit.elts)
    IN  CASE shape.kind = "array" -> UNION {child(e.value, shape.x) : e \in elements}
          [] shape.kind = "map" -> UNION {child(e.key, shape.key) \cup child(e.value, shape.x) : e \in elements}
          [] shape.kind = "struct" ->
                IF \E e \in elements : e.key # None THEN {<<BaseName(t), e.key.name>> : e \in elements}
                ELSE IF elements = {} THEN {} ELSE {<<BaseName(t), f.name>> : f \in FieldsOf(BaseName(t))}
          [] OTHER -> {Unresolved}

RECURSIVE SelectedIn(_, _)
RECURSIVE SelectedBlock(_, _)

SelectedAll(nodes, env) == UNION {SelectedIn(nodes[i], env) : i \in DOMAIN nodes}

\* Statement after statement, each in the scope of the declarations before it.
SelectedBlock(nodes, env) ==
    IF nodes = <<>> THEN {}
    ELSE SelectedIn(Head(nodes), env) \cup SelectedBlock(Tail(nodes), Declared(Head(nodes), env))

SelectedIn(n, env) ==
    CASE n.kind \in {"func", "decl"} -> SelectedBlock(n.body, WithParams(n.params, env))
      [] n.kind = "block" -> SelectedBlock(n.body, env)
      [] n.kind = "range" -> SelectedIn(n.x, env) \cup SelectedBlock(n.body, Iterated(n, env))
      [] n.kind = "switch" ->
            LET subject == IF n.assign.kind = "assign" THEN n.assign.rhs[1].x ELSE n.assign.x
                bound == IF n.assign.kind = "assign" THEN NameIn(n.assign.lhs[1]) ELSE "_"
                scope(c) == IF Len(c.types) = 1 THEN (bound :> c.types[1]) @@ env
                            ELSE (bound :> TypeOf(subject, env)) @@ env
            IN  SelectedAll(n.init \o <<subject>>, env)
                  \cup UNION {SelectedAll(c.types, env) \cup SelectedBlock(c.body, scope(c)) : c \in Range(n.clauses)}
      [] n.kind = "sel" -> SelectedIn(n.x, env) \cup Selection(n, env)
      [] n.kind = "lit" -> SelectedAll(Inner(n), env) \cup IF n.type = None THEN {} ELSE Initialized(n, n.type)
      [] OTHER -> SelectedAll(Inner(n), env)

\* Package variables have their scope everywhere, those of other files too.
PackageScope == FoldLeft(LAMBDA env, d : IF d.kind = "var" THEN Declared(d, env) ELSE env, file.outside, file.decls)

SelectedMembers == UNION {SelectedIn(d, env) : d \in Range(file.decls), env \in {PackageScope}}

-----------------------------------------------------------------------------
\* The file compiles, as far as selections go.
Legal(members) == Unresolved \notin members

\* What the unused-member rules may report: the members of a class.
Reportable == UNION {{<<c, m.name>> : m \in FieldsOf(c) \cup MethodsOf(c)} : c \in Classes}

\* A file is found to select what it selects by the rules of Go, on every class,
\* through every variable, call, container, promotion and literal, and no more:
\* a private member is reported as unused if and only if it is.
UsesExact ==
    Selected => \A members \in {SelectedMembers} :
                    Legal(members) => uses \cap Reportable = members \cap Reportable

\* What the comment of receiver.go promises: each selection of a member on a
\* value of the type is found, through any variable, promotion path or literal.
FindsEachSelection ==
    Selected => \A members \in {SelectedMembers} : Legal(members) => members \cap Reportable \subseteq uses
=============================================================================
