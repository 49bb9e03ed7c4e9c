------------------------------ MODULE MCEffects ------------------------------
(***************************************************************************)
(* Programs for the effect analysis.  A family in which a function, a      *)
(* helper and a function that calls its argument call each other in every  *)
(* way, and single programs for factories, captured variables, variadic    *)
(* parameters, receivers, ranges, ambiguous returns and missing bodies.    *)
(***************************************************************************)
EXTENDS EffectReference

V(v) == [kind |-> "var", var |-> v]
Part(v) == [kind |-> "part", var |-> v]
F(f) == [kind |-> "func", fn |-> f]
Lit(f) == [kind |-> "lit", fn |-> f]
CallOf(f, args) == [kind |-> "call", fn |-> f, args |-> args]
Method(f, recv, typed) == [kind |-> "method", fn |-> f, recv |-> recv, typed |-> typed]
Other == [kind |-> "other"]
Constant == [kind |-> "constant"]
NoExpr == [kind |-> "none"]

Site(line, fun, args) ==
    [line |-> line, range |-> FALSE, fun |-> fun, args |-> args, established |-> FALSE, callbacks |-> <<>>]

Writes(v) == [Effect(1, "parameter write", v, v) EXCEPT !.deep = FALSE]
WritesGlobal == Effect(1, "package variable", "g", NoVar)
SendsOn(v) == Effect(1, "flow", v, v)
Assigns(v) == [Effect(1, "captured", v, v) EXCEPT !.access = TRUE]
Direct(outputs) == [inputs |-> <<>>, outputs |-> outputs, unknown |-> <<>>]

Func(params, direct, sites) ==
    [params |-> params, variadic |-> FALSE, receiver |-> NoVar, literals |-> <<>>, body |-> TRUE,
     owned |-> ToSet(params), tracked |-> ToSet(params), direct |-> direct, sites |-> sites, returns |-> <<>>, parent |-> NoFunc]

Param == [kind |-> "param", bindings |-> 0, declared |-> "param", expr |-> NoExpr, shares |-> TRUE, also |-> {}]
Copied == [Param EXCEPT !.shares = FALSE]
Global == [Param EXCEPT !.kind = "global", !.declared = "spec"]
Local(expr) == [Param EXCEPT !.kind = "local", !.bindings = 1, !.declared = "define", !.expr = expr, !.shares = FALSE]

Variables ==
    [v \in {"p", "q", "h", "y", "r", "w", "cb", "a", "b", "cc", "d", "e"} |-> Param] @@
    [v \in {"g"} |-> Global] @@ [v \in {"c"} |-> Copied] @@
    ("l" :> Local(V("p"))) @@ ("k" :> Local(F("helper"))) @@ ("made" :> Local(CallOf("factory", <<V("p")>>))) @@
    ("n" :> Local(Other)) @@ ("t" :> [Local(F("helper")) EXCEPT !.bindings = 2])
Operands ==
    {V(v) : v \in DOMAIN Variables} \cup {Part(v) : v \in DOMAIN Variables} \cup
    {F(f) : f \in {"helper", "apply", "root", "factory", "asm", "each", "both", "twice", "around"}} \cup
    {Lit("lit"), Lit("inner"), Other, Constant} \cup {CallOf("factory", <<V(v)>>) : v \in {"p", "g"}}

Program(funcs) ==
    LET operands == {e \in Operands : e.kind \in {"lit", "func", "call"} => e.fn \in DOMAIN funcs}
        methods == {Method(m, e, typed) : m \in {"method"} \cap DOMAIN funcs, e \in operands, typed \in BOOLEAN}
    IN  [funcs |-> funcs, vars |-> Variables, roots |-> {"root"}, strict |-> FALSE, exprs |-> operands \cup methods]

\* The ownership analysis on the expressions above.
Storage(program, f, e) ==
    LET none == [outer |-> FALSE, reachable |-> FALSE, ambient |-> FALSE, origins |-> {}]
        of[v \in DOMAIN Variables] ==
            CASE program.vars[v].kind = "global" -> [none EXCEPT !.outer = TRUE, !.ambient = TRUE]
              [] program.vars[v].kind = "param" ->
                    [none EXCEPT !.outer = program.vars[v].shares, !.reachable = TRUE, !.origins = {v}]
              [] HasRoot(program.vars[v].expr) -> of[program.vars[v].expr.var]
              [] OTHER -> none
    IN  IF HasRoot(e) THEN of[e.var] ELSE none

-----------------------------------------------------------------------------
(* The family *)

Root(sites) ==
    [Func(<<"p", "c">>, Direct(<<>>), sites)
       EXCEPT !.literals = <<"lit">>, !.owned = {"p", "c", "l", "k", "n", "t", "made"},
              !.tracked = {"p", "c", "l", "k", "n", "t", "made"}]
Literal(effects) == [Func(<<>>, Direct(effects), <<>>) EXCEPT !.parent = "root", !.tracked = {"p", "l", "n"}]
Apply(sites) == Func(<<"h", "y">>, Direct(<<>>), <<Site(6, V("h"), <<V("y")>>)>> \o sites)

RootSites(line) ==
    {Site(line, F("helper"), <<a>>) : a \in {V("p"), V("g"), V("l"), V("c"), Other}} \cup
    {Site(line, F("apply"), <<F("helper"), V("g")>>), Site(line, F("apply"), <<V("k"), Part("p")>>),
     Site(line, F("apply"), <<Lit("lit"), Other>>), Site(line, V("k"), <<V("p")>>)}

HelperSites ==
    {<<>>} \cup {<<Site(4, F("root"), <<V("q")>>)>>, <<Site(4, F("apply"), <<F("root"), V("q")>>)>>,
                 <<Site(4, F("helper"), <<V("g")>>), Site(5, F("apply"), <<F("helper"), V("q")>>)>>}

Family ==
    {Program(("root" :> Root(sites)) @@ ("lit" :> Literal(<<Writes("p")>>)) @@
             ("helper" :> Func(<<"q">>, Direct(own), more)) @@ ("apply" :> Apply(again))) :
        sites \in {<<a, b>> : a \in RootSites(2), b \in RootSites(3)} \cup {<<a>> : a \in RootSites(2)},
        own \in {<<Writes("q")>>, <<WritesGlobal, SendsOn("q")>>},
        more \in HelperSites,
        again \in {<<>>, <<Site(7, F("apply"), <<V("h"), V("y")>>)>>}}

-----------------------------------------------------------------------------
(* Single programs *)

Single(sites, others) ==
    Program(others @@ ("root" :> Root(sites)) @@ ("lit" :> Literal(<<Writes("l"), Assigns("n")>>)) @@
            ("helper" :> Func(<<"q">>, Direct(<<Writes("q")>>), <<>>)) @@ ("apply" :> Apply(<<>>)))

Factory(returns) ==
    ("factory" :> [Func(<<"w">>, Direct(<<>>), <<>>)
                     EXCEPT !.literals = <<"inner">>, !.returns = returns]) @@
    ("inner" :> [Func(<<>>, Direct(<<Writes("w")>>), <<>>) EXCEPT !.parent = "factory", !.tracked = {"w"}])

\* A function that calls its first parameter with the two others, together or one
\* after the other, and one that passes on what it gets.
Twice(sites) == "twice" :> Func(<<"cb", "a", "b">>, Direct(<<>>), sites)
Around(args) == "around" :> Func(<<"cc", "d", "e">>, Direct(<<>>), <<Site(10, F("twice"), args)>>)
Both == "both" :> Func(<<"q", "w">>, Direct(<<Writes("w")>>), <<>>)
InTurn == Twice(<<Site(8, V("cb"), <<V("a")>>), Site(9, V("cb"), <<V("b")>>)>>)
PassedOn == Around(<<V("cc"), V("d"), V("e")>>)

\* A callback that is passed on, and called with a constant or a function, with
\* an element or a method value of what is passed along, and with that itself.
Callbacks ==
    {Single(<<Site(2, F("around"), <<F("both"), V("l"), V("p")>>)>>,
            Twice(<<Site(8, V("cb"), <<x, V("b")>>)>>) @@ PassedOn @@ Both @@
            ("method" :> [Func(<<>>, Direct(<<Writes("r")>>), <<>>) EXCEPT !.receiver = "r"])) :
        x \in {Constant, F("helper"), Part("a"), Method("method", V("a"), TRUE)}}

\* One that is called once for each of the others.
CalledInTurn == {Single(<<Site(2, F("twice"), <<F("helper"), x, y>>)>>, InTurn) : x, y \in {Other, V("p"), V("g")}}

\* The same, with a function between them: the second call is lost.
PassedOnInTurn == {Single(<<Site(2, F("around"), <<F("helper"), Other, V("p")>>)>>, InTurn @@ PassedOn)}

Singles ==
    {\* the closure that a factory made, called directly and through a variable
     Single(<<Site(2, V("made"), <<>>)>>, Factory(<<Lit("inner")>>)),
     Single(<<Site(2, CallOf("factory", <<V("g")>>), <<>>), Site(3, F("factory"), <<V("p")>>)>>, Factory(<<Lit("inner")>>)),
     \* a factory that returns one of two functions, or its own result
     Single(<<Site(2, V("made"), <<V("p")>>)>>, Factory(<<Lit("inner"), F("helper")>>)),
     Single(<<Site(2, V("made"), <<>>)>>, Factory(<<CallOf("factory", <<V("p")>>)>>)),
     \* a captured local that shares the parameter, and one that is assigned
     Single(<<Site(2, Lit("lit"), <<>>)>>, <<>>),
     \* a variable that is bound twice
     [Single(<<Site(2, V("t"), <<V("p")>>)>>, <<>>) EXCEPT !.vars["t"].also = {F("apply")}],
     \* a library that calls back, and one that is given what nobody knows
     Single(<<[Site(2, Other, <<V("p"), F("helper")>>) EXCEPT !.established = TRUE, !.callbacks = <<2>>]>>, <<>>),
     Single(<<[Site(2, Other, <<V("p"), V("c")>>) EXCEPT !.established = TRUE, !.callbacks = <<2, 3>>]>>, <<>>),
     \* a function without a body, and a range over a function
     Single(<<Site(2, F("asm"), <<V("p")>>)>>, "asm" :> [Func(<<"q">>, Direct(<<>>), <<>>) EXCEPT !.body = FALSE]),
     Single(<<[Site(2, F("each"), <<>>) EXCEPT !.range = TRUE]>>,
            "each" :> Func(<<"y">>, Direct(<<WritesGlobal>>), <<Site(4, V("y"), <<>>)>>)),
     Single(<<[Site(2, V("p"), <<>>) EXCEPT !.range = TRUE]>>, <<>>),
     \* a method that writes its receiver
     Single(<<Site(2, Method("method", V("p"), TRUE), <<>>), Site(3, Method("method", V("c"), FALSE), <<>>)>>,
            "method" :> [Func(<<>>, Direct(<<Writes("r")>>), <<>>)
                           EXCEPT !.receiver = "r", !.owned = {"r"}, !.tracked = {"r"}]),
     \* a variadic function writes what one of its arguments refers to
     Single(<<Site(2, F("each"), <<Other, V("p"), V("g")>>), Site(3, F("each"), <<>>)>>,
            "each" :> [Func(<<"q", "y">>, Direct(<<[Writes("y") EXCEPT !.deep = TRUE]>>), <<>>)
                         EXCEPT !.variadic = TRUE])}

AllPrograms == Family \cup Singles \cup Callbacks \cup CalledInTurn
=============================================================================
