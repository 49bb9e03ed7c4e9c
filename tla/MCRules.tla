------------------------------- MODULE MCRules -------------------------------
(***************************************************************************)
(* Instances: files of functions whose bodies cover every statement around *)
(* operators, literals, chains and calls; files of classes with every use  *)
(* of members by four methods; a package of types that embed one another.  *)
(***************************************************************************)
EXTENDS RuleReference, TLC

Node(kind, op) == [kind |-> kind, op |-> op, init |-> <<>>, head |-> <<>>, post |-> <<>>, body |-> <<>>, els |-> <<>>]
Headed(kind, op, head) == [Node(kind, op) EXCEPT !.head = head]
Holding(kind, body) == [Node(kind, "") EXCEPT !.body = body]
Block(ss) == Holding("block", ss)

A == Node("id", "a")
Binary(op, x, y) == Headed("binary", op, <<x, y>>)
And(x, y) == Binary("&&", x, y)
Or(x, y) == Binary("||", x, y)
Paren(x) == Headed("paren", "", <<x>>)
Sel(x, name) == Headed("sel", name, <<x>>)
CallOf(f) == Headed("call", "", <<f>>)
Lit(ss) == Holding("lit", <<Block(ss)>>)

Expr(x) == Headed("expr", "", <<x>>)
Assign(x, y) == [Headed("assign", "=", <<y>>) EXCEPT !.init = <<x>>]
Return(xs) == Headed("return", "", xs)
IfStmt(cond, ss, els) == [Headed("if", "", <<cond>>) EXCEPT !.body = <<Block(ss)>>, !.els = els]
ForStmt(head, ss) == [Headed("for", "", head) EXCEPT !.body = <<Block(ss)>>]
CaseOf(labels, ss) == [Headed("case", "", labels) EXCEPT !.body = ss]
Comm(comm, ss) == [Headed("comm", "", comm) EXCEPT !.body = ss]
Switching(kind, head, cs) == [Headed(kind, "", head) EXCEPT !.body = <<Block(cs)>>]

Work == Expr(A)
Choose == IfStmt(A, <<Work>>, <<>>)
\* Conditions and bodies in a function f; f is an object of the file.
Conds(f) == <<A, And(A, A), Or(And(A, A), A), And(A, Paren(Or(A, A))), Binary("==", Paren(And(A, A)), Or(A, A)),
          And(A, CallOf(Lit(<<Choose>>))), CallOf(Headed("index", "", <<Node("id", f)>>)),
          CallOf(Lit(<<ForStmt(<<And(A, A)>>, <<Choose>>)>>))>>

Inner(f) == <<<<>>, <<Work>>, <<Choose, Choose>>, <<Return(<<And(A, A), Or(A, A)>>)>>,
          <<Headed("branch", "L", <<>>), Expr(CallOf(Node("id", f)))>>, <<Assign(A, And(A, Or(A, A)))>>,
          <<ForStmt(<<A>>, <<Choose>>), Expr(Lit(<<Choose, ForStmt(<<>>, <<Work>>)>>))>>>>

Chain(c, ss) == IfStmt(A, ss, <<IfStmt(c, <<Work>>, <<IfStmt(And(A, A), ss, <<Block(<<Choose>>)>>)>>)>>)

Statements(c, ss) ==
    <<IfStmt(c, ss, <<>>), IfStmt(c, <<Work>>, <<Block(ss)>>), Chain(c, ss),
     [IfStmt(A, ss, <<IfStmt(A, ss, <<>>)>>) EXCEPT !.init = <<Assign(A, c)>>],
     [ForStmt(<<c>>, ss) EXCEPT !.init = <<Assign(A, c)>>, !.post = <<Assign(A, And(A, A))>>],
     [Headed("range", "", <<c>>) EXCEPT !.body = <<Block(ss)>>],
     [Switching("switch", <<c>>, <<CaseOf(<<A, c, A>>, ss), CaseOf(<<>>, <<Work>>)>>) EXCEPT !.init = <<Assign(A, c)>>],
     Switching("switch", <<c>>, <<>>),
     Switching("typeswitch", <<Assign(A, c)>>, <<CaseOf(<<A>>, ss), CaseOf(<<A>>, <<Choose>>)>>),
     Switching("select", <<>>, <<Comm(<<Expr(c)>>, ss), Comm(<<>>, <<Choose>>)>>),
     Switching("select", <<>>, <<>>),
     Holding("labeled", <<ForStmt(<<c>>, ss)>>),
     Block(ss), Return(<<c, A>>), Expr(c)>>

-----------------------------------------------------------------------------

Function == [name |-> "F", recv |-> "", recvName |-> "", exported |-> TRUE, accessor |-> FALSE,
             params |-> 0, results |-> <<>>, body |-> <<Block(<<>>)>>, first |-> 1, last |-> 1]

FuncNames == [i \in 1..15 |-> "F" \o ToString(i)]

\* The lines of every file here.
Lines == <<<<"code">>, <<"space">>, <<"comment">>, <<"comment", "code">>, <<>>, <<"code", "comment">>>>

FunctionFile(c, k) ==
    [lines |-> Lines, classes |-> <<>>, interfaces |-> <<>>,
     funcs |-> [i \in 1..15 |->
        [Function EXCEPT !.name = FuncNames[i],
                         !.body = <<Block(<<Statements(Conds(FuncNames[i])[c], Inner(FuncNames[i])[k])[i], Work>>)>>, !.params = i % 3, !.results = <<"err">>,
                         !.first = 1 + (i % 4), !.last = 6]]]

FunctionFiles == {FunctionFile(c, k) : c \in 1..8, k \in 1..7}

\* A function without a body and bare returns, named results or not.
ReturnFile ==
    [lines |-> Lines, classes |-> <<>>, interfaces |-> <<>>,
     funcs |-> <<[Function EXCEPT !.body = <<>>],
                 [Function EXCEPT !.name = "G", !.body = <<Block(<<Choose, Return(<<>>)>>)>>, !.results = <<"", "n">>, !.last = 6],
                 [Function EXCEPT !.name = "H", !.body = <<Block(<<Expr(Lit(<<Return(<<>>)>>))>>)>>, !.results = <<"n">>],
                 [Function EXCEPT !.name = "len", !.recv = "T", !.recvName = "r",
                                  !.body = <<Block(<<Expr(CallOf(Node("free", "len"))),
                                                     Expr(CallOf(Sel(Node("id", "r"), "len"))),
                                                     Expr(CallOf(Sel(A, "len")))>>)>>]>>]

-----------------------------------------------------------------------------

R == Node("id", "r")
Of(name) == Expr(CallOf(Sel(R, name)))

Method(class, name, ss) ==
    [Function EXCEPT !.name = name, !.recv = class, !.recvName = "r", !.body = <<Block(ss)>>,
                     !.exported = name \in {"m1", "get"}, !.accessor = name = "get"]

Type(name, fields, embeds) ==
    [name |-> name, fields |-> [i \in DOMAIN fields |-> [name |-> fields[i], exported |-> i = 1]],
     embeds |-> [i \in DOMAIN embeds |-> [name |-> embeds[i], foreign |-> embeds[i] = "Foreign"]],
     methods |-> <<>>, first |-> 1, last |-> 4]

Iface(name, methods, embeds) ==
    [Type(name, <<>>, embeds) EXCEPT !.methods = [i \in DOMAIN methods |-> [name |-> methods[i], accessor |-> methods[i] = "get"]]]

UsesOf == [none |-> <<>>, f |-> <<Assign(Sel(R, "f"), CallOf(A))>>, g |-> <<Of("g"), Work>>,
           fg |-> <<Of("f"), Of("g")>>, promoted |-> <<Of("p"), Of("h")>>, get |-> <<Of("get")>>,
           shadowed |-> <<Expr(Lit(<<Expr(Sel(Node("shadow", "r"), "g"))>>)), Of("q")>>]

Calling(k) == <<Of(k), Work>>

ClassFile(first, second, third) ==
    LET fourths == <<<<>>, UsesOf.fg, Calling("m1"), Calling("m4"), UsesOf.get \o UsesOf.promoted>>
        name(i) == <<"C1", "C2", "C3", "C4", "C5">>[i]
        methods(i) == <<Method(name(i), "m1", first), Method(name(i), "m2", second), Method(name(i), "m3", third),
                        Method(name(i), "m4", fourths[i]), Method(name(i), "get", <<Return(<<Sel(R, "f")>>)>>)>>
    IN  [lines |-> Lines,
         classes |-> [i \in 1..5 |-> Type(name(i), <<"f", "g", "Base">>, <<"Base">>)] \o <<Type("Base", <<"h">>, <<"I">>)>>,
         interfaces |-> <<Iface("I", <<"q">>, <<"J", "Foreign">>), Iface("J", <<"get", "p">>, <<"I">>)>>,
         funcs |-> Concat([i \in 1..5 |-> methods(i)]) \o <<Method("Base", "p", <<>>)>>]

ClassFiles ==
    {ClassFile(x, y, z) : x \in {UsesOf.f, UsesOf.none, UsesOf.promoted, Calling("m3")},
                          y \in {UsesOf.g, UsesOf.fg, UsesOf.shadowed, Calling("m1")},
                          z \in {UsesOf.none, UsesOf.g, UsesOf.get, UsesOf.promoted \o Calling("m4")}}

\* Embedding in a cycle, hidden members, a type embedded twice, foreign and
\* unknown types.
EmbeddingFile ==
    [lines |-> Lines,
     classes |-> <<Type("A", <<"x", "B">>, <<"B", "Foreign", "Gone">>), Type("B", <<"x", "y", "D">>, <<"D", "K">>),
                   Type("D", <<"z", "A">>, <<"A", "K", "B">>), Type("E", <<"A", "D">>, <<"A", "D">>)>>,
     interfaces |-> <<Iface("K", <<"k", "run">>, <<"M">>), Iface("M", <<"m", "x">>, <<"K">>)>>,
     funcs |-> <<Method("A", "run", <<>>), Method("B", "stop", <<>>), Method("D", "z2", <<>>),
                 [Method("E", "blank", UsesOf.f) EXCEPT !.recvName = "_"]>>]

-----------------------------------------------------------------------------

Integer(n) == [kind |-> "integer", value |-> n]
Malformed1 == [kind |-> "malformed", value |-> 0]

Small ==
    [p \in {<<r, Declaration[r].property>> : r \in DOMAIN Declaration} |-> Integer(IF p[1] \in {"LongMethod", "LongClass"} THEN 3 ELSE 2)]

Strict ==
    (<<"LongMethod", "ignore-whitespace">> :> Integer(1)) @@ (<<"LongClass", "ignore-whitespace">> :> Integer(1)) @@
    (<<"TooManyMethods", "maxifacemethods">> :> Integer(1)) @@ (<<"TooManyMethods", "ignorepattern">> :> Malformed1) @@
    (<<"CyclomaticComplexity", "showMethodsComplexity">> :> Integer(0)) @@ (<<"NakedReturn", "minccn">> :> Malformed1) @@
    (<<"LackOfCohesionOfMethods", "maximum">> :> Integer(0)) @@ Small

Broken(r, property) == (<<r, property>> :> Malformed1) @@ Small

Settings ==
    {Small, Strict, <<>>, Broken("NPathComplexity", "minimum"), Broken("TooManyMethods", "maxifacemethods"),
     Broken("NakedReturn", "minloc")}

SomeInputs ==
    {[file |-> f, props |-> Small] : f \in FunctionFiles \cup ClassFiles} \cup
    {[file |-> f, props |-> s] : s \in Settings,
        f \in {ReturnFile, EmbeddingFile, ClassFile(UsesOf.f, UsesOf.g, UsesOf.none)}}

\* Interface methods of a name that the pattern ignores come with TooManyMethods.
AllRules ==
    <<"CyclomaticComplexity", "CognitiveComplexity", "NestingDepth", "ExcessiveReturnCount", "NPathComplexity",
      "LongMethod", "LongParameterList", "NakedReturn", "LongClass", "ExcessivePublicCount", "TooManyFields",
      "TooManyMethods", "TooManyPublicMethods", "WeightedMethodCount", "LackOfCohesionOfMethods">>
=============================================================================
