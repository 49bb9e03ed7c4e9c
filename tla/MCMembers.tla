------------------------------ MODULE MCMembers ------------------------------
(***************************************************************************)
(* Files that bind a variable in every way a function can and select       *)
(* through it, over classes that embed each other in a circle, and files   *)
(* with selections that the code does not see.                             *)
(***************************************************************************)
EXTENDS MemberReference

Id(n) == [kind |-> "id", name |-> n]
Sel(x, n) == [kind |-> "sel", x |-> x, name |-> n]
Wrap(kind, x) == [kind |-> kind, x |-> x]
Star(x) == Wrap("star", x)
Paren(x) == Wrap("paren", x)
Unary(op, x) == [kind |-> "unary", op |-> op, x |-> x]
Index(x) == Wrap("index", x)
Array(t) == Wrap("array", t)
Map(k, t) == [kind |-> "map", key |-> k, x |-> t]
Call(f, args) == [kind |-> "call", fun |-> f, args |-> args]
Asserted(x, t) == [kind |-> "assert", x |-> x, type |-> t]
Elt(k, v) == [key |-> k, value |-> v]
Lit(t, elts) == [kind |-> "lit", type |-> t, elts |-> elts]
Fun(params, body) == [kind |-> "func", params |-> params, body |-> body]
Block(body) == [kind |-> "block", body |-> body]
VarDecl(names, t, values) == [kind |-> "var", names |-> names, type |-> t, values |-> values]
Define(names, rhs) ==
    [kind |-> "assign", define |-> TRUE, lhs |-> [i \in DOMAIN names |-> Id(names[i])], rhs |-> rhs]
RangeOver(k, v, x, body) == [kind |-> "range", key |-> k, value |-> v, x |-> x, body |-> body]
Param(n, t) == [name |-> n, type |-> t]
Decl(params, body) == [kind |-> "decl", params |-> params, body |-> body]
One == [kind |-> "basic"]

A == Id("A")
B == Id("B")
C == Id("C")
Field(n, t) == [name |-> n, embedded |-> FALSE, type |-> t]
Embedded(n, t) == [name |-> n, embedded |-> TRUE, type |-> t]
Meth(n, results) == [name |-> n, results |-> results]
Class(fields, methods) == [fields |-> fields, methods |-> methods]
Iface(methods, embeds) == [methods |-> methods, embeds |-> embeds]
Structure == [kind |-> "struct"]
External == [kind |-> "sel", x |-> Id("ext"), name |-> "T", text |-> "ext.T"]
FuncType == [kind |-> "functype"]

\* A, B and C embed each other in a circle, K is a key, I extends J.
SomeClasses ==
    [A |-> Class(<<Embedded("B", B), Field("f", Id("int"))>>, <<Meth("am", <<C>>)>>),
     B |-> Class(<<Embedded("C", Star(C)), Field("g", C)>>, <<Meth("bm", <<>>)>>),
     C |-> Class(<<Field("h", Array(Id("int"))), Embedded("A", Star(A))>>, <<Meth("cm", <<Star(A), Id("error")>>)>>),
     K |-> Class(<<Field("k", Id("int"))>>, <<>>)]

FileWith(ds) ==
    [decls |-> ds, outside |-> <<>>, imports |-> {"ext"},
     classes |-> SomeClasses,
     interfaces |-> [I |-> Iface(<<Meth("im", <<A>>)>>, <<"J">>), J |-> Iface(<<Meth("jm", <<Star(B)>>)>>, <<>>)],
     functions |-> [mk |-> [results |-> <<Star(A)>>], two |-> [results |-> <<Index(B), Id("error")>>]],
     typeDefs |-> [c \in {"A", "B", "C", "K"} |-> Structure] @@
                  [c \in {"I", "J"} |-> [kind |-> "interface"]] @@ ("L" :> Array(Star(A)))]

Parameters ==
    <<Param("a", A), Param("pb", Paren(Star(B))), Param("i", Id("I")), Param("ls", Array(A)),
      Param("ms", Map(Id("K"), Star(B))), Param("ch", Wrap("chan", C))>>

\* Ways to bind v for the statements that follow in the body.
Bindings(v) ==
    {Define(<<v>>, <<e>>) :
        e \in {Lit(A, <<>>), Unary("&", Lit(B, <<>>)), Call(Id("new"), <<C>>), Call(Id("mk"), <<>>),
               Call(A, <<Id("a")>>), Index(Id("ms")), Index(Id("ls")), Wrap("slice", Id("ls")),
               Sel(Id("a"), "B"), Sel(Id("pb"), "g"), Call(Sel(Id("i"), "im"), <<>>),
               Call(Sel(Id("i"), "jm"), <<>>), Call(Sel(Id("pb"), "am"), <<>>),
               Unary("<-", Id("ch")), Star(Id("pb")), Asserted(Id("i"), Star(C)), Id("i")}} \cup
    {Define(<<v, "e">>, <<Call(Id("two"), <<>>)>>), Define(<<v, "e">>, <<Call(Sel(Id("a"), "cm"), <<>>)>>),
     Define(<<v, "e">>, <<Asserted(Id("i"), A)>>), Define(<<"e", v>>, <<Id("a"), Id("pb")>>),
     VarDecl(<<v>>, Map(Id("K"), A), <<>>), VarDecl(<<v, "e">>, None, <<Paren(Call(Id("two"), <<>>))>>)}

\* Ways to bind v for statements of their own.
Binders(v, body) ==
    {<<b>> \o body : b \in Bindings(v)} \cup
    {<<RangeOver(Id(v), Id("e"), Id("ms"), body)>>, <<RangeOver(Id("e"), Id(v), Id("ms"), body)>>,
     <<RangeOver(Id("_"), Id(v), Id("ls"), body)>>, <<RangeOver(Id(v), None, Id("ch"), body)>>,
     <<Fun(<<Param(v, B)>>, body)>>}

\* The variable of a type switch: in a clause with one type it has that type,
\* also if that has no name or is one of another package.
Switch(v, body) ==
    <<[kind |-> "switch", init |-> <<Sel(Id("a"), "f")>>, assign |-> Define(<<v>>, <<Asserted(Id("i"), None)>>),
       clauses |-> <<[types |-> <<Star(B)>>, body |-> body],
                     [types |-> <<A, C>>, body |-> <<Sel(Id(v), "im")>>],
                     [types |-> <<A>>, body |-> <<Sel(Id(v), "am")>>],
                     [types |-> <<Structure>>, body |-> <<Sel(Id(v), "k")>>],
                     [types |-> <<FuncType>>, body |-> <<Call(Id(v), <<>>)>>],
                     [types |-> <<External>>, body |-> <<Sel(Id(v), "h")>>]>>]>>

Uses(v) ==
    {Sel(Id(v), m) : m \in {"f", "g", "h", "B", "bm", "am", "k", "jm"}} \cup
    {Sel(Sel(Id(v), "g"), "f"), Sel(Index(Id(v)), "h"), Sel(Call(Sel(Id(v), "am"), <<>>), "f"),
     Sel(Star(Id(v)), "C"),
     Fun(<<Param(v, C)>>, <<Define(<<"w">>, <<Sel(Id(v), "A")>>), Sel(Id("w"), "f")>>)}

\* Uses of types, where no variable is needed.
Mentions ==
    {Sel(A, "bm"), Sel(Paren(Star(B)), "cm"), Lit(A, <<Elt(Id("f"), One)>>), Lit(B, <<Elt(None, One), Elt(None, One)>>),
     Lit(Array(Star(A)), <<Elt(None, Lit(None, <<Elt(Id("f"), One)>>)), Elt(One, Lit(None, <<>>))>>),
     Lit(Map(Id("K"), B), <<Elt(Lit(None, <<Elt(Id("k"), One)>>), Lit(None, <<Elt(Id("g"), One)>>))>>),
     Lit(Id("L"), <<Elt(None, Lit(None, <<Elt(Id("B"), One)>>))>>),
     Sel(Id("pkg"), "f"), Sel(Id("pkg"), "h")}

\* One variable used in every way, and a second one bound to what the first selects.
Bodies ==
    UNION {Binders("v", <<u>>) \cup {Switch("v", <<u>>)} : u \in Uses("v") \cup Mentions} \cup
    UNION {Binders("v", <<Define(<<"w">>, <<e>>), Block(<<Sel(Id("w"), "h")>>)>>) :
               e \in {Sel(Id("v"), "g"), Sel(Id("v"), "A"), Call(Sel(Id("v"), "am"), <<>>), Star(Id("v"))}} \cup
    {Switch("K", <<Sel(Id("K"), "bm")>>)}

PackageVariables == <<VarDecl(<<"pkg">>, None, <<Call(Id("mk"), <<>>)>>), VarDecl(<<"q">>, None, <<Sel(Id("pkg"), "g")>>)>>

SomeFiles == {FileWith(Append(PackageVariables, Decl(Parameters, b))) : b \in Bodies}

-----------------------------------------------------------------------------
(* Selections out of sight *)

\* The embedded field of an interface whose method is selected.
EmbeddedInterface ==
    [FileWith(<<Decl(<<Param("s", Id("S"))>>, <<Block(<<Call(Sel(Id("s"), "jm"), <<>>)>>)>>)>>) EXCEPT
        !.classes = @ @@ [S |-> Class(<<Embedded("J", Id("J"))>>, <<>>)],
        !.typeDefs = @ @@ [S |-> Structure]]

\* A variable that a clause derives from the variable of its type switch.
DerivedInClause ==
    FileWith(<<Decl(Parameters, Switch("v", <<Define(<<"w">>, <<Sel(Id("v"), "g")>>), Sel(Id("w"), "h")>>))>>)

\* A name declared twice in one function.
DeclaredTwice ==
    FileWith(<<Decl(<<>>, <<Define(<<"v">>, <<Lit(A, <<>>)>>), Block(<<Define(<<"v">>, <<Lit(Id("K"), <<>>)>>)>>),
                            Sel(Id("v"), "f")>>)>>)

\* An element of a container type that has a name.
NamedContainer == FileWith(<<Decl(<<Param("l", Id("L"))>>, <<Sel(Index(Id("l")), "f")>>)>>)

\* A variable of another file of the package.
OtherFile == [FileWith(<<Decl(<<>>, <<Sel(Id("far"), "f")>>)>>) EXCEPT !.outside = [far |-> A]]

\* A parameter of a function literal that a package variable holds.
TopLevelLiteral == FileWith(<<VarDecl(<<"lit">>, None, <<Fun(<<Param("p", A)>>, <<Sel(Id("p"), "f")>>)>>)>>)

HiddenFiles ==
    {EmbeddedInterface, DerivedInClause, DeclaredTwice, NamedContainer, OtherFile, TopLevelLiteral}
=============================================================================
