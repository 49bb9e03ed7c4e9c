----------------------------- MODULE MCPipeline -----------------------------
(***************************************************************************)
(* Small trees and argument lists for the checker.  In the first tree a    *)
(* package is spread over files, one of which changes a variable of the    *)
(* other and declares methods of its class; there are a broken file, a     *)
(* test file, files of other systems, and directories that are skipped.    *)
(* In the second a directory and a file are reached through links.         *)
(***************************************************************************)
EXTENDS RunPipeline

None == [x \in {} |-> x]
Dir == [type |-> "dir"]
Link(to) == [type |-> "link", to |-> to]
Var(name, line) == [name |-> name, line |-> line]
Type(name) == [name |-> name, line |-> 2]
Func(name, receiver, line) == [name |-> name, receiver |-> receiver, line |-> line]

File(pkg, globals, mutates, classes, funcs, aliases) ==
    [type |-> "file", parses |-> TRUE, builds |-> TRUE, pkg |-> pkg, globals |-> globals,
     mutates |-> mutates, classes |-> classes, interfaces |-> <<>>, funcs |-> funcs,
     aliases |-> aliases, types |-> None]

Declares == File("p", <<Var("count", 4), Var("limit", 1)>>, {}, <<Type("T")>>,
                 <<Func("one", "T", 3)>>, [x \in {"A"} |-> "T"])
Changes == [File("p", <<>>, {"count"}, <<>>, <<Func("two", "A", 1), Func("free", "", 5)>>, None)
              EXCEPT !.types = [x \in {"M", "N"} |-> IF x = "M" THEN "map" ELSE "M"]]
Changed == File("q", <<Var("count", 1)>>, {"count", "limit"}, <<>>, <<>>, None)
Broken == [Declares EXCEPT !.parses = FALSE]
NotBuilt == [Declares EXCEPT !.builds = FALSE]
Clean == File("p", <<Var("limit", 1)>>, {}, <<>>, <<>>, None)

Prefixed(P) == UNION {{SubSeq(p, 1, n) : n \in 0 .. Len(p)} : p \in P}
Mentioned ==
    Prefixed({<<d, f>> : d \in {"a", "b", "c"}, f \in {"one.go", "two.go", "x_test.go", ".h.go",
                "notes.txt", "w_windows.go", "gone"}} \cup {<<"a", "vendor", "two.go">>, <<"lost">>})

Tree(f) ==
    LET node == [p \in DOMAIN f \cup Prefixed({Front(p) : p \in DOMAIN f}) |->
                    IF p \in DOMAIN f THEN f[p] ELSE Dir]
    IN  [node |-> node, real |-> RealPaths(node, Mentioned)]

Plain ==
    Tree((<<"a", "one.go">> :> Declares) @@ (<<"a", "two.go">> :> Changes)
      @@ (<<"a", "x_test.go">> :> Changed) @@ (<<"a", "notes.txt">> :> Broken)
      @@ (<<"a", "vendor", "two.go">> :> Changes) @@ (<<"a", ".h.go">> :> Declares)
      @@ (<<"b", "one.go">> :> Clean) @@ (<<"b", "two.go">> :> Broken)
      @@ (<<"b", "w_windows.go">> :> Declares) @@ (<<"b", "x_test.go">> :> NotBuilt))

Linked ==
    Tree((<<"a", "one.go">> :> Declares) @@ (<<"b">> :> Link(<<"a">>))
      @@ (<<"c", "one.go">> :> Link(<<"c", "two.go">>)) @@ (<<"c", "two.go">> :> Changed)
      @@ (<<"a", "two.go">> :> Changes) @@ (<<"a", "x_test.go">> :> Link(<<"c", "gone">>)))

MCFileSystems == {Plain, Linked}
MCVanishing == {<<"b", "one.go">>}
MCNameOrder == <<".h.go", "a", "b", "c", "gone", "lost", "notes.txt", "one.go", "two.go", "vendor",
                 "w_windows.go", "x_test.go", "...">>
MCHidden == {".h.go"}
MCExtension == [n \in Range(MCNameOrder) |->
    IF n = "notes.txt" THEN "txt"
    ELSE IF n \in {"a", "b", "c", "gone", "lost", "vendor", "..."} THEN "" ELSE "go"]
MCTests == {"x_test.go"}
MCForeign == {"w_windows.go"}

\* The lists that arguments name, and the paths that items name.
Named ==
    ("ba" :> <<"b", "a", "b/two.go">>) @@ ("links" :> <<"c/two.go", "c", "a">>)
    @@ ("lost" :> <<"b/one.go", "lost">>) @@ ("mixed" :> <<"b/one.go", "a">>)
    @@ ("one" :> <<"b/one.go">>) @@ (" , " :> <<>>)

MCItems(a) == IF a \in DOMAIN Named THEN Named[a] ELSE <<a>>
MCPathOf(x) ==
    CASE x \in {"a", "b", "c"} -> <<x>> [] x = "b/..." -> <<"b", "...">>
      [] x = "b/one.go" -> <<"b", "one.go">> [] x = "b/two.go" -> <<"b", "two.go">>
      [] x = "c/two.go" -> <<"c", "two.go">> [] OTHER -> <<"lost">>
MCPartOf(x) == <<x>>
MCNumbers == [a \in {"2", "0"} |-> IF a = "2" THEN 2 ELSE 0]

Rule(name, aware) == [name |-> name, aware |-> aware]
MCLoad(spec, enable, disable, bounds) ==
    {[error |-> FALSE,
      sets |-> <<[exclude |-> IF spec = "narrow" THEN {<<"two.go">>} ELSE {},
                  rules |-> SelectSeq(<<Rule("TooManyMethods", {"classes"}),
                                        Rule("GlobalVariable", {"file"}),
                                        Rule("UnusedParameter", {"funcs"})>>,
                                      LAMBDA r : r.name \notin Range(disable))]>>],
     [error |-> TRUE, sets |-> <<>>]}

\* TooManyMethods reports the methods after the first where they are declared,
\* GlobalVariable the variables that are changed, UnusedParameter two functions.
MCChecks(rule, kind, id, known) ==
    LET said(p, line) == [rule |-> rule.name, file |-> p, line |-> line]
    IN  CASE rule.name = "TooManyMethods" ->
                [i \in 1 .. Len(known.methods[id]) - 1 |->
                    LET m == known.methods[id][i + 1]
                    IN  said(m[1], Declaration(known.src, "funcs", m).line)]
          [] rule.name = "GlobalVariable" ->
                LET held == SelectSeq(known.src[id].globals, LAMBDA v : v.name \in known.facts.mutated)
                IN  [i \in DOMAIN held |-> said(id, held[i].line)]
          [] OTHER -> IF Declaration(known.src, "funcs", id).name \in {"two", "free"}
                        THEN <<said(id[1], 1)>> ELSE <<>>

Positionals == {<<p, f, "all">> : p \in {"a", "ba", "links", "lost", "mixed"}, f \in {"text", "xml", "json"}}
    \cup {<<"one", "sarif", "narrow">>, <<"b/...", "github", "narrow">>, <<"a", "html", "narrow">>,
          <<"one", "gitlab", "all">>, <<"ba", "checkstyle", "all">>, <<"one", "pdf", "all">>, <<"one", "text">>, <<" , ", "text", "all">>,
          <<"a", "text", "all", "more">>}
Extra == {<<"--ignore-errors-on-exit">>, <<"--ignore-violations-on-exit">>,
          <<"--ignore-errors-on-exit", "--ignore-violations-on-exit">>,
          <<"--ignore-tests", "--reportfile", "out">>, <<"--color", "-v">>,
          <<"--suffixes", "txt">>, <<"--exclude", "b">>, <<"--disable", "TooManyMethods">>}
Broke == {<<"--reportfile">>, <<"--reportfile", "--color">>, <<"--minimumpriority", "high">>,
          <<"--unknown">>, <<"--exclude", "--help">>, <<"--minimumpriority", "2">>, <<"-h">>}

MCArgVectors ==
    {<<>>, <<"help">>} \cup Positionals
    \cup {e \o p : e \in Extra, p \in Positionals}
    \cup {p \o e : e \in Broke, p \in {<<"a", "text", "all">>}}
MCUnknown == {"--unknown"}
MCWriterFaults == BOOLEAN
=============================================================================
