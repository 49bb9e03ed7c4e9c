---------------------------- MODULE PackageFacts ----------------------------
(***************************************************************************)
(* What the runner knows of the files of one package together: their       *)
(* classes with the methods declared in any of them, their functions, the  *)
(* package variables that some file changes, the types that are maps.      *)
(*                                                                         *)
(* src maps paths to parsed files.  A class or function is a path and the  *)
(* place of its declaration among those of its kind.                       *)
(***************************************************************************)
EXTENDS Naturals, Sequences, SequencesExt, FiniteSets, Reachability, Ordering

Places(src, group, kind) ==
    FlattenSeq([i \in DOMAIN group |->
        [n \in DOMAIN src[group[i]][kind] |-> <<group[i], n>>]])

Declaration(src, kind, id) == src[id[1]][kind][id[2]]

\* A name declared in several files is what the last of them says.
LastDeclared(src, group, kind) ==
    LET holders(x) == {i \in DOMAIN group : x \in DOMAIN src[group[i]][kind]}
    IN  [x \in UNION {DOMAIN src[group[i]][kind] : i \in DOMAIN group} |->
            src[group[Max(holders(x))]][kind][x]]

\* A chain of aliases, followed until it ends or comes back.
ResolveAlias(aliases, name) ==
    LET names == DOMAIN aliases \cup Range(aliases) \cup {name}
        follow[at \in names \X SUBSET names] ==
            IF at[1] \notin DOMAIN aliases \/ at[1] \in at[2] THEN at[1]
            ELSE follow[<<aliases[at[1]], at[2] \cup {at[1]}>>]
    IN  follow[<<name, {}>>]

\* The class that methods with a receiver of this name belong to, if any.
ClassesNamed(src, group, name) ==
    {i \in DOMAIN Places(src, group, "classes") :
        Declaration(src, "classes", Places(src, group, "classes")[i]).name = name}

ClassOf(src, group, fn) ==
    LET receiver == ResolveAlias(LastDeclared(src, group, "aliases"), Declaration(src, "funcs", fn).receiver)
        named == ClassesNamed(src, group, receiver)
    IN  IF Declaration(src, "funcs", fn).receiver = "" \/ named = {} THEN {}
        ELSE {Places(src, group, "classes")[Max(named)]}

\* Mutation: a method may be attached twice.
NoMethod(methods, c, fn) == FALSE

HasMethod(methods, c, fn) == Contains(methods[c], fn)

\* Every method that has a class joins its list unless it is there; no function
\* is met twice, so the lists are asked as they were.
AttachMethods(src, group, methods) ==
    LET fns == Places(src, group, "funcs")
        joins(c) == {i \in DOMAIN fns : c \in ClassOf(src, group, fns[i]) /\ ~ HasMethod(methods, c, fns[i])}
    IN  [c \in DOMAIN methods |->
            methods[c] \o [n \in DOMAIN Ascending(joins(c)) |-> fns[Ascending(joins(c))[n]]]]

\* The methods a file's classes have once it is parsed alone.
BuiltMethods(src, p) ==
    LET own == Places(src, <<p>>, "classes")
    IN  AttachMethods(src, <<p>>, [c \in Range(own) |-> <<>>])

\* A name denotes a map if its chain of type names ends in a map type.
MapTypes(types) ==
    LET chain == {<<n, types[n]>> : n \in DOMAIN types}
    IN  {n \in DOMAIN types : "map" \in Reach(chain, n)}

MutatedGlobals(src, group) ==
    LET files == Range(group)
        names == UNION {{src[f].globals[n].name : n \in DOMAIN src[f].globals} : f \in files}
    IN  names \cap UNION {src[f].mutates : f \in files}

\* What annotatePackageGroup records on every file of a group.
GroupFacts(src, group) ==
    [classes |-> Places(src, group, "classes"),
     functions |-> SelectSeq(Places(src, group, "funcs"),
                             LAMBDA fn : Declaration(src, "funcs", fn).receiver = ""),
     mutated |-> MutatedGlobals(src, group),
     mapTypes |-> MapTypes(LastDeclared(src, group, "types"))]
=============================================================================
