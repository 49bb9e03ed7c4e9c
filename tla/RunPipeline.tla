----------------------------- MODULE RunPipeline -----------------------------
(***************************************************************************)
(* One run of messgo from its arguments to its exit code: rulesets are     *)
(* loaded, files are found and parsed, every package is annotated with     *)
(* what its files say together, every file is analysed, and the sorted     *)
(* report is written piece by piece to a writer that may fail.             *)
(***************************************************************************)
EXTENDS CommandLine, Discovery, ReportRendering, PackageFacts

CONSTANTS
    FileSystems,      \* the trees a run may meet
    Vanishing,        \* paths that may be gone when they are read
    Load(_,_,_,_),    \* the outcomes of loading rulesets under a filter
    Checks(_,_,_,_),  \* what a rule reports of an artifact, with what is known
    PathOf(_),        \* the path an item of the path argument names
    PartOf(_),        \* the names a filter item names
    WriterFaults      \* the outcomes of one write

ASSUME TreesAssumption ==
    \A tree \in FileSystems :
        /\ IsFiniteSet(DOMAIN tree.node) /\ DOMAIN tree.node \subseteq Seq(Names)
        /\ \A p \in DOMAIN tree.node : tree.node[p].type = "file" =>
              /\ IsFiniteSet(DOMAIN tree.node[p].aliases)
              /\ \A kind \in {"globals", "classes", "interfaces", "funcs"} :
                    IsSequence(tree.node[p][kind])

ASSUME PathsAssumption ==
    \A v \in ArgVectors : \A i \in DOMAIN v :
        \A n \in DOMAIN Items(v[i]) : PathOf(Items(v[i])[n]) \in Seq(Names)

ASSUME WriterAssumption == WriterFaults \subseteq BOOLEAN

VARIABLES
    fs,          \* the tree
    sets,        \* the rulesets
    found,       \* files found
    unread,      \* files found and not parsed yet
    parsed,      \* files that were parsed
    errors,      \* files the report says could not be parsed
    failed,      \* history: files that could not be parsed
    methods,     \* the methods of each class
    unmarked,    \* packages not annotated yet
    facts,       \* the facts recorded on each file
    checked,     \* how many parsed files were analysed
    violations,  \* of the report
    pieces,      \* what is left to write
    output,      \* what the report file or the terminal holds
    writeError   \* a write failed

runVars == <<fs, sets, found, unread, parsed, errors, failed, methods, unmarked, facts,
             checked, violations, pieces, output, writeError>>
vars == <<commandVars, runVars>>

\* What the report file holds before the run.
Old == <<Piece("old", "")>>

Source(p) == At(fs, p)
Parsed == [p \in Range(parsed) |-> Source(p)]
KeyOf(p) == PackageKey(fs, p, Source(p).pkg)
Group(k) ==
    LET members == Ascending({i \in DOMAIN parsed : KeyOf(parsed[i]) = k})
    IN  [n \in DOMAIN members |-> parsed[members[n]]]
Keys == {KeyOf(p) : p \in Range(parsed)}

Bounds == <<Value("--minimumpriority"), Value("--maximumpriority")>>

Filter ==
    [suffixes |-> IF ItemsOf("--suffixes") = <<>> THEN {"go"} ELSE Range(ItemsOf("--suffixes")),
     ignoreTests |-> Given("--ignore-tests"),
     exclude |-> {PartOf(x) : x \in Range(ItemsOf("--exclude"))},
     patterns |-> UNION {sets[i].exclude : i \in DOMAIN sets}]

-----------------------------------------------------------------------------
(* Rules *)

\* What a rule may ask about the file p.
Known(p) == [src |-> Parsed, facts |-> facts[p], methods |-> methods]

\* A pass of one rule over one file, artifact by artifact.
Apply(rule, p) ==
    LET all(kind) ==
            LET ids == IF kind \in rule.aware THEN Places(Parsed, <<p>>, kind) ELSE <<>>
            IN  FlattenSeq([i \in DOMAIN ids |-> Checks(rule, kind, ids[i], Known(p))])
        whole == IF "file" \in rule.aware THEN Checks(rule, "file", p, Known(p)) ELSE <<>>
    IN  whole \o all("classes") \o all("interfaces") \o all("funcs")

Analyze(p) ==
    FlattenSeq([i \in DOMAIN sets |->
        FlattenSeq([j \in DOMAIN sets[i].rules |-> Apply(sets[i].rules[j], p)])])

Before(v, w) == PathLess(v.file, w.file) \/ (v.file = w.file /\ v.line < w.line)

\* A stable sort by file and line.
SortViolations(vs) ==
    LET earlier(i, j) == Before(vs[i], vs[j]) \/ (~ Before(vs[j], vs[i]) /\ i < j)
        order == Ranked(DOMAIN vs, {e \in (DOMAIN vs) \X (DOMAIN vs) : earlier(e[1], e[2])})
    IN  [n \in DOMAIN vs |-> vs[order[n]]]

\* Mutation: violations that may be ignored hide errors.
LenientExitCode ==
    IF Given("--ignore-violations-on-exit") THEN 0
    ELSE IF errors # <<>> /\ ~ Given("--ignore-errors-on-exit") THEN 3
    ELSE IF violations # <<>> THEN 2 ELSE 0

ExitCodeFor ==
    IF errors # <<>> /\ ~ Given("--ignore-errors-on-exit") THEN 3
    ELSE IF violations # <<>> /\ ~ Given("--ignore-violations-on-exit") THEN 2
    ELSE 0

-----------------------------------------------------------------------------
Init ==
    /\ CommandInit
    /\ fs \in FileSystems
    /\ sets = <<>> /\ found = <<>> /\ unread = <<>> /\ parsed = <<>>
    /\ errors = <<>> /\ failed = {} /\ methods = <<>> /\ unmarked = {} /\ facts = <<>>
    /\ checked = 0 /\ violations = <<>> /\ pieces = <<>> /\ output = Old /\ writeError = FALSE

ReadCommand == ReadArguments /\ UNCHANGED runVars

\* Both failures come before anything of the report file is touched.
SelectRenderer ==
    /\ phase = "renderer"
    /\ IF Format \in Formats THEN phase' = "rulesets" /\ UNCHANGED exit ELSE Return(1)
    /\ UNCHANGED <<args, at, optionVars, runVars>>

LoadRuleSets ==
    /\ phase = "rulesets"
    /\ \E result \in Load(Rulesets, ItemsOf("--enable"), ItemsOf("--disable"), Bounds) :
        /\ sets' = result.sets
        /\ IF result.error THEN Return(1) ELSE phase' = "discover" /\ UNCHANGED exit
    /\ at' = 1
    /\ UNCHANGED <<args, optionVars, fs, found, unread, parsed, errors, failed, methods,
                   unmarked, facts, checked, violations, pieces, output, writeError>>

\* One path argument; one that names nothing ends the run.
Discover ==
    /\ phase = "discover" /\ at \in DOMAIN Paths
    /\ LET p == PathOf(Paths[at]) IN
        IF ~ Exists(fs, DiscoveryRoot(p)) THEN Return(1) /\ UNCHANGED <<at, found>>
        ELSE /\ found' = AddSources(fs, found, Sources(fs, p, Filter))
             /\ at' = at + 1
             /\ UNCHANGED <<phase, exit>>
    /\ UNCHANGED <<args, optionVars, fs, sets, unread, parsed, errors, failed, methods,
                   unmarked, facts, checked, violations, pieces, output, writeError>>

SortSources ==
    /\ phase = "discover" /\ at > Len(Paths)
    /\ found' = Sorted(Range(found)) /\ unread' = found'
    /\ phase' = "parse"
    /\ UNCHANGED <<args, at, optionVars, exit, fs, sets, parsed, errors, failed, methods,
                   unmarked, facts, checked, violations, pieces, output, writeError>>

\* A file that cannot be read or parsed is recorded and dropped.
ParseFile ==
    /\ phase = "parse" /\ unread # <<>>
    /\ LET p == Head(unread) IN
        \/ /\ Parses(fs, p)
           /\ parsed' = Append(parsed, p)
           /\ methods' = LET built == BuiltMethods([q \in {p} |-> Source(q)], p)
                         IN  [c \in DOMAIN methods \cup DOMAIN built |->
                                IF c \in DOMAIN methods THEN methods[c] ELSE built[c]]
           /\ UNCHANGED <<errors, failed>>
        \/ /\ p \in Vanishing \/ ~ Parses(fs, p)
           /\ errors' = Append(errors, p) /\ failed' = failed \cup {p}
           /\ UNCHANGED <<parsed, methods>>
    /\ unread' = Tail(unread)
    /\ UNCHANGED <<args, at, optionVars, phase, exit, fs, sets, found, unmarked, facts,
                   checked, violations, pieces, output, writeError>>

GroupPackages ==
    /\ phase = "parse" /\ unread = <<>>
    /\ unmarked' = Keys /\ phase' = "annotate"
    /\ UNCHANGED <<args, at, optionVars, exit, fs, sets, found, unread, parsed, errors, failed,
                   methods, facts, checked, violations, pieces, output, writeError>>

\* Packages are annotated in the order of a map.
AnnotatePackage ==
    /\ phase = "annotate"
    /\ \E k \in unmarked :
        /\ unmarked' = unmarked \ {k}
        /\ methods' = AttachMethods(Parsed, Group(k), methods)
        /\ facts' = [p \in DOMAIN facts \cup Range(Group(k)) |->
                        IF p \in Range(Group(k)) THEN GroupFacts(Parsed, Group(k)) ELSE facts[p]]
    /\ UNCHANGED <<args, at, optionVars, phase, exit, fs, sets, found, unread, parsed, errors,
                   failed, checked, violations, pieces, output, writeError>>

EndAnnotation ==
    /\ phase = "annotate" /\ unmarked = {}
    /\ phase' = "analyze"
    /\ UNCHANGED <<args, at, optionVars, exit, runVars>>

AnalyzeFile ==
    /\ phase = "analyze" /\ checked < Len(parsed)
    /\ checked' = checked + 1
    /\ violations' = violations \o Analyze(parsed[checked'])
    /\ UNCHANGED <<args, at, optionVars, phase, exit, fs, sets, found, unread, parsed, errors,
                   failed, methods, unmarked, facts, pieces, output, writeError>>

\* The sorted report; its file is created, which empties it.
OpenReport ==
    /\ phase = "analyze" /\ checked = Len(parsed)
    /\ violations' = SortViolations(violations)
    /\ \/ /\ phase' = "write"
          /\ pieces' = Rendered(Format, violations', errors)
          /\ output' = <<>>
          /\ UNCHANGED exit
       \/ /\ Value("--reportfile") # NoArg
          /\ FALSE \in WriterFaults
          /\ Return(1) /\ UNCHANGED <<pieces, output>>
    /\ UNCHANGED <<args, at, optionVars, fs, sets, found, unread, parsed, errors, failed,
                   methods, unmarked, facts, checked, writeError>>

\* Mutation: the last write decides.
ForgetfulWrite ==
    /\ phase = "write" /\ pieces # <<>>
    /\ \E written \in WriterFaults :
        /\ output' = IF written THEN Append(output, Head(pieces)) ELSE output
        /\ writeError' = ~ written
    /\ pieces' = Tail(pieces)
    /\ UNCHANGED <<args, at, optionVars, phase, exit, fs, sets, found, unread, parsed, errors,
                   failed, methods, unmarked, facts, checked, violations>>

\* checkedWriter: after a failed or short write nothing more is written.
WritePiece ==
    /\ phase = "write" /\ pieces # <<>>
    /\ \E written \in IF writeError THEN {FALSE} ELSE WriterFaults :
        /\ output' = IF written THEN Append(output, Head(pieces)) ELSE output
        /\ writeError' = (writeError \/ ~ written)
    /\ pieces' = Tail(pieces)
    /\ UNCHANGED <<args, at, optionVars, phase, exit, fs, sets, found, unread, parsed, errors,
                   failed, methods, unmarked, facts, checked, violations>>

\* The error of closing the file is not looked at.
EndReport ==
    /\ phase = "write" /\ pieces = <<>>
    /\ Return(IF writeError THEN 1 ELSE ExitCodeFor)
    /\ UNCHANGED <<args, at, optionVars, runVars>>

Next ==
    \/ ReadCommand \/ SelectRenderer \/ LoadRuleSets \/ Discover \/ SortSources \/ ParseFile
    \/ GroupPackages \/ AnnotatePackage \/ EndAnnotation \/ AnalyzeFile
    \/ OpenReport \/ WritePiece \/ EndReport

\* Main has returned and the process exits.
Exited == phase = "done" /\ UNCHANGED vars

Spec == Init /\ [][Next \/ Exited]_vars

-----------------------------------------------------------------------------
Stages == {"start", "options", "renderer", "rulesets", "discover", "parse", "annotate",
           "analyze", "write", "done"}

\* Arguments are read once, every parsed file is at most analysed, and the exit
\* code is one of the four.
TypeOK ==
    /\ phase \in Stages /\ exit \in {NoExit, 0, 1, 2, 3}
    /\ (phase = "done") = (exit # NoExit)
    /\ Range(parsed) \cup failed \subseteq Range(found) /\ checked \in 0 .. Len(parsed)
    /\ DOMAIN facts \subseteq Range(parsed) /\ writeError \in BOOLEAN

\* Directories, files, the same twice, links: a file that some argument selects
\* is looked at once, under one of its names, and in order (DiscoverSources).
FoundOnce ==
    phase \in {"parse", "annotate", "analyze", "write"} =>
        LET selected == UNION {Range(Sources(fs, PathOf(a), Filter)) : a \in Range(Paths)}
        IN  /\ {RealPath(fs, p) : p \in selected} = {RealPath(fs, p) : p \in Range(found)}
            /\ \A i, j \in DOMAIN found :
                i < j => PathLess(found[i], found[j]) /\ RealPath(fs, found[i]) # RealPath(fs, found[j])

\* Two files of one package: the same directory, whatever it is called, and name.
Together(p, q) == RealPath(fs, Front(p)) = RealPath(fs, Front(q)) /\ Source(p).pkg = Source(q).pkg

\* A file is analysed with the facts of every file of its package that parsed,
\* and no other: a variable counts as changed exactly if one of them changes it,
\* and all of them agree (annotatePackages).
FactsOfWholePackage ==
    phase = "analyze" =>
        \A p \in Range(parsed) :
            LET package == {q \in Range(parsed) : Together(p, q)}
                declared == {v.name : v \in UNION {Range(Source(q).globals) : q \in package}}
            IN  /\ facts[p].mutated = declared \cap UNION {Source(q).mutates : q \in package}
                /\ {c[1] : c \in Range(facts[p].classes)} = {q \in package : Source(q).classes # <<>>}
                /\ \A q \in package : facts[q] = facts[p]

\* A method declared in any file of the package is once in the list of its class,
\* although both the parser and the runner attach methods (attachPackageMethods).
MethodsOnce ==
    phase = "analyze" =>
        \A p \in Range(parsed) : \A n \in DOMAIN Source(p).funcs :
            LET owner == ClassOf(Parsed, Group(KeyOf(p)), <<p, n>>)
            IN  \A c \in DOMAIN methods :
                    Cardinality({i \in DOMAIN methods[c] : methods[c][i] = <<p, n>>})
                        = IF c \in owner THEN 1 ELSE 0

\* A run that ends with 0 and was not asked to forgive has read every file it
\* found, and no rule has anything to say about any of them (exitCodeFor).
NoSilentSuccess ==
    exit = 0 /\ ~ AsksInformation =>
        /\ ~ Given("--ignore-errors-on-exit") => failed = {} /\ Range(parsed) = Range(found)
        /\ ~ Given("--ignore-violations-on-exit") => \A p \in Range(parsed) : Analyze(p) = <<>>

\* The violation v stands in the report, in what is said of its file.
UnderItsFile(v) ==
    \E i, j \in DOMAIN output :
        /\ i < j /\ output[i].kind = "open" /\ output[i].of = v.file
        /\ \A k \in i + 1 .. j : output[k].kind = "violation"
        /\ output[j].of = v

\* A renderer that groups by file never shows a file in two places, which needs
\* the order that SortViolations makes, and a report that was written to its end
\* has every violation under its file, also the one that fileRuns reads ahead.
GroupedOnce ==
    /\ \A i, j \in DOMAIN output :
          i # j /\ output[i].kind = "open" /\ output[j].kind = "open" => output[i].of # output[j].of
    /\ phase = "done" /\ output # Old /\ ~ writeError /\ Format \in ByFileFormats =>
          \A n \in DOMAIN violations : UnderItsFile(violations[n])

Contract == INSTANCE RunContract WITH
    stage <- IF phase = "done" THEN "returned" ELSE IF phase = "write" THEN "writing" ELSE "working",
    report <- IF output = Old THEN "old"
              ELSE IF output = Rendered(Format, violations, errors) THEN "whole"
              ELSE "partial"

\* Seen by its caller a run is refused with the old report in place, or it ends
\* with a whole report and a verdict, or it ends with 1 (Main, writeReport).
ContractSpec == Contract!Spec
=============================================================================
