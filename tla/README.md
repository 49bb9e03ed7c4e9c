# messgo in TLA+

messgo is a mess detector for Go: it parses source files, builds a syntactic
model of each package, runs the rules of one or more rulesets over it and
prints the violations. This directory holds TLA+ modules for the parts whose
behaviour is hard to see in one reading or one test, the TLC runs that check
them on small instances, and proofs, checked by TLAPS, for every instance.

## The system

One run is one goroutine: `cli.Main` parses the arguments, loads the rulesets,
hands them to `runner.Run`, renders the report and picks an exit code.

| part | state it keeps | operations | what is hard | what makes it correct | modelled |
|---|---|---|---|---|---|
| command line (`internal/cli`) | options | parse, run, write report, exit code | which failure wins, a report left half written | no success is reported for a run that failed | yes |
| ruleset loader (`internal/ruleset`) | sources read, stack of references, finished expansions, candidates, names loaded | resolve and follow references, filter, build and merge candidates | cycles against remembered expansions, filters that reject what was never built, order of declarations | skipping loses no rule, cycles and unknown rules are reported exactly, kind decides and not order | yes |
| discovery (`internal/runner/discovery.go`) | files found, identities seen | walk, filter, deduplicate | overlapping arguments, symlinks | each selected file once | yes |
| runner (`internal/runner`) | parsed files, packages, report | parse, annotate packages, analyze | a file that does not parse is missing from its package | every file is judged with the facts of its whole package | yes |
| rule engine (`internal/rule`) | rules with their settings, violations | configure, dispatch to artifacts, compare with a threshold, sort | boundaries, malformed properties | a rule reports exactly what breaches its limit | yes |
| source model (`internal/model`) | classes, functions, members of a file | build, query, select members | promotion through embedded fields, scopes | selection finds what the compiler finds | partly |
| storage analysis (`internal/rules/explicitness`, `storage_*`, `ownership*`) | summaries, call links, worklist | walk a function, summarise a call, re-evaluate | recursion, aliases, re-evaluation while others run | no change is lost, the result covers every execution, it ends | partly |
| effect analysis (same package, `summaries.go`) | callables, edges, effects of each | collect, translate effects to callers, sweep | recursion, callbacks, factories, what counts as a change | nothing a chain of calls does is lost or made up, it ends | partly |
| metrics (`internal/metrics`) | none | count | overflow of NPath products, levels entered and left | agreement with a definition that knows no visitor | yes |
| type sharing (`internal/util`) | named types seen | classify | recursive types | it ends | no |
| rules (`internal/rules/*`) | none, or a cache | check one declaration | thresholds, cohesion | report at the boundary | partly |
| reports (`internal/report`) | runs of one file, first error | render | failing writers, grouping | one whole report or exit code 1 | yes |
| release and hooks (`.github`, `githooks`) | artifacts, a release | validate, build, test, publish | retries, concurrent runs | nothing untested is published | no |

Comments in sources do not suppress violations, and `--strict` is parsed and
has no effect: there is no suppression to model.

The parts meet in a line: the loader's rules, with their configured properties,
are what the runner applies to each file; the explicitness rules among them ask
the storage analysis for summaries, one cache per rule, one file at a time.

## What is modelled now

The way of one run from its arguments to its exit code, the ruleset loader, the
two analyses behind the explicitness rules, the selection of members, and the
metrics with the rules that compare them with thresholds.

### Storage summaries

A rule that reports hidden writes walks every function of a file and tracks
which allocations a variable may refer to (`ownership_flow.go`). At a call of a
known function it asks `storageSummaryCache.summarize` for the summary of the
callee's body with the facts it is entered with. Summaries are created before
their body is walked; a call that meets a summary under computation (a back
edge) is handed a provisional one; a summary that changes puts its callers on a
worklist which the outermost request drains.

* `SummarySolver` - the cache, the stack of evaluations, the links between
  callers and callees, the worklist, and the change of file. `RequestSummary`
  is `summarize` called by the rule's own walk, `Call` is
  `executeKnownStorageCall` up to the result of `summarize` inside another
  evaluation, `Finish` the second half of `evaluate`, `Solve` one turn of
  `solve`, `Answer` the return of the outermost `summarize`, `OpenFile` the reset in
  `forFile`. What a walk computes is a parameter: a flow that starts, advances,
  calls and is done. The recursion of Go calls is the variable `stack`, a range
  over a Go map is any order (`Orders`). `reads` and `settled` are history.
* `StorageWalk` - what the walk does to facts, for a language of bodies that
  bind captured variables, write through them, return them and call one or
  several targets, under a condition or not: dependencies, the projection and
  the canonical or recursive renaming of an entry and its inverse, joins, the
  provisional summary.
* `StorageSummaries` - both put together, with an interpreter of the same
  bodies (`executions`) as the reference for `CoversExecutions`.
* `SummaryMemo` - the promise to the rule: a table of answers that only grows
  while a file is open. `MemoSpec` states that the solver implements it.
* `SummaryReplay` - two runs of messgo over the same files: the second makes each
  request after the first has answered it, and may queue callers in another order.
* `Reachability` - reachability as a recursive function, usable in proofs, along
  a function that gives the nodes after each node (`Closure`) or a relation (`Reach`).
* `MCStorage`, `MCReplay` - the programs.

### Ruleset loader

* `RulesetLoader` - one `Loader.Load`. `Open` and `Close` bracket `parse` of one
  location of the specification; the recursion of `expandRef` and
  `importSourceRules` is the stack `frames`, whose top looks at one element per
  step (`SkipElement`, `RejectDefinition`, `BuildDefinition`, `Reference`);
  `Return` leaves a reference and remembers the expansion under its key
  (`expansionKey`). `Merge` is `selectCandidate` for the next candidate and
  `Finish` the end of `dedupeRules`. An error is a status from which no step
  leads on.
* `RulesetReference` - what references mean without stack and memory: the
  expansions behind one (`Unfolding`) and the pairs of a location and a wanted rule
  around which a cycle leads (`Follow`), both as reachability.
* `MCRuleset` - the rulesets.

Elements carry a rule's class, priority and properties; messages, URLs and
other text are copied along by the code and left out. A property without a
value is left out: the code counts it as an override and drops it from the
properties. Decoding XML, canonical paths and symlinks are abstracted to
locations; files do not change during a load, since `session.sources` keeps
what was read.

### Run pipeline

* `Ordering` - sorting said by what it yields, for paths, packages and violations.
* `CommandLine` - `parseArgs`: one argument per step, flags with and without
  values, the three positionals and the path of each failure. Texts are model
  strings; `ItemsOf` is what `splitList` makes of them.
* `Discovery` - `DiscoverSources` over a tree with links: which files one path
  argument selects (`Sources`), the identity of a file (`Identity`), order.
* `PackageFacts` - what `annotatePackages` and the parser record: methods on their
  classes, mutated globals, map types behind aliases of the whole package.
* `ReportRendering` - for each of the nine formats the pieces that are written,
  in order: violation by violation, file by file with an opening and a closing
  (XML, Checkstyle, HTML), or one encoded document (JSON, GitLab, SARIF).
  `FileRuns` is the iterator of `view.go`, turn by turn: a run ends where a
  violation of another file was read, which is then pending for the next run.
* `RunPipeline` - all of it, with the runner: `Discover`, `ParseFile`,
  `GroupPackages`, `AnnotatePackage` (in any order, a range over a map),
  `AnalyzeFile`, `OpenReport`, `WritePiece`, `EndReport`. A write may fail; after
  that none is made (`checkedWriter`).
* `RunContract` - what a calling script sees: a refusal with the old report in
  place, or a whole report with a verdict, or exit code 1. `ContractSpec` states
  that the pipeline implements it.
* `MCPipeline` - trees and argument lists.

The loader is a parameter here (`Load`), an error or rulesets, and so is what a
rule reports (`Checks`): `RulesetLoader` and `RuleEngine` are their modules.

### Effect analysis

* `EffectGraph` - `analyze` of `summaries.go`: callables are added and searched for
  calls (`Collect`), each call becomes edges to the callables it may reach
  (`ResolveCallee`, `FactoryCall`, `FromCallbacks`), and sweeps translate the facts
  of callees to their callers, one edge per step (`Propagate`, `EndSweep`), until
  nothing changes. What storage an expression shares is a parameter (`StorageOf`,
  in the code the ownership analysis), and so are the effects that a callable's
  own statements have (in the code `visitors.go`). Spread calls are left out. The
  facts of one edge are translated from those before the step, and added one by one
  in the order of the code (`AddInTurn`), because of two that compare as the same the
  first stays. A literal belongs to one declared function. The
  arguments an unknown call has are rewritten on their way to a caller as the code
  does (`Substituted`): names of constants and functions stay, a method value gets a
  new receiver, and literals, calls and composites are given up, which makes the
  call an unknown one without a name. What an expression denotes is found through variables
  bound once (`Reachability`) and the results of functions, which nest no deeper than
  there are functions, since one that is being resolved is not entered again.
* `EffectReference` - executions of the same programs with values, objects and
  closures, down to a depth.
* `MCEffects` - programs.

### Member selection

* `MemberSelection` - `member_selection.go`: a stack of walks, each of which binds
  the variables of a function (`BindAll`) and then records selections
  (`Record`), through promotion, containers, calls and composite literals. A clause
  of a type switch is walked with its types (`Clause`). A type that has no name, as of
  `case struct{}:`, binds its variable all the same, to nothing: that hides a type or
  an import of the variable's name, as it should.
* `MemberReference` - selections by the rules of Go: block scopes, shallowest
  promotion, underlying types.
* `MCMembers` - files. Statements that play no part in typing are blocks.

### Metrics and threshold rules

* `Saturating` - `npathAdd` and `npathMul` for any `MaxInt`.
* `Metrics` - cyclomatic and cognitive complexity, NPath, nesting, lines, over a
  uniform syntax tree (kind, operator, and lists of children by role). The
  visitors' mutable state is threaded through folds. An identifier is the
  object of its declaration, another one that shadows it, or unresolved.
* `CohesionGraph` - the graph of `lcom4`: union-find with path halving, the methods
  that count, and the first user of each member.
* `Cohesion` - LCOM4: what the methods of a class add to its graph, accessors, promoted
  members breadth first.
* `RuleEngine` - one load and one file: `Configure` (properties, defaults,
  malformed texts), `Loaded`, `Apply` (one rule over all artifacts), `Analyzed`.
* `RuleReference` - definitions of the measures without visitors, counters or
  union-find: executions as sets of paths, stacks of control structures,
  reachability over common members.
* `MCRules` - functions, classes and settings.

A custom ignore pattern is the default, or empty, or one that does not compile.
Messages and priorities are left out.

## Runs

| run | shows |
|---|---|
| `storage` | the solver's safety and liveness, the fixed point, coverage of executions, the refinement of `SummaryMemo`; two runs end with the same summaries, whatever the map order |
| `ruleset` | every loader property below, over 66,615 states |
| `pipeline` | a file that several arguments reach is found once, packages are annotated whole, methods attached once, reports grouped, no failure ends in 0, the refinement of `RunContract`; no stage blocks |
| `effects` | effects are sound and precise against executions, facts only grow, the sweeps end, and at a fixed point |
| `members` | selections are found exactly, and every use recorded is one of a type that has a name |
| `rules` | metrics, promotion and cohesion agree with their definitions, reports with the limits |
| `lost_callback` | violation: of two unresolved calls that differ in their arguments one is lost on the way to a caller |
| `self_fixed_point` | violation: a self-recursive function stops short of a fixed point |
| `swap_answered` | violation: a pair of functions for which the worklist never drains |
| `override_wins` | violation: an explicit override lost to a remembered expansion |
| `definitions_rejected` | violation: two distinct definitions dropped without an error |
| `missed_selections` | violation: selections of legal files that are not found |

Bounds. `storage` has a diamond of helpers (sharing, several targets, results,
writes), a mutually recursive pair and a ring of three with a choice of
callbacks: the shapes in which a callee can change under a caller that is
done, under computation, or queued. Entries are tried with distinct, twin (two
allocations of a site, which a recursive entry merges) and aliased facts for
two captured variables. Executions nest at most `Depth` = 4 calls, enough to go
round the ring and through a target once more. Keys are finite because facts
are sets over the allocations of an entry.
`ruleset` takes every sequence of at most `Length` = 3 elements of a pool of ten
(four of them only in pairs): the shortest sequences in which an expansion is
remembered and then met again with another filter, another override or inside a
cycle; three filters; and specifications of two locations. The two built-in
rulesets have the form of `naming.xml` and `go.xml`: definitions, and
references to them that override one.


`pipeline` has two trees. In the first a package is spread over files that change
each other's variables and declare each other's methods, beside a file that does
not parse, one that may vanish before it is read, tests, files of other systems,
hidden and vendored ones. In the second a directory and a file are also reached
through links, one of which is broken. Arguments name files, directories and
`...` patterns, overlapping ones, in every format, with every option once and
with every kind of mistake; any write of the report may fail.
`effects` has every program of a root, a helper and a function that calls its
argument, with two calls of the root (through values, aliases and literals),
with recursion and without, and single programs for the other kinds of edges.
Among these are a function that calls its argument twice, once for each of two others,
and callbacks that get constants, functions, parts and method values.
`Depth` = 6 calls go round every recursion of these programs and through a
callback once more. `members` binds one variable in every way a function can,
uses it in every way, and binds a second one to what the first selects.
`rules` nests every statement around eight conditions and seven bodies; four
methods of a class use members in every combination that merges, splits or
hides components. `MaxInt` = 15 so that among the path counts of these functions
some fit and some do not; the proofs below show that the arithmetic is right for
every limit.

Fairness. All systems are one goroutine that nothing blocks, so a call that
was begun goes on: weak fairness of `Progress` (the solver between a request and
its answer, in the first of two runs; a rule need not make requests), of `Next` (one load) and of `Advance`
(one effect analysis; it says which loop counters a step moves and nothing of
what it computes). The pipeline states no liveness: its deadlock check shows that no
stage gets stuck, and each consumes a finite list. Runs of a call that returns
(`ruleset`, `effects`, `members`, `rules` and their violation runs) switch the
deadlock check off.

Properties that hold: no key is walked inside its own walk (`NeverReentered`),
the queued flags are exact (`QueueExact`), no change is lost to a finished
reader (`FreshReads`), provisional summaries are consumed only on cycles
(`ProvisionalOnCycle`), a fixed point is reached among several bodies
(`FixedPoint`) and accounts for every execution (`CoversExecutions`), requests
are answered (`Answered`) from a table that only grows (`MemoSpec`), map order is
invisible (`SameSummaries`). In the loader: no ruleset is expanded inside itself
and nothing under expansion counts as finished (`ExpandedOnce`), skipped
expansions lose no rule (`MemoTransparent`), cycles, unknown rules and unmatched
names are reported exactly (`CyclesReported`, `UnknownReported`,
`UnmatchedExact`), an override that was collected wins at the first slot of its
name (`Winners`), and loads return (`Returns`). In the pipeline: `FoundOnce`,
`FactsOfWholePackage`, `MethodsOnce`, `GroupedOnce` (no file is opened twice, and in a
report that was written to its end every violation stands under its file),
`NoSilentSuccess` and `ContractSpec`. Of effects: `Sound` (what an execution writes is reported, or an
unknown effect is), `Precise` (what is reported some execution writes),
`OnlyGrows`, `Settled` (when the sweeps end, no call of the graph has anything
left to carry to its caller) and `Terminates`. Of selections: `UsesExact`. Of rules:
`NPathExact`, `NestingExact` and `CognitiveExact` (which also say what writing a chain
of ifs with `else if` instead of nesting them saves: levels and cognitive
complexity, not paths), `PromotedExact`, `ComponentsExact`, `ReportsExact`. Each of these fails on a mutation
of the code that is defined beside the operator it replaces.

Disagreements between the code and its comments are the violation runs:
`storage_summary_solver.go` promises a fixed point it misses for self calls
and never reaches for a pair that swaps; `ruleset.go` promises that explicit
overrides win and that distinct definitions are rejected, whatever the order;
`rules.md` promises that calls propagate effects through callback arguments, of which
`lost_callback` loses one: `sameEffect` leaves the arguments of a callable out, so when
both calls of a function that calls its argument twice are handed on by a caller that
does not know the argument either, the second is taken for the first (`PassedOnInTurn`;
without the function between, `CalledInTurn`, both are found);
`receiver.go` promises that each selection of a member is found. `HiddenFiles` has
six that are not, each of which violates `FindsEachSelection` alone: a method of
an embedded interface, a variable derived in a type-switch clause, a name
declared twice, an element of a named container, a variable of another file, a
literal held by a package variable. `SomeFiles` leaves these six out, so that
`UsesExact` shows the rest.
`MemoTransparent` compares candidates without their kind for the first of these
two reasons.

## Proofs

TLAPS proves, for all files, keys and walks, rulesets, specifications, filters,
trees, argument lists, programs and graphs:

* `SummarySolver_proof`: `TypeOK`, `NeverReentered`, `FreshReads`, `QueueExact`,
  `ProvisionalOnCycle` and `FixedPoint`. Freshness is not inductive alone. `SolverInv` adds that every
  frame was called from the one below along a link, that every read went along a
  link (so a change finds its readers), that the queued flags are on the worklist
  (so whoever is flagged will look again), and that what an unfinished walk has
  read stays as it is: only the outermost walk can give a new value to an
  initialized summary, and no walk above it can have read it, since it is under
  computation. The flags are exact because a key is appended only if it is not
  flagged and the order in which links are visited lists each key once. A
  provisional summary lies on a cycle because the links from one frame to the next
  are among those reached from the callee, and links are only added.
  It also has the refinement of `SummaryMemo`, for which `SettledClosed` adds
  that what is settled calls only what is settled, so nothing settled is
  re-evaluated.
* `RulesetReference_proof`, first about the loader alone: `TypeOK`, `ExpandedOnce`
  (together: a frame is pushed only if its location is not on the stack and its key
  not remembered, and a key is remembered only when its frame leaves) and `Winners`,
  from an invariant that slots are merged in declaration order and that every name
  met has a winner (`InOrder`, `Met`). Then `MemoTransparent`, `CyclesReported`, `UnknownReported` and
  `UnmatchedExact`: the loader, with its stack, its memory and its early ends, yields
  what the references mean. Its invariant, `MeaningInv`, is about what was looked at:
  - of a remembered expansion, every element: a definition it wants is accounted
    for (among the candidates, or dropped by a filter), and every reference it
    follows is remembered too; it found a rule exactly if one of them did
    (`MemoOK`). No expansion is remembered before those it leads to
    (`WellOrdered`), which rules out that two of them vouch for each other;
  - of a frame, the same for the elements it passed (`FrameOK`); the frames are one
    path of references from the location asked for (`StackShape`);
  - of a location that was closed, that it is not cyclic, that all it means is
    accounted for and that each single rule it names exists (`PartDone`).

  Two lemmas carry the argument. `KeySettles`: whatever an expansion yields or leads
  to is settled by the key it is remembered under, except for the kind of its
  candidates; the exception is why `MemoTransparent` leaves the kind out, and the
  run `override_wins` shows what it costs. `CycleOfNodes`: the loader compares
  locations, while `Cyclic` is about locations with the rule wanted of them; a path
  that comes back to a location closes a cycle of such pairs as well, since a search
  for one rule follows no references that the search for all would not.
* `RunPipeline_proof`: `TypeOK`, `FoundOnce`, `FactsOfWholePackage`, `MethodsOnce`,
  `NoSilentSuccess`, `GroupedOnce`, and that the pipeline implements `RunContract`. What was found and
  not parsed is unread or failed, and whatever failed has an error in the report
  (`AccountInv`); the packages not yet marked are those whose files lack facts
  (`FactsInv`); the violations are those of the files checked (`JudgedInv`); what was
  written and what is left to write are together the rendered report, until a
  write fails (`ContractInv`); a format that groups by file opens a file once because
  sorting makes its violations adjacent, and leaves none out (`OpensInv`). The second
  is an invariant of the iterator (`Handed`): what was read is in runs of one file each,
  and what is read next is of another file than what was read last; after as
  many turns as there are violations nothing is left (`FileRunsComplete`). `NoSilentSuccess`, the contract
  and `GroupedOnce` are about a rule's reports, which `Checks` leaves open: the
  theorems suppose that the rules loaded report sequences of violations
  (`RulesReport`), of files that were parsed in the last case (`Located`).

  `MethodsOnce` says that two independent parts of the code agree: the parser gives a
  method the class that its file declares, the runner the class that the package
  declares, and the list of a class is filled by both. `ListsInv` says that lists
  have nothing twice and nothing that neither of the two would put there, and lack
  nothing once their package is annotated; `OwnClass`, that what the parser finds,
  the runner finds, since a chain of aliases that ends at a class of the file ends
  there in the package too (`ResolvesAlike`). This needs what the language asks of the
  files of one build (`TypesOnce`): a name is declared once in a package, as a type or
  as an alias. Directories are walked for the files of one build only
  (`InBuildContext`); files of other builds come in if arguments name them, and of
  those that declare a type twice the theorem says nothing.
* `EffectGraph_proof`: `TypeOK`, `OnlyGrows` and `Settled`. `Settled` is the fixed point
  of the sweeps; none of the three says that sweeping ends (`Terminates`), nor what the
  facts mean (`Sound`, `Precise`). The inductive `Invariant` has five parts:
  - the graph has each callable once, and a literal only after the function it is
    written in (`GraphPart`): `Added` adds a function with all its literals, and these
    belong to no other;
  - calls lead from callables that were searched to callables of the graph, and
    one without a body has none (`CallsPart`);
  - only a callable without a body has a fact that has no place, line 0 (`FactsPart`).
    This is what `OnlyGrows` needs: `AddEffect` replaces a fact by the same one with
    a smaller line, and takes line 0 to be smaller than none, so a fact whose line is 0
    could be moved down the file. A body's facts all have lines, since whatever is
    carried along a call gets the line of the call, and nothing is carried to a
    callable without a body;
  - the loop counters stay in range (`ControlPart`);
  - while a sweep has changed nothing, the edges behind it have nothing to add
    (`SweptPart`). An edge that changes nothing leaves every fact as it is, so what
    was checked before stays checked; a sweep that passes the last edge so has
    checked them all.

  The values that the code computes in loops are recursive functions over an
  interval. `Recursion` (in `Induction_proof`) gives one that obeys its equations, `Stays`
  carries a property along it, and the lemmas named `Same...` and `Still...` say that what is
  computed from the program alone, or also from the graph or the facts, is the same
  after a step that leaves these as they are.
* `Saturating_proof`: saturating arithmetic is exact arithmetic seen through a cap,
  for every `MaxInt`. `QuotientDecides` shows that the test by division decides
  whether a product fits; `AddSaturates` and `MulSaturates` follow, and
  `AddOfCapped` and `MulOfCapped` show that capping on the way changes nothing, so
  a path count is right or at the limit wherever it saturated. What the folds
  and the recursion of NPath make of it is model-checked (`NPathExact`).
* `CohesionGraph_proof`: the union-find of cohesion. A tree is described without its
  search, by a rank that falls from a node to its parent and a function from nodes to
  roots. Halving a path moves a node past its parent, so ranks and roots stay
  (`HalvingKeeps`); ranks that fall never repeat a node, so as many rounds as there are
  nodes end at the root (`FindsRoot`). Hanging one root under another merges two
  classes of linked nodes (`MergeSplits`). A member joins its user to the first user
  only, which links it to all others (`UseRecords`, `HoldsEnough`). Hence roots are
  equal exactly for linked methods, in whatever order uses and calls came
  (`AnyOrderCounts`). Which uses and calls a method makes, and the folds that add them,
  are model-checked (`ComponentsExact`).
* `Induction_proof` and `SequenceFacts_proof`: the lemmas these rest on. The induction
  theorems of the library take a predicate as a parameter, which the provers cannot
  instantiate; a smallest counterexample in a well-founded order does the same.
  So what is reached is the least closed set (`ClosureLeast`, `ReachLeast`), sorting
  enumerates (`RankedEnumerates`), and flattening keeps what its parts contain.

Assumptions: `NoKey` is no key a file's code asks for; readable rulesets are
sequences of items, items name rules, specifications are sequences, and names,
items and rulesets are finitely many (`NoKeyAssumption`, `SourceAssumption`,
`ItemAssumption`, `SpecsAssumption`, `FiniteAssumption`); argument lists are
sequences of arguments that are no exit codes, the names in paths can be ordered,
trees are finite and hold files under such names, writers fail or do not
(`CommandAssumption`, `NamesAssumption`, `TreesAssumption`, `PathsAssumption`,
`WriterAssumption`); the largest integer is positive (`MaxIntAssumption`); programs
have finitely many callables and expressions, their call sites and their own
effects have lines, a method value with another receiver is an expression too, and
a literal belongs to one declared function (`ProgramsAssumption`). TLC evaluates them in the runs.

Model-checked only, since they compare with executions of a given depth, which are
recursive: coverage and determinism of the storage summaries (`CoversExecutions`,
`SameSummaries`) and the soundness and precision of effects (`Sound`, `Precise`).
The fixed point of the storage summaries is proved except where a summary that is
evaluated again is called back (it is missed there). Metrics, what methods add to
the graph of cohesion, member selection and the rules that report are checked only,
with their type invariants (`NPathExact`, `NestingExact`, `CognitiveExact`,
`PromotedExact`, `ComponentsExact`, `ReportsExact`, `UsesExact`): they are recursions
over syntax trees, whose modules have recursive operators and whose agreement with a
definition is an induction over data. Liveness (`Answered`, `Returns`, `Terminates`)
is out of the prover's reach.

## Plan

Done: the storage solver, the loader, the run pipeline and the effect graph with
their proofs; member selection; metrics, cohesion and the threshold rules;
saturating arithmetic and the union-find of cohesion with their proofs. Next, in this
order:

1. Heap cells, weak replay and loops in `StorageWalk`.
2. `MemberSelection` with recursive functions in place of recursive operators, as in
   `EffectGraph`, and a proof of its type invariant.

## Not modelled

Parsing of Go and XML, layout of reports, and the rules that check one
declaration from its syntax or names alone: they keep no state between steps.

In the storage walk: heap cells and field paths, parameters, allocations a body
makes itself (which is why the recursion flag handed to `FlowResume` has no
effect), loops, switches and jumps. An early return does not end the walk of a
block in the code either, and is modelled so. `internal/util/sharing.go` tells
that walk which types share storage; without heap cells nothing depends on it.

In the effect analysis: how `visitors.go` finds the effects of a statement, spread
calls, and the wording of reports. No program of `effects` hands a composite
through two functions: what becomes of such a call is unknown, so `Sound` holds of it
and `Precise` says nothing.

In the source model: locals, constants, type dependencies, and the translation
of syntax trees. Promotion is depth first in the code and shallowest first in
Go; the files of `members` have no member on which the two differ. Definitions of
types in a circle, which do not compile, are left out too.

In the storage walk no type of a place is kept, so what `storage_summaries.go:240`
guards against, summaries that look changed because an address expression made a
new type node, cannot be said: summaries are values here. And of a file that is
reached through a link from another directory the model takes the package key that
the code computes; nothing in the repository says whose package it should be in.

In the pipeline: usage texts, colours, and the error of closing the report file,
which the code does not look at.

The release workflow: it runs in the hosting service, and what a retry there
resumes from is not in these sources.
