----------------------------- MODULE RuleEngine -----------------------------
(***************************************************************************)
(* The rules on the size and the cohesion of code, from their              *)
(* configuration to the violations that one file gets.  Each rule parses   *)
(* its properties once; then every rule in turn measures the artifacts it  *)
(* is about and reports those that breach its threshold.                   *)
(*                                                                         *)
(* A property's raw text is [kind, value]: "none" if absent, "integer" or  *)
(* "malformed".  A file has its lines, the classes and interfaces of its   *)
(* package and its functions; a method names its class in "recv".          *)
(***************************************************************************)
EXTENDS Cohesion, TLC

CONSTANTS
    Inputs,    \* files, each with the properties its rules are given
    Rules      \* the rules of the ruleset, in order

VARIABLES
    input,       \* the file analyzed and the properties of the ruleset
    status,      \* "loading", "analyzing", "done", or "failed" to load
    next,        \* the rule to configure or to apply
    configured,  \* the rules configured so far
    violations   \* reported so far

vars == <<input, status, next, configured, violations>>
file == input.file

-----------------------------------------------------------------------------
(* Declarations: the property of a threshold, its default, its boundary *)

Declared(property, default, above) == [property |-> property, default |-> default, above |-> above]

FuncRules ==
    [CyclomaticComplexity |-> Declared("reportLevel", 10, FALSE),
     CognitiveComplexity  |-> Declared("reportLevel", 20, FALSE),
     NestingDepth         |-> Declared("maxdepth", 5, TRUE),
     ExcessiveReturnCount |-> Declared("maxresults", 3, TRUE),
     NakedReturn          |-> Declared("minloc", 50, FALSE),
     NPathComplexity      |-> Declared("minimum", 200, FALSE),
     LongMethod           |-> Declared("minimum", 100, FALSE),
     LongParameterList    |-> Declared("minimum", 10, FALSE)]

ClassRules ==
    [LongClass               |-> Declared("minimum", 1000, FALSE),
     ExcessivePublicCount    |-> Declared("minimum", 45, FALSE),
     TooManyFields           |-> Declared("maxfields", 15, TRUE),
     TooManyMethods          |-> Declared("maxmethods", 25, TRUE),
     TooManyPublicMethods    |-> Declared("maxmethods", 10, TRUE),
     WeightedMethodCount     |-> Declared("maximum", 50, FALSE),
     LackOfCohesionOfMethods |-> Declared("maximum", 1, TRUE)]

Declaration == FuncRules @@ ClassRules

\* Mutation: every rule reports from its threshold on.
ViolatesAtOrAbove(above, value, threshold) == value >= threshold

Violates(above, value, threshold) == IF above THEN value > threshold ELSE value >= threshold

-----------------------------------------------------------------------------
(* Properties *)

Unset == [kind |-> "none", value |-> 0]

Setting(r, property) ==
    IF <<r, property>> \in DOMAIN input.props THEN input.props[<<r, property>>] ELSE Unset

IntProperty(raw, default) == IF raw.kind = "none" THEN default ELSE raw.value

\* A malformed text stands for the default here.
LenientInt(raw, default) == IF raw.kind = "integer" THEN raw.value ELSE default
Bool(raw, default) == IF raw.kind = "integer" /\ raw.value \in {0, 1} THEN raw.value = 1 ELSE default

HasInterfaces(r) == r = "TooManyMethods"
Interface == [property |-> "maxifacemethods", default |-> 10]

Malformed(r) ==
    /\ r # "NakedReturn"
    /\ \/ Setting(r, Declaration[r].property).kind = "malformed"
       \/ HasInterfaces(r) /\ Setting(r, Interface.property).kind = "malformed"

Configuration(r) ==
    LET raw == Setting(r, Declaration[r].property)
        default == Declaration[r].default
    IN  [threshold |-> IF r = "NakedReturn" THEN LenientInt(raw, default) ELSE IntProperty(raw, default),
         interface |-> IntProperty(Setting(r, Interface.property), Interface.default),
         minccn |-> LenientInt(Setting(r, "minccn"), 10),
         methods |-> Bool(Setting(r, "showMethodsComplexity"), TRUE),
         effective |-> Bool(Setting(r, "ignore-whitespace"), FALSE),
         \* an empty pattern, or one that does not compile, ignores nothing
         pattern |-> Setting(r, "ignorepattern").kind = "none"]

-----------------------------------------------------------------------------
(* Measures *)

FuncLines(fn, effective) ==
    IF effective /\ fn.body # <<>> THEN EffectiveLines(file.lines, fn.first, fn.last)
    ELSE LinesOfCode(fn.first, fn.last)

ClassLines(c, effective) ==
    LET spec == IF effective THEN EffectiveLines(file.lines, c.first, c.last) ELSE LinesOfCode(c.first, c.last)
        methods == MethodsOf(file, c)
    IN  FoldLeft(LAMBDA n, m : n + FuncLines(m, effective), spec, methods)

Counted(methods, ignoring) == CountIf(methods, LAMBDA m : ~(ignoring /\ m.accessor))
Exported(s) == SelectSeq(s, LAMBDA m : m.exported)

FuncValue(r, fn, conf) ==
    CASE r = "CyclomaticComplexity" -> Cyclomatic(fn.body)
      [] r = "CognitiveComplexity" -> Cognitive(fn)
      [] r = "NestingDepth" -> Nesting(fn.body)
      [] r = "ExcessiveReturnCount" -> Len(fn.results)
      [] r = "NPathComplexity" -> NPath(fn.body)
      [] r = "LongMethod" -> FuncLines(fn, conf.effective)
      [] r = "LongParameterList" -> fn.params

ClassValue(r, c, conf) ==
    LET methods == MethodsOf(file, c)
    IN  CASE r = "LongClass" -> ClassLines(c, conf.effective)
          [] r = "ExcessivePublicCount" -> Len(Exported(methods)) + Len(Exported(c.fields))
          [] r = "TooManyFields" -> Len(c.fields)
          [] r = "TooManyMethods" -> Counted(methods, conf.pattern)
          [] r = "TooManyPublicMethods" -> Counted(Exported(methods), conf.pattern)
          [] r = "WeightedMethodCount" -> FoldLeft(LAMBDA n, m : n + Cyclomatic(m.body), 0, methods)
          [] r = "LackOfCohesionOfMethods" -> LackOfCohesion(file, c)

HasNamedResults(fn) == \E i \in DOMAIN fn.results : fn.results[i] # ""

HasNakedReturn(fn) ==
    CountIf(InspectAll(fn.body, {"lit"}), LAMBDA n : n.kind = "return" /\ n.head = <<>>) > 0

-----------------------------------------------------------------------------
(* Reports *)

Violation(r, class, name, value, threshold) ==
    [rule |-> r, class |-> class, name |-> name, value |-> value, threshold |-> threshold]

Breaching(r, reports) ==
    SelectSeq(reports, LAMBDA v : Violates(Declaration[r].above, v.value, v.threshold))

FuncReports(r, conf) ==
    Breaching(r, [i \in DOMAIN file.funcs |->
        Violation(r, file.funcs[i].recv, file.funcs[i].name, FuncValue(r, file.funcs[i], conf), conf.threshold)])

ClassReports(r, conf) ==
    Breaching(r, [i \in DOMAIN file.classes |->
        Violation(r, file.classes[i].name, "", ClassValue(r, file.classes[i], conf), conf.threshold)])

InterfaceReports(r, conf) ==
    Breaching(r, [i \in DOMAIN file.interfaces |->
        Violation(r, file.interfaces[i].name, "", Counted(file.interfaces[i].methods, conf.pattern), conf.interface)])

\* A bare return of named results in a function that is long or complex.
NakedReturns(conf) ==
    LET naked == SelectSeq(file.funcs, LAMBDA fn :
                     /\ HasNamedResults(fn)
                     /\ HasNakedReturn(fn)
                     /\ \/ FuncLines(fn, FALSE) >= conf.threshold
                        \/ Cyclomatic(fn.body) >= conf.minccn)
    IN  [i \in DOMAIN naked |-> Violation("NakedReturn", naked[i].recv, naked[i].name,
                                          FuncLines(naked[i], FALSE), Cyclomatic(naked[i].body))]

Reports(r, conf) ==
    CASE r = "NakedReturn" -> NakedReturns(conf)
      [] r \in DOMAIN FuncRules \ {"NakedReturn"} -> IF conf.methods THEN FuncReports(r, conf) ELSE <<>>
      [] OTHER -> ClassReports(r, conf) \o (IF HasInterfaces(r) THEN InterfaceReports(r, conf) ELSE <<>>)

-----------------------------------------------------------------------------

Init ==
    /\ input \in Inputs
    /\ status = "loading"
    /\ next = 1
    /\ configured = <<>>
    /\ violations = <<>>

\* Mutation: a rule that cannot be configured is skipped.
ConfigureOrSkip ==
    /\ status = "loading"
    /\ next <= Len(Rules)
    /\ configured' = IF Malformed(Rules[next]) THEN configured ELSE Append(configured, Configuration(Rules[next]))
    /\ next' = next + 1
    /\ UNCHANGED <<input, status, violations>>

\* The rules are configured one by one; a malformed property ends the load.
Configure ==
    /\ status = "loading"
    /\ next <= Len(Rules)
    /\ IF Malformed(Rules[next])
         THEN /\ status' = "failed"
              /\ UNCHANGED <<next, configured>>
         ELSE /\ configured' = Append(configured, Configuration(Rules[next]))
              /\ next' = next + 1
              /\ UNCHANGED status
    /\ UNCHANGED <<input, violations>>

Loaded ==
    /\ status = "loading"
    /\ next > Len(Rules)
    /\ status' = "analyzing"
    /\ next' = 1
    /\ UNCHANGED <<input, configured, violations>>

Apply ==
    /\ status = "analyzing"
    /\ next <= Len(Rules)
    /\ violations' = violations \o Reports(Rules[next], configured[next])
    /\ next' = next + 1
    /\ UNCHANGED <<input, status, configured>>

Analyzed ==
    /\ status = "analyzing"
    /\ next > Len(Rules)
    /\ status' = "done"
    /\ UNCHANGED <<input, next, configured, violations>>

Next == Configure \/ Loaded \/ Apply \/ Analyzed

Spec == Init /\ [][Next]_vars

-----------------------------------------------------------------------------

\* Every value has its type; a file is analyzed with all rules configured.
TypeOK ==
    /\ input \in Inputs
    /\ status \in {"loading", "analyzing", "done", "failed"}
    /\ next \in 1..(Len(Rules) + 1)
    /\ status = "loading" => Len(configured) = next - 1
    /\ status \in {"analyzing", "done"} => Len(configured) = Len(Rules)
    /\ status \in {"loading", "failed"} => violations = <<>>
    /\ \A i \in DOMAIN violations : violations[i].rule \in Range(Rules) /\ violations[i].value \in Nat
=============================================================================
