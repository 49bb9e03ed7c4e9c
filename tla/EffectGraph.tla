----------------------------- MODULE EffectGraph -----------------------------
(***************************************************************************)
(* The effect analysis behind the explicitness rules: the callables that a *)
(* function may run are collected into a graph, and what each of them      *)
(* reads, writes and leaves unknown is translated to its callers, call by  *)
(* call, until nothing changes.                                            *)
(*                                                                         *)
(* A program is given by its callables: parameters, function literals,     *)
(* returns, call sites and the effects that its own statements have.  A    *)
(* variable is the same object wherever it is seen.  What storage an       *)
(* expression refers to is the answer of the ownership analysis.           *)
(***************************************************************************)
EXTENDS Naturals, Sequences, SequencesExt, FiniteSets, Reachability

CONSTANTS
    Programs,        \* the programs analysed
    StorageOf(_,_,_),\* the storage of an expression in a callable of a program
    NoFunc,          \* no callable
    NoVar            \* no variable

VARIABLES
    prog,     \* the program
    root,     \* the function that a rule asks about
    order,    \* the callables of the graph, in the order they were added
    collected,\* how many of them were searched for calls
    calls,    \* the call edges of each
    facts,    \* the inputs, outputs and unknown effects of each
    turn,     \* the callable and the edge that is propagated next
    changed,  \* this sweep changed something
    phase

vars == <<prog, root, order, collected, calls, facts, turn, changed, phase>>

HasRoot(e) == e.kind \in {"var", "part"}
Kinds == {"inputs", "outputs", "unknown"}
Fn(f) == prog.funcs[f]
Var(v) == prog.vars[v]
Node == Range(order)

-----------------------------------------------------------------------------
(* What a program is *)

\* What an effect is called, as far as the analysis asks.
Whats ==
    {"package variable", "parameter write", "receiver write", "local write", "receiver", "flow", "captured",
     "unresolved call", "unresolved callback", "range over function", "unavailable function body", "other"}

EffectsOf(p) ==
    [line : Nat, what : Whats, name : DOMAIN p.vars \cup {"", NoVar}, binding : DOMAIN p.vars \cup {NoVar},
     deep : BOOLEAN, callable : BOOLEAN, args : Seq(p.exprs), access : BOOLEAN, stored : BOOLEAN]

Declared(p) == {f \in DOMAIN p.funcs : p.funcs[f].parent = NoFunc}
Literals(p) == DOMAIN p.funcs \ Declared(p)

IsExpression(p, e) ==
    /\ HasRoot(e) => e.var \in DOMAIN p.vars /\ {[kind |-> k, var |-> e.var] : k \in {"var", "part"}} \subseteq p.exprs
    /\ e.kind = "lit" => e.fn \in Literals(p)
    /\ e.kind \in {"func", "call", "method"} => e.fn \in Declared(p)
    /\ e.kind = "call" => e.args \in Seq(p.exprs)
    /\ e.kind = "method" =>
          /\ e.typed \in BOOLEAN /\ e.recv \in p.exprs /\ e.recv.kind # "method"
          /\ \A x \in p.exprs : x.kind # "method" => [e EXCEPT !.recv = x] \in p.exprs

SitesOf(p) ==
    [line : Nat \ {0}, range : BOOLEAN, fun : p.exprs, args : Seq(p.exprs), established : BOOLEAN,
     callbacks : Seq(Nat \ {0})]

IsFunction(p, f) ==
    /\ f.params \in Seq(DOMAIN p.vars) /\ f.variadic \in BOOLEAN /\ f.body \in BOOLEAN
    /\ f.receiver \in DOMAIN p.vars \cup {NoVar} /\ f.owned \subseteq DOMAIN p.vars
    /\ f.tracked \subseteq {v \in DOMAIN p.vars : [kind |-> "var", var |-> v] \in p.exprs}
    /\ f.returns \in Seq(p.exprs) /\ f.literals \in Seq(Literals(p)) /\ IsInjective(f.literals)
    /\ f.direct \in [Kinds -> Seq({x \in EffectsOf(p) : x.line > 0})]
    /\ f.sites \in Seq(SitesOf(p))

IsStorage(p, s) ==
    /\ {s.outer, s.reachable, s.ambient} \subseteq BOOLEAN
    /\ s.origins \subseteq DOMAIN p.vars /\ IsFiniteSet(s.origins)

(* What the parser and the ownership analysis hand over: finitely many     *)
(* callables and expressions, places with lines, and literals that belong  *)
(* to one declared function.                                               *)
ASSUME ProgramsAssumption ==
    \A p \in Programs :
        /\ IsFiniteSet(DOMAIN p.funcs) /\ IsFiniteSet(p.exprs) /\ p.roots \subseteq Declared(p)
        /\ NoFunc \notin DOMAIN p.funcs /\ NoVar \notin DOMAIN p.vars
        /\ [kind |-> "other"] \in p.exprs
        /\ \A e \in p.exprs : IsExpression(p, e)
        /\ \A f \in DOMAIN p.funcs :
              /\ IsFunction(p, p.funcs[f])
              /\ \A e \in p.exprs : IsStorage(p, StorageOf(p, f, e))
        /\ \A f, g \in Declared(p) :
              f # g => ToSet(p.funcs[f].literals) \cap ToSet(p.funcs[g].literals) = {}

-----------------------------------------------------------------------------
(* The graph *)

\* A callable and the literals that its body executes, each before its own.
Subtree(f) == <<f>> \o Fn(f).literals

\* Mutation: a callable is added each time it is met.
AddedAgain(nodes, f) == IF f = NoFunc THEN nodes ELSE nodes \o Subtree(f)

Added(nodes, f) == IF f = NoFunc \/ Contains(nodes, f) THEN nodes ELSE nodes \o Subtree(f)

\* The variable is bound by its declaration and by nothing else.
SingleBinding(v) == Var(v).bindings = IF Var(v).declared = "spec" THEN 0 ELSE 1

\* What a variable is declared as, where that is one expression.
BindingExpression(v) == Var(v).expr

\* The step from a variable that is bound once to the expression it is bound to.
Bindings ==
    {<<e, BindingExpression(e.var)>> :
        e \in {x \in prog.exprs : x.kind = "var" /\ SingleBinding(x.var) /\ BindingExpression(x.var) \in prog.exprs}}

\* Where these steps lead: one expression, or none from a variable that is bound
\* to itself.
Followed(e) == {x \in Reach(Bindings, e) : \A b \in Bindings : b[1] # x}

Found(f, nodes) == [fn |-> f, nodes |-> nodes]

\* An expression to resolve, and the functions whose results are being resolved.
Query == [expr : prog.exprs, returning : SUBSET DOMAIN prog.funcs, nodes : Seq(DOMAIN prog.funcs)]

\* What a function returns, if all its results denote the same callable; inner
\* resolves a result.
Returned(q, f, inner) ==
    LET results == Fn(f).returns
        choose[i \in 0 .. Len(results)] ==
            IF i = 0 THEN Found(NoFunc, Added(q.nodes, f))
            ELSE LET prior == choose[i - 1]
                     next == inner[[expr |-> results[i], returning |-> q.returning \cup {f}, nodes |-> prior.nodes]]
                 IN  IF i > 1 /\ prior.fn = NoFunc THEN prior
                     ELSE IF i > 1 /\ next.fn # prior.fn THEN Found(NoFunc, next.nodes)
                     ELSE next
    IN  choose[Len(results)]

Denoted(q, inner) ==
    LET e == CHOOSE x \in Followed(q.expr) : TRUE
    IN  CASE Followed(q.expr) = {} -> Found(NoFunc, q.nodes)
          [] Followed(q.expr) # {} /\ e.kind = "lit" -> Found(IF Contains(q.nodes, e.fn) THEN e.fn ELSE NoFunc, q.nodes)
          [] Followed(q.expr) # {} /\ e.kind = "func" -> Found(e.fn, q.nodes)
          [] Followed(q.expr) # {} /\ e.kind = "call" /\ e.fn \notin q.returning /\ Fn(e.fn).body ->
                Returned(q, e.fn, inner)
          [] OTHER -> Found(NoFunc, q.nodes)

\* The callable an expression denotes, and the graph with what finding out
\* added to it.  A function that returns different callables denotes none, nor
\* does a variable or function that is being resolved already: so resolutions
\* nest no deeper than there are functions.
Resolution(nodes, expression) ==
    LET depth == Cardinality(DOMAIN prog.funcs) + 1
        resolve[k \in 0 .. depth] ==
            [q \in Query |-> IF k = 0 THEN Found(NoFunc, q.nodes) ELSE Denoted(q, resolve[k - 1])]
    IN  resolve[depth][[expr |-> expression, returning |-> {}, nodes |-> nodes]]

\* A method of a value is called, but not followed as a value itself.
ResolveCallee(nodes, e) ==
    IF e.kind = "method" THEN [fn |-> e.fn, nodes |-> nodes] ELSE Resolution(nodes, e)

\* The call that made a callable, followed through variables bound once.
FactoryCall(expression) == {e \in Followed(expression) : e.kind = "call"}

Edge(site, callee, args, range) ==
    [line |-> site.line, callee |-> callee, fun |-> site.fun, args |-> args, range |-> range,
     factory |-> {e \in FactoryCall(site.fun) : ~ range /\ Fn(callee).parent = e.fn}]

Effect(line, what, name, binding) ==
    [line |-> line, what |-> what, name |-> name, binding |-> binding, deep |-> FALSE,
     callable |-> FALSE, args |-> <<>>, access |-> FALSE, stored |-> FALSE]

UnresolvedCall(site) ==
    IF site.fun.kind = "var"
      THEN [Effect(site.line, "unresolved call", "", site.fun.var)
              EXCEPT !.callable = TRUE, !.args = site.args]
      ELSE Effect(site.line, "unresolved call", "", NoVar)

\* What a search of one call finds: the graph, an edge or an unknown effect.
FromCallee(acc, site) ==
    LET r == ResolveCallee(acc.nodes, site.fun)
    IN  IF r.fn # NoFunc
          THEN [acc EXCEPT !.nodes = Added(r.nodes, r.fn),
                           !.calls = Append(@, Edge(site, r.fn, site.args, site.range))]
        ELSE [acc EXCEPT !.nodes = r.nodes,
                         !.unknown = IF site.established THEN @
                                     ELSE IF site.range THEN Append(@, Effect(site.line, "range over function", "", NoVar))
                                     ELSE Append(@, UnresolvedCall(site))]

WithCallable(nodes, e) == LET r == Resolution(nodes, e) IN Added(r.nodes, r.fn)

\* Callables among the arguments join the graph.
FromArguments(acc, site) ==
    LET joined[i \in 0 .. Len(site.args)] ==
            IF i = 0 THEN acc.nodes ELSE WithCallable(joined[i - 1], site.args[i])
    IN  [acc EXCEPT !.nodes = joined[Len(site.args)]]

Element(e) == IF HasRoot(e) THEN [kind |-> "part", var |-> e.var] ELSE [kind |-> "other"]

\* A library that runs its arguments at once calls them with elements.
FromCallback(acc, site, index) ==
    LET r == Resolution(acc.nodes, site.args[index])
        elements == [i \in 1 .. IF index > 1 /\ r.fn # NoFunc THEN Len(Fn(r.fn).params) ELSE 0 |->
                        Element(site.args[IF i < index THEN i ELSE index - 1])]
    IN  IF index > Len(site.args) THEN acc
        ELSE IF r.fn = NoFunc
          THEN [acc EXCEPT !.nodes = r.nodes,
                           !.unknown = Append(@, Effect(site.line, "unresolved callback", "", NoVar))]
        ELSE [acc EXCEPT !.nodes = r.nodes,
                         !.calls = Append(@, [Edge(site, r.fn, elements, FALSE) EXCEPT !.factory = {}])]

FromCallbacks(acc, site) ==
    LET run[i \in 0 .. Len(site.callbacks)] ==
            IF i = 0 THEN acc ELSE FromCallback(run[i - 1], site, site.callbacks[i])
    IN  run[Len(site.callbacks)]

CollectSite(acc, site) ==
    IF site.range THEN FromCallee(acc, site)
    ELSE FromCallbacks(FromArguments(FromCallee(acc, site), site), site)

\* The search of a whole body.
CollectSites(acc, sites) ==
    LET found[i \in 0 .. Len(sites)] == IF i = 0 THEN acc ELSE CollectSite(found[i - 1], sites[i])
    IN  found[Len(sites)]

-----------------------------------------------------------------------------
(* Translation of an effect of a callee to a caller f *)

Owns(f, v) == v \in Fn(f).owned

\* The place of a variable among the parameters of a callable.
ParamIndexes(f, v) == {i \in DOMAIN Fn(f).params : Fn(f).params[i] = v}

\* What an effect on an argument is called: after the variable at its root.
ArgumentPart(f, v, fact) ==
    IF fact.what = "flow" THEN [fact EXCEPT !.name = v]
    ELSE IF Var(v).kind = "global" THEN [fact EXCEPT !.what = "package variable", !.name = v]
    ELSE IF v = Fn(f).receiver /\ prog.strict /\ fact.what = "receiver" THEN fact
    ELSE IF v = Fn(f).receiver THEN [fact EXCEPT !.what = "receiver write", !.name = v]
    ELSE [fact EXCEPT !.what = "parameter write", !.name = v]

\* A write through a local is named for the parameter that it reaches.
OriginName(f, local, fact) ==
    IF fact.what # "parameter write" \/ fact.name # local THEN fact
    ELSE IF fact.binding # NoVar /\ fact.binding = Fn(f).receiver
      THEN [fact EXCEPT !.what = "receiver write", !.name = fact.binding]
    ELSE IF \E i \in DOMAIN Fn(f).params : Fn(f).params[i] = fact.binding /\ Var(fact.binding).shares
      THEN [fact EXCEPT !.name = fact.binding]
    ELSE [fact EXCEPT !.what = "local write"]

\* One effect for every parameter or variable that the storage may come from.
OriginEffects(fact, storage) ==
    LET ambient == IF storage.origins = {} \/ storage.ambient THEN {NoVar} ELSE {}
    IN  {[fact EXCEPT !.binding = o] : o \in storage.origins \cup ambient}

\* Mutation: an argument that shares nothing with the caller is written too.
EveryArgument(f, e, fact) ==
    LET storage == StorageOf(prog, f, e)
    IN  IF ~ HasRoot(e) THEN OriginEffects(fact, storage)
        ELSE {OriginName(f, e.var, x) : x \in OriginEffects(ArgumentPart(f, e.var, fact), storage)}

ArgumentEffects(f, e, fact) ==
    LET storage == StorageOf(prog, f, e)
    IN  IF (fact.stored /\ ~ storage.ambient) \/ ~ (storage.outer \/ (fact.deep /\ storage.reachable))
          THEN {}
        ELSE IF ~ HasRoot(e) THEN OriginEffects(fact, storage)
        ELSE {OriginName(f, e.var, x) : x \in OriginEffects(ArgumentPart(f, e.var, fact), storage)}

\* The arguments a parameter gets, the last of a variadic function all others.
ParameterArguments(callee, args, index) ==
    IF Fn(callee).variadic /\ index = Len(Fn(callee).params)
      THEN {args[i] : i \in index .. Len(args)}
      ELSE {args[i] : i \in {index} \cap DOMAIN args}

ParameterEffects(f, callee, args, index, fact) ==
    LET actual == ParameterArguments(callee, args, index)
    IN  IF Fn(callee).variadic /\ index = Len(Fn(callee).params)
          THEN IF fact.deep THEN UNION {ArgumentEffects(f, a, fact) : a \in actual} ELSE {}
        ELSE IF actual = {} THEN {[fact EXCEPT !.binding = NoVar]}
        ELSE UNION {ArgumentEffects(f, a, fact) : a \in actual}

ReceiverEffects(f, edge, fact) ==
    IF edge.fun.kind = "method"
      THEN ArgumentEffects(f, edge.fun.recv, [fact EXCEPT !.deep = @ \/ ~ edge.fun.typed])
      ELSE {[fact EXCEPT !.binding = NoVar]}

\* What the ownership analysis follows at a call; a call that was made up, for a
\* callback, has no place in the file, and nothing is followed there.
Tracked(f, line) == IF line = 0 THEN {} ELSE Fn(f).tracked

CapturedEffects(f, fact) ==
    IF fact.binding \in Tracked(f, fact.line)
      THEN ArgumentEffects(f, [kind |-> "var", var |-> fact.binding], fact)
    ELSE IF Owns(f, fact.binding) THEN {} ELSE {fact}

\* A constant or a variable is said in terms of the caller, if it can be; what
\* makes a value, as a composite, a literal or a call does, is not.
SubstitutedOperand(f, edge, e) ==
    IF ~ HasRoot(e) THEN IF e.kind \in {"constant", "func"} THEN {e} ELSE {}
    ELSE IF Var(e.var).kind = "global" THEN {e}
    ELSE IF ParamIndexes(edge.callee, e.var) # {}
      THEN LET index == CHOOSE i \in ParamIndexes(edge.callee, e.var) : TRUE
               actual == IF Fn(edge.callee).variadic /\ index = Len(Fn(edge.callee).params) THEN {}
                         ELSE ParameterArguments(edge.callee, edge.args, index)
           IN  {IF e.kind = "part" /\ HasRoot(a) THEN Element(a) ELSE a : a \in actual}
    ELSE IF e.var \in Tracked(f, edge.line) THEN {e} ELSE {}

\* An argument of a callback, of which a method value is one of what it is bound to.
Substituted(f, edge, e) ==
    IF e.kind # "method" THEN SubstitutedOperand(f, edge, e)
    ELSE {[e EXCEPT !.recv = x] : x \in {y \in SubstitutedOperand(f, edge, e.recv) : y.kind # "method"}}

\* An unresolved call of a variable: of which variable of the caller?
CallableBinding(f, edge, v) ==
    IF ParamIndexes(edge.callee, v) # {}
      THEN LET index == CHOOSE i \in ParamIndexes(edge.callee, v) : TRUE
           IN  IF index \in DOMAIN edge.args /\ edge.args[index].kind = "var"
                 THEN edge.args[index].var ELSE NoVar
    ELSE IF v \in Tracked(f, edge.line) \/ Owns(f, v) THEN v ELSE NoVar

CallableEffect(f, edge, fact) ==
    LET binding == CallableBinding(f, edge, fact.binding)
        args == [i \in DOMAIN fact.args |-> Substituted(f, edge, fact.args[i])]
    IN  IF binding = NoVar \/ \E i \in DOMAIN args : args[i] = {}
          THEN [fact EXCEPT !.binding = NoVar, !.callable = FALSE, !.args = <<>>]
        ELSE [fact EXCEPT !.binding = binding,
                          !.args = [i \in DOMAIN args |-> CHOOSE a \in args[i] : TRUE]]

\* translateEffect: what an effect of the callee of an edge is to the caller.
Translated(f, edge, effect) ==
    LET fact == [effect EXCEPT !.line = edge.line]
        v == fact.binding
        index == ParamIndexes(edge.callee, v)
        made == {e \in edge.factory : ParamIndexes(e.fn, v) # {}}
    IN  CASE fact.callable -> {CallableEffect(f, edge, fact)}
          [] ~ fact.callable /\ v = NoVar -> {fact}
          [] ~ fact.callable /\ v # NoVar /\ fact.access -> IF Owns(f, v) THEN {} ELSE {fact}
          [] OTHER ->
                IF index # {}
                  THEN UNION {ParameterEffects(f, edge.callee, edge.args, i, fact) : i \in index}
                ELSE IF v = Fn(edge.callee).receiver THEN ReceiverEffects(f, edge, fact)
                ELSE IF made # {}
                  THEN UNION {UNION {ParameterEffects(f, e.fn, e.args, i, fact) :
                                i \in ParamIndexes(e.fn, v)} : e \in made}
                ELSE CapturedEffects(f, fact)

\* Effects are the same whatever their line and the arguments of a callback.
SameEffect(a, b) == [a EXCEPT !.line = 0, !.args = <<>>] = [b EXCEPT !.line = 0, !.args = <<>>]

\* Mutation: the line of the latest call counts.
LatestLine(effects, next) ==
    LET same == {i \in DOMAIN effects : SameEffect(effects[i], next)}
    IN  IF same = {} THEN Append(effects, next)
        ELSE [effects EXCEPT ![CHOOSE i \in same : TRUE].line = next.line]

\* A new effect is added; a known one keeps the first line it was met at.
AddEffect(effects, next) ==
    LET same == {i \in DOMAIN effects : SameEffect(effects[i], next)}
    IN  IF same = {} THEN Append(effects, next)
        ELSE LET i == CHOOSE j \in same : TRUE
                 earlier == next.line > 0 /\ (effects[i].line = 0 \/ next.line < effects[i].line)
             IN  IF earlier THEN [effects EXCEPT ![i].line = next.line] ELSE effects

AddEffects(effects, new) ==
    LET added[i \in 0 .. Cardinality(new)] ==
            IF i = 0 THEN [left |-> new, known |-> effects]
            ELSE LET x == CHOOSE y \in added[i - 1].left : TRUE
                 IN  [left |-> added[i - 1].left \ {x}, known |-> AddEffect(added[i - 1].known, x)]
    IN  added[Cardinality(new)].known

\* An unknown call of a parameter is known once the argument is a callable.
Known(edge, fact) ==
    LET index == {i \in ParamIndexes(edge.callee, fact.binding) : i \in DOMAIN edge.args}
        actual == {Resolution(order, edge.args[i]).fn : i \in index} \ {NoFunc}
    IN  IF fact.callable THEN actual ELSE {}

\* Sets of effects, one set after the other: of effects that are the same but
\* for the arguments of a callback, the first counts.
AddInTurn(effects, sets) ==
    LET known[i \in 0 .. Len(sets)] == IF i = 0 THEN effects ELSE AddEffects(known[i - 1], sets[i])
    IN  known[Len(sets)]

\* The effects of the callable that was passed, through the call of the
\* parameter, which has no place, and then through the call that passed it.
ThroughCallback(f, edge, fact, actual, kind) ==
    LET inner == [edge EXCEPT !.line = 0, !.callee = actual, !.args = fact.args, !.factory = {},
                              !.fun = [kind |-> "func", fn |-> actual]]
        effects == IF actual \in Node THEN facts[actual][kind] ELSE <<>>
    IN  [i \in DOMAIN effects |->
            UNION {Translated(f, edge, x) : x \in Translated(edge.callee, inner, effects[i])}]

\* What an unknown effect of the callee adds to each kind of facts of the caller.
FromUnknown(f, edge, fact, kind) ==
    LET known == Known(edge, fact)
    IN  IF fact.callable /\ edge.range /\ 1 \in ParamIndexes(edge.callee, fact.binding) THEN <<>>
        ELSE IF known # {} THEN ThroughCallback(f, edge, fact, CHOOSE a \in known : TRUE, kind)
        ELSE IF kind = "unknown" THEN <<Translated(f, edge, fact)>> ELSE <<>>

\* What one edge adds, from one effect of the callee after the other.
Contributions(f, edge, kind) ==
    LET called == facts[edge.callee]
        own == IF kind = "unknown" THEN <<>>
               ELSE [i \in DOMAIN called[kind] |-> Translated(f, edge, called[kind][i])]
    IN  own \o FlattenSeq([i \in DOMAIN called.unknown |-> FromUnknown(f, edge, called.unknown[i], kind)])

Propagated(f, edge, kind) == UNION Range(Contributions(f, edge, kind))

-----------------------------------------------------------------------------
NoFacts == [x \in {} |-> x]

Init ==
    /\ prog \in Programs
    /\ root \in prog.roots
    /\ order = Subtree(root) /\ collected = 0 /\ calls = NoFacts
    /\ facts = [f \in Node |-> Fn(f).direct]
    /\ turn = <<1, 1>> /\ changed = FALSE /\ phase = "collect"

\* The calls of the next callable; those it may run are added to the graph.
Collect ==
    /\ phase = "collect" /\ collected < Len(order)
    /\ LET f == order[collected + 1]
           start == [nodes |-> order, calls |-> <<>>, unknown |-> facts[f].unknown]
           end == IF Fn(f).body THEN CollectSites(start, Fn(f).sites)
                  ELSE [start EXCEPT !.unknown = Append(@, Effect(0, "unavailable function body", "", NoVar))]
       IN  /\ order' = end.nodes
           /\ calls' = [g \in DOMAIN calls \cup {f} |-> IF g = f THEN end.calls ELSE calls[g]]
           /\ facts' = [g \in Range(end.nodes) |->
                            IF g = f THEN [facts[f] EXCEPT !.unknown = end.unknown]
                            ELSE IF g \in Node THEN facts[g] ELSE Fn(g).direct]
    /\ collected' = collected + 1
    /\ UNCHANGED <<prog, root, turn, changed, phase>>

EndCollection ==
    /\ phase = "collect" /\ collected = Len(order)
    /\ phase' = "sweep"
    /\ UNCHANGED <<prog, root, order, collected, calls, facts, turn, changed>>

\* One edge of the callable whose turn it is.
Propagate ==
    /\ phase = "sweep" /\ turn[1] <= Len(order) /\ turn[2] <= Len(calls[order[turn[1]]])
    /\ LET f == order[turn[1]]
           edge == calls[f][turn[2]]
           grown == [k \in Kinds |-> AddInTurn(facts[f][k], Contributions(f, edge, k))]
       IN  /\ facts' = [facts EXCEPT ![f] = grown]
           /\ changed' = (changed \/ grown # facts[f])
    /\ turn' = <<turn[1], turn[2] + 1>>
    /\ UNCHANGED <<prog, root, order, collected, calls, phase>>

NextCallable ==
    /\ phase = "sweep" /\ turn[1] <= Len(order) /\ turn[2] > Len(calls[order[turn[1]]])
    /\ turn' = <<turn[1] + 1, 1>>
    /\ UNCHANGED <<prog, root, order, collected, calls, facts, changed, phase>>

\* Mutation: one sweep is enough.
OneSweep ==
    /\ phase = "sweep" /\ turn[1] > Len(order)
    /\ phase' = "done" /\ changed' = FALSE /\ turn' = <<1, 1>>
    /\ UNCHANGED <<prog, root, order, collected, calls, facts>>

\* A sweep that changed something is followed by another.
EndSweep ==
    /\ phase = "sweep" /\ turn[1] > Len(order)
    /\ phase' = IF changed THEN "sweep" ELSE "done"
    /\ changed' = FALSE /\ turn' = <<1, 1>>
    /\ UNCHANGED <<prog, root, order, collected, calls, facts>>

Next == Collect \/ EndCollection \/ Propagate \/ NextCallable \/ EndSweep

\* What every step does, said without what it computes: the analysis is one
\* loop and does not stop by itself before it is done.
Advance ==
    \/ phase = "collect" /\ collected < Len(order) /\ collected' = collected + 1 /\ UNCHANGED <<turn, phase>>
    \/ phase = "collect" /\ collected = Len(order) /\ phase' = "sweep" /\ UNCHANGED <<collected, turn>>
    \/ /\ phase = "sweep" /\ phase' \in {"sweep", "done"} /\ UNCHANGED collected
       /\ turn' \in {<<turn[1], turn[2] + 1>>, <<turn[1] + 1, 1>>, <<1, 1>>}

Spec == Init /\ [][Next]_vars /\ WF_<<collected, turn, phase>>(Advance)

-----------------------------------------------------------------------------
(* Properties *)

EdgeRecord ==
    [line : Nat \ {0}, callee : DOMAIN prog.funcs, args : Seq(prog.exprs), range : BOOLEAN,
     fun : prog.exprs, factory : SUBSET {e \in prog.exprs : e.kind = "call"}]

(* The callables of the graph are listed once, each has facts, each that   *)
(* was searched has its calls, and whatever is called is in the graph: the *)
(* sweeps look it up without asking.                                       *)
TypeOK ==
    /\ prog \in Programs /\ root \in prog.roots
    /\ order \in Seq(DOMAIN prog.funcs) /\ IsInjective(order) /\ root \in Node
    /\ collected \in 0 .. Len(order) /\ DOMAIN calls = {order[i] : i \in 1 .. collected}
    /\ \A f \in DOMAIN calls : calls[f] \in Seq(EdgeRecord)
    /\ \A f \in DOMAIN calls : \A i \in DOMAIN calls[f] : calls[f][i].callee \in Node
    /\ facts \in [Node -> [Kinds -> Seq(EffectsOf(prog))]]
    /\ changed \in BOOLEAN /\ phase \in {"collect", "sweep", "done"}
    /\ turn \in (1 .. Len(order) + 1) \X (Nat \ {0})

\* Facts are never lost, and the line a fact is reported at only moves up.
Keeps(before, after) ==
    /\ Len(before) <= Len(after)
    /\ \A i \in DOMAIN before :
          /\ SameEffect(before[i], after[i])
          /\ after[i].line <= before[i].line

(* A step of the analysis adds effects and lowers lines, and does nothing  *)
(* else to what is known: the reason why the sweeps come to an end.        *)
OnlyGrows ==
    [][\A f \in Node : \A k \in Kinds : Keeps(facts[f][k], facts'[f][k])]_vars

\* An effect is among some, at its line or an earlier one.
Among(x, effects) == \E i \in DOMAIN effects : SameEffect(effects[i], x) /\ effects[i].line <= x.line

(* When the sweeps end, no call has anything left to add: each effect of a *)
(* callee, translated along any call that was collected, is a fact of the  *)
(* caller, at that call or an earlier one.                                 *)
Settled ==
    phase = "done" =>
        \A f \in Node : \A i \in DOMAIN calls[f] : \A k \in Kinds :
            \A x \in Propagated(f, calls[f][i], k) : Among(x, facts[f][k])

(* The sweeps reach a fixed point, on recursive programs too: no two       *)
(* callers keep moving each other's facts.                                 *)
Terminates == <>(phase = "done")
=============================================================================
