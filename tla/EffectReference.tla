--------------------------- MODULE EffectReference ---------------------------
(***************************************************************************)
(* What executions of a program do, against which the effect analysis is   *)
(* judged: calls are made with the values of their arguments, and a value  *)
(* is an object of the root's caller, an object made on the way, or a      *)
(* callable together with the variables that it captured.                  *)
(***************************************************************************)
EXTENDS EffectGraph, TLC

CONSTANT Depth  \* the calls an execution may nest

\* In the place of an object: the execution calls something it knows nothing of.
Opaque == "opaque"
\* In the place of an object: the body of a range loop, which its iterator calls.
LoopBody == "loop"

Value(object, f, env) == [object |-> object, fn |-> f, env |-> env]
Fresh == Value(NoVar, NoFunc, <<>>)

\* The variables of a call of a callable value, from those it captured.
Bound(c, args) ==
    LET params == Fn(c.fn).params
    IN  [v \in Range(params) |->
            LET i == CHOOSE j \in DOMAIN params : params[j] = v
            IN  IF Fn(c.fn).variadic /\ i = Len(params)
                  THEN UNION {args[j] : j \in i .. Len(args)}
                ELSE IF i \in DOMAIN args THEN args[i] ELSE {Fresh}] @@ c.env

RECURSIVE Eval(_,_,_), Written(_,_,_)

\* The values an expression may have.
Eval(e, env, depth) ==
    CASE depth = 0 -> {}
      [] depth > 0 /\ HasRoot(e) ->
            LET held == IF e.var \in DOMAIN env THEN env[e.var]
                        ELSE IF Var(e.var).kind = "global" /\ Var(e.var).expr.kind = "none"
                          THEN {Value(e.var, NoFunc, <<>>)}
                        ELSE UNION {Eval(x, env, depth - 1) : x \in {Var(e.var).expr} \cup Var(e.var).also}
            IN  IF e.kind = "var" THEN held ELSE {Value(x.object, NoFunc, <<>>) : x \in held}
      [] depth > 0 /\ e.kind \in {"lit", "func"} ->
            {Value(NoVar, e.fn, IF e.kind = "lit" THEN env ELSE <<>>)}
      [] depth > 0 /\ e.kind = "method" ->  \* one of another type is reached through a pointer in the value
            LET receiver == IF e.typed THEN Eval(e.recv, env, depth - 1) ELSE {Value(e.recv.var, NoFunc, <<>>)}
            IN  {Value(NoVar, e.fn, Fn(e.fn).receiver :> receiver)}
      [] depth > 0 /\ e.kind = "call" ->
            LET inner == Bound(Value(NoVar, e.fn, <<>>), [i \in DOMAIN e.args |-> Eval(e.args[i], env, depth - 1)])
            IN  UNION {Eval(x, inner, depth - 1) : x \in Range(Fn(e.fn).returns)}
      [] OTHER -> {Fresh}

\* The objects that a call of a callable writes, and whether it is followed to its end.
Written(f, env, depth) ==
    LET value(e) == Eval(e, env, depth)
        element(e) == {Value(x.object, NoFunc, <<>>) : x \in value(e)}
        run(callables, args) ==
            UNION {IF c.fn # NoFunc THEN Written(c.fn, Bound(c, args), depth - 1)
                   ELSE IF c.object = LoopBody THEN {} ELSE {Opaque} : c \in callables}
        made(site) ==
            (IF site.established THEN {}
             ELSE run(value(site.fun), IF site.range THEN <<{Value(LoopBody, NoFunc, <<>>)}>>
                                       ELSE [i \in DOMAIN site.args |-> value(site.args[i])]))
            \cup UNION {run(value(site.args[i]), [j \in 1 .. 2 |-> element(site.args[1])]) :
                            i \in Range(site.callbacks) \cap DOMAIN site.args}
        own(x) == IF x.what = "package variable" THEN {x.name}
                  ELSE {y.object : y \in IF x.binding \in DOMAIN env THEN env[x.binding]
                                         ELSE Eval([kind |-> "var", var |-> x.binding], env, depth)} \ {NoVar}
    IN  IF depth = 0 THEN {}
        ELSE IF ~ Fn(f).body THEN {Opaque}
        ELSE (UNION {own(x) : x \in {y \in Range(Fn(f).direct.outputs) : ~ y.access}})
             \cup (UNION {made(s) : s \in Range(Fn(f).sites)})

\* The root is called with objects that its caller holds on to.
RootVariables == Range(Fn(root).params) \cup ({Fn(root).receiver} \ {NoVar})
Executed ==
    Written(root, [v \in RootVariables |-> {Value(IF Var(v).shares THEN v ELSE NoVar, NoFunc, <<>>)}], Depth)

Reported == {IF x.what = "package variable" THEN x.name ELSE x.binding : x \in Range(facts[root].outputs)}

-----------------------------------------------------------------------------
(* When the analysis is done, every object of its caller and every package *)
(* variable that some execution of the function writes is among its        *)
(* outputs, or the function is reported to do something unknown; and that  *)
(* it is when an execution calls something the program does not give.      *)
Sound ==
    phase = "done" =>
        LET executed == Executed
        IN  /\ facts[root].unknown = <<>> => executed \subseteq Reported
            /\ Opaque \in executed => facts[root].unknown # <<>>

\* Every variable is bound once, and every function returns one thing, which is
\* not the result of a call: one that goes on for ever has none.
Plain ==
    /\ \A v \in DOMAIN prog.vars : Var(v).also = {}
    /\ \A f \in DOMAIN prog.funcs :
          Len(Fn(f).returns) <= 1 /\ \A e \in Range(Fn(f).returns) : e.kind # "call"

(* An output names an object that some execution does write: effects of a  *)
(* callee on one caller's argument do not leak to its other callers, and   *)
(* fresh objects are nobody's.  In a program that leaves no choice, what is *)
(* called unknown is.                                                      *)
Precise ==
    phase = "done" =>
        LET executed == Executed
        IN  /\ Reported \ {NoVar} \subseteq executed
            /\ Plain /\ facts[root].unknown # <<>> => Opaque \in executed
=============================================================================
