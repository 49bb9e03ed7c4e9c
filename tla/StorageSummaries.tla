-------------------------- MODULE StorageSummaries --------------------------
(***************************************************************************)
(* The storage summaries of messgo: the solver of SummarySolver walking    *)
(* bodies with the flows of StorageWalk, and the concrete executions of    *)
(* the same bodies that a summary must account for.                        *)
(***************************************************************************)
EXTENDS SummarySolver, StorageWalk

CONSTANT Depth      \* bound on the call depth of concrete executions

ASSUME DepthAssumption == Depth \in Nat

-----------------------------------------------------------------------------
(* Concrete executions: every variable refers to one allocation, a call     *)
(* under an if is made or not, and one of the targets of a call is called.  *)

Location == Nat \X Nat

Run == [now : [Var -> Location], result : SUBSET Location, mutated : SUBSET Location]

Begin(now) == [now |-> now, result |-> {}, mutated |-> {}]

\* The state of the caller r after its call i of a body that ended in e.
Return(r, i, e) ==
    [r EXCEPT !.mutated = @ \cup e.mutated,
              !.now = [v \in Var |-> IF v = i.dest
                                       THEN CHOOSE a \in e.result \cup {Ambient} :
                                               e.result # {} => a \in e.result
                                       ELSE e.now[v]]]

Steps(i, r) ==
    CASE i.op = "bind"   -> {[r EXCEPT !.now = [v \in Var |->
                                IF \E m \in DOMAIN i.to : i.to[m] = v
                                  THEN r.now[i.from[CHOOSE m \in DOMAIN i.to : i.to[m] = v]]
                                  ELSE r.now[v]]]}
      [] i.op = "mutate" -> {[r EXCEPT !.mutated = @ \cup ({r.now[i.var]} \ {Ambient})]}
      [] i.op = "return" -> {[r EXCEPT !.result = {r.now[i.var]}]}

\* executions[d, b, n, r]: the states in which executions of body b end that
\* stand before statement n in state r and nest at most d further calls.
executions[d \in 0 .. Depth, b \in Body, n \in Nat, r \in Run] ==
    IF n > Len(Code[b]) THEN {r}
    ELSE LET i == Code[b][n]
             called == IF d = 0 THEN {}
                       ELSE UNION {{Return(r, i, e) :
                                e \in executions[d - 1, i.targets[m], 1, Begin(r.now)]} :
                                m \in DOMAIN i.targets}
             after == IF i.op # "call" THEN Steps(i, r)
                      ELSE IF i.maybe THEN called \cup {r} ELSE called
         IN  UNION {executions[d, b, n + 1, s] : s \in after}

\* The concrete states an entry stands for.
Concrete(entry) ==
    {now \in [Var -> {Ambient} \cup UNION {entry[v] : v \in DOMAIN entry}] :
        \A v \in Var : now[v] \in (IF v \in DOMAIN entry THEN entry[v] ELSE {Ambient})}

Covers(summary, e) ==
    /\ \A v \in DOMAIN summary.exit : e.now[v] \in summary.exit[v]
    /\ e.result \subseteq summary.result
    /\ e.mutated \subseteq summary.mutated

\* Once a request is answered, every summary accounts for every execution of
\* its body that nests at most Depth calls: where each captured variable may
\* point afterwards, what is returned and what is written through.  Rules
\* report hidden writes from these facts, so a miss is a lost report.
CoversExecutions ==
    Idle => \A k \in Initialized : \A now \in Concrete(k.entry) :
                \A e \in executions[Depth, k.body, 1, Begin(now)] : Covers(value[k], e)

=============================================================================
