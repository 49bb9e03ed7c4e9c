---------------------------- MODULE StorageWalk ----------------------------
(***************************************************************************)
(* What messgo's ownership flow does to the storage facts of one function, *)
(* for bodies that assign captured variables, write through them, return   *)
(* them and call each other.  A fact of a variable is the set of           *)
(* allocations it may refer to.  A flow is one walk of one body; a key is  *)
(* a body with the facts it is entered with.                               *)
(*                                                                         *)
(* Left out: heap cells and field paths, loops, switches and jumps,        *)
(* parameters, and the allocations a body makes itself.                    *)
(***************************************************************************)
EXTENDS Naturals, Sequences, FiniteSets, Reachability

CONSTANTS
    Body,       \* the function bodies of all files
    Code,       \* Code[b]: the statements of b, in order
    VarOrder,   \* the captured variables, in the order entries are walked
    NoVar       \* a call whose result is not assigned

Var == {VarOrder[i] : i \in DOMAIN VarOrder}

\* An allocation is <<site, n>>: n numbers the allocations of an entry, and
\* n = 0 is the one summary allocation of a site in a recursive entry.
Ambient == <<0, 0>>

-----------------------------------------------------------------------------
(* Dependencies: the variables a body and what it calls may touch. *)

Mentioned(i) ==
    CASE i.op = "bind"   -> {i.to[n] : n \in DOMAIN i.to}
                              \cup {i.from[n] : n \in DOMAIN i.from}
      [] i.op = "call"   -> {i.dest} \ {NoVar}
      [] i.op = "mutate" -> {i.var}
      [] i.op = "return" -> {i.var}

Statements(b) == {Code[b][n] : n \in DOMAIN Code[b]}

Callees(b) == UNION {{i.targets[n] : n \in DOMAIN i.targets} :
                        i \in {j \in Statements(b) : j.op = "call"}}

StaticCalls == UNION {{<<b, c>> : c \in Callees(b)} : b \in Body}

depends[b \in Body] ==
    UNION {UNION {Mentioned(i) : i \in Statements(c)} : c \in Reach(StaticCalls, b)}

-----------------------------------------------------------------------------
(* Entries: projected on the dependencies, with canonical allocations. *)

Project(facts, b) == [v \in depends[b] |-> facts[v]]

Allocations(facts) == (UNION {facts[v] : v \in DOMAIN facts}) \ {Ambient}

\* The position at which an entry is first walked into an allocation.
FirstSeen(facts, a) ==
    CHOOSE n \in DOMAIN VarOrder :
        /\ VarOrder[n] \in DOMAIN facts
        /\ a \in facts[VarOrder[n]]
        /\ \A m \in 1 .. n - 1 :
              VarOrder[m] \in DOMAIN facts => a \notin facts[VarOrder[m]]

SeenBefore(facts, a, b) ==
    LET na == FirstSeen(facts, a)
        nb == FirstSeen(facts, b)
    IN  \/ na < nb
        \/ na = nb /\ a[1] < b[1]
        \/ na = nb /\ a[1] = b[1] /\ a[2] < b[2]

\* A recursive entry keeps one allocation of a site, any other entry numbers
\* its allocations in the order they are walked into.
Rename(facts, wide, a) ==
    IF wide
      THEN <<a[1], 0>>
      ELSE <<a[1], Cardinality({b \in Allocations(facts) : SeenBefore(facts, b, a)})
                     + 1>>

AbstractEntry(facts, wide) ==
    [v \in DOMAIN facts |->
        {IF a = Ambient THEN Ambient ELSE Rename(facts, wide, a) : a \in facts[v]}]

\* Mutation: the inverse of a renaming keeps one allocation of a name.
InstantiateOne(facts, wide, names) ==
    (names \cap {Ambient})
        \cup {(CHOOSE a \in Allocations(facts) : Rename(facts, wide, a) = m) :
                m \in names \cap {Rename(facts, wide, b) : b \in Allocations(facts)}}

\* The caller's allocations behind the names of an entry.
Instantiate(facts, wide, names) ==
    (names \cap {Ambient})
        \cup {a \in Allocations(facts) : Rename(facts, wide, a) \in names}

-----------------------------------------------------------------------------
(* Flows. *)

FlowStart(k) ==
    [body |-> k.body, at |-> 1, now |-> k.entry, result |-> {}, mutated |-> {},
     target |-> 1, exits |-> {}]

FlowDone(w) == w.at > Len(Code[w.body])

Statement(w) == Code[w.body][w.at]

FlowCalling(w) == Statement(w).op = "call"

FlowTarget(w) == Statement(w).targets[w.target]

FlowEntryKey(w, wide) ==
    LET callee == FlowTarget(w)
    IN  [body |-> callee, entry |-> AbstractEntry(Project(w.now, callee), wide)]

\* Statements that are no calls.  The facts of all right-hand sides are taken
\* before the first target is bound.
FlowAdvance(w) ==
    LET i == Statement(w)
        next == [w EXCEPT !.at = @ + 1]
        Bound(v) == IF \E n \in DOMAIN i.to : i.to[n] = v
                      THEN w.now[i.from[CHOOSE n \in DOMAIN i.to : i.to[n] = v]]
                      ELSE w.now[v]
    IN  CASE i.op = "bind"   -> [next EXCEPT !.now = [v \in DOMAIN w.now |-> Bound(v)]]
          [] i.op = "mutate" -> [next EXCEPT !.mutated =
                                    @ \cup (w.now[i.var] \ {Ambient})]
          [] i.op = "return" -> [next EXCEPT !.result = @ \cup w.now[i.var]]

\* Mutation: one of the joined states replaces the others.
LastState(states) == CHOOSE s \in states : TRUE

Join(states) == [v \in DOMAIN (CHOOSE s \in states : TRUE) |->
                    UNION {s[v] : s \in states}]

\* Every target of a call is applied to the state before the call and the
\* exits are joined; the bindings of an exit replace those of the caller.  A
\* call under an if is joined with the state before it.
FlowResume(w, summary, wide, recursive) ==
    LET i == Statement(w)
        entry == Project(w.now, FlowTarget(w))
        Mapped(names) == Instantiate(entry, wide, names)
        exit == [v \in DOMAIN w.now |->
                    IF v \in DOMAIN entry THEN Mapped(summary.exit[v]) ELSE w.now[v]]
        exits == w.exits \cup {[state |-> exit, result |-> Mapped(summary.result)]}
        result == UNION {x.result : x \in exits}
        then == [v \in DOMAIN w.now |->
                    IF v = i.dest THEN result
                    ELSE Join({x.state : x \in exits})[v]]
        called == [w EXCEPT !.mutated = @ \cup Mapped(summary.mutated)]
    IN  IF w.target < Len(i.targets)
          THEN [called EXCEPT !.target = @ + 1, !.exits = exits]
          ELSE [called EXCEPT !.at = @ + 1, !.target = 1, !.exits = {},
                              !.now = IF i.maybe THEN Join({then, w.now}) ELSE then]

FlowOutcome(w) == [exit |-> w.now, result |-> w.result, mutated |-> w.mutated]

\* A back edge is given the entry as its exit and an ambient result.
ProvisionalSummary(k) == [exit |-> k.entry, result |-> {Ambient}, mutated |-> {}]
=============================================================================
