-------------------------- MODULE RulesetReference --------------------------
(***************************************************************************)
(* What a reference means, without the stack and the memory of the loader: *)
(* the definitions in all rulesets that its references lead to.            *)
(***************************************************************************)
EXTENDS RulesetLoader, Reachability

KindIn(e, x) ==
    IF x.kind # "definition" THEN x.kind
    ELSE IF Resolve(e).rule # NoName /\ HasOverrides(e) THEN "override"
    ELSE "inherited"

\* Frames in which nothing was looked at.
Expansions ==
    [loc : DOMAIN Source, rule : Name \cup {NoName}, excluded : SUBSET Name,
     override : Item \cup {NoElement}, kind : {"definition", "inherited", "override"},
     at : {1}, found : {FALSE}]

ElementsOf(l) == {Source[l][i] : i \in DOMAIN Source[l]}

Wants(x, e) == e.form = "class" /\ e.name \notin x.excluded /\ x.rule \in {NoName, e.name}
Follows(wanted, e) == e.form = "ref" /\ ~ Filtered(e, wanted)
Readable(e) == Resolve(e).base \in DOMAIN Source

Defined(e, x) == Candidate(e, RefOverride(e, x), x.kind)
Own(x) == {Defined(e, x) : e \in {d \in ElementsOf(x.loc) : Wants(x, d)}}

References(l, wanted) == {e \in ElementsOf(l) : Follows(wanted, e) /\ Readable(e)}
Following(x) == {Expansion(e, x, KindIn(e, x)) : e \in References(x.loc, x.rule)}

\* All candidates behind an expansion.
Unfolding(x) == Closure([y \in Expansions |-> Following(y)], x)
Unfold(x) == UNION {Own(y) : y \in Unfolding(x)}

Meaning(s) == Unfold(Outermost(spec[s]))
Eligible(c) == c.class \in Implemented /\ WithinPriority(c.priority)
Kept(s) == {c \in Meaning(s) : Selects(c.name) /\ Eligible(c)}
Anonymous(c) == [c EXCEPT !.kind = "any"]

\* References as pairs of a location and the rule wanted of it.
Nodes == (DOMAIN Source) \X (Name \cup {NoName})
Target(e, wanted) ==
    <<Resolve(e).base, IF Resolve(e).rule # NoName THEN Resolve(e).rule ELSE wanted>>
Targets(n) == {Target(e, n[2]) : e \in References(n[1], n[2])}
Follow(n) == Closure([m \in Nodes |-> Targets(m)], n)

Cyclic(l) ==
    \E n \in Follow(<<l, NoName>>) :
        \E m \in Targets(n) : \E p \in Follow(m) : p[1] = n[1]

Expanded == status \in {"merging", "loaded", "conflict"}

\* What was expanded before may be skipped without losing a rule: the rules of
\* a location, their kinds aside, are those its references unfold to.
MemoTransparent ==
    Expanded =>
        \A s \in DOMAIN spec :
            {Anonymous(candidates[s][i]) : i \in DOMAIN candidates[s]}
                = {Anonymous(c) : c \in Kept(s)}

\* A cycle is reported when there is one, even when part of it was expanded
\* before, and only then.
CyclesReported ==
    /\ status = "cyclic" => Cyclic(spec[part])
    /\ Expanded => \A s \in DOMAIN spec : ~ Cyclic(spec[s])

\* The references of a location to one rule, and what they lead to.
Single(l) == {i \in DOMAIN Source[l] :
                 Source[l][i].form = "ref" /\ Resolve(Source[l][i]).rule # NoName}
Found(l, i) == Unfold(Expansion(Source[l][i], Outermost(l), "inherited")) # {}

\* A single rule is reported unknown if its reference unfolds to nothing; that
\* the filters drop it does not make it unknown.
UnknownReported ==
    /\ status = "unknown" => ~ Found(frames[1].loc, frames[1].at)
    /\ Expanded => \A s \in DOMAIN spec : \A i \in Single(spec[s]) : Found(spec[s], i)

\* A name given to the filters is reported as unmatched exactly if no rule of
\* that name could have been loaded, though rejected rules are never built.
UnmatchedExact ==
    Expanded => loaded = {c.name : c \in {d \in UNION {Meaning(s) : s \in DOMAIN spec} :
                                            Eligible(d)}}

\* "An explicit single-rule override wins over an inherited rule regardless of
\* declaration order."
OverrideWins ==
    status = "loaded" =>
        LET explicit == {c \in UNION {Kept(s) : s \in DOMAIN spec} : c.kind = "override"}
        IN  \A c \in explicit :
                \E d \in explicit : SameDefinition(d, selected[c.name].candidate)
=============================================================================
