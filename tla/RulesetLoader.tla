---------------------------- MODULE RulesetLoader ----------------------------
(***************************************************************************)
(* One Loader.Load of messgo: the parts of a ruleset specification are     *)
(* expanded one after the other, following <rule ref="..."> elements       *)
(* depth first, and the candidates they yield are merged so that every     *)
(* rule name is run once.                                                  *)
(*                                                                         *)
(* A location is a ruleset file or a built-in ruleset, canonical.  An      *)
(* element is a class definition, a reference or neither.  Of a rule's     *)
(* metadata its class, priority and properties are kept.                   *)
(***************************************************************************)
EXTENDS Naturals, Sequences, FiniteSets

CONSTANTS
    Name,           \* the names of rules
    Item,           \* the elements of rulesets
    Source,         \* Source[l]: the elements of the readable ruleset l
    BuiltinOrder,   \* the built-in rulesets, sorted by name
    Specs,          \* specifications: sequences of locations
    Selections,     \* name filters and priority bounds of a Loader
    Implemented,    \* the classes with a constructor
    Configures(_,_),\* the class accepts these properties
    NoBase,         \* no location
    NoName,         \* no rule name
    NoElement       \* no element

ASSUME SourceAssumption ==
    /\ NoBase \notin DOMAIN Source
    /\ \A l \in DOMAIN Source : Source[l] \in Seq(Item)

ASSUME ItemAssumption ==
    \A e \in Item :
        /\ e.form = "class" => e.name \in Name
        /\ e.form = "ref" => e.rule \in Name \cup {NoName} /\ e.exclude \subseteq Name

ASSUME SpecsAssumption == \A s \in Specs : s \in Seq({s[i] : i \in DOMAIN s})

ASSUME FiniteAssumption ==
    IsFiniteSet(Name) /\ IsFiniteSet(Item) /\ IsFiniteSet(DOMAIN Source)

VARIABLES
    spec,       \* the locations asked for
    selection,  \* the filters
    status,     \* loading, merging, loaded, or the error Load returned
    part,       \* how many locations of spec were begun
    frames,     \* the expansions under way, outermost first
    expanded,   \* for every finished expansion, whether it found a rule
    candidates, \* for every location begun, the rules it yields
    loaded,     \* rule names that survived the priority bounds
    merged,     \* the slots of candidates that were merged
    selected    \* the winner of every rule name and the slot it runs at

vars == <<spec, selection, status, part, frames, expanded, candidates, loaded,
          merged, selected>>

-----------------------------------------------------------------------------
(* References *)

Nothing == [x \in {} |-> x]

\* f, defined at x as y as well.
With(f, x, y) == [z \in DOMAIN f \cup {x} |-> IF z = x THEN y ELSE f[z]]

Defines(l, name) ==
    \E i \in DOMAIN Source[l] : Source[l][i].form = "class" /\ Source[l][i].name = name

\* The first built-in ruleset that defines a rule itself.
Owners(name) == {i \in DOMAIN BuiltinOrder : Defines(BuiltinOrder[i], name)}
Owner(name) == BuiltinOrder[CHOOSE i \in Owners(name) : \A j \in Owners(name) : i <= j]

\* What a reference names: a ruleset, a rule of it, or a bare built-in rule.
Resolve(e) ==
    IF e.base \in DOMAIN Source THEN [base |-> e.base, rule |-> e.rule]
    ELSE IF e.base = NoBase /\ Owners(e.rule) # {}
      THEN [base |-> Owner(e.rule), rule |-> e.rule]
    ELSE [base |-> NoBase, rule |-> NoName]

\* A search for one rule leaves out references to another.
Filtered(e, wanted) == wanted # NoName /\ Resolve(e).rule \notin {NoName, wanted}

HasOverrides(e) == e.priority # 0 \/ DOMAIN e.props # {} \/ e.exclude # {}

\* The element that gives a rule found in a frame its priority and properties.
RefOverride(e, f) == IF f.rule # NoName THEN f.override ELSE e

\* The expansion of the reference e of the frame f, as the frame to push.
Expansion(e, f, kind) ==
    LET r == Resolve(e)
    IN  [loc |-> r.base,
         rule |-> IF r.rule # NoName THEN r.rule ELSE f.rule,
         excluded |-> f.excluded \cup e.exclude,
         override |-> RefOverride(e, f),
         kind |-> kind,
         at |-> 1,
         found |-> FALSE]

\* Mutation: an expansion with exclusions counts for one with others.
KeyOfRule(f) == <<f.loc, f.rule>>

\* The key under which an expansion is remembered.
Key(f) ==
    [loc |-> f.loc, rule |-> f.rule, excluded |-> f.excluded,
     overrides |-> IF f.rule = NoName THEN Nothing
                   ELSE [priority |-> f.override.priority, props |-> f.override.props]]

\* The frame of a location that is asked for itself.
Outermost(l) ==
    [loc |-> l, rule |-> NoName, excluded |-> {}, override |-> NoElement,
     kind |-> "definition", at |-> 1, found |-> FALSE]

-----------------------------------------------------------------------------
(* Candidates *)

Selects(name) ==
    /\ selection.enable # {} => name \in selection.enable
    /\ name \notin selection.disable

\* Bounds of 0 are no bounds; a larger priority is a less important rule.
WithinPriority(p) ==
    /\ selection.min > 0 => p <= selection.min
    /\ selection.max > 0 => p >= selection.max

EffectivePriority(def, ov) ==
    IF ov.priority # 0 THEN ov.priority
    ELSE IF def.priority # 0 THEN def.priority
    ELSE 3

MergeProps(base, override) ==
    [p \in DOMAIN base \cup DOMAIN override |->
        IF p \in DOMAIN override THEN override[p] ELSE base[p]]

Candidate(def, ov, kind) ==
    [name |-> def.name, class |-> def.class, kind |-> kind,
     priority |-> EffectivePriority(def, ov), props |-> MergeProps(def.props, ov.props)]

\* The same rule as far as a run can tell, whatever its kind.
SameDefinition(c, d) ==
    c.name = d.name /\ c.class = d.class /\ c.priority = d.priority /\ c.props = d.props

-----------------------------------------------------------------------------
Init ==
    /\ spec \in Specs
    /\ selection \in Selections
    /\ status = "loading" /\ part = 0
    /\ frames = <<>> /\ expanded = Nothing
    /\ candidates = <<>> /\ loaded = {}
    /\ merged = {} /\ selected = Nothing

Frame == frames[Len(frames)]
Elements == Source[Frame.loc]
Element == Elements[Frame.at]

\* Mutations: only direct cycles count; a location is active once and for all.
InnermostActive == {Frame.loc}
EverActive == {frames[i].loc : i \in DOMAIN frames} \cup {k.loc : k \in DOMAIN expanded}

\* The locations being expanded.
Active == {frames[i].loc : i \in DOMAIN frames}

\* The frame on top has another element to look at.
Expanding == status = "loading" /\ frames # <<>> /\ Frame.at <= Len(Elements)

\* Mutations: an element is passed twice; the last element decides what was
\* found; only elements that were found are passed.
PassedTwice(f, found) == [f EXCEPT !.at = @ + 2, !.found = @ \/ found]
PassedLast(f, found) == [f EXCEPT !.at = @ + 1, !.found = found]
PassedFound(f, found) == [f EXCEPT !.at = IF found THEN @ + 1 ELSE @, !.found = @ \/ found]

\* The frame f is done with one element.
Passed(f, found) == [f EXCEPT !.at = @ + 1, !.found = @ \/ found]

\* The innermost expansion of the stack is done with one element.
Advanced(stack, found) == [stack EXCEPT ![Len(stack)] = Passed(@, found)]

\* Load returns an error and no rulesets.
Fail(error) ==
    /\ status' = error
    /\ UNCHANGED <<part, frames, expanded, candidates, loaded>>

\* The next location of the specification, with nothing expanded yet.
Open ==
    /\ status = "loading"
    /\ frames = <<>>
    /\ part < Len(spec)
    /\ LET l == spec[part + 1]
       IN  \/ l \notin DOMAIN Source /\ Fail("unreadable")
           \/ /\ l \in DOMAIN Source
              /\ part' = part + 1
              /\ frames' = <<Outermost(l)>>
              /\ expanded' = Nothing
              /\ candidates' = With(candidates, part', <<>>)
              /\ UNCHANGED <<status, loaded>>
    /\ UNCHANGED <<spec, selection, merged, selected>>

\* An element that names no rule, or a rule nobody asks for here.
SkipElement ==
    /\ Expanding
    /\ \/ Element.form = "none"
       \/ /\ Element.form = "class"
          /\ Element.name \in Frame.excluded \/ Frame.rule \notin {NoName, Element.name}
       \/ Element.form = "ref" /\ Filtered(Element, Frame.rule)
    /\ frames' = Advanced(frames, FALSE)
    /\ UNCHANGED <<spec, selection, status, part, expanded, candidates, loaded,
                   merged, selected>>

Wanted ==
    /\ Expanding
    /\ Element.form = "class"
    /\ Element.name \notin Frame.excluded
    /\ Frame.rule \in {NoName, Element.name}

\* Mutation: a rejected name counts as loaded whatever its priority.
RejectUnbounded ==
    /\ Wanted
    /\ ~ Selects(Element.name)
    /\ loaded' = loaded \cup {Element.name}
    /\ frames' = Advanced(frames, TRUE)
    /\ UNCHANGED <<spec, selection, status, part, expanded, candidates, merged, selected>>

\* The name filters reject a definition: the rule is not constructed, but its
\* name counts as loaded if it could have been.
RejectDefinition ==
    /\ Wanted
    /\ ~ Selects(Element.name)
    /\ LET ov == RefOverride(Element, Frame)
       IN  loaded' = IF /\ Element.class \in Implemented
                        /\ WithinPriority(EffectivePriority(Element, ov))
                       THEN loaded \cup {Element.name}
                       ELSE loaded
    /\ frames' = Advanced(frames, TRUE)
    /\ UNCHANGED <<spec, selection, status, part, expanded, candidates, merged, selected>>

\* A definition is built, unless its class is unknown, its properties are
\* invalid or its priority is out of bounds.
BuildDefinition ==
    /\ Wanted
    /\ Selects(Element.name)
    /\ LET c == Candidate(Element, RefOverride(Element, Frame), Frame.kind)
       IN  \/ /\ c.class \notin Implemented
              /\ frames' = Advanced(frames, TRUE)
              /\ UNCHANGED <<status, part, expanded, candidates, loaded>>
           \/ /\ c.class \in Implemented
              /\ ~ Configures(c.class, c.props)
              /\ Fail("configure")
           \/ /\ c.class \in Implemented
              /\ Configures(c.class, c.props)
              /\ frames' = Advanced(frames, TRUE)
              /\ IF WithinPriority(c.priority)
                   THEN /\ loaded' = loaded \cup {c.name}
                        /\ candidates' = [candidates EXCEPT ![part] = Append(@, c)]
                   ELSE UNCHANGED <<loaded, candidates>>
              /\ UNCHANGED <<status, part, expanded>>
    /\ UNCHANGED <<spec, selection, merged, selected>>

\* The kind of the candidates behind a reference: only a reference of the
\* location asked for itself overrides.
ReferenceKind ==
    IF Len(frames) > 1 THEN Frame.kind
    ELSE IF Resolve(Element).rule # NoName /\ HasOverrides(Element) THEN "override"
    ELSE "inherited"

\* A single rule that the location asked for itself names must exist.
Unknown(stack, found) ==
    /\ Len(stack) = 1
    /\ Resolve(Source[stack[1].loc][stack[1].at]).rule # NoName
    /\ ~ found

\* A reference is expanded: its source is read, must not be under expansion,
\* and is only gone through if it was not before.
Reference ==
    /\ Expanding
    /\ Element.form = "ref"
    /\ ~ Filtered(Element, Frame.rule)
    /\ LET x == Expansion(Element, Frame, ReferenceKind)
       IN  \/ x.loc \notin DOMAIN Source /\ Fail("unreadable")
           \/ x.loc \in (DOMAIN Source) \cap Active /\ Fail("cyclic")
           \/ /\ x.loc \in (DOMAIN Source) \ Active
              /\ Key(x) \notin DOMAIN expanded
              /\ frames' = Append(frames, x)
              /\ UNCHANGED <<status, part, expanded, candidates, loaded>>
           \/ /\ x.loc \in (DOMAIN Source) \ Active
              /\ Key(x) \in DOMAIN expanded
              /\ IF Unknown(frames, expanded[Key(x)])
                   THEN Fail("unknown")
                   ELSE /\ frames' = Advanced(frames, expanded[Key(x)])
                        /\ UNCHANGED <<status, part, expanded, candidates, loaded>>
    /\ UNCHANGED <<spec, selection, merged, selected>>

\* A source was gone through: the expansion is remembered and what it found
\* goes to the reference below.
Return ==
    /\ status = "loading"
    /\ Len(frames) > 1
    /\ Frame.at > Len(Elements)
    /\ LET below == SubSeq(frames, 1, Len(frames) - 1)
       IN  IF Unknown(below, Frame.found)
             THEN Fail("unknown")
             ELSE /\ frames' = Advanced(below, Frame.found)
                  /\ expanded' = With(expanded, Key(Frame), Frame.found)
                  /\ UNCHANGED <<status, part, candidates, loaded>>
    /\ UNCHANGED <<spec, selection, merged, selected>>

\* A location is done; after the last one the candidates are merged.
Close ==
    /\ status = "loading"
    /\ Len(frames) = 1
    /\ Frame.at > Len(Elements)
    /\ frames' = <<>>
    /\ status' = IF part = Len(spec) THEN "merging" ELSE "loading"
    /\ UNCHANGED <<spec, selection, part, expanded, candidates, loaded, merged, selected>>

-----------------------------------------------------------------------------
(* Merging *)

Slots == UNION {{<<s, i>> : i \in DOMAIN candidates[s]} : s \in DOMAIN candidates}

Before(t, u) == t[1] < u[1] \/ (t[1] = u[1] /\ t[2] < u[2])

At(slot) == candidates[slot[1]][slot[2]]

\* What mergeCandidates does with an incoming candidate of a known name.
Conflict(existing, incoming) ==
    /\ ~ SameDefinition(existing, incoming)
    /\ existing.kind = incoming.kind
    /\ existing.kind \in {"override", "definition"}

\* Mutation: an override only wins over an inherited rule.
ReplacesInherited(incoming, existing) ==
    /\ ~ SameDefinition(existing, incoming)
    /\ existing.kind = "inherited"
    /\ incoming.kind = "override"

Replaces(incoming, existing) ==
    /\ ~ SameDefinition(existing, incoming)
    /\ existing.kind # "override"
    /\ incoming.kind = "override"

\* The next candidate in declaration order is merged into the selection; a
\* winner runs at the slot of the first candidate of its name.
Merge(slot) ==
    /\ status = "merging"
    /\ slot \in Slots \ merged
    /\ \A t \in Slots \ merged : t = slot \/ Before(slot, t)
    /\ merged' = merged \cup {slot}
    /\ LET c == At(slot)
       IN  \/ /\ c.name \notin DOMAIN selected
              /\ selected' = With(selected, c.name, [slot |-> slot, candidate |-> c])
              /\ UNCHANGED status
           \/ /\ c.name \in DOMAIN selected
              /\ LET w == selected[c.name]
                 IN  /\ status' = IF Conflict(w.candidate, c) THEN "conflict" ELSE status
                     /\ selected' = IF Replaces(c, w.candidate)
                                      THEN With(selected, c.name, [slot |-> w.slot, candidate |-> c])
                                      ELSE selected
    /\ UNCHANGED <<spec, selection, part, frames, expanded, candidates, loaded>>

\* All candidates are merged: Load returns the winners at their slots.
Finish ==
    /\ status = "merging"
    /\ merged = Slots
    /\ status' = "loaded"
    /\ UNCHANGED <<spec, selection, part, frames, expanded, candidates, loaded, merged,
                   selected>>

Next ==
    \/ Open \/ SkipElement \/ RejectDefinition \/ BuildDefinition
    \/ Reference \/ Return \/ Close
    \/ \E slot \in Slots : Merge(slot)
    \/ Finish

Spec == Init /\ [][Next]_vars

\* Load is one call in one goroutine and goes on until it returns.
FairSpec == Spec /\ WF_vars(Next)
-----------------------------------------------------------------------------
(* Properties *)

Errors == {"unreadable", "cyclic", "unknown", "configure", "conflict"}

FrameType ==
    [loc : DOMAIN Source, rule : Name \cup {NoName}, excluded : SUBSET Name,
     override : Item \cup {NoElement}, kind : {"definition", "inherited", "override"},
     at : Nat, found : BOOLEAN]

\* Frames stand in readable rulesets, there is one list of candidates for
\* every location begun, and nothing is merged before everything is expanded.
TypeOK ==
    /\ status \in {"loading", "merging", "loaded"} \cup Errors
    /\ part \in Nat
    /\ frames \in Seq(FrameType)
    /\ \A i \in DOMAIN frames :
          /\ frames[i].at \in 1 .. Len(Source[frames[i].loc]) + 1
          /\ i < Len(frames) => frames[i].at <= Len(Source[frames[i].loc])
    /\ DOMAIN candidates = 1 .. part
    /\ \A k \in DOMAIN expanded : expanded[k] \in BOOLEAN
    /\ status = "loading" => merged = {} /\ DOMAIN selected = {}
    /\ merged \subseteq Slots
    /\ \A n \in DOMAIN selected : selected[n].slot \in merged

\* Shared references are neither followed in circles nor gone through twice:
\* no ruleset is expanded inside its own expansion, whatever rule of it is
\* asked for, and nothing under expansion is remembered as finished.
ExpandedOnce ==
    /\ \A i, j \in DOMAIN frames : i # j => frames[i].loc # frames[j].loc
    /\ \A i \in DOMAIN frames : Key(frames[i]) \notin DOMAIN expanded

\* The winner of a name runs where the first candidate of the name stood and is
\* one of its candidates; when some candidate is an explicit override, the
\* winner is what an override says, whatever the order of the declarations.
Winners ==
    \A n \in DOMAIN selected :
        LET mine == {t \in merged : At(t).name = n}
            overrides == {t \in mine : At(t).kind = "override"}
        IN  /\ \A t \in mine : t = selected[n].slot \/ Before(selected[n].slot, t)
            /\ \E t \in mine : At(t) = selected[n].candidate
            /\ status # "conflict" /\ overrides # {} =>
                  \E t \in overrides : SameDefinition(At(t), selected[n].candidate)

\* "Distinct direct definitions are rejected instead of silently selecting one."
DefinitionsRejected ==
    status = "loaded" =>
        \A t, u \in Slots :
            /\ At(t).name = At(u).name
            /\ At(t).kind = "definition" /\ At(u).kind = "definition"
            => SameDefinition(At(t), At(u))

\* Load returns, cyclic references or not.
Returns == <>(status \in {"loaded"} \cup Errors)
=============================================================================
