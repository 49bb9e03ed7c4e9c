------------------------ MODULE RulesetReference_proof ------------------------
(***************************************************************************)
(* Theorems about every load, whatever the rulesets, specifications and    *)
(* filters: it is well typed, it never expands a ruleset inside itself or  *)
(* anything twice, an override wins over what it overrides, and what it    *)
(* reports is what its references mean: no rule is lost to the memory of   *)
(* the loader, and cycles, unknown rules and unmatched names are reported  *)
(* exactly.                                                                *)
(***************************************************************************)
EXTENDS RulesetReference, Induction_proof, SequenceTheorems

-----------------------------------------------------------------------------
(* The loader *)

SameExpansion(f, g) == f.loc = g.loc /\ Key(f) = Key(g)

\* The last element of a sequence, and the elements of one that grew.
LEMMA LastElement ==
    ASSUME NEW T, NEW s \in Seq(T), s # <<>>
    PROVE  /\ Len(s) \in Nat \ {0} /\ DOMAIN s = 1 .. Len(s)
           /\ Len(s) \in DOMAIN s /\ 1 \in DOMAIN s
           /\ \A i \in DOMAIN s : s[i] \in T
OBVIOUS

LEMMA AppendElements ==
    \A s \in Seq(FrameType), x \in FrameType :
        LET t == Append(s, x)
        IN  /\ t # <<>> /\ DOMAIN t = 1 .. Len(s) + 1
            /\ t[Len(s) + 1] = x
            /\ \A i \in 1 .. Len(s) : t[i] = s[i]
OBVIOUS

\* A frame that passed an element is the same expansion, one element further.
LEMMA PassedFacts ==
    ASSUME NEW f \in FrameType, NEW found \in BOOLEAN
    PROVE  /\ Passed(f, found) \in FrameType
           /\ Passed(f, found).at = f.at + 1
           /\ SameExpansion(Passed(f, found), f)
<1>1. f.found \in BOOLEAN /\ f.at \in Nat
  BY DEF FrameType
<1>2. PICK b \in BOOLEAN : b = (f.found \/ found)
  BY <1>1
<1>3. PICK n \in Nat : n = f.at + 1
  BY <1>1
<1>4. PICK g : g = [f EXCEPT !.at = n, !.found = b]
  OBVIOUS
<1>5. Passed(f, found) = g
  BY <1>2, <1>3, <1>4, Zenon DEF Passed
<1>6. /\ g \in FrameType
      /\ g.at = n /\ g.loc = f.loc /\ g.rule = f.rule
      /\ g.excluded = f.excluded /\ g.override = f.override
  BY <1>4 DEF FrameType
<1> QED BY <1>3, <1>5, <1>6 DEF SameExpansion, Key

\* A stack that advanced holds the same expansions, one element further.
LEMMA AdvancedFacts ==
    ASSUME NEW stack \in Seq(FrameType), stack # <<>>, NEW found \in BOOLEAN
    PROVE  LET next == Advanced(stack, found)
           IN  /\ next \in Seq(FrameType)
               /\ Len(next) = Len(stack)
               /\ \A i \in DOMAIN stack :
                     /\ SameExpansion(next[i], stack[i])
                     /\ i # Len(stack) => next[i] = stack[i]
               /\ next[Len(stack)].at = stack[Len(stack)].at + 1
<1> DEFINE next == Advanced(stack, found)
           n == Len(stack)
<1>1. n \in DOMAIN stack /\ n \in Nat \ {0} /\ stack[n] \in FrameType
  OBVIOUS
<1>2. next = [stack EXCEPT ![n] = Passed(stack[n], found)]
  BY <1>1 DEF Advanced
<1>3. Passed(stack[n], found) \in FrameType /\ SameExpansion(Passed(stack[n], found), stack[n])
      /\ Passed(stack[n], found).at = stack[n].at + 1
  BY <1>1, PassedFacts
<1>4. next \in Seq(FrameType) /\ Len(next) = n /\ DOMAIN next = DOMAIN stack
  BY <1>1, <1>2, <1>3
<1>5. \A i \in DOMAIN stack : i # n => next[i] = stack[i]
  BY <1>1, <1>2
<1>6. next[n] = Passed(stack[n], found)
  BY <1>1, <1>2
<1>7. \A i \in DOMAIN stack : SameExpansion(next[i], stack[i])
  BY <1>3, <1>5, <1>6 DEF SameExpansion
<1> HIDE DEF next
<1> QED BY <1>1, <1>3, <1>4, <1>5, <1>6, <1>7 DEF next, SameExpansion

\* The frame on top and the element it looks at.
LEMMA FrameFacts ==
    ASSUME TypeOK, frames # <<>>
    PROVE  /\ Len(frames) \in DOMAIN frames
           /\ Len(frames) \in Nat \ {0}
           /\ Frame \in FrameType
           /\ Frame.loc \in DOMAIN Source
           /\ Frame.at \in 1 .. Len(Elements) + 1
           /\ Len(Elements) \in Nat
           /\ Frame.at <= Len(Elements) => Element \in Item
<1>1. /\ frames \in Seq(FrameType)
      /\ \A i \in DOMAIN frames : frames[i].at \in 1 .. Len(Source[frames[i].loc]) + 1
  BY DEF TypeOK
<1>2. Len(frames) \in DOMAIN frames /\ Len(frames) \in Nat \ {0} /\ Frame \in FrameType
  BY <1>1 DEF Frame
<1>3. Frame.loc \in DOMAIN Source /\ Frame.at \in 1 .. Len(Elements) + 1
  BY <1>1, <1>2 DEF Frame, Elements, FrameType
<1>4. Elements \in Seq(Item)
  BY <1>3, SourceAssumption DEF Elements
<1> QED BY <1>2, <1>3, <1>4 DEF Element

\* Where every frame of a stack stands.
Standing(stack) ==
    \A i \in DOMAIN stack :
        /\ stack[i].at \in 1 .. Len(Source[stack[i].loc]) + 1
        /\ i < Len(stack) => stack[i].at <= Len(Source[stack[i].loc])

\* A step of the expansion is well typed if what it changes is.
LEMMA LoadingTypes ==
    ASSUME TypeOK, status = "loading", UNCHANGED <<merged, selected>>,
           status' \in {"loading", "merging"} \cup Errors, part' \in Nat,
           frames' \in Seq(FrameType), Standing(frames)',
           DOMAIN candidates' = 1 .. part',
           \A k \in DOMAIN expanded' : expanded'[k] \in BOOLEAN
    PROVE  TypeOK'
<1>1. merged' = {} /\ DOMAIN selected' = {}
  BY DEF TypeOK
<1> QED BY <1>1 DEF TypeOK, Standing

\* A failing load changes nothing but its status.
LEMMA FailKeeps ==
    ASSUME TypeOK, ExpandedOnce, status = "loading", UNCHANGED <<merged, selected>>,
           NEW error \in Errors, Fail(error)
    PROVE  TypeOK' /\ ExpandedOnce'
<1>1. /\ status' \in Errors
      /\ UNCHANGED <<part, frames, expanded, candidates, loaded>>
  BY DEF Fail
<1>2. ExpandedOnce'
  BY <1>1 DEF ExpandedOnce
<1>3. Standing(frames)' /\ frames' \in Seq(FrameType) /\ part' \in Nat
      /\ DOMAIN candidates' = 1 .. part'
      /\ \A k \in DOMAIN expanded' : expanded'[k] \in BOOLEAN
  BY <1>1 DEF TypeOK, Standing
<1> QED BY <1>1, <1>2, <1>3, LoadingTypes

\* Advancing the innermost expansion of a stack keeps the stack well formed.
LEMMA AdvanceKeeps ==
    ASSUME NEW stack \in Seq(FrameType), stack # <<>>, Standing(stack),
           stack[Len(stack)].at <= Len(Source[stack[Len(stack)].loc]),
           NEW found \in BOOLEAN, frames' = Advanced(stack, found)
    PROVE  /\ frames' \in Seq(FrameType)
           /\ DOMAIN frames' = DOMAIN stack
           /\ Standing(frames)'
           /\ \A i \in DOMAIN stack : SameExpansion(frames'[i], stack[i])
<1> DEFINE n == Len(stack)
<1>1. /\ frames' \in Seq(FrameType)
      /\ Len(frames') = Len(stack)
      /\ \A i \in DOMAIN stack :
            /\ SameExpansion(frames'[i], stack[i])
            /\ i # Len(stack) => frames'[i] = stack[i]
      /\ frames'[Len(stack)].at = stack[Len(stack)].at + 1
  BY AdvancedFacts
<1>2. DOMAIN frames' = DOMAIN stack /\ n \in DOMAIN stack /\ n \in Nat
  BY <1>1
<1>8. stack[n] \in FrameType
  BY <1>2
<1>3. stack[n].loc \in DOMAIN Source
  BY <1>8 DEF FrameType
<1>4. Len(Source[stack[n].loc]) \in Nat
  BY <1>3, SourceAssumption
<1>5. frames'[n].at \in 1 .. Len(Source[frames'[n].loc]) + 1
  BY <1>1, <1>2, <1>4 DEF SameExpansion, Standing
<1>6. \A i \in DOMAIN frames' : i # n => frames'[i] = stack[i]
  BY <1>1, <1>2
<1>7. Standing(frames)'
  BY <1>1, <1>2, <1>5, <1>6 DEF Standing
<1> QED BY <1>1, <1>2, <1>7

\* An expansion that passes an element keeps the invariants.
LEMMA PassKeeps ==
    ASSUME TypeOK, ExpandedOnce, Expanding, NEW found \in BOOLEAN,
           frames' = Advanced(frames, found), expanded' = expanded
    PROVE  /\ frames' \in Seq(FrameType)
           /\ Standing(frames)'
           /\ ExpandedOnce'
<1>1. frames \in Seq(FrameType) /\ frames # <<>> /\ Standing(frames)
  BY DEF TypeOK, Expanding, Standing
<1>2. frames[Len(frames)].at <= Len(Source[frames[Len(frames)].loc])
  BY DEF Expanding, Frame, Elements
<1>3. /\ frames' \in Seq(FrameType)
      /\ DOMAIN frames' = DOMAIN frames
      /\ Standing(frames)'
      /\ \A i \in DOMAIN frames : SameExpansion(frames'[i], frames[i])
  BY <1>1, <1>2, AdvanceKeeps
<1>4. ExpandedOnce'
  BY <1>3 DEF ExpandedOnce, SameExpansion
<1> QED BY <1>3, <1>4

\* Candidates are collected in well-typed frames only.
LEMMA ExpansionType ==
    ASSUME TypeOK, Expanding, Element.form = "ref",
           Expansion(Element, Frame, ReferenceKind).loc \in DOMAIN Source
    PROVE  /\ Expansion(Element, Frame, ReferenceKind) \in FrameType
           /\ Expansion(Element, Frame, ReferenceKind).at = 1
<1> DEFINE x == Expansion(Element, Frame, ReferenceKind)
           r == Resolve(Element)
<1>1. Frame \in FrameType /\ Element \in Item
  BY FrameFacts DEF Expanding
<1>2. Element.rule \in Name \cup {NoName} /\ Element.exclude \subseteq Name
  BY <1>1, ItemAssumption
<1>3. r.rule = NoName \/ r.rule = Element.rule
  BY DEF Resolve
<1>4. RefOverride(Element, Frame) \in Item \cup {NoElement}
  BY <1>1 DEF RefOverride, FrameType
<1>5. ReferenceKind \in {"definition", "inherited", "override"}
  BY <1>1 DEF ReferenceKind, FrameType
<1>6. IF r.rule # NoName THEN r.rule \in Name ELSE TRUE
  BY <1>2, <1>3
<1>7. Frame.rule \in Name \cup {NoName} /\ Frame.excluded \subseteq Name
  BY <1>1 DEF FrameType
<1>8. x = [loc |-> r.base,
           rule |-> IF r.rule # NoName THEN r.rule ELSE Frame.rule,
           excluded |-> Frame.excluded \cup Element.exclude,
           override |-> RefOverride(Element, Frame),
           kind |-> ReferenceKind, at |-> 1, found |-> FALSE]
  BY DEF Expansion
<1> HIDE DEF x, r
<1> QED BY <1>2, <1>4, <1>5, <1>6, <1>7, <1>8 DEF x, FrameType

\* The load starts with nothing begun.
LEMMA InitInv == Init => TypeOK /\ ExpandedOnce
<1> SUFFICES ASSUME Init PROVE TypeOK /\ ExpandedOnce
  OBVIOUS
<1>1. frames \in Seq(FrameType) /\ DOMAIN frames = {} /\ DOMAIN candidates = 1 .. 0
  BY DEF Init
<1>2. DOMAIN expanded = {} /\ DOMAIN selected = {}
  BY DEF Init, Nothing
<1> QED BY <1>1, <1>2 DEF Init, TypeOK, ExpandedOnce

\* Opening the next location keeps the invariants.
LEMMA OpenInv == TypeOK /\ ExpandedOnce /\ Open => TypeOK' /\ ExpandedOnce'
<1> SUFFICES ASSUME TypeOK, ExpandedOnce, Open PROVE TypeOK' /\ ExpandedOnce'
  OBVIOUS
<1> DEFINE l == spec[part + 1]
<1>1. status = "loading" /\ UNCHANGED <<merged, selected>>
  BY DEF Open
<1>2. CASE Fail("unreadable")
  BY <1>1, <1>2, FailKeeps DEF Errors
<1>3. CASE /\ l \in DOMAIN Source
           /\ part' = part + 1
           /\ frames' = <<Outermost(l)>>
           /\ expanded' = Nothing
           /\ candidates' = With(candidates, part', <<>>)
           /\ UNCHANGED <<status, loaded>>
  <2>1. Outermost(l) \in FrameType /\ Outermost(l).at = 1 /\ Outermost(l).loc = l
    BY <1>3 DEF Outermost, FrameType
  <2>2. Len(Source[l]) \in Nat
    BY <1>3, SourceAssumption
  <2>3. frames' \in Seq(FrameType) /\ DOMAIN frames' = {1} /\ frames'[1] = Outermost(l)
        /\ Len(frames') = 1
    BY <1>3, <2>1
  <2>4. Standing(frames)'
    BY <2>1, <2>2, <2>3 DEF Standing
  <2>5. DOMAIN expanded' = {}
    BY <1>3 DEF Nothing
  <2>6. ExpandedOnce'
    BY <2>3, <2>5 DEF ExpandedOnce
  <2>7. part' \in Nat /\ DOMAIN candidates' = 1 .. part'
    BY <1>3 DEF TypeOK, With
  <2> QED BY <1>1, <1>3, <2>3, <2>4, <2>5, <2>6, <2>7, LoadingTypes
<1> QED BY <1>2, <1>3 DEF Open

\* An element that yields nothing keeps the invariants.
LEMMA SkipInv == TypeOK /\ ExpandedOnce /\ SkipElement => TypeOK' /\ ExpandedOnce'
<1> SUFFICES ASSUME TypeOK, ExpandedOnce, SkipElement PROVE TypeOK' /\ ExpandedOnce'
  OBVIOUS
<1>1. /\ Expanding /\ status = "loading" /\ frames' = Advanced(frames, FALSE)
      /\ UNCHANGED <<status, part, expanded, candidates, merged, selected>>
  BY DEF SkipElement, Expanding
<1>2. frames' \in Seq(FrameType) /\ Standing(frames)' /\ ExpandedOnce'
  BY <1>1, PassKeeps
<1>3. /\ part' \in Nat /\ DOMAIN candidates' = 1 .. part'
      /\ \A k \in DOMAIN expanded' : expanded'[k] \in BOOLEAN
  BY <1>1 DEF TypeOK
<1> QED BY <1>1, <1>2, <1>3, LoadingTypes

\* A rejected definition keeps the invariants.
LEMMA RejectInv == TypeOK /\ ExpandedOnce /\ RejectDefinition => TypeOK' /\ ExpandedOnce'
<1> SUFFICES ASSUME TypeOK, ExpandedOnce, RejectDefinition PROVE TypeOK' /\ ExpandedOnce'
  OBVIOUS
<1>1. /\ Expanding /\ status = "loading" /\ frames' = Advanced(frames, TRUE)
      /\ UNCHANGED <<status, part, expanded, candidates, merged, selected>>
  BY DEF RejectDefinition, Wanted, Expanding
<1>2. frames' \in Seq(FrameType) /\ Standing(frames)' /\ ExpandedOnce'
  BY <1>1, PassKeeps
<1>3. /\ part' \in Nat /\ DOMAIN candidates' = 1 .. part'
      /\ \A k \in DOMAIN expanded' : expanded'[k] \in BOOLEAN
  BY <1>1 DEF TypeOK
<1> QED BY <1>1, <1>2, <1>3, LoadingTypes

\* A definition that is built, dropped or refused keeps the invariants.
LEMMA BuildInv == TypeOK /\ ExpandedOnce /\ BuildDefinition => TypeOK' /\ ExpandedOnce'
<1> SUFFICES ASSUME TypeOK, ExpandedOnce, BuildDefinition PROVE TypeOK' /\ ExpandedOnce'
  OBVIOUS
<1>1. Expanding /\ status = "loading" /\ UNCHANGED <<merged, selected>>
  BY DEF BuildDefinition, Wanted, Expanding
<1>2. CASE Fail("configure")
  BY <1>1, <1>2, FailKeeps DEF Errors
<1>3. CASE /\ frames' = Advanced(frames, TRUE)
           /\ UNCHANGED <<status, part, expanded>>
           /\ DOMAIN candidates' = DOMAIN candidates
  <2>1. frames' \in Seq(FrameType) /\ Standing(frames)' /\ ExpandedOnce'
    BY <1>1, <1>3, PassKeeps
  <2>2. /\ part' \in Nat /\ DOMAIN candidates' = 1 .. part'
        /\ \A k \in DOMAIN expanded' : expanded'[k] \in BOOLEAN
    BY <1>3 DEF TypeOK
  <2> QED BY <1>1, <1>3, <2>1, <2>2, LoadingTypes
<1>4. Fail("configure")
      \/ (/\ frames' = Advanced(frames, TRUE)
          /\ UNCHANGED <<status, part, expanded>>
          /\ DOMAIN candidates' = DOMAIN candidates)
  BY DEF BuildDefinition
<1> QED BY <1>2, <1>3, <1>4

\* Following a reference keeps the invariants: the ruleset it enters is not
\* under expansion, and the expansion is not a finished one.
LEMMA ReferenceInv == TypeOK /\ ExpandedOnce /\ Reference => TypeOK' /\ ExpandedOnce'
<1> SUFFICES ASSUME TypeOK, ExpandedOnce, Reference PROVE TypeOK' /\ ExpandedOnce'
  OBVIOUS
<1> DEFINE x == Expansion(Element, Frame, ReferenceKind)
<1>1. /\ Expanding /\ status = "loading" /\ Element.form = "ref"
      /\ UNCHANGED <<merged, selected>>
  BY DEF Reference, Expanding
<1>2. /\ frames \in Seq(FrameType) /\ Standing(frames) /\ Len(frames) \in Nat
      /\ \A k \in DOMAIN expanded : expanded[k] \in BOOLEAN
      /\ part \in Nat /\ DOMAIN candidates = 1 .. part
  BY DEF TypeOK, Standing
<1>3. CASE \E error \in Errors : Fail(error)
  BY <1>1, <1>3, FailKeeps
<1>4. CASE /\ x.loc \in (DOMAIN Source) \ Active
           /\ Key(x) \notin DOMAIN expanded
           /\ frames' = Append(frames, x)
           /\ UNCHANGED <<status, part, expanded, candidates, loaded>>
  <2>1. x \in FrameType /\ x.at = 1
    BY <1>1, <1>4, ExpansionType
  <2>2. Len(Source[x.loc]) \in Nat
    BY <1>4, SourceAssumption
  <2> HIDE DEF x
  <2> DEFINE n == Len(frames)
  <2>3. /\ frames' \in Seq(FrameType) /\ Len(frames') = n + 1
        /\ DOMAIN frames = 1 .. n /\ DOMAIN frames' = 1 .. n + 1
        /\ \A i \in 1 .. n : frames'[i] = frames[i]
        /\ frames'[n + 1] = x
    BY <1>2, <1>4, <2>1
  <2>4. n # 0 /\ frames[n].at <= Len(Source[frames[n].loc])
    BY <1>1, <1>2 DEF Expanding, Frame, Elements
  <2>5. Standing(frames)'
    <3> SUFFICES ASSUME NEW i \in 1 .. n + 1
                 PROVE  /\ frames'[i].at \in 1 .. Len(Source[frames'[i].loc]) + 1
                        /\ i < n + 1 => frames'[i].at <= Len(Source[frames'[i].loc])
      BY <2>3 DEF Standing
    <3>1. CASE i = n + 1
      BY <1>2, <2>1, <2>2, <2>3, <3>1
    <3>2. CASE i \in 1 .. n
      <4>1. i = n \/ i < n
        BY <1>2, <3>2
      <4> QED BY <1>2, <2>3, <2>4, <3>2, <4>1 DEF Standing
    <3> QED BY <1>2, <3>1, <3>2
  <2>6. \A i \in 1 .. n : frames[i].loc # x.loc
    BY <1>4, <2>3 DEF Active
  <2>7. ExpandedOnce'
    <3>1. ASSUME NEW i \in 1 .. n + 1, NEW j \in 1 .. n + 1, i # j
          PROVE  frames'[i].loc # frames'[j].loc
      <4>1. \/ i \in 1 .. n /\ j \in 1 .. n
            \/ i \in 1 .. n /\ j = n + 1
            \/ i = n + 1 /\ j \in 1 .. n
        BY <1>2, <3>1
      <4> QED BY <2>3, <2>6, <3>1, <4>1 DEF ExpandedOnce
    <3>2. ASSUME NEW i \in 1 .. n + 1
          PROVE  Key(frames'[i]) \notin DOMAIN expanded'
      <4>1. i \in 1 .. n \/ i = n + 1
        BY <1>2
      <4> QED BY <1>4, <2>3, <4>1 DEF ExpandedOnce
    <3> QED BY <2>3, <3>1, <3>2 DEF ExpandedOnce
  <2> QED BY <1>1, <1>2, <1>4, <2>3, <2>5, <2>7, LoadingTypes
<1>5. CASE /\ Key(x) \in DOMAIN expanded
           /\ frames' = Advanced(frames, expanded[Key(x)])
           /\ UNCHANGED <<status, part, expanded, candidates, loaded>>
  <2>1. expanded[Key(x)] \in BOOLEAN
    BY <1>2, <1>5
  <2>2. frames' \in Seq(FrameType) /\ Standing(frames)' /\ ExpandedOnce'
    BY <1>1, <1>5, <2>1, PassKeeps
  <2> QED BY <1>1, <1>2, <1>5, <2>2, LoadingTypes
<1> QED BY <1>3, <1>4, <1>5 DEF Reference, Errors

\* Leaving an expansion keeps the invariants: what is remembered as finished is
\* no longer on the stack.
LEMMA ReturnInv == TypeOK /\ ExpandedOnce /\ Return => TypeOK' /\ ExpandedOnce'
<1> SUFFICES ASSUME TypeOK, ExpandedOnce, Return PROVE TypeOK' /\ ExpandedOnce'
  OBVIOUS
<1> DEFINE n == Len(frames)
           below == SubSeq(frames, 1, n - 1)
<1>1. /\ status = "loading" /\ n > 1 /\ UNCHANGED <<merged, selected>>
      /\ Frame = frames[n]
  BY DEF Return, Frame
<1>2. /\ frames \in Seq(FrameType) /\ Standing(frames) /\ n \in Nat
      /\ \A k \in DOMAIN expanded : expanded[k] \in BOOLEAN
      /\ part \in Nat /\ DOMAIN candidates = 1 .. part
  BY DEF TypeOK, Standing
<1>3. frames[n] \in FrameType
  BY <1>1, <1>2
<1>4. frames[n].found \in BOOLEAN
  BY <1>3 DEF FrameType
<1>5. CASE Fail("unknown")
  BY <1>1, <1>5, FailKeeps DEF Errors
<1>6. CASE /\ frames' = Advanced(below, Frame.found)
           /\ expanded' = With(expanded, Key(Frame), Frame.found)
           /\ UNCHANGED <<status, part, candidates, loaded>>
  <2>1. /\ below \in Seq(FrameType) /\ Len(below) = n - 1 /\ below # <<>>
        /\ DOMAIN below = 1 .. n - 1
        /\ \A i \in 1 .. n - 1 : below[i] = frames[i]
    <3>1. /\ n - 1 \in Int /\ 1 <= n - 1 /\ n - 1 - 1 + 1 = n - 1
          /\ \A i \in 1 .. n - 1 : frames[i] \in FrameType /\ 1 + i - 1 = i
      BY <1>1, <1>2
    <3>2. /\ below \in Seq(FrameType) /\ Len(below) = n - 1 - 1 + 1
          /\ \A i \in 1 .. n - 1 - 1 + 1 : below[i] = frames[1 + i - 1]
      BY <3>1, SubSeqProperties
    <3> HIDE DEF below
    <3>3. \A i \in 1 .. n - 1 : below[i] = frames[i]
      BY <3>1, <3>2
    <3>4. Len(below) = n - 1 /\ DOMAIN below = 1 .. n - 1 /\ below # <<>>
      BY <3>1, <3>2
    <3> QED BY <3>2, <3>3, <3>4
  <2>2. \A i \in 1 .. n - 1 : /\ i \in DOMAIN frames /\ i # n /\ n \in DOMAIN frames
                              /\ below[i].at \in 1 .. Len(Source[below[i].loc]) + 1
                              /\ below[i].at <= Len(Source[below[i].loc])
    BY <1>1, <1>2, <2>1 DEF Standing
  <2>3. Standing(below) /\ below[Len(below)].at <= Len(Source[below[Len(below)].loc])
    <3> HIDE DEF below
    <3>1. n - 1 \in 1 .. n - 1
      BY <1>1, <1>2
    <3> QED BY <2>1, <2>2, <3>1 DEF Standing
  <2> HIDE DEF below
  <2>4. /\ frames' \in Seq(FrameType) /\ DOMAIN frames' = 1 .. n - 1
        /\ Standing(frames)'
        /\ \A i \in 1 .. n - 1 : SameExpansion(frames'[i], frames[i])
    BY <1>1, <1>4, <1>6, <2>1, <2>3, AdvanceKeeps
  <2>5. /\ DOMAIN expanded' = DOMAIN expanded \cup {Key(frames[n])}
        /\ \A k \in DOMAIN expanded' : expanded'[k] \in BOOLEAN
    BY <1>1, <1>2, <1>4, <1>6 DEF With
  <2>6. \A i \in 1 .. n - 1 : Key(frames[i]) # Key(frames[n])
    BY <2>2 DEF ExpandedOnce, Key
  <2>7. ExpandedOnce'
    <3>1. \A i, j \in 1 .. n - 1 : i # j => frames'[i].loc # frames'[j].loc
      BY <2>2, <2>4 DEF ExpandedOnce, SameExpansion
    <3>2. \A i \in 1 .. n - 1 : Key(frames'[i]) = Key(frames[i])
      BY <2>4 DEF SameExpansion
    <3>3. \A i \in 1 .. n - 1 : Key(frames[i]) \notin DOMAIN expanded'
      BY <2>2, <2>5, <2>6 DEF ExpandedOnce
    <3> QED BY <3>1, <3>2, <3>3, <2>4 DEF ExpandedOnce
  <2> QED BY <1>1, <1>2, <1>6, <2>4, <2>5, <2>7, LoadingTypes
<1> QED BY <1>5, <1>6 DEF Return

\* Closing a location keeps the invariants.
LEMMA CloseInv == TypeOK /\ ExpandedOnce /\ Close => TypeOK' /\ ExpandedOnce'
<1> SUFFICES ASSUME TypeOK, ExpandedOnce, Close PROVE TypeOK' /\ ExpandedOnce'
  OBVIOUS
<1>1. /\ status = "loading" /\ frames' = <<>>
      /\ status' \in {"loading", "merging"}
      /\ UNCHANGED <<part, expanded, candidates, merged, selected>>
  BY DEF Close
<1>2. frames' \in Seq(FrameType) /\ DOMAIN frames' = {}
  BY <1>1
<1>3. Standing(frames)' /\ ExpandedOnce'
  BY <1>2 DEF Standing, ExpandedOnce
<1>4. /\ part' \in Nat /\ DOMAIN candidates' = 1 .. part'
      /\ \A k \in DOMAIN expanded' : expanded'[k] \in BOOLEAN
  BY <1>1 DEF TypeOK
<1> QED BY <1>1, <1>2, <1>3, <1>4, LoadingTypes

\* Merging a candidate keeps the invariants.
LEMMA MergeInv ==
    ASSUME TypeOK, ExpandedOnce, NEW slot \in Slots, Merge(slot)
    PROVE  TypeOK' /\ ExpandedOnce'
<1>1. /\ status = "merging" /\ merged' = merged \cup {slot}
      /\ UNCHANGED <<part, frames, expanded, candidates>>
  BY DEF Merge
<1>2. Slots' = Slots
  BY <1>1 DEF Slots
<1>3. status' \in {"merging", "conflict"}
  BY <1>1 DEF Merge
<1>4. merged' \subseteq Slots'
  BY <1>1, <1>2 DEF TypeOK
<1>5. \A n \in DOMAIN selected' : selected'[n].slot \in merged'
  <2> DEFINE c == At(slot)
             w == selected[c.name]
  <2>1. CASE selected' = selected
    BY <1>1, <2>1 DEF TypeOK
  <2>2. CASE selected' = With(selected, c.name, [slot |-> slot, candidate |-> c])
    BY <1>1, <2>2 DEF TypeOK, With
  <2>3. CASE /\ c.name \in DOMAIN selected
             /\ selected' = With(selected, c.name, [slot |-> w.slot, candidate |-> c])
    BY <1>1, <2>3 DEF TypeOK, With
  <2> QED BY <2>1, <2>2, <2>3 DEF Merge
<1>6. ExpandedOnce'
  BY <1>1 DEF ExpandedOnce
<1> QED BY <1>1, <1>3, <1>4, <1>5, <1>6 DEF TypeOK, Errors

\* Every step keeps the invariants.
LEMMA NextInv == TypeOK /\ ExpandedOnce /\ [Next]_vars => TypeOK' /\ ExpandedOnce'
<1> SUFFICES ASSUME TypeOK, ExpandedOnce, [Next]_vars PROVE TypeOK' /\ ExpandedOnce'
  OBVIOUS
<1>1. CASE Finish
  <2>1. status' = "loaded"
        /\ UNCHANGED <<part, frames, expanded, candidates, merged, selected>>
    BY <1>1 DEF Finish
  <2>2. Slots' = Slots
    BY <2>1 DEF Slots
  <2> QED BY <2>1, <2>2 DEF TypeOK, ExpandedOnce
<1>2. CASE UNCHANGED vars
  <2>1. UNCHANGED <<status, part, frames, expanded, candidates, merged, selected>>
    BY <1>2 DEF vars
  <2>2. Slots' = Slots
    BY <2>1 DEF Slots
  <2> QED BY <2>1, <2>2 DEF TypeOK, ExpandedOnce
<1> QED
  BY <1>1, <1>2, OpenInv, SkipInv, RejectInv, BuildInv, ReferenceInv, ReturnInv, CloseInv,
     MergeInv DEF Next

\* Every load is well typed: frames stand in readable rulesets and nothing is
\* merged before everything is expanded.
THEOREM TypeCorrect == Spec => []TypeOK
<1>1. TypeOK /\ ExpandedOnce /\ [Next]_vars => (TypeOK /\ ExpandedOnce)'
  BY NextInv
<1> QED BY InitInv, <1>1, PTL DEF Spec

\* Whatever the references between rulesets, no load expands a ruleset inside
\* its own expansion, nor anything that it remembers as expanded.
THEOREM ExpandsOnce == Spec => []ExpandedOnce
<1>1. TypeOK /\ ExpandedOnce /\ [Next]_vars => (TypeOK /\ ExpandedOnce)'
  BY NextInv
<1> QED BY InitInv, <1>1, PTL DEF Spec

-----------------------------------------------------------------------------
(* Merging *)

\* Slots are merged in declaration order, and every name that was met has a
\* winner: the invariant behind Winners.
Mine(n) == {t \in merged : At(t).name = n}

InOrder == \A t \in merged, u \in Slots \ merged : Before(t, u)

Met == \A t \in merged : At(t).name \in DOMAIN selected

First(n) == \A t \in Mine(n) : t = selected[n].slot \/ Before(selected[n].slot, t)

OneOfThem(n) == \E t \in Mine(n) : At(t) = selected[n].candidate

Saying(n) == {t \in Mine(n) : At(t).kind = "override"}

Overridden(n) ==
    status # "conflict" /\ Saying(n) # {} =>
        \E t \in Saying(n) : SameDefinition(At(t), selected[n].candidate)

WinnersInv ==
    /\ InOrder /\ Met
    /\ \A n \in DOMAIN selected : First(n) /\ OneOfThem(n) /\ Overridden(n)

\* The winners of names other than the merged one stay what they are.
LEMMA OthersKeep ==
    ASSUME TypeOK, WinnersInv, NEW slot \in Slots, Merge(slot),
           NEW n \in DOMAIN selected', n # At(slot).name
    PROVE  First(n)' /\ OneOfThem(n)' /\ Overridden(n)'
<1> DEFINE c == At(slot)
<1>1. /\ status = "merging" /\ merged' = merged \cup {slot} /\ candidates' = candidates
  BY DEF Merge
<1>2. \A t : At(t)' = At(t)
  BY <1>1 DEF At
<1>3. n \in DOMAIN selected /\ selected'[n] = selected[n]
  BY DEF Merge, With
<1>4. Mine(n)' = Mine(n)
  BY <1>1, <1>2 DEF Mine
<1>5. First(n) /\ OneOfThem(n) /\ Overridden(n)
  BY <1>3 DEF WinnersInv
<1>6. Saying(n)' = Saying(n)
  BY <1>2, <1>4 DEF Saying
<1>7. First(n)'
  BY <1>3, <1>4, <1>5 DEF First, Before
<1>8. OneOfThem(n)'
  BY <1>2, <1>3, <1>4, <1>5 DEF OneOfThem
<1>9. Overridden(n)'
  BY <1>1, <1>2, <1>3, <1>5, <1>6 DEF Overridden, SameDefinition
<1> QED BY <1>7, <1>8, <1>9

\* The winner of the merged name is the first at its slot, one of the
\* candidates, and what an override says if there is one.
LEMMA MergedWins ==
    ASSUME TypeOK, WinnersInv, NEW slot \in Slots, Merge(slot),
           NEW n, n = At(slot).name
    PROVE  First(n)' /\ OneOfThem(n)' /\ Overridden(n)'
<1> DEFINE c == At(slot)
           w == selected[n]
<1>1. /\ status = "merging" /\ merged' = merged \cup {slot} /\ candidates' = candidates
      /\ slot \notin merged /\ merged \subseteq Slots
  BY DEF Merge, TypeOK
<1>2. \A t : At(t)' = At(t)
  BY <1>1 DEF At
<1>3. Mine(n)' = Mine(n) \cup {slot}
  BY <1>1, <1>2 DEF Mine
<1>4. Saying(n)' = IF c.kind = "override" THEN Saying(n) \cup {slot} ELSE Saying(n)
  BY <1>2, <1>3 DEF Saying
<1>5. CASE n \notin DOMAIN selected
  <2>1. selected'[n] = [slot |-> slot, candidate |-> c] /\ status' = status
    BY <1>5 DEF Merge, With
  <2>2. Mine(n) = {} /\ Saying(n) = {}
    BY <1>5 DEF WinnersInv, Met, Mine, Saying
  <2>3. Mine(n)' = {slot}
    BY <1>3, <2>2
  <2>4. First(n)'
    BY <2>1, <2>3 DEF First
  <2>5. OneOfThem(n)'
    BY <1>2, <2>1, <2>3 DEF OneOfThem
  <2>6. Overridden(n)'
    BY <1>2, <1>4, <2>1, <2>2 DEF Overridden, SameDefinition
  <2> QED BY <2>4, <2>5, <2>6
<1>6. CASE n \in DOMAIN selected
  <2>1. First(n) /\ OneOfThem(n) /\ Overridden(n)
    BY <1>6 DEF WinnersInv
  <2>2. w.slot \in merged /\ Before(w.slot, slot)
    BY <1>1, <1>6 DEF TypeOK, WinnersInv, InOrder
  <2>3. /\ status' = IF Conflict(w.candidate, c) THEN "conflict" ELSE status
        /\ selected' = IF Replaces(c, w.candidate)
                         THEN With(selected, n, [slot |-> w.slot, candidate |-> c])
                         ELSE selected
    BY <1>6 DEF Merge
  <2>4. /\ Replaces(c, w.candidate) => selected'[n] = [slot |-> w.slot, candidate |-> c]
        /\ ~ Replaces(c, w.candidate) => selected'[n] = w
    BY <2>3 DEF With
  <2>5. selected'[n].slot = w.slot
    BY <2>4
  <2>6. First(n)'
    BY <1>3, <2>1, <2>2, <2>5 DEF First, Before
  <2>7. OneOfThem(n)'
    BY <1>2, <1>3, <2>1, <2>4 DEF OneOfThem
  <2>8. PICK t \in Mine(n) : At(t) = w.candidate
    BY <2>1 DEF OneOfThem
  <2>9. Overridden(n)'
    <3>1. CASE c.kind = "override" /\ Replaces(c, w.candidate)
      BY <1>2, <1>4, <2>4, <3>1 DEF Overridden, SameDefinition
    <3>2. CASE c.kind = "override" /\ SameDefinition(w.candidate, c)
      <4>1. selected'[n] = w
        BY <2>4, <3>2 DEF Replaces
      <4> QED BY <1>2, <1>4, <3>2, <4>1 DEF Overridden, SameDefinition
    <3>3. CASE w.candidate.kind = "override" /\ status' # "conflict"
      <4>1. selected'[n] = w
        BY <2>4, <3>3 DEF Replaces
      <4>2. t \in Saying(n)'
        BY <1>2, <1>3, <2>8, <3>3 DEF Saying
      <4> QED BY <1>2, <2>8, <4>1, <4>2 DEF Overridden, SameDefinition
    <3>4. CASE c.kind # "override"
      <4>1. selected'[n] = w /\ Saying(n)' = Saying(n)
        BY <1>4, <2>4, <3>4 DEF Replaces
      <4> QED BY <1>1, <1>2, <2>1, <4>1 DEF Overridden, SameDefinition
    <3>5. CASE status' = "conflict"
      BY <3>5 DEF Overridden
    <3> QED BY <3>1, <3>2, <3>3, <3>4, <3>5 DEF Replaces
  <2> QED BY <2>6, <2>7, <2>9
<1> QED BY <1>5, <1>6

\* Merging keeps the winners.
LEMMA MergeWinners ==
    ASSUME TypeOK, WinnersInv, NEW slot \in Slots, Merge(slot)
    PROVE  WinnersInv'
<1>1. /\ merged' = merged \cup {slot} /\ candidates' = candidates
      /\ \A u \in Slots \ merged : u = slot \/ Before(slot, u)
  BY DEF Merge
<1>2. Slots' = Slots /\ \A t : At(t)' = At(t)
  BY <1>1 DEF Slots, At
<1>3. InOrder'
  BY <1>1, <1>2 DEF WinnersInv, InOrder, Before
<1>4. DOMAIN selected' = DOMAIN selected \cup {At(slot).name}
  BY DEF Merge, With
<1>5. Met'
  BY <1>1, <1>2, <1>4 DEF WinnersInv, Met
<1>6. \A n \in DOMAIN selected' : First(n)' /\ OneOfThem(n)' /\ Overridden(n)'
  BY OthersKeep, MergedWins
<1> QED BY <1>3, <1>5, <1>6 DEF WinnersInv

\* Before anything is merged there is nothing to win, and what is merged stays.
LEMMA NextWinners == TypeOK /\ WinnersInv /\ [Next]_vars => WinnersInv'
<1> SUFFICES ASSUME TypeOK, WinnersInv, [Next]_vars PROVE WinnersInv'
  OBVIOUS
<1>1. CASE UNCHANGED <<merged, selected>> /\ status = "loading"
  <2>1. merged' = {} /\ DOMAIN selected' = {}
    BY <1>1 DEF TypeOK
  <2> QED BY <2>1 DEF WinnersInv, InOrder, Met
<1>2. CASE UNCHANGED <<merged, selected, candidates>> /\ (status' = status \/ Finish)
  <2>1. Slots' = Slots /\ \A t : At(t)' = At(t)
    BY <1>2 DEF Slots, At
  <2>2. status' # "conflict" => status # "conflict"
    BY <1>2 DEF Finish
  <2>3. \A n : Mine(n)' = Mine(n) /\ Saying(n)' = Saying(n)
    BY <1>2, <2>1 DEF Mine, Saying
  <2>4. InOrder' /\ Met'
    BY <1>2, <2>1 DEF WinnersInv, InOrder, Met, Before
  <2>5. ASSUME NEW n \in DOMAIN selected'
        PROVE  First(n)' /\ OneOfThem(n)' /\ Overridden(n)'
    BY <1>2, <2>1, <2>2, <2>3 DEF WinnersInv, First, OneOfThem, Overridden, SameDefinition, Before
  <2> QED BY <2>4, <2>5 DEF WinnersInv
<1>3. CASE \E slot \in Slots : Merge(slot)
  BY <1>3, MergeWinners
<1>4. CASE \/ Open \/ SkipElement \/ RejectDefinition \/ BuildDefinition
           \/ Reference \/ Return \/ Close
  BY <1>1, <1>4 DEF Open, SkipElement, RejectDefinition, BuildDefinition, Wanted, Expanding,
     Reference, Return, Close
<1>5. CASE Finish
  BY <1>2, <1>5 DEF Finish
<1>6. CASE UNCHANGED vars
  BY <1>2, <1>6 DEF vars
<1> QED BY <1>3, <1>4, <1>5, <1>6 DEF Next

\* Whatever the declarations and their order, the winner of a name runs where
\* the name was first met, is one of its candidates, and is what an override
\* says when one was collected.
THEOREM OverridesWin == Spec => []Winners
<1>1. Init => WinnersInv
  BY DEF Init, Nothing, WinnersInv, InOrder, Met
<1>2. WinnersInv => Winners
  BY DEF WinnersInv, Winners, First, OneOfThem, Overridden, Saying, Mine
<1>3. TypeOK /\ ExpandedOnce /\ WinnersInv /\ [Next]_vars
      => (TypeOK /\ ExpandedOnce /\ WinnersInv)'
  BY NextInv, NextWinners
<1> QED BY InitInv, <1>1, <1>2, <1>3, PTL DEF Spec

-----------------------------------------------------------------------------
(* What the references mean *)

Kinds == {"definition", "inherited", "override"}

-----------------------------------------------------------------------------
(* Expansions and nodes are finitely many *)

LEMMA NodesFinite == IsFiniteSet(Nodes)
<1>1. IsFiniteSet({NoName})
  BY FS_Singleton
<1>2. IsFiniteSet(Name \cup {NoName})
  BY <1>1, FiniteAssumption, FS_Union
<1> QED BY <1>2, FiniteAssumption, FS_Product DEF Nodes

LEMMA ExpansionsFinite == IsFiniteSet(Expansions)
<1> DEFINE A == (DOMAIN Source) \X (Name \cup {NoName})
           B == (SUBSET Name) \X (Item \cup {NoElement})
           P == (A \X B) \X Kinds
           Make(p) == [loc |-> p[1][1][1], rule |-> p[1][1][2], excluded |-> p[1][2][1],
                       override |-> p[1][2][2], kind |-> p[2], at |-> 1, found |-> FALSE]
           make == [p \in P |-> Make(p)]
<1>1. IsFiniteSet(A)
  BY NodesFinite DEF Nodes
<1>2. IsFiniteSet(B)
  <2>1. IsFiniteSet(Item \cup {NoElement})
    BY FiniteAssumption, FS_Singleton, FS_Union
  <2>2. IsFiniteSet(SUBSET Name)
    BY FiniteAssumption, FS_SUBSET
  <2> QED BY <2>1, <2>2, FS_Product
<1>3. IsFiniteSet(Kinds)
  <2>1. Kinds = {"definition"} \cup ({"inherited"} \cup {"override"})
    BY DEF Kinds
  <2> QED BY <2>1, FS_Singleton, FS_Union
<1>4. IsFiniteSet(P)
  <2> HIDE DEF A, B
  <2>1. IsFiniteSet(A \X B)
    BY <1>1, <1>2, FS_Product
  <2> QED BY <2>1, <1>3, FS_Product
<1>5. ASSUME NEW p \in P PROVE Make(p) \in Expansions
  <2>1. /\ p[1][1][1] \in DOMAIN Source /\ p[1][1][2] \in Name \cup {NoName}
        /\ p[1][2][1] \in SUBSET Name /\ p[1][2][2] \in Item \cup {NoElement}
        /\ p[2] \in Kinds
    OBVIOUS
  <2> QED BY <2>1 DEF Expansions, Kinds
<1>6. ASSUME NEW x \in Expansions PROVE \E p \in P : Make(p) = x
  <2> DEFINE p == << << <<x.loc, x.rule>>, <<x.excluded, x.override>> >>, x.kind>>
  <2>1. p \in P
    BY DEF Expansions, Kinds
  <2>2. Make(p) = x
    BY DEF Expansions
  <2> HIDE DEF p, P, Make
  <2> QED BY <2>1, <2>2
<1> HIDE DEF P, Make
<1>7. make \in Surjection(P, Expansions)
  BY <1>5, <1>6 DEF Surjection
<1> QED BY <1>4, <1>7, FS_Surjection

-----------------------------------------------------------------------------
(* Following references *)

LEMMA ElementType ==
    ASSUME NEW l \in DOMAIN Source, NEW e \in ElementsOf(l)
    PROVE  e \in Item
BY SourceAssumption DEF ElementsOf

\* The expansion of a readable reference.
LEMMA FollowingType ==
    ASSUME NEW x \in Expansions, NEW e \in References(x.loc, x.rule), NEW kind \in Kinds
    PROVE  Expansion(e, x, kind) \in Expansions
<1> DEFINE r == Resolve(e)
<1>1. x.loc \in DOMAIN Source /\ x.rule \in Name \cup {NoName} /\ x.excluded \subseteq Name
      /\ x.override \in Item \cup {NoElement}
  BY DEF Expansions
<1>2. e \in Item /\ e.form = "ref" /\ r.base \in DOMAIN Source
  BY <1>1, ElementType DEF References, Follows, Readable
<1>3. e.rule \in Name \cup {NoName} /\ e.exclude \subseteq Name
  BY <1>2, ItemAssumption
<1>4. r.rule = NoName \/ r.rule = e.rule
  BY DEF Resolve
<1>5. RefOverride(e, x) \in Item \cup {NoElement}
  BY <1>1, <1>2 DEF RefOverride
<1>6. (IF r.rule # NoName THEN r.rule ELSE x.rule) \in Name \cup {NoName}
  BY <1>1, <1>3, <1>4
<1>7. x.excluded \cup e.exclude \in SUBSET Name
  BY <1>1, <1>3
<1>8. Expansion(e, x, kind) =
        [loc |-> r.base, rule |-> IF r.rule # NoName THEN r.rule ELSE x.rule,
         excluded |-> x.excluded \cup e.exclude, override |-> RefOverride(e, x),
         kind |-> kind, at |-> 1, found |-> FALSE]
  BY DEF Expansion
<1> HIDE DEF r
<1> QED BY <1>2, <1>5, <1>6, <1>7, <1>8 DEF Expansions, Kinds

LEMMA KindType ==
    ASSUME NEW x \in Expansions, NEW e
    PROVE  KindIn(e, x) \in Kinds
BY DEF KindIn, Expansions, Kinds

\* Everything behind an expansion, as the least set closed under references.
LEMMA UnfoldingLeast ==
    ASSUME NEW x \in Expansions
    PROVE  /\ x \in Unfolding(x) /\ Unfolding(x) \subseteq Expansions
           /\ \A y \in Unfolding(x) : Following(y) \subseteq Unfolding(x)
           /\ \A C : x \in C /\ (\A y \in C \cap Expansions : Following(y) \subseteq C)
                 => Unfolding(x) \subseteq C
<1> DEFINE next == [y \in Expansions |-> Following(y)]
<1>1. Unfolding(x) = Closure(next, x)
  BY DEF Unfolding
<1>2. DOMAIN next = Expansions /\ \A y \in Expansions : next[y] = Following(y)
  OBVIOUS
<1>3. \A y \in Expansions : next[y] \subseteq Expansions
  BY FollowingType, KindType DEF Following
<1> HIDE DEF next
<1>4. /\ x \in Closure(next, x) /\ Closure(next, x) \subseteq Expansions
      /\ ClosedUnder(next, Closure(next, x))
      /\ \A C : x \in C /\ ClosedUnder(next, C) => Closure(next, x) \subseteq C
  BY <1>2, <1>3, ExpansionsFinite, ClosureLeast
<1>5. \A C : ClosedUnder(next, C) <=> \A y \in C \cap Expansions : Following(y) \subseteq C
  BY <1>2 DEF ClosedUnder
<1> QED BY <1>1, <1>4, <1>5

Node(x) == <<x.loc, x.rule>>

LEMMA TargetType ==
    ASSUME NEW n \in Nodes, NEW e \in References(n[1], n[2])
    PROVE  Target(e, n[2]) \in Nodes
<1>1. n[1] \in DOMAIN Source /\ n[2] \in Name \cup {NoName}
  BY DEF Nodes
<1>2. e \in Item /\ e.form = "ref" /\ Resolve(e).base \in DOMAIN Source
  BY <1>1, ElementType DEF References, Follows, Readable
<1>3. e.rule \in Name \cup {NoName}
  BY <1>2, ItemAssumption
<1>4. Resolve(e).rule = NoName \/ Resolve(e).rule = e.rule
  BY DEF Resolve
<1> QED BY <1>1, <1>2, <1>3, <1>4 DEF Target, Nodes

LEMMA FollowLeast ==
    ASSUME NEW n \in Nodes
    PROVE  /\ n \in Follow(n) /\ Follow(n) \subseteq Nodes
           /\ \A m \in Follow(n) : Targets(m) \subseteq Follow(n)
           /\ \A C : n \in C /\ (\A m \in C \cap Nodes : Targets(m) \subseteq C)
                 => Follow(n) \subseteq C
           /\ \A m \in Follow(n) : Follow(m) \subseteq Follow(n)
           /\ \A m \in Follow(n) : m # n => \E t \in Targets(n) : m \in Follow(t)
<1> DEFINE next == [m \in Nodes |-> Targets(m)]
<1>1. \A m : Follow(m) = Closure(next, m)
  BY DEF Follow
<1>2. DOMAIN next = Nodes /\ \A m \in Nodes : next[m] = Targets(m)
  OBVIOUS
<1>3. \A m \in Nodes : next[m] \subseteq Nodes
  BY TargetType DEF Targets
<1> HIDE DEF next
<1>4. /\ n \in Closure(next, n) /\ Closure(next, n) \subseteq Nodes
      /\ ClosedUnder(next, Closure(next, n))
      /\ \A C : n \in C /\ ClosedUnder(next, C) => Closure(next, n) \subseteq C
  BY <1>2, <1>3, NodesFinite, ClosureLeast
<1>5. \A C : ClosedUnder(next, C) <=> \A m \in C \cap Nodes : Targets(m) \subseteq C
  BY <1>2 DEF ClosedUnder
<1>6. /\ \A m \in Closure(next, n) : Closure(next, m) \subseteq Closure(next, n)
      /\ \A m \in Closure(next, n) : m # n => \E t \in next[n] : m \in Closure(next, t)
  BY <1>2, <1>3, NodesFinite, ClosureSteps
<1> QED BY <1>1, <1>2, <1>4, <1>5, <1>6

-----------------------------------------------------------------------------
(* Keys *)

\* Whatever an expansion yields or leads to is settled by its key, except for
\* the kind of its candidates.
LEMMA KeySettles ==
    ASSUME NEW x, NEW y, Key(x) = Key(y), NEW e, NEW j, NEW k
    PROVE  /\ x.loc = y.loc /\ x.rule = y.rule
           /\ Wants(x, e) <=> Wants(y, e)
           /\ Key(Expansion(e, x, j)) = Key(Expansion(e, y, k))
           /\ Anonymous(Defined(e, x)) = Anonymous(Defined(e, y))
<1>1. /\ x.loc = y.loc /\ x.rule = y.rule /\ x.excluded = y.excluded
      /\ x.rule # NoName => /\ x.override.priority = y.override.priority
                            /\ x.override.props = y.override.props
  BY DEF Key
<1>2. Wants(x, e) <=> Wants(y, e)
  BY <1>1 DEF Wants
<1>3. /\ RefOverride(e, x).priority = RefOverride(e, y).priority
      /\ RefOverride(e, x).props = RefOverride(e, y).props
  BY <1>1 DEF RefOverride
<1>4. Key(Expansion(e, x, j)) = Key(Expansion(e, y, k))
  BY <1>1, <1>3 DEF Key, Expansion
<1>5. /\ EffectivePriority(e, RefOverride(e, x)) = EffectivePriority(e, RefOverride(e, y))
      /\ MergeProps(e.props, RefOverride(e, x).props) = MergeProps(e.props, RefOverride(e, y).props)
  BY <1>3 DEF EffectivePriority, MergeProps
<1>6. Anonymous(Defined(e, x)) = Anonymous(Defined(e, y))
  BY <1>5 DEF Anonymous, Defined, Candidate
<1> QED BY <1>1, <1>2, <1>4, <1>6

\* The node of an expansion, and of what a reference in it leads to.
LEMMA NodeOfExpansion ==
    ASSUME NEW x, NEW e, NEW k
    PROVE  Node(Expansion(e, x, k)) = Target(e, x.rule)
BY DEF Node, Expansion, Target

-----------------------------------------------------------------------------
(* Cycles of locations and of nodes *)

\* Whoever looks for one rule goes on looking for it.
LEMMA WantedStays ==
    ASSUME NEW n \in Nodes, n[2] # NoName
    PROVE  \A m \in Follow(n) : m[2] = n[2]
<1> DEFINE C == {m \in Nodes : m[2] = n[2]}
<1>1. ASSUME NEW m \in C, NEW t \in Targets(m) PROVE t \in C
  <2>1. PICK e \in References(m[1], m[2]) : t = Target(e, m[2])
    BY DEF Targets
  <2>2. Resolve(e).rule \in {NoName, m[2]}
    BY <1>1, <2>1 DEF References, Follows, Filtered
  <2>3. t[2] = m[2]
    BY <2>1, <2>2 DEF Target
  <2>4. t \in Nodes
    BY <2>1, TargetType
  <2> QED BY <2>3, <2>4
<1>2. n \in C
  OBVIOUS
<1> HIDE DEF C
<1>3. Follow(n) \subseteq C
  BY <1>1, <1>2, FollowLeast
<1> QED BY <1>3 DEF C

\* A reference followed in search of every rule, to one rule or to all, is
\* followed in search of that rule as well.
LEMMA Narrowed ==
    ASSUME NEW a, NEW r, r # NoName, NEW t \in Targets(<<a, NoName>>), t[2] \in {NoName, r}
    PROVE  <<t[1], r>> \in Targets(<<a, r>>)
<1>1. PICK e \in References(a, NoName) : t = Target(e, NoName)
  BY DEF Targets
<1>2. t = <<Resolve(e).base, Resolve(e).rule>>
  BY <1>1 DEF Target
<1>3. e \in References(a, r)
  BY <1>1, <1>2 DEF References, Follows, Filtered
<1>4. <<t[1], r>> = Target(e, r)
  BY <1>2 DEF Target
<1> QED BY <1>3, <1>4 DEF Targets

LEMMA NarrowedPath ==
    ASSUME NEW a, NEW r, r # NoName, <<a, NoName>> \in Nodes, <<a, r>> \in Nodes,
           NEW b, <<b, r>> \in Follow(<<a, NoName>>)
    PROVE  <<b, r>> \in Follow(<<a, r>>)
<1> DEFINE C == {m \in Nodes : m[2] \in {NoName, r} => <<m[1], r>> \in Follow(<<a, r>>)}
<1>1. ASSUME NEW m \in C, NEW t \in Targets(m) PROVE t \in C
  <2>1. m \in Nodes /\ m = <<m[1], m[2]>>
    BY DEF Nodes
  <2>2. t \in Nodes
    BY <2>1, TargetType DEF Targets
  <2>3. ASSUME t[2] \in {NoName, r} PROVE <<t[1], r>> \in Targets(<<m[1], r>>)
    <3>1. CASE m[2] = NoName
      BY <2>1, <2>3, <3>1, Narrowed
    <3>2. CASE m[2] # NoName
      <4>1. m \in Follow(m) /\ Targets(m) \subseteq Follow(m)
        BY <2>1, FollowLeast
      <4>2. t[2] = m[2]
        BY <2>1, <3>2, <4>1, WantedStays
      <4>3. m = <<m[1], r>> /\ t = <<t[1], r>>
        BY <2>1, <2>2, <2>3, <3>2, <4>2 DEF Nodes
      <4> QED BY <4>3
    <3> QED BY <3>1, <3>2
  <2>4. ASSUME t[2] \in {NoName, r} PROVE m[2] \in {NoName, r}
    <3>1. CASE m[2] # NoName
      <4>1. m \in Follow(m) /\ Targets(m) \subseteq Follow(m)
        BY <2>1, FollowLeast
      <4>2. t[2] = m[2]
        BY <2>1, <3>1, <4>1, WantedStays
      <4> QED BY <2>4, <4>2
    <3> QED BY <3>1
  <2>5. ASSUME t[2] \in {NoName, r} PROVE <<t[1], r>> \in Follow(<<a, r>>)
    <3>1. <<m[1], r>> \in Follow(<<a, r>>)
      BY <2>4, <2>5
    <3> QED BY <2>3, <2>5, <3>1, FollowLeast
  <2> QED BY <2>2, <2>5
<1>2. <<a, NoName>> \in C
  BY FollowLeast
<1> HIDE DEF C
<1>3. Follow(<<a, NoName>>) \subseteq C
  BY <1>1, <1>2, FollowLeast
<1>4. <<b, r>> \in C
  BY <1>3
<1> QED BY <1>4 DEF C

\* Where references lead back to a ruleset they lead back to a search.
LEMMA CycleOfNodes ==
    ASSUME NEW l \in DOMAIN Source, Cyclic(l)
    PROVE  \E p \in Follow(<<l, NoName>>) : \E t \in Targets(p) : p \in Follow(t)
<1>1. <<l, NoName>> \in Nodes
  BY DEF Nodes
<1>2. PICK n \in Follow(<<l, NoName>>) :
         \E m \in Targets(n) : \E p \in Follow(m) : p[1] = n[1]
  BY DEF Cyclic
<1>3. PICK m \in Targets(n) : \E p \in Follow(m) : p[1] = n[1]
  BY <1>2
<1>4. PICK p \in Follow(m) : p[1] = n[1]
  BY <1>3
<1>5. n \in Nodes /\ m \in Nodes /\ m \in Follow(n)
  BY <1>1, FollowLeast, TargetType DEF Targets
<1>6. p \in Nodes /\ p \in Follow(n) /\ p \in Follow(<<l, NoName>>)
  BY <1>1, <1>5, FollowLeast
<1>7. n = <<n[1], n[2]>> /\ p = <<n[1], p[2]>> /\ m = <<m[1], m[2]>>
  BY <1>4, <1>5, <1>6 DEF Nodes
<1>8. CASE p[2] = n[2]
  <2>1. p = n
    BY <1>7, <1>8
  <2> QED BY <1>6, <2>1
<1>9. CASE p[2] # n[2]
  <2>1. n[2] = NoName
    BY <1>5, <1>6, <1>9, WantedStays
  <2>2. p[2] # NoName
    BY <1>9, <2>1
  <2>3. m[2] \in {NoName, p[2]}
    <3>1. CASE m[2] # NoName
      BY <1>5, <3>1, WantedStays
    <3> QED BY <3>1
  <2> DEFINE t == <<m[1], p[2]>>
  <2>4. t \in Targets(p)
    BY <1>7, <2>1, <2>2, <2>3, Narrowed
  <2>5. t \in Nodes
    BY <1>6, <2>4, TargetType DEF Targets
  <2>6. p \in Follow(t)
    <3>1. CASE m[2] = p[2]
      BY <1>7, <3>1
    <3>2. CASE m[2] = NoName
      BY <1>5, <1>7, <2>2, <2>5, <3>2, NarrowedPath
    <3> QED BY <2>3, <3>1, <3>2
  <2> QED BY <1>6, <2>4, <2>6
<1> QED BY <1>8, <1>9

-----------------------------------------------------------------------------
(* What the loader knows of an expansion that it looked through: E is its  *)
(* memory, L the names loaded and C the candidates of the part.            *)

\* The expansion a frame stands for, and the elements it passed.
Base(f) ==
    [loc |-> f.loc, rule |-> f.rule, excluded |-> f.excluded, override |-> f.override,
     kind |-> f.kind, at |-> 1, found |-> FALSE]
Seen(f) == {Source[f.loc][i] : i \in 1 .. f.at - 1}

\* The rule c is loaded if it can be, and a candidate if it is selected.
Accounted(c, L, C) ==
    Eligible(c) =>
        /\ c.name \in L
        /\ Selects(c.name) => \E i \in DOMAIN C : Anonymous(C[i]) = Anonymous(c)

LeadsTo(f, e) == Key(Expansion(e, f, f.kind))

Handled(f, es, E, L, C) ==
    \A e \in es :
        /\ Wants(f, e) => Accounted(Defined(e, f), L, C)
        /\ Follows(f.rule, e) => Readable(e) /\ LeadsTo(f, e) \in DOMAIN E

Finds(f, es, E) ==
    \E e \in es : Wants(f, e) \/ (Follows(f.rule, e) /\ E[LeadsTo(f, e)])

\* No expansion is remembered before those it leads to.
WellOrdered(E) ==
    \A Z \in SUBSET DOMAIN E : Z # {} =>
        \E k \in Z : \A f \in Expansions : \A e \in ElementsOf(f.loc) :
            Key(f) = k /\ Follows(f.rule, e) => LeadsTo(f, e) \notin Z

MemoOK(E, L, C) ==
    /\ \A k \in DOMAIN E : E[k] \in BOOLEAN
    /\ \A f \in Expansions : Key(f) \in DOMAIN E =>
          /\ Handled(f, ElementsOf(f.loc), E, L, C)
          /\ E[Key(f)] <=> Finds(f, ElementsOf(f.loc), E)
    /\ WellOrdered(E)

LEMMA AccountedAnonymous ==
    ASSUME NEW L, NEW C, NEW x, NEW y, NEW e, Key(x) = Key(y)
    PROVE  Accounted(Defined(e, x), L, C) <=> Accounted(Defined(e, y), L, C)
<1> DEFINE c == Defined(e, x)
           d == Defined(e, y)
<1>1. Anonymous(c) = Anonymous(d)
  BY KeySettles
<1>2. c.name = d.name /\ c.class = d.class
  BY DEF Defined, Candidate
<1>3. Anonymous(c).priority = c.priority /\ Anonymous(d).priority = d.priority
  BY DEF Anonymous, Defined, Candidate
<1>4. c.priority = d.priority
  BY <1>1, <1>3
<1> HIDE DEF c, d
<1>5. Accounted(c, L, C) <=> Accounted(d, L, C)
  BY <1>1, <1>2, <1>4 DEF Accounted, Eligible
<1> QED BY <1>5 DEF c, d

\* Expansions with one key are handled alike.
LEMMA HandledAlike ==
    ASSUME NEW E, NEW L, NEW C, NEW x, NEW y, NEW es, Key(x) = Key(y)
    PROVE  /\ Handled(x, es, E, L, C) <=> Handled(y, es, E, L, C)
           /\ Finds(x, es, E) <=> Finds(y, es, E)
<1>1. x.rule = y.rule
  BY KeySettles
<1>2. \A e : (Wants(x, e) <=> Wants(y, e)) /\ LeadsTo(x, e) = LeadsTo(y, e)
  BY KeySettles DEF LeadsTo
<1>3. \A e : Accounted(Defined(e, x), L, C) <=> Accounted(Defined(e, y), L, C)
  BY AccountedAnonymous
<1>4. Handled(x, es, E, L, C) <=> Handled(y, es, E, L, C)
  BY <1>1, <1>2, <1>3 DEF Handled
<1>5. Finds(x, es, E) <=> Finds(y, es, E)
  BY <1>1, <1>2 DEF Finds
<1> QED BY <1>4, <1>5

\* More names and more candidates account for as much.
LEMMA AccountedGrows ==
    ASSUME NEW L, NEW C, NEW M, NEW D, L \subseteq M,
           \A i \in DOMAIN C : \E j \in DOMAIN D : D[j] = C[i],
           NEW c, Accounted(c, L, C)
    PROVE  Accounted(c, M, D)
<1>1. \A i \in DOMAIN C : Anonymous(C[i]) = Anonymous(c) =>
         \E j \in DOMAIN D : Anonymous(D[j]) = Anonymous(c)
  OBVIOUS
<1> QED BY <1>1 DEF Accounted

\* What was handled stays so when names, candidates and memory grow.
LEMMA HandledGrows ==
    ASSUME NEW E, NEW L, NEW C, NEW G, NEW M, NEW D, L \subseteq M,
           \A i \in DOMAIN C : \E j \in DOMAIN D : D[j] = C[i],
           \A k \in DOMAIN E : k \in DOMAIN G /\ G[k] = E[k],
           NEW f, NEW es, Handled(f, es, E, L, C)
    PROVE  Handled(f, es, G, M, D) /\ (Finds(f, es, G) <=> Finds(f, es, E))
<1>1. \A c : Accounted(c, L, C) => Accounted(c, M, D)
  BY AccountedGrows
<1>2. Handled(f, es, G, M, D)
  BY <1>1 DEF Handled
<1>3. \A e \in es : Follows(f.rule, e) => G[LeadsTo(f, e)] = E[LeadsTo(f, e)]
  BY DEF Handled
<1>4. Finds(f, es, G) <=> Finds(f, es, E)
  BY <1>3 DEF Finds
<1> QED BY <1>2, <1>4

LEMMA MemoKept ==
    ASSUME NEW E, NEW L, NEW C, NEW M, NEW D, L \subseteq M,
           \A i \in DOMAIN C : \E j \in DOMAIN D : D[j] = C[i],
           MemoOK(E, L, C)
    PROVE  MemoOK(E, M, D)
<1>1. \A f \in Expansions : Key(f) \in DOMAIN E =>
         /\ Handled(f, ElementsOf(f.loc), E, M, D)
         /\ E[Key(f)] <=> Finds(f, ElementsOf(f.loc), E)
  BY HandledGrows DEF MemoOK
<1> QED BY <1>1 DEF MemoOK

\* An expansion that was looked through joins the memory.
LEMMA MemoGrows ==
    ASSUME NEW E, NEW L, NEW C, MemoOK(E, L, C),
           NEW g, Key(g) \notin DOMAIN E, NEW b \in BOOLEAN,
           Handled(g, ElementsOf(g.loc), E, L, C),
           b <=> Finds(g, ElementsOf(g.loc), E)
    PROVE  MemoOK(With(E, Key(g), b), L, C)
<1> DEFINE q == Key(g)
           G == With(E, q, b)
<1>1. /\ DOMAIN G = DOMAIN E \cup {q} /\ G[q] = b
      /\ \A k \in DOMAIN E : G[k] = E[k]
  BY DEF With
<1> HIDE DEF G
<1>2. ASSUME NEW f \in Expansions, Key(f) \in DOMAIN G
      PROVE  /\ Handled(f, ElementsOf(f.loc), G, L, C)
             /\ G[Key(f)] <=> Finds(f, ElementsOf(f.loc), G)
  <2>1. CASE Key(f) \in DOMAIN E
    <3>1. /\ Handled(f, ElementsOf(f.loc), E, L, C)
          /\ E[Key(f)] <=> Finds(f, ElementsOf(f.loc), E)
      BY <2>1 DEF MemoOK
    <3>2. /\ Handled(f, ElementsOf(f.loc), G, L, C)
          /\ Finds(f, ElementsOf(f.loc), G) <=> Finds(f, ElementsOf(f.loc), E)
      BY <1>1, <3>1, HandledGrows
    <3> QED BY <1>1, <2>1, <3>1, <3>2
  <2>2. CASE Key(f) = q
    <3>1. f.loc = g.loc
      BY <2>2, KeySettles
    <3>2. /\ Handled(f, ElementsOf(f.loc), E, L, C)
          /\ Finds(f, ElementsOf(f.loc), E) <=> b
      BY <2>2, <3>1, HandledAlike
    <3>3. /\ Handled(f, ElementsOf(f.loc), G, L, C)
          /\ Finds(f, ElementsOf(f.loc), G) <=> Finds(f, ElementsOf(f.loc), E)
      BY <1>1, <3>2, HandledGrows
    <3> QED BY <1>1, <2>2, <3>2, <3>3
  <2> QED BY <1>1, <1>2, <2>1, <2>2
<1>3. ASSUME NEW Z \in SUBSET DOMAIN G, Z # {}
      PROVE  \E k \in Z : \A f \in Expansions : \A e \in ElementsOf(f.loc) :
                Key(f) = k /\ Follows(f.rule, e) => LeadsTo(f, e) \notin Z
  <2>1. ASSUME NEW f \in Expansions, NEW e \in ElementsOf(f.loc), Follows(f.rule, e),
               Key(f) \in DOMAIN G
        PROVE  LeadsTo(f, e) \in DOMAIN E
    <3>1. CASE Key(f) \in DOMAIN E
      BY <2>1, <3>1 DEF MemoOK, Handled
    <3>2. CASE Key(f) = q
      <4>1. f.loc = g.loc /\ Handled(f, ElementsOf(f.loc), E, L, C)
        BY <3>2, KeySettles, HandledAlike
      <4> QED BY <2>1, <4>1 DEF Handled
    <3> QED BY <1>1, <2>1, <3>1, <3>2
  <2>2. CASE Z = {q}
    <3>1. \A f \in Expansions : \A e \in ElementsOf(f.loc) :
             Key(f) = q /\ Follows(f.rule, e) => LeadsTo(f, e) \notin Z
      BY <1>1, <2>1, <2>2
    <3> QED BY <2>2, <3>1
  <2>3. CASE Z # {q}
    <3> DEFINE Y == Z \ {q}
    <3>1. Y \in SUBSET DOMAIN E /\ Y # {}
      BY <1>1, <1>3, <2>3
    <3>2. PICK k \in Y : \A f \in Expansions : \A e \in ElementsOf(f.loc) :
             Key(f) = k /\ Follows(f.rule, e) => LeadsTo(f, e) \notin Y
      BY <3>1 DEF MemoOK, WellOrdered
    <3>3. ASSUME NEW f \in Expansions, NEW e \in ElementsOf(f.loc), Key(f) = k, Follows(f.rule, e)
          PROVE  LeadsTo(f, e) \notin Z
      <4>1. LeadsTo(f, e) \in DOMAIN E
        BY <1>1, <2>1, <3>1, <3>3
      <4> QED BY <3>2, <3>3, <4>1
    <3> QED BY <3>2, <3>3
  <2> QED BY <2>2, <2>3
<1>4. \A k \in DOMAIN G : G[k] \in BOOLEAN
  BY <1>1 DEF MemoOK
<1>5. MemoOK(G, L, C)
  BY <1>2, <1>3, <1>4 DEF MemoOK, WellOrdered
<1> QED BY <1>5 DEF G

-----------------------------------------------------------------------------
(* What the memory says of an expansion *)

\* A reference that is followed leads to an expansion behind.
LEMMA FollowedStep ==
    ASSUME NEW x \in Expansions, NEW e \in ElementsOf(x.loc), Follows(x.rule, e), Readable(e)
    PROVE  \E z \in Following(x) :
              z \in Expansions /\ Key(z) = LeadsTo(x, e) /\ Node(z) = Target(e, x.rule)
<1> DEFINE z == Expansion(e, x, KindIn(e, x))
<1>1. e \in References(x.loc, x.rule)
  BY DEF References
<1>2. z \in Following(x)
  BY <1>1 DEF Following
<1>3. z \in Expansions
  BY <1>1, FollowingType, KindType
<1>4. Key(z) = LeadsTo(x, e)
  BY KeySettles DEF LeadsTo
<1>5. Node(z) = Target(e, x.rule)
  BY NodeOfExpansion
<1> HIDE DEF z
<1> QED BY <1>2, <1>3, <1>4, <1>5

\* And all that is behind comes from such references.
LEMMA FollowingStep ==
    ASSUME NEW x \in Expansions, NEW z \in Following(x)
    PROVE  /\ z \in Expansions
           /\ \E e \in ElementsOf(x.loc) :
                 Follows(x.rule, e) /\ Readable(e) /\ Key(z) = LeadsTo(x, e)
<1>1. PICK e \in References(x.loc, x.rule) : z = Expansion(e, x, KindIn(e, x))
  BY DEF Following
<1>2. Key(z) = LeadsTo(x, e)
  BY <1>1, KeySettles DEF LeadsTo
<1> QED BY <1>1, <1>2, FollowingType, KindType DEF References

\* What unfolds behind a reference unfolds behind its expansion.
LEMMA UnfoldNested ==
    ASSUME NEW x \in Expansions, NEW z \in Following(x)
    PROVE  Unfold(z) \subseteq Unfold(x)
<1>1. /\ x \in Unfolding(x) /\ Unfolding(x) \subseteq Expansions
      /\ \A y \in Unfolding(x) : Following(y) \subseteq Unfolding(x)
  BY UnfoldingLeast
<1>2. z \in Expansions /\ z \in Unfolding(x)
  BY <1>1, FollowingStep
<1>3. Unfolding(z) \subseteq Unfolding(x)
  BY <1>1, <1>2, UnfoldingLeast
<1> QED BY <1>3 DEF Unfold

\* An expansion is remembered to have found a rule exactly if there is one.
LEMMA MemoMeans ==
    ASSUME NEW E, NEW L, NEW C, MemoOK(E, L, C), NEW x \in Expansions, Key(x) \in DOMAIN E
    PROVE  E[Key(x)] <=> Unfold(x) # {}
<1>1. ASSUME NEW y \in Expansions, Key(y) \in DOMAIN E
      PROVE  /\ Handled(y, ElementsOf(y.loc), E, L, C)
             /\ E[Key(y)] <=> Finds(y, ElementsOf(y.loc), E)
  BY <1>1 DEF MemoOK
<1>2. ASSUME ~ E[Key(x)] PROVE Unfold(x) = {}
  <2> DEFINE N == {y \in Expansions : Key(y) \in DOMAIN E /\ ~ E[Key(y)]}
  <2>1. ASSUME NEW y \in N, NEW z \in Following(y) PROVE z \in N
    <3>1. PICK e \in ElementsOf(y.loc) : Follows(y.rule, e) /\ Key(z) = LeadsTo(y, e)
      BY <2>1, FollowingStep
    <3>2. z \in Expansions
      BY <2>1, FollowingStep
    <3>3. Key(z) \in DOMAIN E /\ ~ E[Key(z)]
      BY <1>1, <2>1, <3>1 DEF Handled, Finds
    <3> QED BY <3>2, <3>3
  <2>2. x \in N /\ N \subseteq Expansions
    BY <1>2
  <2>3. ASSUME NEW y \in N PROVE Own(y) = {}
    BY <1>1, <2>3 DEF Own, Finds
  <2> HIDE DEF N
  <2>4. Unfolding(x) \subseteq N
    BY <2>1, <2>2, UnfoldingLeast
  <2> QED BY <2>3, <2>4 DEF Unfold
<1>3. ASSUME E[Key(x)], Unfold(x) = {} PROVE FALSE
  <2> DEFINE Empty(y) == Key(y) \in DOMAIN E /\ E[Key(y)] /\ Unfold(y) = {}
             Z == {Key(y) : y \in {w \in Expansions : Empty(w)}}
  <2>1. Z \in SUBSET DOMAIN E /\ Key(x) \in Z
    BY <1>3
  <2>2. ASSUME NEW y \in Expansions, Empty(y) PROVE Key(y) \in Z
    BY <2>2
  <2>3. ASSUME NEW k \in Z PROVE \E y \in Expansions : Empty(y) /\ k = Key(y)
    BY <2>3
  <2> HIDE DEF Z
  <2>4. PICK k \in Z : \A f \in Expansions : \A e \in ElementsOf(f.loc) :
           Key(f) = k /\ Follows(f.rule, e) => LeadsTo(f, e) \notin Z
    BY <2>1 DEF MemoOK, WellOrdered
  <2>5. PICK y \in Expansions : Empty(y) /\ k = Key(y)
    BY <2>3
  <2>6. PICK e \in ElementsOf(y.loc) :
           Wants(y, e) \/ (Follows(y.rule, e) /\ E[LeadsTo(y, e)])
    BY <1>1, <2>5 DEF Finds
  <2>7. y \in Unfolding(y)
    BY UnfoldingLeast
  <2>8. CASE Wants(y, e)
    <3>1. Defined(e, y) \in Own(y)
      BY <2>8 DEF Own
    <3> QED BY <2>5, <2>7, <3>1 DEF Unfold
  <2>9. CASE Follows(y.rule, e) /\ E[LeadsTo(y, e)]
    <3>1. Readable(e) /\ LeadsTo(y, e) \in DOMAIN E
      BY <1>1, <2>5, <2>9 DEF Handled
    <3>2. PICK z \in Following(y) : z \in Expansions /\ Key(z) = LeadsTo(y, e)
      BY <2>9, <3>1, FollowedStep
    <3>3. Unfold(z) = {}
      BY <2>5, <3>2, UnfoldNested
    <3>4. Key(z) \in Z
      BY <2>2, <2>9, <3>1, <3>2, <3>3
    <3> QED BY <2>4, <2>5, <2>9, <3>2, <3>4
  <2> QED BY <2>6, <2>8, <2>9
<1>4. E[Key(x)] \in BOOLEAN
  BY DEF MemoOK
<1> QED BY <1>2, <1>3, <1>4

\* When all elements of an expansion were handled, everything behind it is
\* accounted for.
LEMMA AllAccounted ==
    ASSUME NEW E, NEW L, NEW C, MemoOK(E, L, C), NEW x \in Expansions,
           Handled(x, ElementsOf(x.loc), E, L, C)
    PROVE  \A c \in Unfold(x) : Accounted(c, L, C)
<1> DEFINE D == {x} \cup {y \in Expansions : Key(y) \in DOMAIN E}
<1>1. ASSUME NEW y \in D PROVE y \in Expansions /\ Handled(y, ElementsOf(y.loc), E, L, C)
  BY <1>1 DEF MemoOK
<1>2. ASSUME NEW y \in D, NEW z \in Following(y) PROVE z \in D
  <2>1. z \in Expansions /\ Key(z) \in DOMAIN E
    BY <1>1, <1>2, FollowingStep DEF Handled
  <2> QED BY <2>1
<1>3. x \in D
  OBVIOUS
<1> HIDE DEF D
<1>4. Unfolding(x) \subseteq D
  BY <1>2, <1>3, UnfoldingLeast
<1>5. ASSUME NEW y \in D, NEW c \in Own(y) PROVE Accounted(c, L, C)
  BY <1>1, <1>5 DEF Own, Handled
<1> QED BY <1>4, <1>5 DEF Unfold

\* Nor is there a cycle behind it, since no expansion is remembered before
\* those it leads to.
LEMMA NoCycleBehind ==
    ASSUME NEW E, NEW L, NEW C, MemoOK(E, L, C), NEW x \in Expansions,
           x.rule = NoName, Handled(x, ElementsOf(x.loc), E, L, C)
    PROVE  ~ Cyclic(x.loc)
<1> SUFFICES ASSUME Cyclic(x.loc) PROVE FALSE
  OBVIOUS
<1> DEFINE K == {y \in Expansions : Key(y) \in DOMAIN E}
           M == {Node(y) : y \in K}
<1>1. x.loc \in DOMAIN Source /\ Node(x) = <<x.loc, NoName>>
  BY DEF Expansions, Node
<1>2. PICK p \in Follow(Node(x)) : \E t \in Targets(p) : p \in Follow(t)
  BY <1>1, CycleOfNodes
<1>3. PICK t \in Targets(p) : p \in Follow(t)
  BY <1>2
<1>4. ASSUME NEW y \in K \cup {x}, NEW u \in Targets(Node(y))
      PROVE  \E e \in ElementsOf(y.loc) : \E z \in K :
                Follows(y.rule, e) /\ Key(z) = LeadsTo(y, e) /\ Node(z) = u
  <2>1. y \in Expansions /\ Handled(y, ElementsOf(y.loc), E, L, C)
    BY <1>4 DEF MemoOK
  <2>2. PICK e \in References(y.loc, y.rule) : u = Target(e, y.rule)
    BY <1>4 DEF Targets, Node
  <2>3. e \in ElementsOf(y.loc) /\ Follows(y.rule, e) /\ Readable(e)
    BY <2>2 DEF References
  <2>4. PICK z \in Expansions : Key(z) = LeadsTo(y, e) /\ Node(z) = u
    BY <2>1, <2>2, <2>3, FollowedStep
  <2>5. z \in K
    BY <2>1, <2>3, <2>4 DEF Handled
  <2> QED BY <2>3, <2>4, <2>5
<1>5. \A y \in Expansions : Node(y) \in Nodes
  BY DEF Node, Nodes, Expansions
<1>6. t \in M
  <2>1. p \in M \cup {Node(x)}
    <3> DEFINE W == M \cup {Node(x)}
    <3>1. ASSUME NEW n \in W PROVE Targets(n) \subseteq W
      <4>1. PICK y \in K \cup {x} : n = Node(y)
        BY <3>1
      <4> QED BY <1>4, <4>1
    <3>2. Node(x) \in W
      OBVIOUS
    <3> HIDE DEF W
    <3>3. Follow(Node(x)) \subseteq W
      BY <1>5, <3>1, <3>2, FollowLeast
    <3> QED BY <3>3 DEF W
  <2>2. PICK y \in K \cup {x} : p = Node(y)
    BY <2>1
  <2> QED BY <1>3, <1>4, <2>2
<1> DEFINE Z == {Key(y) : y \in {w \in K : p \in Follow(Node(w))}}
<1>7. Z \in SUBSET DOMAIN E /\ Z # {}
  BY <1>3, <1>6
<1>8. ASSUME NEW y \in K, p \in Follow(Node(y)) PROVE Key(y) \in Z
  BY <1>8
<1>9. ASSUME NEW k \in Z PROVE \E y \in K : k = Key(y) /\ p \in Follow(Node(y))
  BY <1>9
<1> HIDE DEF Z
<1>10. PICK k \in Z : \A f \in Expansions : \A e \in ElementsOf(f.loc) :
          Key(f) = k /\ Follows(f.rule, e) => LeadsTo(f, e) \notin Z
  BY <1>7 DEF MemoOK, WellOrdered
<1>11. PICK y \in K : k = Key(y) /\ p \in Follow(Node(y))
  BY <1>9
<1>12. PICK u \in Targets(Node(y)) : p \in Follow(u)
  BY <1>3, <1>5, <1>11, FollowLeast
<1>13. PICK e \in ElementsOf(y.loc) : \E z \in K :
          Follows(y.rule, e) /\ Key(z) = LeadsTo(y, e) /\ Node(z) = u
  BY <1>4, <1>12
<1>14. LeadsTo(y, e) \in Z
  BY <1>8, <1>12, <1>13
<1> QED BY <1>10, <1>11, <1>13, <1>14

-----------------------------------------------------------------------------
(* The stack *)

\* The frame g expands the reference that the frame f looks at.
LinkedTo(f, g) ==
    LET e == Source[f.loc][f.at]
    IN  Follows(f.rule, e) /\ Readable(e) /\ Base(g) = Expansion(e, f, KindIn(e, f))

\* The frames stand for expansions on one path from the location l.
StackShape(stack, l) ==
    /\ stack # <<>> => Base(stack[1]) = Outermost(l)
    /\ \A i \in DOMAIN stack :
          /\ Base(stack[i]) \in Unfolding(Outermost(l))
          /\ stack[i].kind = "definition" <=> i = 1
          /\ i > 1 => LinkedTo(stack[i - 1], stack[i])
    /\ \A i, j \in DOMAIN stack : i <= j => Node(stack[j]) \in Follow(Node(stack[i]))

FrameOK(f, E, L, C) ==
    /\ Handled(f, Seen(f), E, L, C)
    /\ f.found <=> Finds(f, Seen(f), E)

SinglesFound(f, E) ==
    \A i \in 1 .. f.at - 1 : i \in Single(f.loc) => Finds(f, {Source[f.loc][i]}, E)

StackOK(stack, l, E, L, C) ==
    /\ StackShape(stack, l)
    /\ \A i \in DOMAIN stack : FrameOK(stack[i], E, L, C)
    /\ stack # <<>> => SinglesFound(stack[1], E)

LEMMA BaseFacts ==
    ASSUME NEW f \in FrameType
    PROVE  /\ Base(f) \in Expansions /\ Key(Base(f)) = Key(f) /\ Node(Base(f)) = Node(f)
           /\ Base(f).loc = f.loc /\ Base(f).rule = f.rule /\ Base(f).kind = f.kind
           /\ Base(f).excluded = f.excluded /\ Base(f).override = f.override
BY DEF Base, FrameType, Expansions, Key, Node

LEMMA FramesOfExpansions ==
    ASSUME NEW x \in Expansions
    PROVE  x \in FrameType
<1>1. /\ x.loc \in DOMAIN Source /\ x.rule \in Name \cup {NoName} /\ x.excluded \in SUBSET Name
      /\ x.override \in Item \cup {NoElement} /\ x.kind \in Kinds /\ x.at = 1
  BY DEF Expansions, Kinds
<1>2. x = [loc |-> x.loc, rule |-> x.rule, excluded |-> x.excluded, override |-> x.override,
           kind |-> x.kind, at |-> 1, found |-> FALSE]
  BY DEF Expansions
<1>3. [loc |-> x.loc, rule |-> x.rule, excluded |-> x.excluded, override |-> x.override,
       kind |-> x.kind, at |-> 1, found |-> FALSE] \in FrameType
  BY <1>1 DEF FrameType, Kinds
<1> QED BY <1>2, <1>3

LEMMA BaseSame ==
    ASSUME NEW f \in FrameType, NEW g \in FrameType, Base(f) = Base(g)
    PROVE  /\ Key(f) = Key(g) /\ Node(f) = Node(g)
           /\ f.loc = g.loc /\ f.rule = g.rule /\ f.kind = g.kind
           /\ f.excluded = g.excluded /\ f.override = g.override
BY BaseFacts

LEMMA PassedBase ==
    ASSUME NEW f \in FrameType, NEW b \in BOOLEAN
    PROVE  /\ Passed(f, b) \in FrameType
           /\ Base(Passed(f, b)) = Base(f)
           /\ Passed(f, b).at = f.at + 1
           /\ Passed(f, b).found <=> (f.found \/ b)
<1>1. f.found \in BOOLEAN /\ f.at \in Nat
  BY DEF FrameType
<1>2. PICK c \in BOOLEAN : c = (f.found \/ b)
  BY <1>1
<1>3. PICK n \in Nat : n = f.at + 1
  BY <1>1
<1>4. PICK g : g = [f EXCEPT !.at = n, !.found = c]
  OBVIOUS
<1>5. Passed(f, b) = g
  BY <1>2, <1>3, <1>4, Zenon DEF Passed
<1>6. g \in FrameType /\ g.at = n /\ g.found = c /\ Base(g) = Base(f)
  BY <1>4 DEF FrameType, Base
<1> QED BY <1>2, <1>3, <1>5, <1>6

LEMMA AdvancedStack ==
    ASSUME NEW stack \in Seq(FrameType), stack # <<>>, NEW found \in BOOLEAN
    PROVE  LET next == Advanced(stack, found)
           IN  /\ next \in Seq(FrameType) /\ DOMAIN next = DOMAIN stack
               /\ Len(next) = Len(stack) /\ next # <<>>
               /\ \A i \in DOMAIN stack : Base(next[i]) = Base(stack[i])
               /\ \A i \in DOMAIN stack : i # Len(stack) => next[i] = stack[i]
               /\ next[Len(stack)] = Passed(stack[Len(stack)], found)
<1> DEFINE next == Advanced(stack, found)
           n == Len(stack)
<1>1. n \in DOMAIN stack /\ n \in Nat \ {0} /\ stack[n] \in FrameType
  OBVIOUS
<1>2. next = [stack EXCEPT ![n] = Passed(stack[n], found)]
  BY <1>1 DEF Advanced
<1>3. Passed(stack[n], found) \in FrameType /\ Base(Passed(stack[n], found)) = Base(stack[n])
  BY <1>1, PassedBase
<1>4. next \in Seq(FrameType) /\ Len(next) = n /\ DOMAIN next = DOMAIN stack
  BY <1>1, <1>2, <1>3
<1>5. \A i \in DOMAIN stack : i # n => next[i] = stack[i]
  BY <1>1, <1>2
<1>6. next[n] = Passed(stack[n], found)
  BY <1>1, <1>2
<1> HIDE DEF next
<1>7. \A i \in DOMAIN stack : Base(next[i]) = Base(stack[i])
  BY <1>3, <1>5, <1>6
<1>8. next # <<>>
  BY <1>1, <1>4
<1> QED BY <1>4, <1>5, <1>6, <1>7, <1>8 DEF next

\* A frame that passes an element it handled.
LEMMA FramePasses ==
    ASSUME NEW f \in FrameType, f.at \in 1 .. Len(Source[f.loc]), NEW b \in BOOLEAN,
           NEW E, NEW L, NEW C, FrameOK(f, E, L, C),
           Handled(f, {Source[f.loc][f.at]}, E, L, C),
           b <=> Finds(f, {Source[f.loc][f.at]}, E)
    PROVE  FrameOK(Passed(f, b), E, L, C)
<1> DEFINE g == Passed(f, b)
           e == Source[f.loc][f.at]
<1>1. /\ g \in FrameType /\ Base(g) = Base(f) /\ g.at = f.at + 1
      /\ g.found <=> (f.found \/ b)
  BY PassedBase
<1>2. Key(g) = Key(f) /\ g.loc = f.loc
  BY <1>1, BaseSame
<1>3. 1 .. g.at - 1 = (1 .. f.at - 1) \cup {f.at}
  BY <1>1
<1>4. Seen(g) = Seen(f) \cup {e}
  BY <1>2, <1>3 DEF Seen
<1>5. Handled(f, Seen(g), E, L, C)
  BY <1>4 DEF FrameOK, Handled
<1>6. Finds(f, Seen(g), E) <=> g.found
  BY <1>1, <1>4 DEF FrameOK, Finds
<1> HIDE DEF g
<1>7. Handled(g, Seen(g), E, L, C) /\ (Finds(g, Seen(g), E) <=> g.found)
  BY <1>2, <1>5, <1>6, HandledAlike
<1> QED BY <1>7 DEF FrameOK, g

\* The stack stays as it should be when memory, names and candidates grow.
LEMMA StackGrows ==
    ASSUME NEW E, NEW L, NEW C, NEW G, NEW M, NEW D, L \subseteq M,
           \A i \in DOMAIN C : \E j \in DOMAIN D : D[j] = C[i],
           \A k \in DOMAIN E : k \in DOMAIN G /\ G[k] = E[k],
           NEW stack \in Seq(FrameType), NEW l, StackOK(stack, l, E, L, C)
    PROVE  StackOK(stack, l, G, M, D)
<1>1. ASSUME NEW i \in DOMAIN stack PROVE FrameOK(stack[i], G, M, D)
  <2>1. FrameOK(stack[i], E, L, C)
    BY DEF StackOK
  <2> QED BY <2>1, HandledGrows DEF FrameOK
<1>2. ASSUME stack # <<>> PROVE SinglesFound(stack[1], G)
  <2> DEFINE f == stack[1]
  <2>1. FrameOK(f, E, L, C) /\ SinglesFound(f, E)
    BY <1>2 DEF StackOK
  <2>2. ASSUME NEW i \in 1 .. f.at - 1
        PROVE  Finds(f, {Source[f.loc][i]}, G) <=> Finds(f, {Source[f.loc][i]}, E)
    <3> DEFINE es == {Source[f.loc][i]}
    <3>1. Handled(f, es, E, L, C)
      BY <2>1 DEF FrameOK, Handled, Seen
    <3> HIDE DEF es, f
    <3>2. Finds(f, es, G) <=> Finds(f, es, E)
      BY <3>1, HandledGrows
    <3> QED BY <3>2 DEF es
  <2> QED BY <2>1, <2>2 DEF SinglesFound
<1> QED BY <1>1, <1>2 DEF StackOK

\* The innermost frame passes an element.
LEMMA StackPasses ==
    ASSUME NEW E, NEW L, NEW C, NEW stack \in Seq(FrameType), stack # <<>>,
           NEW l \in DOMAIN Source, StackOK(stack, l, E, L, C),
           NEW f, f = stack[Len(stack)], f.at \in 1 .. Len(Source[f.loc]),
           NEW e, e = Source[f.loc][f.at], NEW b \in BOOLEAN,
           Handled(f, {e}, E, L, C), b <=> Finds(f, {e}, E),
           Len(stack) = 1 /\ e.form = "ref" /\ Resolve(e).rule # NoName => b
    PROVE  StackOK(Advanced(stack, b), l, E, L, C)
<1> DEFINE next == Advanced(stack, b)
           n == Len(stack)
<1>1. /\ n \in DOMAIN stack /\ n \in Nat \ {0} /\ f \in FrameType /\ 1 \in DOMAIN stack
      /\ \A i \in DOMAIN stack : stack[i] \in FrameType /\ i \in 1 .. n
  BY LastElement
<1>2. /\ next \in Seq(FrameType) /\ DOMAIN next = DOMAIN stack
      /\ Len(next) = n /\ next # <<>>
      /\ \A i \in DOMAIN stack : Base(next[i]) = Base(stack[i])
      /\ \A i \in DOMAIN stack : i # n => next[i] = stack[i]
      /\ next[n] = Passed(f, b)
  BY AdvancedStack
<1> HIDE DEF next
<1>3. \A i \in DOMAIN stack : next[i] \in FrameType
  BY <1>2, LastElement
<1>4. \A i \in DOMAIN stack :
         /\ Key(next[i]) = Key(stack[i]) /\ Node(next[i]) = Node(stack[i])
         /\ next[i].kind = stack[i].kind /\ next[i].loc = stack[i].loc
  BY <1>1, <1>2, <1>3, BaseSame
<1>5. StackShape(next, l)
  <2>1. StackShape(stack, l)
    BY DEF StackOK
  <2>2. Base(next[1]) = Outermost(l)
    BY <1>1, <1>2, <2>1 DEF StackShape
  <2>3. ASSUME NEW i \in DOMAIN stack
        PROVE  /\ Base(next[i]) \in Unfolding(Outermost(l))
               /\ next[i].kind = "definition" <=> i = 1
               /\ i > 1 => LinkedTo(next[i - 1], next[i])
    <3>1. Base(next[i]) \in Unfolding(Outermost(l)) /\ (next[i].kind = "definition" <=> i = 1)
      BY <1>2, <1>4, <2>1 DEF StackShape
    <3>2. ASSUME i > 1 PROVE LinkedTo(next[i - 1], next[i])
      <4>1. i - 1 \in DOMAIN stack /\ i - 1 # n
        BY <1>1, <3>2
      <4>2. next[i - 1] = stack[i - 1] /\ Base(next[i]) = Base(stack[i])
        BY <1>2, <4>1
      <4>3. LinkedTo(stack[i - 1], stack[i])
        BY <2>1, <3>2 DEF StackShape
      <4> QED BY <4>2, <4>3 DEF LinkedTo
    <3> QED BY <3>1, <3>2
  <2>4. \A i, j \in DOMAIN stack : i <= j => Node(next[j]) \in Follow(Node(next[i]))
    BY <1>4, <2>1 DEF StackShape
  <2> QED BY <1>2, <2>2, <2>3, <2>4 DEF StackShape
<1>6. ASSUME NEW i \in DOMAIN stack PROVE FrameOK(next[i], E, L, C)
  <2>1. FrameOK(stack[i], E, L, C)
    BY DEF StackOK
  <2>2. CASE i # n
    BY <1>2, <2>1, <2>2
  <2>3. CASE i = n
    BY <1>1, <1>2, <2>1, <2>3, FramePasses
  <2> QED BY <2>2, <2>3
<1>7. SinglesFound(next[1], E)
  <2>1. SinglesFound(stack[1], E)
    BY DEF StackOK
  <2>2. CASE n # 1
    BY <1>1, <1>2, <2>1, <2>2
  <2>3. CASE n = 1
    <3>1. next[1] = Passed(f, b) /\ f = stack[1]
      BY <1>2, <2>3
    <3>2. next[1].at = f.at + 1 /\ next[1].loc = f.loc /\ Key(next[1]) = Key(f)
      BY <1>1, <1>4, <3>1, PassedBase
    <3>3. ASSUME NEW i \in 1 .. f.at, i \in Single(f.loc)
          PROVE  Finds(f, {Source[f.loc][i]}, E)
      <4>1. CASE i = f.at
        BY <2>3, <3>3, <4>1 DEF Single
      <4>2. CASE i # f.at
        <5>1. i \in 1 .. f.at - 1
          BY <4>2
        <5> QED BY <2>1, <3>1, <3>3, <5>1 DEF SinglesFound
      <4> QED BY <4>1, <4>2
    <3>4. 1 .. next[1].at - 1 = 1 .. f.at
      BY <3>2
    <3>5. \A es : Finds(next[1], es, E) <=> Finds(f, es, E)
      BY <3>2, HandledAlike
    <3> QED BY <3>2, <3>3, <3>4, <3>5 DEF SinglesFound
  <2> QED BY <2>2, <2>3
<1>8. StackOK(next, l, E, L, C)
  BY <1>2, <1>5, <1>6, <1>7 DEF StackOK
<1> QED BY <1>8 DEF next

\* What a reference in a frame leads to does not depend on how far it got.
LEMMA ExpansionOfFrame ==
    ASSUME NEW f \in FrameType, NEW e \in ElementsOf(f.loc), Follows(f.rule, e), Readable(e),
           NEW x, x = Expansion(e, f, KindIn(e, f))
    PROVE  /\ x \in Following(Base(f)) /\ x \in Expansions /\ x \in FrameType
           /\ Base(x) = x /\ x.at = 1 /\ x.found = FALSE
           /\ x.kind # "definition"
           /\ Key(x) = LeadsTo(f, e) /\ Node(x) = Target(e, f.rule)
<1> DEFINE g == Base(f)
<1>1. /\ g \in Expansions /\ g.loc = f.loc /\ g.rule = f.rule /\ g.kind = f.kind
      /\ g.excluded = f.excluded /\ g.override = f.override
  BY BaseFacts
<1> HIDE DEF g
<1>2. x = Expansion(e, g, KindIn(e, g))
  BY <1>1 DEF Expansion, RefOverride, KindIn
<1>3. e \in References(g.loc, g.rule)
  BY <1>1 DEF References
<1>4. x \in Following(g)
  BY <1>2, <1>3 DEF Following
<1>5. x \in Expansions
  BY <1>1, <1>2, <1>3, FollowingType, KindType
<1>6. x.at = 1 /\ x.found = FALSE /\ x.kind = KindIn(e, f)
  BY DEF Expansion
<1>7. x \in FrameType /\ Base(x) = x
  <2>1. x \in FrameType
    BY <1>5, FramesOfExpansions
  <2>2. Base(x) = x
    BY DEF Expansion, Base
  <2> QED BY <2>1, <2>2
<1>8. x.kind # "definition"
  BY <1>6 DEF KindIn
<1>9. Key(x) = LeadsTo(f, e)
  BY KeySettles DEF LeadsTo
<1>10. Node(x) = Target(e, f.rule)
  BY NodeOfExpansion
<1> QED BY <1>4, <1>5, <1>6, <1>7, <1>8, <1>9, <1>10 DEF g

\* A reference is entered.
LEMMA StackPushes ==
    ASSUME NEW E, NEW L, NEW C, NEW stack \in Seq(FrameType), stack # <<>>,
           NEW l \in DOMAIN Source, StackOK(stack, l, E, L, C),
           NEW f, f = stack[Len(stack)], f.at \in 1 .. Len(Source[f.loc]),
           NEW e, e = Source[f.loc][f.at], Follows(f.rule, e), Readable(e),
           NEW x, x = Expansion(e, f, KindIn(e, f))
    PROVE  StackOK(Append(stack, x), l, E, L, C)
<1> DEFINE next == Append(stack, x)
           n == Len(stack)
<1>1. n \in DOMAIN stack /\ n \in Nat \ {0} /\ f \in FrameType
  BY LastElement
<1>2. e \in ElementsOf(f.loc)
  <2>1. f.loc \in DOMAIN Source
    BY <1>1 DEF FrameType
  <2>2. f.at \in DOMAIN Source[f.loc]
    BY <2>1, SourceAssumption
  <2> QED BY <2>2 DEF ElementsOf
<1>3. /\ x \in Following(Base(f)) /\ x \in Expansions /\ x \in FrameType
      /\ Base(x) = x /\ x.at = 1 /\ x.found = FALSE /\ x.kind # "definition"
      /\ Node(x) = Target(e, f.rule)
  <2>1. f \in FrameType
    BY <1>1
  <2> QED BY <2>1, <1>2, ExpansionOfFrame
<1>4. /\ next # <<>> /\ DOMAIN next = 1 .. n + 1 /\ DOMAIN stack = 1 .. n
      /\ next[n + 1] = x /\ \A i \in 1 .. n : next[i] = stack[i]
  <2>1. x \in FrameType
    BY <1>3
  <2>2. DOMAIN stack = 1 .. n
    BY LastElement
  <2>3. /\ next # <<>> /\ DOMAIN next = 1 .. n + 1 /\ next[n + 1] = x
        /\ \A i \in 1 .. n : next[i] = stack[i]
    BY ZenonT(60), <2>1, AppendElements
  <2> QED BY <2>2, <2>3
<1> HIDE DEF next
<1>5. StackShape(stack, l)
  BY DEF StackOK
<1>6. Base(next[1]) = Outermost(l)
  BY SMTT(60), <1>1, <1>4, <1>5 DEF StackShape
<1>7. ASSUME NEW i \in 1 .. n + 1
      PROVE  /\ Base(next[i]) \in Unfolding(Outermost(l))
             /\ next[i].kind = "definition" <=> i = 1
             /\ i > 1 => LinkedTo(next[i - 1], next[i])
  <2>1. CASE i \in 1 .. n
    <3>1. i > 1 => i - 1 \in 1 .. n
      BY <1>1, <2>1
    <3> QED BY <1>4, <1>5, <2>1, <3>1 DEF StackShape
  <2>2. CASE i = n + 1
    <3>1. Outermost(l) \in Expansions
      BY DEF Outermost, Expansions
    <3>2. Base(f) \in Unfolding(Outermost(l))
      BY <1>1, <1>5 DEF StackShape
    <3>3. x \in Unfolding(Outermost(l))
      BY <1>3, <3>1, <3>2, UnfoldingLeast
    <3>4. next[i] = x /\ next[i - 1] = f /\ i # 1
      <4>1. n + 1 # 1 /\ n + 1 - 1 = n /\ n \in 1 .. n
        BY <1>1
      <4> QED BY <4>1, <1>4, <2>2
    <3>5. LinkedTo(f, x)
      BY <1>3 DEF LinkedTo
    <3> QED BY <1>3, <3>3, <3>4, <3>5
  <2> QED BY <1>1, <2>1, <2>2
<1>8. ASSUME NEW i \in 1 .. n + 1, NEW j \in 1 .. n + 1, i <= j
      PROVE  Node(next[j]) \in Follow(Node(next[i]))
  <2>1. CASE j # n + 1
    <3>1. i \in 1 .. n /\ j \in 1 .. n
      BY <1>1, <1>8, <2>1
    <3> QED BY <1>4, <1>5, <1>8, <3>1 DEF StackShape
  <2>2. CASE j = n + 1
    <3>1. Node(x) \in Nodes
      BY <1>3 DEF Node, Nodes, Expansions
    <3>2. CASE i = n + 1
      BY <1>4, <2>2, <3>1, <3>2, FollowLeast
    <3>3. CASE i # n + 1
      <4>1. i \in 1 .. n
        BY <1>1, <3>3
      <4>2. Node(f) \in Follow(Node(stack[i]))
        BY <1>1, <1>4, <1>5, <4>1 DEF StackShape
      <4>3. Node(x) \in Targets(Node(f))
        BY <1>2, <1>3 DEF Targets, Node, References
      <4>4. stack[i] \in FrameType
        BY <1>4, <4>1, LastElement
      <4>5. Node(stack[i]) \in Nodes
        BY <4>4 DEF Node, Nodes, FrameType
      <4> QED BY <1>4, <2>2, <4>1, <4>2, <4>3, <4>5, FollowLeast
    <3> QED BY <3>2, <3>3
  <2> QED BY <2>1, <2>2
<1>9. StackShape(next, l)
  BY <1>4, <1>6, <1>7, <1>8 DEF StackShape
<1>10. ASSUME NEW i \in 1 .. n + 1 PROVE FrameOK(next[i], E, L, C)
  <2>1. CASE i \in 1 .. n
    BY <1>4, <2>1 DEF StackOK
  <2>2. CASE i = n + 1
    <3>1. Seen(x) = {}
      <4>1. x.at = 1
        BY <1>3
      <4>2. 1 .. 1 - 1 = {}
        OBVIOUS
      <4> QED BY <4>1, <4>2 DEF Seen
    <3> QED BY <1>3, <1>4, <2>2, <3>1 DEF FrameOK, Handled, Finds
  <2> QED BY <1>1, <2>1, <2>2
<1>11. SinglesFound(next[1], E)
  BY <1>1, <1>4 DEF StackOK
<1>12. StackOK(next, l, E, L, C)
  BY <1>4, <1>9, <1>10, <1>11 DEF StackOK
<1> QED BY <1>12 DEF next

\* A reference is left.
LEMMA StackPops ==
    ASSUME NEW E, NEW L, NEW C, NEW stack \in Seq(FrameType), Len(stack) > 1,
           NEW l, StackOK(stack, l, E, L, C),
           NEW below, below = SubSeq(stack, 1, Len(stack) - 1)
    PROVE  /\ below \in Seq(FrameType) /\ below # <<>> /\ Len(below) = Len(stack) - 1
           /\ below[Len(below)] = stack[Len(stack) - 1] /\ below[1] = stack[1]
           /\ StackOK(below, l, E, L, C)
<1> DEFINE n == Len(stack)
<1>1. n \in Nat /\ n > 1 /\ DOMAIN stack = 1 .. n
  OBVIOUS
<1>2. /\ below \in Seq(FrameType) /\ Len(below) = n - 1 /\ DOMAIN below = 1 .. n - 1
      /\ \A i \in 1 .. n - 1 : below[i] = stack[i]
  BY <1>1
<1>3. below # <<>> /\ below[n - 1] = stack[n - 1] /\ below[1] = stack[1]
  <2>1. n - 1 \in 1 .. n - 1 /\ 1 \in 1 .. n - 1
    BY <1>1
  <2>2. below # <<>>
    <3>1. Len(below) # 0
      BY <1>1, <1>2
    <3> QED BY <3>1
  <2> QED BY <1>2, <2>1, <2>2
<1>4. StackShape(below, l)
  <2>1. StackShape(stack, l)
    BY DEF StackOK
  <2>2. \A i \in 1 .. n - 1 : i \in 1 .. n /\ (i > 1 => i - 1 \in 1 .. n - 1)
    BY <1>1
  <2>3. Base(below[1]) = Outermost(l)
    BY <1>1, <1>3, <2>1 DEF StackShape
  <2>4. \A i \in 1 .. n - 1 : i > 1 => LinkedTo(below[i - 1], below[i])
    BY <1>1, <1>2, <2>1, <2>2 DEF StackShape
  <2>5. \A i \in 1 .. n - 1 : /\ Base(below[i]) \in Unfolding(Outermost(l))
                              /\ below[i].kind = "definition" <=> i = 1
    BY <1>1, <1>2, <2>1, <2>2 DEF StackShape
  <2>6. \A i, j \in 1 .. n - 1 : i <= j => Node(below[j]) \in Follow(Node(below[i]))
    BY <1>1, <1>2, <2>1, <2>2 DEF StackShape
  <2> QED BY <1>2, <2>3, <2>4, <2>5, <2>6 DEF StackShape
<1>5. \A i \in 1 .. n - 1 : FrameOK(below[i], E, L, C)
  BY <1>1, <1>2 DEF StackOK
<1>6. SinglesFound(below[1], E)
  BY <1>1, <1>3 DEF StackOK
<1> QED BY <1>2, <1>3, <1>4, <1>5, <1>6 DEF StackOK

-----------------------------------------------------------------------------
(* The invariant *)

\* A location that was looked through: what it means is loaded, as far as the
\* filters let it, and nothing of it is cyclic or unknown.
PartDone(s) ==
    /\ ~ Cyclic(spec[s])
    /\ \A c \in Meaning(s) : Accounted(c, loaded, candidates[s])
    /\ \A i \in Single(spec[s]) : Found(spec[s], i)

CurrentInv ==
    frames # <<>> =>
        /\ StackOK(frames, spec[part], expanded, loaded, candidates[part])
        /\ MemoOK(expanded, loaded, candidates[part])

PartsInv ==
    \A s \in 1 .. part :
        /\ spec[s] \in DOMAIN Source /\ candidates[s] \in Seq(Kept(s))
        /\ s < part \/ frames = <<>> => PartDone(s)

NamesInv ==
    \A n \in loaded :
        \E s \in 1 .. part : \E c \in Meaning(s) : Eligible(c) /\ c.name = n

OutcomeInv ==
    /\ DOMAIN spec = 1 .. Len(spec) /\ Len(spec) \in Nat
    /\ part <= Len(spec) /\ (frames # <<>> => part # 0)
    /\ Expanded \/ status = "loaded" => frames = <<>> /\ part = Len(spec)
    /\ status = "cyclic" => Cyclic(spec[part])
    /\ status = "unknown" => ~ Found(frames[1].loc, frames[1].at)

MeaningInv == CurrentInv /\ PartsInv /\ NamesInv /\ OutcomeInv

\* The filters and the specification stay as they are.
LEMMA CurrentNext ==
    ASSUME UNCHANGED <<spec, selection>>,
           frames' # <<>> =>
              (/\ StackOK(frames', spec[part'], expanded', loaded', candidates'[part'])
               /\ MemoOK(expanded', loaded', candidates'[part']))
    PROVE  CurrentInv'
BY DEF CurrentInv, StackOK, FrameOK, MemoOK, Handled, Accounted, Eligible, Selects,
       WithinPriority

LEMMA NamesNext ==
    ASSUME UNCHANGED <<spec, selection>>,
           \A n \in loaded' : \E s \in 1 .. part' : \E c \in Meaning(s) : Eligible(c) /\ c.name = n
    PROVE  NamesInv'
BY DEF NamesInv, Meaning, Eligible, WithinPriority

LEMMA PartsNext ==
    ASSUME UNCHANGED <<spec, selection>>,
           \A s \in 1 .. part' :
              /\ spec[s] \in DOMAIN Source /\ candidates'[s] \in Seq(Kept(s))
              /\ s < part' \/ frames' = <<>> =>
                    (/\ ~ Cyclic(spec[s])
                     /\ \A c \in Meaning(s) : Accounted(c, loaded', candidates'[s])
                     /\ \A i \in Single(spec[s]) : Found(spec[s], i))
    PROVE  PartsInv'
BY DEF PartsInv, PartDone, Kept, Meaning, Accounted, Eligible, Selects, WithinPriority

\* Nothing but the frames and the lists of results moves in a load.
LEMMA OutcomeNext ==
    ASSUME OutcomeInv, UNCHANGED <<spec, part>>, status' = "loading",
           frames' # <<>> => frames # <<>>
    PROVE  OutcomeInv'
BY DEF OutcomeInv, Expanded

\* The frame on top of a load that looks at an element.
LEMMA TopFacts ==
    ASSUME TypeOK, MeaningInv, Expanding
    PROVE  /\ frames \in Seq(FrameType) /\ frames # <<>> /\ Frame \in FrameType
           /\ Frame = frames[Len(frames)] /\ Element = Source[Frame.loc][Frame.at]
           /\ Frame.at \in 1 .. Len(Source[Frame.loc]) /\ Frame.loc \in DOMAIN Source
           /\ Element \in ElementsOf(Frame.loc)
           /\ part \in 1 .. part /\ spec[part] \in DOMAIN Source
           /\ StackOK(frames, spec[part], expanded, loaded, candidates[part])
           /\ MemoOK(expanded, loaded, candidates[part])
           /\ Len(frames) = 1 => Frame.rule = NoName
           /\ Frame.kind = "definition" <=> Len(frames) = 1
<1>1. /\ frames # <<>> /\ Frame \in FrameType /\ Frame.loc \in DOMAIN Source
      /\ Frame.at \in 1 .. Len(Elements) /\ Len(frames) \in DOMAIN frames
      /\ frames \in Seq(FrameType) /\ Len(frames) \in Nat \ {0}
  BY FrameFacts DEF Expanding, TypeOK
<1>2. Elements = Source[Frame.loc] /\ Frame = frames[Len(frames)]
      /\ Element = Source[Frame.loc][Frame.at]
  BY DEF Elements, Element, Frame
<1>3. Element \in ElementsOf(Frame.loc)
  BY <1>1, <1>2, SourceAssumption DEF ElementsOf
<1>4. part \in 1 .. part
  <2>1. part \in Nat
    BY DEF TypeOK
  <2>2. part # 0
    BY <1>1 DEF MeaningInv, OutcomeInv
  <2> QED BY <2>1, <2>2
<1>5. spec[part] \in DOMAIN Source
  BY <1>4 DEF MeaningInv, PartsInv
<1>6. /\ StackOK(frames, spec[part], expanded, loaded, candidates[part])
      /\ MemoOK(expanded, loaded, candidates[part])
  BY <1>1 DEF MeaningInv, CurrentInv
<1>7. StackShape(frames, spec[part])
  BY <1>6 DEF StackOK
<1>8. Frame.kind = "definition" <=> Len(frames) = 1
  BY <1>1, <1>2, <1>7 DEF StackShape
<1>9. ASSUME Len(frames) = 1 PROVE Frame.rule = NoName
  <2>1. Base(Frame) = Outermost(spec[part])
    BY <1>1, <1>2, <1>7, <1>9 DEF StackShape
  <2> QED BY <1>1, <2>1, BaseFacts DEF Outermost
<1> QED BY <1>1, <1>2, <1>3, <1>4, <1>5, <1>6, <1>8, <1>9

\* An element is passed, with what it adds to the results of its part.
LEMMA PassMeaning ==
    ASSUME TypeOK, MeaningInv, Expanding,
           UNCHANGED <<spec, selection, status, part, expanded>>,
           NEW b \in BOOLEAN, frames' = Advanced(frames, b), loaded \subseteq loaded',
           \A s \in 1 .. part : s # part => candidates'[s] = candidates[s],
           \A i \in DOMAIN candidates[part] :
              \E j \in DOMAIN candidates'[part] : candidates'[part][j] = candidates[part][i],
           candidates'[part] \in Seq(Kept(part)),
           \A n \in loaded' \ loaded : \E c \in Meaning(part) : Eligible(c) /\ c.name = n,
           Handled(Frame, {Element}, expanded, loaded', candidates'[part]),
           b <=> Finds(Frame, {Element}, expanded),
           Len(frames) = 1 /\ Element.form = "ref" /\ Resolve(Element).rule # NoName => b
    PROVE  MeaningInv'
<1> DEFINE l == spec[part]
           E == expanded
           D == candidates'[part]
<1>1. /\ frames \in Seq(FrameType) /\ frames # <<>>
      /\ Frame = frames[Len(frames)] /\ Element = Source[Frame.loc][Frame.at]
      /\ Frame.at \in 1 .. Len(Source[Frame.loc]) /\ part \in 1 .. part
      /\ l \in DOMAIN Source
      /\ StackOK(frames, l, E, loaded, candidates[part])
      /\ MemoOK(E, loaded, candidates[part])
  BY TopFacts
<1>2. StackOK(frames, l, E, loaded', D) /\ MemoOK(E, loaded', D)
  BY <1>1, StackGrows, MemoKept
<1>3. StackOK(frames', l, E, loaded', D)
  BY <1>1, <1>2, StackPasses
<1>4. frames' # <<>>
  BY <1>1, AdvancedStack
<1>5. CurrentInv'
  BY <1>2, <1>3, CurrentNext
<1>6. PartsInv'
  <2>1. ASSUME NEW s \in 1 .. part
        PROVE  spec[s] \in DOMAIN Source /\ candidates'[s] \in Seq(Kept(s))
    BY <2>1 DEF MeaningInv, PartsInv
  <2>2. ASSUME NEW s \in 1 .. part, s < part
        PROVE  /\ ~ Cyclic(spec[s])
               /\ \A c \in Meaning(s) : Accounted(c, loaded', candidates'[s])
               /\ \A i \in Single(spec[s]) : Found(spec[s], i)
    <3>1. PartDone(s) /\ candidates'[s] = candidates[s]
      BY <2>2, <1>1 DEF MeaningInv, PartsInv, TypeOK
    <3>2. \A c \in Meaning(s) : Accounted(c, loaded, candidates[s])
      BY <3>1 DEF PartDone
    <3>3. \A c \in Meaning(s) : Accounted(c, loaded', candidates'[s])
      BY <3>1, <3>2, AccountedGrows
    <3> QED BY <3>1, <3>3 DEF PartDone
  <2> QED BY <1>4, <2>1, <2>2, PartsNext
<1>7. NamesInv'
  <2>1. \A n \in loaded' : \E s \in 1 .. part : \E c \in Meaning(s) : Eligible(c) /\ c.name = n
    BY <1>1 DEF MeaningInv, NamesInv
  <2> QED BY <2>1, NamesNext
<1>8. OutcomeInv'
  BY <1>1, OutcomeNext DEF MeaningInv, Expanding
<1> QED BY <1>5, <1>6, <1>7, <1>8 DEF MeaningInv

\* A definition that a frame looks for belongs to what its part means.
LEMMA WantedMeant ==
    ASSUME TypeOK, MeaningInv, Wanted
    PROVE  /\ Wants(Frame, Element) /\ ~ Follows(Frame.rule, Element)
           /\ Defined(Element, Frame) \in Meaning(part)
           /\ Finds(Frame, {Element}, expanded)
<1> DEFINE f == Frame
           e == Element
           o == Outermost(spec[part])
<1>1. /\ f \in FrameType /\ e \in ElementsOf(f.loc) /\ frames # <<>>
      /\ f = frames[Len(frames)] /\ frames \in Seq(FrameType)
      /\ StackOK(frames, spec[part], expanded, loaded, candidates[part])
  BY TopFacts DEF Wanted
<1>2. Wants(f, e) /\ ~ Follows(f.rule, e)
  BY DEF Wanted, Wants, Follows
<1>3. Base(f) \in Unfolding(o)
  BY <1>1 DEF StackOK, StackShape
<1>4. /\ Base(f).loc = f.loc /\ Base(f).rule = f.rule /\ Base(f).kind = f.kind
      /\ Base(f).excluded = f.excluded /\ Base(f).override = f.override
  BY <1>1, BaseFacts
<1>5. Wants(Base(f), e) /\ Defined(e, Base(f)) = Defined(e, f)
  BY <1>2, <1>4 DEF Wants, Defined, RefOverride
<1>6. Defined(e, f) \in Own(Base(f))
  BY <1>1, <1>4, <1>5 DEF Own
<1>7. Defined(e, f) \in Meaning(part)
  BY <1>3, <1>6 DEF Meaning, Unfold
<1> QED BY <1>2, <1>7 DEF Finds

-----------------------------------------------------------------------------
(* One step at a time *)

LEMMA SkipMeaning == TypeOK /\ MeaningInv /\ SkipElement => MeaningInv'
<1> SUFFICES ASSUME TypeOK, MeaningInv, SkipElement PROVE MeaningInv'
  OBVIOUS
<1> DEFINE C == candidates[part]
<1>1. /\ Expanding /\ frames' = Advanced(frames, FALSE)
      /\ UNCHANGED <<spec, selection, status, part, expanded, candidates, loaded>>
  BY DEF SkipElement
<1>2. ~ Wants(Frame, Element) /\ ~ Follows(Frame.rule, Element)
  BY DEF SkipElement, Wants, Follows
<1>3. /\ Handled(Frame, {Element}, expanded, loaded', candidates'[part])
      /\ ~ Finds(Frame, {Element}, expanded)
  BY <1>2 DEF Handled, Finds
<1>4. ~ (Len(frames) = 1 /\ Element.form = "ref" /\ Resolve(Element).rule # NoName)
  <2>1. Len(frames) = 1 => Frame.rule = NoName
    BY <1>1, TopFacts
  <2> QED BY <1>2, <2>1 DEF Follows, Filtered
<1>5. candidates'[part] = C /\ C \in Seq(Kept(part))
  BY <1>1, TopFacts DEF MeaningInv, PartsInv
<1> QED BY <1>1, <1>3, <1>4, <1>5, PassMeaning

LEMMA RejectMeaning == TypeOK /\ MeaningInv /\ RejectDefinition => MeaningInv'
<1> SUFFICES ASSUME TypeOK, MeaningInv, RejectDefinition PROVE MeaningInv'
  OBVIOUS
<1> DEFINE c == Defined(Element, Frame)
           C == candidates[part]
<1>1. /\ Wanted /\ Expanding /\ frames' = Advanced(frames, TRUE) /\ ~ Selects(Element.name)
      /\ UNCHANGED <<spec, selection, status, part, expanded, candidates>>
  BY DEF RejectDefinition, Wanted
<1>2. /\ Wants(Frame, Element) /\ ~ Follows(Frame.rule, Element)
      /\ c \in Meaning(part) /\ Finds(Frame, {Element}, expanded)
  BY <1>1, WantedMeant
<1>3. /\ c.name = Element.name /\ c.class = Element.class
      /\ c.priority = EffectivePriority(Element, RefOverride(Element, Frame))
  BY DEF Defined, Candidate
<1>4. loaded' = IF Eligible(c) THEN loaded \cup {c.name} ELSE loaded
  BY <1>3 DEF RejectDefinition, Eligible
<1> HIDE DEF c
<1>5. Accounted(c, loaded', candidates'[part])
  BY <1>1, <1>3, <1>4 DEF Accounted
<1>6. Handled(Frame, {Element}, expanded, loaded', candidates'[part])
  BY <1>2, <1>5 DEF Handled, c
<1>7. loaded \subseteq loaded' /\ \A n \in loaded' \ loaded : Eligible(c) /\ c.name = n
  BY <1>4
<1>8. candidates'[part] = C /\ C \in Seq(Kept(part))
  BY <1>1, TopFacts DEF MeaningInv, PartsInv
<1> QED BY <1>1, <1>2, <1>6, <1>7, <1>8, PassMeaning

\* Load fails: what was collected stays as it is.
LEMMA FailMeaning ==
    ASSUME MeaningInv, UNCHANGED <<spec, selection>>,
           NEW error \in {"unreadable", "cyclic", "unknown", "configure"}, Fail(error),
           error = "cyclic" => Cyclic(spec[part]),
           error = "unknown" => ~ Found(frames[1].loc, frames[1].at)
    PROVE  MeaningInv'
<1>1. status' = error /\ UNCHANGED <<part, frames, expanded, candidates, loaded>>
  BY DEF Fail
<1>2. CurrentInv'
  BY <1>1, CurrentNext DEF MeaningInv, CurrentInv
<1>3. PartsInv'
  BY <1>1, PartsNext DEF MeaningInv, PartsInv, PartDone
<1>4. NamesInv'
  BY <1>1, NamesNext DEF MeaningInv, NamesInv
<1>5. OutcomeInv'
  BY <1>1 DEF MeaningInv, OutcomeInv, Expanded
<1> QED BY <1>2, <1>3, <1>4, <1>5 DEF MeaningInv

LEMMA BuildMeaning == TypeOK /\ MeaningInv /\ BuildDefinition => MeaningInv'
<1> SUFFICES ASSUME TypeOK, MeaningInv, BuildDefinition PROVE MeaningInv'
  OBVIOUS
<1> DEFINE c == Candidate(Element, RefOverride(Element, Frame), Frame.kind)
           C == candidates[part]
<1>1. /\ Wanted /\ Expanding /\ Selects(Element.name) /\ UNCHANGED <<spec, selection>>
  BY DEF BuildDefinition, Wanted
<1>2. /\ Wants(Frame, Element) /\ ~ Follows(Frame.rule, Element)
      /\ c \in Meaning(part) /\ Finds(Frame, {Element}, expanded)
  BY <1>1, WantedMeant DEF Defined
<1>3. c.name = Element.name /\ c.class = Element.class
  BY DEF Candidate
<1>4. C \in Seq(Kept(part)) /\ part \in DOMAIN candidates
  BY <1>1, TopFacts DEF MeaningInv, PartsInv, TypeOK
<1>5. CASE Fail("configure")
  BY <1>1, <1>5, FailMeaning
<1>6. ASSUME frames' = Advanced(frames, TRUE), UNCHANGED <<status, part, expanded>>,
             loaded \subseteq loaded', \A s \in 1 .. part : s # part => candidates'[s] = candidates[s],
             \A i \in DOMAIN C : \E j \in DOMAIN candidates'[part] : candidates'[part][j] = C[i],
             candidates'[part] \in Seq(Kept(part)),
             \A n \in loaded' \ loaded : Eligible(c) /\ c.name = n,
             Accounted(c, loaded', candidates'[part])
      PROVE  MeaningInv'
  <2>1. Handled(Frame, {Element}, expanded, loaded', candidates'[part])
    BY <1>2, <1>6 DEF Handled, Defined
  <2>2. ~ (Element.form = "ref")
    BY <1>1 DEF Wanted
  <2>3. \A n \in loaded' \ loaded : \E d \in Meaning(part) : Eligible(d) /\ d.name = n
    BY <1>2, <1>6
  <2> HIDE DEF c
  <2> QED BY <1>1, <1>2, <1>6, <2>1, <2>2, <2>3, PassMeaning
<1>7. CASE /\ c.class \notin Implemented
           /\ frames' = Advanced(frames, TRUE)
           /\ UNCHANGED <<status, part, expanded, candidates, loaded>>
  <2>1. ~ Eligible(c)
    BY <1>7 DEF Eligible
  <2> HIDE DEF c
  <2>2. Accounted(c, loaded', candidates'[part])
    BY <2>1 DEF Accounted
  <2> QED BY <1>4, <1>6, <1>7, <2>2
<1>8. CASE /\ c.class \in Implemented
           /\ frames' = Advanced(frames, TRUE)
           /\ UNCHANGED <<status, part, expanded>>
           /\ WithinPriority(c.priority)
           /\ loaded' = loaded \cup {c.name}
           /\ candidates' = [candidates EXCEPT ![part] = Append(@, c)]
  <2>1. Eligible(c)
    BY <1>8 DEF Eligible
  <2>2. c \in Kept(part)
    BY <1>1, <1>2, <1>3, <2>1 DEF Kept
  <2> HIDE DEF c, C
  <2>3. candidates'[part] = Append(C, c)
    BY <1>4, <1>8 DEF C
  <2>4. /\ Append(C, c) \in Seq(Kept(part))
        /\ Len(C) + 1 \in DOMAIN Append(C, c) /\ Append(C, c)[Len(C) + 1] = c
        /\ \A i \in DOMAIN C : i \in DOMAIN Append(C, c) /\ Append(C, c)[i] = C[i]
    BY <1>4, <2>2
  <2>5. Accounted(c, loaded', candidates'[part])
    BY <1>8, <2>3, <2>4 DEF Accounted
  <2>6. \A s \in 1 .. part : s # part => candidates'[s] = candidates[s]
    BY <1>8
  <2>7. \A i \in DOMAIN C : \E j \in DOMAIN candidates'[part] : candidates'[part][j] = C[i]
    BY <2>3, <2>4
  <2> QED BY <1>6, <1>8, <2>1, <2>3, <2>4, <2>5, <2>6, <2>7 DEF C
<1>9. CASE /\ c.class \in Implemented
           /\ frames' = Advanced(frames, TRUE)
           /\ UNCHANGED <<status, part, expanded>>
           /\ ~ WithinPriority(c.priority)
           /\ UNCHANGED <<loaded, candidates>>
  <2>1. ~ Eligible(c)
    BY <1>9 DEF Eligible
  <2> HIDE DEF c
  <2>2. Accounted(c, loaded', candidates'[part])
    BY <2>1 DEF Accounted
  <2> QED BY <1>4, <1>6, <1>9, <2>2
<1> QED BY <1>5, <1>7, <1>8, <1>9 DEF BuildDefinition

\* A reference of the location asked for is remembered to have found a rule
\* exactly if its reference unfolds to one.
LEMMA SingleMeans ==
    ASSUME NEW E, NEW L, NEW C, MemoOK(E, L, C), NEW l \in DOMAIN Source,
           NEW f \in FrameType, Base(f) = Outermost(l), NEW i \in DOMAIN Source[l],
           NEW e, e = Source[l][i], Follows(f.rule, e), Readable(e), LeadsTo(f, e) \in DOMAIN E
    PROVE  E[LeadsTo(f, e)] <=> Found(l, i)
<1> DEFINE o == Outermost(l)
           x == Expansion(e, o, "inherited")
<1>1. o \in Expansions /\ o.loc = l
  BY DEF Outermost, Expansions
<1>2. f.rule = o.rule /\ Key(f) = Key(o)
  BY BaseFacts
<1>3. e \in References(o.loc, o.rule)
  BY <1>1, <1>2 DEF References, ElementsOf
<1> HIDE DEF o
<1>4. x \in Expansions
  BY <1>1, <1>3, FollowingType DEF Kinds
<1>5. Key(x) = LeadsTo(f, e)
  BY <1>2, KeySettles DEF LeadsTo
<1>6. Found(l, i) <=> Unfold(x) # {}
  BY DEF Found, o
<1> HIDE DEF x
<1> QED BY <1>4, <1>5, <1>6, MemoMeans

\* A reference back to a ruleset under expansion closes a cycle.
LEMMA CycleClosed ==
    ASSUME NEW stack \in Seq(FrameType), NEW l \in DOMAIN Source, StackShape(stack, l),
           NEW f, stack # <<>>, f = stack[Len(stack)],
           NEW t \in Targets(Node(f)), NEW i \in DOMAIN stack, t[1] = stack[i].loc
    PROVE  Cyclic(l)
<1> DEFINE n == Node(stack[i])
<1>1. /\ Len(stack) \in DOMAIN stack /\ 1 \in DOMAIN stack /\ i <= Len(stack) /\ 1 <= i
      /\ \A j \in DOMAIN stack : stack[j] \in FrameType
  OBVIOUS
<1>2. \A j \in DOMAIN stack : Node(stack[j]) \in Nodes
  BY <1>1 DEF Node, Nodes, FrameType
<1>3. Node(f) \in Follow(n) /\ n \in Follow(Node(stack[1]))
  BY <1>1 DEF StackShape
<1>4. Node(stack[1]) = <<l, NoName>>
  <2>1. Base(stack[1]) = Outermost(l)
    BY <1>1 DEF StackShape
  <2>2. Node(stack[1]) = Node(Outermost(l))
    BY <1>1, <2>1, BaseFacts
  <2> QED BY <2>2 DEF Node, Outermost
<1>5. t[1] = n[1]
  BY DEF Node
<1>6. n \in Nodes /\ Node(f) \in Nodes
  BY <1>1, <1>2
<1> HIDE DEF n
<1>7. \E m \in Targets(n) : t \in Follow(m)
  <2>1. CASE Node(f) = n
    <3>1. t \in Nodes
      BY <1>6, TargetType DEF Targets
    <3>2. t \in Follow(t)
      BY <3>1, FollowLeast
    <3> QED BY <2>1, <3>2
  <2>2. CASE Node(f) # n
    <3>1. PICK m \in Targets(n) : Node(f) \in Follow(m)
      BY <1>3, <1>6, <2>2, FollowLeast
    <3>2. m \in Nodes
      BY <1>6, TargetType DEF Targets
    <3>3. t \in Follow(m)
      BY <3>1, <3>2, FollowLeast
    <3> QED BY <3>3
  <2> QED BY <2>1, <2>2
<1> QED BY <1>3, <1>4, <1>5, <1>7 DEF Cyclic

LEMMA ReferenceMeaning == TypeOK /\ MeaningInv /\ Reference => MeaningInv'
<1> SUFFICES ASSUME TypeOK, MeaningInv, Reference PROVE MeaningInv'
  OBVIOUS
<1> DEFINE x == Expansion(Element, Frame, ReferenceKind)
           l == spec[part]
           C == candidates[part]
<1>1. /\ Expanding /\ Element.form = "ref" /\ Follows(Frame.rule, Element)
      /\ ~ Wants(Frame, Element) /\ UNCHANGED <<spec, selection>>
  BY DEF Reference, Follows, Wants
<1>2. /\ frames \in Seq(FrameType) /\ frames # <<>> /\ Frame \in FrameType
      /\ Frame = frames[Len(frames)] /\ Element = Source[Frame.loc][Frame.at]
      /\ Frame.at \in 1 .. Len(Source[Frame.loc]) /\ Frame.loc \in DOMAIN Source
      /\ Element \in ElementsOf(Frame.loc) /\ part \in 1 .. part /\ l \in DOMAIN Source
      /\ StackOK(frames, l, expanded, loaded, C) /\ MemoOK(expanded, loaded, C)
      /\ (Len(frames) = 1 => Frame.rule = NoName)
      /\ (Frame.kind = "definition" <=> Len(frames) = 1)
  BY <1>1, TopFacts
<1>3. ReferenceKind = KindIn(Element, Frame)
  <2>1. CASE Len(frames) = 1
    <3>1. ~ (Len(frames) > 1)
      BY <2>1
    <3>2. Frame.kind = "definition"
      BY <1>2, <2>1, Zenon
    <3> QED BY <3>1, <3>2, Zenon DEF ReferenceKind, KindIn
  <2>2. CASE Len(frames) # 1
    <3>1. Len(frames) > 1
      <4>1. PICK n \in Nat \ {0} : n = Len(frames)
        BY <1>2
      <4>2. n > 1
        BY <2>2, <4>1
      <4> QED BY <4>1, <4>2
    <3>2. Frame.kind # "definition"
      BY <1>2, <2>2, Zenon
    <3> QED BY <3>1, <3>2, Zenon DEF ReferenceKind, KindIn
  <2> QED BY <2>1, <2>2
<1>4. x.loc \in DOMAIN Source <=> Readable(Element)
  BY DEF Expansion, Readable
<1>5. x = Expansion(Element, Frame, KindIn(Element, Frame))
  BY <1>3
<1> HIDE DEF x
<1>6. CASE x.loc \notin DOMAIN Source /\ Fail("unreadable")
  BY <1>1, <1>6, FailMeaning
<1>7. CASE x.loc \in (DOMAIN Source) \cap Active /\ Fail("cyclic")
  <2>1. Readable(Element)
    BY <1>4, <1>7
  <2>2. Node(x) \in Targets(Node(Frame)) /\ Node(x)[1] = x.loc
    <3>1. Node(x) = Target(Element, Frame.rule)
      BY <1>5, NodeOfExpansion
    <3>2. Element \in References(Frame.loc, Frame.rule)
      BY <1>1, <1>2, <2>1 DEF References
    <3> QED BY <3>1, <3>2 DEF Targets, Node
  <2>3. PICK i \in DOMAIN frames : frames[i].loc = x.loc
    BY <1>7 DEF Active
  <2>4. Cyclic(l)
    BY <1>2, <2>2, <2>3, CycleClosed DEF StackOK
  <2> QED BY <1>1, <1>7, <2>4, FailMeaning
<1>8. CASE /\ x.loc \in (DOMAIN Source) \ Active
           /\ frames' = Append(frames, x)
           /\ UNCHANGED <<status, part, expanded, candidates, loaded>>
  <2>1. StackOK(frames', l, expanded, loaded, C)
    BY <1>1, <1>2, <1>4, <1>5, <1>8, StackPushes
  <2>2. frames' # <<>>
    <3>1. x \in FrameType
      BY <1>1, <1>2, <1>4, <1>5, <1>8, ExpansionOfFrame
    <3>2. Len(Append(frames, x)) = Len(frames) + 1 /\ Len(frames) \in Nat
      BY <1>2, <3>1
    <3>3. Len(Append(frames, x)) # 0
      BY <3>2
    <3> QED BY <1>8, <3>3
  <2>3. CurrentInv'
    BY <1>1, <1>2, <1>8, <2>1, CurrentNext
  <2>4. PartsInv'
    BY <1>1, <1>8, <2>2, PartsNext DEF MeaningInv, PartsInv, PartDone
  <2>5. NamesInv'
    BY <1>1, <1>8, NamesNext DEF MeaningInv, NamesInv
  <2>6. OutcomeInv'
    BY <1>1, <1>2, <1>8, OutcomeNext DEF MeaningInv, Expanding
  <2> QED BY <2>3, <2>4, <2>5, <2>6 DEF MeaningInv
<1>9. CASE x.loc \in (DOMAIN Source) \ Active /\ Key(x) \in DOMAIN expanded
  <2> DEFINE b == expanded[Key(x)]
  <2>1. Readable(Element) /\ Key(x) = LeadsTo(Frame, Element) /\ b \in BOOLEAN
    <3>1. Readable(Element) /\ b \in BOOLEAN
      BY <1>4, <1>9 DEF TypeOK
    <3> QED BY <1>1, <1>2, <1>5, <3>1, ExpansionOfFrame
  <2>2. Handled(Frame, {Element}, expanded, loaded, C) /\ (b <=> Finds(Frame, {Element}, expanded))
    BY <1>1, <1>9, <2>1 DEF Handled, Finds
  <2>3. CASE Unknown(frames, b) /\ Fail("unknown")
    <3>1. Len(frames) = 1 /\ ~ b
      BY <2>3 DEF Unknown
    <3>2. Frame = frames[1] /\ Base(Frame) = Outermost(l)
      BY <1>2, <3>1 DEF StackOK, StackShape
    <3>3. Frame.loc = l
      BY <1>2, <3>2, BaseFacts DEF Outermost
    <3>4. Frame.at \in DOMAIN Source[l] /\ Element = Source[l][Frame.at]
      BY <1>2, <3>3, SourceAssumption
    <3>5. ~ Found(l, Frame.at)
      BY <1>1, <1>2, <1>9, <2>1, <3>1, <3>2, <3>4, SingleMeans
    <3> QED BY <1>1, <2>3, <3>2, <3>3, <3>5, FailMeaning
  <2>4. CASE /\ ~ Unknown(frames, b) /\ frames' = Advanced(frames, b)
             /\ UNCHANGED <<status, part, expanded, candidates, loaded>>
    <3>1. Len(frames) = 1 /\ Resolve(Element).rule # NoName => b
      BY <1>2, <2>4 DEF Unknown
    <3>2. C \in Seq(Kept(part)) /\ candidates'[part] = C
      BY <1>2, <2>4 DEF MeaningInv, PartsInv
    <3> HIDE DEF b
    <3> QED BY <1>1, <2>1, <2>2, <2>4, <3>1, <3>2, PassMeaning
  <2> QED BY <1>9, <2>3, <2>4 DEF Reference, x
<1> QED BY <1>6, <1>7, <1>8, <1>9 DEF Reference, x

\* The frame on top of a load that looked at all its elements.
LEMMA DoneFacts ==
    ASSUME TypeOK, MeaningInv, frames # <<>>, Frame.at > Len(Elements)
    PROVE  /\ frames \in Seq(FrameType) /\ Frame \in FrameType
           /\ Len(frames) \in DOMAIN frames /\ Len(frames) \in Nat \ {0}
           /\ Frame = frames[Len(frames)]
           /\ part \in 1 .. part /\ spec[part] \in DOMAIN Source
           /\ StackOK(frames, spec[part], expanded, loaded, candidates[part])
           /\ MemoOK(expanded, loaded, candidates[part])
           /\ Frame.at = Len(Source[Frame.loc]) + 1
           /\ Handled(Frame, ElementsOf(Frame.loc), expanded, loaded, candidates[part])
           /\ Frame.found <=> Finds(Frame, ElementsOf(Frame.loc), expanded)
           /\ Frame.found \in BOOLEAN
<1>1. /\ Frame \in FrameType /\ Frame.loc \in DOMAIN Source
      /\ Frame.at \in 1 .. Len(Elements) + 1 /\ Len(Elements) \in Nat
      /\ Len(frames) \in DOMAIN frames /\ Len(frames) \in Nat \ {0}
  BY FrameFacts
<1>2. frames \in Seq(FrameType) /\ Frame = frames[Len(frames)] /\ Elements = Source[Frame.loc]
  BY DEF TypeOK, Frame, Elements
<1>3. part \in 1 .. part
  <2>1. part \in Nat
    BY DEF TypeOK
  <2>2. part # 0
    BY DEF MeaningInv, OutcomeInv
  <2> QED BY <2>1, <2>2
<1>4. spec[part] \in DOMAIN Source
  BY <1>3 DEF MeaningInv, PartsInv
<1>5. /\ StackOK(frames, spec[part], expanded, loaded, candidates[part])
      /\ MemoOK(expanded, loaded, candidates[part])
  BY DEF MeaningInv, CurrentInv
<1>6. Frame.at = Len(Elements) + 1
  BY <1>1
<1>7. Seen(Frame) = ElementsOf(Frame.loc)
  <2>1. DOMAIN Source[Frame.loc] = 1 .. Len(Elements)
    BY <1>1, <1>2, SourceAssumption
  <2>2. 1 .. Frame.at - 1 = 1 .. Len(Elements)
    BY <1>1, <1>6
  <2> QED BY <2>1, <2>2 DEF Seen, ElementsOf
<1>8. FrameOK(Frame, expanded, loaded, candidates[part])
  BY <1>1, <1>2, <1>5 DEF StackOK
<1>9. Frame.found \in BOOLEAN
  BY <1>1 DEF FrameType
<1> QED BY <1>1, <1>2, <1>3, <1>4, <1>5, <1>6, <1>7, <1>8, <1>9 DEF FrameOK

LEMMA ReturnMeaning == TypeOK /\ ExpandedOnce /\ MeaningInv /\ Return => MeaningInv'
<1> SUFFICES ASSUME TypeOK, ExpandedOnce, MeaningInv, Return PROVE MeaningInv'
  OBVIOUS
<1> DEFINE l == spec[part]
           E == expanded
           L == loaded
           C == candidates[part]
           n == Len(frames)
           g == Frame
           below == SubSeq(frames, 1, n - 1)
           f == frames[n - 1]
           e == Source[f.loc][f.at]
           q == Key(g)
           b == g.found
           G == With(E, q, b)
<1>1. status = "loading" /\ n > 1 /\ g.at > Len(Elements) /\ UNCHANGED <<spec, selection>>
  BY DEF Return
<1>2. frames # <<>>
  BY <1>1
<1>3. /\ frames \in Seq(FrameType) /\ g \in FrameType /\ n \in DOMAIN frames
      /\ n \in Nat \ {0} /\ g = frames[n] /\ part \in 1 .. part /\ l \in DOMAIN Source
      /\ StackOK(frames, l, E, L, C) /\ MemoOK(E, L, C) /\ b \in BOOLEAN
      /\ Handled(g, ElementsOf(g.loc), E, L, C) /\ (b <=> Finds(g, ElementsOf(g.loc), E))
  BY <1>1, <1>2, DoneFacts
<1>4. q \notin DOMAIN E
  BY <1>3 DEF ExpandedOnce
<1>5. MemoOK(G, L, C)
  BY <1>3, <1>4, MemoGrows
<1> HIDE DEF q, b
<1>6. DOMAIN G = DOMAIN E \cup {q} /\ G[q] = b /\ \A k \in DOMAIN E : G[k] = E[k]
  BY <1>4 DEF With
<1> USE DEF q, b
<1> HIDE DEF G
<1>7. n - 1 \in DOMAIN frames /\ f \in FrameType /\ n - 1 \in Nat
  BY <1>1, <1>3
<1>8. LinkedTo(f, g)
  BY <1>1, <1>3 DEF StackOK, StackShape
<1>9. Follows(f.rule, e) /\ Readable(e) /\ ~ Wants(f, e)
  BY <1>8 DEF LinkedTo, Follows, Wants
<1>10. q = LeadsTo(f, e)
  <2>1. Key(Base(g)) = q
    BY <1>3, BaseFacts
  <2>2. Base(g) = Expansion(e, f, KindIn(e, f))
    BY <1>8 DEF LinkedTo
  <2> QED BY <2>1, <2>2, KeySettles DEF LeadsTo
<1>11. f.at \in 1 .. Len(Source[f.loc]) /\ f.loc \in DOMAIN Source
  <2>1. /\ f.at \in 1 .. Len(Source[f.loc]) + 1 /\ f.at <= Len(Source[f.loc])
        /\ f.loc \in DOMAIN Source
    BY <1>3, <1>7 DEF TypeOK, FrameType
  <2>2. Len(Source[f.loc]) \in Nat
    BY <2>1, SourceAssumption
  <2> QED BY <2>1, <2>2
<1>12. Handled(f, {e}, G, L, C) /\ (b <=> Finds(f, {e}, G))
  BY <1>6, <1>9, <1>10 DEF Handled, Finds
<1> HIDE DEF below
<1>13. /\ below \in Seq(FrameType) /\ below # <<>> /\ Len(below) = n - 1
       /\ below[Len(below)] = f /\ below[1] = frames[1]
       /\ StackOK(below, l, E, L, C)
  BY <1>1, <1>3, StackPops DEF below
<1>14. StackOK(below, l, G, L, C)
  <2>1. /\ \A i \in DOMAIN C : \E j \in DOMAIN C : C[j] = C[i]
        /\ \A k \in DOMAIN E : k \in DOMAIN G /\ G[k] = E[k]
    BY <1>6
  <2> HIDE DEF l, E, L, C
  <2> QED BY <1>13, <2>1, StackGrows
<1>15. CASE Unknown(below, b) /\ Fail("unknown")
  <2>1. n = 2 /\ ~ b
    <3>1. Len(below) = 1 /\ ~ b
      BY <1>15 DEF Unknown
    <3>2. n - 1 = 1 /\ n \in Nat
      BY <1>3, <1>13, <3>1
    <3> QED BY <3>1, <3>2
  <2>2. f = frames[1] /\ Base(f) = Outermost(l)
    BY <1>2, <1>3, <2>1 DEF StackOK, StackShape
  <2>3. f.loc = l
    BY <1>7, <2>2, BaseFacts DEF Outermost
  <2>4. f.at \in DOMAIN Source[l] /\ e = Source[l][f.at]
    BY <1>3, <1>11, <2>3, SourceAssumption
  <2>5. ~ Found(l, f.at)
    <3> HIDE DEF e, f
    <3> QED BY <1>3, <1>5, <1>6, <1>7, <1>9, <1>10, <2>1, <2>2, <2>4, SingleMeans
  <2> QED BY <1>1, <1>15, <2>2, <2>3, <2>5, FailMeaning
<1>16. CASE /\ ~ Unknown(below, b) /\ frames' = Advanced(below, b) /\ expanded' = G
            /\ UNCHANGED <<status, part, candidates, loaded>>
  <2>1. Len(below) = 1 /\ e.form = "ref" /\ Resolve(e).rule # NoName => b
    BY <1>13, <1>16 DEF Unknown
  <2>2. StackOK(frames', l, G, L, C)
    <3> HIDE DEF e, f, b
    <3> QED BY <1>3, <1>11, <1>12, <1>13, <1>14, <1>16, <2>1, StackPasses DEF e
  <2>3. frames' # <<>>
    BY <1>3, <1>13, <1>16, AdvancedStack
  <2>4. CurrentInv'
    BY <1>1, <1>5, <1>16, <2>2, CurrentNext
  <2>5. PartsInv'
    BY <1>1, <1>2, <1>16, <2>3, PartsNext DEF MeaningInv, PartsInv, PartDone
  <2>6. NamesInv'
    BY <1>1, <1>16, NamesNext DEF MeaningInv, NamesInv
  <2>7. OutcomeInv'
    BY <1>1, <1>2, <1>16, OutcomeNext DEF MeaningInv
  <2> QED BY <2>4, <2>5, <2>6, <2>7 DEF MeaningInv
<1> QED BY <1>15, <1>16 DEF Return, below, G

\* The steps that leave a location or take up one change no other.
LEMMA OthersDone ==
    ASSUME MeaningInv, NEW s \in 1 .. part, s < part \/ frames = <<>>
    PROVE  /\ spec[s] \in DOMAIN Source /\ candidates[s] \in Seq(Kept(s))
           /\ ~ Cyclic(spec[s])
           /\ \A c \in Meaning(s) : Accounted(c, loaded, candidates[s])
           /\ \A i \in Single(spec[s]) : Found(spec[s], i)
BY DEF MeaningInv, PartsInv, PartDone

LEMMA CloseMeaning == TypeOK /\ MeaningInv /\ Close => MeaningInv'
<1> SUFFICES ASSUME TypeOK, MeaningInv, Close PROVE MeaningInv'
  OBVIOUS
<1> DEFINE l == spec[part]
           E == expanded
           L == loaded
           C == candidates[part]
           f == Frame
           o == Outermost(l)
<1>1. /\ status = "loading" /\ Len(frames) = 1 /\ f.at > Len(Elements) /\ frames' = <<>>
      /\ status' = (IF part = Len(spec) THEN "merging" ELSE "loading")
      /\ UNCHANGED <<spec, selection, part, expanded, candidates, loaded>>
  BY DEF Close
<1>2. frames # <<>>
  BY <1>1
<1>3. /\ frames \in Seq(FrameType) /\ f \in FrameType /\ 1 \in DOMAIN frames
      /\ f = frames[1] /\ part \in 1 .. part /\ l \in DOMAIN Source
      /\ StackOK(frames, l, E, L, C) /\ MemoOK(E, L, C)
      /\ f.at = Len(Source[f.loc]) + 1 /\ Handled(f, ElementsOf(f.loc), E, L, C)
  BY <1>1, <1>2, DoneFacts
<1>4. Base(f) = o
  BY <1>2, <1>3 DEF StackOK, StackShape
<1>5. /\ o \in Expansions /\ o.loc = l /\ o.rule = NoName
      /\ Key(f) = Key(o) /\ f.loc = l
  <2>1. o \in Expansions /\ o.loc = l /\ o.rule = NoName
    BY <1>3 DEF Outermost, Expansions
  <2> HIDE DEF o, f
  <2>2. Key(f) = Key(o) /\ f.loc = o.loc
    BY <1>3, <1>4, BaseFacts
  <2> QED BY <2>1, <2>2
<1>6. Handled(o, ElementsOf(o.loc), E, L, C)
  BY <1>3, <1>5, HandledAlike
<1>7. ~ Cyclic(l)
  <2> HIDE DEF o
  <2> QED BY <1>3, <1>5, <1>6, NoCycleBehind
<1>8. \A c \in Meaning(part) : Accounted(c, L, C)
  BY <1>3, <1>5, <1>6, AllAccounted DEF Meaning
<1>9. ASSUME NEW i \in Single(l) PROVE Found(l, i)
  <2> DEFINE e == Source[l][i]
  <2>1. i \in DOMAIN Source[l] /\ e.form = "ref" /\ e \in ElementsOf(l)
    BY DEF Single, ElementsOf
  <2>2. i \in 1 .. f.at - 1
    <3>1. DOMAIN Source[l] = 1 .. Len(Source[l]) /\ Len(Source[l]) \in Nat
      BY <1>3, SourceAssumption
    <3> QED BY <1>3, <1>5, <2>1, <3>1
  <2>3. Finds(f, {e}, E)
    BY <1>2, <1>3, <1>5, <2>2 DEF StackOK, SinglesFound
  <2>4. Follows(f.rule, e) /\ E[LeadsTo(f, e)]
    BY <2>1, <2>3 DEF Finds, Wants
  <2>5. Readable(e) /\ LeadsTo(f, e) \in DOMAIN E
    BY <1>3, <1>5, <2>1, <2>4 DEF Handled
  <2> HIDE DEF e, f
  <2> QED BY <1>3, <1>4, <2>1, <2>4, <2>5, SingleMeans DEF e
<1>10. CurrentInv'
  BY <1>1, CurrentNext
<1>11. PartsInv'
  <2>1. ASSUME NEW s \in 1 .. part
        PROVE  /\ spec[s] \in DOMAIN Source /\ candidates[s] \in Seq(Kept(s))
               /\ ~ Cyclic(spec[s])
               /\ \A c \in Meaning(s) : Accounted(c, loaded, candidates[s])
               /\ \A i \in Single(spec[s]) : Found(spec[s], i)
    <3>1. CASE s < part
      BY <3>1, OthersDone
    <3>2. CASE s = part
      <4>1. candidates[s] \in Seq(Kept(s))
        BY DEF MeaningInv, PartsInv
      <4> QED BY <1>3, <1>7, <1>8, <1>9, <3>2, <4>1
    <3>3. s < part \/ s = part
      BY DEF TypeOK
    <3> QED BY <3>1, <3>2, <3>3
  <2> QED BY <1>1, <2>1, PartsNext
<1>12. NamesInv'
  BY <1>1, NamesNext DEF MeaningInv, NamesInv
<1>13. OutcomeInv'
  BY <1>1 DEF MeaningInv, OutcomeInv, Expanded
<1> QED BY <1>10, <1>11, <1>12, <1>13 DEF MeaningInv

LEMMA OpenMeaning == TypeOK /\ MeaningInv /\ Open => MeaningInv'
<1> SUFFICES ASSUME TypeOK, MeaningInv, Open PROVE MeaningInv'
  OBVIOUS
<1> DEFINE l == spec[part + 1]
           o == Outermost(l)
<1>1. status = "loading" /\ frames = <<>> /\ part < Len(spec) /\ UNCHANGED <<spec, selection>>
  BY DEF Open
<1>2. part \in Nat /\ DOMAIN candidates = 1 .. part
  BY DEF TypeOK
<1>3. CASE Fail("unreadable")
  BY <1>1, <1>3, FailMeaning
<1>4. CASE /\ l \in DOMAIN Source /\ part' = part + 1 /\ frames' = <<o>> /\ expanded' = Nothing
           /\ candidates' = With(candidates, part', <<>>) /\ UNCHANGED <<status, loaded>>
  <2>1. /\ candidates'[part + 1] = <<>>
        /\ \A s \in 1 .. part : candidates'[s] = candidates[s] /\ s # part + 1
    BY <1>2, <1>4 DEF With
  <2>2. MemoOK(expanded', loaded', candidates'[part'])
    <3>1. DOMAIN expanded' = {}
      BY <1>4 DEF Nothing
    <3> QED BY <3>1 DEF MemoOK, WellOrdered
  <2>3. /\ o \in Expansions /\ o \in FrameType /\ Base(o) = o /\ o.at = 1 /\ o.found = FALSE
        /\ o.kind = "definition" /\ Node(o) \in Nodes
    <3>1. o \in Expansions /\ Base(o) = o /\ o.at = 1 /\ o.found = FALSE /\ o.kind = "definition"
      BY <1>4 DEF Outermost, Expansions, Base
    <3> HIDE DEF o
    <3>2. o \in FrameType
      BY <3>1, FramesOfExpansions
    <3>3. Node(o) \in Nodes
      BY <3>1 DEF Node, Nodes, Expansions
    <3> QED BY <3>1, <3>2, <3>3
  <2>4. StackOK(frames', l, expanded', loaded', candidates'[part'])
    <3> HIDE DEF o
    <3>1. /\ DOMAIN frames' = {1} /\ frames'[1] = o /\ frames' # <<>>
          /\ \A i, j \in DOMAIN frames' : i = 1 /\ j = 1
      BY <1>4
    <3>2. o \in Unfolding(o) /\ Node(o) \in Follow(Node(o))
      BY <2>3, UnfoldingLeast, FollowLeast
    <3>3. StackShape(frames', l)
      BY <2>3, <3>1, <3>2 DEF StackShape, o
    <3>4. 1 .. o.at - 1 = {}
      <4>1. 1 .. 1 - 1 = {}
        OBVIOUS
      <4> QED BY <2>3, <4>1
    <3>5. Seen(o) = {}
      BY <3>4 DEF Seen
    <3>6. FrameOK(o, expanded', loaded', candidates'[part'])
      BY <2>3, <3>5 DEF FrameOK, Handled, Finds
    <3>7. SinglesFound(o, expanded')
      BY <3>4 DEF SinglesFound
    <3> QED BY <3>1, <3>3, <3>6, <3>7 DEF StackOK
  <2>5. CurrentInv'
    BY <1>1, <1>4, <2>2, <2>4, CurrentNext
  <2>6. PartsInv'
    <3>1. ASSUME NEW s \in 1 .. part
          PROVE  /\ spec[s] \in DOMAIN Source /\ candidates'[s] \in Seq(Kept(s))
                 /\ ~ Cyclic(spec[s])
                 /\ \A c \in Meaning(s) : Accounted(c, loaded', candidates'[s])
                 /\ \A i \in Single(spec[s]) : Found(spec[s], i)
      BY <1>1, <1>4, <2>1, OthersDone
    <3>2. \A s \in 1 .. part' : s \in 1 .. part \/ s = part + 1
      BY <1>2, <1>4
    <3>3. <<>> \in Seq(Kept(part + 1)) /\ frames' # <<>>
      <4>1. Len(<<o>>) = 1
        OBVIOUS
      <4> QED BY <1>4, <4>1
    <3>4. ~ (part + 1 < part')
      BY <1>2, <1>4
    <3> QED BY <1>1, <1>4, <2>1, <3>1, <3>2, <3>3, <3>4, PartsNext
  <2>7. NamesInv'
    <3>1. \A s \in 1 .. part : s \in 1 .. part'
      BY <1>2, <1>4
    <3>2. \A n \in loaded' :
             \E s \in 1 .. part' : \E c \in Meaning(s) : Eligible(c) /\ c.name = n
      BY <1>4, <3>1 DEF MeaningInv, NamesInv
    <3> QED BY <1>1, <3>2, NamesNext
  <2>8. OutcomeInv'
    <3>1. part + 1 <= Len(spec) /\ part + 1 # 0
      <4>1. Len(spec) \in Nat
        BY DEF MeaningInv, OutcomeInv
      <4> QED BY <1>1, <1>2, <4>1
    <3> QED BY <1>1, <1>4, <3>1 DEF MeaningInv, OutcomeInv, Expanded
  <2> QED BY <2>5, <2>6, <2>7, <2>8 DEF MeaningInv
<1> QED BY <1>3, <1>4 DEF Open

\* The steps of the merge leave what was expanded alone.
LEMMA RestMeaning ==
    ASSUME MeaningInv,
           UNCHANGED <<spec, selection, part, frames, expanded, candidates, loaded>>,
           status' = status \/ (Expanded /\ status' \in {"merging", "loaded", "conflict"})
    PROVE  MeaningInv'
<1>1. CurrentInv'
  BY CurrentNext DEF MeaningInv, CurrentInv
<1>2. PartsInv'
  BY PartsNext DEF MeaningInv, PartsInv, PartDone
<1>3. NamesInv'
  BY NamesNext DEF MeaningInv, NamesInv
<1>4. OutcomeInv'
  BY DEF MeaningInv, OutcomeInv, Expanded
<1> QED BY <1>1, <1>2, <1>3, <1>4 DEF MeaningInv

LEMMA MergeMeaning ==
    ASSUME MeaningInv, NEW slot, Merge(slot)
    PROVE  MeaningInv'
<1>1. /\ status = "merging"
      /\ UNCHANGED <<spec, selection, part, frames, expanded, candidates, loaded>>
  BY DEF Merge
<1>2. status' \in {"merging", "conflict"}
  BY <1>1 DEF Merge
<1> QED BY <1>1, <1>2, RestMeaning DEF Expanded

LEMMA FinishMeaning == MeaningInv /\ Finish => MeaningInv'
BY RestMeaning DEF Finish, Expanded

LEMMA InitMeaning == Init => MeaningInv
<1> SUFFICES ASSUME Init PROVE MeaningInv
  OBVIOUS
<1>1. /\ status = "loading" /\ part = 0 /\ frames = <<>> /\ loaded = {} /\ spec \in Specs
  BY DEF Init
<1>2. CurrentInv
  BY <1>1 DEF CurrentInv
<1>3. 1 .. 0 = {}
  OBVIOUS
<1>4. PartsInv /\ NamesInv
  BY <1>1, <1>3 DEF PartsInv, NamesInv
<1>5. DOMAIN spec = 1 .. Len(spec) /\ Len(spec) \in Nat
  BY <1>1, SpecsAssumption
<1>6. OutcomeInv
  BY <1>1, <1>5 DEF OutcomeInv, Expanded
<1> QED BY <1>2, <1>4, <1>6 DEF MeaningInv

LEMMA NextMeaning == TypeOK /\ ExpandedOnce /\ MeaningInv /\ [Next]_vars => MeaningInv'
<1> SUFFICES ASSUME TypeOK, ExpandedOnce, MeaningInv, [Next]_vars PROVE MeaningInv'
  OBVIOUS
<1>1. CASE Open
  BY <1>1, OpenMeaning
<1>2. CASE SkipElement
  BY <1>2, SkipMeaning
<1>3. CASE RejectDefinition
  BY <1>3, RejectMeaning
<1>4. CASE BuildDefinition
  BY <1>4, BuildMeaning
<1>5. CASE Reference
  BY <1>5, ReferenceMeaning
<1>6. CASE Return
  BY <1>6, ReturnMeaning
<1>7. CASE Close
  BY <1>7, CloseMeaning
<1>8. CASE \E slot \in Slots : Merge(slot)
  BY <1>8, MergeMeaning
<1>9. CASE Finish
  BY <1>9, FinishMeaning
<1>10. CASE UNCHANGED vars
  BY <1>10, RestMeaning DEF vars
<1> QED BY <1>1, <1>2, <1>3, <1>4, <1>5, <1>6, <1>7, <1>8, <1>9, <1>10 DEF Next

LEMMA MeaningHolds == Spec => []MeaningInv
<1> QED BY InitMeaning, NextMeaning, TypeCorrect, ExpandsOnce, PTL DEF Spec

-----------------------------------------------------------------------------
(* What a load returns is what the references mean *)

\* Every location was looked through when the loading is over.
LEMMA AllDone ==
    ASSUME MeaningInv, Expanded
    PROVE  /\ DOMAIN spec = 1 .. part
           /\ \A s \in DOMAIN spec : candidates[s] \in Seq(Kept(s)) /\ PartDone(s)
<1>1. frames = <<>> /\ DOMAIN spec = 1 .. part
  BY DEF MeaningInv, OutcomeInv
<1> QED BY <1>1 DEF MeaningInv, PartsInv

\* Whatever the rulesets, the memory of expansions loses no rule and adds none:
\* every location of the specification yields the rules its references unfold to.
THEOREM MemoLosesNothing == Spec => []MemoTransparent
<1>1. ASSUME MeaningInv PROVE MemoTransparent
  <2> SUFFICES ASSUME Expanded, NEW s \in DOMAIN spec
               PROVE  {Anonymous(candidates[s][i]) : i \in DOMAIN candidates[s]}
                         = {Anonymous(c) : c \in Kept(s)}
    BY DEF MemoTransparent
  <2>1. candidates[s] \in Seq(Kept(s)) /\ PartDone(s)
    BY <1>1, AllDone
  <2>2. \A i \in DOMAIN candidates[s] : candidates[s][i] \in Kept(s)
    BY <2>1
  <2>3. ASSUME NEW c \in Kept(s)
        PROVE  \E i \in DOMAIN candidates[s] : Anonymous(candidates[s][i]) = Anonymous(c)
    BY <2>1 DEF Kept, PartDone, Accounted
  <2> QED BY <2>2, <2>3
<1> QED BY <1>1, MeaningHolds, PTL

\* Whatever the rulesets, a load fails for a cycle only if the location it
\* expands has one, and succeeds only if none has.
THEOREM CyclesExact == Spec => []CyclesReported
<1>1. ASSUME MeaningInv PROVE CyclesReported
  <2>1. status = "cyclic" => Cyclic(spec[part])
    BY <1>1 DEF MeaningInv, OutcomeInv
  <2>2. Expanded => \A s \in DOMAIN spec : ~ Cyclic(spec[s])
    BY <1>1, AllDone DEF PartDone
  <2> QED BY <2>1, <2>2 DEF CyclesReported
<1> QED BY <1>1, MeaningHolds, PTL

\* Whatever the rulesets and the filters, a rule is reported unknown exactly
\* if its reference unfolds to nothing.
THEOREM UnknownExact == Spec => []UnknownReported
<1>1. ASSUME MeaningInv PROVE UnknownReported
  <2>1. status = "unknown" => ~ Found(frames[1].loc, frames[1].at)
    BY <1>1 DEF MeaningInv, OutcomeInv
  <2>2. Expanded => \A s \in DOMAIN spec : \A i \in Single(spec[s]) : Found(spec[s], i)
    BY <1>1, AllDone DEF PartDone
  <2> QED BY <2>1, <2>2 DEF UnknownReported
<1> QED BY <1>1, MeaningHolds, PTL

\* Whatever the rulesets and the filters, the names that count as loaded are
\* those of the rules that the filters could have let through.
THEOREM UnmatchedNames == Spec => []UnmatchedExact
<1>1. ASSUME MeaningInv PROVE UnmatchedExact
  <2> SUFFICES ASSUME Expanded
               PROVE  loaded = {c.name : c \in {d \in UNION {Meaning(s) : s \in DOMAIN spec} :
                                                   Eligible(d)}}
    BY DEF UnmatchedExact
  <2>1. DOMAIN spec = 1 .. part /\ \A s \in DOMAIN spec : PartDone(s)
    BY <1>1, AllDone
  <2>2. ASSUME NEW s \in DOMAIN spec, NEW c \in Meaning(s), Eligible(c) PROVE c.name \in loaded
    BY <2>1, <2>2 DEF PartDone, Accounted
  <2>3. \A n \in loaded : \E s \in DOMAIN spec : \E c \in Meaning(s) : Eligible(c) /\ c.name = n
    BY <1>1, <2>1 DEF MeaningInv, NamesInv
  <2> QED BY <2>2, <2>3
<1> QED BY <1>1, MeaningHolds, PTL
=============================================================================
