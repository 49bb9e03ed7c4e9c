----------------------------- MODULE MCRuleset -----------------------------
(***************************************************************************)
(* A family of custom rulesets over two built-in ones for the checker: a   *)
(* custom ruleset is any short sequence of the elements below, and is      *)
(* located by the names of its elements.                                   *)
(***************************************************************************)
EXTENDS RulesetReference

CONSTANT Length     \* elements of the longest custom ruleset

None == [x \in {} |-> 0]
Maximum(n) == [p \in {"maximum"} |-> n]

Class(name, class, priority, props) ==
    [form |-> "class", name |-> name, class |-> class, priority |-> priority,
     props |-> props]

Ref(base, rule, priority, props, exclude) ==
    [form |-> "ref", base |-> base, rule |-> rule, priority |-> priority,
     props |-> props, exclude |-> exclude]

Naming == <<"naming">>
Go == <<"go">>
Ring == <<"ring">>
Missing == <<"missing">>

\* The elements custom rulesets are made of.
Pool ==
    [naming   |-> Ref(Naming, NoName, 0, None, {}),
     go       |-> Ref(Go, NoName, 0, None, {}),
     goNoLong |-> Ref(Go, NoName, 0, None, {"Long"}),
     bare     |-> Ref(NoBase, "Long", 0, Maximum(35), {}),
     important |-> Ref(Naming, "Long", 1, Maximum(50), {}),
     through  |-> Ref(Go, "Long", 0, None, {}),
     own      |-> Class("Long", "long", 2, None),
     other    |-> Class("Long", "long", 4, None),
     ring     |-> Ref(Ring, "Far", 0, None, {}),
     round    |-> Ref(Ring, NoName, 0, None, {})]

\* Elements that make most loads fail, tried in shorter rulesets.
Rare ==
    [wrong   |-> Ref(Naming, "Lnog", 0, None, {}),
     invalid |-> Class("Short", "short", 0, Maximum(0)),
     lost    |-> Ref(Missing, NoName, 0, None, {}),
     empty   |-> [form |-> "none"]]

PoolNames == DOMAIN Pool
RareNames == DOMAIN Rare
Named(n) == IF n \in PoolNames THEN Pool[n] ELSE Rare[n]

Customs ==
    UNION {[1 .. n -> PoolNames] : n \in 1 .. Length}
        \cup UNION {[1 .. n -> PoolNames \cup RareNames] : n \in 1 .. 2}

Fixed ==
    [l \in {Naming, Go, Ring, <<"far">>} |->
        CASE l = Naming -> <<Class("Long", "long", 3, Maximum(20)),
                             Class("Short", "short", 0, None),
                             Class("Odd", "unimplemented", 3, None)>>
          [] l = Go     -> <<Ref(Naming, NoName, 0, None, {"Long"}),
                             Ref(Naming, "Long", 0, Maximum(35), {})>>
          [] l = Ring   -> <<Class("Far", "far", 3, None), Ref(<<"far">>, "Near", 0, None, {})>>
          [] OTHER      -> <<Class("Near", "near", 3, None), Ref(Ring, "Near", 0, None, {}),
                             Ref(Ring, "Far", 0, None, {})>>]

MCSource ==
    [l \in Customs \cup DOMAIN Fixed |->
        IF l \in DOMAIN Fixed THEN Fixed[l] ELSE [i \in DOMAIN l |-> Named(l[i])]]

MCItem == {Named(n) : n \in PoolNames \cup RareNames}
            \cup UNION {{Fixed[l][i] : i \in DOMAIN Fixed[l]} : l \in DOMAIN Fixed}

MCName == {"Long", "Short", "Odd", "Far", "Near", "Lnog"}

MCBuiltinOrder == <<Go, Naming>>

MCSpecs == {<<l>> : l \in Customs} \cup {<<Naming, Go>>, <<Go, Naming>>, <<Missing>>,
             <<Naming, <<"own">> >>, << <<"own">>, <<"other">> >>, << <<"bare">>, Naming>>}

\* A reference that repeats an inherited override, and two definitions behind a
\* reference to a third.
RepeatedOverride == {<< <<"naming", "go", "bare">> >>}
InheritedFirst == {<< <<"naming", "own", "other">> >>}

Keep(enable, disable, min, max) ==
    [enable |-> enable, disable |-> disable, min |-> min, max |-> max]

MCSelections == {Keep({}, {}, 0, 0), Keep({"Long"}, {}, 3, 2), Keep({}, {"Long", "Lnog"}, 2, 0)}

MCImplemented == {"long", "short", "far", "near"}

\* A maximum of 0 stands for a value that is not accepted.
MCConfigures(class, props) == "maximum" \in DOMAIN props => props.maximum # 0
=============================================================================
