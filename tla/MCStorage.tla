----------------------------- MODULE MCStorage -----------------------------
(***************************************************************************)
(* Programs for the model checker: a file is a small set of bodies and the *)
(* entries its code calls them with.                                       *)
(***************************************************************************)
EXTENDS StorageSummaries

Bind(to, from) == [op |-> "bind", to |-> to, from |-> from]
Mutate(v) == [op |-> "mutate", var |-> v]
Yield(v) == [op |-> "return", var |-> v]
Do(targets) == [op |-> "call", targets |-> targets, maybe |-> FALSE, dest |-> "none"]
May(targets) == [op |-> "call", targets |-> targets, maybe |-> TRUE, dest |-> "none"]
Get(v, targets) == [op |-> "call", targets |-> targets, maybe |-> FALSE, dest |-> v]

MCVarOrder == <<"x", "y">>

\* A body with the entry in which every variable refers to a location of a
\* site of its own.
Distinct(b) ==
    [body |-> b,
     entry |-> [v \in depends[b] |->
                  IF v = "x" THEN {<<1, 1>>}
                  ELSE {<<2, Cardinality(depends[b])>>}]]

\* ... with the entry in which the variables refer to two allocations of one
\* site, which a recursive entry merges.
Twins(b) ==
    [body |-> b, entry |-> [v \in depends[b] |-> IF v = "x" THEN {<<1, 1>>} ELSE {<<1, 2>>}]]

\* ... with the entry in which all variables are aliases.
Aliased(b) == [body |-> b, entry |-> [v \in depends[b] |-> {<<1, 1>>}]]

\* Two helpers called twice, by one caller and through each other.
DiamondCode ==
    [main  |-> <<Do(<<"left">>), Do(<<"right">>), Mutate("x")>>,
     left  |-> <<May(<<"leaf">>), Mutate("y")>>,
     right |-> <<Get("x", <<"leaf", "pick">>), Bind(<<"x", "y">>, <<"y", "x">>)>>,
     leaf  |-> <<Bind(<<"x">>, <<"y">>), Yield("x")>>,
     pick  |-> <<Mutate("x"), Yield("y")>>]

\* Two bodies that call each other under conditions.
MutualCode ==
    [ping |-> <<May(<<"pong">>), Mutate("x")>>,
     pong |-> <<May(<<"ping">>), Bind(<<"x">>, <<"y">>)>>]

\* Three bodies in a ring, one of them with a choice of callbacks.
RingCode ==
    [one   |-> <<May(<<"two">>), Bind(<<"x">>, <<"y">>)>>,
     two   |-> <<May(<<"three", "one">>), Mutate("x")>>,
     three |-> <<May(<<"one">>), Yield("x")>>]

\* A body that calls itself.
SelfCode ==
    [loop |-> <<May(<<"loop">>), Mutate("x"), Bind(<<"x">>, <<"y">>)>>]

\* A pair whose base case is an early return, which the walk passes over.
SwapCode ==
    [even |-> <<Do(<<"odd">>)>>,
     odd  |-> <<Do(<<"even">>), Bind(<<"x", "y">>, <<"y", "x">>)>>]

AllCode == [b \in DOMAIN DiamondCode \cup DOMAIN MutualCode \cup DOMAIN RingCode
                 \cup DOMAIN SelfCode \cup DOMAIN SwapCode |->
               IF b \in DOMAIN DiamondCode THEN DiamondCode[b]
               ELSE IF b \in DOMAIN MutualCode THEN MutualCode[b]
               ELSE IF b \in DOMAIN RingCode THEN RingCode[b]
               ELSE IF b \in DOMAIN SelfCode THEN SelfCode[b]
               ELSE SwapCode[b]]

AllBodies == DOMAIN AllCode

Entries(bodies) == UNION {{Distinct(b), Twins(b), Aliased(b)} : b \in bodies}

MCRoot(f) ==
    CASE f = "diamond" -> Entries({"main", "leaf"})
      [] f = "mutual"  -> Entries({"ping", "pong"})
      [] f = "ring"    -> Entries({"one", "three"})
      [] f = "self"    -> Entries({"loop"})
      [] f = "swap"    -> Entries({"even"})

MCBodyOf(k) == k.body
=============================================================================
