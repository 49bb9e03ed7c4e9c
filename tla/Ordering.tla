------------------------------ MODULE Ordering ------------------------------
(***************************************************************************)
(* Sorting, said by what it yields: in a finite set with a strict order,   *)
(* every element has a place of its own.                                   *)
(***************************************************************************)
EXTENDS Naturals, FiniteSets, Sequences

IsSequence(s) == s \in Seq({s[i] : i \in DOMAIN s})

\* The number of elements of S that R puts before x.
RankIn(S, R, x) == Cardinality({y \in S : <<y, x>> \in R})

\* The elements of S, each once, in the order of the set of pairs R.
Ranked(S, R) == [n \in 1 .. Cardinality(S) |-> CHOOSE x \in S : RankIn(S, R, x) = n - 1]

\* The natural numbers of S from the smallest to the largest.
Ascending(S) == Ranked(S, {e \in S \X S : e[1] < e[2]})
=============================================================================
