---------------------------- MODULE Reachability ----------------------------
(***************************************************************************)
(* Reachability, written as a recursive function so that modules with      *)
(* proofs may use it.                                                      *)
(***************************************************************************)

\* S and what comes after it in one step; next[n] is the set of nodes after n.
Wider(next, S) == S \cup UNION {next[n] : n \in S}

\* What can be reached from a, a included.
Closure(next, a) ==
    LET grow[S \in SUBSET DOMAIN next] ==
            IF Wider(next, S) = S THEN S ELSE grow[Wider(next, S)]
    IN  grow[{a}]

\* What can be reached from a in the relation R, a included.
Reach(R, a) ==
    Closure([n \in {a} \cup {e[1] : e \in R} \cup {e[2] : e \in R} |->
                {e[2] : e \in {d \in R : d[1] = n}}], a)
=============================================================================
