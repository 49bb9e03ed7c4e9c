----------------------------- MODULE RunContract -----------------------------
(***************************************************************************)
(* What a run of messgo promises to the script that calls it: exit code 1  *)
(* and no report or a part of one, or a whole report and an exit code that *)
(* judges it.  A report that was there before is not touched by a run that *)
(* never had anything to write.                                            *)
(***************************************************************************)
CONSTANT NoExit

VARIABLES
    stage,    \* working, writing or returned
    report,   \* old, partial or whole
    exit

vars == <<stage, report, exit>>

Init == stage = "working" /\ report = "old" /\ exit = NoExit

\* An error, or an answer to --help.
Refuse ==
    /\ stage = "working" /\ stage' = "returned"
    /\ exit' \in {0, 1}
    /\ UNCHANGED report

Open ==
    /\ stage = "working" /\ stage' = "writing"
    /\ report' \in {"partial", "whole"}
    /\ UNCHANGED exit

Complete ==
    /\ stage = "writing" /\ report = "partial" /\ report' = "whole"
    /\ UNCHANGED <<stage, exit>>

Fail ==
    /\ stage = "writing" /\ stage' = "returned"
    /\ report = "partial" /\ exit' = 1
    /\ UNCHANGED report

Judge ==
    /\ stage = "writing" /\ stage' = "returned"
    /\ report = "whole" /\ exit' \in {0, 2, 3}
    /\ UNCHANGED report

Next == Refuse \/ Open \/ Complete \/ Fail \/ Judge

Spec == Init /\ [][Next]_vars
=============================================================================
