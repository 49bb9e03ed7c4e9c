---------------------------- MODULE SummaryMemo ----------------------------
(***************************************************************************)
(* What a summary cache promises to the walk that uses it: a request is    *)
(* answered from a table that only grows while a file is open, so a        *)
(* summary that was used once is the summary for good.  How a summary is   *)
(* computed, and which others are computed with it, is left open.          *)
(***************************************************************************)
CONSTANTS
    File,
    NoKey,
    Root(_)

VARIABLES
    file,
    request,
    answers     \* the table: a function from keys to summaries

memoVars == <<file, request, answers>>

Extends(g, f) ==
    /\ DOMAIN f \subseteq DOMAIN g
    /\ \A k \in DOMAIN f : g[k] = f[k]

Init ==
    /\ file \in File
    /\ request = NoKey
    /\ DOMAIN answers = {}

OpenFile(f) ==
    /\ request = NoKey
    /\ f # file
    /\ file' = f
    /\ DOMAIN answers' = {}
    /\ UNCHANGED request

Ask(k) ==
    /\ request = NoKey
    /\ request' = k
    /\ UNCHANGED <<file, answers>>

Reply ==
    /\ request # NoKey
    /\ request' = NoKey
    /\ request \in DOMAIN answers'
    /\ Extends(answers', answers)
    /\ UNCHANGED file

Next ==
    \/ \E f \in File : OpenFile(f)
    \/ \E k \in Root(file) : Ask(k)
    \/ Reply

Spec == Init /\ [][Next]_memoVars
=============================================================================
