--------------------------- MODULE SummaryReplay ---------------------------
(***************************************************************************)
(* Two runs of messgo over the same files.  The callers of a changed       *)
(* summary are kept in a Go map, whose iteration order differs from run to *)
(* run, so the two may drain the worklist in different orders.  The second *)
(* run makes each request after the first has answered it.                 *)
(***************************************************************************)
EXTENDS StorageSummaries

VARIABLES
    known2, value2, stack2, flow2, links2, bodyCalls2, pending2, queued2,
    request2, reads2, settled2      \* the cache of the second run

Second == INSTANCE SummarySolver WITH
    known <- known2, value <- value2, stack <- stack2, flow <- flow2,
    links <- links2, bodyCalls <- bodyCalls2, pending <- pending2,
    queued <- queued2, request <- request2, reads <- reads2, settled <- settled2

first == <<known, value, stack, flow, links, bodyCalls, pending, queued,
           request, reads, settled>>
second == <<known2, value2, stack2, flow2, links2, bodyCalls2, pending2, queued2,
            request2, reads2, settled2>>

ReplayInit == Init /\ Second!Init

\* Both runs turn to the next file, and make the same requests.
OpenInBoth(f) == OpenFile(f) /\ Second!OpenFile(f)

RequestInBoth(k) == RequestSummary(k) /\ Second!RequestSummary(k)

FirstRun == Progress /\ UNCHANGED second

SecondRun == Idle /\ Second!Progress /\ UNCHANGED first

ReplayNext ==
    \/ \E f \in File : OpenInBoth(f)
    \/ \E k \in Root(file) : RequestInBoth(k)
    \/ FirstRun
    \/ SecondRun

ReplaySpec == ReplayInit /\ [][ReplayNext]_<<file, first, second>>

\* Each run is one goroutine: a request that was made goes on running.
FairReplaySpec == ReplaySpec /\ WF_<<file, first, second>>(FirstRun)

\* The summaries that requests leave behind do not depend on the order in
\* which the callers of a changed summary were queued: a run of messgo reports
\* what the last run over the same file reported.
SameSummaries == Idle /\ Second!Idle => value = value2
=============================================================================
