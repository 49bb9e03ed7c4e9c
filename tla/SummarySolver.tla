--------------------------- MODULE SummarySolver ---------------------------
(***************************************************************************)
(* The worklist solver behind messgo's storage analysis.  One              *)
(* storageSummaryCache belongs to a rule instance and summarises the       *)
(* functions of one file at a time.  A summary is found by its key (body   *)
(* and entry state); it is created before its body is walked, the walk may *)
(* ask for other summaries, and a change of a summary puts its callers on  *)
(* a worklist that is drained before the outermost request returns.        *)
(*                                                                         *)
(* What a walk computes is a parameter: the walk of a key is a flow that   *)
(* starts, advances by statements, stands at calls and is done.  Module    *)
(* StorageWalk gives these operators for a small language.                 *)
(***************************************************************************)
EXTENDS Naturals, Sequences, FiniteSets, Reachability

CONSTANTS
    File,               \* the files a rule instance is applied to
    NoKey,              \* the nil *storageSummary
    Root(_),            \* Root(file): keys the rule's own walk may ask for
    BodyOf(_),          \* the function body a key summarises
    Start(_),           \* the flow at the beginning of the body of a key
    Done(_),            \* the flow has reached the end of its body
    Calling(_),         \* the flow stands at a call of a known function
    Advance(_),         \* the flow after the next statement that is no call
    Target(_),          \* the body called where the flow stands
    EntryKey(_, _),     \* key of that call, with a recursive entry or not
    Provisional(_),     \* the summary handed out for a key being computed
    Resume(_, _, _, _), \* the flow after the call returned a summary
    Outcome(_)          \* the summary a finished flow yields

ASSUME NoKeyAssumption == \A f \in File : NoKey \notin Root(f)

VARIABLES
    file,       \* the file the cache holds
    known,      \* keys with an entry in the cache
    value,      \* the summary of every initialized key
    stack,      \* the keys being computed, outermost first
    flow,       \* the flow of every key being computed
    links,      \* caller/callee pairs of summaries
    bodyCalls,  \* caller/callee pairs of bodies
    pending,    \* the worklist
    queued,     \* the keys flagged as being on it
    request,    \* the key the rule's own walk waits for, or NoKey
    reads,      \* history: what the last walk of a key read from whom
    settled     \* history: keys initialized when a request last returned

vars == <<file, known, value, stack, flow, links, bodyCalls, pending, queued,
          request, reads, settled>>

-----------------------------------------------------------------------------
Elements(s) == {s[i] : i \in DOMAIN s}

\* f, defined at x as y as well.
With(f, x, y) == [z \in DOMAIN f \cup {x} |-> IF z = x THEN y ELSE f[z]]

\* The elements of a finite set, each once, in any order: a range over a map.
Orders(S) ==
    {s \in [1 .. Cardinality(S) -> S] : \A x \in S : \E i \in DOMAIN s : s[i] = x}

Initialized == DOMAIN value
Keys(frames) == {frames[i].key : i \in DOMAIN frames}
\* Mutation: only the current summary counts as being computed.
InnermostComputing == Keys(SubSeq(stack, Len(stack), Len(stack)))
Computing == Keys(stack)
Top == stack[Len(stack)].key
Read(k, v, prov) == [callee |-> k, value |-> v, provisional |-> prov]

-----------------------------------------------------------------------------
NoSummary == [k \in {} |-> {}]

Init ==
    /\ file \in File
    /\ known = {} /\ value = NoSummary
    /\ stack = <<>> /\ flow = NoSummary
    /\ links = {} /\ bodyCalls = {}
    /\ pending = <<>> /\ queued = {}
    /\ request = NoKey
    /\ reads = NoSummary /\ settled = {}

Idle == request = NoKey

\* The rule turns to another file and everything known is forgotten.
OpenFile(f) ==
    /\ Idle
    /\ f # file
    /\ file' = f
    /\ known' = {} /\ value' = NoSummary
    /\ stack' = <<>> /\ flow' = NoSummary
    /\ links' = {} /\ bodyCalls' = {}
    /\ pending' = <<>> /\ queued' = {}
    /\ reads' = NoSummary /\ settled' = {}
    /\ UNCHANGED request

\* The walk of k begins; wide and recursive are flags of the call it serves.
Enter(k, wide, recursive) ==
    /\ stack' = Append(stack, [key |-> k, wide |-> wide, recursive |-> recursive])
    /\ flow' = With(flow, k, Start(k))
    /\ reads' = With(reads, k, {})
    /\ known' = known \cup {k}

\* The rule's own walk asks for a summary: there is no current summary, so
\* nothing is linked and the call counts as neither recursive.
RequestSummary(k) ==
    /\ Idle
    /\ k \in Root(file)
    /\ request' = k
    /\ IF k \in Initialized
         THEN UNCHANGED <<stack, flow, reads, known>>
         ELSE Enter(k, FALSE, FALSE)
    /\ UNCHANGED <<file, value, links, bodyCalls, pending, queued, settled>>

\* The walk on top of the stack executes a statement that is no call.
WalkStatement ==
    /\ stack # <<>>
    /\ ~ Done(flow[Top])
    /\ ~ Calling(flow[Top])
    /\ flow' = With(flow, Top, Advance(flow[Top]))
    /\ UNCHANGED <<file, known, value, stack, links, bodyCalls, pending, queued,
                   request, reads, settled>>

\* The call returns the summary v of c to the walk of k, which goes on.
Continue(k, c, v, prov, wide, recursive) ==
    /\ flow' = With(flow, k, Resume(flow[k], v, wide, recursive))
    /\ reads' = With(reads, k, reads[k] \cup {Read(c, v, prov)})

\* Mutation: a summary without a value counts as being computed.
ProvisionalForNew(c, wide) ==
    /\ c \notin Initialized
    /\ Continue(Top, c, Provisional(c), TRUE, wide, TRUE)
    /\ known' = known \cup {c}
    /\ UNCHANGED stack

\* A back edge: the summary asked for is being computed.
UseProvisional(c, wide) ==
    /\ c \in Computing
    /\ Continue(Top, c, Provisional(c), TRUE, wide, TRUE)
    /\ UNCHANGED <<known, stack>>

UseSummary(c, wide, recursive) ==
    /\ c \in Initialized \ Computing
    /\ Continue(Top, c, value[c], FALSE, wide, recursive)
    /\ UNCHANGED <<known, stack>>

\* Mutation: a provisional summary registers no dependency.
CallUnregistered ==
    /\ stack # <<>>
    /\ ~ Done(flow[Top])
    /\ Calling(flow[Top])
    /\ bodyCalls' = bodyCalls \cup {<<BodyOf(Top), Target(flow[Top])>>}
    /\ LET wide == BodyOf(Top) \in Reach(bodyCalls', Target(flow[Top]))
           c == EntryKey(flow[Top], wide)
           recursive == Top \in Reach(links', c)
       IN  /\ links' = IF c \in Computing THEN links ELSE links \cup {<<Top, c>>}
           /\ \/ UseProvisional(c, wide)
              \/ UseSummary(c, wide, recursive)
              \/ c \notin Initialized \cup Computing /\ Enter(c, wide, recursive)
    /\ UNCHANGED <<file, value, pending, queued, request, settled>>

\* The walk on top of the stack calls.  The body edge is recorded first and
\* decides on the kind of entry; the summary is linked and the recursion flag
\* computed before the callee is walked.
Call ==
    /\ stack # <<>>
    /\ ~ Done(flow[Top])
    /\ Calling(flow[Top])
    /\ bodyCalls' = bodyCalls \cup {<<BodyOf(Top), Target(flow[Top])>>}
    /\ LET wide == BodyOf(Top) \in Reach(bodyCalls', Target(flow[Top]))
           c == EntryKey(flow[Top], wide)
           recursive == Top \in Reach(links', c)
       IN  /\ links' = links \cup {<<Top, c>>}
           /\ \/ UseProvisional(c, wide)
              \/ UseSummary(c, wide, recursive)
              \/ c \notin Initialized \cup Computing /\ Enter(c, wide, recursive)
    /\ UNCHANGED <<file, value, pending, queued, request, settled>>

\* Mutations: callers that are being computed, or are queued, are queued.
WokenComputing(k) == {c \in known : <<c, k>> \in links /\ c \notin queued}
WokenTwice(k) == {c \in known : <<c, k>> \in links /\ c \notin Computing \ {k}}

\* The callers that have to look again at k, which is no longer computed.
Woken(k) ==
    {c \in known : <<c, k>> \in links /\ c \notin Computing \ {k} /\ c \notin queued}

\* Mutations: only the first summary of a key is a change; every one is.
FirstChanges(k, v) == k \notin Initialized
AlwaysChanges(k, v) == k \in Computing

\* A walk of k that yields v changes what callers of k have seen.
Changes(k, v) == k \notin Initialized \/ value[k] # v

\* The walk on top of the stack ends: its summary is overwritten, and if it
\* changed, the callers that are neither computed nor queued are queued, in
\* any order.  A nested walk hands its summary to the walk below.
Finish ==
    /\ stack # <<>>
    /\ Done(flow[Top])
    /\ LET k == Top
           frame == stack[Len(stack)]
           below == SubSeq(stack, 1, Len(stack) - 1)
           v == Outcome(flow[k])
           wake == IF Changes(k, v) THEN Woken(k) ELSE {}
       IN  /\ value' = With(value, k, v)
           /\ stack' = below
           /\ \E order \in Orders(wake) : pending' = pending \o order
           /\ queued' = queued \cup wake
           /\ IF below = <<>>
                THEN flow' = NoSummary /\ UNCHANGED reads
                ELSE Continue(below[Len(below)].key, k, v, FALSE,
                              frame.wide, frame.recursive)
    /\ UNCHANGED <<file, known, links, bodyCalls, request, settled>>

\* Mutation: the worklist is cleared as soon as its first summary is taken off.
SolveFirst ==
    /\ ~ Idle
    /\ stack = <<>>
    /\ pending # <<>>
    /\ pending' = <<>>
    /\ queued' = {}
    /\ Enter(Head(pending), FALSE, FALSE)
    /\ UNCHANGED <<file, value, links, bodyCalls, request, settled>>

\* The worklist is drained from the front when no summary is computed.
Solve ==
    /\ ~ Idle
    /\ stack = <<>>
    /\ pending # <<>>
    /\ pending' = Tail(pending)
    /\ queued' = queued \ {Head(pending)}
    /\ Enter(Head(pending), FALSE, FALSE)
    /\ UNCHANGED <<file, value, links, bodyCalls, request, settled>>

\* Mutation: the request returns before the worklist is drained.
AnswerEarly ==
    /\ ~ Idle
    /\ stack = <<>>
    /\ request' = NoKey
    /\ settled' = Initialized
    /\ UNCHANGED <<file, known, value, stack, flow, links, bodyCalls, pending,
                   queued, reads>>

\* The worklist is empty: the outermost request returns its summary.
Answer ==
    /\ ~ Idle
    /\ stack = <<>>
    /\ pending = <<>>
    /\ request' = NoKey
    /\ settled' = Initialized
    /\ UNCHANGED <<file, known, value, stack, flow, links, bodyCalls, pending,
                   queued, reads>>

Progress == WalkStatement \/ Call \/ Finish \/ Solve \/ Answer

Next ==
    \/ \E f \in File : OpenFile(f)
    \/ \E k \in Root(file) : RequestSummary(k)
    \/ Progress

Spec == Init /\ [][Next]_vars

\* The analysis is one goroutine: a request that was made goes on running.
FairSpec == Spec /\ WF_vars(Progress)
-----------------------------------------------------------------------------
(* Properties *)

\* Every summary in the cache is initialized or being computed, and only such
\* summaries are computed, linked, queued or requested.
TypeOK ==
    /\ file \in File
    /\ known = Initialized \cup Computing
    /\ IsFiniteSet(known)
    /\ stack \in Seq([key : known, wide : BOOLEAN, recursive : BOOLEAN])
    /\ Computing \subseteq DOMAIN flow
    /\ links \subseteq known \X known
    /\ pending \in Seq(Initialized)
    /\ queued \subseteq Initialized
    /\ request \in known \cup {NoKey}
    /\ DOMAIN reads = known
    /\ settled \subseteq Initialized
    /\ Idle => stack = <<>> /\ pending = <<>>

\* The computing flag keeps a body from being walked inside its own walk: no
\* key is twice on the stack, and only the outermost walk re-evaluates a
\* summary that had a value, so no value changes under a walk that read it.
NeverReentered ==
    \A i, j \in DOMAIN stack :
        i < j => /\ stack[i].key # stack[j].key
                 /\ stack[j].key \notin Initialized

\* Nothing is twice in a sequence.
NoRepeats(s) == \A i, j \in DOMAIN s : s[i] = s[j] => i = j

\* The queued flags say exactly what is on the worklist, and nothing is on it
\* twice: a flag left behind would keep a summary from ever being queued again.
QueueExact ==
    /\ queued = Elements(pending)
    /\ NoRepeats(pending)

\* No change is lost: whatever a finished walk read from an initialized
\* summary is still its value, unless the reader waits on the worklist.
Fresh(k) == \A r \in reads[k] :
    ~ r.provisional => /\ r.callee \in Initialized
                       /\ value[r.callee] = r.value

FreshReads ==
    \A k \in Initialized \ (Computing \cup Elements(pending)) : Fresh(k)

\* The inductive invariant behind FreshReads.  Every frame was called from the
\* one below it and every read went along a link, so that a change finds its
\* readers; and what an unfinished walk has read cannot change under it, since
\* only the outermost walk, which nobody above it can read, gives a new value
\* to an initialized summary.
StackLinked ==
    \A i \in DOMAIN stack : i > 1 => <<stack[i - 1].key, stack[i].key>> \in links

ReadsLinked == \A k \in known : \A r \in reads[k] : <<k, r.callee>> \in links

InFlight ==
    \A k \in Computing : \A r \in reads[k] :
        ~ r.provisional => /\ r.callee \in Initialized \ Computing
                           /\ value[r.callee] = r.value

SolverInv ==
    /\ TypeOK
    /\ NeverReentered
    /\ StackLinked
    /\ ReadsLinked
    /\ InFlight
    /\ QueueExact
    /\ FreshReads

\* The inductive invariant behind the refinement: nothing that was settled is
\* walked again, because what is settled only ever calls what is settled.
SettledClosed ==
    /\ settled \cap (Computing \cup Elements(pending)) = {}
    /\ \A e \in links : e[1] \in settled => e[2] \in settled

\* A provisional summary is only ever consumed on a cycle of calls: the
\* summary it stands for depends on the one that consumed it.
ProvisionalOnCycle ==
    \A k \in known : \A r \in reads[k] :
        r.provisional => k \in Reach(links, r.callee)

\* "A worklist then propagates changes to a fixed point": once a request is
\* answered, every summary was computed from the summaries the cache holds,
\* the provisional ones handed out on back edges included.
FixedPoint ==
    Idle => \A k \in Initialized : \A r \in reads[k] : r.value = value[r.callee]

\* The case the fixed point leaves out: a walk that re-evaluates a summary is
\* called back, and hands out a provisional summary where there was a value.
BackEdgesFirst ==
    \A k \in Computing : \A r \in reads[k] : r.provisional => r.callee \notin Initialized

\* The inductive invariant behind the fixed point, where that case is left
\* out: a provisional read refers to a walk further down the stack, and a
\* reader that is done has been queued again before that walk ends.
ProvisionalPlaced ==
    /\ \A i \in DOMAIN stack : \A r \in reads[stack[i].key] :
          r.provisional => \E j \in 1 .. i : stack[j].key = r.callee
    /\ \A k \in Initialized \ (Computing \cup Elements(pending)) : \A r \in reads[k] :
          r.provisional => r.callee \in Computing \ Initialized

\* Every request is answered: the worklist is drained in the end.
Answered == ~ Idle ~> Idle

\* What the cache promises to the rule's walk: answers that never change.
Answers == [k \in settled |-> value[k]]
Memo == INSTANCE SummaryMemo WITH answers <- Answers
MemoSpec == Memo!Spec
=============================================================================
