SPECIFICATION FairReplaySpec
CONSTANTS
    File = {"diamond", "mutual", "ring"}
    NoKey = NoKey
    Root <- MCRoot
    BodyOf <- MCBodyOf
    Start <- FlowStart
    Done <- FlowDone
    Calling <- FlowCalling
    Advance <- FlowAdvance
    Target <- FlowTarget
    EntryKey <- FlowEntryKey
    Provisional <- ProvisionalSummary
    Resume <- FlowResume
    Outcome <- FlowOutcome
    Body <- AllBodies
    Code <- AllCode
    VarOrder <- MCVarOrder
    NoVar = "none"
    Depth = 4
INVARIANT TypeOK
INVARIANT NeverReentered
INVARIANT QueueExact
INVARIANT FreshReads
INVARIANT FixedPoint
INVARIANT ProvisionalOnCycle
INVARIANT CoversExecutions
INVARIANT SameSummaries
PROPERTY Answered
PROPERTY MemoSpec
