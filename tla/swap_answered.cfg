SPECIFICATION FairSpec
CONSTANTS
    File = {"swap"}
    NoKey = NoKey
    Root <- MCRoot
    BodyOf <- MCBodyOf
    Start <- FlowStart
    Done <- FlowDone
    Calling <- FlowCalling
    Advance <- FlowAdvance
    Target <- FlowTarget
    EntryKey <- FlowEntryKey
    Provisional <- ProvisionalSummary
    Resume <- FlowResume
    Outcome <- FlowOutcome
    Body <- AllBodies
    Code <- AllCode
    VarOrder <- MCVarOrder
    NoVar = "none"
    Depth = 4
PROPERTY Answered
