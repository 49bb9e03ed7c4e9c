SPECIFICATION FairSpec
CONSTANTS
    Name <- MCName
    Item <- MCItem
    Source <- MCSource
    BuiltinOrder <- MCBuiltinOrder
    Specs <- MCSpecs
    Selections <- MCSelections
    Implemented <- MCImplemented
    Configures <- MCConfigures
    NoBase = NoBase
    NoName = NoName
    NoElement = NoElement
    Length = 3
INVARIANT TypeOK
INVARIANT ExpandedOnce
INVARIANT Winners
INVARIANT MemoTransparent
INVARIANT CyclesReported
INVARIANT UnknownReported
INVARIANT UnmatchedExact
PROPERTY Returns
CHECK_DEADLOCK FALSE
