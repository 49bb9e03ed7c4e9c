SPECIFICATION Spec
CONSTANTS
    Name <- MCName
    Item <- MCItem
    Source <- MCSource
    BuiltinOrder <- MCBuiltinOrder
    Specs <- RepeatedOverride
    Selections <- MCSelections
    Implemented <- MCImplemented
    Configures <- MCConfigures
    NoBase = NoBase
    NoName = NoName
    NoElement = NoElement
    Length = 3
INVARIANT OverrideWins
CHECK_DEADLOCK FALSE
