SPECIFICATION Spec
CONSTANTS
    Name <- MCName
    Item <- MCItem
    Source <- MCSource
    BuiltinOrder <- MCBuiltinOrder
    Specs <- InheritedFirst
    Selections <- MCSelections
    Implemented <- MCImplemented
    Configures <- MCConfigures
    NoBase = NoBase
    NoName = NoName
    NoElement = NoElement
    Length = 3
INVARIANT DefinitionsRejected
CHECK_DEADLOCK FALSE
