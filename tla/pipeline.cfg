SPECIFICATION Spec
CONSTANTS
    ArgVectors <- MCArgVectors
    Unknown <- MCUnknown
    Numbers <- MCNumbers
    Items <- MCItems
    NoArg = NoArg
    NoExit = NoExit
    NameOrder <- MCNameOrder
    Hidden <- MCHidden
    Extension <- MCExtension
    Tests <- MCTests
    Foreign <- MCForeign
    FileSystems <- MCFileSystems
    Vanishing <- MCVanishing
    Load <- MCLoad
    Checks <- MCChecks
    PathOf <- MCPathOf
    PartOf <- MCPartOf
    WriterFaults <- MCWriterFaults
INVARIANT TypeOK
INVARIANT FoundOnce
INVARIANT FactsOfWholePackage
INVARIANT MethodsOnce
INVARIANT NoSilentSuccess
INVARIANT GroupedOnce
PROPERTY ContractSpec
