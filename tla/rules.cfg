\* Every statement and every use of members; a path count saturates at 15.
\* A run ends when the file is analyzed or the ruleset fails to load.
SPECIFICATION Spec
CHECK_DEADLOCK FALSE
CONSTANTS
  MaxInt = 15
  Inputs <- SomeInputs
  Rules <- AllRules
INVARIANT TypeOK
INVARIANT NPathExact
INVARIANT NestingExact
INVARIANT CognitiveExact
INVARIANT PromotedExact
INVARIANT ComponentsExact
INVARIANT ReportsExact
