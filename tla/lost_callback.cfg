\* A callback that is called twice and passed on once.
SPECIFICATION Spec
CONSTANTS
  NoFunc = NoFunc
  NoVar = NoVar
  Depth = 6
  Programs <- PassedOnInTurn
  StorageOf <- Storage
CHECK_DEADLOCK FALSE
INVARIANT Sound
