SPECIFICATION Spec
CONSTANTS
  NoFunc = NoFunc
  NoVar = NoVar
  Depth = 6
  Programs <- AllPrograms
  StorageOf <- Storage
CHECK_DEADLOCK FALSE
INVARIANT TypeOK
INVARIANT Sound
INVARIANT Precise
INVARIANT Settled
PROPERTY OnlyGrows
PROPERTY Terminates
