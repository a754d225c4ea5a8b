SPECIFICATION FairSpec
CONSTANTS
  MaxItems = 5
  MaxProcs = 4
CHECK_DEADLOCK FALSE
INVARIANTS
  TypeOK
  EveryEntryOnce
  NobodyIsLeft
  ErrorsAreReported
PROPERTY
  ScatterReturns
