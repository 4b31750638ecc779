SPECIFICATION FairSpec
CONSTANTS
  t1 = t1  t2 = t2
  Threads <- MCThreads
  Sizes <- MCSizes
  COUNT = 2
  SLACK = 1
  MallocFails = TRUE
  MaxCalls = 3
INVARIANT TypeOK
INVARIANT InTurn
INVARIANT StringStands
PROPERTY CallReturns
CHECK_DEADLOCK FALSE
