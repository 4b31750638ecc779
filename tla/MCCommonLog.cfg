SPECIFICATION Spec
CONSTANTS
  t1 = t1  t2 = t2  a = a  garbage = garbage
  Threads <- MCThreads
  Procs <- MCProcs
  Proc <- MCProc
  DefaultDir = "log"
  DefaultSize = 1
  ConfDir = "Log"
  ConfSize = 1
  DELETE_MAX = 2
  Garbage = garbage
  MaxEntries = 5
  MaxCrashes = 1
  MaxUntrimmed = 1
SYMMETRY ThreadsAlike
INVARIANT TypeOK
INVARIANT KeepsNewest
INVARIANT BoundedSize
PROPERTY ObeysConfig
CHECK_DEADLOCK FALSE
