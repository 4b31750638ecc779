SPECIFICATION Spec
CONSTANTS
  s1 = s1  s2 = s2  t1 = t1  vbs1 = vbs1  vbs2 = vbs2  outside = outside
  Starts <- MCTwoStarts
  Stops <- MCStops
  strExePathSet <- MCOneExe
  Outside = outside
  CanFail <- MCNoneFails
  Prompt = FALSE
  MaxSecond = 2
SYMMETRY StartsAlike
INVARIANT TypeOK
INVARIANT PreviousAreStopped
INVARIANT SurvivorsSameSecond
INVARIANT NoSecondCopy
CHECK_DEADLOCK FALSE
