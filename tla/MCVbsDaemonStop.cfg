SPECIFICATION Spec
CONSTANTS
  s1 = s1  s2 = s2  t1 = t1  vbs1 = vbs1  vbs2 = vbs2  outside = outside
  Starts <- MCOneStart
  Stops <- MCStops
  strExePathSet <- MCOneExe
  Outside = outside
  CanFail <- MCNoneFails
  Prompt = TRUE
  MaxSecond = 1
INVARIANT StopsForGood
CHECK_DEADLOCK FALSE
