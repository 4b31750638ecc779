SPECIFICATION FairSpec
CONSTANTS
  s1 = s1  s2 = s2  t1 = t1  vbs1 = vbs1  vbs2 = vbs2  outside = outside
  Starts <- MCOneStart
  Stops <- MCStops
  strExePathSet <- MCTwoExes
  Outside = outside
  CanFail <- MCCanFail
  Prompt = FALSE
  MaxSecond = 1
PROPERTY KeepsRunning
CHECK_DEADLOCK FALSE
