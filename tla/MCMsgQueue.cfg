SPECIFICATION Spec
CONSTANTS
  p1 = p1  p2 = p2  alice = alice  root = root  d1 = d1   none = none
  Procs <- MCProcs
  User <- MCUser
  Root <- MCRoot
  Data <- MCData
  None = none
  MSG_BUFF_MAX = 4
  SizeofMsg = 6
  MSGMNB = 10
  Counts <- MCCounts
  PushSizes <- MCPushSizes
  PopSizes <- MCPopSizes
  MaxQueues = 2
INVARIANT TypeOK
PROPERTY IsFifo
PROPERTY PushWithinCapacity
CHECK_DEADLOCK FALSE
