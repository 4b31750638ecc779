SPECIFICATION FairSpec
CONSTANTS
  c1 = c1  c2 = c2  srv = srv  m1 = m1  m2 = m2  blank = blank
  Clients <- MCClients
  Msg <- MCMsg
  Server = srv
  Blank = blank
  SEMVMX = 1
  SEMAEM = 2
  MaxStarts = 1
  MaxSets = 1
PROPERTY PostedIsPrinted
PROPERTY WaitingClientGetsIn
CHECK_DEADLOCK FALSE
