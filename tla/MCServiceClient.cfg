SPECIFICATION Spec
CONSTANTS
  c1 = c1  c2 = c2  srv = srv  m1 = m1  m2 = m2  blank = blank
  Clients <- MCClients
  Msg <- MCMsg
  Server = srv
  Blank = blank
  SEMVMX = 2
  SEMAEM = 2
  MaxStarts = 2
  MaxSets = 2
SYMMETRY ClientsAlike
INVARIANT TypeOK
INVARIANT SlotExclusion
INVARIANT TokenConserved
PROPERTY IsOneSlotChannel
CHECK_DEADLOCK FALSE
