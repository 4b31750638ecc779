SPECIFICATION Spec
CONSTANTS
  Writers = {w1, w2}
  Characters <- MCCharacters
  Settings <- MCSettings
  Values <- MCValues
  Default <- MCDefault
  FirstTexts <- MCFirstTexts
  MaxWrites = 3
  Stores = {1, 2}
  Group <- MCGroup
  NUM_PERPAGE = 2
  MAX_EVENT = 3
  MaxFailures = 1
  Queries = {q1}
  Cells = {"a", "long", "(null)"}
  NullCell = "(null)"
  LongCells = {"long"}
  MaxRowPos = 3
  MaxRows = 2
  Conns = {c1, c2}
  iterMax = 3
  Absent = absent
  Nodes = {"top", "dir", "out", "file", "link", "sub", "socket", "odd", "more", "new"}
  Root = "dir"
  Parent <- MCParent
  dType <- MCdType
  Target <- MCTarget
  Unfilled = {"odd"}
  MAX_LINE = 3
  LaneLines <- MCLaneLines
  SourceBytes = {0, 182, 255}
  MaxSource = 7
  LINE = 8
  BLOCK = 4
  FIELD = 2
  WORD = 64
  Pieces = {0, 1, 2, 3, 5, 9, 13}
  MaxInput = 40
 
INVARIANT ReadFindsSetting
INVARIANT StoredAtLeastOnce
INVARIANT NoRowMissed
INVARIANT RowAskedFor
INVARIANT OnlyWholeGroups
INVARIANT DeletesTheTree
INVARIANT DeviceComesBack
INVARIANT DecodeInvertsEncode
INVARIANT FormsKeepText
INVARIANT PiecesDoNotMatter
CHECK_DEADLOCK FALSE
