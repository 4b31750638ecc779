SPECIFICATION Spec
CONSTANTS
  Users = {u1, u2, u3}
  Handles = {h1, h2, h3}
  Nobody = nobody
  NoHandle = nohandle
  Ends = {1, 2}
  Peer <- MCPeer
  Size = 2
  PER_SIZE = 1
  Capacity = 2
  MaxMessages <- MCMaxMessages
  Linux = TRUE
  COM_SIZE = 12
  COM_PER_SIZE = 3
  MaxFrames = 3
  Pointers = {p1, p2}
  Blocks = {b1, b2, b3}
  Sizes = {1, 2, 3}
  Bytes = {x}
  Garbage = garbage
  Null = null
INVARIANT StartupsBalanced
INVARIANT HandlesMatchSockets
INVARIANT WholeMessages
PROPERTY TransferEnds
INVARIANT FramesParsed
INVARIANT RecordsMatch
INVARIANT ContentsKept
CHECK_DEADLOCK FALSE
