CONSTANTS
  Port = {p1, p2}
  p1 = p1
  p2 = p2
  NoBlock = NoBlock
  Streams = 2
  BufferLimit = 1
  MaxConns = 2
  MaxTyped = 2
  MaxRead = 2
  MaxUpsets = 2
SPECIFICATION FairSpec
INVARIANTS
  WrittenOnce
  HeardInOrder
  NoGhost
PROPERTIES
  SendResolves
CHECK_DEADLOCK FALSE
