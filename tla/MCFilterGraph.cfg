SPECIFICATION FairGraphSpec
CONSTANTS
  Packets = 4
  Segments <- MCSegments
  Roles = {"user", "convert"}
  Delay = 2
  MaxSeeks = 1
INVARIANTS FramesInOrder
PROPERTY EndArrives
CHECK_DEADLOCK FALSE
