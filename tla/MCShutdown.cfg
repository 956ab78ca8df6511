CONSTANTS
  Clients = {main, c1}
  Main = main
  Weak = {c1}
  Requesters = {c1}
  Detached = {d1}
  Capacity = 3
  MaxSends = 1
SPECIFICATION FairSpec
INVARIANTS
  RepliesReachHandle
  EndInOrder
  ShutdownOnce
PROPERTIES
  QuitEnds
CHECK_DEADLOCK FALSE
