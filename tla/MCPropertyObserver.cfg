CONSTANTS
  Props = {p1, p2}
  Unavailable = unavailable
  Values = {unavailable, v1}
  MaxChanges = 2
SPECIFICATION FairSpec
INVARIANTS
  UpdatesCounted
  ChangesKept
PROPERTIES
  UpToDate
CHECK_DEADLOCK FALSE
