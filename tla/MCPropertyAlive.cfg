CONSTANTS
  Props = {p1}
  Unavailable = unavailable
  Values = {unavailable, v1}
  MaxChanges = 2
SPECIFICATION Spec
INVARIANT PropAlive
CHECK_DEADLOCK FALSE
