CONSTANTS
  c1 = c1
  c2 = c2
  target = target
  Clients = {c1, c2}
  Target = target
  Keys = {k1}
  MaxCalls <- CallBound
SPECIFICATION FairSpec
INVARIANTS
  TypeOK
  ExclusiveAccess
  SyncItemAlive
  NoLostWakeup
PROPERTIES
  ImplementsCoreAccess
  CallsReturn
CHECK_DEADLOCK FALSE
