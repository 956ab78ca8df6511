CONSTANTS
  Shutdown = shutdown
  EventIds = {shutdown, tick}
  Requests = {r1, r2}
  MaxEvents = 2
  MaxSends = 3
SPECIFICATION FairSpec
INVARIANTS
  RepliesFit
  NoMissedEvent
PROPERTIES
  ImplementsEventFeed
  EventsTaken
CHECK_DEADLOCK FALSE
