CONSTANTS
  RingSize = 2
  BufferSize = 4
  MaxSamples = 3
  MaxCommands = 1
  NumPlanes = 2
  Requests = {1, 3}
  PullDrivers = {"reset", "no_reset", "silence"}
  DeviceSize = 3
  Period = 2
  Margin = 1
  PushDrivers = {"plain", "blocked", "silence"}
  MaxFaults = 1
SPECIFICATION FairSpec
INVARIANTS
  CopiesApart
  NoCommonSleep
PROPERTIES
  ImplementsAudioQueue
  NothingCutOff
  EverythingPlayed
CHECK_DEADLOCK FALSE
