SPECIFICATION FairSpec
CONSTANTS
  Streams = {1, 2}
  Type <- MCType
  File <- MCFile
  MaxRanges = 3
  MaxBytes = 5
  MaxBack = 2
  MinSecs = 0
  Seeks <- MCSeeks
  Switches <- MCSwitches
  MaxOps = 2
INVARIANTS
  Consistent
  CachedWithoutGaps
  SeekRangeHolds
  ReadInOrder
PROPERTIES
  EofAtEnd
  PacketOrEof
CHECK_DEADLOCK FALSE
