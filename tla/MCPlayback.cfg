SPECIFICATION FairSpec
CONSTANTS
  None = None
  l = l
  a = a
  b = b
  x = x
  Entries <- MCEntries
  Kind <- MCKind
  Content <- MCContent
  Initial <- MCInitial
  Extra <- MCExtra
  Options <- MCOptions
  MaxCommands = 2
INVARIANT DemuxersOwned
INVARIANT FileAsAsked
INVARIANT AskedIsNext
PROPERTY PlaybackStops
CHECK_DEADLOCK FALSE
