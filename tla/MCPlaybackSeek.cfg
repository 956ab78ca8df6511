SPECIFICATION Spec
CONSTANTS
  None = None
  l = l
  a = a
  b = b
  x = x
  Entries <- MCEntries
  Kind <- MCKind
  Content <- MCContent
  Initial <- MCInitial
  Extra <- MCExtra
  Options <- MCSeekOptions
  MaxCommands = 2
INVARIANT EndHasReason
CHECK_DEADLOCK FALSE
