CONSTANTS
  abort = abort
  demuxer = demuxer
  stream = stream
  extra = extra
  core = core
  opener = opener
  worker = worker
  None = none
  Cancels = {abort, demuxer, stream, extra}
  Threads = {core, opener, worker}
  Owner <- MCOwner
  Masters <- MCMasters
  Uses <- MCUses
  Shared = {abort}
  MaxCalls <- MCMaxCalls
SPECIFICATION FairSpec
INVARIANTS
  AliveWhenUsed
  MirrorsAgree
PROPERTIES
  CallsEnd
CHECK_DEADLOCK FALSE
