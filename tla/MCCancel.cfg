SPECIFICATION AllSpec
CONSTANTS
  abort = abort
  demuxer = demuxer
  stream = stream
  playing = playing
  opener = opener
  None = None
  Objects <- MCObjects
  Threads <- MCThreads
  Owner <- MCOwner
  Shared <- MCShared
  CanBeParent <- MCLinks
  Timeouts = {"finite", "infinite"}
  MaxOps = 5
  Handles = {a, b, c}
  Main = a
  Input = keys
  Owners = {b, keys}
INVARIANTS TypesOK TriggerComplete CoreKept Ends
PROPERTIES CallsReturn
CHECK_DEADLOCK FALSE
