SPECIFICATION ToolsSpec
CONSTANTS
  core = core
  vo = vo
  ipc = ipc
  init_vo = init_vo
  init_ipc = init_ipc
  None = None
  Threads = {core, vo, ipc}
  Tags = {init_vo, init_ipc}
  Members <- MCMembers
  MaxCalls = 3
  Workers = {t1, t2, t3}
  Works = {w1, w2, w3, w4}
  InitThreads = 0
  MinThreads = 1
  MaxThreads = 3
  normal = normal
  urgent = urgent
  Filters = {normal, urgent}
  HighPriority = {urgent}
  Root = Root
  NoPin = NoPin
  Pins = {x, y}
  Peer <- MCPeer
  MaxChanges = 3
  MaxWakeups = 2
  MaxInterrupts = 1
INVARIANTS Paired TypesOK Attended
PROPERTIES MinKept AllDone
CHECK_DEADLOCK FALSE
