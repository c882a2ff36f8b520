SPECIFICATION AllSpec
CONSTANTS
  Clients = {c1, c2}
  Fns = {f1}
  Target = T
  NoThread = NoThread
  NoItem = NoItem
  MaxWait = 1
  MaxCalls = 2
  player = player
  vo = vo
  Caches <- MCCaches
  NumOptions = 3
  Group <- MCGroup
  View <- MCView
  Stepwise = {player}
  Forced = {3}
  Values = {0, 1}
  MaxWrites = 3
INVARIANTS IInv Exclusive NothingDangles Told
PROPERTIES ImplementsExclusiveAccess Served
CHECK_DEADLOCK FALSE
