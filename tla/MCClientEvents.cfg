SPECIFICATION Spec
CONSTANTS
  Names <- MCNames
  Plain <- OnlyOsd
  External <- OnlyOsd
  Values <- MCValues
  Uses <- MCUses
  NoId = 0
  MaxEvents = 2
  MaxObs = 2
  MaxOps = 4
INVARIANTS TypeOK MemorySafe NothingMissed
PROPERTIES HookAfterChanges Served
CHECK_DEADLOCK FALSE
