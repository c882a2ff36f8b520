SPECIFICATION Spec
CONSTANTS
  Names <- OnlyOsd
  Plain <- Nothing
  External <- OnlyOsd
  Values <- MCValues
  Uses <- ResizeUses
  NoId = 0
  MaxEvents = 2
  MaxObs = 1
  MaxOps = 4
INVARIANTS NotStale
CHECK_DEADLOCK FALSE
