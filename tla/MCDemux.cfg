SPECIFICATION Spec
CONSTANTS
  File <- MCFile
  Types <- MCTypes
  Uses <- MCUses
  Switchable = {2}
  Targets = {1, 5, 8}
  MaxRanges = 2
  donate_fw = TRUE
  min_secs = 2
INVARIANTS TypeOK CacheSound EofTrue
PROPERTIES Gapless Served
CHECK_DEADLOCK FALSE
