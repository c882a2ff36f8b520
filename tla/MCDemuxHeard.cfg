SPECIFICATION Spec
CONSTANTS
  File <- MCFile
  Types <- MCTypes
  Uses <- HeardUses
  Switchable = {2}
  Targets = {1, 5, 8}
  MaxRanges = 2
  donate_fw = TRUE
  min_secs = 2
INVARIANT Heard
CHECK_DEADLOCK FALSE
