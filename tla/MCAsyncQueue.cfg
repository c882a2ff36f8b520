SPECIFICATION Spec
CONSTANTS
  Samples <- MCSamples
  Configs <- MCConfigs
  NoFrame = NoFrame
  MaxResets = 1
  MaxFilterResets = 1
  MaxConfigs = 1
INVARIANTS TypeOK InOrder NoStaleFrame
PROPERTIES Served
CHECK_DEADLOCK FALSE
