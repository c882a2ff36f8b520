SPECIFICATION Spec
CONSTANTS
  Drivers <- MCDrivers
  FrameSize = 2
  DeviceBuffer = 3
  Commands <- Calls
  MaxFrames = 2
  MaxCommands = 3
INVARIANTS TypeOK SyncKept EndTold DeviceFollows
PROPERTIES Served
CHECK_DEADLOCK FALSE
