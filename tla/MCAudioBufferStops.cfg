SPECIFICATION Spec
CONSTANTS
  Drivers <- StoppingDrivers
  FrameSize = 2
  DeviceBuffer = 3
  Commands <- Calls
  MaxFrames = 3
  MaxCommands = 5
INVARIANTS Restarted
CHECK_DEADLOCK FALSE
