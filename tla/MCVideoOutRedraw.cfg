SPECIFICATION AllSpec
CONSTANTS
  Parts = {"video"}
  Params = {"p", "q"}
  Images = {"i"}
  Kinds <- LiveKinds
  Commands = {"done", "redraw"}
  RedrawInterval = 0
  MaxTime = 3
  MaxFrames = 1
  MaxCommands = 2
PROPERTIES DoneTold
CHECK_DEADLOCK FALSE
