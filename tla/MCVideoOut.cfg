SPECIFICATION AllSpec
CONSTANTS
  Parts = {"video", "render"}
  Params = {"p", "q"}
  Images = {"i"}
  Kinds <- MCKinds
  Commands = {"seek", "pause", "redraw", "done", "wait", "reconfig", "destroy"}
  RedrawInterval = 1
  MaxTime = 3
  MaxFrames = 2
  MaxCommands = 1
INVARIANTS TypesOK VsyncsKept Sound
PROPERTIES NoStaleFrame Served
CHECK_DEADLOCK FALSE
