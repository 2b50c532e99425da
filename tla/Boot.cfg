SPECIFICATION Spec
CONSTANTS
  Kernel = "krnl"
  Images <- MCImages
  Preload <- MCPreload
  FileFrames <- MCFileFrames
  LastFrame = 13
  Reserved = {0, 5}
  EntryBytes = 2
  FrameBytes = 16
  PoolOffset = 1
  MaxFailures = 2
INVARIANTS
  ModulesFound
  ModulesMoved
  FreeFramesAreFree
  PreloadedAccounted
CHECK_DEADLOCK FALSE
