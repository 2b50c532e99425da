SPECIFICATION Spec
CONSTANTS
  CoreList <- MCCoreList
  NumberOfPfnEntries = 36
  BootFrames = {0, 3, 4}
  ModulePages = 2
  PoolPages = 2
  Spans <- MCSpans
  UserEnd = 31
  KernelStart = 32
  KernelEnd = 95
  StackPages <- MCStackPages
  InitialView = 8
  ImageBase = 16
  FilePages = 3
  ImageSections <- MCImageSections
  MaxThreads = 1
  RxPages = 2
  MaxAccesses = 3
INVARIANTS
  FramesHaveOneUse
  NoFrameLost
  StacksGuarded
  
  ImageStarted

  
CHECK_DEADLOCK FALSE
