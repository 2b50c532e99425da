\* Seven clusters, two names, one open file.
SPECIFICATION Spec
CONSTANTS
  n1 = n1
  n2 = n2
  dir = dir
  x = x
  y = y
  LastCluster = 8
  EntriesPerSector = 4
  Cells = 2
  Volume <- MCVolume
  Stored <- MCStored
  Files <- MCFiles
  Directories <- MCDirectories
  Shadows <- MCShadows
  Data = {x, y}
  Written = {y}
  Free = Free
  Deleted = Deleted
  Junk = Junk
  NULL = NULL
  Chunks = {1, 3}
  MaxSize = 5
  MaxCalls = 3
INVARIANTS
  VolumeSound
  ContentsKept
  ReadReturnsWhatWasWritten
PROPERTIES
  AppendsSucceed
\* The number of calls is bounded.
CHECK_DEADLOCK FALSE
