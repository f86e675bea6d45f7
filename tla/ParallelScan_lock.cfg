SPECIFICATION ParallelSpec
CONSTANTS
  Dirs = {"d1", "d2"}
  FilesOf <- MCFilesOf
  RootFiles = {"r"}
  Threshold = 2
  Capacity = 1
  SENTINEL = SENTINEL
  Reentrant = FALSE
PROPERTY ScanEnds
CHECK_DEADLOCK FALSE
