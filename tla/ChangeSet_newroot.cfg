CONSTANTS
  Paths <- MCPaths
  Contents <- MCContents
  DocsetRoots <- MCRoots
  Batches <- MCMoves
  Absent = Absent
  Dir = Dir
  MaxFaults = 0
  MaxCrashes = 0
SPECIFICATION SourceOnDisk
CHECK_DEADLOCK FALSE
INVARIANT FailureMeansUndone
