CONSTANTS
  Paths <- MCPaths
  Contents <- MCContents
  DocsetRoots <- MCRoots
  Batches <- MCBatches
  Absent = Absent
  Dir = Dir
  MaxFaults = 1
  MaxCrashes = 1
  login1 = login1  login2 = login2  req1 = req1  req2 = req2
  writer1 = writer1  writer2 = writer2
  Chains = {login1, login2}
  Strong = {login2}
  Delegated = {login2}
  Patient = {login1}
  Callers = {req1, req2}
  Grace = 1
  Lifetime = 1
  CodeTTL = 0
  MaxTokens = 3
  MaxTime = 2
  MaxFailedWrites = 1
  Documents = {1, 2}
  Titles = {1}
  Proses = {"a", "b"}
  IndexWriters = {writer1, writer2}
  MaxRequests = 2
  MaxEdits = 1
  Names = {"a", "b", "c"}
  Nowhere = "-"
  LegacyJournals <- MCLegacy
  PageSize = 2
  MaxCommits = 4
  MaxLosses = 1
  MaxRestarts = 1
SPECIFICATION StoresSpec
CONSTRAINT LastCommitIsQuiet
SYMMETRY StoresSymmetry
CHECK_DEADLOCK FALSE
INVARIANTS
  
    HistoryIsTrue
PROPERTIES PatientClientsAreServed IndexIsProjection
