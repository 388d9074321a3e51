CONSTANTS
  MaxDay = 1
  MaxEvents = 2
  Keep = 1
  MaxMishaps = 1
  key1 = key1  key2 = key2  key3 = key3
  WorkKeys = {key1, key2, key3}
  MaxPriorityStreak = 2
  file1 = file1  file2 = file2  root = root
  FactFiles = {file1, file2}
  Root = root
  BatchSize = 1
  MaxWrites = 1
  MaxOthers = 1
  req1 = req1  req2 = req2
  Owners = {"a", "b"}
  HttpRequests = {req1, req2}
  MaxSessions = 2
  TTL = 2
  GlobalCap = 1
  OwnerCap = 1
  MaxLag = 1
SPECIFICATION ServicesSpec
CHECK_DEADLOCK FALSE
INVARIANT WorkIsKept
PROPERTIES
  RetentionWaitsForRemote IndexKeepsItsWord EventsArrive
  LaneServesAndEnds
  FactsAreKept FactsSettle
  SessionsEndRightly IdleSessionsEnd
