CONSTANTS
  c1 = c1  c2 = c2  c3 = c3  s1 = s1  k1 = k1  k2 = k2
  Clients = {c1, c2, c3}
  Setters = {}
  Closers = {k1}
  Applier = applier
  NoOne = NoOne
  Kinds = {"change"}
  Buffer = 1
  MaxCalls = 1
  MaxCancels = 0
  MaxFaults = 0
  MaxCrashes = 0
SPECIFICATION FairSpec
CHECK_DEADLOCK FALSE
PROPERTY CloseReturnsInTime
