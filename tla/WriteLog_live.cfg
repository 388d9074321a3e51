CONSTANTS
  c1 = c1  c2 = c2  c3 = c3  s1 = s1  k1 = k1  k2 = k2
  Clients = {c1, c2}
  Setters = {s1}
  Closers = {k1, k2}
  Applier = applier
  NoOne = NoOne
  Kinds = {"change", "task"}
  Buffer = 2
  MaxCalls = 1
  MaxCancels = 1
  MaxFaults = 0
  MaxCrashes = 0
  laptop = laptop  desktop = desktop  guest = guest
  Machines <- MCMachines
  Owner <- MCOwner
  SyncStores = {"git", "notes"}
  NativeStore = "openlore"
  Manifests <- MCManifests
  PendingCap = 2
  MaxEdits = 2
  MaxNative = 2
  MaxMishaps = 2
SPECIFICATION CommitsSpec
CHECK_DEADLOCK FALSE
INVARIANT DocstoreKeepsItsWord
PROPERTIES EveryoneReturns SyncsSucceed
