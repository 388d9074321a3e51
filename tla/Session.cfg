CONSTANTS
  shell = shell  job = job  other = other  lone = lone
  mine = mine  theirs = theirs  hers = hers
  None = None  Always = Always
  Threads = {shell, job, other, lone}
  Sessions = {mine, theirs, hers}
  SessionOf <- SharedSession
  Files = {"f", "g"}
  HashFiles = {"f"}
  Verbs <- MCVerbs
  Texts = {"x"}
  MaxRetries = 2
  MaxCommits = 3
  MaxParked = 1
  Delegates = {"d"}
  PolicyRoles = {"r1", "r2"}
  MaxUpdates = 2
  MaxSaves = 1
  MaxHostEdits = 1
  MaxStops = 1
SPECIFICATION WorldsSpec
SYMMETRY SessionSymmetry
CHECK_DEADLOCK FALSE
INVARIANT TypeOK
PROPERTIES RefusalsAreEarned OverwritesOnlyWhatWasSeen AppendsKeepAll MovesKeepContent ConfigIsCurrent
