CONSTANTS
  c1 = c1  c2 = c2  c3 = c3  s1 = s1  k1 = k1  k2 = k2
  Clients = {c1, c2, c3}
  Setters = {s1}
  Closers = {k1}
  Applier = applier
  NoOne = NoOne
  Kinds = {"change","task"}
  Buffer = 1
  MaxCalls = 1
  MaxCancels = 1
  MaxFaults = 1
  MaxCrashes = 1
SPECIFICATION Spec
CHECK_DEADLOCK FALSE
CONSTRAINT TasksComeFirst
SYMMETRY MCSymmetry
INVARIANTS TypeOK NoSendOnClosedChannel AnswersAreTrue RecordsFollowCommits CommitsAreFollowed
PROPERTY OrderedSpec
