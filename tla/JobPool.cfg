CONSTANTS
  j1 = j1  j2 = j2
  JobIds = {j1, j2}
  MaxConcurrent = 1
  MaxCommits = 2
  QueueCap = 1
  HandoffCap = 1
  MaxMishaps = 2
SPECIFICATION SidesSpec
CHECK_DEADLOCK FALSE
INVARIANTS TypeOK DrainedMeansFinished  EveryCommitEmits EffectsBeforeMarks
  
