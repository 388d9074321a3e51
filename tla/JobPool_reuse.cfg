CONSTANTS
  j1 = j1  j2 = j2
  JobIds = {j1, j2}
  MaxConcurrent = 1
SPECIFICATION Spec
CHECK_DEADLOCK FALSE
INVARIANT GracefulShutdown
