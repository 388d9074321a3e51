CONSTANTS
  FactFiles = {f, g}
  Root = root
  BatchSize = 1
  MaxWrites = 1
  MaxOthers = 1
SPECIFICATION FactsSpec
CHECK_DEADLOCK FALSE
INVARIANT FactsAreRetried
