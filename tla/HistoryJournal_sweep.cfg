CONSTANTS
  MaxRecords = 2
  MaxDay = 3
  Retention = 0
  MaxCollects = 1
  MaxCrashes = 0
SPECIFICATION Spec
CHECK_DEADLOCK FALSE
PROPERTY SweepSparesReferenced
