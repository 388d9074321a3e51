CONSTANTS
  MaxRecords = 3
  MaxDay = 3
  Retention = 1
  MaxCollects = 1
  MaxCrashes = 1
SPECIFICATION Spec
CONSTRAINTS OneCallAtATime LastRecordIsQuiet
CHECK_DEADLOCK FALSE
INVARIANT RecordsSurvive
PROPERTIES ReadersMissNothing UndisturbedSweepIsSafe
