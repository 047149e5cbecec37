SPECIFICATION Spec
CONSTANTS
  MaxAnswers = 2
  BatchSize = 1
  MaxFailures = 2
  DiskMayFail = TRUE
  MaxCrashes = 2
INVARIANTS
  RecordsRebuild
CHECK_DEADLOCK FALSE
