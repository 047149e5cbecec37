SPECIFICATION FairSpec
CONSTANTS
  MaxAnswers = 3
  BatchSize = 2
  MaxFailures = 2
  DiskMayFail = TRUE
  MaxCrashes = 1
INVARIANTS
  DeviceHasWhatItSent
  SequencesAreUnique
  NoAnswerIsDropped
PROPERTIES
  HandedInWhole
  SubmissionCompletes
CHECK_DEADLOCK FALSE
