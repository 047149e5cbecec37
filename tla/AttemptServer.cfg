SPECIFICATION FairSpec
CONSTANTS
  Event = {e1}
  OpensAt = 0
  ClosesAt = 2
  Duration = 2
  MaxNow = 3
  Attempt = {k1, k2}
INVARIANTS
  AnnouncedOnce
  ScoreIsOfTheSubmission
PROPERTIES
  ImplementsSitting
  EveryAttemptEnds
  EverySubmissionScored
CHECK_DEADLOCK FALSE
