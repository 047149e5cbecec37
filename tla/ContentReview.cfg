SPECIFICATION MCReviewSpec
CONSTANTS
  Authors = {ann, ops}
  ContentOps = {ops}
  Reviewers = {rae, ops}
  ReviewRequests = {q1, q2}
  Racer = q2
  LeaseTime = 1
  EscalateAfter = 1
  Nobody = nobody
  MaxSaves = 6
  MaxSavesUnderReview = 4
  MaxVersions = 2
  MaxEdits = 1
  MaxClaims = 1
INVARIANTS
  ApprovedAsDecided
  SignedIndependently
PROPERTIES
  ImplementsEdition
  EveryClaimEnds
  WaitingIsEscalated
CHECK_DEADLOCK FALSE
