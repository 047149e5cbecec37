SPECIFICATION MCReviewSpec
CONSTANTS
  Authors = {ann}
  ContentOps = {}
  Reviewers = {rae}
  ReviewRequests = {q1}
  Racer = q2
  LeaseTime = 1
  EscalateAfter = 1
  Nobody = nobody
  MaxSaves = 9
  MaxSavesUnderReview = 0
  MaxVersions = 2
  MaxEdits = 1
  MaxClaims = 0
INVARIANT PublishedAsReviewed
CHECK_DEADLOCK FALSE
