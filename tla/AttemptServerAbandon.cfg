SPECIFICATION Spec
CONSTANTS
  Event = {e1, e2}
  OpensAt = 0
  ClosesAt = 2
  Duration = 2
  MaxNow = 3
  Attempt = {k1}
INVARIANTS
  AbandonedHoldsNothing
CHECK_DEADLOCK FALSE
