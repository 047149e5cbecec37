SPECIFICATION FairSpec
CONSTANTS
  a1 = a1
  a2 = a2
  b1 = b1
  Message = {a1, a2}
  Relay = {r1, r2}
  NoRelay = NoRelay
  HeadConsumers = 1
  AggregateOf <- MCAggregateOf
  Occurred <- MCOccurred
  Consumers <- MCConsumers
  Undisciplined = {a1}
  BatchSize = 1
  MaxAttempts = 2
  MaxCrashes = 1
  MaxRequeues = 1
PROPERTIES
  EveryMessageSettles
CHECK_DEADLOCK FALSE
