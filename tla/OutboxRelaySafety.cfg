SPECIFICATION Spec
CONSTANTS
  a1 = a1
  a2 = a2
  b1 = b1
  Message = {a1, a2, b1}
  Relay = {r1, r2}
  NoRelay = NoRelay
  HeadConsumers = 2
  AggregateOf <- MCAggregateOf
  Occurred <- MCOccurred
  Consumers <- MCConsumers
  Undisciplined = {b1}
  BatchSize = 2
  MaxAttempts = 2
  MaxCrashes = 0
  MaxRequeues = 0
SYMMETRY RelaySymmetry
INVARIANTS
  AtLeastOnce
  InOrderPerAggregate
PROPERTIES
  ImplementsQueue
CHECK_DEADLOCK FALSE
