SPECIFICATION Spec
CONSTANTS
  Solutions = {s1}
  PubRequests = {1, 2}
  Keys = {ka, kb}
  NoAnswer = none
  MaxItemSaves = 6
  MaxSolutionSaves = 5
  MaxStimulusSaves = 5
  Runs = {r1, r2}
  Meters = {m1, m2}
  Ceilings = {3, 4}
  Reservations = {2, 3}
  MaxUsage = 2
  NoRun = none
  Candidates = {c1}
  Handlers = {h1, h2}
  BlockingPrechecks = {b1, b2}
  AdvisoryPrechecks = {a1}
  NoCandidate = none
  MaxDrafts = 3
  Commands = {q1, q2}
  MaxLive = 2
  MaxSessions = 5
  Writers = {w1, w2}
  Sealers = {x1, x2}
  MaxDay = 2
  MaxRecords = 3
  Callers = {k1, k2, k3, k4, k5}
  Concurrency = 2
  QueueLimit = 2
INVARIANTS
  PublishedItemIsExplained
  PublishedIsSigned
  ReservedWithinCeiling
  OvershootIsCallsInFlight
  AcceptedWasChecked
  AnnouncedAsDecided
  WithinDeviceLimit
  HonestHistoryVerifies
  SlotsAreHeld
PROPERTIES
  ImplementsSessionBook
  NobodyWaitsForEver
CHECK_DEADLOCK FALSE
