SPECIFICATION Spec
CONSTANTS
  a1 = a1
  x = x
  y = y
  Attempt = {a1}
  Slot = {x, y}
  Operation = {o1, o2}
  Relay = {r1, r2}
  FirstScore <- MCFirstScore
  Correction <- MCCorrection
  MaxVersion = 4
  MaxDesk = 2
INVARIANTS
  EvidenceSettlesWhateverCrossed
CHECK_DEADLOCK FALSE
