SPECIFICATION EngineSpec
CONSTANTS
  i1 = i1
  i2 = i2
  i3 = i3
  c1 = c1
  c2 = c2
  l1 = l1
  l2 = l2
  Id = {i1, i2}
  Leg = {l1, l2}
  Caller = {c1, c2}
  Equities = {1, 2}
  Part = 2
  Share = 3
  Window = 0
  Ttl = 2
  MaxKeep = 1
  MaxTime = 2
SYMMETRY Interchangeable
INVARIANTS OneArmedPerLeg BrakeHolds
PROPERTIES ExecutedKept WithinBudget
CHECK_DEADLOCK FALSE
