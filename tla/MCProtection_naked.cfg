SPECIFICATION FairSpec
CONSTANTS
  o1 = o1
  o2 = o2
  o3 = o3
  MaxLevel = 2
  Plausible = {1, 2}
  Fallback = 1
  OrderId = {o1, o2, o3}
  MaxFaults = 2
INVARIANTS TypeOK NakedAccounted
PROPERTY NakedRestored
