SPECIFICATION FairSpec
CONSTANTS
  R0 = 20
  Marks <- MCMarks
  DeskStops <- MCDeskStops
  MinDist = 10
  MaxDist = 20
  Pip = 1
  MaxLag = 1
  MaxAmends = 1
  MaxFaults = 1
INVARIANT RIsOriginal
PROPERTIES LockKept StopRestored BreaksEven
