SPECIFICATION FairSpec
CONSTANTS
  s1 = s1
  s2 = s2
  s3 = s3
  Symbol = {s1, s2, s3}
  Base <- TwoQuotes
  MaxPositions = 2
  MaxSameDirection = 1
  MaxLayers = 0
  BatchSize = 2
  Concurrency = 2
  EntrySize = 2
  MaxUnits = 2
  MaxFaults = 0
INVARIANTS OneOrderAtATime CapHolds LegsOwned
PROPERTIES ScanEnds DirectionCap
