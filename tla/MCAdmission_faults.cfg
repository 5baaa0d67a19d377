SPECIFICATION FairSpec
CONSTANTS
  s1 = s1
  s2 = s2
  s3 = s3
  Symbol = {s1}
  Base <- OwnBase
  MaxPositions = 1
  MaxSameDirection = 1
  MaxLayers = 1
  BatchSize = 1
  Concurrency = 1
  EntrySize = 1
  MaxUnits = 4
  MaxFaults = 1
INVARIANTS NoHedge LayersBounded
PROPERTY OrphanAdopted
