SPECIFICATION FairSpec
CONSTANTS
  Qty = 2
  MaxEntries = 1
  MaxFaults = 2
INVARIANT EntryBounded
PROPERTIES HeldIsOwned GoneIsCleared
