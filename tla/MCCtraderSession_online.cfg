SPECIFICATION FairSpec
CONSTANTS
  w1 = w1
  w2 = w2
  Workers = {w1, w2}
  Sockets = 4
  MaxFaults = 1
INVARIANTS OnlineIsReal PaperStaysDemo
PROPERTIES Online
CHECK_DEADLOCK FALSE
