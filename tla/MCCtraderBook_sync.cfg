SPECIFICATION FairBookSpec
CONSTANTS
  eur = eur
  Orders = 2
  Old = 1
  Sym <- MCSym
  Slots = 5
  MaxMishaps = 1
INVARIANT CacheCurrent
PROPERTIES ReactorSees Converges
CHECK_DEADLOCK FALSE
