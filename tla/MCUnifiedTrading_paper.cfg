SPECIFICATION Spec
CONSTANTS
  t1 = t1
  t2 = t2
  b1 = b1
  b2 = b2
  o1 = o1
  o2 = o2
  Thread = {t1, t2}
  Book = {b1, b2}
  OrderId = {o1, o2}
  Qty = {1}
  Price = {20, 30}
  Marks = {30}
  FeeDiv = 10
  Balance = 50
  Leverages = {1, 2}
  MaxFilled = 1
  MaxFaults = 1
  Requests <- Asked
  TradingMode = "paper"
  Modes = {"live", "paper"}
  MaxSwitches = 1
  BrokerLev = 2
INVARIANTS MarginKept CashStored GuardHolds
PROPERTY LedgerRefined
SYMMETRY Symmetric
CHECK_DEADLOCK FALSE
