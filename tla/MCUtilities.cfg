SPECIFICATION MCSpec
CONSTANTS
  Meters = {a}
  Records = {r1}
  Tabs = {t1, t2}
  Readings = {0, 150}
  Multipliers = {2}
  Terms <- PriceAndLoss
  Vouchers = {}
  LastDay = 1
  PaidDays = {0, 1}
  MaxSaves = 3
  Orderly = FALSE
  Faults = {"crash"}
  Bills = {b1, b2, b3}
SYMMETRY Symmetry
INVARIANTS BillsConsistent ReadingsOfBillsChain
CHECK_DEADLOCK FALSE
