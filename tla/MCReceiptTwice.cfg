SPECIFICATION Spec
CONSTANTS
  Payments = {p1}
  Records = {}
  Amounts = {1}
  Days = {1, 2}
  Slots = {r1, r2}
  MaxReceipts = 1
  Separate = {}
  Faults = {}
INVARIANTS OneActivePerSource
CHECK_DEADLOCK FALSE
