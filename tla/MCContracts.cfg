SPECIFICATION MCSpec
CONSTANTS
  Units = {u1, u2}
  Codes = {a, b}
  Meters = {m}
  Contracts = {k1}
  Spans <- OneLease
  Rents = {1, 2}
  Files = {f}
  Clients = {c1, c2}
  LastDay = 1
  ExpiringDays = 1
  MaxHistory = 3
  Apart = FALSE
  OrderlyContracts = {k2, k3}
  Leases <- ThreeLeases
  OrderlyDays = 3
  OrderlyHistory = 2
  MaxChosen = 2
  MaxPicks = 2
  MaxStored = 3
  MaxUploadFaults = 1
SYMMETRY Symmetry
INVARIANTS RowsAgree OrderlyUnitsHold
PROPERTIES UploadsHold DepositsHold
CHECK_DEADLOCK FALSE
