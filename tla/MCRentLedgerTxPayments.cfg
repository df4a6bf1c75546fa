SPECIFICATION TxSafety
CONSTANTS
  Contract = {1, 2}
  Lease <- TwoLeases
  Payment = {1}
  Days = {20240201, 20240801}
  Dates = {20240201}
  Amounts = {2}
  Worker = {w1, w2}
INVARIANTS SeenIsCurrent
PROPERTY ImplementsLedger
SYMMETRY WorkerSymmetry
