SPECIFICATION MCSpec
CONSTANTS
  Contract = {1}
  Lease <- TwoLeases
  Payment = {1, 2}
  Days = {20240201, 20240801}
  Dates = {20240201}
  Amounts = {2}
  Worker = {w1, w2}
PROPERTIES ImplementsLedger CrossingsHold
