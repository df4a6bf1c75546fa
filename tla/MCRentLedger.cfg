SPECIFICATION MCSpec
CONSTANTS
  Contract = {c1, c2}
  Lease <- Leases
  Payment = {1, 2}
  Days <- DaysOfLease
  Dates <- EarlyAndLate
  Amounts = {1, 2, 4}
  Names = {"a", ""}
  BlankName = ""
  Unknown = "unknown"
INVARIANTS TypeOK PeriodsFollowLease AllocationsAreFifo FiguresAgree TenantsAgree
PROPERTIES ClosedRowsKept CalendarHolds
CHECK_DEADLOCK FALSE
SYMMETRY ContractSymmetry
