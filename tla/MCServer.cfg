SPECIFICATION MCSpec
CONSTANTS
  Payments = {p1}
  Records = {u1}
  Amounts = {1, 2}
  Days = {1}
  Slots = {r1, r2}
  MaxReceipts = 2
  Separate = {"source"}
  Faults = {"render"}
  CopyFiles = {"f"}
  CopyRuns = 2
  CopyDays = 0
  RotationFiles = {}
  RotationRuns = 3
  RotationDays = 2
  KeepDays = 1
  MaxBackupFaults = 1
  MaxReleases = 2
  MaxAttempts = 3
  MaxUpdateFaults = 3
  StartsAnswer = TRUE
SYMMETRY Symmetry
INVARIANTS NumbersGapless ReceiptsHold PrintedRight
PROPERTIES BackupsHold UpdatesCount
CHECK_DEADLOCK FALSE
