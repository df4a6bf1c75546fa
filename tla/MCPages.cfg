CONSTANTS
    Documents = {"d1"}
    PollClicks = 4
    PollFaults = 1
    PollAttempts = 1
    ChargeContracts = {"k1"}
    ChargeRecords = {"r1", "r2"}
    ChargeClicks = 5
    FailingClicks = 3
    FailingFaults = 1
    Payments = {"p1", "p2"}
    Vouchers = 2
    PaymentClicks = 5
    DialogRows = 4
    DialogDrafts = 2
    HastyRows = 3
    HastyDrafts = 2
    Entries = {"d1", "d2"}
    DepositClicks = 3
    DepositChanges = 1
    ListedUnits = {1, 2}
    UnitClicks = 3
    UnitWrites = 1
    Debtors = {"t1", "t2"}
    RentYears = {2024, 2025}
    LedgerClicks = 4
    LedgerChanges = 1
    LedgerFaults = 1
SPECIFICATION Spec
INVARIANTS SavedAsShown FilledInRight DownloadsArePolled VouchersStay
PROPERTIES LateAnswersLose
CHECK_DEADLOCK FALSE
