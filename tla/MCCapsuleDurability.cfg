SPECIFICATION DSpec
CONSTANTS
    Operations = {r1, r2, r3}
    NoOperation = none
    PlanLength = 1
    MaxTransientRetries = 1
    MaxPowerLosses = 1
SYMMETRY OperationsAlike
CHECK_DEADLOCK FALSE
INVARIANTS
    RepairSucceeds
    HistoryAccepted
    SafeAfterPowerLoss
