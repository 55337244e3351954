SPECIFICATION DSpec
CONSTANTS
    Operations = {r1, r2}
    NoOperation = none
    PlanLength = 1
    MaxTransientRetries = 1
    MaxPowerLosses = 1
CHECK_DEADLOCK FALSE
INVARIANTS
    FinishFollowsDurableRaw
