SPECIFICATION CSpec
CONSTANTS
    Operations = {r1, r2, r3}
    NoOperation = none
    PlanLength = 2
    MaxTransientRetries = 1
    EventReserve = 4
    RawReserve = 6
    EventSizes = {1, 4}
    RawSizes = {6}
    Limit = 70
    Headrooms = {30, 31, 44}
SYMMETRY OperationsAlike
CHECK_DEADLOCK FALSE
INVARIANTS
    EpochCanEnd
    RepairFits
