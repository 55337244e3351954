SPECIFICATION FairSpec
CONSTANTS
    Operations = {r1, r2}
    NoOperation = none
    PlanLength = 2
    MaxTransientRetries = 1
CHECK_DEADLOCK FALSE
INVARIANTS
    TypeOK
    SingleMutator
    NoCallAfterPossibleDelivery
    LedgersTellTheCalls
    PlanIsFollowed
PROPERTIES
    SettledIsForever
    ImplementsContract
    LockIsReleased
