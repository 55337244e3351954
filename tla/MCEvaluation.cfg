SPECIFICATION MCSpec
CONSTANTS
    PlanLength = 2
    MaxTransientRetries = 2
    Models = {"a", "b"}
    NoModel = "none"
    MaxRuns = 3
    Scorers = {s1, s2, s3}
    Reporters = {r1}
    NoOne = none
    Unit = 2
    Plan <- MCPlan
    Rates <- MCRates
    OutputLimit <- MCOutputLimit
    InputBound = 3
    Budget = 24
CHECK_DEADLOCK FALSE
INVARIANTS
    LegacyRunsAddUp
    ScoresStayWhole
    GateIsReported
    LedgerBoundsCharges
    NoAnswerIsTooDear
    OneUnknownAtMost
    NoPairIsMissing
PROPERTIES
    NoCallWhenSettled
