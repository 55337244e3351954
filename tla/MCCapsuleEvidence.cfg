SPECIFICATION Spec
CONSTANTS
    Order <- MCOrder
    Kind <- MCKind
    Locator <- MCLocator
    Sizes = {1, 2}
    RunnerSize = 1
    MemberLimit = 2
    KindLimit = 3
    TotalLimit = 6
    MaxSourceEdits = 1
    MaxEdits = 2
CHECK_DEADLOCK FALSE
INVARIANTS
    OneContentPerSource
    ValidMeansOneTree
    CapsulePinsTheTree
    UntouchedIsValid
