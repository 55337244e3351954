SPECIFICATION MCSpec
CONSTANTS
    Values = {1, 2, 3, 4, 5}
    NoValue = 0
    Kinds = {"operation"}
    Hashes = {3, 12}
    InitialCapacity = 4
    MaxDamages = 1
    EventRows = 2
    RawRows = 0
    MaxEdits = 2
    MaxOperations = 3
    MaxTime = 1
CHECK_DEADLOCK FALSE
INVARIANTS
    AnswersAreExact
    AcceptedPairExisted
    QuietFilesAreAccepted
