SPECIFICATION FairSpec
CONSTANTS
    Preparers = {p1, p2}
    Resumers = {}
    Verifiers = {}
    NoOne = none
    RunIds = {1, 2}
    MaxAppends = 0
    MaxLosses = 1
CHECK_DEADLOCK FALSE
PROPERTIES
    PreparationsEnd
