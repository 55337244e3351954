SPECIFICATION Spec
CONSTANTS
    Preparers = {p1, p2}
    Resumers = {m1}
    Verifiers = {v1}
    NoOne = none
    RunIds = {r1, r2}
    MaxAppends = 1
    MaxLosses = 1
SYMMETRY Alike
CHECK_DEADLOCK FALSE
INVARIANTS
    PublishedIsWhole
    SessionsAreDurable
    NoFalseAlarm
PROPERTIES
    NeverReplaced
