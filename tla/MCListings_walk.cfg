SPECIFICATION Spec
CONSTANTS
    Limit = 2
    MaxRows = 5
    MaxReturns = 1
INVARIANTS
    TypeOK
    MissedAtMostShifts
    RepeatedAtMostCame
CHECK_DEADLOCK FALSE
