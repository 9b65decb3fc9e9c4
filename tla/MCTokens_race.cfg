SPECIFICATION Spec
CONSTANTS
    Requests = {r1, r2}
    Users = {u1}
    RefreshLife = 2
    SessionLife = 1
    MaxTime = 2
    Missing = Missing
    CleanUpTimes = {1, 2}
    Calls = {"register", "login", "refresh", "logout", "cleanup"}
    MayFail = TRUE
VIEW WithoutLogs
SYMMETRY Symmetry
INVARIANTS
    TypeOK
    ExchangedIsRevoked
    SuccessorsBounded
PROPERTY
    ImplementsTokenLife
CHECK_DEADLOCK FALSE
