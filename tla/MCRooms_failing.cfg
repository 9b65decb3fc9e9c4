SPECIFICATION Spec
CONSTANTS
    Requests = {r1, r2}
    RoomIds = {room1, room2}
    RoomNumbers = {n1, n2}
    NewStatuses = {}
    TaskStatuses = {"IN_PROGRESS", "CLEANED"}
    MaxTasks = 2
    Unset = Unset
    Calls = {"create", "update", "delete", "housekeeping"}
    UndefinedInList = TRUE
    MayFail = TRUE
VIEW WithoutAudit
SYMMETRY Symmetry
INVARIANTS
    NumbersUnique
    OpenTasksBounded
CHECK_DEADLOCK FALSE
