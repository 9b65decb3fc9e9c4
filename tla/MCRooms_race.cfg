SPECIFICATION Spec
CONSTANTS
    Requests = {r1, r2}
    RoomIds = {room1, room2}
    RoomNumbers = {n1, n2}
    NewStatuses = {"CLEANING"}
    TaskStatuses = {"CLEANED"}
    MaxTasks = 1
    Unset = Unset
    Calls = {"create", "status", "delete", "housekeeping", "book"}
    UndefinedInList = TRUE
    MayFail = FALSE
SYMMETRY Symmetry
INVARIANTS
    TypeOK
    ReferencesKept
    TotalRoomsExact
CHECK_DEADLOCK FALSE
