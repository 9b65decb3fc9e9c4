SPECIFICATION Spec
CONSTANTS
    BookingRequests = {b}
    RoomRequests = {r}
    RoomIds = {room1}
    RoomNumbers = {n1}
    BookingIds = {booking1}
    Dates = {0}
    SeqLimit = 2
    NewStatuses = {"OCCUPIED"}
    TaskStatuses = {"CLEANED"}
    MaxTasks = 0
    Unset = Unset
    BookingCalls = {"create", "status", "cancel", "checkIn", "checkOut"}
    RoomCalls = {"create", "update", "status", "delete"}
    UndefinedInList = TRUE
    MayFail = TRUE
INVARIANTS
    TypeOK
    BookingsHaveRooms
    FiguresExplained
PROPERTIES
    ImplementsRooms
    RecordedIsLogged
CHECK_DEADLOCK FALSE
