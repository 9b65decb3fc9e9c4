SPECIFICATION Spec
CONSTANTS
    BookingRequests = {b}
    RoomRequests = {r1}
    RoomIds = {room1}
    RoomNumbers = {n1}
    BookingIds = {booking1, booking2}
    Dates = {0, 1}
    SeqLimit = 2
    NewStatuses = {}
    TaskStatuses = {}
    MaxTasks = 0
    Unset = Unset
    BookingCalls = {"create", "status", "cancel"}
    RoomCalls = {"create"}
    UndefinedInList = TRUE
    MayFail = FALSE
INVARIANT OfferedNotBooked
CHECK_DEADLOCK FALSE
