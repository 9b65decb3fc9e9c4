SPECIFICATION Spec
CONSTANTS
    Requests = {r1}
    Rooms = {room1, room2}
    BookingIds = {b1, b2}
    Dates = {0, 1, 2}
    Unset = Unset
    MayFail = FALSE
    SeqLimit = 2
    Calls = {"create", "update", "status", "cancel", "checkIn", "checkOut"}
SYMMETRY Symmetry
INVARIANT
    RoomStatusExplained
PROPERTY
    NoOverlapAdmitted
CHECK_DEADLOCK FALSE
