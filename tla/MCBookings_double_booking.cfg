SPECIFICATION Spec
CONSTANTS
    Requests = {r1}
    Rooms = {room1}
    BookingIds = {b1, b2}
    Dates = {0, 1}
    Unset = Unset
    MayFail = FALSE
    SeqLimit = 2
    Calls = {"create", "update", "status", "cancel", "checkIn", "checkOut"}
INVARIANT
    NoDoubleBooking
CHECK_DEADLOCK FALSE
