SPECIFICATION Spec
CONSTANTS
    Requests = {r1, r2, r3}
    Rooms = {room1}
    BookingIds = {b1, b2, b3, b4}
    Dates = {0}
    Unset = Unset
    MayFail = TRUE
    SeqLimit = 2
    Calls = {"create"}
SYMMETRY Symmetry
INVARIANTS
    NumbersConsecutive
PROPERTIES
    ExhaustedNumbersStop
CHECK_DEADLOCK FALSE
