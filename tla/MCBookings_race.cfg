SPECIFICATION Spec
CONSTANTS
    Requests = {r1, r2}
    Rooms = {room1}
    BookingIds = {b1}
    Dates = {0}
    Unset = Unset
    MayFail = TRUE
    SeqLimit = 2
    Calls = {"create", "update", "status", "cancel", "checkIn", "checkOut"}
SYMMETRY Symmetry
INVARIANTS
    TypeOK
    RequestsOK
    HistoryOK
    OccupiedWasCheckedIn
    AuditBacked
PROPERTIES
    ImplementsLifecycle
CHECK_DEADLOCK FALSE
