SPECIFICATION Spec
CONSTANTS
    Requests = {r1}
    Bookings = {booking1, booking2}
    PaymentIds = {p1, p2}
    TotalPrice <- Price
    Amounts <- AllAmounts
    MaxReturned = 3
    Calls = {"create", "process", "refund"}
    MayFail = FALSE
    SeqLimit = 2
INVARIANTS
    NeverOverpaid
    ReturnedAtMostPaid
    StatusNotOverstated
    RevenueBacked
PROPERTIES
    ProcessedIsLogged
CHECK_DEADLOCK FALSE
