SPECIFICATION Spec
CONSTANTS
    Requests = {r1, r2}
    Bookings = {booking1}
    PaymentIds = {p1, p2}
    TotalPrice <- Price
    Amounts <- SignedAmounts
    MaxReturned = 2
    Calls = {"create", "process", "refund"}
    MayFail = TRUE
    SeqLimit = 2
SYMMETRY Symmetry
INVARIANTS
    TypeOK
    RefundBacked
    StatusBacked
    NumbersConsecutive
CHECK_DEADLOCK FALSE
