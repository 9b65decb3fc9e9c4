------------------------------- MODULE Payments -------------------------------
(***************************************************************************)
(* The payment service: payments of bookings, their processing and their   *)
(* refund through the gateway, and the payment status that each of these   *)
(* handlers recomputes for the booking.                                    *)
(*                                                                         *)
(* As in the booking service no handler uses a transaction: req[r] is what *)
(* request r still has to do, one action is one awaited statement, and the *)
(* requests interleave between any two of them.  Amounts are integers (the *)
(* columns are decimals with two places, in cents).                        *)
(***************************************************************************)
EXTENDS Numbering, FiniteSetsExt

CONSTANTS
    Requests,    \* requests that may be in progress at the same time
    Bookings,    \* bookings that are paid for
    PaymentIds,  \* ids of the payment rows (bounds the payments ever made)
    TotalPrice,  \* the total price of each booking (a price times the nights, which may be negative)
    Amounts,     \* amounts that clients pay and ask back (no service checks their sign)
    MaxReturned, \* no refund of a payment is begun that would return more in all
    Calls,       \* the handlers that clients call
    MayFail      \* whether a statement may fail or a server stop mid-request

ASSUME PaymentsAssumption == /\ TotalPrice \in [Bookings -> Int]
                             /\ Amounts \subseteq Int
                             /\ MaxReturned \in Nat
                             /\ MayFail \in BOOLEAN

VARIABLES
    payment,        \* the payments table: a row or NoPayment for each id
    paymentStatus,  \* bookings.paymentStatus
    returned,       \* history: what the gateway has given back for each payment
    audit,          \* the audit log, as the set of its entries
    req             \* the requests in progress

vars == <<payment, paymentStatus, returned, audit, req>>

-------------------------------------------------------------------------------
(* Rows *)

\* enum PaymentStatus; nothing writes its fifth value, FAILED.
PaymentStatuses == {"PENDING", "PARTIAL", "PAID", "REFUNDED"}

\* The nullable timestamps of a payment; a row keeps the non-null ones.
Stamps == {"processedAt", "refundedAt"}

Payment == [booking : Bookings, amount : Amounts, hasGateway : BOOLEAN,
            number : Nat, status : PaymentStatuses,
            refundAmount : Amounts \cup {0}, stamps : SUBSET Stamps]

NoPayment == [status |-> "NONE"]

Existing == {p \in PaymentIds : payment[p] # NoPayment}

Numbers == {payment[p].number : p \in Existing}

PaymentsOf(b) == {p \in Existing : payment[p].booking = b}

AmountOf == [p \in Existing |-> payment[p].amount]

\* createPayment adds up every payment of the booking, whatever its status.
Committed(b) == SumFunctionOnSet(AmountOf, PaymentsOf(b))

\* calculateTotalPaid
TotalPaid(b) ==
    SumFunctionOnSet(AmountOf, {p \in PaymentsOf(b) : payment[p].status \in {"PAID", "PARTIAL"}})

PaymentsIn(status) == {p \in Existing : payment[p].status = status}

\* What getPaymentStatistics counts over a period that covers every payment.
PaymentStatistics ==
    [totalPayments      |-> Cardinality(Existing),
     successfulPayments |-> Cardinality(PaymentsIn("PAID")),
     refundedPayments   |-> Cardinality(PaymentsIn("REFUNDED")),
     totalRevenue       |-> SumFunctionOnSet(AmountOf, PaymentsIn("PAID"))]

\* Faulty: a name the enum does not have.
StatusUnpaid(paid, total, none) ==
    IF paid >= total THEN "PAID" ELSE IF paid > 0 THEN "PARTIAL" ELSE "UNPAID"

\* Faulty: whatever is paid counts as the whole.
StatusPaidIfAny(paid, total, none) == IF paid > 0 THEN "PAID" ELSE none

\* The payment status for a total; `none` when nothing is paid.
StatusForTotal(paid, total, none) ==
    IF paid >= total THEN "PAID" ELSE IF paid > 0 THEN "PARTIAL" ELSE none

-------------------------------------------------------------------------------
(* Requests *)

Idle == [op |-> "none", pc |-> "idle"]

\* createPayment
Creations == [op : {"create"}, pc : {"number", "insert", "audit"}, id : PaymentIds,
              booking : Bookings, amount : Amounts, hasGateway : BOOLEAN, number : Nat]

\* processPayment (amount 0) and refundPayment; status is the booking's, once computed.
Settlements == [op : {"process", "refund"},
                pc : {"gateway", "write", "total", "booking", "audit"},
                id : PaymentIds, amount : Amounts \cup {0}, status : PaymentStatuses]

RequestStates == {Idle} \cup Creations \cup Settlements

AuditActions == {"PAYMENT_CREATED", "PAYMENT_PROCESSED", "PAYMENT_REFUNDED"}

At(r, pc) == req[r].pc = pc
Become(r, state) == req' = [req EXCEPT ![r] = state]
Goto(r, pc) == Become(r, [req[r] EXCEPT !.pc = pc])
Finish(r) == Become(r, Idle)

\* Ids not taken by a row or by a creation in progress.
FreeIds == {p \in PaymentIds \ Existing :
               \A r \in Requests : ~ (req[r] # Idle /\ req[r].id = p)}

Init == /\ payment = [p \in PaymentIds |-> NoPayment]
        /\ paymentStatus = [b \in Bookings |-> "PENDING"]
        /\ returned = [p \in PaymentIds |-> 0]
        /\ audit = {}
        /\ req = [r \in Requests |-> Idle]

-------------------------------------------------------------------------------
(* createPayment *)

\* Faulty: only the payment at hand is compared with the price.
BeginCreateAlone(r) ==
    /\ req[r] = Idle
    /\ \E id \in FreeIds, b \in Bookings, amount \in Amounts, hasGateway \in BOOLEAN :
          /\ amount <= TotalPrice[b]
          /\ Become(r, [op |-> "create", pc |-> "number", id |-> id, booking |-> b,
                        amount |-> amount, hasGateway |-> hasGateway, number |-> 0])
    /\ UNCHANGED <<payment, paymentStatus, returned, audit>>

\* The amount is checked against the payments read with the booking.
BeginCreate(r) ==
    /\ req[r] = Idle
    /\ \E id \in FreeIds, b \in Bookings, amount \in Amounts, hasGateway \in BOOLEAN :
          /\ Committed(b) + amount <= TotalPrice[b]
          /\ Become(r, [op |-> "create", pc |-> "number", id |-> id, booking |-> b,
                        amount |-> amount, hasGateway |-> hasGateway, number |-> 0])
    /\ UNCHANGED <<payment, paymentStatus, returned, audit>>

GeneratePaymentNumber(r) ==
    /\ At(r, "number")
    /\ \E n \in DailyNumbers :
          /\ IsNextNumber(n, Numbers)
          /\ Become(r, [req[r] EXCEPT !.pc = "insert", !.number = n])
    /\ UNCHANGED <<payment, paymentStatus, returned, audit>>

\* Faulty: the number is not unique in the table.
InsertDuplicate(r) ==
    /\ At(r, "insert")
    /\ payment' = [payment EXCEPT ![req[r].id] =
                     [booking |-> req[r].booking, amount |-> req[r].amount,
                      hasGateway |-> req[r].hasGateway, number |-> req[r].number,
                      status |-> "PENDING", refundAmount |-> 0, stamps |-> {}]]
    /\ Goto(r, "audit")
    /\ UNCHANGED <<paymentStatus, returned, audit>>

\* paymentNumber is unique: the insert of a number already there is refused.
InsertPayment(r) ==
    /\ At(r, "insert")
    /\ IF req[r].number \in Numbers
       THEN /\ Finish(r)
            /\ UNCHANGED payment
       ELSE /\ payment' = [payment EXCEPT ![req[r].id] =
                             [booking |-> req[r].booking, amount |-> req[r].amount,
                              hasGateway |-> req[r].hasGateway, number |-> req[r].number,
                              status |-> "PENDING", refundAmount |-> 0, stamps |-> {}]]
            /\ Goto(r, "audit")
    /\ UNCHANGED <<paymentStatus, returned, audit>>

-------------------------------------------------------------------------------
(* processPayment and refundPayment *)

BeginProcess(r) ==
    /\ req[r] = Idle
    /\ \E p \in Existing :
          /\ payment[p].status = "PENDING"
          /\ Become(r, [op |-> "process", pc |-> "write", id |-> p,
                        amount |-> 0, status |-> "PENDING"])
    /\ UNCHANGED <<payment, paymentStatus, returned, audit>>

\* Faulty: the row is written without waiting for the gateway.
BeginRefundOnPaper(r) ==
    /\ req[r] = Idle
    /\ \E p \in Existing, amount \in Amounts :
          /\ payment[p].status = "PAID"
          /\ amount <= payment[p].amount
          /\ returned[p] + amount <= MaxReturned
          /\ Become(r, [op |-> "refund", pc |-> "write", id |-> p,
                        amount |-> amount, status |-> "PENDING"])
    /\ UNCHANGED <<payment, paymentStatus, returned, audit>>

\* Faulty: a refunded payment may be refunded again.
BeginRefundAgain(r) ==
    /\ req[r] = Idle
    /\ \E p \in Existing, amount \in Amounts :
          /\ payment[p].status # "PENDING"
          /\ amount <= payment[p].amount
          /\ returned[p] + amount <= MaxReturned
          /\ Become(r, [op |-> "refund", pc |-> "gateway", id |-> p,
                        amount |-> amount, status |-> "PENDING"])
    /\ UNCHANGED <<payment, paymentStatus, returned, audit>>

BeginRefund(r) ==
    /\ req[r] = Idle
    /\ \E p \in Existing, amount \in Amounts :
          /\ payment[p].status = "PAID"
          /\ amount <= payment[p].amount
          /\ returned[p] + amount <= MaxReturned
          /\ Become(r, [op |-> "refund", pc |-> "gateway", id |-> p,
                        amount |-> amount, status |-> "PENDING"])
    /\ UNCHANGED <<payment, paymentStatus, returned, audit>>

\* What is paid with an amount: zero and less move no money.
Money(amount) == IF amount > 0 THEN amount ELSE 0

\* A payment made without a gateway has none to lower-case: the handler throws.
ProcessGatewayRefund(r) ==
    /\ At(r, "gateway")
    /\ IF payment[req[r].id].hasGateway
       THEN /\ returned' = [returned EXCEPT ![req[r].id] = @ + Money(req[r].amount)]
            /\ Goto(r, "write")
       ELSE /\ Finish(r)
            /\ UNCHANGED returned
    /\ UNCHANGED <<payment, paymentStatus, audit>>

\* Neither write looks at the status again.
WritePaid(r) ==
    /\ At(r, "write") /\ req[r].op = "process"
    /\ payment' = [payment EXCEPT ![req[r].id].status = "PAID",
                                  ![req[r].id].stamps = @ \cup {"processedAt"}]
    /\ Goto(r, "total")
    /\ UNCHANGED <<paymentStatus, returned, audit>>

\* Faulty: a refund makes the payment payable again.
WriteReopened(r) ==
    /\ At(r, "write") /\ req[r].op = "refund"
    /\ payment' = [payment EXCEPT ![req[r].id].status = "PENDING",
                                  ![req[r].id].refundAmount = req[r].amount,
                                  ![req[r].id].stamps = @ \cup {"refundedAt"}]
    /\ Goto(r, "total")
    /\ UNCHANGED <<paymentStatus, returned, audit>>

WriteRefunded(r) ==
    /\ At(r, "write") /\ req[r].op = "refund"
    /\ payment' = [payment EXCEPT ![req[r].id].status = "REFUNDED",
                                  ![req[r].id].refundAmount = req[r].amount,
                                  ![req[r].id].stamps = @ \cup {"refundedAt"}]
    /\ Goto(r, "total")
    /\ UNCHANGED <<paymentStatus, returned, audit>>

\* A refund subtracts its amount from a total the payment is no longer in.
CalculateTotalPaid(r) ==
    /\ At(r, "total")
    /\ LET b == payment[req[r].id].booking
           none == IF req[r].op = "refund" THEN "REFUNDED" ELSE "PENDING"
       IN  Become(r, [req[r] EXCEPT
                         !.pc = "booking",
                         !.status = StatusForTotal(TotalPaid(b) - req[r].amount,
                                                   TotalPrice[b], none)])
    /\ UNCHANGED <<payment, paymentStatus, returned, audit>>

\* Faulty: no handler reaches its audit entry.
UpdateBookingThenThrow(r) ==
    /\ At(r, "booking")
    /\ paymentStatus' = [paymentStatus EXCEPT ![payment[req[r].id].booking] = req[r].status]
    /\ Finish(r)
    /\ UNCHANGED <<payment, returned, audit>>

\* The entry of a refund names a variable that is not there: after the booking
\* is written the handler throws and logs nothing.
UpdateBooking(r) ==
    /\ At(r, "booking")
    /\ paymentStatus' = [paymentStatus EXCEPT ![payment[req[r].id].booking] = req[r].status]
    /\ IF req[r].op = "refund" THEN Finish(r) ELSE Goto(r, "audit")
    /\ UNCHANGED <<payment, returned, audit>>

-------------------------------------------------------------------------------
(* The end of the handlers, and failures *)

AuditAction(op) == CASE op = "create"  -> "PAYMENT_CREATED"
                     [] op = "process" -> "PAYMENT_PROCESSED"
                     [] OTHER          -> "PAYMENT_REFUNDED"

LogAction(r) ==
    /\ At(r, "audit")
    /\ audit' = audit \cup {[action |-> AuditAction(req[r].op), id |-> req[r].id]}
    /\ Finish(r)
    /\ UNCHANGED <<payment, paymentStatus, returned>>

\* A statement throws, or the server stops: what is done stays done and the
\* rest of the handler does not happen.
Fail(r) ==
    /\ MayFail
    /\ req[r] # Idle
    /\ Finish(r)
    /\ UNCHANGED <<payment, paymentStatus, returned, audit>>

Begin(r) == \/ "create" \in Calls /\ BeginCreate(r)
            \/ "process" \in Calls /\ BeginProcess(r)
            \/ "refund" \in Calls /\ BeginRefund(r)

Continue(r) == \/ GeneratePaymentNumber(r)
               \/ InsertPayment(r)
               \/ ProcessGatewayRefund(r)
               \/ WritePaid(r)
               \/ WriteRefunded(r)
               \/ CalculateTotalPaid(r)
               \/ UpdateBooking(r)
               \/ LogAction(r)

Next == \E r \in Requests : Begin(r) \/ Continue(r) \/ Fail(r)

\* Clients may stop sending requests, but a request in progress is carried on.
Fairness == \A r \in Requests : WF_vars(Continue(r))

Spec == Init /\ [][Next]_vars /\ Fairness

-------------------------------------------------------------------------------
(* Properties *)

\* Every row and every request has the shape the code gives it.
TypeOK == /\ payment \in [PaymentIds -> Payment \cup {NoPayment}]
          /\ paymentStatus \in [Bookings -> PaymentStatuses]
          /\ returned \in [PaymentIds -> Nat]
          /\ audit \subseteq [action : AuditActions, id : PaymentIds]
          /\ req \in [Requests -> RequestStates]

Stamped(p, stamp) == stamp \in payment[p].stamps

\* A refund on record was paid out: whatever races and fails, the gateway has
\* returned at least the amount in the row, which is no more than what was paid,
\* for a payment that was processed (refundPayment writes after the gateway call).
RefundBacked ==
    \A p \in Existing :
        Stamped(p, "refundedAt") =>
            /\ Stamped(p, "processedAt")
            /\ payment[p].refundAmount <= returned[p]
            /\ payment[p].refundAmount <= payment[p].amount

\* What a booking says of its payments has a cause, however stale: it is PAID or
\* PARTIAL only if one of its payments was processed, and REFUNDED only if one
\* was refunded; a payment once processed is never PENDING again.
StatusBacked ==
    /\ \A b \in Bookings :
          /\ paymentStatus[b] \in {"PAID", "PARTIAL"} =>
                \E p \in PaymentsOf(b) : Stamped(p, "processedAt")
          /\ paymentStatus[b] = "REFUNDED" =>
                \E p \in PaymentsOf(b) : Stamped(p, "refundedAt")
    /\ \A p \in Existing : payment[p].status = "PENDING" <=> ~ Stamped(p, "processedAt")

\* The payment numbers of a day are distinct and are 1, 2, ... without a gap,
\* whatever creations race and fail.
NumbersConsecutive ==
    /\ \A p, q \in Existing : payment[p].number = payment[q].number => p = q
    /\ Numbers \subseteq DailyNumbers
    /\ WithoutGaps(Numbers)

\* The payments made for a booking never add up to more than its price: the code
\* says 'Payment amount exceeds booking total'.  (A booking that costs less than
\* nothing gets none.)
NeverOverpaid ==
    \A b \in Bookings : PaymentsOf(b) # {} => Committed(b) <= TotalPrice[b]

\* 'Refund amount cannot exceed payment amount': what the gateway gives back, if
\* anything, is no more than the payment, in all.
ReturnedAtMostPaid ==
    \A p \in Existing : returned[p] > 0 => returned[p] <= payment[p].amount

Quiescent == \A r \in Requests : req[r] = Idle

Processed == {p \in Existing : Stamped(p, "processedAt")}

\* What is left of a payment that was processed, as its row has it.
Kept == [p \in Existing |-> IF p \in Processed
                            THEN payment[p].amount - payment[p].refundAmount ELSE 0]

KeptFor(b) == SumFunctionOnSet(Kept, PaymentsOf(b))

\* When no request is in progress, the payment status of a booking is never better
\* than the money kept for it, partial refunds included, unless a refund of a negative
\* amount was accepted; and before its first refund it is exactly what its processed
\* payments give, be they of zero or less (processPayment and refundPayment recompute it).
StatusNotOverstated ==
    Quiescent => \A b \in Bookings :
        /\ (\A p \in PaymentsOf(b) : payment[p].refundAmount >= 0) =>
              /\ paymentStatus[b] = "PAID" => KeptFor(b) >= TotalPrice[b]
              /\ paymentStatus[b] = "PARTIAL" => KeptFor(b) > 0
        /\ (\A p \in PaymentsOf(b) : ~ Stamped(p, "refundedAt")) =>
              paymentStatus[b] = IF PaymentsOf(b) \cap Processed = {} THEN "PENDING"
                                 ELSE StatusForTotal(KeptFor(b), TotalPrice[b], "PENDING")

MoneyOf == [p \in Existing |-> Money(payment[p].amount)]

\* The figures of getPaymentStatistics are backed by money when no request is in progress:
\* its totalRevenue is no more than was received and not given back by the gateway, and
\* exactly the sum of what was processed when no payment is refunded.
RevenueBacked ==
    Quiescent =>
        /\ PaymentStatistics.totalRevenue
              <= SumFunctionOnSet(MoneyOf, Processed) - SumFunctionOnSet(returned, Existing)
        /\ PaymentStatistics.refundedPayments = 0 =>
              PaymentStatistics.totalRevenue = SumFunctionOnSet(AmountOf, Processed)

\* A processed payment is logged in the end, as long as no statement fails.
ProcessedIsLogged ==
    \A p \in PaymentIds :
        (p \in Existing /\ Stamped(p, "processedAt")) ~>
            [action |-> "PAYMENT_PROCESSED", id |-> p] \in audit
=============================================================================
