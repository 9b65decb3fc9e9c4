---------------------------- MODULE PaymentsProofs ----------------------------
(***************************************************************************)
(* Proofs about the payment service, for any number of requests, bookings, *)
(* payments and amounts.                                                   *)
(***************************************************************************)
EXTENDS Payments, NumberingProofs, SumProofs

\* The shape of a request follows from its program counter.
LEMMA Shapes ==
    ASSUME TypeOK, NEW r \in Requests
    PROVE  /\ req[r] = Idle <=> At(r, "idle")
           /\ req[r] # Idle => req[r].id \in PaymentIds
           /\ At(r, "number") \/ At(r, "insert") => req[r] \in Creations
           /\ At(r, "gateway") \/ At(r, "write") => req[r] \in Settlements
           /\ At(r, "total") \/ At(r, "booking") => req[r] \in Settlements
           /\ At(r, "audit") => req[r] \in Creations \cup Settlements
<1> USE DEF At
<1>1. req[r] \in RequestStates
  BY DEF TypeOK
<1>2. CASE req[r] = Idle
  BY <1>2 DEF Idle
<1>3. CASE req[r] \in Creations
  BY <1>3 DEF Creations, Idle
<1>4. CASE req[r] \in Settlements
  BY <1>4 DEF Settlements, Idle
<1> QED
  BY <1>1, <1>2, <1>3, <1>4 DEF RequestStates

\* An existing payment has the fields of one.
LEMMA Rows ==
    ASSUME TypeOK, NEW p \in Existing
    PROVE  p \in PaymentIds /\ payment[p] \in Payment
BY DEF TypeOK, Existing

\* A row is not the mark of a missing one.
LEMMA RowsExist == \A row \in Payment : row # NoPayment
BY DEF Payment, NoPayment, PaymentStatuses

\* The step that gives a request its next statement.
LEMMA NextStatement ==
    ASSUME NEW job \in RequestStates, NEW pc,
           \/ job \in Creations /\ pc \in {"number", "insert", "audit"}
           \/ job \in Settlements /\ pc \in {"gateway", "write", "total", "booking", "audit"}
    PROVE  LET next == [job EXCEPT !.pc = pc]
           IN  /\ next \in RequestStates
               /\ next.pc = pc
               /\ next.op = job.op
               /\ next.id = job.id
               /\ next.amount = job.amount
               /\ job \in Settlements => next \in Settlements /\ next.status = job.status
               /\ job \in Creations => next \in Creations /\ next.number = job.number
BY DEF Creations, Settlements, RequestStates

\* The amounts, none included, are integers.
LEMMA AmountsIntegers == \A a \in Amounts \cup {0} : a \in Int
<1>1. \A a \in Amounts : a \in Int
  BY PaymentsAssumption
<1>2. 0 \in Int
  OBVIOUS
<1> QED
  BY <1>1, <1>2

\* What an amount moves is no less than it, none for zero and less, and no less for more.
LEMMA MoneyMoved ==
    /\ Money(0) = 0
    /\ \A a \in Int : /\ Money(a) \in Nat /\ a <= Money(a)
                      /\ Money(a) > 0 => Money(a) = a
    /\ \A a, c \in Int : a <= c => Money(a) <= Money(c)
BY DEF Money

\* What the totals give is a payment status of the enum.
LEMMA StatusForTotalType ==
    ASSUME NEW paid, NEW total, NEW none \in PaymentStatuses
    PROVE  StatusForTotal(paid, total, none) \in {"PAID", "PARTIAL", none} \cap PaymentStatuses
BY DEF StatusForTotal, PaymentStatuses

-------------------------------------------------------------------------------
(* The inductive invariant: what a request carries stays true *)

Creating(r) == At(r, "number") \/ At(r, "insert")
Settling(r) == At(r, "gateway") \/ At(r, "write") \/ At(r, "total") \/ At(r, "booking")

\* The handler has written the payment.
Written(r) == At(r, "total") \/ At(r, "booking")

\* A creation has an id of its own, and a number whose predecessors are in use.
CreationOK(r) ==
    /\ req[r].id \notin Existing
    /\ \A q \in Requests \ {r} : req[q] # Idle => req[q].id # req[r].id
    /\ At(r, "insert") => /\ req[r].number \in DailyNumbers
                          /\ \A m \in 1 .. (req[r].number - 1) : m \in Numbers

\* A refund is of a payment that was processed, asks no more than it, writes no more
\* than the gateway has returned, and has stamped the row before it goes on to the
\* booking; a processing has stamped it too, and makes no booking REFUNDED.
SettlementOK(r) ==
    /\ req[r].id \in Existing
    /\ req[r].op = "refund" =>
          /\ Stamped(req[r].id, "processedAt")
          /\ req[r].amount <= payment[req[r].id].amount
          /\ At(r, "write") => req[r].amount <= returned[req[r].id]
          /\ Written(r) => Stamped(req[r].id, "refundedAt")
    /\ req[r].op = "process" =>
          /\ Written(r) => Stamped(req[r].id, "processedAt")
          /\ req[r].status # "REFUNDED"

RequestsOK == \A r \in Requests : /\ Creating(r) => CreationOK(r)
                                  /\ Settling(r) => SettlementOK(r)

Inductive == TypeOK /\ RequestsOK /\ RefundBacked /\ StatusBacked /\ NumbersConsecutive

-------------------------------------------------------------------------------
(* What a step does to the tables *)

OnlyRow(p) == \A other \in PaymentIds \ {p} : payment'[other] = payment[other]

\* What never changes in a row, and what only grows.
SameRow(p) == /\ payment'[p] \in Payment
              /\ payment'[p].booking = payment[p].booking
              /\ payment'[p].amount = payment[p].amount
              /\ payment'[p].number = payment[p].number
              /\ payment[p].stamps \subseteq payment'[p].stamps

\* The insert adds the row of its creation, which no other row is.
Added(r) == LET p == req[r].id
            IN  /\ p \in PaymentIds \ Existing
                /\ req[r].number \notin Numbers
                /\ payment'[p] \in Payment
                /\ payment'[p].booking = req[r].booking
                /\ payment'[p].amount = req[r].amount
                /\ payment'[p].number = req[r].number
                /\ payment'[p].status = "PENDING"
                /\ payment'[p].refundAmount = 0
                /\ payment'[p].stamps = {}
                /\ OnlyRow(p)

\* processPayment makes its payment PAID and stamps it.
Paid(r) == LET p == req[r].id
           IN  /\ p \in Existing
               /\ SameRow(p)
               /\ payment'[p].status = "PAID"
               /\ payment'[p].stamps = payment[p].stamps \cup {"processedAt"}
               /\ payment'[p].refundAmount = payment[p].refundAmount
               /\ OnlyRow(p)

\* refundPayment makes its payment REFUNDED, with the amount, and stamps it.
Refunded(r) == LET p == req[r].id
               IN  /\ p \in Existing
                   /\ SameRow(p)
                   /\ payment'[p].status = "REFUNDED"
                   /\ payment'[p].stamps = payment[p].stamps \cup {"refundedAt"}
                   /\ payment'[p].refundAmount = req[r].amount
                   /\ OnlyRow(p)

\* The insert, unless its number is taken.
LEMMA InsertRow ==
    ASSUME TypeOK, RequestsOK, NEW r \in Requests, InsertPayment(r)
    PROVE  \/ UNCHANGED payment /\ Finish(r)
           \/ Added(r) /\ Goto(r, "audit")
<1>1. CASE req[r].number \in Numbers
  BY <1>1 DEF InsertPayment
<1>2. CASE req[r].number \notin Numbers
  <2> DEFINE p == req[r].id
             row == [booking |-> req[r].booking, amount |-> req[r].amount,
                     hasGateway |-> req[r].hasGateway, number |-> req[r].number,
                     status |-> "PENDING", refundAmount |-> 0, stamps |-> {}]
  <2>1. req[r] \in Creations
    BY Shapes DEF InsertPayment
  <2>2. p \in PaymentIds \ Existing
    BY <2>1 DEF InsertPayment, RequestsOK, CreationOK, Creating, Creations
  <2>3. payment' = [payment EXCEPT ![p] = row] /\ Goto(r, "audit")
    BY <1>2 DEF InsertPayment
  <2>4. row \in Payment
    BY <2>1 DEF Creations, Payment, PaymentStatuses
  <2>5. payment'[p] = row /\ OnlyRow(p)
    BY <2>2, <2>3 DEF TypeOK, OnlyRow
  <2> QED
    BY <1>2, <2>2, <2>3, <2>4, <2>5 DEF Added
<1> QED
  BY <1>1, <1>2

\* The two writes of a settlement.
LEMMA WriteRow ==
    ASSUME TypeOK, RequestsOK, NEW r \in Requests, WritePaid(r) \/ WriteRefunded(r)
    PROVE  /\ req[r] \in Settlements
           /\ Goto(r, "total")
           /\ WritePaid(r) => Paid(r)
           /\ WriteRefunded(r) => Refunded(r)
<1> DEFINE p == req[r].id
           more(stamp) == payment[p].stamps \cup {stamp}
<1>1. req[r] \in Settlements /\ Goto(r, "total")
  BY Shapes DEF WritePaid, WriteRefunded
<1>2. p \in Existing
  BY DEF WritePaid, WriteRefunded, RequestsOK, Settling, SettlementOK
<1>3. p \in PaymentIds /\ payment[p] \in Payment
  BY <1>2, Rows
<1>4. more("processedAt") \in SUBSET Stamps /\ more("refundedAt") \in SUBSET Stamps
  BY <1>3 DEF Payment, Stamps
<1>5. CASE WritePaid(r)
  <2> DEFINE row == [payment[p] EXCEPT !.status = "PAID", !.stamps = more("processedAt")]
  <2>1. payment' = [payment EXCEPT ![p] = row]
    BY <1>3, <1>5 DEF WritePaid, TypeOK
  <2>2. payment'[p] = row /\ OnlyRow(p)
    BY <1>3, <2>1 DEF TypeOK, OnlyRow
  <2> HIDE DEF more
  <2>3. /\ row \in Payment
        /\ row.booking = payment[p].booking /\ row.amount = payment[p].amount
        /\ row.number = payment[p].number /\ row.refundAmount = payment[p].refundAmount
        /\ row.status = "PAID" /\ row.stamps = more("processedAt")
    BY <1>3, <1>4 DEF Payment, PaymentStatuses
  <2> HIDE DEF row
  <2>4. Paid(r)
    BY <1>2, <2>2, <2>3 DEF Paid, SameRow, more
  <2> QED
    BY <1>1, <1>5, <2>4 DEF WritePaid, WriteRefunded
<1>6. CASE WriteRefunded(r)
  <2> DEFINE row == [payment[p] EXCEPT !.status = "REFUNDED", !.refundAmount = req[r].amount,
                                       !.stamps = more("refundedAt")]
  <2>1. payment' = [payment EXCEPT ![p] = row]
    BY <1>3, <1>6 DEF WriteRefunded, TypeOK
  <2>2. payment'[p] = row /\ OnlyRow(p)
    BY <1>3, <2>1 DEF TypeOK, OnlyRow
  <2> HIDE DEF more
  <2>3. /\ row \in Payment
        /\ row.booking = payment[p].booking /\ row.amount = payment[p].amount
        /\ row.number = payment[p].number /\ row.refundAmount = req[r].amount
        /\ row.status = "REFUNDED" /\ row.stamps = more("refundedAt")
    BY <1>1, <1>3, <1>4 DEF Payment, PaymentStatuses, Settlements
  <2> HIDE DEF row
  <2>4. Refunded(r)
    BY <1>2, <2>2, <2>3 DEF Refunded, SameRow, more
  <2> QED
    BY <1>1, <1>6, <2>4 DEF WritePaid, WriteRefunded
<1> QED
  BY <1>5, <1>6

\* Of the steps of a request, only these write the payments.
LEMMA RowStep ==
    ASSUME TypeOK, RequestsOK, NEW r \in Requests, Begin(r) \/ Continue(r) \/ Fail(r)
    PROVE  \/ UNCHANGED payment
           \/ InsertPayment(r) /\ Added(r)
           \/ WritePaid(r) /\ Paid(r)
           \/ WriteRefunded(r) /\ Refunded(r)
<1>1. CASE InsertPayment(r) \/ WritePaid(r) \/ WriteRefunded(r)
  BY <1>1, InsertRow, WriteRow
<1>2. CASE ~ (InsertPayment(r) \/ WritePaid(r) \/ WriteRefunded(r))
  BY <1>2 DEF Begin, Continue, Fail, BeginCreate, BeginProcess, BeginRefund, GeneratePaymentNumber,
     ProcessGatewayRefund, CalculateTotalPaid, UpdateBooking, LogAction
<1> QED
  BY <1>1, <1>2

\* What no step takes back.
Grows ==
    /\ Existing \subseteq Existing'
    /\ \A p \in Existing : /\ payment'[p].booking = payment[p].booking
                           /\ payment'[p].amount = payment[p].amount
                           /\ payment'[p].number = payment[p].number
                           /\ payment[p].stamps \subseteq payment'[p].stamps
    /\ Numbers \subseteq Numbers'
    /\ \A p \in PaymentIds : returned[p] <= returned'[p]

\* Only an insert makes a payment, with the id its creation kept.
NewOf(r) == \/ Existing' = Existing /\ Numbers' = Numbers
            \/ /\ InsertPayment(r) /\ Added(r)
               /\ Existing' = Existing \cup {req[r].id}
               /\ Numbers' = Numbers \cup {req[r].number}

\* The gateway only gives back.
LEMMA ReturnedStep ==
    ASSUME TypeOK, RequestsOK, NEW r \in Requests, Begin(r) \/ Continue(r) \/ Fail(r)
    PROVE  /\ returned' \in [PaymentIds -> Nat]
           /\ \A p \in PaymentIds : returned[p] <= returned'[p]
           /\ ProcessGatewayRefund(r) =>
                 \/ Finish(r)
                 \/ Goto(r, "write") /\ req[r].amount <= returned'[req[r].id]
<1>1. CASE ProcessGatewayRefund(r)
  <2>1. req[r].amount \in Amounts \cup {0} /\ req[r].id \in PaymentIds
    BY <1>1, Shapes DEF ProcessGatewayRefund, Settlements
  <2>2. /\ req[r].amount \in Int /\ Money(req[r].amount) \in Nat
        /\ req[r].amount <= Money(req[r].amount)
    BY <2>1, AmountsIntegers, MoneyMoved
  <2> QED
    BY <1>1, <2>1, <2>2 DEF ProcessGatewayRefund, TypeOK
<1>2. CASE ~ ProcessGatewayRefund(r)
  <2>1. UNCHANGED returned
    BY <1>2 DEF Begin, Continue, Fail, BeginCreate, BeginProcess, BeginRefund,
       GeneratePaymentNumber, InsertPayment, WritePaid, WriteRefunded, CalculateTotalPaid,
       UpdateBooking, LogAction
  <2> QED
    BY <1>2, <2>1 DEF TypeOK
<1> QED
  BY <1>1, <1>2

\* No step loses a row, a number or a stamp, nor takes back what was returned.
LEMMA StepGrows ==
    ASSUME TypeOK, RequestsOK, NEW r \in Requests, Begin(r) \/ Continue(r) \/ Fail(r)
    PROVE  Grows /\ NewOf(r)
<1>1. \A p \in PaymentIds : returned[p] <= returned'[p]
  BY ReturnedStep
<1>2. CASE UNCHANGED payment
  BY <1>1, <1>2 DEF Grows, NewOf, Existing, Numbers
<1>3. CASE InsertPayment(r) /\ Added(r)
  <2>1. Existing' = Existing \cup {req[r].id}
    BY <1>3, RowsExist DEF Added, OnlyRow, Existing
  <2>2. \A p \in Existing : payment'[p] = payment[p]
    BY <1>3 DEF Added, OnlyRow, Existing
  <2>3. Numbers' = Numbers \cup {req[r].number}
    BY <1>3, <2>1, <2>2 DEF Added, Numbers
  <2> QED
    BY <1>1, <1>3, <2>1, <2>2, <2>3 DEF Grows, NewOf
<1>4. CASE Paid(r) \/ Refunded(r)
  <2>1. Existing' = Existing
    BY <1>4, RowsExist DEF Paid, Refunded, SameRow, OnlyRow, Existing
  <2>2. \A p \in Existing : /\ payment'[p].booking = payment[p].booking
                            /\ payment'[p].amount = payment[p].amount
                            /\ payment'[p].number = payment[p].number
                            /\ payment[p].stamps \subseteq payment'[p].stamps
    BY <1>4 DEF Paid, Refunded, SameRow, OnlyRow, Existing
  <2>3. Numbers' = Numbers
    BY <2>1, <2>2 DEF Numbers
  <2> QED
    BY <1>1, <2>1, <2>2, <2>3 DEF Grows, NewOf
<1> QED
  BY <1>2, <1>3, <1>4, RowStep

-------------------------------------------------------------------------------
(* Types *)

\* The empty tables and the idle requests have the types.
LEMMA TypeInit == Init => TypeOK
BY DEF Init, TypeOK, RequestStates, PaymentStatuses

\* The steps that receive a request.
LEMMA TypeBegin ==
    ASSUME TypeOK, NEW r \in Requests, Begin(r)
    PROVE  req' \in [Requests -> RequestStates]
<1> USE DEF Become, TypeOK, RequestStates
<1>1. CASE BeginCreate(r)
  BY <1>1 DEF BeginCreate, FreeIds, Creations
<1>2. CASE BeginProcess(r)
  BY <1>2 DEF BeginProcess, Existing, Settlements, PaymentStatuses
<1>3. CASE BeginRefund(r)
  BY <1>3 DEF BeginRefund, Existing, Settlements, PaymentStatuses
<1> QED
  BY <1>1, <1>2, <1>3 DEF Begin

\* What the recomputed payment status makes of its request.
LEMMA TotalStep ==
    ASSUME TypeOK, NEW r \in Requests, CalculateTotalPaid(r)
    PROVE  /\ req[r] \in Settlements
           /\ req' \in [Requests -> RequestStates]
           /\ req'[r] \in Settlements
           /\ req'[r].pc = "booking"
           /\ req'[r].op = req[r].op
           /\ req'[r].id = req[r].id
           /\ req'[r].amount = req[r].amount
           /\ req'[r].status = "REFUNDED" => req[r].op = "refund"
<1> DEFINE b == payment[req[r].id].booking
           none == IF req[r].op = "refund" THEN "REFUNDED" ELSE "PENDING"
           status == StatusForTotal(TotalPaid(b) - req[r].amount, TotalPrice[b], none)
<1>1. req[r] \in Settlements
  BY Shapes DEF CalculateTotalPaid
<1>2. none \in PaymentStatuses
  BY DEF PaymentStatuses
<1>3. req' = [req EXCEPT ![r] = [req[r] EXCEPT !.pc = "booking", !.status = status]]
  BY DEF CalculateTotalPaid, Become
<1>4. status \in PaymentStatuses /\ status \in {"PAID", "PARTIAL", none}
  <2> HIDE DEF none
  <2> QED
    BY <1>2, StatusForTotalType
<1> HIDE DEF status
<1>5. req'[r] = [req[r] EXCEPT !.pc = "booking", !.status = status]
  BY <1>3 DEF TypeOK
<1>6. /\ req'[r] \in Settlements
      /\ req'[r].pc = "booking"
      /\ req'[r].op = req[r].op
      /\ req'[r].id = req[r].id
      /\ req'[r].amount = req[r].amount
      /\ req'[r].status = status
  BY <1>1, <1>4, <1>5 DEF Settlements
<1>7. req' \in [Requests -> RequestStates]
  BY <1>3, <1>5, <1>6 DEF TypeOK, RequestStates
<1> QED
  BY <1>1, <1>4, <1>6, <1>7

\* The steps that issue a statement.
LEMMA TypeContinue ==
    ASSUME TypeOK, RequestsOK, NEW r \in Requests, Continue(r)
    PROVE  TypeOK'
<1> USE DEF Become, Goto, Finish
<1>1. /\ Idle \in RequestStates
      /\ req[r] \in RequestStates
      /\ returned' \in [PaymentIds -> Nat]
  BY ReturnedStep DEF RequestStates, TypeOK
<1>2. CASE GeneratePaymentNumber(r)
  <2>1. req[r] \in Creations
    BY <1>2, Shapes DEF GeneratePaymentNumber
  <2>2. PICK n \in DailyNumbers : req' = [req EXCEPT ![r] = [req[r] EXCEPT !.pc = "insert", !.number = n]]
    BY <1>2 DEF GeneratePaymentNumber
  <2>3. [req[r] EXCEPT !.pc = "insert", !.number = n] \in RequestStates
    <3>1. n \in Nat
      BY SeqLimitAssumption DEF DailyNumbers, Overflow
    <3> QED
      BY <2>1, <3>1 DEF Creations, RequestStates
  <2> QED
    BY <1>2, <2>2, <2>3 DEF GeneratePaymentNumber, TypeOK
<1>3. CASE InsertPayment(r)
  <2>1. [req[r] EXCEPT !.pc = "audit"] \in RequestStates
    BY <1>1, <1>3, Shapes, NextStatement DEF InsertPayment
  <2>2. payment' \in [PaymentIds -> Payment \cup {NoPayment}]
    BY <1>3, InsertRow DEF InsertPayment, Added, OnlyRow, TypeOK
  <2> QED
    BY <1>1, <1>3, <2>1, <2>2 DEF InsertPayment, TypeOK
<1>4. CASE ProcessGatewayRefund(r)
  <2>1. [req[r] EXCEPT !.pc = "write"] \in RequestStates
    BY <1>1, <1>4, Shapes, NextStatement DEF ProcessGatewayRefund
  <2> QED
    BY <1>1, <1>4, <2>1 DEF ProcessGatewayRefund, TypeOK
<1>5. CASE WritePaid(r) \/ WriteRefunded(r)
  <2>1. [req[r] EXCEPT !.pc = "total"] \in RequestStates
    BY <1>1, <1>5, WriteRow, NextStatement
  <2>2. payment' \in [PaymentIds -> Payment \cup {NoPayment}]
    BY <1>5, WriteRow, Rows DEF WritePaid, WriteRefunded, Paid, Refunded, SameRow, OnlyRow, TypeOK
  <2> QED
    BY <1>1, <1>5, <2>1, <2>2 DEF WritePaid, WriteRefunded, TypeOK
<1>6. CASE CalculateTotalPaid(r)
  BY <1>1, <1>6, TotalStep DEF CalculateTotalPaid, TypeOK
<1>7. CASE UpdateBooking(r)
  <2>1. [req[r] EXCEPT !.pc = "audit"] \in RequestStates /\ req[r].status \in PaymentStatuses
    BY <1>1, <1>7, Shapes, NextStatement DEF UpdateBooking, Settlements
  <2>2. req' \in [Requests -> RequestStates]
    BY <1>1, <1>7, <2>1 DEF UpdateBooking, TypeOK
  <2>3. paymentStatus' \in [Bookings -> PaymentStatuses]
    BY <1>7, <2>1 DEF UpdateBooking, TypeOK
  <2> QED
    BY <1>1, <1>7, <2>2, <2>3 DEF UpdateBooking, TypeOK
<1>8. CASE LogAction(r)
  <2>1. req[r] # Idle
    BY <1>8, Shapes DEF LogAction, At
  <2>2. AuditAction(req[r].op) \in AuditActions /\ req[r].id \in PaymentIds
    BY <2>1, Shapes DEF AuditAction, AuditActions
  <2> QED
    BY <1>1, <1>8, <2>2 DEF LogAction, TypeOK
<1> QED
  BY <1>2, <1>3, <1>4, <1>5, <1>6, <1>7, <1>8 DEF Continue

\* A step of a request keeps the types.
LEMMA TypeStep ==
    ASSUME TypeOK, RequestsOK, NEW r \in Requests, Begin(r) \/ Continue(r) \/ Fail(r)
    PROVE  TypeOK'
<1>1. CASE Begin(r)
  BY <1>1, TypeBegin DEF Begin, BeginCreate, BeginProcess, BeginRefund, TypeOK
<1>2. CASE Fail(r)
  BY <1>2 DEF Fail, Finish, Become, TypeOK, RequestStates
<1> QED
  BY <1>1, <1>2, TypeContinue

-------------------------------------------------------------------------------
(* What the requests carry stays true *)

\* A request does not touch what the others carry.
LEMMA OthersUnchanged ==
    ASSUME TypeOK, NEW r \in Requests, Begin(r) \/ Continue(r) \/ Fail(r),
           NEW q \in Requests \ {r}
    PROVE  req'[q] = req[q]
BY DEF Begin, Continue, Fail, BeginCreate, BeginProcess, BeginRefund, GeneratePaymentNumber,
       InsertPayment, ProcessGatewayRefund, WritePaid, WriteRefunded, CalculateTotalPaid,
       UpdateBooking, LogAction, Become, Goto, Finish, TypeOK

\* The request goes on with the statement pc, the rest of it as it was.
Moved(r, pc) == /\ At(r, pc)'
                /\ req'[r].id = req[r].id
                /\ req'[r].op = req[r].op
                /\ req'[r].amount = req[r].amount
                /\ req[r] \in Settlements => req'[r].status = req[r].status

\* What going on with a statement leaves as it was.
LEMMA GotoMoves ==
    ASSUME TypeOK, NEW r \in Requests, NEW pc, Goto(r, pc),
           \/ req[r] \in Creations /\ pc \in {"number", "insert", "audit"}
           \/ req[r] \in Settlements /\ pc \in {"gateway", "write", "total", "booking", "audit"}
    PROVE  Moved(r, pc)
<1>1. req[r] \in RequestStates /\ req'[r] = [req[r] EXCEPT !.pc = pc]
  BY DEF TypeOK, Goto, Become
<1> QED
  BY <1>1, NextStatement DEF Moved, At

\* What the generator makes of its request.
LEMMA NumberStep ==
    ASSUME TypeOK, NEW r \in Requests, GeneratePaymentNumber(r)
    PROVE  \E n \in DailyNumbers : /\ IsNextNumber(n, Numbers)
                                   /\ req[r] \in Creations
                                   /\ At(r, "insert")'
                                   /\ req'[r].id = req[r].id
                                   /\ req'[r].number = n
<1>1. req[r] \in Creations
  BY Shapes DEF GeneratePaymentNumber
<1>2. PICK n \in DailyNumbers :
          /\ IsNextNumber(n, Numbers)
          /\ req' = [req EXCEPT ![r] = [req[r] EXCEPT !.pc = "insert", !.number = n]]
  BY DEF GeneratePaymentNumber, Become
<1>3. req'[r] = [req[r] EXCEPT !.pc = "insert", !.number = n]
  BY <1>2 DEF TypeOK
<1>4. req'[r].pc = "insert" /\ req'[r].id = req[r].id /\ req'[r].number = n
  BY <1>1, <1>3 DEF Creations
<1> QED
  BY <1>1, <1>2, <1>4 DEF At

\* The steps that issue a statement keep the id of their request, or end it.
LEMMA ContinueStep ==
    ASSUME TypeOK, NEW r \in Requests, Continue(r)
    PROVE  /\ req[r] # Idle
           /\ req'[r] = Idle \/ req'[r].id = req[r].id
<1>1. req[r] # Idle
  BY Shapes DEF At, Continue, GeneratePaymentNumber, InsertPayment, ProcessGatewayRefund, WritePaid,
                WriteRefunded, CalculateTotalPaid, UpdateBooking, LogAction
<1>2. Finish(r) => req'[r] = Idle
  BY DEF Finish, Become, TypeOK
<1>3. CASE GeneratePaymentNumber(r)
  BY <1>1, <1>3, NumberStep
<1>4. CASE InsertPayment(r)
  <2>1. (Finish(r) \/ Goto(r, "audit")) /\ req[r] \in Creations
    BY <1>4, Shapes DEF InsertPayment
  <2> QED
    BY <1>1, <1>2, <2>1, GotoMoves DEF Moved
<1>5. CASE ProcessGatewayRefund(r)
  <2>1. (Finish(r) \/ Goto(r, "write")) /\ req[r] \in Settlements
    BY <1>5, Shapes DEF ProcessGatewayRefund
  <2> QED
    BY <1>1, <1>2, <2>1, GotoMoves DEF Moved
<1>6. CASE WritePaid(r) \/ WriteRefunded(r)
  <2>1. Goto(r, "total") /\ req[r] \in Settlements
    BY <1>6, Shapes DEF WritePaid, WriteRefunded
  <2> QED
    BY <1>1, <2>1, GotoMoves DEF Moved
<1>7. CASE CalculateTotalPaid(r)
  BY <1>1, <1>7, TotalStep
<1>8. CASE UpdateBooking(r)
  <2>1. (Finish(r) \/ Goto(r, "audit")) /\ req[r] \in Settlements
    BY <1>8, Shapes DEF UpdateBooking
  <2> QED
    BY <1>1, <1>2, <2>1, GotoMoves DEF Moved
<1>9. CASE LogAction(r)
  BY <1>1, <1>2, <1>9 DEF LogAction
<1> QED
  BY <1>3, <1>4, <1>5, <1>6, <1>7, <1>8, <1>9 DEF Continue

\* A request that ends, or is logged, carries nothing any more.
LEMMA DoneOK ==
    ASSUME TypeOK, NEW r \in Requests, Finish(r) \/ At(r, "audit")'
    PROVE  ~ Creating(r)' /\ ~ Settling(r)'
BY DEF Finish, Become, TypeOK, Creating, Settling, At, Idle

\* A creation under way keeps its id, which no other request can take.
LEMMA CreationKept ==
    ASSUME Inductive, NEW r \in Requests, Begin(r) \/ Continue(r) \/ Fail(r),
           NEW q \in Requests \ {r}, Creating(q)
    PROVE  Creating(q)' /\ CreationOK(q)'
<1> USE DEF Inductive
<1>1. /\ \A p \in Requests \ {r} : req'[p] = req[p]
      /\ Grows /\ NewOf(r)
  BY OthersUnchanged, StepGrows
<1>2. CreationOK(q) /\ req[q] # Idle
  BY DEF RequestsOK, Creating, At, Idle
<1>3. req[r] # Idle => req[r].id # req[q].id
  BY <1>2 DEF CreationOK
<1>4. req'[q].id \notin Existing'
  BY <1>1, <1>2, <1>3 DEF CreationOK, NewOf, InsertPayment, At, Idle
<1>5. req'[r] # Idle => req'[r].id # req'[q].id
  <2>1. CASE Begin(r)
    BY <1>1, <1>2, <2>1 DEF Begin, BeginCreate, BeginProcess, BeginRefund, Become, TypeOK, FreeIds,
                            CreationOK
  <2>2. CASE Continue(r)
    BY <1>1, <1>3, <2>2, ContinueStep
  <2>3. CASE Fail(r)
    BY <2>3 DEF Fail, Finish, Become, TypeOK
  <2> QED
    BY <2>1, <2>2, <2>3
<1> QED
  BY <1>1, <1>2, <1>4, <1>5 DEF Creating, CreationOK, Grows, At

\* So does a settlement under way keep what it rests on.
LEMMA SettlementKept ==
    ASSUME Inductive, NEW r \in Requests, Begin(r) \/ Continue(r) \/ Fail(r),
           NEW q \in Requests \ {r}, Settling(q)
    PROVE  Settling(q)' /\ SettlementOK(q)'
<1> USE DEF Inductive
<1>1. req'[q] = req[q] /\ Grows
  BY OthersUnchanged, StepGrows
<1>2. SettlementOK(q) /\ req[q] \in Settlements
  BY Shapes DEF RequestsOK, Settling
<1>3. req[q].id \in PaymentIds /\ req[q].amount \in Amounts \cup {0}
  BY <1>2 DEF Settlements
<1>4. returned \in [PaymentIds -> Nat] /\ returned' \in [PaymentIds -> Nat]
  BY ReturnedStep DEF TypeOK
<1>5. req[q].amount \in Int
  BY <1>3, AmountsIntegers
<1>6. req[q].amount <= returned[req[q].id] => req[q].amount <= returned'[req[q].id]
  BY <1>1, <1>3, <1>4, <1>5 DEF Grows
<1> QED
  BY <1>1, <1>2, <1>6 DEF SettlementOK, Settling, Written, Stamped, Grows, At

\* A request begins with an id of its own, or with a payment its checks were made of.
LEMMA BeginOK ==
    ASSUME Inductive, NEW r \in Requests, Begin(r)
    PROVE  /\ Creating(r)' => CreationOK(r)'
           /\ Settling(r)' => SettlementOK(r)'
<1> USE DEF Inductive
<1>1. UNCHANGED <<payment, returned>> /\ Existing' = Existing /\ Numbers' = Numbers
  BY DEF Begin, BeginCreate, BeginProcess, BeginRefund, Existing, Numbers
<1>2. CASE BeginCreate(r)
  <2>1. /\ At(r, "number")'
        /\ req'[r].id \in FreeIds
        /\ \A q \in Requests \ {r} : req'[q] = req[q]
    BY <1>2 DEF BeginCreate, Become, At, TypeOK
  <2> QED
    BY <1>1, <2>1 DEF Creating, Settling, CreationOK, FreeIds, At
<1>3. CASE BeginProcess(r)
  <2>1. /\ At(r, "write")' /\ req'[r].op = "process" /\ req'[r].status = "PENDING"
        /\ req'[r].id \in Existing
    BY <1>3 DEF BeginProcess, Become, At, TypeOK
  <2> QED
    BY <1>1, <2>1 DEF Creating, Settling, SettlementOK, Written, At
<1>4. CASE BeginRefund(r)
  <2>1. PICK p \in Existing, amount \in Amounts :
            /\ payment[p].status = "PAID"
            /\ amount <= payment[p].amount
            /\ req' = [req EXCEPT ![r] = [op |-> "refund", pc |-> "gateway", id |-> p,
                                          amount |-> amount, status |-> "PENDING"]]
    BY <1>4 DEF BeginRefund, Become
  <2>2. /\ At(r, "gateway")' /\ req'[r].op = "refund"
        /\ req'[r].id = p /\ req'[r].amount = amount
    BY <2>1 DEF At, TypeOK
  <2>3. Stamped(p, "processedAt")
    BY <2>1 DEF StatusBacked
  <2> QED
    BY <1>1, <2>1, <2>2, <2>3 DEF Creating, Settling, SettlementOK, Written, At, Stamped
<1> QED
  BY <1>2, <1>3, <1>4 DEF Begin

\* What a statement of a request makes true of it.
LEMMA ContinueOK ==
    ASSUME Inductive, NEW r \in Requests, Continue(r)
    PROVE  /\ Creating(r)' => CreationOK(r)'
           /\ Settling(r)' => SettlementOK(r)'
<1> USE DEF Inductive
<1>1. Grows
  BY StepGrows
<1>2. CASE GeneratePaymentNumber(r)
  <2>1. PICK n \in DailyNumbers : /\ IsNextNumber(n, Numbers)
                                  /\ req[r] \in Creations
                                  /\ At(r, "insert")'
                                  /\ req'[r].id = req[r].id
                                  /\ req'[r].number = n
    BY <1>2, NumberStep
  <2>2. CreationOK(r)
    BY <1>2 DEF RequestsOK, GeneratePaymentNumber, Creating
  <2>3. \A m \in 1 .. (n - 1) : m \in Numbers
    BY <2>1, NextNumberHasPredecessors DEF NumbersConsecutive
  <2>4. \A q \in Requests \ {r} : req'[q] = req[q]
    BY <1>2, OthersUnchanged
  <2>5. Existing' = Existing
    BY <1>2 DEF GeneratePaymentNumber, Existing
  <2>6. CreationOK(r)'
    BY <1>1, <2>1, <2>2, <2>3, <2>4, <2>5 DEF CreationOK, Grows
  <2> QED
    BY <2>1, <2>6 DEF Settling, At
<1>3. CASE InsertPayment(r)
  <2>1. Finish(r) \/ At(r, "audit")'
    BY <1>3, GotoMoves, Shapes DEF InsertPayment, Moved
  <2> QED
    BY <2>1, DoneOK
<1>4. CASE ProcessGatewayRefund(r)
  <2>1. CASE Finish(r)
    BY <2>1, DoneOK
  <2>2. CASE Goto(r, "write") /\ req[r].amount <= returned'[req[r].id]
    <3>1. req[r] \in Settlements /\ SettlementOK(r) /\ UNCHANGED payment
      BY <1>4, Shapes DEF ProcessGatewayRefund, RequestsOK, Settling
    <3>2. Moved(r, "write") /\ req'[r].status = req[r].status
      BY <2>2, <3>1, GotoMoves DEF Moved
    <3>3. SettlementOK(r)'
      BY <1>1, <2>2, <3>1, <3>2 DEF SettlementOK, Moved, Written, Stamped, At, Existing
    <3> QED
      BY <3>2, <3>3 DEF Creating, Moved, At
  <2> QED
    BY <1>4, <2>1, <2>2, ReturnedStep
<1>5. CASE WritePaid(r) \/ WriteRefunded(r)
  <2>1. /\ req[r] \in Settlements /\ Goto(r, "total")
        /\ WritePaid(r) => Paid(r)
        /\ WriteRefunded(r) => Refunded(r)
    BY <1>5, WriteRow
  <2>2. Moved(r, "total") /\ req'[r].status = req[r].status
    BY <2>1, GotoMoves DEF Moved
  <2>3. SettlementOK(r)
    BY <1>5 DEF RequestsOK, Settling, WritePaid, WriteRefunded
  <2>4. /\ req[r].op = "refund" => Stamped(req[r].id, "refundedAt")'
        /\ req[r].op = "process" => Stamped(req[r].id, "processedAt")'
    BY <1>5, <2>1, <2>2 DEF WritePaid, WriteRefunded, Paid, Refunded, Stamped, Moved
  <2>5. SettlementOK(r)'
    BY <1>1, <2>2, <2>3, <2>4 DEF SettlementOK, Moved, Written, Stamped, At, Grows
  <2> QED
    BY <2>2, <2>5 DEF Creating, Moved, At
<1>6. CASE CalculateTotalPaid(r)
  <2>1. SettlementOK(r) /\ Written(r) /\ UNCHANGED payment
    BY <1>6 DEF RequestsOK, Settling, Written, CalculateTotalPaid
  <2>2. SettlementOK(r)'
    BY <1>6, <2>1, TotalStep DEF SettlementOK, Written, Stamped, At, Existing
  <2> QED
    BY <1>6, <2>2, TotalStep DEF Creating, At
<1>7. CASE UpdateBooking(r)
  <2>1. Finish(r) \/ At(r, "audit")'
    BY <1>7, GotoMoves, Shapes DEF UpdateBooking, Moved
  <2> QED
    BY <2>1, DoneOK
<1>8. CASE LogAction(r)
  BY <1>8, DoneOK DEF LogAction
<1> QED
  BY <1>2, <1>3, <1>4, <1>5, <1>6, <1>7, <1>8 DEF Continue

\* What every request carries stays true.
LEMMA RequestsStep ==
    ASSUME Inductive, NEW r \in Requests, Begin(r) \/ Continue(r) \/ Fail(r)
    PROVE  RequestsOK'
<1>1. /\ Creating(r)' => CreationOK(r)'
      /\ Settling(r)' => SettlementOK(r)'
  BY BeginOK, ContinueOK, DoneOK DEF Fail, Inductive
<1>2. ASSUME NEW q \in Requests \ {r}
      PROVE  /\ Creating(q)' => CreationOK(q)'
             /\ Settling(q)' => SettlementOK(q)'
  <2>1. req'[q] = req[q]
    BY OthersUnchanged DEF Inductive
  <2>2. /\ Creating(q)' => Creating(q)
        /\ Settling(q)' => Settling(q)
    BY <2>1 DEF Creating, Settling, At
  <2> QED
    BY <2>2, CreationKept, SettlementKept
<1> QED
  BY <1>1, <1>2 DEF RequestsOK

-------------------------------------------------------------------------------
(* The properties *)

\* A refund is written with an amount that the gateway has returned by then.
LEMMA RefundStep ==
    ASSUME Inductive, NEW r \in Requests, Begin(r) \/ Continue(r) \/ Fail(r)
    PROVE  RefundBacked'
<1> USE DEF Inductive
<1>1. /\ Grows
      /\ TypeOK'
  BY StepGrows, TypeStep
<1>2. SUFFICES ASSUME NEW p \in Existing', Stamped(p, "refundedAt")'
               PROVE  /\ Stamped(p, "processedAt")'
                      /\ payment'[p].refundAmount <= returned'[p]
                      /\ payment'[p].refundAmount <= payment'[p].amount
  BY DEF RefundBacked
<1>3. /\ p \in PaymentIds /\ payment'[p] \in Payment
      /\ returned[p] \in Int /\ returned'[p] \in Int /\ returned[p] <= returned'[p]
  BY <1>1 DEF TypeOK, Existing, Grows
<1>4. payment'[p].refundAmount \in Int
  BY <1>3, AmountsIntegers DEF Payment
<1>5. CASE /\ p \in Existing /\ Stamped(p, "refundedAt")
           /\ payment'[p].refundAmount = payment[p].refundAmount
  BY <1>1, <1>3, <1>4, <1>5 DEF RefundBacked, Grows, Stamped
<1>6. CASE WriteRefunded(r) /\ p = req[r].id
  <2>1. SettlementOK(r) /\ req[r].op = "refund" /\ At(r, "write") /\ Refunded(r)
    BY <1>6, WriteRow DEF WriteRefunded, RequestsOK, Settling
  <2> QED
    BY <1>1, <1>3, <1>4, <1>6, <2>1 DEF SettlementOK, Refunded, SameRow, Stamped, Grows
<1>7. CASE UNCHANGED payment
  BY <1>2, <1>5, <1>7 DEF Existing, Stamped
<1>8. CASE InsertPayment(r) /\ Added(r)
  <2>1. p # req[r].id
    BY <1>2, <1>8 DEF Added, Stamped
  <2> QED
    BY <1>2, <1>3, <1>5, <1>8, <2>1 DEF Added, OnlyRow, Existing, Stamped
<1>9. CASE WritePaid(r) /\ Paid(r)
  BY <1>2, <1>3, <1>5, <1>9 DEF Paid, OnlyRow, Existing, Stamped
<1>10. CASE WriteRefunded(r) /\ Refunded(r)
  BY <1>2, <1>3, <1>5, <1>6, <1>10 DEF Refunded, OnlyRow, Existing, Stamped
<1> QED
  BY <1>7, <1>8, <1>9, <1>10, RowStep

\* The payment status of a booking is written after the payment it comes from.
LEMMA StatusStep ==
    ASSUME Inductive, NEW r \in Requests, Begin(r) \/ Continue(r) \/ Fail(r)
    PROVE  StatusBacked'
<1> USE DEF Inductive
<1>1. Grows
  BY StepGrows
<1> DEFINE Cause(b, stamp) == \E p \in PaymentsOf(b) : Stamped(p, stamp)
<1>2. \A b \in Bookings, stamp \in Stamps : Cause(b, stamp) => Cause(b, stamp)'
  BY <1>1 DEF Grows, PaymentsOf, Stamped
<1>3. ASSUME NEW b \in Bookings
      PROVE  /\ paymentStatus'[b] \in {"PAID", "PARTIAL"} => Cause(b, "processedAt")'
             /\ paymentStatus'[b] = "REFUNDED" => Cause(b, "refundedAt")'
  <2>1. CASE paymentStatus'[b] = paymentStatus[b]
    BY <1>2, <2>1 DEF StatusBacked, Stamps
  <2>2. CASE paymentStatus'[b] # paymentStatus[b]
    <3>1. UpdateBooking(r)
      BY <2>2 DEF Begin, Continue, Fail, BeginCreate, BeginProcess, BeginRefund,
         GeneratePaymentNumber, InsertPayment, ProcessGatewayRefund, WritePaid, WriteRefunded,
         CalculateTotalPaid, LogAction
    <3>2. /\ SettlementOK(r) /\ Written(r) /\ req[r] \in Settlements
          /\ b = payment[req[r].id].booking
          /\ paymentStatus'[b] = req[r].status
      BY <2>2, <3>1, Shapes DEF UpdateBooking, RequestsOK, Settling, Written, TypeOK
    <3>3. req[r].id \in PaymentsOf(b)
      BY <3>2 DEF SettlementOK, PaymentsOf
    <3>4. req[r].op \in {"process", "refund"}
      BY <3>2 DEF Settlements
    <3>5. /\ Stamped(req[r].id, "processedAt")
          /\ req[r].status = "REFUNDED" => Stamped(req[r].id, "refundedAt")
      BY <3>2, <3>4 DEF SettlementOK
    <3> QED
      BY <1>2, <3>2, <3>3, <3>5 DEF Stamps
  <2> QED
    BY <2>1, <2>2
<1>4. ASSUME NEW p \in Existing'
      PROVE  payment'[p].status = "PENDING" <=> ~ Stamped(p, "processedAt")'
  <2>1. CASE UNCHANGED payment
    BY <2>1 DEF StatusBacked, Existing, Stamped
  <2>2. CASE InsertPayment(r) /\ Added(r)
    BY <1>4, <2>2 DEF Added, OnlyRow, StatusBacked, Existing, Stamped
  <2>3. CASE WritePaid(r) /\ Paid(r)
    BY <1>4, <2>3 DEF Paid, OnlyRow, StatusBacked, Existing, Stamped
  <2>4. CASE WriteRefunded(r) /\ Refunded(r)
    <3>1. Stamped(req[r].id, "processedAt")
      BY <2>4 DEF WriteRefunded, RequestsOK, Settling, SettlementOK
    <3> QED
      BY <1>4, <2>4, <3>1 DEF Refunded, OnlyRow, StatusBacked, Existing, Stamped
  <2> QED
    BY <2>1, <2>2, <2>3, <2>4, RowStep
<1> QED
  BY <1>3, <1>4 DEF StatusBacked

\* The insert of a number whose predecessors are in use leaves no gap.
LEMMA NumbersStep ==
    ASSUME Inductive, NEW r \in Requests, Begin(r) \/ Continue(r) \/ Fail(r)
    PROVE  NumbersConsecutive'
<1> USE DEF Inductive
<1>1. Grows /\ NewOf(r)
  BY StepGrows
<1>2. CASE Existing' = Existing /\ Numbers' = Numbers
  BY <1>1, <1>2 DEF NumbersConsecutive, Grows
<1>3. CASE /\ InsertPayment(r) /\ Added(r)
           /\ Existing' = Existing \cup {req[r].id}
           /\ Numbers' = Numbers \cup {req[r].number}
  <2> DEFINE n == req[r].number
  <2>1. n \in DailyNumbers /\ \A m \in 1 .. (n - 1) : m \in Numbers
    BY <1>3 DEF InsertPayment, RequestsOK, Creating, CreationOK
  <2>2. WithoutGaps(Numbers')
    BY <1>3, <2>1, AddedNumberLeavesNoGap DEF NumbersConsecutive
  <2>3. \A p \in Existing : payment'[p].number = payment[p].number /\ payment[p].number # n
    BY <1>1, <1>3 DEF Grows, Added, Numbers
  <2>4. payment'[req[r].id].number = n
    BY <1>3 DEF Added
  <2>5. \A p, q \in Existing' : payment'[p].number = payment'[q].number => p = q
    BY <1>3, <2>3, <2>4 DEF NumbersConsecutive
  <2> QED
    BY <1>3, <2>1, <2>2, <2>5 DEF NumbersConsecutive
<1> QED
  BY <1>1, <1>2, <1>3 DEF NewOf

\* In the initial state there is nothing to say anything of.
LEMMA InductiveInit == Init => Inductive
<1> SUFFICES ASSUME Init PROVE Inductive
  OBVIOUS
<1>1. TypeOK
  BY TypeInit
<1>2. Existing = {} /\ Numbers = {}
  BY DEF Init, Existing, Numbers
<1>3. RequestsOK
  BY DEF Init, Idle, RequestsOK, Creating, Settling, At
<1>4. \A b \in Bookings : paymentStatus[b] = "PENDING"
  BY DEF Init
<1> QED
  BY <1>1, <1>2, <1>3, <1>4 DEF Inductive, RefundBacked, StatusBacked, NumbersConsecutive,
     WithoutGaps

\* The invariant survives every step.
LEMMA InductiveStep == Inductive /\ [Next]_vars => Inductive'
<1> SUFFICES ASSUME Inductive, [Next]_vars PROVE Inductive'
  OBVIOUS
<1>1. ASSUME NEW r \in Requests, Begin(r) \/ Continue(r) \/ Fail(r) PROVE Inductive'
  BY <1>1, TypeStep, RequestsStep, RefundStep, StatusStep, NumbersStep DEF Inductive
<1>2. CASE UNCHANGED vars
  <2>1. UNCHANGED <<Existing, Numbers>> /\ UNCHANGED <<payment, paymentStatus, returned, audit, req>>
    BY <1>2 DEF vars, Existing, Numbers
  <2> QED
    BY <2>1 DEF Inductive, TypeOK, RequestsOK, Creating, Settling, CreationOK, SettlementOK,
       Written, Stamped, At, RefundBacked, StatusBacked, PaymentsOf, NumbersConsecutive
<1> QED
  BY <1>1, <1>2 DEF Next

\* Every reachable state has the inductive invariant.
LEMMA InductiveInvariant == Spec => []Inductive
BY InductiveInit, InductiveStep, PTL DEF Spec

\* The rows, the log and the requests always have the shape the code gives them.
THEOREM PaymentsTypeCorrect == Spec => []TypeOK
BY InductiveInvariant, PTL DEF Inductive

\* Whatever races and fails, a refund on record was returned by the gateway, at most
\* the payment, and for a payment that was processed.
THEOREM RefundsBacked == Spec => []RefundBacked
BY InductiveInvariant, PTL DEF Inductive

\* Whatever races and fails, what a booking says of its payments has a cause among
\* them, and no payment that was processed is PENDING again.
THEOREM StatusesBacked == Spec => []StatusBacked
BY InductiveInvariant, PTL DEF Inductive

\* Whatever creations race and fail, the payment numbers of a day are distinct and
\* have no gap.
THEOREM PaymentNumbersCorrect == Spec => []NumbersConsecutive
BY InductiveInvariant, PTL DEF Inductive

-------------------------------------------------------------------------------
(* One request at a time *)

OneAtATime == \A q, r \in Requests : q = r

\* A payment is PENDING, then PAID, then REFUNDED, and its amounts and stamps say so.
RowFits(p) ==
    /\ payment[p].status \in {"PENDING", "PAID", "REFUNDED"}
    /\ payment[p].status = "REFUNDED" <=> Stamped(p, "refundedAt")
    /\ ~ Stamped(p, "refundedAt") => payment[p].refundAmount = 0

RowsFit == IsFiniteSet(Existing) /\ \A p \in Existing : RowFits(p)

\* The status that the end of a handler gives the booking.
StatusDue(r) ==
    LET b == payment[req[r].id].booking
    IN  StatusForTotal(TotalPaid(b) - req[r].amount, TotalPrice[b],
                       IF req[r].op = "refund" THEN "REFUNDED" ELSE "PENDING")

\* What a request decided on is still so when it writes.
DecisionOK(r) ==
    /\ Creating(r) =>
          Committed(req[r].booking) + req[r].amount <= TotalPrice[req[r].booking]
    /\ At(r, "gateway") => req[r].op = "refund" /\ payment[req[r].id].status = "PAID"
    /\ At(r, "write") =>
          payment[req[r].id].status = IF req[r].op = "refund" THEN "PAID" ELSE "PENDING"
    /\ Settling(r) /\ req[r].op = "process" => req[r].amount = 0
    /\ Written(r) /\ req[r].op = "refund" => payment[req[r].id].refundAmount = req[r].amount
    /\ At(r, "booking") => req[r].status = StatusDue(r)

DecisionsHold == \A r \in Requests : DecisionOK(r)

\* The gateway has paid for r and the row does not say so yet.
PaidOut(r, p) == At(r, "write") /\ req[r].op = "refund" /\ req[r].id = p

\* What the row of a payment says was given back.
Recorded(p) == IF p \in Existing THEN payment[p].refundAmount ELSE 0

\* What the gateway has returned is on record, or carried by the request it returned it to.
Ledger == \A p \in PaymentIds :
              /\ \A r \in Requests : PaidOut(r, p) => returned[p] = Money(req[r].amount)
              /\ (\A r \in Requests : ~ PaidOut(r, p)) => returned[p] = Money(Recorded(p))

\* The payment status of a booking fits its payments.
StatusFits(b) ==
    /\ (\A p \in PaymentsOf(b) : payment[p].refundAmount >= 0) =>
          /\ paymentStatus[b] = "PAID" => KeptFor(b) >= TotalPrice[b]
          /\ paymentStatus[b] = "PARTIAL" => KeptFor(b) > 0
    /\ (\A p \in PaymentsOf(b) : ~ Stamped(p, "refundedAt")) =>
          paymentStatus[b] = IF PaymentsOf(b) \cap Processed = {} THEN "PENDING"
                             ELSE StatusForTotal(KeptFor(b), TotalPrice[b], "PENDING")

\* It does, or a request that wrote a payment of the booking is about to write the booking.
StatusesFit ==
    \A b \in Bookings : \/ StatusFits(b)
                        \/ \E r \in Requests : Written(r) /\ payment[req[r].id].booking = b

\* In the initial state there is nothing to decide on and nothing to give back.
LEMMA AloneInit == Init => RowsFit /\ DecisionsHold /\ Ledger
<1> SUFFICES ASSUME Init PROVE RowsFit /\ DecisionsHold /\ Ledger
  OBVIOUS
<1>1. Existing = {}
  BY DEF Init, Existing
<1>2. RowsFit
  BY <1>1, FS_EmptySet DEF RowsFit
<1>3. DecisionsHold
  BY DEF Init, Idle, DecisionsHold, DecisionOK, Creating, Settling, Written, At
<1>4. Ledger
  BY <1>1, MoneyMoved DEF Init, Idle, Ledger, PaidOut, Recorded, At
<1> QED
  BY <1>2, <1>3, <1>4

\* The payments of a booking, with amounts that are numbers.
LEMMA AmountsOfBooking ==
    ASSUME TypeOK, IsFiniteSet(Existing), NEW b \in Bookings
    PROVE  /\ IsFiniteSet(PaymentsOf(b))
           /\ \A p \in PaymentsOf(b) : /\ p \in Existing /\ payment[p] \in Payment
                                       /\ AmountOf[p] = payment[p].amount
                                       /\ AmountOf[p] \in Int
                                       /\ payment[p].refundAmount \in Int
<1>1. PaymentsOf(b) \subseteq Existing
  BY DEF PaymentsOf
<1>2. ASSUME NEW p \in Existing
      PROVE  /\ payment[p] \in Payment
             /\ AmountOf[p] = payment[p].amount
             /\ AmountOf[p] \in Int
             /\ payment[p].refundAmount \in Int
  <2>1. payment[p] \in Payment /\ AmountOf[p] = payment[p].amount
    BY Rows DEF AmountOf
  <2>2. payment[p].amount \in Amounts /\ payment[p].refundAmount \in Amounts \cup {0}
    BY <2>1 DEF Payment
  <2> QED
    BY <2>1, <2>2, AmountsIntegers
<1> QED
  BY <1>1, <1>2, FS_Subset

\* No step changes what the payments of a booking amount to, but an insert adds its own.
LEMMA CommittedStep ==
    ASSUME TypeOK, RequestsOK, IsFiniteSet(Existing), NEW b \in Bookings,
           NEW r \in Requests, Begin(r) \/ Continue(r) \/ Fail(r)
    PROVE  \/ PaymentsOf(b)' = PaymentsOf(b) /\ Committed(b)' = Committed(b)
           \/ /\ InsertPayment(r) /\ Added(r) /\ req[r].booking = b
              /\ Committed(b)' = Committed(b) + req[r].amount
<1> DEFINE old == PaymentsOf(b)
           p == req[r].id
<1>1. Grows /\ NewOf(r)
  BY StepGrows
<1>2. IsFiniteSet(old) /\ \A x \in old : x \in Existing /\ AmountOf[x] \in Int
  BY AmountsOfBooking
<1>3. \A x \in old : AmountOf'[x] = AmountOf[x]
  BY <1>1, <1>2 DEF Grows, AmountOf
<1>4. CASE PaymentsOf(b)' = old
  <2>1. SumFunctionOnSet(AmountOf', old) = SumFunctionOnSet(AmountOf, old)
    BY <1>2, <1>3, SumSame
  <2> QED
    BY <1>4, <2>1 DEF Committed
<1>5. CASE InsertPayment(r) /\ Added(r) /\ Existing' = Existing \cup {p} /\ req[r].booking = b
  <2>1. PaymentsOf(b)' = old \cup {p} /\ p \notin old
    BY <1>1, <1>5 DEF Grows, Added, PaymentsOf
  <2>2. AmountOf'[p] = req[r].amount
    BY <1>5 DEF Added, AmountOf
  <2>3. req[r].amount \in Int
    <3>1. req[r].amount \in Amounts
      BY <1>5, Shapes DEF InsertPayment, Creations
    <3> QED
      BY <3>1, AmountsIntegers
  <2>4. SumFunctionOnSet(AmountOf', old \cup {p}) = AmountOf'[p] + SumFunctionOnSet(AmountOf', old)
    BY <1>2, <1>3, <2>1, <2>2, <2>3, SumAdd
  <2>5. SumFunctionOnSet(AmountOf', old) = SumFunctionOnSet(AmountOf, old)
    BY <1>2, <1>3, SumSame
  <2>6. SumFunctionOnSet(AmountOf, old) \in Int
    BY <1>2, SumInteger
  <2> QED
    BY <1>5, <2>1, <2>2, <2>3, <2>4, <2>5, <2>6 DEF Committed
<1>6. CASE InsertPayment(r) /\ Added(r) /\ Existing' = Existing \cup {p} /\ req[r].booking # b
  <2>1. PaymentsOf(b)' = old
    BY <1>1, <1>6 DEF Grows, Added, PaymentsOf
  <2> QED
    BY <1>4, <2>1
<1>7. CASE Existing' = Existing
  <2>1. PaymentsOf(b)' = old
    BY <1>1, <1>7 DEF Grows, PaymentsOf
  <2> QED
    BY <1>4, <2>1
<1> QED
  BY <1>1, <1>5, <1>6, <1>7 DEF NewOf

\* A request alone moves a payment from PENDING to PAID, or from PAID to REFUNDED.
LEMMA RowsFitStep ==
    ASSUME Inductive, RowsFit, DecisionsHold, NEW r \in Requests, Begin(r) \/ Continue(r) \/ Fail(r)
    PROVE  RowsFit'
<1> USE DEF Inductive
<1>1. Grows /\ NewOf(r) /\ DecisionOK(r)
  BY StepGrows DEF DecisionsHold
<1>2. IsFiniteSet(Existing')
  <2>1. Existing' = Existing \/ Existing' = Existing \cup {req[r].id}
    BY <1>1 DEF NewOf
  <2> QED
    BY <2>1, FS_AddElement DEF RowsFit
<1>3. ASSUME NEW p \in Existing' PROVE RowFits(p)'
  <2>1. p \in PaymentIds /\ (p \in Existing => RowFits(p))
    BY <1>3 DEF RowsFit, Existing
  <2>2. CASE UNCHANGED payment
    BY <1>3, <2>1, <2>2 DEF RowFits, Existing, Stamped
  <2>3. CASE InsertPayment(r) /\ Added(r)
    BY <1>3, <2>1, <2>3 DEF Added, OnlyRow, RowFits, Existing, Stamped
  <2>4. CASE WritePaid(r) /\ Paid(r)
    <3>1. payment[req[r].id].status = "PENDING"
      BY <1>1, <2>4 DEF DecisionOK, WritePaid
    <3>2. RowFits(req[r].id) /\ ~ Stamped(req[r].id, "refundedAt")
      BY <2>4, <3>1 DEF Paid, RowsFit, RowFits
    <3> QED
      BY <1>3, <2>1, <2>4, <3>2 DEF Paid, OnlyRow, RowFits, Existing, Stamped
  <2>5. CASE WriteRefunded(r) /\ Refunded(r)
    BY <1>3, <2>1, <2>5 DEF Refunded, OnlyRow, RowFits, Existing, Stamped
  <2> QED
    BY <2>2, <2>3, <2>4, <2>5, RowStep
<1> QED
  BY <1>2, <1>3 DEF RowsFit

\* What depends on the payments alone.
LEMMA SumsUnchanged ==
    ASSUME UNCHANGED payment
    PROVE  /\ Existing' = Existing /\ AmountOf' = AmountOf /\ Kept' = Kept
           /\ Processed' = Processed
           /\ \A b : /\ PaymentsOf(b)' = PaymentsOf(b)
                     /\ Committed(b)' = Committed(b)
                     /\ TotalPaid(b)' = TotalPaid(b)
                     /\ KeptFor(b)' = KeptFor(b)
<1>1. Existing' = Existing
  BY DEF Existing
<1>2. AmountOf' = AmountOf /\ Kept' = Kept /\ Processed' = Processed
  BY <1>1 DEF AmountOf, Kept, Processed, Stamped
<1>3. \A b : PaymentsOf(b)' = PaymentsOf(b)
  BY <1>1 DEF PaymentsOf
<1>4. \A b : Committed(b)' = Committed(b) /\ KeptFor(b)' = KeptFor(b)
  BY <1>2, <1>3 DEF Committed, KeptFor
<1>5. ASSUME NEW b PROVE TotalPaid(b)' = TotalPaid(b)
  <2> DEFINE paid == {p \in PaymentsOf(b) : payment[p].status \in {"PAID", "PARTIAL"}}
  <2>1. paid' = paid
    BY <1>3
  <2>2. TotalPaid(b) = SumFunctionOnSet(AmountOf, paid)
    BY DEF TotalPaid
  <2>3. TotalPaid(b)' = SumFunctionOnSet(AmountOf', paid')
    BY DEF TotalPaid
  <2> QED
    BY <1>2, <2>1, <2>2, <2>3
<1> QED
  BY <1>1, <1>2, <1>3, <1>4, <1>5

\* What the last read of a settlement decides.
LEMMA TotalDecision ==
    ASSUME TypeOK, NEW r \in Requests, CalculateTotalPaid(r)
    PROVE  req'[r].status = StatusDue(r)
<1> DEFINE status == StatusDue(r)
<1>1. req' = [req EXCEPT ![r] = [req[r] EXCEPT !.pc = "booking", !.status = status]]
  BY DEF CalculateTotalPaid, Become, StatusDue
<1> HIDE DEF status
<1>2. req[r] \in Settlements
  BY Shapes DEF CalculateTotalPaid
<1>3. req'[r] = [req[r] EXCEPT !.pc = "booking", !.status = status]
  BY <1>1 DEF TypeOK
<1> QED
  BY <1>2, <1>3 DEF status, Settlements

\* A request alone writes what it decided on: nothing comes between.
LEMMA DecisionStep ==
    ASSUME OneAtATime, Inductive, DecisionsHold, NEW r \in Requests, Begin(r) \/ Continue(r) \/ Fail(r)
    PROVE  DecisionsHold'
<1> USE DEF Inductive
<1> SUFFICES DecisionOK(r)'
  BY DEF OneAtATime, DecisionsHold
<1>0. DecisionOK(r)
  BY DEF DecisionsHold
<1>1. CASE Finish(r) \/ At(r, "audit")'
  <2>1. req'[r].pc \in {"idle", "audit"}
    BY <1>1 DEF Finish, Become, TypeOK, Idle, At
  <2> QED
    BY <2>1 DEF DecisionOK, Creating, Settling, Written, At
<1>2. CASE BeginCreate(r)
  <2>1. PICK id \in FreeIds, b \in Bookings, amount \in Amounts :
            /\ Committed(b) + amount <= TotalPrice[b]
            /\ req'[r].pc = "number" /\ req'[r].booking = b /\ req'[r].amount = amount
    BY <1>2 DEF BeginCreate, Become, TypeOK
  <2>2. Committed(b)' = Committed(b)
    BY <1>2, SumsUnchanged DEF BeginCreate
  <2> QED
    BY <2>1, <2>2 DEF DecisionOK, Creating, Settling, Written, At
<1>3. CASE BeginProcess(r)
  <2>1. /\ req'[r].pc = "write" /\ req'[r].op = "process" /\ req'[r].amount = 0
        /\ payment'[req'[r].id].status = "PENDING"
    BY <1>3 DEF BeginProcess, Become, TypeOK
  <2> QED
    BY <2>1 DEF DecisionOK, Creating, Settling, Written, At
<1>4. CASE BeginRefund(r)
  <2>1. PICK p \in Existing, amount \in Amounts :
            /\ payment[p].status = "PAID"
            /\ req' = [req EXCEPT ![r] = [op |-> "refund", pc |-> "gateway", id |-> p,
                                          amount |-> amount, status |-> "PENDING"]]
    BY <1>4 DEF BeginRefund, Become
  <2>2. /\ req'[r].pc = "gateway" /\ req'[r].op = "refund" /\ req'[r].id = p
        /\ payment' = payment
    BY <1>4, <2>1 DEF BeginRefund, TypeOK
  <2> QED
    BY <2>1, <2>2 DEF DecisionOK, Creating, Settling, Written, At
<1>5. CASE GeneratePaymentNumber(r)
  <2>1. PICK n \in DailyNumbers :
            req' = [req EXCEPT ![r] = [req[r] EXCEPT !.pc = "insert", !.number = n]]
    BY <1>5 DEF GeneratePaymentNumber, Become
  <2>2. req[r] \in Creations /\ req'[r] = [req[r] EXCEPT !.pc = "insert", !.number = n]
    BY <1>5, <2>1, Shapes DEF GeneratePaymentNumber, TypeOK
  <2>3. req'[r].pc = "insert" /\ req'[r].booking = req[r].booking /\ req'[r].amount = req[r].amount
    BY <2>2 DEF Creations
  <2>4. \A b : Committed(b)' = Committed(b)
    BY <1>5, SumsUnchanged DEF GeneratePaymentNumber
  <2> QED
    BY <1>0, <1>5, <2>3, <2>4 DEF DecisionOK, Creating, Settling, Written, GeneratePaymentNumber, At
<1>6. CASE InsertPayment(r)
  <2>1. Finish(r) \/ At(r, "audit")'
    BY <1>6, Shapes, GotoMoves DEF InsertPayment, Moved
  <2> QED
    BY <1>1, <2>1
<1>7. CASE ProcessGatewayRefund(r)
  <2>1. CASE Goto(r, "write")
    <3>1. Moved(r, "write")
      BY <1>7, <2>1, Shapes, GotoMoves DEF ProcessGatewayRefund
    <3> QED
      BY <1>0, <1>7, <3>1 DEF DecisionOK, Creating, Settling, Written, ProcessGatewayRefund, Moved, At
  <2> QED
    BY <1>1, <1>7, <2>1 DEF ProcessGatewayRefund
<1>8. CASE WritePaid(r) \/ WriteRefunded(r)
  <2>1. Moved(r, "total") /\ (req[r].op = "refund" => Refunded(r))
    BY <1>8, WriteRow, GotoMoves DEF WritePaid
  <2> QED
    BY <1>0, <1>8, <2>1 DEF DecisionOK, Creating, Settling, Written, WritePaid, WriteRefunded,
       Refunded, Moved, At
<1>9. CASE CalculateTotalPaid(r)
  <2>1. /\ req'[r].pc = "booking" /\ req'[r].op = req[r].op
        /\ req'[r].id = req[r].id /\ req'[r].amount = req[r].amount
        /\ req'[r].status = StatusDue(r)
    BY <1>9, TotalStep, TotalDecision
  <2>2. StatusDue(r)' = StatusDue(r)
    <3>1. payment' = payment
      BY <1>9 DEF CalculateTotalPaid
    <3>2. \A b : TotalPaid(b)' = TotalPaid(b)
      BY <3>1, SumsUnchanged
    <3> QED
      BY <2>1, <3>1, <3>2 DEF StatusDue
  <2> QED
    BY <1>0, <1>9, <2>1, <2>2 DEF DecisionOK, Creating, Settling, Written, CalculateTotalPaid, At
<1>10. CASE UpdateBooking(r)
  <2>1. Finish(r) \/ At(r, "audit")'
    BY <1>10, Shapes, GotoMoves DEF UpdateBooking, Moved
  <2> QED
    BY <1>1, <2>1
<1> QED
  BY <1>1, <1>2, <1>3, <1>4, <1>5, <1>6, <1>7, <1>8, <1>9, <1>10
     DEF Begin, Continue, Fail, LogAction

\* What a creation was checked against is still what it adds to.
LEMMA OverpaidStep ==
    ASSUME Inductive, RowsFit, DecisionsHold, NeverOverpaid,
           NEW r \in Requests, Begin(r) \/ Continue(r) \/ Fail(r)
    PROVE  NeverOverpaid'
<1> USE DEF Inductive
<1> SUFFICES ASSUME NEW b \in Bookings, PaymentsOf(b)' # {}
             PROVE  Committed(b)' <= TotalPrice[b]
  BY DEF NeverOverpaid
<1>1. CASE PaymentsOf(b)' = PaymentsOf(b) /\ Committed(b)' = Committed(b)
  BY <1>1 DEF NeverOverpaid
<1>2. CASE InsertPayment(r) /\ req[r].booking = b /\ Committed(b)' = Committed(b) + req[r].amount
  BY <1>2 DEF DecisionsHold, DecisionOK, Creating, InsertPayment
<1> QED
  BY <1>1, <1>2, CommittedStep DEF RowsFit

\* What holds of the rows and of the request when requests come one at a time.
LEMMA AloneInvariant ==
    ASSUME OneAtATime
    PROVE  Spec => [](Inductive /\ RowsFit /\ DecisionsHold /\ NeverOverpaid)
<1>1. Init => RowsFit /\ DecisionsHold /\ NeverOverpaid
  BY AloneInit DEF Init, NeverOverpaid, PaymentsOf, Existing
<1>2. Inductive /\ RowsFit /\ DecisionsHold /\ NeverOverpaid /\ [Next]_vars
          => RowsFit' /\ DecisionsHold' /\ NeverOverpaid'
  <2> SUFFICES ASSUME Inductive, RowsFit, DecisionsHold, NeverOverpaid, [Next]_vars
               PROVE  RowsFit' /\ DecisionsHold' /\ NeverOverpaid'
    OBVIOUS
  <2>1. ASSUME NEW r \in Requests, Begin(r) \/ Continue(r) \/ Fail(r)
        PROVE  RowsFit' /\ DecisionsHold' /\ NeverOverpaid'
    BY <2>1, OneAtATime, RowsFitStep, DecisionStep, OverpaidStep
  <2>2. CASE UNCHANGED vars
    <3>1. UNCHANGED <<payment, req>>
      BY <2>2 DEF vars
    <3>2. /\ Existing' = Existing
          /\ \A b : /\ PaymentsOf(b)' = PaymentsOf(b) /\ Committed(b)' = Committed(b)
                    /\ TotalPaid(b)' = TotalPaid(b)
      BY <3>1, SumsUnchanged
    <3>3. RowsFit'
      BY <3>1, <3>2 DEF RowsFit, RowFits, Stamped
    <3>4. \A r \in Requests : StatusDue(r)' = StatusDue(r)
      BY <3>1, <3>2 DEF StatusDue
    <3>5. DecisionsHold'
      BY <3>1, <3>2, <3>4 DEF DecisionsHold, DecisionOK, Creating, Settling, Written, At
    <3>6. NeverOverpaid'
      BY <3>2 DEF NeverOverpaid
    <3> QED
      BY <3>3, <3>5, <3>6
  <2> QED
    BY <2>1, <2>2 DEF Next
<1> QED
  BY <1>1, <1>2, InductiveInvariant, PTL DEF Spec

\* One request at a time, whether or not it fails, the payments made for a booking
\* never add up to more than its price (the check of createPayment, two statements
\* before the insert).
THEOREM NeverOverpaidAlone == ASSUME OneAtATime PROVE Spec => []NeverOverpaid
BY AloneInvariant, OneAtATime, PTL

\* What the gateway returns is carried to the row, when nothing fails.
LEMMA LedgerStep ==
    ASSUME OneAtATime, Inductive, RowsFit, DecisionsHold, Ledger,
           NEW r \in Requests, Begin(r) \/ Continue(r)
    PROVE  Ledger'
<1> USE DEF Inductive
<1> SUFFICES ASSUME NEW p \in PaymentIds
             PROVE  /\ PaidOut(r, p)' => returned'[p] = Money(req'[r].amount)
                    /\ ~ PaidOut(r, p)' => returned'[p] = Money(Recorded(p)')
  BY DEF OneAtATime, Ledger
<1>0. /\ PaidOut(r, p) => returned[p] = Money(req[r].amount)
      /\ ~ PaidOut(r, p) => returned[p] = Money(Recorded(p))
  BY DEF OneAtATime, Ledger
<1>1. ASSUME ~ PaidOut(r, p), UNCHANGED <<payment, returned>>, ~ PaidOut(r, p)'
      PROVE  returned'[p] = Money(Recorded(p)')
  BY <1>0, <1>1 DEF Recorded, Existing
<1>2. CASE Begin(r)
  <2>1. UNCHANGED <<payment, returned>> /\ ~ PaidOut(r, p)
    BY <1>2 DEF Begin, BeginCreate, BeginProcess, BeginRefund, PaidOut, At, Idle
  <2>2. ~ PaidOut(r, p)'
    BY <1>2 DEF Begin, BeginCreate, BeginProcess, BeginRefund, Become, TypeOK, PaidOut, At
  <2> QED
    BY <1>1, <2>1, <2>2
<1>3. CASE InsertPayment(r)
  <2>1. UNCHANGED returned /\ ~ PaidOut(r, p) /\ req[r] \in Creations
    BY <1>3, Shapes DEF InsertPayment, PaidOut, At
  <2>2. ~ PaidOut(r, p)'
    <3>1. Finish(r) \/ At(r, "audit")'
      BY <1>3, <2>1, GotoMoves DEF InsertPayment, Moved
    <3> QED
      BY <3>1 DEF Finish, Become, TypeOK, Idle, PaidOut, At
  <2>3. Recorded(p)' = Recorded(p)
    <3>1. CASE UNCHANGED payment
      BY <3>1 DEF Recorded, Existing
    <3>2. CASE Added(r)
      BY <3>2, RowsExist DEF Added, OnlyRow, Recorded, Existing
    <3> QED
      BY <1>3, <3>1, <3>2, InsertRow
  <2> QED
    BY <1>0, <2>1, <2>2, <2>3
<1>4. CASE ProcessGatewayRefund(r)
  <2>1. /\ req[r] \in Settlements /\ req[r].op = "refund" /\ ~ PaidOut(r, p)
        /\ payment[req[r].id].status = "PAID" /\ req[r].id \in Existing
    BY <1>4, Shapes DEF ProcessGatewayRefund, RequestsOK, Settling, SettlementOK, DecisionsHold,
       DecisionOK, PaidOut, At
  <2>2. CASE Finish(r) /\ UNCHANGED <<payment, returned>>
    <3>1. ~ PaidOut(r, p)'
      BY <2>2 DEF Finish, Become, TypeOK, Idle, PaidOut, At
    <3> QED
      BY <1>1, <2>1, <2>2, <3>1
  <2>3. CASE /\ Goto(r, "write") /\ UNCHANGED payment
             /\ returned' = [returned EXCEPT ![req[r].id] = @ + Money(req[r].amount)]
    <3>1. Moved(r, "write")
      BY <2>1, <2>3, GotoMoves
    <3>2. PaidOut(r, p)' <=> req[r].id = p
      BY <2>1, <3>1 DEF Moved, PaidOut, At
    <3>3. CASE req[r].id = p
      <4>1. payment[p].refundAmount = 0
        BY <2>1, <3>3 DEF RowsFit, RowFits
      <4>2. returned[p] = 0
        BY <1>0, <2>1, <3>3, <4>1, MoneyMoved DEF Recorded
      <4>3. Money(req[r].amount) \in Nat
        BY <2>1, AmountsIntegers, MoneyMoved DEF Settlements
      <4> QED
        BY <2>3, <3>1, <3>2, <3>3, <4>2, <4>3 DEF Moved, TypeOK
    <3>4. CASE req[r].id # p
      <4>1. returned'[p] = returned[p] /\ Recorded(p)' = Recorded(p)
        BY <2>3, <3>4 DEF TypeOK, Recorded, Existing
      <4> QED
        BY <1>0, <2>1, <3>2, <3>4, <4>1
    <3> QED
      BY <3>3, <3>4
  <2> QED
    BY <1>4, <2>2, <2>3 DEF ProcessGatewayRefund
<1>5. CASE WritePaid(r)
  <2>1. /\ req[r] \in Settlements /\ Paid(r) /\ Goto(r, "total")
        /\ UNCHANGED returned /\ ~ PaidOut(r, p)
    BY <1>5, WriteRow DEF WritePaid, PaidOut
  <2>2. ~ PaidOut(r, p)'
    BY <2>1, GotoMoves DEF Moved, PaidOut, At
  <2>3. Recorded(p)' = Recorded(p)
    BY <2>1, RowsExist DEF Paid, SameRow, OnlyRow, Recorded, Existing
  <2> QED
    BY <1>0, <2>1, <2>2, <2>3
<1>6. CASE WriteRefunded(r)
  <2>1. /\ req[r] \in Settlements /\ Refunded(r) /\ Goto(r, "total")
        /\ UNCHANGED returned /\ (PaidOut(r, p) <=> req[r].id = p)
    BY <1>6, WriteRow DEF WriteRefunded, PaidOut
  <2>2. ~ PaidOut(r, p)'
    BY <2>1, GotoMoves DEF Moved, PaidOut, At
  <2>3. Recorded(p)' = IF req[r].id = p THEN req[r].amount ELSE Recorded(p)
    BY <2>1, RowsExist DEF Refunded, SameRow, OnlyRow, Recorded, Existing
  <2> QED
    BY <1>0, <2>1, <2>2, <2>3
<1>7. CASE GeneratePaymentNumber(r) \/ CalculateTotalPaid(r) \/ UpdateBooking(r) \/ LogAction(r)
  <2>1. UNCHANGED <<payment, returned>> /\ ~ PaidOut(r, p)
    BY <1>7 DEF GeneratePaymentNumber, CalculateTotalPaid, UpdateBooking, LogAction, PaidOut, At
  <2>2. ~ PaidOut(r, p)'
    <3>1. CASE GeneratePaymentNumber(r)
      BY <3>1, NumberStep DEF PaidOut, At
    <3>2. CASE CalculateTotalPaid(r)
      BY <3>2, TotalStep DEF PaidOut, At
    <3>3. CASE UpdateBooking(r) \/ LogAction(r)
      <4>1. Finish(r) \/ At(r, "audit")'
        BY <3>3, Shapes, GotoMoves DEF UpdateBooking, LogAction, Moved
      <4> QED
        BY <4>1 DEF Finish, Become, TypeOK, Idle, PaidOut, At
    <3> QED
      BY <1>7, <3>1, <3>2, <3>3
  <2> QED
    BY <1>1, <2>1, <2>2
<1> QED
  BY <1>2, <1>3, <1>4, <1>5, <1>6, <1>7 DEF Continue

\* The ledger is kept by every step when nothing fails.
LEMMA LedgerInvariant ==
    ASSUME OneAtATime, MayFail = FALSE
    PROVE  Spec => [](Inductive /\ RowsFit /\ DecisionsHold /\ Ledger)
<1>1. Init => Ledger
  BY AloneInit
<1>2. Inductive /\ RowsFit /\ DecisionsHold /\ Ledger /\ [Next]_vars => Ledger'
  <2> SUFFICES ASSUME Inductive, RowsFit, DecisionsHold, Ledger, [Next]_vars PROVE Ledger'
    OBVIOUS
  <2>1. CASE UNCHANGED vars
    BY <2>1 DEF vars, Ledger, PaidOut, Recorded, Existing, At
  <2>2. ASSUME NEW r \in Requests, Begin(r) \/ Continue(r) PROVE Ledger'
    BY <2>2, OneAtATime, LedgerStep
  <2> QED
    BY <2>1, <2>2, MayFail = FALSE DEF Next, Fail
<1> QED
  BY <1>1, <1>2, AloneInvariant, OneAtATime, PTL DEF Spec

\* One request at a time and none failing, the gateway gives back no more than the
\* payment, in all (the status check of refundPayment, before the gateway is called).
THEOREM ReturnedAlone ==
    ASSUME OneAtATime, MayFail = FALSE
    PROVE  Spec => []ReturnedAtMostPaid
<1>1. Inductive /\ RowsFit /\ DecisionsHold /\ Ledger => ReturnedAtMostPaid
  <2> SUFFICES ASSUME Inductive, RowsFit, Ledger, NEW p \in Existing, returned[p] > 0
               PROVE  returned[p] <= payment[p].amount
    BY DEF ReturnedAtMostPaid
  <2> USE DEF Inductive
  <2>1. payment[p].amount \in Int /\ payment[p].refundAmount \in Int /\ p \in PaymentIds
    BY Rows, AmountsIntegers DEF Payment
  <2>2. ASSUME NEW r \in Requests, PaidOut(r, p) PROVE returned[p] <= payment[p].amount
    <3>1. SettlementOK(r) /\ req[r] \in Settlements
      BY <2>2, Shapes DEF RequestsOK, Settling, PaidOut
    <3>2. req[r].amount \in Int /\ req[r].amount <= payment[p].amount
      BY <2>2, <3>1, AmountsIntegers DEF Settlements, SettlementOK, PaidOut
    <3>3. returned[p] = Money(req[r].amount)
      BY <2>1, <2>2 DEF Ledger
    <3> QED
      BY <3>2, <3>3, MoneyMoved
  <2>3. CASE \A r \in Requests : ~ PaidOut(r, p)
    <3>1. returned[p] = Money(payment[p].refundAmount)
      BY <2>1, <2>3 DEF Ledger, Recorded
    <3>2. returned[p] = payment[p].refundAmount
      BY <2>1, <3>1, MoneyMoved
    <3>3. Stamped(p, "refundedAt")
      BY <3>2 DEF RowsFit, RowFits
    <3> QED
      BY <3>2, <3>3 DEF RefundBacked
  <2> QED
    BY <2>2, <2>3
<1> QED
  BY <1>1, LedgerInvariant, OneAtATime, MayFail = FALSE, PTL

\* The money kept for a payment, in the states that requests one at a time leave it in.
LEMMA KeptOfPayment ==
    ASSUME Inductive, RowsFit, NEW p \in Existing
    PROVE  /\ Kept[p] \in Int
           /\ payment[p].status = "REFUNDED" => Kept[p] >= 0
           /\ payment[p].status = "PAID" => Kept[p] = payment[p].amount
           /\ payment[p].status = "PENDING" => Kept[p] = 0
           /\ payment[p].status \in {"PENDING", "PAID", "REFUNDED"}
           /\ payment[p].status = "REFUNDED" <=> Stamped(p, "refundedAt")
<1> USE DEF Inductive
<1>1. RowFits(p)
  BY DEF RowsFit
<1>2. payment[p].amount \in Int /\ payment[p].refundAmount \in Int
  BY Rows, AmountsIntegers DEF Payment
<1>3. payment[p].status = "PENDING" <=> ~ Stamped(p, "processedAt")
  BY DEF StatusBacked
<1>4. Stamped(p, "refundedAt") => payment[p].refundAmount <= payment[p].amount
  BY DEF RefundBacked
<1>5. Kept[p] = IF Stamped(p, "processedAt")
                THEN payment[p].amount - payment[p].refundAmount ELSE 0
  BY DEF Kept, Processed
<1> QED
  BY <1>1, <1>2, <1>3, <1>4, <1>5 DEF RowFits

\* What counts as paid is kept; before a refund it is all that is kept.
LEMMA PaidIsKept ==
    ASSUME Inductive, RowsFit, NEW b \in Bookings
    PROVE  /\ TotalPaid(b) \in Int /\ KeptFor(b) \in Int
           /\ TotalPaid(b) <= KeptFor(b)
           /\ (\A p \in PaymentsOf(b) : ~ Stamped(p, "refundedAt")) => TotalPaid(b) = KeptFor(b)
<1> DEFINE S == PaymentsOf(b)
           T == {p \in S : payment[p].status \in {"PAID", "PARTIAL"}}
           f == [p \in S |-> IF p \in T THEN AmountOf[p] ELSE 0]
<1>1. /\ IsFiniteSet(S)
      /\ \A p \in S : /\ p \in Existing /\ AmountOf[p] = payment[p].amount
                      /\ AmountOf[p] \in Int
  BY AmountsOfBooking DEF Inductive, RowsFit
<1>2. \A p \in S : /\ f[p] \in Int /\ Kept[p] \in Int /\ f[p] <= Kept[p]
                   /\ ~ Stamped(p, "refundedAt") => f[p] = Kept[p]
  BY <1>1, KeptOfPayment
<1>3. /\ \A p \in T : AmountOf[p] \in Int /\ f[p] = AmountOf[p]
      /\ \A p \in S \ T : f[p] = 0
      /\ T \in SUBSET S
  BY <1>1
<1>4. TotalPaid(b) = SumFunctionOnSet(AmountOf, T)
  BY DEF TotalPaid
<1>5. KeptFor(b) = SumFunctionOnSet(Kept, S)
  BY DEF KeptFor
<1> HIDE DEF S, T, f
<1>6. TotalPaid(b) = SumFunctionOnSet(f, S)
  BY <1>1, <1>3, <1>4, SumOfPart
<1>7. SumFunctionOnSet(f, S) \in Int /\ SumFunctionOnSet(Kept, S) \in Int
  BY <1>1, <1>2, SumInteger
<1>8. SumFunctionOnSet(f, S) <= SumFunctionOnSet(Kept, S)
  BY <1>1, <1>2, SumMonotone
<1>9. (\A p \in S : ~ Stamped(p, "refundedAt")) => SumFunctionOnSet(f, S) = SumFunctionOnSet(Kept, S)
  BY <1>1, <1>2, SumSame
<1> QED
  BY <1>5, <1>6, <1>7, <1>8, <1>9 DEF S

\* The status that a settlement computed fits the payments of its booking.
LEMMA DueFits ==
    ASSUME Inductive, RowsFit, DecisionsHold, NEW r \in Requests, UpdateBooking(r),
           NEW b \in Bookings, payment[req[r].id].booking = b
    PROVE  StatusFits(b)'
<1> DEFINE none == IF req[r].op = "refund" THEN "REFUNDED" ELSE "PENDING"
<1>1. /\ req[r] \in Settlements /\ SettlementOK(r) /\ At(r, "booking")
      /\ req[r].id \in Existing
  BY Shapes DEF UpdateBooking, Inductive, RequestsOK, Settling, SettlementOK
<1>2. req[r].id \in PaymentsOf(b)
  BY <1>1 DEF PaymentsOf
<1>3. req[r].amount \in Int /\ req[r].op \in {"process", "refund"}
  BY <1>1, AmountsIntegers DEF Settlements
<1>4. /\ payment' = payment
      /\ paymentStatus'[b] = StatusForTotal(TotalPaid(b) - req[r].amount, TotalPrice[b], none)
  BY <1>1, <1>2 DEF UpdateBooking, DecisionsHold, DecisionOK, StatusDue, Inductive, TypeOK
<1>5. /\ KeptFor(b)' = KeptFor(b)
      /\ PaymentsOf(b)' = PaymentsOf(b) /\ Processed' = Processed
      /\ \A p : Stamped(p, "refundedAt")' = Stamped(p, "refundedAt")
  BY <1>4, SumsUnchanged DEF Stamped
<1>6. /\ TotalPaid(b) \in Int /\ KeptFor(b) \in Int /\ TotalPaid(b) <= KeptFor(b)
      /\ (\A p \in PaymentsOf(b) : ~ Stamped(p, "refundedAt")) => TotalPaid(b) = KeptFor(b)
  BY <1>2, PaidIsKept
<1>7. TotalPrice[b] \in Int
  BY <1>2, PaymentsAssumption
<1>8. /\ req[r].op = "refund" => /\ Stamped(req[r].id, "refundedAt")
                                /\ payment[req[r].id].refundAmount = req[r].amount
      /\ req[r].op = "process" => req[r].amount = 0 /\ req[r].id \in Processed
  BY <1>1 DEF SettlementOK, Written, DecisionsHold, DecisionOK, Settling, Processed
<1>9. ASSUME \A p \in PaymentsOf(b) : payment[p].refundAmount >= 0
      PROVE  /\ paymentStatus'[b] = "PAID" => KeptFor(b) >= TotalPrice[b]
             /\ paymentStatus'[b] = "PARTIAL" => KeptFor(b) > 0
  <2>1. req[r].amount >= 0
    BY <1>2, <1>3, <1>8, <1>9
  <2> QED
    BY <1>3, <1>4, <1>6, <1>7, <2>1 DEF StatusForTotal
<1>10. ASSUME \A p \in PaymentsOf(b) : ~ Stamped(p, "refundedAt")
       PROVE  /\ PaymentsOf(b) \cap Processed # {}
              /\ paymentStatus'[b] = StatusForTotal(KeptFor(b), TotalPrice[b], "PENDING")
  <2>1. req[r].op = "process"
    BY <1>2, <1>3, <1>8, <1>10
  <2>2. TotalPaid(b) - req[r].amount = KeptFor(b) /\ none = "PENDING"
    BY <1>6, <1>8, <1>10, <2>1
  <2> QED
    BY <1>2, <1>4, <1>8, <2>1, <2>2
<1> QED
  BY <1>4, <1>5, <1>9, <1>10 DEF StatusFits

\* A booking whose payments keep their rows goes on to fit them.
LEMMA FitsOn ==
    ASSUME Inductive, RowsFit, NEW b \in Bookings, StatusFits(b),
           paymentStatus'[b] = paymentStatus[b], PaymentsOf(b)' = PaymentsOf(b),
           \A p \in PaymentsOf(b) : p \in Existing' /\ payment'[p] = payment[p]
    PROVE  StatusFits(b)'
<1>1. /\ IsFiniteSet(PaymentsOf(b))
      /\ \A p \in PaymentsOf(b) : p \in Existing
  BY AmountsOfBooking DEF Inductive, RowsFit
<1>2. \A p \in PaymentsOf(b) : /\ Kept'[p] = Kept[p]
                               /\ payment'[p].refundAmount = payment[p].refundAmount
                               /\ Stamped(p, "refundedAt")' = Stamped(p, "refundedAt")
                               /\ p \in Processed' <=> p \in Processed
  BY <1>1 DEF Kept, Processed, Stamped
<1>3. SumFunctionOnSet(Kept', PaymentsOf(b)) = SumFunctionOnSet(Kept, PaymentsOf(b))
  BY <1>1, <1>2, SumSame
<1>4. KeptFor(b)' = KeptFor(b)
  BY <1>3 DEF KeptFor
<1>5. (PaymentsOf(b) \cap Processed)' = PaymentsOf(b) \cap Processed
  BY <1>2
<1> QED
  BY <1>2, <1>4, <1>5 DEF StatusFits

\* A new payment changes nothing for its booking: nothing of it is paid yet.
LEMMA FitsNew ==
    ASSUME Inductive, RowsFit, NEW r \in Requests,
           InsertPayment(r), Added(r), NEW b \in Bookings, req[r].booking = b, StatusFits(b)
    PROVE  StatusFits(b)'
<1> DEFINE S == PaymentsOf(b)
           p == req[r].id
<1> USE DEF Inductive
<1>1. /\ IsFiniteSet(S) /\ p \notin Existing
      /\ \A x \in S : x \in Existing
  BY AmountsOfBooking DEF RowsFit, Added
<1>2. Existing' = Existing \cup {p} /\ \A x \in Existing : payment'[x] = payment[x]
  BY RowsExist DEF Added, OnlyRow, Existing
<1>3. /\ PaymentsOf(b)' = S \cup {p} /\ p \notin S
      /\ \A x \in S : /\ Kept'[x] = Kept[x]
                      /\ payment'[x].refundAmount = payment[x].refundAmount
                      /\ Stamped(x, "refundedAt")' = Stamped(x, "refundedAt")
                      /\ x \in Processed' <=> x \in Processed
      /\ Kept'[p] = 0 /\ p \notin Processed'
  BY <1>1, <1>2 DEF Added, PaymentsOf, Kept, Processed, Stamped
<1>4. \A x \in S : Kept[x] \in Int
  BY <1>1, KeptOfPayment
<1>5. KeptFor(b)' = KeptFor(b)
  <2>1. SumFunctionOnSet(Kept', S \cup {p}) = Kept'[p] + SumFunctionOnSet(Kept', S)
    <3>1. \A x \in S \cup {p} : Kept'[x] \in Int
      BY <1>3, <1>4
    <3> QED
      BY <1>1, <1>3, <3>1, SumAdd
  <2>2. SumFunctionOnSet(Kept', S) = SumFunctionOnSet(Kept, S)
    BY <1>1, <1>3, SumSame
  <2>3. SumFunctionOnSet(Kept, S) \in Int
    BY <1>1, <1>4, SumInteger
  <2> QED
    BY <1>3, <2>1, <2>2, <2>3 DEF KeptFor
<1>6. paymentStatus' = paymentStatus
  BY DEF InsertPayment
<1>7. (PaymentsOf(b) \cap Processed)' = S \cap Processed
  BY <1>3
<1> QED
  BY <1>3, <1>5, <1>6, <1>7 DEF StatusFits

\* A handler that writes a payment goes on to write its booking, when nothing fails.
LEMMA FitStep ==
    ASSUME OneAtATime, Inductive, RowsFit, DecisionsHold, StatusesFit,
           NEW r \in Requests, Begin(r) \/ Continue(r)
    PROVE  StatusesFit'
<1> USE DEF Inductive
<1> SUFFICES ASSUME NEW b \in Bookings, ~ (Written(r)' /\ payment'[req'[r].id].booking = b)
             PROVE  StatusFits(b)'
  BY DEF StatusesFit
<1>0. StatusFits(b) \/ (Written(r) /\ payment[req[r].id].booking = b)
  BY DEF StatusesFit, OneAtATime
<1>1. \A p \in PaymentsOf(b) : p \in Existing
  BY DEF PaymentsOf
<1>2. ASSUME StatusFits(b), UNCHANGED payment, paymentStatus'[b] = paymentStatus[b]
      PROVE  StatusFits(b)'
  <2>1. PaymentsOf(b)' = PaymentsOf(b) /\ Existing' = Existing
    BY <1>2, SumsUnchanged
  <2>2. \A p \in PaymentsOf(b) : p \in Existing' /\ payment'[p] = payment[p]
    BY <1>1, <1>2, <2>1
  <2> QED
    BY <1>2, <2>1, <2>2, FitsOn
<1>3. CASE Begin(r) \/ GeneratePaymentNumber(r) \/ ProcessGatewayRefund(r) \/ LogAction(r)
  <2>1. UNCHANGED <<payment, paymentStatus>> /\ ~ Written(r)
    <3>1. CASE Begin(r)
      BY <3>1 DEF Begin, BeginCreate, BeginProcess, BeginRefund, Written, At, Idle
    <3>2. CASE GeneratePaymentNumber(r) \/ ProcessGatewayRefund(r) \/ LogAction(r)
      BY <3>2 DEF GeneratePaymentNumber, ProcessGatewayRefund, LogAction, Written, At
    <3> QED
      BY <1>3, <3>1, <3>2
  <2> QED
    BY <1>0, <1>2, <2>1
<1>4. CASE InsertPayment(r)
  <2>1. paymentStatus' = paymentStatus /\ StatusFits(b)
    BY <1>0, <1>4 DEF InsertPayment, Written, At
  <2>2. CASE UNCHANGED payment
    BY <1>2, <2>1, <2>2
  <2>3. CASE Added(r) /\ req[r].booking = b
    BY <1>4, <2>1, <2>3, FitsNew
  <2>4. CASE Added(r) /\ req[r].booking # b
    <3>1. \A p \in Existing : payment'[p] = payment[p]
      BY <2>4 DEF Added, OnlyRow, Existing
    <3>2. Existing' = Existing \cup {req[r].id}
      BY <2>4, RowsExist DEF Added, OnlyRow, Existing
    <3>3. PaymentsOf(b)' = PaymentsOf(b)
      BY <2>4, <3>1, <3>2 DEF Added, PaymentsOf
    <3> QED
      BY <1>1, <2>1, <3>1, <3>2, <3>3, FitsOn
  <2> QED
    BY <1>4, <2>2, <2>3, <2>4, InsertRow
<1>5. CASE WritePaid(r) \/ WriteRefunded(r)
  <2> DEFINE p == req[r].id
  <2>1. /\ req[r] \in Settlements /\ Goto(r, "total")
        /\ p \in Existing /\ SameRow(p) /\ OnlyRow(p)
        /\ paymentStatus' = paymentStatus
    BY <1>5, WriteRow DEF WritePaid, WriteRefunded, Paid, Refunded
  <2>2. StatusFits(b)
    BY <1>0, <1>5 DEF WritePaid, WriteRefunded, Written, At
  <2>3. payment[p].booking # b
    <3>1. Written(r)' /\ req'[r].id = p
      BY <2>1, GotoMoves DEF Moved, Written
    <3> QED
      BY <2>1, <3>1 DEF SameRow
  <2>4. Existing' = Existing
    BY <2>1, RowsExist DEF SameRow, OnlyRow, Existing
  <2>5. \A x \in PaymentsOf(b) : x \in Existing' /\ payment'[x] = payment[x]
    BY <1>1, <2>1, <2>3, <2>4 DEF OnlyRow, PaymentsOf, Existing
  <2>6. PaymentsOf(b)' = PaymentsOf(b)
    BY <2>1, <2>3, <2>4 DEF SameRow, OnlyRow, PaymentsOf, Existing
  <2> QED
    BY <2>1, <2>2, <2>5, <2>6, FitsOn
<1>6. CASE CalculateTotalPaid(r)
  <2>1. UNCHANGED <<payment, paymentStatus>>
    BY <1>6 DEF CalculateTotalPaid
  <2>2. Written(r)' /\ req'[r].id = req[r].id
    BY <1>6, TotalStep DEF Written, At
  <2>3. StatusFits(b)
    BY <1>0, <2>1, <2>2
  <2> QED
    BY <1>2, <2>1, <2>3
<1>7. CASE UpdateBooking(r)
  <2>1. CASE payment[req[r].id].booking = b
    BY <1>7, <2>1, DueFits
  <2>2. CASE payment[req[r].id].booking # b
    <3>1. UNCHANGED payment /\ paymentStatus'[b] = paymentStatus[b]
      BY <1>7, <2>2 DEF UpdateBooking, TypeOK
    <3> QED
      BY <1>0, <1>2, <2>2, <3>1
  <2> QED
    BY <2>1, <2>2
<1> QED
  BY <1>3, <1>4, <1>5, <1>6, <1>7 DEF Continue

\* One request at a time and none failing, whatever the prices and the amounts, the
\* payment status of a booking never promises more than the money kept for it, refunds of
\* less than nothing apart, and before any refund it is exactly what its processed
\* payments give (the last two statements of processPayment and refundPayment).
THEOREM StatusAlone ==
    ASSUME OneAtATime, MayFail = FALSE
    PROVE  Spec => []StatusNotOverstated
<1>1. Init => StatusesFit
  BY DEF Init, StatusesFit, StatusFits, PaymentsOf, Existing
<1>2. Inductive /\ RowsFit /\ DecisionsHold /\ StatusesFit /\ [Next]_vars => StatusesFit'
  <2> SUFFICES ASSUME Inductive, RowsFit, DecisionsHold, StatusesFit, [Next]_vars
               PROVE  StatusesFit'
    OBVIOUS
  <2>1. CASE UNCHANGED vars
    <3>1. UNCHANGED <<payment, paymentStatus, req>>
      BY <2>1 DEF vars
    <3>2. /\ \A b : KeptFor(b)' = KeptFor(b) /\ PaymentsOf(b)' = PaymentsOf(b)
          /\ Processed' = Processed
      BY <3>1, SumsUnchanged
    <3>3. \A b : StatusFits(b)' <=> StatusFits(b)
      BY <3>1, <3>2 DEF StatusFits, Stamped
    <3>4. \A r \in Requests : Written(r)' <=> Written(r)
      BY <3>1 DEF Written, At
    <3> QED
      BY <3>1, <3>3, <3>4 DEF StatusesFit
  <2>2. ASSUME NEW r \in Requests, Begin(r) \/ Continue(r) PROVE StatusesFit'
    BY <2>2, OneAtATime, FitStep
  <2> QED
    BY <2>1, <2>2, MayFail = FALSE DEF Next, Fail
<1>3. StatusesFit => StatusNotOverstated
  BY DEF StatusesFit, StatusNotOverstated, StatusFits, Quiescent, Written, At, Idle
<1> QED
  BY <1>1, <1>2, <1>3, AloneInvariant, OneAtATime, PTL DEF Spec

\* The revenue in terms of the rows: what is PAID is received and not given back.
LEMMA RevenueOfRows ==
    ASSUME Inductive, RowsFit, Ledger, Quiescent
    PROVE  RevenueBacked
<1> USE DEF Inductive
<1> DEFINE S == Existing
           paid == PaymentsIn("PAID")
           settled == Processed
           revenue == [p \in S |-> IF p \in paid THEN AmountOf[p] ELSE 0]
           receipt == [p \in S |-> IF p \in settled THEN MoneyOf[p] ELSE 0]
           net == [p \in S |-> receipt[p] - returned[p]]
<1>1. IsFiniteSet(S)
  BY DEF RowsFit
<1>2. ASSUME NEW p \in S
      PROVE  /\ AmountOf[p] = payment[p].amount /\ AmountOf[p] \in Int
             /\ MoneyOf[p] = Money(AmountOf[p]) /\ MoneyOf[p] \in Nat
             /\ AmountOf[p] <= MoneyOf[p]
             /\ returned[p] = Money(payment[p].refundAmount) /\ returned[p] \in Nat
             /\ payment[p].refundAmount \in Int
  <2>1. /\ p \in PaymentIds
        /\ payment[p].amount \in Int /\ payment[p].refundAmount \in Int
    BY Rows, AmountsIntegers DEF Payment
  <2>2. \A r \in Requests : ~ PaidOut(r, p)
    BY DEF Quiescent, PaidOut, At, Idle
  <2> QED
    BY <2>1, <2>2, MoneyMoved DEF Ledger, Recorded, AmountOf, MoneyOf
<1>3. ASSUME NEW p \in S
      PROVE  /\ p \in paid => p \in settled /\ returned[p] = 0
             /\ p \in settled => returned[p] <= MoneyOf[p]
             /\ p \notin settled => returned[p] = 0
             /\ p \in settled /\ p \notin paid => payment[p].status = "REFUNDED"
  <2>1. RowFits(p) /\ (payment[p].status = "PENDING" <=> p \notin settled)
    BY DEF RowsFit, StatusBacked, Processed
  <2>2. Stamped(p, "refundedAt") => /\ p \in settled
                                    /\ payment[p].refundAmount <= payment[p].amount
    BY DEF RefundBacked, Processed
  <2>3. p \in paid <=> payment[p].status = "PAID"
    BY DEF PaymentsIn
  <2> HIDE DEF settled, paid
  <2>4. ~ Stamped(p, "refundedAt") => returned[p] = 0
    BY <1>2, <2>1, MoneyMoved DEF RowFits
  <2>5. Stamped(p, "refundedAt") => p \in settled /\ returned[p] <= MoneyOf[p]
    BY <1>2, <2>2, MoneyMoved
  <2> QED
    BY <1>2, <2>1, <2>3, <2>4, <2>5 DEF RowFits
<1>4. \A p \in S : /\ revenue[p] \in Int /\ receipt[p] \in Int /\ returned[p] \in Int
                   /\ net[p] \in Int /\ net[p] = receipt[p] - returned[p]
                   /\ revenue[p] <= net[p]
  BY <1>2, <1>3
<1>5. /\ paid \in SUBSET S /\ settled \in SUBSET S
      /\ \A p \in paid : AmountOf[p] \in Int /\ revenue[p] = AmountOf[p]
      /\ \A p \in S \ paid : revenue[p] = 0
      /\ \A p \in settled : MoneyOf[p] \in Int /\ receipt[p] = MoneyOf[p]
      /\ \A p \in S \ settled : receipt[p] = 0
  BY <1>2 DEF PaymentsIn, Processed
<1>6. PaymentStatistics.refundedPayments = 0 => paid = settled
  <2>1. IsFiniteSet(PaymentsIn("REFUNDED"))
    BY <1>1, FS_Subset DEF PaymentsIn
  <2>2. PaymentStatistics.refundedPayments = 0 => PaymentsIn("REFUNDED") = {}
    BY <2>1, FS_EmptySet DEF PaymentStatistics
  <2>3. \A p \in settled \ paid : p \in PaymentsIn("REFUNDED")
    BY <1>3, <1>5 DEF PaymentsIn
  <2>4. paid \subseteq settled
    BY <1>3, <1>5
  <2> QED
    BY <2>2, <2>3, <2>4
<1>7. PaymentStatistics.totalRevenue = SumFunctionOnSet(AmountOf, paid)
  BY DEF PaymentStatistics
<1>8. RevenueBacked <=>
          /\ PaymentStatistics.totalRevenue <=
                SumFunctionOnSet(MoneyOf, settled) - SumFunctionOnSet(returned, S)
          /\ PaymentStatistics.refundedPayments = 0 =>
                PaymentStatistics.totalRevenue = SumFunctionOnSet(AmountOf, settled)
  BY DEF RevenueBacked
<1> HIDE DEF S, paid, settled, revenue, receipt, net
<1>9. SumFunctionOnSet(AmountOf, paid) = SumFunctionOnSet(revenue, S)
  BY <1>1, <1>5, SumOfPart
<1>10. SumFunctionOnSet(MoneyOf, settled) = SumFunctionOnSet(receipt, S)
  BY <1>1, <1>5, SumOfPart
<1>11. SumFunctionOnSet(net, S) = SumFunctionOnSet(receipt, S) - SumFunctionOnSet(returned, S)
  BY <1>1, <1>4, SumMinus
<1>12. SumFunctionOnSet(revenue, S) <= SumFunctionOnSet(net, S)
  BY <1>1, <1>4, SumMonotone
<1> QED
  BY <1>6, <1>7, <1>8, <1>9, <1>10, <1>11, <1>12

\* One request at a time and none failing, the revenue figure of getPaymentStatistics is
\* backed by money between requests, and is all of it as long as nothing is refunded.
THEOREM RevenueAlone ==
    ASSUME OneAtATime, MayFail = FALSE
    PROVE  Spec => []RevenueBacked
<1>1. Inductive /\ RowsFit /\ DecisionsHold /\ Ledger => RevenueBacked
  BY RevenueOfRows DEF RevenueBacked
<1> QED
  BY <1>1, LedgerInvariant, OneAtATime, MayFail = FALSE, PTL
=============================================================================
