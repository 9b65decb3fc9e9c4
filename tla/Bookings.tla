------------------------------- MODULE Bookings -------------------------------
(***************************************************************************)
(* The booking service: the life of a booking from its creation to         *)
(* check-out or cancellation, with what each handler does to the status of *)
(* the room, to the housekeeping tasks and to the audit log.               *)
(*                                                                         *)
(* No handler uses a database transaction.  A request is therefore a       *)
(* process: it reads the rows it needs, decides, and then issues one       *)
(* statement after another; other requests, of the same server or of       *)
(* another instance, run between any two of them.  req[r] is what request  *)
(* r still has to do, with the locals it carries there.  One action is one *)
(* statement; the arrival of a request is one step with its first read,    *)
(* and a request that its first checks refuse changes nothing and takes no *)
(* step.                                                                   *)
(***************************************************************************)
EXTENDS Numbering, FiniteSets

CONSTANTS
    Requests,    \* requests that may be in progress at the same time
    Rooms,       \* rooms of the hotel
    BookingIds,  \* ids of the booking rows (bounds the bookings ever made)
    Dates,       \* check-in and check-out dates
    Unset,       \* a field the body of an update leaves out
    Calls,       \* the handlers that clients call (all of them, or fewer to bound a run)
    MayFail      \* whether a statement may fail or a server stop mid-request

\* enum BookingStatus; nothing writes its sixth value, REFUNDED.
BookingStatuses == {"PENDING", "CONFIRMED", "CHECKED_IN", "CHECKED_OUT", "CANCELLED"}

ASSUME BookingsAssumption == /\ Dates \subseteq Int
                             /\ Unset \notin Dates
                             /\ Unset \notin BookingStatuses
                             /\ MayFail \in BOOLEAN

VARIABLES
    booking,       \* the bookings table: a row or NoBooking for each id
    roomStatus,    \* rooms.status
    housekeeping,  \* the rooms that have had a housekeeping task created
    audit,         \* the audit log, as the set of its entries
    req            \* the requests in progress

vars == <<booking, roomStatus, housekeeping, audit, req>>

-------------------------------------------------------------------------------
(* Rows *)

\* The nullable timestamps of a booking; a row keeps the set of the non-null ones.
Milestones == {"confirmedAt", "checkedInAt", "checkedOutAt", "canceledAt"}

Booking == [status : BookingStatuses, room : Rooms, in : Dates, out : Dates,
            number : Nat, milestones : SUBSET Milestones]

NoBooking == [status |-> "NONE"]

\* The room statuses this service writes.
RoomStatuses == {"AVAILABLE", "RESERVED", "OCCUPIED"}

Existing == {b \in BookingIds : booking[b] # NoBooking}

Numbers == {booking[b].number : b \in Existing}

BookingsOf(room, statuses) ==
    {b \in Existing : booking[b].room = room /\ booking[b].status \in statuses}

-------------------------------------------------------------------------------
(* Decisions *)

\* validateStatusTransition
ValidTransitions ==
    [PENDING     |-> {"CONFIRMED", "CANCELLED"},
     CONFIRMED   |-> {"CHECKED_IN", "CANCELLED"},
     CHECKED_IN  |-> {"CHECKED_OUT"},
     CHECKED_OUT |-> {},
     CANCELLED   |-> {}]

\* The timestamps a write of this status sets.
Stamps(status) ==
    CASE status = "CONFIRMED"   -> {"confirmedAt"}
      [] status = "CHECKED_IN"  -> {"checkedInAt"}
      [] status = "CHECKED_OUT" -> {"checkedOutAt"}
      [] status = "CANCELLED"   -> {"canceledAt"}
      [] OTHER                  -> {}

\* Faulty: a room to be cleaned before it is AVAILABLE.
RoomStatusForCleaning(status) ==
    CASE status \in {"PENDING", "CONFIRMED"} -> "RESERVED"
      [] status = "CHECKED_IN"               -> "OCCUPIED"
      [] OTHER                               -> "CLEANING"

\* Faulty: a confirmation occupies the room.
RoomStatusForEager(status) ==
    CASE status = "PENDING"                     -> "RESERVED"
      [] status \in {"CONFIRMED", "CHECKED_IN"} -> "OCCUPIED"
      [] OTHER                                  -> "AVAILABLE"

\* Faulty: only a check-out frees the room.
RoomStatusForKept(status) ==
    CASE status = "CHECKED_IN"  -> "OCCUPIED"
      [] status = "CHECKED_OUT" -> "AVAILABLE"
      [] OTHER                  -> "RESERVED"

\* The status a handler gives the room after it wrote this booking status.
RoomStatusFor(status) ==
    CASE status \in {"PENDING", "CONFIRMED"} -> "RESERVED"
      [] status = "CHECKED_IN"               -> "OCCUPIED"
      [] OTHER                               -> "AVAILABLE"

\* Faulty: the guests already in the house are forgotten.
ConflictsConfirmed(room, in, out) ==
    {b \in BookingsOf(room, {"CONFIRMED"}) : booking[b].in < out /\ booking[b].out > in}

\* checkRoomAvailability: the rows its findMany returns.
Conflicts(room, in, out) ==
    {b \in BookingsOf(room, {"CONFIRMED", "CHECKED_IN"}) :
        \/ booking[b].in < out /\ booking[b].out > in
        \/ booking[b].in >= in /\ booking[b].in < out
        \/ booking[b].out > in /\ booking[b].out <= out}

\* Housekeeping columns that are required and have no default, those
\* triggerHousekeeping provides, and the row its create thus adds, if any.
RequiredColumns == {"roomId", "hotelId"}
ProvidedColumns == {"roomId", "status", "priority", "notes"}
CreatedTask(room) == IF RequiredColumns \subseteq ProvidedColumns THEN {room} ELSE {}

\* The action name a handler logs.  The entry also carries the new status.
AuditAction(op) ==
    CASE op = "create"   -> "BOOKING_CREATED"
      [] op = "update"   -> "BOOKING_UPDATED"
      [] op = "status"   -> "BOOKING_STATUS_UPDATED"
      [] op = "cancel"   -> "BOOKING_CANCELLED"
      [] op = "checkIn"  -> "GUEST_CHECKED_IN"
      [] OTHER           -> "GUEST_CHECKED_OUT"

AuditActions == {"BOOKING_CREATED", "BOOKING_UPDATED", "BOOKING_STATUS_UPDATED",
                 "BOOKING_CANCELLED", "GUEST_CHECKED_IN", "GUEST_CHECKED_OUT"}

AuditEntries == [action : AuditActions, id : BookingIds,
                 status : BookingStatuses \cup {Unset}]

AuditEntry(job) == [action |-> AuditAction(job.op), id |-> job.id,
                    status |-> IF job.op = "update" THEN Unset ELSE job.to]

-------------------------------------------------------------------------------
(* Requests *)

Idle == [op |-> "none", pc |-> "idle"]

\* createBooking before its insert.
Creations == [op : {"create"}, pc : {"availability", "number", "insert"},
              id : BookingIds, room : Rooms, in : Dates, out : Dates, number : Nat]

\* updateBooking
DateChanges == [op : {"update"}, pc : {"write", "audit"}, id : BookingIds,
                in : Dates \cup {Unset}, out : Dates \cup {Unset}]

\* A handler that gives the booking the status `to`: the four status handlers,
\* and createBooking once its row is inserted.
StatusChanges == [op : {"create", "status", "cancel", "checkIn", "checkOut"},
                  pc : {"write", "room", "housekeeping", "audit"},
                  id : BookingIds, room : Rooms, to : BookingStatuses]

RequestStates == {Idle} \cup Creations \cup DateChanges \cup StatusChanges

At(r, pc) == req[r].pc = pc
Become(r, state) == req' = [req EXCEPT ![r] = state]
Goto(r, pc) == Become(r, [req[r] EXCEPT !.pc = pc])
Finish(r) == Become(r, Idle)

\* Ids not taken by a row or by a creation in progress.
FreeIds == {b \in BookingIds \ Existing :
               \A r \in Requests : ~ (req[r] # Idle /\ req[r].id = b)}

Init == /\ booking = [b \in BookingIds |-> NoBooking]
        /\ roomStatus = [room \in Rooms |-> "AVAILABLE"]
        /\ housekeeping = {}
        /\ audit = {}
        /\ req = [r \in Requests |-> Idle]

-------------------------------------------------------------------------------
(* createBooking *)

\* The room is read; neither its status nor the order of the dates matters.
BeginCreate(r) ==
    /\ req[r] = Idle
    /\ \E id \in FreeIds, room \in Rooms, in \in Dates, out \in Dates :
          Become(r, [op |-> "create", pc |-> "availability", id |-> id,
                     room |-> room, in |-> in, out |-> out, number |-> 0])
    /\ UNCHANGED <<booking, roomStatus, housekeeping, audit>>

\* A conflict refuses the request, as does a failure of the query.
CheckRoomAvailability(r) ==
    /\ At(r, "availability")
    /\ IF Conflicts(req[r].room, req[r].in, req[r].out) = {}
       THEN Goto(r, "number")
       ELSE Finish(r)
    /\ UNCHANGED <<booking, roomStatus, housekeeping, audit>>

GenerateBookingNumber(r) ==
    /\ At(r, "number")
    /\ \E n \in DailyNumbers :
          /\ IsNextNumber(n, Numbers)
          /\ Become(r, [req[r] EXCEPT !.pc = "insert", !.number = n])
    /\ UNCHANGED <<booking, roomStatus, housekeeping, audit>>

\* Faulty: the number is not unique in the table.
InsertDuplicate(r) ==
    /\ At(r, "insert")
    /\ booking' = [booking EXCEPT ![req[r].id] =
                     [status |-> "PENDING", room |-> req[r].room,
                      in |-> req[r].in, out |-> req[r].out,
                      number |-> req[r].number, milestones |-> {}]]
    /\ Become(r, [op |-> "create", pc |-> "room", id |-> req[r].id,
                  room |-> req[r].room, to |-> "PENDING"])
    /\ UNCHANGED <<roomStatus, housekeeping, audit>>

\* bookingNumber is unique: the insert of a number already there is refused.
InsertBooking(r) ==
    /\ At(r, "insert")
    /\ IF req[r].number \in Numbers
       THEN /\ Finish(r)
            /\ UNCHANGED booking
       ELSE /\ booking' = [booking EXCEPT ![req[r].id] =
                             [status |-> "PENDING", room |-> req[r].room,
                              in |-> req[r].in, out |-> req[r].out,
                              number |-> req[r].number, milestones |-> {}]]
            /\ Become(r, [op |-> "create", pc |-> "room", id |-> req[r].id,
                          room |-> req[r].room, to |-> "PENDING"])
    /\ UNCHANGED <<roomStatus, housekeeping, audit>>

-------------------------------------------------------------------------------
(* updateBooking *)

\* Each new date is compared with the other date of the row that was read.
BeginUpdate(r) ==
    /\ req[r] = Idle
    /\ \E b \in Existing, in \in Dates \cup {Unset}, out \in Dates \cup {Unset} :
          /\ booking[b].status \notin {"CHECKED_IN", "CHECKED_OUT", "CANCELLED"}
          /\ in # Unset => in <= booking[b].out
          /\ out # Unset => out >= booking[b].in
          /\ Become(r, [op |-> "update", pc |-> "write", id |-> b,
                        in |-> in, out |-> out])
    /\ UNCHANGED <<booking, roomStatus, housekeeping, audit>>

OrElse(new, old) == IF new # Unset THEN new ELSE old

WriteDates(r) ==
    /\ At(r, "write") /\ req[r].op = "update"
    /\ booking' = [booking EXCEPT ![req[r].id].in  = OrElse(req[r].in, @),
                                  ![req[r].id].out = OrElse(req[r].out, @)]
    /\ Goto(r, "audit")
    /\ UNCHANGED <<roomStatus, housekeeping, audit>>

-------------------------------------------------------------------------------
(* updateBookingStatus, cancelBooking, checkInGuest, checkOutGuest *)

\* Faulty: the change is logged before it is made.
LogThenChange(r, op, b, to) ==
    /\ req[r] = Idle
    /\ Become(r, [op |-> op, pc |-> "write", id |-> b, room |-> booking[b].room, to |-> to])
    /\ audit' = audit \cup {[action |-> AuditAction(op), id |-> b, status |-> to]}
    /\ UNCHANGED <<booking, roomStatus, housekeeping>>

\* The request has read booking b and goes on to give it the status `to`.
BeginStatusChange(r, op, b, to) ==
    /\ req[r] = Idle
    /\ Become(r, [op |-> op, pc |-> "write", id |-> b, room |-> booking[b].room, to |-> to])
    /\ UNCHANGED <<booking, roomStatus, housekeeping, audit>>

BeginStatus(r) ==
    \E b \in Existing : \E to \in ValidTransitions[booking[b].status] :
        BeginStatusChange(r, "status", b, to)

BeginCancel(r) ==
    \E b \in Existing : /\ booking[b].status \notin {"CHECKED_IN", "CANCELLED"}
                        /\ BeginStatusChange(r, "cancel", b, "CANCELLED")

\* Faulty: an unconfirmed guest may check in.
BeginWalkIn(r) ==
    \E b \in Existing : /\ booking[b].status \in {"PENDING", "CONFIRMED"}
                        /\ BeginStatusChange(r, "checkIn", b, "CHECKED_IN")

BeginCheckIn(r) ==
    \E b \in Existing : /\ booking[b].status = "CONFIRMED"
                        /\ BeginStatusChange(r, "checkIn", b, "CHECKED_IN")

BeginCheckOut(r) ==
    \E b \in Existing : /\ booking[b].status = "CHECKED_IN"
                        /\ BeginStatusChange(r, "checkOut", b, "CHECKED_OUT")

\* Faulty: the other timestamps are cleared.
RewriteStatus(r) ==
    /\ At(r, "write") /\ req[r].op # "update"
    /\ booking' = [booking EXCEPT ![req[r].id].status = req[r].to,
                                  ![req[r].id].milestones = Stamps(req[r].to)]
    /\ Goto(r, "room")
    /\ UNCHANGED <<roomStatus, housekeeping, audit>>

\* The update does not look at the status again.
WriteStatus(r) ==
    /\ At(r, "write") /\ req[r].op # "update"
    /\ booking' = [booking EXCEPT ![req[r].id].status = req[r].to,
                                  ![req[r].id].milestones = @ \cup Stamps(req[r].to)]
    /\ Goto(r, "room")
    /\ UNCHANGED <<roomStatus, housekeeping, audit>>

UpdateRoom(r) ==
    /\ At(r, "room")
    /\ roomStatus' = [roomStatus EXCEPT ![req[r].room] = RoomStatusFor(req[r].to)]
    /\ Goto(r, IF req[r].to = "CHECKED_OUT" THEN "housekeeping" ELSE "audit")
    /\ UNCHANGED <<booking, housekeeping, audit>>

\* Faulty: the error of a rejected create ends the handler.
TriggerOrThrow(r) ==
    /\ At(r, "housekeeping")
    /\ housekeeping' = housekeeping \cup CreatedTask(req[r].room)
    /\ IF CreatedTask(req[r].room) = {} THEN Finish(r) ELSE Goto(r, "audit")
    /\ UNCHANGED <<booking, roomStatus, audit>>

\* A rejected create is caught and logged, and the handler goes on.
TriggerHousekeeping(r) ==
    /\ At(r, "housekeeping")
    /\ housekeeping' = housekeeping \cup CreatedTask(req[r].room)
    /\ Goto(r, "audit")
    /\ UNCHANGED <<booking, roomStatus, audit>>

-------------------------------------------------------------------------------
(* The end of every handler, and failures *)

LogAction(r) ==
    /\ At(r, "audit")
    /\ audit' = audit \cup {AuditEntry(req[r])}
    /\ Finish(r)
    /\ UNCHANGED <<booking, roomStatus, housekeeping>>

\* A statement throws, or the server stops: what is written stays written and
\* the rest of the handler does not happen.  At "audit" this is also
\* logAction swallowing its error.
Fail(r) ==
    /\ MayFail
    /\ req[r] # Idle
    /\ Finish(r)
    /\ UNCHANGED <<booking, roomStatus, housekeeping, audit>>

Begin(r) == \/ "create" \in Calls /\ BeginCreate(r)
            \/ "update" \in Calls /\ BeginUpdate(r)
            \/ "status" \in Calls /\ BeginStatus(r)
            \/ "cancel" \in Calls /\ BeginCancel(r)
            \/ "checkIn" \in Calls /\ BeginCheckIn(r)
            \/ "checkOut" \in Calls /\ BeginCheckOut(r)

Continue(r) == \/ CheckRoomAvailability(r)
               \/ GenerateBookingNumber(r)
               \/ InsertBooking(r)
               \/ WriteDates(r)
               \/ WriteStatus(r)
               \/ UpdateRoom(r)
               \/ TriggerHousekeeping(r)
               \/ LogAction(r)

Next == \E r \in Requests : Begin(r) \/ Continue(r) \/ Fail(r)

\* Clients may stop sending requests, but a request in progress is carried on.
Fairness == \A r \in Requests : WF_vars(Continue(r))

Spec == Init /\ [][Next]_vars /\ Fairness

-------------------------------------------------------------------------------
(* Properties *)

\* Every row and every request has the shape the code gives it.
TypeOK == /\ booking \in [BookingIds -> Booking \cup {NoBooking}]
          /\ roomStatus \in [Rooms -> RoomStatuses]
          /\ housekeeping \subseteq Rooms
          /\ audit \subseteq AuditEntries
          /\ req \in [Requests -> RequestStates]

\* The timestamps that must be there before a status is written.
Prerequisites(status) ==
    CASE status = "CHECKED_IN"  -> {"confirmedAt"}
      [] status = "CHECKED_OUT" -> {"checkedInAt"}
      [] OTHER                  -> {}

\* The two kinds of request in progress, and what each relies on.
Creating(r) == req[r].pc \in {"availability", "number", "insert"}
Changing(r) == req[r].pc \in {"write", "room", "housekeeping", "audit"}

CreationOK(r) ==
    /\ req[r].id \notin Existing
    /\ \A q \in Requests : Creating(q) /\ req[q].id = req[r].id => q = r
    /\ At(r, "insert") => /\ req[r].number \in DailyNumbers
                          /\ \A n \in 1 .. (req[r].number - 1) : n \in Numbers

ChangeOK(r) ==
    /\ req[r].id \in Existing
    /\ req[r].op # "update" =>
          /\ req[r].room = booking[req[r].id].room
          /\ IF At(r, "write")
             THEN Prerequisites(req[r].to) \subseteq booking[req[r].id].milestones
             ELSE Stamps(req[r].to) \subseteq booking[req[r].id].milestones

\* What a request carries stays true while others run: a creation keeps its id
\* to itself and its number has all its predecessors; the booking of any other
\* request exists, in the room it was read with; a check-in or check-out about
\* to be written has what must come before it, and one written has its timestamp.
RequestsOK == \A r \in Requests : /\ Creating(r) => CreationOK(r)
                                  /\ Changing(r) => ChangeOK(r)

Has(b, milestone) == milestone \in booking[b].milestones

\* The timestamps of a booking tell a possible history, whatever requests race
\* and wherever they stop: its status has its timestamp, nobody was checked in
\* without a confirmation nor checked out without a check-in.  The handlers
\* validate a status they read before an await and write after it.
HistoryOK ==
    \A b \in Existing :
        /\ Stamps(booking[b].status) \subseteq booking[b].milestones
        /\ Has(b, "checkedOutAt") => Has(b, "checkedInAt")
        /\ Has(b, "checkedInAt") => Has(b, "confirmedAt")

\* Whatever the creations race and however many of them fail, the booking
\* numbers of a day are distinct and are 1, 2, ... without a gap
\* (generateBookingNumber reads the last number some statements before the insert).
NumbersConsecutive ==
    /\ \A b, c \in Existing : booking[b].number = booking[c].number => b = c
    /\ Numbers \subseteq DailyNumbers
    /\ WithoutGaps(Numbers)

\* Once the number past the four digits is used, no booking is made any more
\* that day: every later creation generates that same number and is refused.
ExhaustedNumbersStop == [][(Overflow \in Numbers) => Existing' = Existing]_vars

\* A room is OCCUPIED only if a guest was checked in to it at some time, even
\* though the room is written a statement after the booking.
OccupiedWasCheckedIn ==
    \A room \in Rooms : roomStatus[room] = "OCCUPIED" =>
        \E b \in Existing : booking[b].room = room /\ Has(b, "checkedInAt")

\* What the audit log says happened did happen: the booking of an entry exists
\* and has the timestamp of the status that the entry reports, across failures
\* and later changes of the status (every handler logs after its writes).
AuditBacked ==
    \A entry \in audit :
        /\ entry.id \in Existing
        /\ Stamps(entry.status) \subseteq booking[entry.id].milestones

Quiescent == \A r \in Requests : req[r] = Idle

\* When no request is in progress, a room is OCCUPIED or RESERVED only on
\* account of a booking that is so now (the room updates at the end of every
\* handler that moves a booking).  The converse fails: the booking handled last decides.
RoomStatusExplained ==
    Quiescent => \A room \in Rooms :
        /\ roomStatus[room] = "OCCUPIED" => BookingsOf(room, {"CHECKED_IN"}) # {}
        /\ roomStatus[room] = "RESERVED" =>
              BookingsOf(room, {"PENDING", "CONFIRMED"}) # {}

\* The days of a stay.
Days(b) == {d \in Dates : booking[b].in <= d /\ d < booking[b].out}

\* No booking is admitted to a room for a day on which the room has a confirmed
\* or checked-in booking (createBooking after checkRoomAvailability).
NoOverlapAdmitted ==
    [][\A b \in Existing' \ Existing :
          \A c \in BookingsOf(booking'[b].room, {"CONFIRMED", "CHECKED_IN"}) :
              Days(b)' \cap Days(c) = {}]_vars

\* Recorded is logged in the end: for each timestamp of a booking there comes an
\* audit entry with the status it dates, as long as no statement fails
\* (logAction is the last statement of every handler).
RecordedIsLogged ==
    \A b \in BookingIds, m \in Milestones :
        (b \in Existing /\ Has(b, m)) ~>
            \E entry \in audit : entry.id = b /\ m \in Stamps(entry.status)

-------------------------------------------------------------------------------
(* What docs and comments claim, and the code does not keep *)

Occupying == {b \in Existing : booking[b].status \in {"CONFIRMED", "CHECKED_IN"}}

\* "No double booking": two confirmed or checked-in bookings of a room share no
\* day.  Two pending bookings are never compared, not even on confirmation.
NoDoubleBooking ==
    \A b, c \in Occupying :
        b # c /\ booking[b].room = booking[c].room => Days(b) \cap Days(c) = {}

-------------------------------------------------------------------------------
(* The abstract specification *)

EventOf ==
    [confirmedAt  |-> "confirmed", checkedInAt |-> "checkedIn",
     checkedOutAt |-> "checkedOut", canceledAt |-> "cancelled"]

\* A row is a recorded creation, a timestamp in it the event it dates.
RecordedEvents ==
    [b \in BookingIds |->
        IF booking[b] = NoBooking
        THEN {}
        ELSE {"created"} \cup {EventOf[m] : m \in booking[b].milestones}]

Lifecycle == INSTANCE BookingLifecycle WITH recorded <- RecordedEvents

\* The handlers, racing and failing, implement the promise of BookingLifecycle.
ImplementsLifecycle == Lifecycle!Spec
=============================================================================
