-------------------------------- MODULE Hotel --------------------------------
(***************************************************************************)
(* The booking service and the room service on the tables they share.  The *)
(* room service makes, changes and deletes the rooms; the booking service  *)
(* books them and writes their status.  Bookings and Rooms each model one  *)
(* service: here Bookings finds its room statuses in the rooms table, and  *)
(* Rooms finds the booked rooms in the bookings table.                     *)
(***************************************************************************)
EXTENDS Integers, Sequences, FiniteSets

CONSTANTS
    BookingRequests, RoomRequests,  \* requests to either service at the same time
    RoomIds, RoomNumbers,           \* as in Rooms
    BookingIds, Dates, SeqLimit,    \* as in Bookings
    NewStatuses, TaskStatuses, MaxTasks, Unset,
    BookingCalls, RoomCalls,        \* the handlers that clients call
    UndefinedInList, MayFail

VARIABLES
    room, totalRooms, task,      \* the tables of the room service
    booking, housekeeping,       \* those of the booking service
    roomAudit, bookingAudit,     \* what either wrote to the audit log
    roomReq, bookingReq,         \* the requests in progress
    failed,                      \* history: whether a request has failed
    marked                       \* history: the rooms whose status was last changed by a
                                 \* request to the room service

rooming == <<totalRooms, task, roomAudit, roomReq>>
bookings == <<booking, housekeeping, bookingAudit, bookingReq>>
vars == <<room, rooming, bookings, failed, marked>>

\* bookings.roomId, of every booking ever made: none is deleted.
Booked == {booking[b].room : b \in {c \in BookingIds : booking[c].status # "NONE"}}

R == INSTANCE Rooms
         WITH Requests <- RoomRequests, Calls <- RoomCalls \cup {"book"},
              booked <- Booked, audit <- roomAudit, req <- roomReq

\* rooms.status
StatusColumn ==
    [id \in RoomIds |-> IF id \in R!Existing THEN room[id].status ELSE "AVAILABLE"]

B == INSTANCE Bookings
         WITH Requests <- BookingRequests, Rooms <- RoomIds, Calls <- BookingCalls,
              roomStatus <- StatusColumn, audit <- bookingAudit, req <- bookingReq

\* What both services assume.
ASSUME HotelAssumption ==
    /\ NewStatuses \subseteq R!RoomStatuses
    /\ TaskStatuses \subseteq R!HousekeepingStatuses
    /\ MaxTasks \in Nat
    /\ Unset \notin RoomNumbers \cup R!RoomStatuses
    /\ Dates \subseteq Int
    /\ Unset \notin Dates
    /\ Unset \notin B!BookingStatuses
    /\ SeqLimit \in Nat /\ SeqLimit >= 1
    /\ UndefinedInList \in BOOLEAN
    /\ MayFail \in BOOLEAN

Init == /\ booking = [b \in BookingIds |-> [status |-> "NONE"]]
        /\ R!Init /\ B!Init
        /\ failed = FALSE
        /\ marked = {}

-------------------------------------------------------------------------------
(* The room service *)

\* The rooms whose status a step changes (a room that is not there counts as AVAILABLE).
Changed == {id \in RoomIds : StatusColumn'[id] # StatusColumn[id]}

RoomBegin(r) == UNCHANGED <<bookings, failed, marked>> /\ R!Begin(r)
RoomContinue(r) == /\ UNCHANGED <<bookings, failed>>
                   /\ R!Continue(r)
                   /\ marked' = marked \cup Changed
RoomFail(r) == /\ ~ failed /\ failed' = TRUE  \* one failure is enough (a bound)
               /\ UNCHANGED <<bookings, marked>>
               /\ R!Fail(r)

-------------------------------------------------------------------------------
(* The booking service *)

\* What a statement of the booking service may leave of the rooms table: it writes the
\* status of one room at most.
Rewritten == {room} \cup {[room EXCEPT ![id].status = status] :
                             id \in R!Existing, status \in R!RoomStatuses}

\* createBooking reads the room, and refuses the request when there is none.
BookingBegin(r) ==
    /\ room' = room
    /\ B!Begin(r)
    /\ bookingReq'[r].op = "create" => bookingReq'[r].room \in R!Existing
    /\ UNCHANGED <<rooming, failed, marked>>

\* Faulty: no foreign key.
HasAnyRoom(r) == TRUE

\* The insert of a booking is refused by the foreign key when its room has been
\* deleted since it was read.
HasRoom(r) == bookingReq[r].room \in R!Existing

BookingContinue(r) ==
    /\ IF B!At(r, "insert") /\ ~ HasRoom(r)
       THEN /\ B!Finish(r)
            /\ UNCHANGED <<room, booking, housekeeping, bookingAudit>>
       ELSE room' \in Rewritten /\ B!Continue(r)
    /\ marked' = marked \ Changed
    /\ UNCHANGED <<rooming, failed>>

BookingFail(r) == /\ ~ failed /\ failed' = TRUE
                  /\ room' = room
                  /\ B!Fail(r)
                  /\ UNCHANGED <<rooming, marked>>

-------------------------------------------------------------------------------
(* The specification *)

Next == \/ \E r \in RoomRequests : RoomBegin(r) \/ RoomContinue(r) \/ RoomFail(r)
        \/ \E r \in BookingRequests : BookingBegin(r) \/ BookingContinue(r) \/ BookingFail(r)

Fairness == /\ \A r \in RoomRequests : WF_vars(RoomContinue(r))
            /\ \A r \in BookingRequests : WF_vars(BookingContinue(r))

Spec == Init /\ [][Next]_vars /\ Fairness

-------------------------------------------------------------------------------
(* What is read of both tables *)

BookingsIn(status) == {b \in B!Existing : booking[b].status = status}
RoomsIn(status) == {id \in R!Existing : room[id].status = status}

\* The counts of a period that covers every booking; there are no prices here.
BookingStatistics ==
    [totalBookings     |-> Cardinality(B!Existing),
     confirmedBookings |-> Cardinality(BookingsIn("CONFIRMED")),
     checkedInBookings |-> Cardinality(BookingsIn("CHECKED_IN")),
     cancelledBookings |-> Cardinality(BookingsIn("CANCELLED"))]

RoomStatistics ==
    [totalRooms       |-> Cardinality(R!Existing),
     availableRooms   |-> Cardinality(RoomsIn("AVAILABLE")),
     occupiedRooms    |-> Cardinality(RoomsIn("OCCUPIED")),
     reservedRooms    |-> Cardinality(RoomsIn("RESERVED")),
     maintenanceRooms |-> Cardinality(RoomsIn("UNDER_MAINTENANCE"))]

\* The days a search is for: every pair of dates in their order.
Periods == {period \in [in : Dates, out : Dates] : period.in < period.out}

\* RoomStatus.CONFIRMED and RoomStatus.CHECKED_IN, which RoomStatus does not have.
SoughtStatuses == {Unset}

\* getUnavailableRoomIds.  Where a list with undefined in it is rejected, the error is
\* caught and the answer is an empty list too.
UnavailableRoomIds(period) ==
    {id \in RoomIds : \E b \in B!BookingsOf(id, SoughtStatuses) :
        \/ booking[b].in < period.out /\ booking[b].out > period.in
        \/ booking[b].in >= period.in /\ booking[b].in < period.out
        \/ booking[b].out > period.in /\ booking[b].out <= period.out}

\* checkRoomAvailability
Offered(period) ==
    {id \in R!Existing \ UnavailableRoomIds(period) : room[id].status = "AVAILABLE"}

-------------------------------------------------------------------------------
(* Properties *)

\* Every table and every request has the shape the code gives it; a room may have a
\* status that the booking service never writes.
TypeOK == /\ R!TypeOK
          /\ booking \in [BookingIds -> B!Booking \cup {B!NoBooking}]
          /\ housekeeping \subseteq RoomIds
          /\ bookingAudit \subseteq B!AuditEntries
          /\ bookingReq \in [BookingRequests -> B!RequestStates]
          /\ failed \in BOOLEAN
          /\ marked \subseteq RoomIds

\* Whatever the booking service does to the rooms is what Rooms expects of its
\* environment: it books rooms that exist and gives them one of three statuses.
ImplementsRooms == R!Init /\ [][R!Next]_R!vars

\* A booking is of a room that exists, though the room was read several statements
\* before the insert and may be deleted beside it.
BookingsHaveRooms == Booked \subseteq R!Existing

\* A timestamp of a booking is followed by its audit entry, whatever the room service
\* does to the room meanwhile, if no request fails.
RecordedIsLogged == []~failed => B!RecordedIsLogged

Quiescent == /\ \A r \in RoomRequests : roomReq[r] = R!Idle
             /\ \A r \in BookingRequests : bookingReq[r] = B!Idle

\* The figures of the two services fit when no request is in progress, those that came to
\* the booking service came one at a time, and none failed, whatever statuses clients give
\* the rooms meanwhile: the rooms counted are as many as the hotel's counter says, and but
\* for the rooms that a client was the last to mark, no more are occupied than bookings are
\* checked in, and none is held that no live booking could be for.
FiguresExplained ==
    Quiescent /\ ~ failed =>
        /\ RoomStatistics.totalRooms = totalRooms
        /\ RoomStatistics.occupiedRooms
              <= BookingStatistics.checkedInBookings + Cardinality(RoomsIn("OCCUPIED") \cap marked)
        /\ RoomStatistics.occupiedRooms + RoomStatistics.reservedRooms
              <= BookingStatistics.totalBookings - BookingStatistics.cancelledBookings
                 + Cardinality((RoomsIn("OCCUPIED") \cup RoomsIn("RESERVED")) \cap marked)

-------------------------------------------------------------------------------
(* What a comment claims, and the code does not keep *)

\* "Find rooms that are NOT booked during the requested period": no room is offered for
\* a day on which it has a confirmed or checked-in booking.
OfferedNotBooked ==
    \A period \in Periods : \A id \in Offered(period) :
        \A b \in B!BookingsOf(id, {"CONFIRMED", "CHECKED_IN"}) :
            \A day \in B!Days(b) : ~ (period.in <= day /\ day < period.out)
=============================================================================
