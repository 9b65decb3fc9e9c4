---------------------------- MODULE BookingsProofs ----------------------------
(***************************************************************************)
(* Proofs about the booking service, for any number of requests, rooms,    *)
(* bookings and dates.                                                     *)
(***************************************************************************)
EXTENDS Bookings, NumberingProofs

-------------------------------------------------------------------------------
(* What the bookings and the requests rest on, whatever becomes of the rooms *)

\* TypeOK but for the room statuses, which the room service writes as well.
RowsOK == /\ booking \in [BookingIds -> Booking \cup {NoBooking}]
          /\ housekeeping \subseteq Rooms
          /\ audit \subseteq AuditEntries
          /\ req \in [Requests -> RequestStates]

\* A request ends before its time: a failure, or a statement that is refused.
Stop(r) == /\ req[r] # Idle
           /\ Finish(r)
           /\ UNCHANGED <<booking, roomStatus, housekeeping, audit>>

Step(r) == Begin(r) \/ Continue(r) \/ Stop(r)

Sound == RowsOK /\ RequestsOK /\ HistoryOK /\ NumbersConsecutive

\* The shape of a request follows from its program counter.
LEMMA Shapes ==
    ASSUME RowsOK, NEW r \in Requests
    PROVE  /\ req[r] = Idle <=> req[r].pc = "idle"
           /\ Creating(r) => req[r] \in Creations
           /\ At(r, "write") /\ req[r].op = "update" => req[r] \in DateChanges
           /\ At(r, "write") /\ req[r].op # "update" => req[r] \in StatusChanges
           /\ At(r, "room") => req[r] \in StatusChanges
           /\ At(r, "housekeeping") => req[r] \in StatusChanges
           /\ At(r, "audit") => req[r] \in DateChanges \cup StatusChanges
<1>1. req[r] \in RequestStates
  BY DEF RowsOK
<1>2. CASE req[r] = Idle
  BY <1>2 DEF Idle, Creating, At
<1>3. CASE req[r] \in Creations
  BY <1>3 DEF Creations, Idle, Creating, At
<1>4. CASE req[r] \in DateChanges
  BY <1>4 DEF DateChanges, Idle, Creating, At
<1>5. CASE req[r] \in StatusChanges
  BY <1>5 DEF StatusChanges, Idle, Creating, At
<1> QED
  BY <1>1, <1>2, <1>3, <1>4, <1>5 DEF RequestStates

\* An existing booking has the fields of one.
LEMMA Rows ==
    ASSUME RowsOK, NEW b \in Existing
    PROVE  booking[b] \in Booking
BY DEF RowsOK, Existing

-------------------------------------------------------------------------------
(* Types *)

\* The empty tables and the idle requests have the types.
LEMMA TypeInit == Init => TypeOK /\ RowsOK
BY DEF Init, TypeOK, RowsOK, RequestStates, RoomStatuses

\* The steps that only change what one request still has to do.
LEMMA TypeBegin ==
    ASSUME RowsOK, NEW r \in Requests, Begin(r)
    PROVE  RowsOK'
<1>1. ASSUME BeginCreate(r) PROVE RowsOK'
  BY <1>1, SeqLimitAssumption DEF BeginCreate, FreeIds, Become, RowsOK, RequestStates, Creations
<1>2. ASSUME BeginUpdate(r) PROVE RowsOK'
  BY <1>2 DEF BeginUpdate, Existing, Become, RowsOK, RequestStates, DateChanges
<1>3. ASSUME NEW op \in {"status", "cancel", "checkIn", "checkOut"}, NEW b \in Existing,
             NEW to \in BookingStatuses, BeginStatusChange(r, op, b, to)
      PROVE  RowsOK'
  <2>1. booking[b] \in Booking
    BY Rows
  <2>2. [op |-> op, pc |-> "write", id |-> b, room |-> booking[b].room, to |-> to] \in RequestStates
    BY <2>1 DEF Existing, Booking, RequestStates, StatusChanges
  <2> QED
    BY <1>3, <2>2 DEF BeginStatusChange, Become, RowsOK
<1>4. ASSUME BeginStatus(r) PROVE RowsOK'
  <2>1. PICK b \in Existing : \E to \in ValidTransitions[booking[b].status] :
                BeginStatusChange(r, "status", b, to)
    BY <1>4 DEF BeginStatus
  <2>2. booking[b].status \in BookingStatuses
    BY Rows DEF Booking
  <2>3. ValidTransitions[booking[b].status] \subseteq BookingStatuses
    BY <2>2 DEF ValidTransitions, BookingStatuses
  <2> QED
    BY <1>3, <2>1, <2>3
<1>5. ASSUME BeginCancel(r) PROVE RowsOK'
  BY <1>3, <1>5 DEF BeginCancel, BookingStatuses
<1>6. ASSUME BeginCheckIn(r) PROVE RowsOK'
  BY <1>3, <1>6 DEF BeginCheckIn, BookingStatuses
<1>7. ASSUME BeginCheckOut(r) PROVE RowsOK'
  BY <1>3, <1>7 DEF BeginCheckOut, BookingStatuses
<1> QED
  BY <1>1, <1>2, <1>4, <1>5, <1>6, <1>7 DEF Begin

\* The step that gives a request its next statement.
LEMMA NextStatement ==
    ASSUME NEW job \in RequestStates, NEW pc,
           \/ job \in Creations /\ pc \in {"availability", "number", "insert"}
           \/ job \in DateChanges /\ pc \in {"write", "audit"}
           \/ job \in StatusChanges /\ pc \in {"write", "room", "housekeeping", "audit"}
    PROVE  [job EXCEPT !.pc = pc] \in RequestStates
BY DEF Creations, DateChanges, StatusChanges, RequestStates

\* Every status sets timestamps of a booking, if any.
LEMMA StampsType == \A status : Stamps(status) \in SUBSET Milestones
BY DEF Stamps, Milestones

\* The two writes to the table, each to a row that exists, field by
\* field.
LEMMA WriteStatusRow ==
    ASSUME RowsOK, RequestsOK, NEW r \in Requests, WriteStatus(r),
           NEW id, id = req[r].id
    PROVE  /\ req[r] \in StatusChanges
           /\ id \in Existing
           /\ booking' \in [BookingIds -> Booking \cup {NoBooking}]
           /\ \A b \in BookingIds \ {id} : booking'[b] = booking[b]
           /\ booking'[id] \in Booking
           /\ booking'[id].status = req[r].to
           /\ booking'[id].milestones = booking[id].milestones \cup Stamps(req[r].to)
           /\ booking'[id].room = booking[id].room
           /\ booking'[id].number = booking[id].number
           /\ booking'[id].in = booking[id].in
           /\ booking'[id].out = booking[id].out
<1>1. req[r] \in StatusChanges
  BY Shapes DEF WriteStatus
<1>2. id \in Existing
  BY DEF WriteStatus, RequestsOK, Changing, ChangeOK, At
<1>3. /\ id \in BookingIds
      /\ req[r].to \in BookingStatuses
      /\ booking[id] \in Booking
      /\ booking[id].milestones \cup Stamps(req[r].to) \in SUBSET Milestones
  BY <1>1, <1>2, Rows, StampsType DEF StatusChanges, Booking, Existing
<1>4. booking' = [booking EXCEPT ![id] =
                     [booking[id] EXCEPT !.status = req[r].to,
                         !.milestones = booking[id].milestones \cup Stamps(req[r].to)]]
  BY <1>3 DEF WriteStatus, RowsOK
<1>5. booking'[id] = [booking[id] EXCEPT !.status = req[r].to,
                         !.milestones = booking[id].milestones \cup Stamps(req[r].to)]
  BY <1>3, <1>4 DEF RowsOK
<1>6. /\ booking'[id] \in Booking
      /\ booking'[id].status = req[r].to
      /\ booking'[id].milestones = booking[id].milestones \cup Stamps(req[r].to)
      /\ booking'[id].room = booking[id].room
      /\ booking'[id].number = booking[id].number
      /\ booking'[id].in = booking[id].in
      /\ booking'[id].out = booking[id].out
  BY <1>3, <1>5 DEF Booking
<1>7. booking' \in [BookingIds -> Booking \cup {NoBooking}]
  BY <1>3, <1>4, <1>5, <1>6 DEF RowsOK
<1>8. \A b \in BookingIds \ {id} : booking'[b] = booking[b]
  BY <1>4 DEF RowsOK
<1> QED
  BY <1>1, <1>2, <1>6, <1>7, <1>8

\* The write of the dates leaves the rest of its row as it was.
LEMMA WriteDatesRow ==
    ASSUME RowsOK, RequestsOK, NEW r \in Requests, WriteDates(r),
           NEW id, id = req[r].id
    PROVE  /\ req[r] \in DateChanges
           /\ id \in Existing
           /\ booking' \in [BookingIds -> Booking \cup {NoBooking}]
           /\ \A b \in BookingIds \ {id} : booking'[b] = booking[b]
           /\ booking'[id] \in Booking
           /\ booking'[id].status = booking[id].status
           /\ booking'[id].milestones = booking[id].milestones
           /\ booking'[id].room = booking[id].room
           /\ booking'[id].number = booking[id].number
<1> DEFINE in == OrElse(req[r].in, booking[id].in)
           out == OrElse(req[r].out, booking[id].out)
<1>1. req[r] \in DateChanges
  BY Shapes DEF WriteDates
<1>2. id \in Existing
  BY DEF WriteDates, RequestsOK, Changing, ChangeOK, At
<1>3. booking[id] \in Booking
  BY <1>2, Rows
<1>4. id \in BookingIds /\ in \in Dates /\ out \in Dates
  BY <1>1, <1>3 DEF DateChanges, Booking, OrElse
<1>5. booking' = [booking EXCEPT ![id] = [booking[id] EXCEPT !.in = in, !.out = out]]
  BY <1>4 DEF WriteDates, RowsOK
<1> HIDE DEF in, out
<1>6. booking'[id] = [booking[id] EXCEPT !.in = in, !.out = out]
  BY <1>4, <1>5 DEF RowsOK
<1>7. /\ booking'[id] \in Booking
      /\ booking'[id].status = booking[id].status
      /\ booking'[id].milestones = booking[id].milestones
      /\ booking'[id].room = booking[id].room
      /\ booking'[id].number = booking[id].number
  BY <1>3, <1>4, <1>6 DEF Booking
<1>8. booking' \in [BookingIds -> Booking \cup {NoBooking}]
  BY <1>4, <1>5, <1>6, <1>7 DEF RowsOK
<1>9. \A b \in BookingIds \ {id} : booking'[b] = booking[b]
  BY <1>5 DEF RowsOK
<1> QED
  BY <1>1, <1>2, <1>7, <1>8, <1>9

\* The steps that issue a statement keep the types.
LEMMA TypeContinue ==
    ASSUME RowsOK, RequestsOK, NEW r \in Requests, Continue(r)
    PROVE  RowsOK'
<1> USE DEF At, Become, Goto, Finish
<1>0. Idle \in RequestStates /\ req[r] \in RequestStates
  BY DEF RequestStates, RowsOK
<1>1. CASE CheckRoomAvailability(r)
  <2>1. [req[r] EXCEPT !.pc = "number"] \in RequestStates
    BY <1>0, <1>1, Shapes, NextStatement DEF CheckRoomAvailability, Creating
  <2> QED
    BY <1>0, <1>1, <2>1 DEF CheckRoomAvailability, RowsOK
<1>2. CASE GenerateBookingNumber(r)
  <2>1. req[r] \in Creations
    BY <1>2, Shapes DEF GenerateBookingNumber, Creating
  <2>2. PICK n \in DailyNumbers : req' = [req EXCEPT ![r] = [req[r] EXCEPT !.pc = "insert", !.number = n]]
    BY <1>2 DEF GenerateBookingNumber
  <2>3. n \in Nat
    BY SeqLimitAssumption DEF DailyNumbers, Overflow
  <2>4. [req[r] EXCEPT !.pc = "insert", !.number = n] \in RequestStates
    BY <2>1, <2>3 DEF Creations, RequestStates
  <2> QED
    BY <1>2, <2>2, <2>4 DEF GenerateBookingNumber, RowsOK
<1>3. CASE InsertBooking(r)
  <2>1. req[r] \in Creations
    BY <1>3, Shapes DEF InsertBooking, Creating
  <2>2. [status |-> "PENDING", room |-> req[r].room, in |-> req[r].in, out |-> req[r].out,
         number |-> req[r].number, milestones |-> {}] \in Booking
    BY <2>1 DEF Creations, Booking, BookingStatuses
  <2>3. [op |-> "create", pc |-> "room", id |-> req[r].id, room |-> req[r].room,
         to |-> "PENDING"] \in RequestStates
    BY <2>1 DEF Creations, RequestStates, StatusChanges, BookingStatuses
  <2> QED
    BY <1>0, <1>3, <2>2, <2>3 DEF InsertBooking, RowsOK
<1>4. CASE WriteDates(r)
  <2>1. [req[r] EXCEPT !.pc = "audit"] \in RequestStates
    BY <1>0, <1>4, WriteDatesRow, NextStatement
  <2> QED
    BY <1>4, <2>1, WriteDatesRow DEF WriteDates, RowsOK
<1>5. CASE WriteStatus(r)
  <2>1. [req[r] EXCEPT !.pc = "room"] \in RequestStates
    BY <1>0, <1>5, WriteStatusRow, NextStatement
  <2> QED
    BY <1>5, <2>1, WriteStatusRow DEF WriteStatus, RowsOK
<1>6. CASE UpdateRoom(r)
  <2>1. req[r] \in StatusChanges
    BY <1>6, Shapes DEF UpdateRoom
  <2>2. \A pc \in {"housekeeping", "audit"} : [req[r] EXCEPT !.pc = pc] \in RequestStates
    BY <1>0, <2>1, NextStatement
  <2>3. req' \in [Requests -> RequestStates]
    BY <1>6, <2>2 DEF UpdateRoom, RowsOK
  <2> QED
    BY <1>6, <2>3 DEF UpdateRoom, RowsOK
<1>7. CASE TriggerHousekeeping(r)
  <2>1. req[r] \in StatusChanges
    BY <1>7, Shapes DEF TriggerHousekeeping
  <2>2. [req[r] EXCEPT !.pc = "audit"] \in RequestStates
    BY <1>0, <2>1, NextStatement
  <2>3. CreatedTask(req[r].room) \subseteq Rooms
    BY <2>1 DEF CreatedTask, StatusChanges
  <2> QED
    BY <1>7, <2>2, <2>3 DEF TriggerHousekeeping, RowsOK
<1>8. CASE LogAction(r)
  <2>1. req[r] \in DateChanges \cup StatusChanges
    BY <1>8, Shapes DEF LogAction
  <2>2. AuditEntry(req[r]) \in AuditEntries
    <3>1. AuditAction(req[r].op) \in AuditActions
      BY DEF AuditAction, AuditActions
    <3> QED
      BY <2>1, <3>1 DEF AuditEntry, AuditEntries, DateChanges, StatusChanges
  <2> QED
    BY <1>0, <1>8, <2>2 DEF LogAction, RowsOK
<1> QED
  BY <1>1, <1>2, <1>3, <1>4, <1>5, <1>6, <1>7, <1>8 DEF Continue

-------------------------------------------------------------------------------
(* What a step leaves alone *)

\* A request does not touch what the others carry.
LEMMA OthersUnchanged ==
    ASSUME RowsOK, NEW r \in Requests, Step(r),
           NEW q \in Requests \ {r}
    PROVE  req'[q] = req[q]
BY DEF Step, Begin, Continue, Stop, BeginCreate, BeginUpdate, BeginStatus, BeginCancel, BeginCheckIn,
       BeginCheckOut, BeginStatusChange, CheckRoomAvailability, GenerateBookingNumber,
       InsertBooking, WriteDates, WriteStatus, UpdateRoom, TriggerHousekeeping, LogAction,
       Become, Goto, Finish, RowsOK

\* Rows stay, in their room and with their number, and lose no timestamp; a row
\* that appears is the one its creation kept the id for.
Grows ==
    /\ Existing \subseteq Existing'
    /\ \A b \in Existing : /\ booking'[b].room = booking[b].room
                           /\ booking'[b].number = booking[b].number
                           /\ booking[b].milestones \subseteq booking'[b].milestones

NewOf(r) == \A b \in Existing' \ Existing : At(r, "insert") /\ b = req[r].id

\* Where the table is not written, no row changes and none is added.
LEMMA UnchangedGrows ==
    ASSUME UNCHANGED booking
    PROVE  Grows /\ Existing' = Existing
BY DEF Grows, Existing

\* The insert only adds the row its creation kept the id for.
LEMMA InsertGrows ==
    ASSUME RowsOK, RequestsOK, NEW r \in Requests, InsertBooking(r)
    PROVE  Grows /\ NewOf(r)
<1>1. CASE req[r].number \in Numbers
  BY <1>1, UnchangedGrows DEF InsertBooking, NewOf
<1>2. CASE req[r].number \notin Numbers
  <2>1. req[r].id \notin Existing
    BY DEF RequestsOK, CreationOK, Creating, InsertBooking, At
  <2>2. \A b \in BookingIds \ {req[r].id} : booking'[b] = booking[b]
    BY <1>2 DEF InsertBooking, RowsOK
  <2> QED
    BY <2>1, <2>2 DEF Grows, NewOf, Existing, InsertBooking
<1> QED
  BY <1>1, <1>2

\* The updates of a row add none and take nothing from it that Grows names.
LEMMA WriteGrows ==
    ASSUME RowsOK, RequestsOK, NEW r \in Requests, WriteDates(r) \/ WriteStatus(r)
    PROVE  Grows /\ Existing' = Existing
<1> DEFINE id == req[r].id
<1>1. /\ id \in Existing
      /\ \A b \in BookingIds \ {id} : booking'[b] = booking[b]
      /\ booking'[id] \in Booking
      /\ booking'[id].room = booking[id].room
      /\ booking'[id].number = booking[id].number
      /\ booking[id].milestones \subseteq booking'[id].milestones
  BY WriteDatesRow, WriteStatusRow
<1>2. booking'[id] # NoBooking
  BY <1>1 DEF Booking, NoBooking, BookingStatuses
<1> QED
  BY <1>1, <1>2 DEF Grows, Existing

\* No step of any request loses a row, its room, its number or a timestamp.
LEMMA StepGrows ==
    ASSUME RowsOK, RequestsOK, NEW r \in Requests, Step(r)
    PROVE  Grows /\ NewOf(r)
<1>1. CASE InsertBooking(r)
  BY <1>1, InsertGrows
<1>2. CASE WriteDates(r) \/ WriteStatus(r)
  BY <1>2, WriteGrows DEF NewOf
<1>3. CASE UNCHANGED booking
  BY <1>3, UnchangedGrows DEF NewOf
<1> QED
  BY <1>1, <1>2, <1>3 DEF Step, Begin, Continue, Stop, BeginCreate, BeginUpdate, BeginStatus,
     BeginCancel, BeginCheckIn, BeginCheckOut, BeginStatusChange, CheckRoomAvailability,
     GenerateBookingNumber, UpdateRoom, TriggerHousekeeping, LogAction

-------------------------------------------------------------------------------
(* What requests carry *)

\* Where each step takes its request.
LEMMA Counters ==
    ASSUME RowsOK, NEW r \in Requests
    PROVE  /\ BeginCreate(r) => At(r, "availability")'
           /\ BeginUpdate(r) => At(r, "write")'
           /\ \A op, b, to : BeginStatusChange(r, op, b, to) => At(r, "write")'
           /\ CheckRoomAvailability(r) => At(r, "number")' \/ At(r, "idle")'
           /\ GenerateBookingNumber(r) => At(r, "insert")'
           /\ InsertBooking(r) => At(r, "room")' \/ At(r, "idle")'
           /\ WriteDates(r) => At(r, "audit")'
           /\ WriteStatus(r) => At(r, "room")'
           /\ UpdateRoom(r) => At(r, "housekeeping")' \/ At(r, "audit")'
           /\ TriggerHousekeeping(r) => At(r, "audit")'
           /\ LogAction(r) => At(r, "idle")'
           /\ Stop(r) => At(r, "idle")'
<1> USE DEF At, Become, Goto, Finish
<1>1. \A job \in Creations \cup DateChanges \cup StatusChanges :
          \A pc : [job EXCEPT !.pc = pc].pc = pc
  BY DEF Creations, DateChanges, StatusChanges
<1>2. \A job \in Creations : \A n : [job EXCEPT !.pc = "insert", !.number = n].pc = "insert"
  BY DEF Creations
<1>3. BeginCreate(r) => At(r, "availability")'
  BY DEF BeginCreate, RowsOK
<1>4. BeginUpdate(r) => At(r, "write")'
  BY DEF BeginUpdate, RowsOK
<1>5. \A op, b, to : BeginStatusChange(r, op, b, to) => At(r, "write")'
  BY DEF BeginStatusChange, RowsOK
<1>6. CheckRoomAvailability(r) => At(r, "number")' \/ At(r, "idle")'
  <2>1. SUFFICES ASSUME CheckRoomAvailability(r) PROVE At(r, "number")' \/ At(r, "idle")'
    OBVIOUS
  <2>2. [req[r] EXCEPT !.pc = "number"].pc = "number"
    BY <1>1, <2>1, Shapes DEF CheckRoomAvailability, Creating
  <2>3. req'[r] = [req[r] EXCEPT !.pc = "number"] \/ req'[r] = Idle
    BY <2>1 DEF CheckRoomAvailability, RowsOK
  <2>4. Idle.pc = "idle"
    BY DEF Idle
  <2>5. req'[r].pc = "number" \/ req'[r].pc = "idle"
    BY <2>2, <2>3, <2>4
  <2> QED
    BY <2>5
<1>7. GenerateBookingNumber(r) => At(r, "insert")'
  BY <1>2, Shapes DEF GenerateBookingNumber, RowsOK, Creating
<1>8. InsertBooking(r) => At(r, "room")' \/ At(r, "idle")'
  BY DEF InsertBooking, RowsOK, Idle
<1>9. WriteDates(r) => At(r, "audit")'
  BY <1>1, Shapes DEF WriteDates, RowsOK
<1>10. WriteStatus(r) => At(r, "room")'
  BY <1>1, Shapes DEF WriteStatus, RowsOK
<1>11. UpdateRoom(r) => At(r, "housekeeping")' \/ At(r, "audit")'
  BY <1>1, Shapes DEF UpdateRoom, RowsOK
<1>12. TriggerHousekeeping(r) => At(r, "audit")'
  BY <1>1, Shapes DEF TriggerHousekeeping, RowsOK
<1>13. LogAction(r) => At(r, "idle")'
  BY DEF LogAction, RowsOK, Idle
<1>14. Stop(r) => At(r, "idle")'
  BY DEF Stop, RowsOK, Idle
<1> QED
  BY <1>3, <1>4, <1>5, <1>6, <1>7, <1>8, <1>9, <1>10, <1>11, <1>12, <1>13, <1>14

\* A creation under way keeps the id it had, or starts with a free one.
LEMMA CreationKeepsId ==
    ASSUME RowsOK, RequestsOK, NEW r \in Requests, Step(r),
           Creating(r)'
    PROVE  /\ req'[r].id \notin Existing
           /\ UNCHANGED booking
           /\ \/ Creating(r) /\ req'[r].id = req[r].id
              \/ req'[r].id \in FreeIds
<1>1. CASE BeginCreate(r)
  <2>1. PICK id \in FreeIds, room \in Rooms, in \in Dates, out \in Dates :
            req' = [req EXCEPT ![r] = [op |-> "create", pc |-> "availability", id |-> id,
                                       room |-> room, in |-> in, out |-> out, number |-> 0]]
    BY <1>1 DEF BeginCreate, Become
  <2>2. req'[r].id = id
    BY <2>1 DEF RowsOK
  <2> QED
    BY <1>1, <2>2 DEF BeginCreate, FreeIds
<1>2. CASE CheckRoomAvailability(r) \/ GenerateBookingNumber(r)
  <2>1. Creating(r) /\ req[r] \in Creations
    BY <1>2, Shapes DEF CheckRoomAvailability, GenerateBookingNumber, Creating, At
  <2>2. req'[r].id = req[r].id \/ req'[r] = Idle
    BY <1>2, <2>1
       DEF CheckRoomAvailability, GenerateBookingNumber, Become, Goto, Finish, RowsOK, Creations
  <2>3. req'[r] # Idle
    BY DEF Creating, Idle
  <2> QED
    BY <1>2, <2>1, <2>2, <2>3
       DEF RequestsOK, CreationOK, CheckRoomAvailability, GenerateBookingNumber
<1> QED
  BY <1>1, <1>2, Counters
     DEF Creating, At, Step, Begin, BeginStatus, BeginCancel, BeginCheckIn, BeginCheckOut, Continue

\* What others carry survives the step of a request.
LEMMA OthersOK ==
    ASSUME RowsOK, RequestsOK, NEW r \in Requests, Step(r),
           NEW q \in Requests \ {r}
    PROVE  /\ Creating(q)' => CreationOK(q)'
           /\ Changing(q)' => ChangeOK(q)'
<1>1. /\ req'[q] = req[q]
      /\ Grows /\ NewOf(r)
  BY OthersUnchanged, StepGrows
<1>2. ASSUME Creating(q)' PROVE CreationOK(q)'
  <2>1. Creating(q) /\ CreationOK(q)
    BY <1>1, <1>2 DEF Creating, RequestsOK
  <2>2. req[q].id \notin Existing'
    BY <1>1, <2>1 DEF NewOf, CreationOK, Creating, At
  <2>3. \A o \in Requests : Creating(o)' /\ req'[o].id = req[q].id => o = q
    <3>1. SUFFICES ASSUME Creating(r)', req'[r].id = req[q].id PROVE FALSE
      BY <2>1, OthersUnchanged DEF CreationOK, Creating
    <3>2. CASE Creating(r) /\ req'[r].id = req[r].id
      BY <2>1, <3>1, <3>2 DEF CreationOK
    <3>3. CASE req'[r].id \in FreeIds
      BY <2>1, <3>1, <3>3 DEF FreeIds, Creating, Idle
    <3> QED
      BY <3>1, <3>2, <3>3, CreationKeepsId
  <2>4. Numbers \subseteq Numbers'
    BY <1>1 DEF Numbers, Grows
  <2> QED
    BY <1>1, <2>1, <2>2, <2>3, <2>4 DEF CreationOK, At, Creating
<1>3. ASSUME Changing(q)' PROVE ChangeOK(q)'
  <2>1. Changing(q) /\ ChangeOK(q)
    BY <1>1, <1>3 DEF Changing, RequestsOK
  <2> QED
    BY <1>1, <2>1 DEF ChangeOK, Grows, At
<1> QED
  BY <1>2, <1>3

\* The step of a creation leaves it with an id of its own and, once it has a
\* number, with one whose predecessors are in use.
LEMMA OwnCreationOK ==
    ASSUME Sound, NEW r \in Requests, Step(r), Creating(r)'
    PROVE  CreationOK(r)'
<1> USE DEF Sound
<1>1. /\ req'[r].id \notin Existing'
      /\ UNCHANGED booking
  BY CreationKeepsId, UnchangedGrows
<1>2. \A q \in Requests : Creating(q)' /\ req'[q].id = req'[r].id => q = r
  <2>1. SUFFICES ASSUME NEW q \in Requests \ {r}, Creating(q), req[q].id = req'[r].id
                 PROVE  FALSE
    BY OthersUnchanged DEF Creating
  <2>2. CASE Creating(r) /\ req'[r].id = req[r].id
    BY <2>1, <2>2 DEF RequestsOK, CreationOK
  <2>3. CASE req'[r].id \in FreeIds
    BY <2>1, <2>3 DEF FreeIds, Creating, Idle
  <2> QED
    BY <2>2, <2>3, CreationKeepsId
<1>3. ASSUME At(r, "insert")'
      PROVE  /\ req'[r].number \in DailyNumbers
             /\ \A n \in 1 .. (req'[r].number - 1) : n \in Numbers'
  <2>1. GenerateBookingNumber(r)
    BY <1>3, Counters
       DEF At, Step, Begin, BeginStatus, BeginCancel, BeginCheckIn, BeginCheckOut, Continue
  <2>2. req[r] \in Creations
    BY <2>1, Shapes DEF GenerateBookingNumber, At, Creating
  <2>3. PICK n \in DailyNumbers :
            /\ IsNextNumber(n, Numbers)
            /\ req' = [req EXCEPT ![r] = [req[r] EXCEPT !.pc = "insert", !.number = n]]
    BY <2>1 DEF GenerateBookingNumber, Become
  <2>4. req'[r].number = n
    BY <2>2, <2>3 DEF RowsOK, Creations
  <2>5. \A m \in 1 .. (n - 1) : m \in Numbers
    BY <2>3, NextNumberHasPredecessors DEF NumbersConsecutive
  <2>6. Numbers' = Numbers
    BY <1>1 DEF Numbers, Existing
  <2> QED
    BY <2>3, <2>4, <2>5, <2>6
<1> QED
  BY <1>1, <1>2, <1>3 DEF CreationOK

\* The step of any other handler leaves it with a booking that exists and has
\* the timestamps the rest of the handler counts on.
LEMMA OwnChangeOK ==
    ASSUME Sound, NEW r \in Requests, Step(r), Changing(r)'
    PROVE  ChangeOK(r)'
<1> USE DEF Sound
<1>1. Grows
  BY StepGrows
<1>2. CASE BeginUpdate(r)
  <2>1. PICK b \in Existing : req'[r].op = "update" /\ req'[r].id = b
    BY <1>2 DEF BeginUpdate, Become, RowsOK
  <2> QED
    BY <1>1, <2>1 DEF ChangeOK, Grows
<1>3. ASSUME NEW op, NEW b \in Existing, NEW to, BeginStatusChange(r, op, b, to),
             Prerequisites(to) \subseteq Stamps(booking[b].status)
      PROVE  ChangeOK(r)'
  <2>1. /\ req'[r].id = b /\ req'[r].room = booking[b].room
        /\ req'[r].to = to /\ At(r, "write")'
        /\ booking' = booking
    BY <1>3 DEF BeginStatusChange, Become, RowsOK, At
  <2>2. Prerequisites(to) \subseteq booking[b].milestones
    BY <1>3 DEF HistoryOK
  <2> QED
    BY <1>1, <2>1, <2>2 DEF ChangeOK, Grows
<1>4. CASE BeginStatus(r)
  <2>0. PICK b \in Existing : \E to \in ValidTransitions[booking[b].status] :
                BeginStatusChange(r, "status", b, to)
    BY <1>4 DEF BeginStatus
  <2>1. PICK to \in ValidTransitions[booking[b].status] : BeginStatusChange(r, "status", b, to)
    BY <2>0
  <2>2. booking[b].status \in BookingStatuses
    BY Rows DEF Booking
  <2>3. Prerequisites(to) \subseteq Stamps(booking[b].status)
    BY <2>2 DEF ValidTransitions, Prerequisites, Stamps, BookingStatuses
  <2> QED
    BY <1>3, <2>1, <2>3
<1>5. CASE BeginCancel(r)
  BY <1>3, <1>5 DEF BeginCancel, Prerequisites
<1>6. CASE BeginCheckIn(r)
  BY <1>3, <1>6 DEF BeginCheckIn, Prerequisites, Stamps
<1>7. CASE BeginCheckOut(r)
  BY <1>3, <1>7 DEF BeginCheckOut, Prerequisites, Stamps
<1>8. CASE InsertBooking(r)
  <2>1. req[r] \in Creations
    BY <1>8, Shapes DEF InsertBooking, Creating, At
  <2>2. req[r].number \notin Numbers
    BY <1>8 DEF InsertBooking, Finish, Become, RowsOK, Idle, Changing
  <2>3. /\ req'[r].id = req[r].id /\ req'[r].room = req[r].room /\ req'[r].to = "PENDING"
        /\ ~ At(r, "write")'
    BY <1>8, <2>2 DEF InsertBooking, Become, RowsOK, At
  <2>4. /\ req[r].id \in Existing'
        /\ booking'[req[r].id].room = req[r].room
    BY <1>8, <2>1, <2>2 DEF InsertBooking, RowsOK, Creations, Existing, NoBooking
  <2> QED
    BY <2>3, <2>4 DEF ChangeOK, Stamps
<1>9. CASE WriteDates(r)
  <2>1. /\ req[r] \in DateChanges
        /\ req[r].id \in Existing
    BY <1>9, WriteDatesRow
  <2>2. req'[r].op = "update" /\ req'[r].id = req[r].id
    BY <1>9, <2>1 DEF WriteDates, Goto, Become, RowsOK, DateChanges
  <2> QED
    BY <1>1, <2>1, <2>2 DEF ChangeOK, Grows
<1>10. CASE WriteStatus(r)
  <2>0. /\ req[r] \in StatusChanges
        /\ req[r].id \in Existing
        /\ booking'[req[r].id].milestones = booking[req[r].id].milestones \cup Stamps(req[r].to)
    BY <1>10, WriteStatusRow
  <2>1. /\ req[r] \in StatusChanges
        /\ req[r].id \in Existing
        /\ req[r].op # "update"
        /\ Stamps(req[r].to) \subseteq booking'[req[r].id].milestones
    BY <2>0 DEF StatusChanges
  <2>2. /\ req'[r].op = req[r].op /\ req'[r].id = req[r].id
        /\ req'[r].room = req[r].room /\ req'[r].to = req[r].to
    BY <1>10, <2>1 DEF WriteStatus, Goto, Become, RowsOK, StatusChanges
  <2>3. req[r].room = booking[req[r].id].room
    BY <1>10, <2>1 DEF WriteStatus, At, RequestsOK, Changing, ChangeOK
  <2>4. ~ At(r, "write")'
    BY <1>10, Counters DEF At
  <2> QED
    BY <1>1, <2>1, <2>2, <2>3, <2>4 DEF ChangeOK, Grows
<1>11. CASE UpdateRoom(r) \/ TriggerHousekeeping(r)
  <2>1. req[r] \in StatusChanges
    BY <1>11, Shapes DEF UpdateRoom, TriggerHousekeeping
  <2>2. /\ req'[r].op = req[r].op /\ req'[r].id = req[r].id
        /\ req'[r].room = req[r].room /\ req'[r].to = req[r].to
    BY <1>11, <2>1 DEF UpdateRoom, TriggerHousekeeping, Goto, Become, RowsOK, StatusChanges
  <2>3. ChangeOK(r) /\ ~ At(r, "write")
    BY <1>11 DEF UpdateRoom, TriggerHousekeeping, At, RequestsOK, Changing
  <2>4. ~ At(r, "write")'
    BY <1>11, Counters DEF At
  <2> QED
    BY <1>1, <2>2, <2>3, <2>4 DEF ChangeOK, Grows
<1> QED
  BY <1>2, <1>4, <1>5, <1>6, <1>7, <1>8, <1>9, <1>10, <1>11, Counters
     DEF Changing, At, Step, Begin, Continue

\* RequestsOK is kept by every step of every request.
LEMMA RequestsStep ==
    ASSUME Sound, NEW r \in Requests, Step(r)
    PROVE  RequestsOK'
<1>1. /\ Creating(r)' => CreationOK(r)'
      /\ Changing(r)' => ChangeOK(r)'
  BY OwnCreationOK, OwnChangeOK
<1>2. \A q \in Requests \ {r} : /\ Creating(q)' => CreationOK(q)'
                                /\ Changing(q)' => ChangeOK(q)'
  BY OthersOK DEF Sound
<1> QED
  BY <1>1, <1>2 DEF RequestsOK

-------------------------------------------------------------------------------
(* The inductive invariant *)

\* A row's timestamps stay a possible history: the write of a status brings the
\* timestamp of that status, to a row that has what must come before it.
LEMMA HistoryStep ==
    ASSUME Sound, NEW r \in Requests, Step(r)
    PROVE  HistoryOK'
<1> USE DEF Sound
<1> DEFINE RowOK(row) == /\ Stamps(row.status) \subseteq row.milestones
                         /\ "checkedOutAt" \in row.milestones => "checkedInAt" \in row.milestones
                         /\ "checkedInAt" \in row.milestones => "confirmedAt" \in row.milestones
<1>0. \A b \in Existing : RowOK(booking[b])
  BY DEF HistoryOK, Has
<1>1. SUFFICES \A b \in Existing' : RowOK(booking'[b])
  BY DEF HistoryOK, Has
<1>2. CASE InsertBooking(r)
  <2>1. SUFFICES ASSUME NEW b \in Existing', booking'[b] # booking[b] PROVE RowOK(booking'[b])
    BY <1>0 DEF Existing
  <2>2. req[r].id \in BookingIds
    BY <1>2, Shapes DEF InsertBooking, At, Creating, Creations
  <2>3. booking'[b].status = "PENDING"
    BY <1>2, <2>1, <2>2 DEF InsertBooking, RowsOK, Existing
  <2>4. booking'[b].milestones = {}
    BY <1>2, <2>1, <2>2 DEF InsertBooking, RowsOK, Existing
  <2> QED
    BY <2>3, <2>4 DEF Stamps
<1>3. CASE WriteDates(r)
  <2>1. /\ req[r].id \in Existing
        /\ \A b \in BookingIds \ {req[r].id} : booking'[b] = booking[b]
        /\ booking'[req[r].id].status = booking[req[r].id].status
        /\ booking'[req[r].id].milestones = booking[req[r].id].milestones
    BY <1>3, WriteDatesRow
  <2> QED
    BY <1>0, <2>1 DEF Existing
<1>4. CASE WriteStatus(r)
  <2> DEFINE id == req[r].id
             to == req[r].to
  <2>1. /\ req[r] \in StatusChanges
        /\ id \in Existing
        /\ \A b \in BookingIds \ {id} : booking'[b] = booking[b]
        /\ booking'[id].status = to
        /\ booking'[id].milestones = booking[id].milestones \cup Stamps(to)
    BY <1>4, WriteStatusRow
  <2>2. Prerequisites(to) \subseteq booking[id].milestones
    BY <1>4, <2>1 DEF WriteStatus, RequestsOK, Changing, ChangeOK, At
  <2>3. RowOK(booking[id])
    BY <1>0, <2>1
  <2>4. /\ "checkedOutAt" \in Stamps(to) => Prerequisites(to) = {"checkedInAt"}
        /\ "checkedInAt" \in Stamps(to) => Prerequisites(to) = {"confirmedAt"}
    BY DEF Stamps, Prerequisites
  <2>5. RowOK(booking'[id])
    <3> HIDE DEF id, to
    <3> QED
      BY <2>1, <2>2, <2>3, <2>4
  <2> QED
    BY <1>0, <2>1, <2>5 DEF Existing
<1>5. CASE UNCHANGED booking
  BY <1>0, <1>5 DEF Existing
<1> QED
  BY <1>2, <1>3, <1>4, <1>5 DEF Step, Begin, Continue, Stop, BeginCreate, BeginUpdate, BeginStatus,
     BeginCancel, BeginCheckIn, BeginCheckOut, BeginStatusChange, CheckRoomAvailability,
     GenerateBookingNumber, UpdateRoom, TriggerHousekeeping, LogAction

\* The steps that write no row but through InsertBooking add none.
LEMMA OnlyInsertAdds ==
    ASSUME Sound, NEW r \in Requests, Step(r),
           Existing' # Existing
    PROVE  InsertBooking(r) /\ req[r].number \notin Numbers
BY UnchangedGrows, WriteGrows DEF Sound, Step, Begin, Continue, Stop, BeginCreate, BeginUpdate,
   BeginStatus, BeginCancel, BeginCheckIn, BeginCheckOut, BeginStatusChange,
   CheckRoomAvailability, GenerateBookingNumber, InsertBooking, UpdateRoom, TriggerHousekeeping,
   LogAction

\* The insert of a number the table does not have, all of whose predecessors it
\* has, keeps the numbers distinct and without a gap; no other step adds one.
LEMMA NumbersStep ==
    ASSUME Sound, NEW r \in Requests, Step(r)
    PROVE  NumbersConsecutive'
<1> USE DEF Sound
<1>1. Grows /\ NewOf(r)
  BY StepGrows
<1>2. CASE Existing' = Existing
  <2>1. Numbers' = Numbers
    BY <1>1, <1>2 DEF Numbers, Grows
  <2> QED
    BY <1>1, <1>2, <2>1 DEF NumbersConsecutive, Grows
<1>3. CASE Existing' # Existing
  <2> DEFINE id == req[r].id
             n == req[r].number
  <2>1. PICK b \in Existing' \ Existing : At(r, "insert") /\ b = id
    BY <1>1, <1>3 DEF Grows, NewOf
  <2>2. InsertBooking(r) /\ n \notin Numbers
    BY <1>3, OnlyInsertAdds
  <2>3. Existing' = Existing \cup {id}
    BY <1>1, <2>1 DEF Grows, NewOf
  <2>4. booking'[id].number = n
    BY <2>1, <2>2 DEF InsertBooking, RowsOK, Existing
  <2>5. Numbers' = Numbers \cup {n}
    BY <1>1, <2>3, <2>4 DEF Numbers, Grows
  <2>6. n \in DailyNumbers /\ \A m \in 1 .. (n - 1) : m \in Numbers
    BY <2>1 DEF RequestsOK, CreationOK, Creating, At
  <2>7. WithoutGaps(Numbers')
    BY <2>5, <2>6, AddedNumberLeavesNoGap DEF NumbersConsecutive
  <2>8. \A c \in Existing : booking'[c].number = booking[c].number /\ booking[c].number # n
    BY <1>1, <2>2 DEF Grows, Numbers
  <2>9. \A c, d \in Existing' : booking'[c].number = booking'[d].number => c = d
    BY <2>3, <2>4, <2>8 DEF NumbersConsecutive
  <2> QED
    BY <2>5, <2>6, <2>7, <2>9 DEF NumbersConsecutive
<1> QED
  BY <1>2, <1>3

\* A step of a request keeps the types.
LEMMA TypeStep ==
    ASSUME Sound, NEW r \in Requests, Step(r)
    PROVE  RowsOK'
<1>1. CASE Stop(r)
  BY <1>1 DEF Sound, Stop, Finish, Become, RowsOK, RequestStates
<1> QED
  BY <1>1, TypeBegin, TypeContinue DEF Sound, Step

\* A step of a request keeps all of it.
LEMMA SoundStep ==
    ASSUME Sound, NEW r \in Requests, Step(r)
    PROVE  Sound'
BY TypeStep, RequestsStep, HistoryStep, NumbersStep DEF Sound

\* So does a step that writes no booking and is of no request.
LEMMA SoundAlone ==
    ASSUME Sound, UNCHANGED <<booking, housekeeping, audit, req>>
    PROVE  Sound'
BY DEF Sound, RowsOK, RequestsOK, Creating, Changing, CreationOK, ChangeOK, At, HistoryOK, Has,
       NumbersConsecutive, Numbers, Existing

\* In the initial state there is nothing to say anything of.
LEMMA SoundInit == Init => Sound
<1> SUFFICES ASSUME Init PROVE Sound
  OBVIOUS
<1>1. RowsOK
  BY TypeInit
<1>2. Existing = {} /\ Numbers = {}
  BY DEF Init, Existing, Numbers
<1>3. RequestsOK
  BY DEF Init, Idle, RequestsOK, Creating, Changing
<1> QED
  BY <1>1, <1>2, <1>3 DEF Sound, HistoryOK, NumbersConsecutive, WithoutGaps

\* A room whose status only this service writes has one that it writes.
LEMMA RoomTypeStep ==
    ASSUME roomStatus \in [Rooms -> RoomStatuses], NEW r \in Requests, Step(r)
    PROVE  roomStatus' \in [Rooms -> RoomStatuses]
<1>1. CASE UpdateRoom(r)
  <2>1. RoomStatusFor(req[r].to) \in RoomStatuses
    BY DEF RoomStatusFor, RoomStatuses
  <2> QED
    BY <1>1, <2>1 DEF UpdateRoom
<1>2. CASE UNCHANGED roomStatus
  BY <1>2
<1> QED
  BY <1>1, <1>2 DEF Step, Begin, Continue, Stop, BeginCreate, BeginUpdate, BeginStatus, BeginCancel,
     BeginCheckIn, BeginCheckOut, BeginStatusChange, CheckRoomAvailability,
     GenerateBookingNumber, InsertBooking, WriteDates, WriteStatus, TriggerHousekeeping, LogAction

Inductive == TypeOK /\ RequestsOK /\ HistoryOK /\ NumbersConsecutive

\* The types of the rooms apart, that is Sound.
LEMMA InductiveSound == Inductive <=> Sound /\ roomStatus \in [Rooms -> RoomStatuses]
BY DEF Inductive, Sound, TypeOK, RowsOK

\* A step of the service is a step of a request.
LEMMA NextStep == Next => \E r \in Requests : Step(r)
BY DEF Next, Step, Fail, Stop

\* The inductive step.
LEMMA InductiveStep == Inductive /\ [Next]_vars => Inductive'
<1> SUFFICES ASSUME Inductive, [Next]_vars PROVE Inductive'
  OBVIOUS
<1>1. Sound /\ roomStatus \in [Rooms -> RoomStatuses]
  BY InductiveSound
<1>2. ASSUME NEW r \in Requests, Step(r)
      PROVE  Sound' /\ roomStatus' \in [Rooms -> RoomStatuses]
  BY <1>1, <1>2, SoundStep, RoomTypeStep
<1>3. ASSUME UNCHANGED vars
      PROVE  Sound' /\ roomStatus' \in [Rooms -> RoomStatuses]
  BY <1>1, <1>3, SoundAlone DEF vars
<1>4. Sound' /\ roomStatus' \in [Rooms -> RoomStatuses]
  BY <1>2, <1>3, NextStep
<1> QED
  BY <1>4 DEF Inductive, Sound, TypeOK, RowsOK

\* Every reachable state has the inductive invariant.
LEMMA InductiveInvariant == Spec => []Inductive
<1>1. Init => Inductive
  BY SoundInit, TypeInit DEF Inductive, Sound
<1> QED
  BY <1>1, InductiveStep, PTL DEF Spec

\* The rows, the log and the requests always have the shape the code gives them.
THEOREM TypeCorrect == Spec => []TypeOK
BY InductiveInvariant, PTL DEF Inductive

\* What a request read and decided on stays true until it writes, as far as the
\* rest of its handler needs it: its row exists, the timestamps that must precede
\* the one it writes are there, its id and its number's predecessors are taken.
THEOREM RequestsCorrect == Spec => []RequestsOK
BY InductiveInvariant, PTL DEF Inductive

\* Whatever requests race and wherever they stop, the timestamps of a booking
\* tell a possible history (validate on a status read before an await).
THEOREM HistoryCorrect == Spec => []HistoryOK
BY InductiveInvariant, PTL DEF Inductive

\* Whatever creations race, the booking numbers of a day are distinct and have no
\* gap (generateBookingNumber and the unique constraint).
THEOREM NumbersCorrect == Spec => []NumbersConsecutive
BY InductiveInvariant, PTL DEF Inductive

-------------------------------------------------------------------------------
(* What follows from it *)

\* The status of a room is written after the booking it comes from, and the
\* timestamp of that booking stays.
LEMMA OccupiedStep ==
    ASSUME Sound, roomStatus \in [Rooms -> RoomStatuses], OccupiedWasCheckedIn,
           NEW r \in Requests, Step(r)
    PROVE  OccupiedWasCheckedIn'
<1> USE DEF Sound
<1>1. ASSUME Grows, UNCHANGED roomStatus PROVE OccupiedWasCheckedIn'
  BY <1>1 DEF OccupiedWasCheckedIn, Grows, Has
<1>2. CASE UpdateRoom(r)
  <2>1. req[r] \in StatusChanges /\ ChangeOK(r) /\ Grows
    BY <1>2, Shapes, UnchangedGrows DEF UpdateRoom, RequestsOK, Changing, At
  <2>2. SUFFICES ASSUME NEW room \in Rooms, roomStatus'[room] = "OCCUPIED",
                        roomStatus[room] # "OCCUPIED"
                 PROVE  \E b \in Existing : booking[b].room = room /\ Has(b, "checkedInAt")
    BY <1>2, <2>1 DEF OccupiedWasCheckedIn, Grows, Has, UpdateRoom
  <2>3. room = req[r].room /\ RoomStatusFor(req[r].to) = "OCCUPIED"
    BY <1>2, <2>2 DEF UpdateRoom
  <2>4. Stamps(req[r].to) = {"checkedInAt"}
    BY <2>3 DEF RoomStatusFor, Stamps
  <2>5. /\ req[r].id \in Existing
        /\ req[r].room = booking[req[r].id].room
        /\ Stamps(req[r].to) \subseteq booking[req[r].id].milestones
    BY <1>2, <2>1 DEF ChangeOK, StatusChanges, UpdateRoom, At
  <2> QED
    BY <2>3, <2>4, <2>5 DEF Has
<1> QED
  BY <1>1, <1>2, StepGrows DEF Step, Begin, Continue, Stop, BeginCreate, BeginUpdate, BeginStatus,
     BeginCancel, BeginCheckIn, BeginCheckOut, BeginStatusChange, CheckRoomAvailability,
     GenerateBookingNumber, InsertBooking, WriteDates, WriteStatus, TriggerHousekeeping, LogAction

\* An entry is written after what it reports, and that stays.
LEMMA AuditStep ==
    ASSUME Sound, AuditBacked, NEW r \in Requests, Step(r)
    PROVE  AuditBacked'
<1> USE DEF Sound
<1>1. ASSUME Grows, UNCHANGED audit PROVE AuditBacked'
  BY <1>1 DEF AuditBacked, Grows
<1>2. CASE LogAction(r)
  <2> DEFINE new == AuditEntry(req[r])
  <2>1. req[r] \in DateChanges \cup StatusChanges /\ ChangeOK(r) /\ Grows
    BY <1>2, Shapes, UnchangedGrows DEF LogAction, RequestsOK, Changing, At
  <2>2. new.id = req[r].id /\ new.status = IF req[r].op = "update" THEN Unset ELSE req[r].to
    BY DEF AuditEntry
  <2>3. Stamps(new.status) \subseteq booking[new.id].milestones
    <3>1. CASE req[r].op = "update"
      <4>1. new.status = Unset
        BY <2>2, <3>1
      <4>2. Stamps(Unset) = {}
        BY BookingsAssumption DEF Stamps, BookingStatuses
      <4> QED
        BY <4>1, <4>2
    <3>2. CASE req[r].op # "update"
      BY <1>2, <2>1, <2>2, <3>2 DEF ChangeOK, LogAction, At
    <3> QED
      BY <3>1, <3>2
  <2>4. new.id \in Existing
    BY <2>1, <2>2 DEF ChangeOK
  <2>5. \A entry \in audit' : entry \in audit \/ entry = new
    BY <1>2 DEF LogAction
  <2> HIDE DEF new
  <2> QED
    BY <1>2, <2>1, <2>3, <2>4, <2>5 DEF AuditBacked, Grows, LogAction
<1> QED
  BY <1>1, <1>2, StepGrows DEF Step, Begin, Continue, Stop, BeginCreate, BeginUpdate, BeginStatus,
     BeginCancel, BeginCheckIn, BeginCheckOut, BeginStatusChange, CheckRoomAvailability,
     GenerateBookingNumber, InsertBooking, WriteDates, WriteStatus, UpdateRoom, TriggerHousekeeping

\* A room is OCCUPIED only if a guest was checked in to it (the room updates after
\* the booking updates).
THEOREM OccupiedCorrect == Spec => []OccupiedWasCheckedIn
<1>1. Init => OccupiedWasCheckedIn
  BY DEF Init, OccupiedWasCheckedIn
<1>2. Inductive /\ OccupiedWasCheckedIn /\ [Next]_vars => OccupiedWasCheckedIn'
  <2>1. UNCHANGED vars => (OccupiedWasCheckedIn <=> OccupiedWasCheckedIn')
    BY DEF vars, OccupiedWasCheckedIn, Existing, Has
  <2> QED
    BY <2>1, OccupiedStep, NextStep, InductiveSound
<1> QED
  BY <1>1, <1>2, InductiveInvariant, PTL DEF Spec

\* What the audit log says happened did happen (every handler logs last).
THEOREM AuditCorrect == Spec => []AuditBacked
<1>1. Init => AuditBacked
  BY DEF Init, AuditBacked
<1>2. Inductive /\ AuditBacked /\ [Next]_vars => AuditBacked'
  <2>1. UNCHANGED vars => (AuditBacked <=> AuditBacked')
    BY DEF vars, AuditBacked, Existing
  <2> QED
    BY <2>1, AuditStep, NextStep, InductiveSound
<1> QED
  BY <1>1, <1>2, InductiveInvariant, PTL DEF Spec

\* Once the number past the four digits is used no booking is made any more that
\* day (generateBookingNumber returns it again and the insert is refused).
THEOREM ExhaustionStops == Spec => ExhaustedNumbersStop
<1>1. ASSUME Inductive, [Next]_vars, Overflow \in Numbers, Existing' # Existing PROVE FALSE
  <2>0. Sound
    BY <1>1, InductiveSound
  <2>1. PICK r \in Requests : Step(r)
    BY <1>1, NextStep DEF vars, Existing
  <2>2. InsertBooking(r) /\ req[r].number \notin Numbers
    BY <1>1, <2>0, <2>1, OnlyInsertAdds
  <2>3. req[r].number \in 1 .. Overflow
    BY <2>0, <2>2 DEF InsertBooking, At, Sound, RequestsOK, CreationOK, Creating, DailyNumbers
  <2>4. \A m \in 1 .. Overflow : m \in Numbers
    BY <1>1, <2>0 DEF Sound, NumbersConsecutive, WithoutGaps
  <2> QED
    BY <2>2, <2>3, <2>4
<1>2. Inductive /\ [Next]_vars => [(Overflow \in Numbers) => Existing' = Existing]_vars
  BY <1>1
<1> QED
  BY <1>2, InductiveInvariant, PTL DEF Spec, ExhaustedNumbersStop

-------------------------------------------------------------------------------
(* The refinement of BookingLifecycle *)

\* Where no row is added and no timestamp set, no event is recorded.
LEMMA SameEvents ==
    ASSUME Existing' = Existing,
           \A b \in Existing : booking'[b].milestones = booking[b].milestones
    PROVE  RecordedEvents' = RecordedEvents
<1>1. \A b \in BookingIds : booking'[b] = NoBooking <=> booking[b] = NoBooking
  BY DEF Existing
<1>2. \A b \in BookingIds : booking[b] # NoBooking =>
          booking'[b].milestones = booking[b].milestones
  BY DEF Existing
<1> QED
  BY <1>1, <1>2, Zenon DEF RecordedEvents

\* The insert records the creation of its booking.
LEMMA InsertRecords ==
    ASSUME Sound, NEW r \in Requests, InsertBooking(r)
    PROVE  [Lifecycle!Next]_RecordedEvents
<1> USE DEF Sound
<1> DEFINE id == req[r].id
<1>1. CASE req[r].number \in Numbers
  BY <1>1, SameEvents, UnchangedGrows DEF InsertBooking
<1>2. CASE req[r].number \notin Numbers
  <2>1. id \in BookingIds /\ id \notin Existing
    BY Shapes DEF InsertBooking, At, Creating, Creations, RequestsOK, CreationOK
  <2>2. /\ booking'[id].milestones = {}
        /\ booking'[id] # NoBooking
        /\ booking[id] = NoBooking
        /\ \A b \in BookingIds \ {id} : booking'[b] = booking[b]
    BY <1>2, <2>1 DEF InsertBooking, RowsOK, Existing, NoBooking
  <2> HIDE DEF id
  <2>3. RecordedEvents' = [RecordedEvents EXCEPT ![id] = {"created"}]
    BY <2>1, <2>2 DEF RecordedEvents
  <2>4. RecordedEvents[id] = {}
    BY <2>1, <2>2 DEF RecordedEvents
  <2>5. Lifecycle!Record(id, "created")
    BY <2>1, <2>3, <2>4 DEF Lifecycle!Record, Lifecycle!Predecessors
  <2> QED
    BY <2>1, <2>5 DEF Lifecycle!Next, Lifecycle!Events
<1> QED
  BY <1>1, <1>2

\* The write of a status records the event it dates, after its predecessor.
LEMMA WriteStatusRecords ==
    ASSUME Sound, NEW r \in Requests, WriteStatus(r)
    PROVE  [Lifecycle!Next]_RecordedEvents
<1> USE DEF Sound
<1> DEFINE id == req[r].id
           to == req[r].to
<1>1. /\ req[r] \in StatusChanges
      /\ id \in Existing
      /\ \A b \in BookingIds \ {id} : booking'[b] = booking[b]
      /\ booking'[id] \in Booking
      /\ booking'[id].milestones = booking[id].milestones \cup Stamps(to)
  BY WriteStatusRow
<1>2. Prerequisites(to) \subseteq booking[id].milestones
  BY <1>1 DEF WriteStatus, RequestsOK, Changing, ChangeOK, At
<1>3. to \in BookingStatuses /\ id \in BookingIds
  BY <1>1 DEF StatusChanges
<1>4. booking[id] # NoBooking /\ booking'[id] # NoBooking
  BY <1>1 DEF Existing, Booking, NoBooking, BookingStatuses
<1> HIDE DEF id, to
<1>5. CASE to = "PENDING"
  <2>1. Stamps(to) = {}
    BY <1>5 DEF Stamps
  <2>2. Existing' = Existing
    BY <1>1, <1>3, <1>4 DEF Existing
  <2>3. \A b \in Existing : booking'[b].milestones = booking[b].milestones
    BY <1>1, <2>1 DEF Existing
  <2> QED
    BY <2>2, <2>3, SameEvents
<1>6. CASE to # "PENDING"
  <2>1. PICK m \in Milestones : /\ Stamps(to) = {m}
                                /\ Lifecycle!Predecessors(EventOf[m]) \subseteq
                                       {"created"} \cup {EventOf[n] : n \in Prerequisites(to)}
    BY <1>3, <1>6
       DEF BookingStatuses, Milestones, Stamps, EventOf, Prerequisites, Lifecycle!Predecessors
  <2>2. EventOf[m] \in Lifecycle!Events
    BY DEF EventOf, Milestones, Lifecycle!Events
  <2>3. RecordedEvents[id] = {"created"} \cup {EventOf[n] : n \in booking[id].milestones}
    BY <1>3, <1>4 DEF RecordedEvents
  <2>4. RecordedEvents' = [RecordedEvents EXCEPT ![id] = RecordedEvents[id] \cup {EventOf[m]}]
    <3>1. RecordedEvents'[id] = {"created"} \cup {EventOf[n] : n \in booking'[id].milestones}
      BY <1>3, <1>4 DEF RecordedEvents
    <3>2. booking'[id].milestones = booking[id].milestones \cup {m}
      BY <1>1, <2>1
    <3>3. RecordedEvents'[id] = RecordedEvents[id] \cup {EventOf[m]}
      BY <2>3, <3>1, <3>2
    <3>4. \A b \in BookingIds \ {id} : RecordedEvents'[b] = RecordedEvents[b]
      BY <1>1 DEF RecordedEvents
    <3>5. /\ RecordedEvents = [b \in BookingIds |-> RecordedEvents[b]]
          /\ RecordedEvents' = [b \in BookingIds |-> RecordedEvents'[b]]
      BY DEF RecordedEvents
    <3> QED
      BY <1>3, <3>3, <3>4, <3>5
  <2>5. Lifecycle!Predecessors(EventOf[m]) \subseteq RecordedEvents[id]
    BY <1>2, <2>1, <2>3
  <2>6. Lifecycle!Record(id, EventOf[m])
    BY <2>4, <2>5 DEF Lifecycle!Record
  <2> QED
    BY <1>3, <2>2, <2>6 DEF Lifecycle!Next
<1> QED
  BY <1>5, <1>6

\* Every step of a request records one event or none.
LEMMA StepRecords ==
    ASSUME Sound, NEW r \in Requests, Step(r)
    PROVE  [Lifecycle!Next]_RecordedEvents
<1>1. CASE UNCHANGED booking
  BY <1>1, SameEvents, UnchangedGrows
<1>2. ASSUME WriteDates(r) PROVE RecordedEvents' = RecordedEvents
  <2>1. /\ Existing' = Existing
        /\ \A b \in BookingIds \ {req[r].id} : booking'[b] = booking[b]
        /\ booking'[req[r].id].milestones = booking[req[r].id].milestones
    BY <1>2, WriteDatesRow, WriteGrows DEF Sound
  <2> QED
    BY <2>1, SameEvents DEF Existing
<1> QED
  BY <1>1, <1>2, InsertRecords, WriteStatusRecords DEF Step, Begin, Continue, Stop, BeginCreate,
     BeginUpdate, BeginStatus, BeginCancel, BeginCheckIn, BeginCheckOut, BeginStatusChange,
     CheckRoomAvailability, GenerateBookingNumber, UpdateRoom, TriggerHousekeeping, LogAction

\* The booking service implements BookingLifecycle: the events recorded of a
\* booking only accumulate, each after its predecessor, though its handlers race
\* and fail between their statements.
THEOREM Refinement == Spec => ImplementsLifecycle
<1>1. Init => Lifecycle!Init
  BY DEF Init, Lifecycle!Init, RecordedEvents
<1>2. Inductive /\ [Next]_vars => [Lifecycle!Next]_RecordedEvents
  <2> SUFFICES ASSUME Inductive, [Next]_vars PROVE [Lifecycle!Next]_RecordedEvents
    OBVIOUS
  <2>1. UNCHANGED vars => RecordedEvents' = RecordedEvents
    BY UnchangedGrows, SameEvents DEF vars
  <2> QED
    BY <2>1, StepRecords, NextStep, InductiveSound
<1> QED
  BY <1>1, <1>2, InductiveInvariant, PTL DEF Spec, ImplementsLifecycle, Lifecycle!Spec

-------------------------------------------------------------------------------
(* One request at a time *)

OneAtATime == \A q, r \in Requests : q = r

\* The statuses that may follow each other in a row.
MayFollow(from, to) == \/ to \in ValidTransitions[from]
                       \/ from = "CHECKED_OUT" /\ to = "CANCELLED"

\* What a request decided on is still so when it writes, and what it wrote is
\* still so when it gives the room its status.
DecisionOK(r) ==
    /\ At(r, "number") \/ At(r, "insert") => Conflicts(req[r].room, req[r].in, req[r].out) = {}
    /\ At(r, "write") /\ req[r].op = "update" =>
          booking[req[r].id].status \notin {"CHECKED_IN", "CHECKED_OUT", "CANCELLED"}
    /\ At(r, "write") /\ req[r].op # "update" => MayFollow(booking[req[r].id].status, req[r].to)
    /\ At(r, "room") => booking[req[r].id].status = req[r].to

DecisionsHold == \A r \in Requests : DecisionOK(r)

\* The status of a room has its booking, or a request is about to write it.
Explained(room) ==
    /\ roomStatus[room] = "OCCUPIED" => BookingsOf(room, {"CHECKED_IN"}) # {}
    /\ roomStatus[room] = "RESERVED" => BookingsOf(room, {"PENDING", "CONFIRMED"}) # {}

RoomsExplained ==
    \A room \in Rooms : \/ Explained(room)
                        \/ \E r \in Requests : At(r, "room") /\ req[r].room = room

\* In the initial state nothing is decided and every room is AVAILABLE.
LEMMA AloneInit == Init => DecisionsHold /\ RoomsExplained
BY DEF Init, Idle, DecisionsHold, DecisionOK, At, RoomsExplained, Explained

\* A request alone writes what it decided on: nothing comes between.
LEMMA DecisionStep ==
    ASSUME OneAtATime, Sound, DecisionsHold, NEW r \in Requests, Step(r)
    PROVE  DecisionsHold'
<1> USE DEF Become, Goto, Finish, RowsOK, Sound
<1> SUFFICES DecisionOK(r)'
  BY DEF OneAtATime, DecisionsHold
<1>0. DecisionOK(r)
  BY DEF DecisionsHold
<1>1. CASE Stop(r) \/ LogAction(r)
  BY <1>1 DEF Stop, LogAction, DecisionOK, At, Idle
<1>2. CASE BeginCreate(r)
  BY <1>2 DEF BeginCreate, DecisionOK, At
<1>3. CASE BeginUpdate(r)
  BY <1>3 DEF BeginUpdate, DecisionOK, At
<1>4. ASSUME NEW op \in {"status", "cancel", "checkIn", "checkOut"}, NEW b \in Existing, NEW to,
             BeginStatusChange(r, op, b, to), MayFollow(booking[b].status, to)
      PROVE  DecisionOK(r)'
  BY <1>4 DEF BeginStatusChange, DecisionOK, At, MayFollow, ValidTransitions
<1>5. CASE BeginStatus(r)
  BY <1>4, <1>5 DEF BeginStatus, MayFollow
<1>6. CASE BeginCancel(r)
  <2>1. PICK b \in Existing : /\ booking[b].status \notin {"CHECKED_IN", "CANCELLED"}
                              /\ BeginStatusChange(r, "cancel", b, "CANCELLED")
    BY <1>6 DEF BeginCancel
  <2>2. booking[b].status \in {"PENDING", "CONFIRMED", "CHECKED_OUT"}
    BY <2>1, Rows DEF Booking, BookingStatuses
  <2>3. MayFollow(booking[b].status, "CANCELLED")
    BY <2>2 DEF MayFollow, ValidTransitions
  <2> QED
    BY <1>4, <2>1, <2>3
<1>7. CASE BeginCheckIn(r)
  BY <1>4, <1>7 DEF BeginCheckIn, MayFollow, ValidTransitions
<1>8. CASE BeginCheckOut(r)
  BY <1>4, <1>8 DEF BeginCheckOut, MayFollow, ValidTransitions
<1>9. CASE CheckRoomAvailability(r)
  <2>1. req[r] \in Creations
    BY <1>9, Shapes DEF CheckRoomAvailability, Creating, At
  <2> QED
    BY <1>9, <2>1 DEF CheckRoomAvailability, DecisionOK, At, Creations, Idle, Conflicts,
       BookingsOf, Existing
<1>10. CASE GenerateBookingNumber(r)
  <2>1. req[r] \in Creations
    BY <1>10, Shapes DEF GenerateBookingNumber, Creating, At
  <2> QED
    BY <1>0, <1>10, <2>1 DEF GenerateBookingNumber, DecisionOK, At, Creations, Conflicts,
       BookingsOf, Existing
<1>11. CASE InsertBooking(r)
  <2>1. req[r] \in Creations
    BY <1>11, Shapes DEF InsertBooking, Creating, At
  <2> QED
    BY <1>11, <2>1 DEF InsertBooking, DecisionOK, At, Creations, Idle
<1>12. CASE WriteDates(r)
  BY <1>12, Shapes DEF WriteDates, DecisionOK, At, DateChanges
<1>13. CASE WriteStatus(r)
  <2>1. req[r] \in StatusChanges /\ booking'[req[r].id].status = req[r].to
    BY <1>13, WriteStatusRow
  <2> QED
    BY <1>13, <2>1 DEF WriteStatus, DecisionOK, At, StatusChanges
<1>14. CASE UpdateRoom(r)
  BY <1>14, Shapes DEF UpdateRoom, DecisionOK, At, StatusChanges
<1>15. CASE TriggerHousekeeping(r)
  BY <1>15, Shapes DEF TriggerHousekeeping, DecisionOK, At, StatusChanges
<1> QED
  BY <1>1, <1>2, <1>3, <1>5, <1>6, <1>7, <1>8, <1>9, <1>10, <1>11, <1>12, <1>13, <1>14, <1>15
     DEF Step, Begin, Continue

\* Every handler that moves a booking goes on to write its room, unless it stops
\* before that; and the status it gives the room is explained by its booking, whatever
\* the room had before.
LEMMA ExplainedStep ==
    ASSUME OneAtATime, Sound, DecisionsHold, DOMAIN roomStatus = Rooms,
           NEW r \in Requests, Step(r), Stop(r) => ~ At(r, "room"), NEW room \in Rooms,
           \/ Explained(room)
           \/ At(r, "room") /\ req[r].room = room
           \/ roomStatus'[room] # roomStatus[room]
    PROVE  Explained(room)' \/ (At(r, "room") /\ req[r].room = room)'
<1> USE DEF Become, Goto, Finish, Sound
<1> SUFFICES ASSUME ~ (At(r, "room") /\ req[r].room = room)'
             PROVE  Explained(room)'
  OBVIOUS
<1>1. CASE UpdateRoom(r)
  <2>1. /\ req[r] \in StatusChanges
        /\ booking[req[r].id].status = req[r].to
        /\ req[r].id \in Existing
        /\ booking[req[r].id].room = req[r].room
    BY <1>1, Shapes DEF UpdateRoom, RequestsOK, Changing, ChangeOK, At, DecisionsHold, DecisionOK,
       StatusChanges
  <2>2. booking' = booking /\ roomStatus' = [roomStatus EXCEPT ![req[r].room] = RoomStatusFor(req[r].to)]
    BY <1>1 DEF UpdateRoom
  <2>3. CASE room = req[r].room
    <3>1. roomStatus'[room] = RoomStatusFor(booking[req[r].id].status)
      BY <2>1, <2>2, <2>3
    <3>2. req[r].id \in BookingsOf(room, {booking[req[r].id].status})
      BY <2>1, <2>3 DEF BookingsOf
    <3>3. BookingsOf(room, {"CHECKED_IN"})' = BookingsOf(room, {"CHECKED_IN"})
      BY <2>2 DEF BookingsOf, Existing
    <3>4. BookingsOf(room, {"PENDING", "CONFIRMED"})' = BookingsOf(room, {"PENDING", "CONFIRMED"})
      BY <2>2 DEF BookingsOf, Existing
    <3> QED
      BY <3>1, <3>2, <3>3, <3>4 DEF Explained, RoomStatusFor, BookingsOf
  <2>4. CASE room # req[r].room
    <3>1. roomStatus'[room] = roomStatus[room]
      BY <2>2, <2>4
    <3>2. Explained(room)
      BY <2>4, <3>1
    <3> QED
      BY <2>2, <3>1, <3>2 DEF Explained, BookingsOf, Existing
  <2> QED
    BY <2>3, <2>4
<1>2. CASE ~ UpdateRoom(r)
  <2>0. ~ At(r, "room")
    <3>1. CASE Begin(r)
      <4>1. req[r] = Idle
        BY <3>1 DEF Begin, BeginCreate, BeginUpdate, BeginStatus, BeginCancel, BeginCheckIn,
           BeginCheckOut, BeginStatusChange
      <4> QED
        BY <4>1 DEF At, Idle
    <3>2. CASE Continue(r)
      BY <1>2, <3>2 DEF Continue, CheckRoomAvailability, GenerateBookingNumber, InsertBooking,
         WriteDates, WriteStatus, TriggerHousekeeping, LogAction, At
    <3> QED
      BY <3>1, <3>2 DEF Step
  <2>1. roomStatus' = roomStatus /\ ~ At(r, "room")
    BY <1>2, <2>0 DEF Step, Begin, Continue, Stop, BeginCreate, BeginUpdate, BeginStatus,
       BeginCancel, BeginCheckIn, BeginCheckOut, BeginStatusChange, CheckRoomAvailability,
       GenerateBookingNumber, InsertBooking, WriteDates, WriteStatus, TriggerHousekeeping, LogAction
  <2>2. Explained(room)
    BY <2>1
  <2>3. \A b \in Existing : b \in Existing' /\ booking'[b].room = booking[b].room
    BY StepGrows DEF Grows
  <2>4. \A b \in Existing : booking[b].room = room => booking'[b].status = booking[b].status
    <3>1. CASE UNCHANGED booking
      BY <3>1
    <3>2. CASE InsertBooking(r)
      <4>1. req[r].id \notin Existing
        BY <3>2 DEF RequestsOK, CreationOK, Creating, InsertBooking, At
      <4> QED
        BY <3>2, <4>1 DEF InsertBooking, RowsOK, Existing
    <3>3. CASE WriteDates(r)
      BY <3>3, WriteDatesRow DEF Existing
    <3>4. CASE WriteStatus(r)
      <4>1. /\ req[r] \in StatusChanges
            /\ \A b \in Existing \ {req[r].id} : booking'[b] = booking[b]
        BY <3>4, WriteStatusRow DEF Existing
      <4>2. /\ req'[r] = [req[r] EXCEPT !.pc = "room"]
            /\ booking[req[r].id].room = req[r].room
        BY <3>4, <4>1 DEF WriteStatus, RowsOK, RequestsOK, Changing, ChangeOK, At
      <4>3. booking[req[r].id].room # room
        BY <4>1, <4>2 DEF At, StatusChanges
      <4> QED
        BY <4>1, <4>3
    <3> QED
      BY <1>2, <3>1, <3>2, <3>3, <3>4 DEF Step, Begin, Continue, Stop, BeginCreate, BeginUpdate,
         BeginStatus, BeginCancel, BeginCheckIn, BeginCheckOut, BeginStatusChange,
         CheckRoomAvailability, GenerateBookingNumber, TriggerHousekeeping, LogAction
  <2>5. \A statuses : BookingsOf(room, statuses) \subseteq BookingsOf(room, statuses)'
    BY <2>3, <2>4 DEF BookingsOf
  <2> QED
    BY <2>1, <2>2, <2>5 DEF Explained
<1> QED
  BY <1>1, <1>2

\* A request about to write its room does, unless it fails.
LEMMA WorkWritesRoom ==
    ASSUME RowsOK, NEW r \in Requests, Begin(r) \/ Continue(r)
    PROVE  Stop(r) => ~ At(r, "room")
<1>1. CASE Begin(r)
  BY <1>1 DEF Begin, BeginCreate, BeginUpdate, BeginStatus, BeginCancel, BeginCheckIn,
     BeginCheckOut, BeginStatusChange, Stop
<1>2. CASE Continue(r) /\ At(r, "room")
  <2>1. UpdateRoom(r)
    BY <1>2 DEF Continue, CheckRoomAvailability, GenerateBookingNumber, InsertBooking,
       WriteDates, WriteStatus, TriggerHousekeeping, LogAction, At
  <2>2. req[r] \in StatusChanges /\ req'[r].pc \in {"housekeeping", "audit"}
    BY <2>1, Shapes DEF UpdateRoom, Goto, Become, StatusChanges, RowsOK
  <2> QED
    BY <2>2 DEF Stop, Finish, Become, Idle, RowsOK
<1> QED
  BY <1>1, <1>2

\* A room that keeps its status stays explained while the bookings stay as they are.
LEMMA ExplainedKept ==
    ASSUME UNCHANGED booking, NEW room, roomStatus'[room] = roomStatus[room], Explained(room)
    PROVE  Explained(room)'
<1>1. \A statuses : BookingsOf(room, statuses)' = BookingsOf(room, statuses)
  BY DEF BookingsOf, Existing
<1> QED
  BY <1>1 DEF Explained

\* A request in progress that is alone has decided on what is still so.
LEMMA AloneInvariant == ASSUME OneAtATime PROVE Spec => [](Inductive /\ DecisionsHold)
<1>1. Init => DecisionsHold
  BY AloneInit
<1>2. Inductive /\ DecisionsHold /\ [Next]_vars => DecisionsHold'
  <2>1. UNCHANGED vars => (DecisionsHold <=> DecisionsHold')
    BY DEF vars, DecisionsHold, DecisionOK, At, Conflicts, BookingsOf, Existing
  <2> QED
    BY <2>1, OneAtATime, DecisionStep, NextStep, InductiveSound
<1> QED
  BY <1>1, <1>2, InductiveInvariant, PTL DEF Spec

\* One request at a time and none failing, a room is OCCUPIED or RESERVED between
\* requests only on account of a booking that is so now (the room updates at the
\* end of the handlers).
THEOREM RoomsExplainedAlone ==
    ASSUME OneAtATime, MayFail = FALSE
    PROVE  Spec => []RoomStatusExplained
<1>1. Init => RoomsExplained
  BY AloneInit
<1>2. Inductive /\ DecisionsHold /\ RoomsExplained /\ [Next]_vars => RoomsExplained'
  <2> SUFFICES ASSUME Inductive, DecisionsHold, RoomsExplained, [Next]_vars
               PROVE  RoomsExplained'
    OBVIOUS
  <2>1. Sound /\ DOMAIN roomStatus = Rooms
    BY InductiveSound
  <2>2. CASE UNCHANGED vars
    BY <2>2 DEF vars, RoomsExplained, Explained, At, BookingsOf, Existing
  <2>3. ASSUME NEW r \in Requests, Begin(r) \/ Continue(r) PROVE RoomsExplained'
    <3>1. Step(r)
      BY <2>3 DEF Step
    <3>2. Stop(r) => ~ At(r, "room")
      BY <2>1, <2>3, WorkWritesRoom DEF Sound
    <3>3. ASSUME NEW room \in Rooms
          PROVE  Explained(room)' \/ (At(r, "room") /\ req[r].room = room)'
      <4>1. Explained(room) \/ (At(r, "room") /\ req[r].room = room)
        BY OneAtATime DEF RoomsExplained, OneAtATime
      <4> QED
        BY <2>1, <3>1, <3>2, <4>1, OneAtATime, ExplainedStep
    <3> QED
      BY <3>3 DEF RoomsExplained
  <2> QED
    BY <2>2, <2>3, MayFail = FALSE DEF Next, Fail
<1>3. RoomsExplained => RoomStatusExplained
  BY DEF RoomsExplained, Explained, RoomStatusExplained, Quiescent, At, Idle
<1> QED
  BY <1>1, <1>2, <1>3, AloneInvariant, OneAtATime, PTL DEF Spec

\* One request at a time, whether or not it fails, no booking is admitted to a room
\* for a day on which the room has a confirmed or checked-in one
\* (checkRoomAvailability two statements before the insert).
THEOREM AdmissionAlone == ASSUME OneAtATime PROVE Spec => NoOverlapAdmitted
<1>1. ASSUME Inductive, DecisionsHold, [Next]_vars, NEW b \in Existing' \ Existing,
             NEW c \in BookingsOf(booking'[b].room, {"CONFIRMED", "CHECKED_IN"})
      PROVE  Days(b)' \cap Days(c) = {}
  <2>0. Sound
    BY <1>1, InductiveSound
  <2>1. PICK r \in Requests : Step(r)
    BY <1>1, NextStep DEF vars, Existing
  <2>2. InsertBooking(r) /\ req[r].number \notin Numbers /\ b = req[r].id
    BY <1>1, <2>0, <2>1, OnlyInsertAdds, StepGrows DEF NewOf, Sound
  <2>3. req[r] \in Creations
    BY <2>0, <2>2, Shapes DEF InsertBooking, Creating, At, Sound
  <2>4. booking'[b].room = req[r].room /\ booking'[b].in = req[r].in /\ booking'[b].out = req[r].out
    BY <2>0, <2>2, <2>3 DEF InsertBooking, Creations, Sound, RowsOK
  <2>5. Conflicts(req[r].room, req[r].in, req[r].out) = {}
    BY <1>1, <2>2 DEF DecisionsHold, DecisionOK, InsertBooking, At
  <2>6. ~ (booking[c].in < req[r].out /\ booking[c].out > req[r].in)
    BY <1>1, <2>4, <2>5 DEF Conflicts
  <2>7. booking[c].in \in Int /\ booking[c].out \in Int /\ req[r].in \in Int /\ req[r].out \in Int
    BY <1>1, <2>0, <2>3, Rows, BookingsAssumption DEF BookingsOf, Booking, Creations, Sound
  <2>8. ASSUME NEW d \in Days(b)', d \in Days(c) PROVE FALSE
    <3>1. d \in Int /\ req[r].in <= d /\ d < req[r].out /\ booking[c].in <= d /\ d < booking[c].out
      BY <2>4, <2>8, BookingsAssumption DEF Days
    <3> QED
      BY <2>6, <2>7, <3>1
  <2> QED
    BY <2>8
<1>2. Inductive /\ DecisionsHold /\ [Next]_vars =>
          [\A b \in Existing' \ Existing :
              \A c \in BookingsOf(booking'[b].room, {"CONFIRMED", "CHECKED_IN"}) :
                  Days(b)' \cap Days(c) = {}]_vars
  BY <1>1
<1> QED
  BY <1>2, AloneInvariant, OneAtATime, PTL DEF Spec, NoOverlapAdmitted

=============================================================================
