------------------------------ MODULE HotelProofs ------------------------------
(***************************************************************************)
(* Proofs about the two services on their shared tables.  What each keeps  *)
(* on its own is proved in RoomsProofs and BookingsProofs; here the steps  *)
(* of the hotel are shown to be steps of either.                           *)
(***************************************************************************)
EXTENDS Hotel, FiniteSetTheorems, FunctionTheorems, TLAPS

RP == INSTANCE RoomsProofs
         WITH Requests <- RoomRequests, Calls <- RoomCalls \cup {"book"},
              booked <- Booked, audit <- roomAudit, req <- roomReq

BP == INSTANCE BookingsProofs
         WITH Requests <- BookingRequests, Rooms <- RoomIds, Calls <- BookingCalls,
              roomStatus <- StatusColumn, audit <- bookingAudit, req <- bookingReq

-------------------------------------------------------------------------------
(* The definitions of the two instances are the same *)

\* What the room service means by its tables and its requests.
LEMMA SameRooms ==
    /\ R!Existing = RP!Existing
    /\ R!RoomStatuses = RP!RoomStatuses
    /\ R!TypeOK <=> RP!TypeOK
    /\ R!NumbersUnique <=> RP!NumbersUnique
    /\ R!ReferencesKept <=> RP!ReferencesKept
    /\ R!Init <=> RP!Init
BY DEF R!Existing, RP!Existing, R!NoRoom, RP!NoRoom, R!Deleted, RP!Deleted,
       R!RoomStatuses, RP!RoomStatuses, R!TypeOK, RP!TypeOK, R!Room, RP!Room, R!Task, RP!Task,
       R!AuditActions, RP!AuditActions, R!RequestStates, RP!RequestStates, R!Idle, RP!Idle,
       R!Creations, RP!Creations, R!Updates, RP!Updates, R!StatusChanges, RP!StatusChanges,
       R!Deletions, RP!Deletions, R!Reports, RP!Reports,
       R!HousekeepingStatuses, RP!HousekeepingStatuses, R!NumbersUnique, RP!NumbersUnique,
       R!ReferencesKept, RP!ReferencesKept, R!Referenced, RP!Referenced,
       R!Init, RP!Init

\* What it counts of them.
LEMMA SameCounts ==
    \A S : /\ RP!IsFiniteSet(S) <=> IsFiniteSet(S)
           /\ RP!Cardinality(S) = Cardinality(S)
<1>1. ASSUME NEW S PROVE RP!IsFiniteSet(S) <=> IsFiniteSet(S)
  BY DEF RP!IsFiniteSet, IsFiniteSet
<1>2. ASSUME NEW S PROVE RP!Cardinality(S) = Cardinality(S)
  BY DEF RP!Cardinality, Cardinality
<1> QED
  BY <1>1, <1>2

\* What both services assume of their constants.
LEMMA Assumptions == RP!RoomsAssumption /\ BP!BookingsAssumption /\ BP!SeqLimitAssumption
BY HotelAssumption DEF RP!RoomsAssumption, R!RoomStatuses, RP!RoomStatuses,
   R!HousekeepingStatuses, RP!HousekeepingStatuses, BP!BookingsAssumption,
   BP!SeqLimitAssumption, B!BookingStatuses, BP!BookingStatuses

\* The statements of the room service.
LEMMA SameRoomSteps ==
    /\ \A r \in RoomRequests : /\ R!Begin(r) <=> RP!Begin(r)
                               /\ R!Continue(r) <=> RP!Continue(r)
                               /\ R!Fail(r) <=> RP!Fail(r)
    /\ R!BookingService <=> RP!BookingService
<1> USE DEF R!Existing, RP!Existing, R!NoRoom, RP!NoRoom, R!Deleted, RP!Deleted,
            R!Idle, RP!Idle, R!At, RP!At, R!Become, RP!Become, R!Goto, RP!Goto,
            R!Finish, RP!Finish, R!TakenByOther, RP!TakenByOther
<1>1. ASSUME NEW r \in RoomRequests PROVE R!Begin(r) <=> RP!Begin(r)
  BY DEF R!Begin, RP!Begin, R!FreeIds, RP!FreeIds, R!BeginCreate, RP!BeginCreate,
     R!BeginUpdate, RP!BeginUpdate, R!BeginStatus, RP!BeginStatus, R!BeginDelete, RP!BeginDelete,
     R!BeginHousekeeping, RP!BeginHousekeeping
<1>2. ASSUME NEW r \in RoomRequests PROVE R!Continue(r) <=> RP!Continue(r)
  <2>1. /\ R!InsertRoom(r) <=> RP!InsertRoom(r)
        /\ R!UpdateTotalRooms(r) <=> RP!UpdateTotalRooms(r)
        /\ R!CheckNumber(r) <=> RP!CheckNumber(r)
        /\ R!WriteHousekeeping(r) <=> RP!WriteHousekeeping(r)
    BY DEF R!InsertRoom, RP!InsertRoom, R!UpdateTotalRooms, RP!UpdateTotalRooms,
       R!CheckNumber, RP!CheckNumber, R!WriteHousekeeping, RP!WriteHousekeeping
  <2>2. R!GetRoomById(r) <=> RP!GetRoomById(r)
    BY DEF R!GetRoomById, RP!GetRoomById, R!Accepted, RP!Accepted, R!AfterRead, RP!AfterRead,
       R!ValidTransitions, RP!ValidTransitions
  <2>3. R!WriteRoom(r) <=> RP!WriteRoom(r)
    BY DEF R!WriteRoom, RP!WriteRoom, R!UpdatedRow, RP!UpdatedRow, R!OrElse, RP!OrElse
  <2>4. R!DeleteRoom(r) <=> RP!DeleteRoom(r)
    BY DEF R!DeleteRoom, RP!DeleteRoom, R!Referenced, RP!Referenced
  <2>5. R!FindTask(r) <=> RP!FindTask(r)
    BY DEF R!FindTask, RP!FindTask, R!OpenTasks, RP!OpenTasks, R!Max, RP!Max
  <2>6. R!WriteTask(r) <=> RP!WriteTask(r)
    BY DEF R!WriteTask, RP!WriteTask
  <2>7. R!LogAction(r) <=> RP!LogAction(r)
    BY DEF R!LogAction, RP!LogAction, R!AuditAction, RP!AuditAction
  <2> QED
    BY <2>1, <2>2, <2>3, <2>4, <2>5, <2>6, <2>7 DEF R!Continue, RP!Continue
<1>3. ASSUME NEW r \in RoomRequests PROVE R!Fail(r) <=> RP!Fail(r)
  BY DEF R!Fail, RP!Fail
<1>4. R!BookingService <=> RP!BookingService
  BY DEF R!BookingService, RP!BookingService, R!BookRoom, RP!BookRoom,
     R!WriteBookedStatus, RP!WriteBookedStatus
<1> QED
  BY <1>1, <1>2, <1>3, <1>4

\* The statements of the booking service.
LEMMA SameBookingSteps ==
    \A r \in BookingRequests : /\ B!Begin(r) <=> BP!Begin(r)
                               /\ B!Continue(r) <=> BP!Continue(r)
                               /\ B!Finish(r) <=> BP!Finish(r)
<1> USE DEF B!Existing, BP!Existing, B!NoBooking, BP!NoBooking,
            B!Idle, BP!Idle, B!At, BP!At, B!Become, BP!Become, B!Goto, BP!Goto,
            B!Finish, BP!Finish, B!Numbers, BP!Numbers, B!ValidTransitions, BP!ValidTransitions
<1> TAKE r \in BookingRequests
<1>1. B!Begin(r) <=> BP!Begin(r)
  BY DEF B!Begin, BP!Begin, B!FreeIds, BP!FreeIds, B!BeginCreate, BP!BeginCreate,
     B!BeginUpdate, BP!BeginUpdate, B!BeginStatus, BP!BeginStatus, B!BeginCancel, BP!BeginCancel,
     B!BeginCheckIn, BP!BeginCheckIn, B!BeginCheckOut, BP!BeginCheckOut,
     B!BeginStatusChange, BP!BeginStatusChange
<1>2. B!CheckRoomAvailability(r) <=> BP!CheckRoomAvailability(r)
  BY DEF B!CheckRoomAvailability, BP!CheckRoomAvailability, B!Conflicts, BP!Conflicts,
     B!BookingsOf, BP!BookingsOf
<1>3. B!GenerateBookingNumber(r) <=> BP!GenerateBookingNumber(r)
  BY DEF B!GenerateBookingNumber, BP!GenerateBookingNumber, B!DailyNumbers, BP!DailyNumbers,
     B!IsNextNumber, BP!IsNextNumber, B!IsLast, BP!IsLast, B!Precedes, BP!Precedes,
     B!Leading, BP!Leading, B!LastDigits, BP!LastDigits, B!Overflow, BP!Overflow
<1>4. /\ B!InsertBooking(r) <=> BP!InsertBooking(r)
      /\ B!WriteDates(r) <=> BP!WriteDates(r)
  BY DEF B!InsertBooking, BP!InsertBooking, B!WriteDates, BP!WriteDates, B!OrElse, BP!OrElse
<1>5. /\ B!WriteStatus(r) <=> BP!WriteStatus(r)
      /\ B!UpdateRoom(r) <=> BP!UpdateRoom(r)
  BY DEF B!WriteStatus, BP!WriteStatus, B!Stamps, BP!Stamps, B!UpdateRoom, BP!UpdateRoom,
     B!RoomStatusFor, BP!RoomStatusFor
<1>6. /\ B!TriggerHousekeeping(r) <=> BP!TriggerHousekeeping(r)
      /\ B!LogAction(r) <=> BP!LogAction(r)
  BY DEF B!TriggerHousekeeping, BP!TriggerHousekeeping, B!CreatedTask, BP!CreatedTask,
     B!RequiredColumns, BP!RequiredColumns, B!ProvidedColumns, BP!ProvidedColumns,
     B!LogAction, BP!LogAction, B!AuditEntry, BP!AuditEntry, B!AuditAction, BP!AuditAction
<1>7. B!Continue(r) <=> BP!Continue(r)
  BY <1>2, <1>3, <1>4, <1>5, <1>6 DEF B!Continue, BP!Continue
<1> QED
  BY <1>1, <1>7

\* What the booking service keeps.
LEMMA SameBookings ==
    /\ B!Existing = BP!Existing
    /\ B!Init <=> BP!Init
    /\ B!HistoryOK <=> BP!HistoryOK
    /\ B!NumbersConsecutive <=> BP!NumbersConsecutive
    /\ BP!RowsOK <=> /\ booking \in [BookingIds -> B!Booking \cup {B!NoBooking}]
                     /\ housekeeping \subseteq RoomIds
                     /\ bookingAudit \subseteq B!AuditEntries
                     /\ bookingReq \in [BookingRequests -> B!RequestStates]
BY DEF B!Existing, BP!Existing, B!NoBooking, BP!NoBooking, B!Init, BP!Init, B!Idle, BP!Idle,
       B!HistoryOK, BP!HistoryOK, B!Stamps, BP!Stamps, B!Has, BP!Has,
       B!NumbersConsecutive, BP!NumbersConsecutive, B!Numbers, BP!Numbers,
       B!WithoutGaps, BP!WithoutGaps, B!DailyNumbers, BP!DailyNumbers, B!Overflow, BP!Overflow,
       BP!RowsOK, B!Booking, BP!Booking, B!BookingStatuses, BP!BookingStatuses,
       B!Milestones, BP!Milestones, B!AuditEntries, BP!AuditEntries,
       B!AuditActions, BP!AuditActions, B!RequestStates, BP!RequestStates,
       B!Creations, BP!Creations, B!DateChanges, BP!DateChanges,
       B!StatusChanges, BP!StatusChanges

-------------------------------------------------------------------------------
(* What the booking service does to the rooms table *)

\* A statement that leaves every status leaves the rooms.
LEMMA ColumnKept ==
    ASSUME R!TypeOK, room' \in Rewritten, StatusColumn' = StatusColumn
    PROVE  room' = room
<1> SUFFICES ASSUME NEW id \in R!Existing, NEW status \in R!RoomStatuses,
                    room' = [room EXCEPT ![id].status = status]
             PROVE  room' = room
  BY DEF Rewritten
<1>1. id \in RoomIds /\ room[id] \in R!Room /\ room \in [RoomIds -> R!Room \cup {R!NoRoom, R!Deleted}]
  BY DEF R!TypeOK, R!Existing
<1>2. id \in R!Existing'
  BY <1>1 DEF R!Existing, R!NoRoom, R!Deleted, R!Room, R!RoomStatuses
<1>3. StatusColumn'[id] = room'[id].status /\ StatusColumn[id] = room[id].status
  BY <1>1, <1>2 DEF StatusColumn
<1>4. room'[id].status = status
  BY <1>1 DEF R!Room
<1>5. room[id].status = status
  BY <1>3, <1>4
<1>6. [room[id] EXCEPT !.status = status] = room[id]
  BY <1>1, <1>5 DEF R!Room
<1> QED
  BY <1>1, <1>6

\* One that gives a room a status does nothing else to the rooms.
LEMMA ColumnWritten ==
    ASSUME R!TypeOK, room' \in Rewritten, NEW id \in R!Existing, NEW status \in R!RoomStatuses,
           StatusColumn' = [StatusColumn EXCEPT ![id] = status]
    PROVE  room' = [room EXCEPT ![id].status = status]
<1>1. id \in RoomIds /\ room[id] \in R!Room /\ room \in [RoomIds -> R!Room \cup {R!NoRoom, R!Deleted}]
  BY DEF R!TypeOK, R!Existing
<1>2. StatusColumn'[id] = status
  BY <1>1 DEF StatusColumn
<1>3. CASE room' = room
  <2>1. room[id].status = status
    BY <1>1, <1>2, <1>3 DEF StatusColumn, R!Existing
  <2>2. [room[id] EXCEPT !.status = status] = room[id]
    BY <1>1, <2>1 DEF R!Room
  <2> QED
    BY <1>1, <1>3, <2>2
<1>4. ASSUME NEW other \in R!Existing, NEW given \in R!RoomStatuses,
             room' = [room EXCEPT ![other].status = given]
      PROVE  room' = [room EXCEPT ![id].status = status]
  <2>1. other \in RoomIds /\ room[other] \in R!Room
    BY DEF R!TypeOK, R!Existing
  <2>2. other \in R!Existing'
    BY <1>4, <2>1 DEF R!Existing, R!NoRoom, R!Deleted, R!Room, R!RoomStatuses
  <2>3. StatusColumn'[other] = given
    BY <1>1, <1>4, <2>1, <2>2 DEF StatusColumn, R!Room
  <2>4. CASE other = id
    BY <1>2, <1>4, <2>3, <2>4
  <2>5. CASE other # id
    <3>1. StatusColumn'[other] = StatusColumn[other]
      BY <2>1, <2>5 DEF StatusColumn
    <3>2. room[other].status = given
      BY <2>1, <2>3, <3>1 DEF StatusColumn
    <3>3. [room[other] EXCEPT !.status = given] = room[other]
      BY <2>1, <3>2 DEF R!Room
    <3>4. room' = room
      BY <1>1, <1>4, <2>1, <3>3
    <3> QED
      BY <1>3, <3>4
  <2> QED
    BY <2>4, <2>5
<1> QED
  BY <1>3, <1>4 DEF Rewritten

\* The booked rooms are those of the rows of the bookings table.
LEMMA BookedRooms ==
    /\ BP!RowsOK => Booked = {booking[b].room : b \in BP!Existing}
    /\ BP!RowsOK' => Booked' = {booking'[b].room : b \in BP!Existing'}
BY DEF Booked, BP!RowsOK, BP!Existing, BP!NoBooking, BP!Booking, BP!BookingStatuses

\* A step of the booking service makes no row but by its insert.
LEMMA BookedStep ==
    ASSUME BP!Sound, NEW r \in BookingRequests, BP!Step(r),
           BP!InsertBooking(r) => bookingReq[r].number \in BP!Numbers
    PROVE  Booked' = Booked
<1>1. BP!Grows /\ BP!Existing' = BP!Existing
  BY BP!StepGrows, BP!OnlyInsertAdds, Assumptions DEF BP!Sound
<1>2. BP!RowsOK /\ BP!RowsOK'
  BY BP!SoundStep, Assumptions DEF BP!Sound
<1>3. \A b \in BP!Existing : booking'[b].room = booking[b].room
  BY <1>1 DEF BP!Grows
<1> QED
  BY <1>1, <1>2, <1>3, BookedRooms

\* The insert books the room of its request.
LEMMA BookedInsert ==
    ASSUME BP!Sound, NEW r \in BookingRequests, BP!InsertBooking(r),
           bookingReq[r].number \notin BP!Numbers
    PROVE  Booked' = Booked \cup {bookingReq[r].room}
<1>1. BP!Step(r)
  BY DEF BP!Step, BP!Continue
<1>2. BP!Grows /\ BP!NewOf(r)
  BY <1>1, BP!InsertGrows, Assumptions DEF BP!Sound
<1>3. BP!RowsOK /\ BP!RowsOK'
  BY <1>1, BP!SoundStep, Assumptions DEF BP!Sound
<1>4. bookingReq[r] \in BP!Creations
  BY <1>3, BP!Shapes, Assumptions DEF BP!InsertBooking, BP!At, BP!Creating
<1>5. booking'[bookingReq[r].id].room = bookingReq[r].room /\ bookingReq[r].id \in BP!Existing'
  BY <1>3, <1>4 DEF BP!InsertBooking, BP!RowsOK, BP!Creations, BP!Existing, BP!NoBooking
<1>6. BP!Existing' = BP!Existing \cup {bookingReq[r].id}
  BY <1>2, <1>5 DEF BP!Grows, BP!NewOf
<1>7. \A b \in BP!Existing : booking'[b].room = booking[b].room
  BY <1>2 DEF BP!Grows
<1> QED
  BY <1>3, <1>5, <1>6, <1>7, BookedRooms

-------------------------------------------------------------------------------
(* The inductive invariant of the hotel *)

\* Either service keeps what it keeps alone.
Inductive == RP!Inductive /\ BP!Sound /\ failed \in BOOLEAN /\ marked \subseteq RoomIds

\* The booking that a status change is of has a room that exists.
LEMMA ChangedRoomExists ==
    ASSUME Inductive, NEW r \in BookingRequests, BP!At(r, "room")
    PROVE  bookingReq[r].room \in Booked \cap RP!Existing /\ bookingReq[r] \in BP!StatusChanges
<1>1. BP!RowsOK /\ BP!RequestsOK
  BY DEF Inductive, BP!Sound
<1>2. bookingReq[r] \in BP!StatusChanges
  BY <1>1, BP!Shapes, Assumptions
<1>3. BP!ChangeOK(r)
  BY <1>1 DEF BP!RequestsOK, BP!Changing, BP!At
<1>4. /\ bookingReq[r].id \in BP!Existing
      /\ bookingReq[r].room = booking[bookingReq[r].id].room
  BY <1>2, <1>3 DEF BP!ChangeOK, BP!StatusChanges
<1>5. bookingReq[r].room \in Booked
  BY <1>1, <1>4, BookedRooms
<1>6. bookingReq[r].room \in RoomIds
  BY <1>2 DEF BP!StatusChanges
<1> QED
  BY <1>2, <1>5, <1>6 DEF Inductive, RP!Inductive, RP!ReferencesKept, RP!Referenced

\* A request of the booking service that moves on, books a room that exists, gives
\* a booked room one of its three statuses, or does nothing that the room service sees.
LEMMA ContinueIsRoomStep ==
    ASSUME Inductive, NEW r \in BookingRequests, B!Continue(r), room' \in Rewritten,
           UNCHANGED rooming, B!At(r, "insert") => HasRoom(r)
    PROVE  [R!BookingService]_R!vars /\ BP!Step(r)
<1>1. BP!Sound /\ R!TypeOK
  BY SameRooms DEF Inductive, RP!Inductive
<1>2. BP!Continue(r) /\ BP!Step(r)
  BY SameBookingSteps DEF BP!Step
<1>3. UNCHANGED <<totalRooms, task, roomAudit, roomReq>>
  BY DEF rooming
<1>4. CASE BP!UpdateRoom(r)
  <2> DEFINE id == bookingReq[r].room
             status == BP!RoomStatusFor(bookingReq[r].to)
  <2>1. id \in Booked /\ id \in RP!Existing /\ id \in RoomIds
    BY <1>4, ChangedRoomExists DEF BP!UpdateRoom, BP!StatusChanges
  <2>2. status \in {"RESERVED", "OCCUPIED", "AVAILABLE"}
    BY DEF BP!RoomStatusFor
  <2>3. StatusColumn' = [StatusColumn EXCEPT ![id] = status] /\ booking' = booking
    BY <1>4 DEF BP!UpdateRoom
  <2> HIDE DEF id, status
  <2>4. room' = [room EXCEPT ![id].status = status]
    <3>1. status \in R!RoomStatuses
      BY <2>2 DEF R!RoomStatuses
    <3> QED
      BY <1>1, <2>1, <2>3, <3>1, ColumnWritten, SameRooms
  <2>5. Booked' = Booked
    BY <2>3 DEF Booked
  <2>6. R!WriteBookedStatus(id)
    BY <1>3, <2>1, <2>2, <2>4, <2>5 DEF R!WriteBookedStatus
  <2> QED
    BY <1>2, <2>1, <2>6 DEF R!BookingService
<1>5. CASE UNCHANGED StatusColumn
  <2>1. room' = room
    BY <1>1, <1>5, ColumnKept
  <2>2. CASE BP!InsertBooking(r) /\ bookingReq[r].number \notin BP!Numbers
    <3>1. Booked' = Booked \cup {bookingReq[r].room}
      BY <1>1, <2>2, BookedInsert
    <3>2. bookingReq[r].room \in R!Existing
      BY <2>2 DEF HasRoom, BP!InsertBooking, BP!At, B!At
    <3>3. R!BookRoom(bookingReq[r].room)
      BY <1>3, <2>1, <3>1, <3>2 DEF R!BookRoom
    <3> QED
      BY <1>2, <3>2, <3>3 DEF R!BookingService, R!Existing
  <2>3. CASE BP!InsertBooking(r) => bookingReq[r].number \in BP!Numbers
    <3>1. Booked' = Booked
      BY <1>1, <1>2, <2>3, BookedStep
    <3> QED
      BY <1>2, <1>3, <2>1, <3>1 DEF R!vars
  <2> QED
    BY <2>2, <2>3
<1> QED
  BY <1>2, <1>4, <1>5 DEF BP!Continue, BP!CheckRoomAvailability, BP!GenerateBookingNumber,
     BP!InsertBooking, BP!WriteDates, BP!WriteStatus, BP!TriggerHousekeeping, BP!LogAction

\* So does one that begins, that fails, or whose insert the foreign key refuses.
LEMMA QuietIsRoomStep ==
    ASSUME UNCHANGED <<room, booking, rooming>>
    PROVE  [R!BookingService]_R!vars
BY DEF R!vars, Booked, rooming

\* Each step of the booking service is one of both services.
LEMMA BookingStep ==
    ASSUME Inductive, NEW r \in BookingRequests,
           BookingBegin(r) \/ BookingContinue(r) \/ BookingFail(r)
    PROVE  [R!BookingService]_R!vars /\ BP!Step(r)
<1>1. CASE BookingBegin(r)
  <2>1. BP!Begin(r) /\ UNCHANGED <<room, rooming>>
    BY <1>1, SameBookingSteps DEF BookingBegin
  <2>2. booking' = booking
    BY <2>1 DEF BP!Begin, BP!BeginCreate, BP!BeginUpdate, BP!BeginStatus, BP!BeginCancel,
       BP!BeginCheckIn, BP!BeginCheckOut, BP!BeginStatusChange
  <2> QED
    BY <2>1, <2>2, QuietIsRoomStep DEF BP!Step
<1>2. CASE BookingContinue(r) /\ B!At(r, "insert") /\ ~ HasRoom(r)
  <2>1. /\ BP!Finish(r)
        /\ UNCHANGED <<room, booking, housekeeping, bookingAudit, rooming>>
    BY <1>2, SameBookingSteps DEF BookingContinue
  <2>2. StatusColumn' = StatusColumn
    BY <2>1 DEF StatusColumn, R!Existing
  <2>3. bookingReq[r] # BP!Idle
    BY <1>2 DEF B!At, BP!Idle
  <2>4. BP!Step(r)
    BY <2>1, <2>2, <2>3 DEF BP!Step, BP!Stop
  <2> QED
    BY <2>1, <2>4, QuietIsRoomStep
<1>3. CASE BookingContinue(r) /\ (B!At(r, "insert") => HasRoom(r))
  BY <1>3, ContinueIsRoomStep DEF BookingContinue
<1>4. CASE BookingFail(r)
  <2>1. /\ bookingReq[r] # BP!Idle /\ BP!Finish(r)
        /\ UNCHANGED <<room, booking, housekeeping, bookingAudit, rooming>>
    BY <1>4, SameBookingSteps DEF BookingFail, B!Fail, B!Idle, BP!Idle
  <2>2. StatusColumn' = StatusColumn
    BY <2>1 DEF StatusColumn, R!Existing
  <2>3. BP!Step(r)
    BY <2>1, <2>2 DEF BP!Step, BP!Stop
  <2> QED
    BY <2>1, <2>3, QuietIsRoomStep
<1> QED
  BY <1>1, <1>2, <1>3, <1>4

\* And so is each step of the room service.
LEMMA RoomStep ==
    ASSUME NEW r \in RoomRequests, RoomBegin(r) \/ RoomContinue(r) \/ RoomFail(r)
    PROVE  R!Next /\ UNCHANGED <<booking, housekeeping, bookingAudit, bookingReq>>
BY DEF RoomBegin, RoomContinue, RoomFail, R!Next, bookings

\* In the initial state both services have what they keep.
LEMMA InductiveInit == Init => Inductive
<1> SUFFICES ASSUME Init PROVE Inductive
  OBVIOUS
<1>1. RP!Init /\ BP!Init
  BY SameRooms, SameBookings DEF Init
<1> QED
  BY <1>1, RP!InductiveInit, BP!SoundInit, Assumptions DEF Inductive, Init

\* The inductive step, which shows too that the hotel's steps are the room service's.
LEMMA InductiveStep == Inductive /\ [Next]_vars => Inductive' /\ [R!Next]_R!vars
<1> SUFFICES ASSUME Inductive, [Next]_vars PROVE Inductive' /\ [R!Next]_R!vars
  OBVIOUS
<1>1. ASSUME [R!Next]_R!vars PROVE RP!Inductive'
  <2>1. [RP!Next]_RP!vars
    BY <1>1, SameRoomSteps DEF R!Next, RP!Next, R!vars, RP!vars
  <2> QED
    BY <2>1, RP!InductiveStep, Assumptions DEF Inductive
<1>2. ASSUME UNCHANGED <<booking, housekeeping, bookingAudit, bookingReq>> PROVE BP!Sound'
  BY <1>2, BP!SoundAlone, Assumptions DEF Inductive
<1>3. failed' \in BOOLEAN /\ marked' \subseteq RoomIds
  <2>1. Changed \subseteq RoomIds
    BY DEF Changed
  <2> QED
    BY <2>1 DEF Inductive, Next, vars, RoomBegin, RoomContinue, RoomFail, BookingBegin,
       BookingContinue, BookingFail
<1>4. CASE UNCHANGED vars
  <2>1. UNCHANGED R!vars
    BY <1>4 DEF vars, rooming, bookings, R!vars, Booked
  <2> QED
    BY <1>1, <1>2, <1>3, <1>4, <2>1 DEF vars, bookings, Inductive
<1>5. ASSUME NEW r \in RoomRequests, RoomBegin(r) \/ RoomContinue(r) \/ RoomFail(r)
      PROVE  Inductive' /\ [R!Next]_R!vars
  BY <1>1, <1>2, <1>3, <1>5, RoomStep DEF Inductive
<1>6. ASSUME NEW r \in BookingRequests,
             BookingBegin(r) \/ BookingContinue(r) \/ BookingFail(r)
      PROVE  Inductive' /\ [R!Next]_R!vars
  <2>1. [R!Next]_R!vars /\ BP!Step(r)
    BY <1>6, BookingStep DEF R!Next
  <2>2. BP!Sound'
    BY <2>1, BP!SoundStep, Assumptions DEF Inductive
  <2> QED
    BY <1>1, <1>3, <2>1, <2>2 DEF Inductive
<1> QED
  BY <1>4, <1>5, <1>6 DEF Next

\* Every reachable state has the inductive invariant.
LEMMA InductiveInvariant == Spec => []Inductive
<1>1. Inductive /\ [Next]_vars => Inductive'
  BY InductiveStep
<1> QED
  BY <1>1, InductiveInit, PTL DEF Spec

\* The rows and the requests of both services have the shape the code gives them,
\* though either writes a table of the other.
THEOREM HotelTypeCorrect == Spec => []TypeOK
<1>1. Inductive => TypeOK
  BY SameRooms, SameBookings DEF Inductive, RP!Inductive, BP!Sound, TypeOK
<1> QED
  BY <1>1, InductiveInvariant, PTL

\* Every booking is of a room that exists, whatever creations of bookings race
\* deletions of rooms (bookings.roomId is a foreign key, and deleteRoom looks for none).
THEOREM HotelReferencesKept == Spec => []BookingsHaveRooms
<1>1. Inductive => BookingsHaveRooms
  <2> SUFFICES ASSUME Inductive, NEW id \in Booked PROVE id \in R!Existing
    BY DEF BookingsHaveRooms
  <2>1. id \in RoomIds
    BY DEF Inductive, RP!Inductive, RP!TypeOK
  <2> QED
    BY <2>1, SameRooms DEF Inductive, RP!Inductive, RP!ReferencesKept, RP!Referenced
<1> QED
  BY <1>1, InductiveInvariant, PTL

\* The booking service beside the room service is what Rooms takes it for: it books
\* rooms that exist and gives booked rooms one of three statuses, and nothing else.
THEOREM HotelImplementsRooms == Spec => ImplementsRooms
<1>1. Init => R!Init
  BY DEF Init
<1>2. Inductive /\ [Next]_vars => [R!Next]_R!vars
  BY InductiveStep
<1> QED
  BY <1>1, <1>2, InductiveInvariant, PTL DEF Spec, ImplementsRooms

\* What either service keeps alone it keeps beside the other: room numbers are
\* unique, bookings have possible histories and daily numbers without a gap.
THEOREM HotelKeepsBoth == Spec => [](R!NumbersUnique /\ B!HistoryOK /\ B!NumbersConsecutive)
<1>1. Inductive => R!NumbersUnique /\ B!HistoryOK /\ B!NumbersConsecutive
  BY SameRooms, SameBookings DEF Inductive, RP!Inductive, BP!Sound
<1> QED
  BY <1>1, InductiveInvariant, PTL

\* A step of the hotel is one of a booking request or leaves the bookings alone.
LEMMA HotelStep ==
    ASSUME Inductive, [Next]_vars
    PROVE  \/ \E r \in BookingRequests : BP!Step(r)
           \/ UNCHANGED <<booking, bookingAudit>>
BY BookingStep, RoomStep DEF Next, vars, bookings

\* The audit log tells the truth in the hotel too, where a foreign key may refuse
\* what a handler is about to write.
THEOREM HotelAuditCorrect == Spec => []B!AuditBacked
<1>1. B!AuditBacked <=> BP!AuditBacked
  BY DEF B!AuditBacked, BP!AuditBacked, B!Existing, BP!Existing, B!NoBooking, BP!NoBooking,
     B!Stamps, BP!Stamps
<1>2. Init => BP!AuditBacked
  BY DEF Init, B!Init, BP!AuditBacked
<1>3. Inductive /\ BP!AuditBacked /\ [Next]_vars => BP!AuditBacked'
  <2> SUFFICES ASSUME Inductive, BP!AuditBacked, [Next]_vars PROVE BP!AuditBacked'
    OBVIOUS
  <2>1. ASSUME NEW r \in BookingRequests, BP!Step(r) PROVE BP!AuditBacked'
    BY <2>1, BP!AuditStep, Assumptions DEF Inductive
  <2>2. CASE UNCHANGED <<booking, bookingAudit>>
    BY <2>2 DEF BP!AuditBacked, BP!Existing
  <2> QED
    BY <2>1, <2>2, HotelStep
<1> QED
  BY <1>1, <1>2, <1>3, InductiveInvariant, PTL DEF Spec

\* The booking service keeps the promise of BookingLifecycle beside the room service.
THEOREM HotelImplementsLifecycle == Spec => B!ImplementsLifecycle
<1>1. Init => B!Lifecycle!Init
  BY DEF Init, B!Init, B!Lifecycle!Init, B!RecordedEvents
<1>2. Inductive /\ [Next]_vars => [B!Lifecycle!Next]_(B!RecordedEvents)
  <2> SUFFICES ASSUME Inductive, [Next]_vars PROVE [B!Lifecycle!Next]_(B!RecordedEvents)
    OBVIOUS
  <2>1. ASSUME NEW r \in BookingRequests, BP!Step(r)
        PROVE  [BP!Lifecycle!Next]_(BP!RecordedEvents)
    BY <2>1, BP!StepRecords, Assumptions DEF Inductive
  <2>2. CASE UNCHANGED <<booking, bookingAudit>>
    BY <2>2 DEF B!RecordedEvents
  <2>3. ASSUME [BP!Lifecycle!Next]_(BP!RecordedEvents)
        PROVE  [B!Lifecycle!Next]_(B!RecordedEvents)
    BY <2>3 DEF B!RecordedEvents, BP!RecordedEvents, B!NoBooking, BP!NoBooking,
       B!EventOf, BP!EventOf, B!Lifecycle!Next, BP!Lifecycle!Next,
       B!Lifecycle!Record, BP!Lifecycle!Record, B!Lifecycle!Events, BP!Lifecycle!Events,
       B!Lifecycle!Predecessors, BP!Lifecycle!Predecessors
  <2> QED
    BY <2>1, <2>2, <2>3, HotelStep
<1> QED
  BY <1>1, <1>2, InductiveInvariant, PTL DEF Spec, B!ImplementsLifecycle, B!Lifecycle!Spec

-------------------------------------------------------------------------------
(* The figures of the two services *)

\* The status of the room has its booking, unless a client was the last to change it or a
\* booking request has yet to write it.
Accounted(id) == \/ id \in marked
                 \/ BP!Explained(id)
                 \/ \E r \in BookingRequests : BP!At(r, "room") /\ bookingReq[r].room = id

RoomsAccounted == \A id \in RoomIds : Accounted(id)

\* Both services are sound, what the booking request decided on is still so, and room
\* requests ask for nothing but what clients may; until a request fails the counter counts
\* the rooms and their statuses are accounted for.
Agreeing == /\ Inductive
            /\ IsFiniteSet(BP!Existing)
            /\ BP!DecisionsHold
            /\ RP!AskedOK
            /\ ~ failed => RP!Counted /\ RoomsAccounted

\* Nothing is booked at first and no room is there.
LEMMA AgreeingInit == Init => Agreeing
<1> SUFFICES ASSUME Init PROVE Agreeing
  OBVIOUS
<1>1. RP!Init /\ BP!Init /\ Inductive
  BY InductiveInit, SameRooms, SameBookings DEF Init
<1>2. BP!DecisionsHold /\ RoomsAccounted
  BY <1>1, BP!AloneInit, Assumptions DEF RoomsAccounted, Accounted, BP!RoomsExplained
<1>3. RP!AskedOK
  BY <1>1 DEF RP!Init, RP!AskedOK, RP!Idle
<1>4. RP!Counted
  BY <1>1, RP!CountedInit, Assumptions
<1>5. BP!Existing = {}
  BY <1>1 DEF BP!Init, BP!Existing
<1>6. IsFiniteSet(BP!Existing)
  BY <1>5, FS_EmptySet
<1> QED
  BY <1>1, <1>2, <1>3, <1>4, <1>6 DEF Agreeing

\* A step of a booking request adds one booking at most.
LEMMA FiniteStep ==
    ASSUME BP!Sound, IsFiniteSet(BP!Existing), NEW r \in BookingRequests, BP!Step(r)
    PROVE  IsFiniteSet(BP!Existing')
<1>1. BP!NewOf(r)
  BY BP!StepGrows, Assumptions DEF BP!Sound
<1>2. BP!Existing' \subseteq BP!Existing \cup {bookingReq[r].id}
  BY <1>1 DEF BP!NewOf
<1>3. IsFiniteSet(BP!Existing \cup {bookingReq[r].id})
  BY FS_AddElement
<1> QED
  BY <1>2, <1>3, FS_Subset

\* A room that the room service gives another status is marked: the others go on as before.
LEMMA RoomsMarked ==
    ASSUME RoomsAccounted, NEW r \in RoomRequests, RoomBegin(r) \/ RoomContinue(r)
    PROVE  RoomsAccounted'
<1>1. UNCHANGED <<booking, bookingReq>>
  BY DEF RoomBegin, RoomContinue, bookings
<1>2. marked \subseteq marked'
      /\ \A id \in RoomIds : id \in marked' \/ StatusColumn'[id] = StatusColumn[id]
  <2>1. CASE RoomBegin(r)
    <3>1. UNCHANGED <<room, marked>>
      BY <2>1 DEF RoomBegin, R!Begin, R!BeginCreate, R!BeginUpdate, R!BeginStatus,
         R!BeginDelete, R!BeginHousekeeping
    <3> QED
      BY <3>1 DEF StatusColumn, R!Existing
  <2>2. CASE RoomContinue(r)
    BY <2>2 DEF RoomContinue, Changed
  <2> QED
    BY <2>1, <2>2
<1>3. ASSUME NEW id \in RoomIds PROVE Accounted(id)'
  <2>1. BP!Explained(id) /\ StatusColumn'[id] = StatusColumn[id] => BP!Explained(id)'
    BY <1>1, BP!ExplainedKept, Assumptions
  <2> QED
    BY <1>1, <1>2, <2>1 DEF RoomsAccounted, Accounted, BP!At
<1> QED
  BY <1>3 DEF RoomsAccounted

\* A room that a booking request gives another status is explained by its booking.
LEMMA RoomsUnmarked ==
    ASSUME BP!OneAtATime, BP!Sound, BP!DecisionsHold, RoomsAccounted,
           NEW r \in BookingRequests, BookingBegin(r) \/ BookingContinue(r),
           BP!Step(r), BP!Stop(r) => ~ BP!At(r, "room")
    PROVE  RoomsAccounted'
<1>1. \A id \in RoomIds : id \in marked =>
          id \in marked' \/ StatusColumn'[id] # StatusColumn[id]
  BY DEF BookingBegin, BookingContinue, Changed
<1>2. DOMAIN StatusColumn = RoomIds
  BY DEF StatusColumn
<1>3. ASSUME NEW id \in RoomIds PROVE Accounted(id)'
  <2>1. CASE id \in marked'
    BY <2>1 DEF Accounted
  <2>2. CASE id \notin marked'
    <3>1. \/ BP!Explained(id)
          \/ BP!At(r, "room") /\ bookingReq[r].room = id
          \/ StatusColumn'[id] # StatusColumn[id]
      BY <1>1, <2>2 DEF RoomsAccounted, Accounted, BP!OneAtATime
    <3>2. BP!Explained(id)' \/ (BP!At(r, "room") /\ bookingReq[r].room = id)'
      BY <1>2, <3>1, BP!ExplainedStep, Assumptions
    <3> QED
      BY <3>2 DEF Accounted
  <2> QED
    BY <2>1, <2>2
<1> QED
  BY <1>3 DEF RoomsAccounted

\* A step of either service keeps it, whether the request works or fails.
LEMMA AgreeingStep ==
    ASSUME BP!OneAtATime, Agreeing, [Next]_vars
    PROVE  Agreeing'
<1> USE DEF Agreeing
<1>1. Inductive' /\ BP!Sound /\ RP!Inductive
  BY InductiveStep DEF Inductive
<1>2. ASSUME UNCHANGED vars PROVE Agreeing'
  <2>1. UNCHANGED <<RP!vars, BP!vars, failed>>
    BY <1>2 DEF vars, rooming, bookings, RP!vars, BP!vars, Booked, StatusColumn, R!Existing
  <2>2. IsFiniteSet(BP!Existing)' /\ BP!DecisionsHold' /\ RP!AskedOK'
    BY <2>1 DEF BP!vars, BP!Existing, BP!DecisionsHold, BP!DecisionOK, BP!At, BP!Conflicts,
       BP!BookingsOf, RP!vars, RP!AskedOK
  <2>3. ~ failed => RP!Counted'
    BY <1>1, <2>1, RP!CountedStep, Assumptions
  <2>4. ~ failed => RoomsAccounted'
    BY <1>2, <2>1 DEF vars, BP!vars, RoomsAccounted, Accounted, BP!Explained, BP!BookingsOf,
       BP!Existing, BP!At
  <2> QED
    BY <1>1, <2>1, <2>2, <2>3, <2>4
<1>3. ASSUME NEW r \in RoomRequests, RoomBegin(r) \/ RoomContinue(r) \/ RoomFail(r)
      PROVE  Agreeing'
  <2>1. RP!Begin(r) \/ RP!Continue(r) \/ RP!Fail(r)
    BY <1>3, SameRoomSteps DEF RoomBegin, RoomContinue, RoomFail
  <2>2. UNCHANGED <<booking, bookingReq>>
    BY <1>3 DEF RoomBegin, RoomContinue, RoomFail, bookings
  <2>3. IsFiniteSet(BP!Existing)' /\ BP!DecisionsHold'
    BY <2>2 DEF BP!Existing, BP!DecisionsHold, BP!DecisionOK, BP!At, BP!Conflicts, BP!BookingsOf
  <2>4. RP!AskedOK'
    BY <1>1, <2>1, RP!AskedStep, Assumptions DEF RP!Inductive
  <2>5. ~ failed' => /\ ~ failed /\ (RP!Begin(r) \/ RP!Continue(r))
                     /\ RoomBegin(r) \/ RoomContinue(r)
    BY <1>3, SameRoomSteps DEF RoomBegin, RoomContinue, RoomFail
  <2>6. ~ failed' => RP!Counted'
    BY <1>1, <2>5, RP!CountedStep, Assumptions
  <2>7. ~ failed' => RoomsAccounted'
    BY <2>5, RoomsMarked
  <2> QED
    BY <1>1, <2>3, <2>4, <2>6, <2>7
<1>4. ASSUME NEW r \in BookingRequests,
             BookingBegin(r) \/ BookingContinue(r) \/ BookingFail(r)
      PROVE  Agreeing'
  <2>1. [R!BookingService]_R!vars /\ BP!Step(r)
    BY <1>4, BookingStep
  <2>2. IsFiniteSet(BP!Existing)' /\ BP!DecisionsHold'
    BY <1>1, <2>1, FiniteStep, BP!DecisionStep, Assumptions
  <2>3. UNCHANGED roomReq
    BY <1>4 DEF BookingBegin, BookingContinue, BookingFail, rooming
  <2>4. RP!AskedOK'
    BY <2>3 DEF RP!AskedOK
  <2>5. ~ failed' => /\ ~ failed /\ (BP!Stop(r) => ~ BP!At(r, "room"))
                     /\ BookingBegin(r) \/ BookingContinue(r)
    <3>1. CASE BookingBegin(r) \/ (BookingContinue(r) /\ ~ (B!At(r, "insert") /\ ~ HasRoom(r)))
      <4>1. (BP!Begin(r) \/ BP!Continue(r)) /\ UNCHANGED failed
        BY <3>1, SameBookingSteps DEF BookingBegin, BookingContinue
      <4> QED
        BY <1>1, <3>1, <4>1, BP!WorkWritesRoom, Assumptions DEF BP!Sound
    <3>2. CASE BookingContinue(r) /\ B!At(r, "insert")
      BY <3>2 DEF BookingContinue, B!At, BP!At
    <3>3. CASE BookingFail(r)
      BY <3>3 DEF BookingFail
    <3> QED
      BY <1>4, <3>1, <3>2, <3>3
  <2>6. ~ failed' => RP!Counted'
    <3>1. [RP!BookingService]_RP!vars
      BY <2>1, SameRoomSteps DEF R!vars, RP!vars
    <3> QED
      BY <1>1, <2>5, <3>1, RP!CountedStep, Assumptions
  <2>7. ~ failed' => RoomsAccounted'
    BY <1>1, <2>1, <2>5, RoomsUnmarked
  <2> QED
    BY <1>1, <2>2, <2>4, <2>6, <2>7
<1> QED
  BY <1>2, <1>3, <1>4 DEF Next

\* There are no more rooms of a kind than bookings if each has one of its own.
LEMMA NoMoreRooms ==
    ASSUME NEW Marked, NEW Live, IsFiniteSet(Live), NEW roomOf,
           \A id \in Marked : \E b \in Live : roomOf[b] = id
    PROVE  IsFiniteSet(Marked) /\ Cardinality(Marked) <= Cardinality(Live)
<1> DEFINE f == [id \in Marked |-> CHOOSE b \in Live : roomOf[b] = id]
<1>1. \A id \in Marked : f[id] \in Live /\ roomOf[f[id]] = id
  OBVIOUS
<1>2. f \in [Marked -> Live]
  BY <1>1
<1> HIDE DEF f
<1>3. \A id, other \in Marked : f[id] = f[other] => id = other
  BY <1>1
<1>4. f \in Injection(Marked, Live)
  BY <1>2, <1>3, Fun_IsInj
<1> QED
  BY <1>4, FS_Injection

\* A finite set is what lies in a part of it and what does not.
LEMMA PartAndRest ==
    ASSUME NEW S, IsFiniteSet(S), NEW T
    PROVE  /\ Cardinality(S) = Cardinality(S \ T) + Cardinality(S \cap T)
           /\ Cardinality(S) \in Nat /\ Cardinality(S \ T) \in Nat
           /\ Cardinality(S \cap T) \in Nat
<1>1. /\ IsFiniteSet(S \ T) /\ IsFiniteSet(S \cap T)
      /\ Cardinality(S) \in Nat /\ Cardinality(S \cap T) \in Nat
      /\ Cardinality(S \ T) \in Nat
  BY FS_Subset, FS_CardinalityType
<1>2. Cardinality(S \ T) = Cardinality(S) - Cardinality(S \cap T)
  BY FS_Difference
<1> QED
  BY <1>1, <1>2

\* Between requests the two services' figures fit.
LEMMA AgreeingFigures == Agreeing => FiguresExplained
<1> SUFFICES ASSUME Agreeing, Quiescent, ~ failed PROVE FiguresExplained
  BY DEF FiguresExplained
<1> DEFINE made == B!Existing
           inHouse == BookingsIn("CHECKED_IN")
           cancelled == BookingsIn("CANCELLED")
           occupied == RoomsIn("OCCUPIED")
           reserved == RoomsIn("RESERVED")
           held == occupied \cup reserved
           roomOf == [b \in made |-> booking[b].room]
<1>0. FiguresExplained <=>
         /\ RoomStatistics.totalRooms = totalRooms
         /\ RoomStatistics.occupiedRooms
               <= BookingStatistics.checkedInBookings + Cardinality(occupied \cap marked)
         /\ RoomStatistics.occupiedRooms + RoomStatistics.reservedRooms
               <= BookingStatistics.totalBookings - BookingStatistics.cancelledBookings
                  + Cardinality(held \cap marked)
  BY DEF FiguresExplained
<1>1. /\ RoomStatistics.totalRooms = Cardinality(R!Existing)
      /\ RoomStatistics.occupiedRooms = Cardinality(occupied)
      /\ RoomStatistics.reservedRooms = Cardinality(reserved)
      /\ BookingStatistics.checkedInBookings = Cardinality(inHouse)
      /\ BookingStatistics.totalBookings = Cardinality(made)
      /\ BookingStatistics.cancelledBookings = Cardinality(cancelled)
  BY DEF RoomStatistics, BookingStatistics
<1>2. /\ IsFiniteSet(made) /\ inHouse \subseteq made /\ cancelled \subseteq made
      /\ \A b \in inHouse : b \notin cancelled
  BY SameBookings DEF Agreeing, BookingsIn
<1>3. \A id \in RoomIds \ marked : BP!Explained(id)
  BY DEF Agreeing, RoomsAccounted, Accounted, Quiescent, BP!At, B!Idle
<1>4. \A id \in occupied \ marked : \E b \in inHouse : roomOf[b] = id
  <2> SUFFICES ASSUME NEW id \in occupied \ marked PROVE \E b \in inHouse : roomOf[b] = id
    OBVIOUS
  <2>1. id \in RoomIds \ marked /\ StatusColumn[id] = "OCCUPIED"
    BY DEF RoomsIn, R!Existing, StatusColumn
  <2>2. PICK b \in BP!Existing : booking[b].room = id /\ booking[b].status = "CHECKED_IN"
    BY <1>3, <2>1 DEF BP!Explained, BP!BookingsOf
  <2> QED
    BY <2>2, SameBookings DEF BookingsIn
<1>5. \A id \in reserved \ marked : \E b \in made \ cancelled : roomOf[b] = id
  <2> SUFFICES ASSUME NEW id \in reserved \ marked PROVE \E b \in made \ cancelled : roomOf[b] = id
    OBVIOUS
  <2>1. id \in RoomIds \ marked /\ StatusColumn[id] = "RESERVED"
    BY DEF RoomsIn, R!Existing, StatusColumn
  <2>2. PICK b \in BP!Existing :
            booking[b].room = id /\ booking[b].status \in {"PENDING", "CONFIRMED"}
    BY <1>3, <2>1 DEF BP!Explained, BP!BookingsOf
  <2> QED
    BY <2>2, SameBookings DEF BookingsIn
<1>6. /\ \A id \in occupied : id \notin reserved
      /\ occupied \subseteq R!Existing /\ reserved \subseteq R!Existing
  BY DEF RoomsIn
<1>7. Cardinality(R!Existing) = totalRooms /\ IsFiniteSet(R!Existing)
  <2>1. RP!Counting("create") = {} /\ RP!Counting("delete") = {}
    BY DEF Quiescent, R!Idle, RP!Counting, RP!At
  <2>2. Cardinality({}) = 0
    BY FS_EmptySet
  <2>3. Cardinality(R!Existing) \in Nat /\ IsFiniteSet(R!Existing)
    BY FS_CardinalityType, SameCounts, SameRooms DEF Agreeing, RP!Counted
  <2>4. totalRooms = Cardinality(R!Existing) - Cardinality({}) + Cardinality({})
    BY <2>1, SameCounts, SameRooms DEF Agreeing, RP!Counted, RP!TotalRoomsExact
  <2> QED
    BY <2>2, <2>3, <2>4
<1>8. held = occupied \cup reserved
  OBVIOUS
<1> HIDE DEF made, inHouse, cancelled, occupied, reserved, held, roomOf
<1>9. /\ IsFiniteSet(inHouse) /\ IsFiniteSet(made \ cancelled)
      /\ IsFiniteSet(occupied) /\ IsFiniteSet(reserved) /\ IsFiniteSet(held)
  BY <1>2, <1>6, <1>7, <1>8, FS_Subset
<1>10. Cardinality(occupied \ marked) <= Cardinality(inHouse)
  BY <1>4, <1>9, NoMoreRooms
<1>11. Cardinality(held \ marked) <= Cardinality(made \ cancelled)
  <2>1. \A id \in held \ marked : \E b \in made \ cancelled : roomOf[b] = id
    BY <1>2, <1>4, <1>5, <1>8
  <2> QED
    BY <1>9, <2>1, NoMoreRooms
<1>12. Cardinality(made \ cancelled) = Cardinality(made) - Cardinality(cancelled)
  <2>1. Cardinality(made \ cancelled) = Cardinality(made) - Cardinality(made \cap cancelled)
    BY <1>2, FS_Difference
  <2>2. made \cap cancelled = cancelled
    BY <1>2
  <2> QED
    BY <2>1, <2>2
<1>13. Cardinality(held) = Cardinality(occupied) + Cardinality(reserved)
  <2>1. Cardinality(occupied \cup reserved)
           = Cardinality(occupied) + Cardinality(reserved) - Cardinality(occupied \cap reserved)
    BY <1>9, FS_Union
  <2>2. occupied \cap reserved = {}
    BY <1>6
  <2>3. Cardinality(occupied \cap reserved) = 0
    BY <2>2, FS_EmptySet
  <2>4. Cardinality(occupied) \in Nat /\ Cardinality(reserved) \in Nat
    BY <1>9, FS_CardinalityType
  <2> QED
    BY <1>8, <2>1, <2>3, <2>4
<1>14. /\ Cardinality(inHouse) \in Nat /\ Cardinality(made) \in Nat
       /\ Cardinality(cancelled) \in Nat
  BY <1>2, <1>9, FS_Subset, FS_CardinalityType
<1>15. Cardinality(occupied) <= Cardinality(inHouse) + Cardinality(occupied \cap marked)
  <2>1. /\ Cardinality(occupied) = Cardinality(occupied \ marked) + Cardinality(occupied \cap marked)
        /\ Cardinality(occupied \ marked) \in Nat /\ Cardinality(occupied \cap marked) \in Nat
    BY <1>9, PartAndRest
  <2> QED
    BY <1>10, <1>14, <2>1
<1>16. Cardinality(held) <= Cardinality(made) - Cardinality(cancelled) + Cardinality(held \cap marked)
  <2>1. /\ Cardinality(held) = Cardinality(held \ marked) + Cardinality(held \cap marked)
        /\ Cardinality(held \ marked) \in Nat /\ Cardinality(held \cap marked) \in Nat
    BY <1>9, PartAndRest
  <2> QED
    BY <1>11, <1>12, <1>14, <2>1
<1> QED
  BY <1>0, <1>1, <1>7, <1>13, <1>15, <1>16

\* With one booking request at a time the figures of the two services fit between requests
\* as long as none has failed, however many requests to the room service race and whatever
\* they mark the rooms: rooms held beyond the bookings are rooms that a client was the last
\* to mark (UpdateRoom and the counter of the hotel are statements of their own, after
\* those that write the row).
THEOREM HotelFiguresExplained ==
    ASSUME BP!OneAtATime
    PROVE  Spec => []FiguresExplained
<1>1. Agreeing /\ [Next]_vars => Agreeing'
  BY AgreeingStep
<1> QED
  BY <1>1, AgreeingInit, AgreeingFigures, PTL DEF Spec
=============================================================================
