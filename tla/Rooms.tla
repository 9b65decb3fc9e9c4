-------------------------------- MODULE Rooms --------------------------------
(***************************************************************************)
(* The room service: the rooms of one hotel, the hotel's count of them, and *)
(* the housekeeping tasks of each room.                                    *)
(*                                                                         *)
(* As elsewhere no handler uses a transaction: req[r] is what request r    *)
(* still has to do, one action is one awaited statement.  The booking      *)
(* service runs beside this one and writes rooms and bookings of its own;  *)
(* the two actions at the end of the handlers stand for it.                *)
(***************************************************************************)
EXTENDS Sequences, FiniteSetsExt

CONSTANTS
    Requests,       \* requests that may be in progress at the same time
    RoomIds,        \* ids of the room rows (bounds the rooms ever made)
    RoomNumbers,    \* numbers that clients give to rooms
    NewStatuses,    \* room statuses that clients ask for
    TaskStatuses,   \* housekeeping statuses that clients report
    MaxTasks,       \* no housekeeping report is begun once there are so many tasks
    Unset,          \* a field the body of a request leaves out
    Calls,          \* the handlers that clients call
    UndefinedInList, \* whether a list filter may hold undefined (Prisma 5 rejects it)
    MayFail         \* whether a statement may fail or a server stop mid-request

\* enum RoomStatus and enum HousekeepingStatus.
RoomStatuses == {"AVAILABLE", "RESERVED", "OCCUPIED", "UNDER_MAINTENANCE", "CLEANING",
                 "OUT_OF_SERVICE"}
HousekeepingStatuses == {"PENDING", "IN_PROGRESS", "CLEANED", "INSPECTED", "MAINTENANCE_REQUIRED"}

ASSUME RoomsAssumption == /\ NewStatuses \subseteq RoomStatuses
                          /\ TaskStatuses \subseteq HousekeepingStatuses
                          /\ MaxTasks \in Nat
                          /\ Unset \notin RoomNumbers \cup RoomStatuses
                          /\ UndefinedInList \in BOOLEAN
                          /\ MayFail \in BOOLEAN

VARIABLES
    room,        \* the rooms table: a row, NoRoom or, once deleted, Deleted
    booked,      \* the rooms that have a row in the bookings table
    totalRooms,  \* hotels.totalRooms
    task,        \* the housekeeping table, in the order of createdAt
    audit,       \* the audit log, as the set of its entries
    req          \* the requests in progress

vars == <<room, booked, totalRooms, task, audit, req>>

-------------------------------------------------------------------------------
(* Rows *)

Room == [number : RoomNumbers, status : RoomStatuses, housekeeping : HousekeepingStatuses]

NoRoom == [status |-> "NONE"]
Deleted == [status |-> "DELETED"]

Task == [room : RoomIds, status : HousekeepingStatuses]

Existing == {id \in RoomIds : room[id] \notin {NoRoom, Deleted}}

\* The unique index on the hotel and the number: a row other than this one has it.
TakenByOther(number, id) == \E other \in Existing \ {id} : room[other].number = number

\* The rows whose foreign key keeps a room from being deleted.
Referenced(id) == id \in booked \/ \E i \in DOMAIN task : task[i].room = id

\* validateRoomStatusTransition.  RoomStatus has no CONFIRMED and no CANCELLED: the
\* table's last two entries for RESERVED are undefined, as is a status left out.
ValidTransitions ==
    [AVAILABLE         |-> {"RESERVED", "UNDER_MAINTENANCE", "CLEANING"},
     RESERVED          |-> {"AVAILABLE", Unset},
     UNDER_MAINTENANCE |-> {"AVAILABLE"},
     CLEANING          |-> {"AVAILABLE"},
     OCCUPIED          |-> {"AVAILABLE"},
     OUT_OF_SERVICE    |-> {"AVAILABLE"}]

\* What updateHousekeepingStatus looks for.
OpenTasks(id) ==
    {i \in DOMAIN task : task[i].room = id /\ task[i].status \in {"PENDING", "IN_PROGRESS"}}

-------------------------------------------------------------------------------
(* Requests *)

Idle == [op |-> "none", pc |-> "idle"]

Creations == [op : {"create"}, pc : {"insert", "count", "audit"},
              id : RoomIds, number : RoomNumbers]

\* price tells whether the body has a booking price.
Updates == [op : {"update"}, pc : {"read", "number", "write", "audit"}, id : RoomIds,
            number : RoomNumbers \cup {Unset}, status : RoomStatuses \cup {Unset},
            price : BOOLEAN]

StatusChanges == [op : {"status"}, pc : {"read", "write", "audit"}, id : RoomIds,
                  to : RoomStatuses \cup {Unset}]

Deletions == [op : {"delete"}, pc : {"read", "delete", "count", "audit"}, id : RoomIds]

\* updateHousekeepingStatus; found is the open task it updates, 0 for none.
Reports == [op : {"housekeeping"}, pc : {"room", "find", "task"}, id : RoomIds,
            status : HousekeepingStatuses, found : Nat]

RequestStates == {Idle} \cup Creations \cup Updates \cup StatusChanges \cup Deletions \cup Reports

AuditActions == {"ROOM_CREATED", "ROOM_UPDATED", "ROOM_STATUS_UPDATED", "ROOM_DELETED"}

At(r, pc) == req[r].pc = pc
Become(r, state) == req' = [req EXCEPT ![r] = state]
Goto(r, pc) == Become(r, [req[r] EXCEPT !.pc = pc])
Finish(r) == Become(r, Idle)

\* Ids never given to a row nor to a creation in progress.
FreeIds == {id \in RoomIds : /\ room[id] = NoRoom
                             /\ \A r \in Requests : ~ (req[r] # Idle /\ req[r].id = id)}

Init == /\ room = [id \in RoomIds |-> NoRoom]
        /\ booked = {}
        /\ totalRooms = 0
        /\ task = << >>
        /\ audit = {}
        /\ req = [r \in Requests |-> Idle]

-------------------------------------------------------------------------------
(* createRoom *)

\* A number already there refuses the request.
BeginCreate(r) ==
    /\ req[r] = Idle
    /\ \E id \in FreeIds, number \in RoomNumbers :
          /\ ~ TakenByOther(number, id)
          /\ Become(r, [op |-> "create", pc |-> "insert", id |-> id, number |-> number])
    /\ UNCHANGED <<room, booked, totalRooms, task, audit>>

\* Faulty: the number is not unique in the table.
InsertDuplicate(r) ==
    /\ At(r, "insert")
    /\ room' = [room EXCEPT ![req[r].id] =
                  [number |-> req[r].number, status |-> "AVAILABLE", housekeeping |-> "PENDING"]]
    /\ Goto(r, "count")
    /\ UNCHANGED <<booked, totalRooms, task, audit>>

InsertRoom(r) ==
    /\ At(r, "insert")
    /\ IF TakenByOther(req[r].number, req[r].id)
       THEN /\ Finish(r)
            /\ UNCHANGED room
       ELSE /\ room' = [room EXCEPT ![req[r].id] =
                          [number |-> req[r].number, status |-> "AVAILABLE",
                           housekeeping |-> "PENDING"]]
            /\ Goto(r, "count")
    /\ UNCHANGED <<booked, totalRooms, task, audit>>

\* The hotel's counter is incremented or decremented in the database.
UpdateTotalRooms(r) ==
    /\ At(r, "count")
    /\ totalRooms' = IF req[r].op = "create" THEN totalRooms + 1 ELSE totalRooms - 1
    /\ Goto(r, "audit")
    /\ UNCHANGED <<room, booked, task, audit>>

-------------------------------------------------------------------------------
(* updateRoom, updateRoomStatus, deleteRoom *)

BeginUpdate(r) ==
    /\ req[r] = Idle
    /\ \E id \in Existing, number \in RoomNumbers \cup {Unset},
          status \in NewStatuses \cup {Unset}, price \in BOOLEAN :
          Become(r, [op |-> "update", pc |-> "read", id |-> id, number |-> number,
                     status |-> status, price |-> price])
    /\ UNCHANGED <<room, booked, totalRooms, task, audit>>

BeginStatus(r) ==
    /\ req[r] = Idle
    /\ \E id \in Existing, to \in NewStatuses \cup {Unset} :
          Become(r, [op |-> "status", pc |-> "read", id |-> id, to |-> to])
    /\ UNCHANGED <<room, booked, totalRooms, task, audit>>

BeginDelete(r) ==
    /\ req[r] = Idle
    /\ \E id \in Existing : Become(r, [op |-> "delete", pc |-> "read", id |-> id])
    /\ UNCHANGED <<room, booked, totalRooms, task, audit>>

\* The checks of the row that was read.  deleteRoom then counts the room's
\* bookings in the statuses undefined and undefined, and so finds none.
Accepted(job) ==
    /\ job.id \in Existing
    /\ job.op = "status" => job.to \in ValidTransitions[room[job.id].status]

\* Faulty: whatever is asked of a room is an update of it.
AfterReadUpdate(op) == "number"

AfterRead(op) == CASE op = "update" -> "number"
                   [] op = "status" -> "write"
                   [] OTHER         -> "delete"

\* getRoomById includes the room's bookings in the statuses RoomStatus.CONFIRMED and
\* RoomStatus.CHECKED_IN, which are undefined.
GetRoomById(r) ==
    /\ At(r, "read")
    /\ IF UndefinedInList /\ Accepted(req[r])
       THEN Goto(r, AfterRead(req[r].op))
       ELSE Finish(r)
    /\ UNCHANGED <<room, booked, totalRooms, task, audit>>

CheckNumber(r) ==
    /\ At(r, "number")
    /\ IF req[r].number # Unset /\ TakenByOther(req[r].number, req[r].id)
       THEN Finish(r)
       ELSE Goto(r, "write")
    /\ UNCHANGED <<room, booked, totalRooms, task, audit>>

OrElse(new, old) == IF new # Unset THEN new ELSE old

\* A price in the body makes the room AVAILABLE: the number in it is never the same
\* as the decimal object of the row.
UpdatedRow(job) ==
    IF job.op = "status"
    THEN [room[job.id] EXCEPT !.status = OrElse(job.to, @)]
    ELSE [room[job.id] EXCEPT !.number = OrElse(job.number, @),
                              !.status = IF job.price THEN "AVAILABLE" ELSE OrElse(job.status, @)]

\* A row that is gone, or a number that another has by now, is an error.
WriteRoom(r) ==
    /\ At(r, "write")
    /\ IF req[r].id \in Existing /\ ~ TakenByOther(UpdatedRow(req[r]).number, req[r].id)
       THEN /\ room' = [room EXCEPT ![req[r].id] = UpdatedRow(req[r])]
            /\ Goto(r, "audit")
       ELSE /\ Finish(r)
            /\ UNCHANGED room
    /\ UNCHANGED <<booked, totalRooms, task, audit>>

\* Faulty: a row that is gone is no error.
DeleteAgain(r) ==
    /\ At(r, "delete")
    /\ IF ~ Referenced(req[r].id)
       THEN /\ room' = [room EXCEPT ![req[r].id] = Deleted]
            /\ Goto(r, "count")
       ELSE /\ Finish(r)
            /\ UNCHANGED room
    /\ UNCHANGED <<booked, totalRooms, task, audit>>

\* Faulty: no foreign key points to the room.
DeleteReferenced(r) ==
    /\ At(r, "delete")
    /\ IF req[r].id \in Existing
       THEN /\ room' = [room EXCEPT ![req[r].id] = Deleted]
            /\ Goto(r, "count")
       ELSE /\ Finish(r)
            /\ UNCHANGED room
    /\ UNCHANGED <<booked, totalRooms, task, audit>>

\* The delete of a row that is gone, or that others refer to, is an error.
DeleteRoom(r) ==
    /\ At(r, "delete")
    /\ IF req[r].id \in Existing /\ ~ Referenced(req[r].id)
       THEN /\ room' = [room EXCEPT ![req[r].id] = Deleted]
            /\ Goto(r, "count")
       ELSE /\ Finish(r)
            /\ UNCHANGED room
    /\ UNCHANGED <<booked, totalRooms, task, audit>>

-------------------------------------------------------------------------------
(* updateHousekeepingStatus *)

BeginHousekeeping(r) ==
    /\ req[r] = Idle
    /\ Len(task) < MaxTasks
    /\ \E id \in Existing, status \in TaskStatuses :
          Become(r, [op |-> "housekeeping", pc |-> "room", id |-> id, status |-> status,
                     found |-> 0])
    /\ UNCHANGED <<room, booked, totalRooms, task, audit>>

WriteHousekeeping(r) ==
    /\ At(r, "room")
    /\ IF req[r].id \in Existing
       THEN /\ room' = [room EXCEPT ![req[r].id].housekeeping = req[r].status]
            /\ Goto(r, "find")
       ELSE /\ Finish(r)
            /\ UNCHANGED room
    /\ UNCHANGED <<booked, totalRooms, task, audit>>

\* Faulty: a task that is being worked on is not found.
FindPendingTask(r) ==
    /\ At(r, "find")
    /\ LET open == {i \in OpenTasks(req[r].id) : task[i].status = "PENDING"}
       IN  Become(r, [req[r] EXCEPT !.pc = "task", !.found = IF open = {} THEN 0 ELSE Max(open)])
    /\ UNCHANGED <<room, booked, totalRooms, task, audit>>

\* The open task created last.
FindTask(r) ==
    /\ At(r, "find")
    /\ LET open == OpenTasks(req[r].id)
       IN  Become(r, [req[r] EXCEPT !.pc = "task", !.found = IF open = {} THEN 0 ELSE Max(open)])
    /\ UNCHANGED <<room, booked, totalRooms, task, audit>>

\* The task found is updated, or one is created if the room is still there.
WriteTask(r) ==
    /\ At(r, "task")
    /\ task' = IF req[r].found # 0
               THEN [task EXCEPT ![req[r].found].status = req[r].status]
               ELSE IF req[r].id \in Existing
                    THEN Append(task, [room |-> req[r].id, status |-> req[r].status])
                    ELSE task
    /\ Finish(r)
    /\ UNCHANGED <<room, booked, totalRooms, audit>>

-------------------------------------------------------------------------------
(* The end of the handlers, failures, and the booking service *)

AuditAction(op) == CASE op = "create" -> "ROOM_CREATED"
                     [] op = "update" -> "ROOM_UPDATED"
                     [] op = "status" -> "ROOM_STATUS_UPDATED"
                     [] OTHER         -> "ROOM_DELETED"

LogAction(r) ==
    /\ At(r, "audit")
    /\ audit' = audit \cup {[action |-> AuditAction(req[r].op), id |-> req[r].id]}
    /\ Finish(r)
    /\ UNCHANGED <<room, booked, totalRooms, task>>

\* A statement throws, or the server stops: what is written stays written.
Fail(r) ==
    /\ MayFail
    /\ req[r] # Idle
    /\ Finish(r)
    /\ UNCHANGED <<room, booked, totalRooms, task, audit>>

\* The booking service adds a booking of a room that exists.
BookRoom(id) ==
    /\ id \in Existing
    /\ booked' = booked \cup {id}
    /\ UNCHANGED <<room, totalRooms, task, audit, req>>

\* A booking handler gives the room of a booking its status.
WriteBookedStatus(id) ==
    /\ id \in booked
    /\ \E status \in {"RESERVED", "OCCUPIED", "AVAILABLE"} :
          room' = [room EXCEPT ![id].status = status]
    /\ UNCHANGED <<booked, totalRooms, task, audit, req>>

Begin(r) == \/ "create" \in Calls /\ BeginCreate(r)
            \/ "update" \in Calls /\ BeginUpdate(r)
            \/ "status" \in Calls /\ BeginStatus(r)
            \/ "delete" \in Calls /\ BeginDelete(r)
            \/ "housekeeping" \in Calls /\ BeginHousekeeping(r)

Continue(r) == \/ InsertRoom(r)
               \/ UpdateTotalRooms(r)
               \/ GetRoomById(r)
               \/ CheckNumber(r)
               \/ WriteRoom(r)
               \/ DeleteRoom(r)
               \/ WriteHousekeeping(r)
               \/ FindTask(r)
               \/ WriteTask(r)
               \/ LogAction(r)

BookingService == "book" \in Calls /\ \E id \in RoomIds : BookRoom(id) \/ WriteBookedStatus(id)

Next == \/ \E r \in Requests : Begin(r) \/ Continue(r) \/ Fail(r)
        \/ BookingService

\* Clients may stop sending requests, but a request in progress is carried on.
Fairness == \A r \in Requests : WF_vars(Continue(r))

Spec == Init /\ [][Next]_vars /\ Fairness

-------------------------------------------------------------------------------
(* Properties *)

\* Every row and every request has the shape the code gives it.
TypeOK == /\ room \in [RoomIds -> Room \cup {NoRoom, Deleted}]
          /\ booked \subseteq RoomIds
          /\ totalRooms \in Int
          /\ task \in Seq(Task)
          /\ audit \subseteq [action : AuditActions, id : RoomIds]
          /\ req \in [Requests -> RequestStates]

\* "Unique room numbers per hotel", whatever creations and updates race between
\* their check of the number and their write.
NumbersUnique ==
    \A id, other \in Existing : room[id].number = room[other].number => id = other

\* The bookings and the housekeeping tasks are of rooms that exist, though rooms
\* are deleted beside the handlers that write them.
ReferencesKept == \A id \in RoomIds : Referenced(id) => id \in Existing

Counting(op) == {r \in Requests : At(r, "count") /\ req[r].op = op}

\* The hotel's counter is the number of its rooms, but for the creations and the
\* deletions that have written the room and not yet the counter, as long as no
\* statement fails (two deletions of the same room decrement it once).
TotalRoomsExact ==
    totalRooms = Cardinality(Existing) - Cardinality(Counting("create"))
                                       + Cardinality(Counting("delete"))

\* "Create or update housekeeping record": reports that race may each create a task
\* or reopen one that another has closed, but a room never has more open tasks than
\* there are requests at a time, however long the reports go on.
OpenTasksBounded ==
    \A id \in RoomIds : Cardinality(OpenTasks(id)) <= Cardinality(Requests)
=============================================================================
