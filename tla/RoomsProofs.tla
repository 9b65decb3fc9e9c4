------------------------------ MODULE RoomsProofs ------------------------------
(***************************************************************************)
(* Proofs about the room service, for any number of requests, rooms,       *)
(* numbers and housekeeping tasks.                                         *)
(***************************************************************************)
EXTENDS Rooms, SequenceTheorems, FiniteSetTheorems, FunctionTheorems, TLAPS

\* The shape of a request follows from its program counter.
LEMMA Shapes ==
    ASSUME TypeOK, NEW r \in Requests
    PROVE  /\ req[r] = Idle <=> At(r, "idle")
           /\ req[r] # Idle => req[r].id \in RoomIds
           /\ At(r, "insert") => req[r] \in Creations
           /\ At(r, "count") => req[r] \in Creations \cup Deletions
           /\ At(r, "read") => req[r] \in Updates \cup StatusChanges \cup Deletions
           /\ At(r, "number") => req[r] \in Updates
           /\ At(r, "write") => req[r] \in Updates \cup StatusChanges
           /\ At(r, "delete") => req[r] \in Deletions
           /\ At(r, "room") \/ At(r, "find") \/ At(r, "task") => req[r] \in Reports
           /\ At(r, "audit") => req[r] \in Creations \cup Updates \cup StatusChanges \cup Deletions
<1> USE DEF At
<1>1. req[r] \in RequestStates
  BY DEF TypeOK
<1>2. CASE req[r] = Idle
  BY <1>2 DEF Idle
<1>3. CASE req[r] \in Creations
  BY <1>3 DEF Creations, Idle
<1>4. CASE req[r] \in Updates
  BY <1>4 DEF Updates, Idle
<1>5. CASE req[r] \in StatusChanges
  BY <1>5 DEF StatusChanges, Idle
<1>6. CASE req[r] \in Deletions
  BY <1>6 DEF Deletions, Idle
<1>7. CASE req[r] \in Reports
  BY <1>7 DEF Reports, Idle
<1> QED
  BY <1>1, <1>2, <1>3, <1>4, <1>5, <1>6, <1>7 DEF RequestStates

\* An existing room has the fields of one.
LEMMA Rows ==
    ASSUME TypeOK, NEW id \in Existing
    PROVE  id \in RoomIds /\ room[id] \in Room
BY DEF TypeOK, Existing

\* A row is neither of the two marks of a missing one.
LEMMA RowsExist == \A row \in Room : row \notin {NoRoom, Deleted}
BY DEF Room, NoRoom, Deleted, RoomStatuses

\* The step that gives a request its next statement.
LEMMA NextStatement ==
    ASSUME NEW job \in RequestStates, NEW pc,
           \/ job \in Creations /\ pc \in {"insert", "count", "audit"}
           \/ job \in Updates /\ pc \in {"read", "number", "write", "audit"}
           \/ job \in StatusChanges /\ pc \in {"read", "write", "audit"}
           \/ job \in Deletions /\ pc \in {"read", "delete", "count", "audit"}
           \/ job \in Reports /\ pc \in {"room", "find", "task"}
    PROVE  /\ [job EXCEPT !.pc = pc] \in RequestStates
           /\ [job EXCEPT !.pc = pc].pc = pc
           /\ [job EXCEPT !.pc = pc].op = job.op
           /\ [job EXCEPT !.pc = pc].id = job.id
BY DEF Creations, Updates, StatusChanges, Deletions, Reports, RequestStates

-------------------------------------------------------------------------------
(* The last of the open tasks *)

\* A set of naturals that has a bound and a member has a last one.
LEMMA MaxBelongs ==
    ASSUME NEW n \in Nat, NEW S \in SUBSET (0 .. n), S # {}
    PROVE  Max(S) \in S /\ \A x \in S : x <= Max(S)
<1> DEFINE less == OpToRel(<, Nat)
           bounds == {m \in Nat : \A x \in S : x <= m}
<1>1. PICK m \in bounds : \A k \in bounds : ~ (<<k, m>> \in less)
  <2>1. bounds \subseteq Nat /\ n \in bounds
    OBVIOUS
  <2>2. IsWellFoundedOn(less, Nat)
    BY NatLessThanWellFounded
  <2> HIDE DEF less, bounds
  <2> QED
    BY <2>1, <2>2, WFMin
<1>2. \A k \in bounds : ~ (k < m)
  BY <1>1 DEF OpToRel
<1>3. m \in S
  <2>1. SUFFICES ASSUME m \notin S PROVE FALSE
    OBVIOUS
  <2>2. m \in Nat /\ \A x \in S : x \in Nat /\ x <= m /\ x # m
    BY <2>1
  <2>3. \A x \in S : x <= m - 1 /\ m - 1 \in Nat
    BY <2>2
  <2>4. PICK x \in S : TRUE
    OBVIOUS
  <2>5. m - 1 \in bounds
    BY <2>3, <2>4
  <2> QED
    BY <1>2, <2>2, <2>5
<1>4. \E x \in S : \A y \in S : x >= y
  BY <1>3
<1> QED
  BY <1>4 DEF Max

-------------------------------------------------------------------------------
(* Types and foreign keys *)

\* The empty tables and the idle requests have the types.
LEMMA TypeInit == Init => TypeOK
BY DEF Init, TypeOK, RequestStates

\* The steps that receive a request.
LEMMA TypeBegin ==
    ASSUME TypeOK, NEW r \in Requests, Begin(r)
    PROVE  TypeOK'
<1> USE DEF Become, TypeOK, RequestStates
<1>1. CASE BeginCreate(r)
  BY <1>1 DEF BeginCreate, FreeIds, Creations
<1>2. CASE BeginUpdate(r)
  BY <1>2, RoomsAssumption DEF BeginUpdate, Existing, Updates
<1>3. CASE BeginStatus(r)
  BY <1>3, RoomsAssumption DEF BeginStatus, Existing, StatusChanges
<1>4. CASE BeginDelete(r)
  BY <1>4 DEF BeginDelete, Existing, Deletions
<1>5. CASE BeginHousekeeping(r)
  BY <1>5, RoomsAssumption DEF BeginHousekeeping, Existing, Reports
<1> QED
  BY <1>1, <1>2, <1>3, <1>4, <1>5 DEF Begin

\* The row a request writes, when the room is there.
LEMMA UpdatedRowType ==
    ASSUME TypeOK, NEW r \in Requests, At(r, "write"), req[r].id \in Existing
    PROVE  UpdatedRow(req[r]) \in Room
<1> DEFINE row == room[req[r].id]
<1>1. row \in Room
  BY Rows
<1>2. CASE req[r] \in Updates
  <2>1. /\ req[r].op = "update"
        /\ OrElse(req[r].number, row.number) \in RoomNumbers
        /\ OrElse(req[r].status, row.status) \in RoomStatuses
    BY <1>1, <1>2 DEF Updates, OrElse, Room
  <2>2. (IF req[r].price THEN "AVAILABLE" ELSE OrElse(req[r].status, row.status)) \in RoomStatuses
    BY <2>1 DEF RoomStatuses
  <2> HIDE DEF row
  <2>3. UpdatedRow(req[r]) =
            [row EXCEPT !.number = OrElse(req[r].number, row.number),
                        !.status = IF req[r].price THEN "AVAILABLE"
                                   ELSE OrElse(req[r].status, row.status)]
    BY <1>1, <2>1 DEF UpdatedRow, Room, row
  <2> QED
    BY <1>1, <2>1, <2>2, <2>3 DEF Room
<1>3. CASE req[r] \in StatusChanges
  <2>1. req[r].op = "status" /\ OrElse(req[r].to, row.status) \in RoomStatuses
    BY <1>1, <1>3 DEF StatusChanges, OrElse, Room
  <2> HIDE DEF row
  <2>2. UpdatedRow(req[r]) = [row EXCEPT !.status = OrElse(req[r].to, row.status)]
    BY <1>1, <2>1 DEF UpdatedRow, Room, row
  <2> QED
    BY <1>1, <2>1, <2>2 DEF Room
<1> QED
  BY <1>2, <1>3, Shapes

\* The task a report found is one of its room.
FoundOK ==
    \A r \in Requests : At(r, "task") /\ req[r].found # 0 =>
        /\ req[r].found \in DOMAIN task
        /\ task[req[r].found].room = req[r].id

\* What the search for an open task gives the report.
LEMMA Found ==
    ASSUME TypeOK, NEW r \in Requests, FindTask(r)
    PROVE  \E found \in Nat :
              /\ req' = [req EXCEPT ![r] = [req[r] EXCEPT !.pc = "task", !.found = found]]
              /\ found = 0 => OpenTasks(req[r].id) = {}
              /\ found # 0 => found \in OpenTasks(req[r].id)
<1> DEFINE open == OpenTasks(req[r].id)
           found == IF open = {} THEN 0 ELSE Max(open)
<1>1. req' = [req EXCEPT ![r] = [req[r] EXCEPT !.pc = "task", !.found = found]]
  BY DEF FindTask, Become
<1>2. DOMAIN task = 1 .. Len(task) /\ Len(task) \in Nat
  BY LenProperties DEF TypeOK
<1>3. open \subseteq 1 .. Len(task)
  BY <1>2 DEF OpenTasks
<1> HIDE DEF open
<1>4. open # {} => Max(open) \in open
  <2>1. open \in SUBSET (0 .. Len(task))
    BY <1>2, <1>3
  <2> QED
    BY <1>2, <2>1, MaxBelongs
<1>5. CASE open = {}
  BY <1>1, <1>5 DEF open
<1>6. CASE open # {}
  <2>1. found \in open /\ found \in Nat /\ found # 0
    <3>1. found = Max(open)
      BY <1>6
    <3>2. Max(open) \in 1 .. Len(task)
      BY <1>3, <1>4, <1>6
    <3> QED
      BY <1>2, <1>4, <1>6, <3>1, <3>2
  <2> QED
    BY <1>1, <2>1 DEF open
<1> QED
  BY <1>5, <1>6

\* The report writes the status into the task it found.
Reopened(r) == LET i == req[r].found
               IN  /\ i \in 1 .. Len(task)
                   /\ task[i].room = req[r].id
                   /\ Len(task') = Len(task)
                   /\ \A j \in 1 .. Len(task) : task'[j].room = task[j].room
                   /\ \A j \in 1 .. Len(task) : j # i => task'[j] = task[j]

\* The report adds a task of its room, which exists.
Appended(r) == LET i == Len(task) + 1
               IN  /\ req[r].found = 0
                   /\ req[r].id \in Existing
                   /\ Len(task') = i
                   /\ task'[i].room = req[r].id
                   /\ \A j \in 1 .. Len(task) : task'[j] = task[j]

\* The write of a report is one of the two, or none when the room is gone.
LEMMA WriteTaskRow ==
    ASSUME TypeOK, FoundOK, NEW r \in Requests, WriteTask(r)
    PROVE  /\ req[r] \in Reports
           /\ task' \in Seq(Task)
           /\ UNCHANGED task \/ Reopened(r) \/ Appended(r)
<1>1. req[r] \in Reports
  BY Shapes DEF WriteTask
<1>2. /\ task \in Seq(Task)
      /\ Len(task) \in Nat
      /\ DOMAIN task = 1 .. Len(task)
  BY LenProperties DEF TypeOK
<1>3. req[r].status \in HousekeepingStatuses /\ req[r].id \in RoomIds /\ req[r].found \in Nat
  BY <1>1 DEF Reports
<1>4. CASE req[r].found # 0
  <2> DEFINE i == req[r].found
             row == [task[i] EXCEPT !.status = req[r].status]
  <2>1. i \in 1 .. Len(task) /\ task[i].room = req[r].id
    BY <1>2, <1>4 DEF FoundOK, WriteTask
  <2>2. task[i] \in Task
    BY <1>2, <2>1, ElementOfSeq
  <2>3. row \in Task /\ row.room = task[i].room
    BY <1>3, <2>2 DEF Task
  <2>4. task' = [task EXCEPT ![i] = row]
    BY <1>4 DEF WriteTask
  <2> HIDE DEF i, row
  <2>5. /\ task' \in Seq(Task)
        /\ Len(task') = Len(task)
        /\ \A j \in 1 .. Len(task) : task'[j] = IF j = i THEN row ELSE task[j]
    BY <1>2, <2>1, <2>3, <2>4, ExceptSeq
  <2>6. \A j \in 1 .. Len(task) : task'[j].room = task[j].room
    BY <2>3, <2>5
  <2> QED
    BY <1>1, <2>1, <2>5, <2>6 DEF Reopened, i
<1>5. CASE req[r].found = 0 /\ req[r].id \in Existing
  <2> DEFINE row == [room |-> req[r].id, status |-> req[r].status]
  <2>1. row \in Task /\ row.room = req[r].id
    BY <1>3 DEF Task
  <2>2. task' = Append(task, row)
    BY <1>5 DEF WriteTask
  <2> HIDE DEF row
  <2>3. /\ task' \in Seq(Task)
        /\ Len(task') = Len(task) + 1
        /\ \A j \in 1 .. Len(task) : task'[j] = task[j]
        /\ task'[Len(task) + 1] = row
    BY <1>2, <2>1, <2>2, AppendProperties
  <2> QED
    BY <1>1, <1>5, <2>1, <2>3 DEF Appended
<1>6. CASE req[r].found = 0 /\ req[r].id \notin Existing
  <2>1. UNCHANGED task
    BY <1>6 DEF WriteTask
  <2> QED
    BY <1>1, <1>2, <2>1
<1> QED
  BY <1>4, <1>5, <1>6

\* The steps that issue a statement keep the types.
LEMMA TypeContinue ==
    ASSUME TypeOK, FoundOK, NEW r \in Requests, Continue(r)
    PROVE  TypeOK'
<1> USE DEF Become, Goto, Finish
<1>1. Idle \in RequestStates /\ req[r] \in RequestStates
  BY DEF RequestStates, TypeOK
<1>2. CASE InsertRoom(r)
  <2>1. req[r] \in Creations
    BY <1>2, Shapes DEF InsertRoom
  <2>2. [req[r] EXCEPT !.pc = "count"] \in RequestStates
    BY <1>1, <2>1, NextStatement
  <2>3. [number |-> req[r].number, status |-> "AVAILABLE", housekeeping |-> "PENDING"] \in Room
    BY <2>1 DEF Creations, Room, RoomStatuses, HousekeepingStatuses
  <2>4. room' \in [RoomIds -> Room \cup {NoRoom, Deleted}]
    BY <1>2, <2>3 DEF InsertRoom, TypeOK
  <2> QED
    BY <1>1, <1>2, <2>2, <2>4 DEF InsertRoom, TypeOK
<1>3. CASE UpdateTotalRooms(r)
  <2>1. [req[r] EXCEPT !.pc = "audit"] \in RequestStates
    BY <1>1, <1>3, Shapes, NextStatement DEF UpdateTotalRooms
  <2> QED
    BY <1>3, <2>1 DEF UpdateTotalRooms, TypeOK
<1>4. CASE GetRoomById(r)
  <2>1. req[r] \in Updates \cup StatusChanges \cup Deletions
    BY <1>4, Shapes DEF GetRoomById
  <2>2. /\ req[r] \in Updates => AfterRead(req[r].op) = "number"
        /\ req[r] \in StatusChanges => AfterRead(req[r].op) = "write"
        /\ req[r] \in Deletions => AfterRead(req[r].op) = "delete"
    BY DEF Updates, StatusChanges, Deletions, AfterRead
  <2>3. [req[r] EXCEPT !.pc = AfterRead(req[r].op)] \in RequestStates
    BY <1>1, <2>1, <2>2, NextStatement
  <2> QED
    BY <1>1, <1>4, <2>3 DEF GetRoomById, TypeOK
<1>5. CASE CheckNumber(r)
  <2>1. [req[r] EXCEPT !.pc = "write"] \in RequestStates
    BY <1>1, <1>5, Shapes, NextStatement DEF CheckNumber
  <2> QED
    BY <1>1, <1>5, <2>1 DEF CheckNumber, TypeOK
<1>6. CASE WriteRoom(r)
  <2>1. [req[r] EXCEPT !.pc = "audit"] \in RequestStates
    BY <1>1, <1>6, Shapes, NextStatement DEF WriteRoom
  <2>2. room' \in [RoomIds -> Room \cup {NoRoom, Deleted}]
    BY <1>6, UpdatedRowType DEF WriteRoom, TypeOK
  <2> QED
    BY <1>1, <1>6, <2>1, <2>2 DEF WriteRoom, TypeOK
<1>7. CASE DeleteRoom(r)
  <2>1. [req[r] EXCEPT !.pc = "count"] \in RequestStates
    BY <1>1, <1>7, Shapes, NextStatement DEF DeleteRoom
  <2>2. room' \in [RoomIds -> Room \cup {NoRoom, Deleted}]
    BY <1>7 DEF DeleteRoom, TypeOK
  <2> QED
    BY <1>1, <1>7, <2>1, <2>2 DEF DeleteRoom, TypeOK
<1>8. CASE WriteHousekeeping(r)
  <2>1. req[r] \in Reports
    BY <1>8, Shapes DEF WriteHousekeeping
  <2>2. [req[r] EXCEPT !.pc = "find"] \in RequestStates
    BY <1>1, <2>1, NextStatement
  <2>3. req[r].status \in HousekeepingStatuses
    BY <2>1 DEF Reports
  <2>4. room' \in [RoomIds -> Room \cup {NoRoom, Deleted}]
    <3>1. CASE req[r].id \in Existing
      <4>1. [room[req[r].id] EXCEPT !.housekeeping = req[r].status] \in Room
        BY <2>3, <3>1, Rows DEF Room
      <4> QED
        BY <1>8, <3>1, <4>1 DEF WriteHousekeeping, TypeOK
    <3> QED
      BY <1>8, <3>1 DEF WriteHousekeeping, TypeOK
  <2> QED
    BY <1>1, <1>8, <2>2, <2>4 DEF WriteHousekeeping, TypeOK
<1>9. CASE FindTask(r)
  <2>1. req[r] \in Reports
    BY <1>9, Shapes DEF FindTask
  <2>2. PICK found \in Nat : req' = [req EXCEPT ![r] = [req[r] EXCEPT !.pc = "task", !.found = found]]
    BY <1>9, Found
  <2>3. [req[r] EXCEPT !.pc = "task", !.found = found] \in RequestStates
    BY <2>1 DEF Reports, RequestStates
  <2> QED
    BY <1>9, <2>2, <2>3 DEF FindTask, TypeOK
<1>10. CASE WriteTask(r)
  <2>1. task' \in Seq(Task)
    BY <1>10, WriteTaskRow
  <2> QED
    BY <1>1, <1>10, <2>1 DEF WriteTask, TypeOK
<1>11. CASE LogAction(r)
  <2>1. req[r] # Idle
    BY <1>11, Shapes DEF LogAction, At
  <2>2. AuditAction(req[r].op) \in AuditActions /\ req[r].id \in RoomIds
    BY <2>1, Shapes DEF AuditAction, AuditActions
  <2> QED
    BY <1>1, <1>11, <2>2 DEF LogAction, TypeOK
<1> QED
  BY <1>2, <1>3, <1>4, <1>5, <1>6, <1>7, <1>8, <1>9, <1>10, <1>11 DEF Continue

\* The booking service writes rooms that exist.
LEMMA TypeBooking ==
    ASSUME TypeOK, ReferencesKept, NEW id \in RoomIds, BookRoom(id) \/ WriteBookedStatus(id)
    PROVE  TypeOK'
<1>1. CASE BookRoom(id)
  BY <1>1 DEF BookRoom, TypeOK
<1>2. CASE WriteBookedStatus(id)
  <2>1. room[id] \in Room
    BY <1>2, Rows DEF WriteBookedStatus, ReferencesKept, Referenced
  <2>2. PICK status \in {"RESERVED", "OCCUPIED", "AVAILABLE"} :
            room' = [room EXCEPT ![id].status = status]
    BY <1>2 DEF WriteBookedStatus
  <2>3. [room[id] EXCEPT !.status = status] \in Room
    BY <2>1 DEF Room, RoomStatuses
  <2>4. room' \in [RoomIds -> Room \cup {NoRoom, Deleted}]
    BY <2>2, <2>3 DEF TypeOK
  <2> QED
    BY <1>2, <2>4 DEF WriteBookedStatus, TypeOK
<1> QED
  BY <1>1, <1>2

-------------------------------------------------------------------------------
(* What a step does to the table, and to the requests *)

OnlyRow(id) == \A other \in RoomIds \ {id} : room'[other] = room[other]

Added(id) == /\ room[id] = NoRoom
             /\ room'[id] \in Room
             /\ ~ TakenByOther(room'[id].number, id)
             /\ OnlyRow(id)

Rewritten(id) == /\ id \in Existing
                 /\ room'[id] \in Room
                 /\ \/ room'[id].number = room[id].number
                    \/ ~ TakenByOther(room'[id].number, id)
                 /\ OnlyRow(id)

Removed(id) == /\ id \in Existing
               /\ ~ Referenced(id)
               /\ room'[id] = Deleted
               /\ OnlyRow(id)

\* The ids that the creations in progress keep for their rows are free, and each
\* creation has its own.
CreationsApart ==
    \A r \in Requests : At(r, "insert") =>
        /\ room[req[r].id] = NoRoom
        /\ \A q \in Requests \ {r} : req[q] # Idle => req[q].id # req[r].id

\* A statement adds the row of its creation, changes a row, removes one that nothing
\* refers to, or leaves the table alone.
LEMMA RoomStep ==
    ASSUME TypeOK, CreationsApart, NEW r \in Requests, Begin(r) \/ Continue(r) \/ Fail(r)
    PROVE  \/ UNCHANGED room
           \/ InsertRoom(r) /\ Added(req[r].id) /\ req' = [req EXCEPT ![r].pc = "count"]
           \/ (WriteRoom(r) \/ WriteHousekeeping(r)) /\ Rewritten(req[r].id)
           \/ DeleteRoom(r) /\ Removed(req[r].id) /\ req' = [req EXCEPT ![r].pc = "count"]
<1> DEFINE id == req[r].id
<1>1. ASSUME InsertRoom(r), ~ UNCHANGED room
      PROVE  Added(id) /\ req' = [req EXCEPT ![r].pc = "count"]
  <2> DEFINE row == [number |-> req[r].number, status |-> "AVAILABLE", housekeeping |-> "PENDING"]
  <2>1. /\ ~ TakenByOther(req[r].number, id)
        /\ room' = [room EXCEPT ![id] = row]
        /\ req' = [req EXCEPT ![r].pc = "count"]
    BY <1>1 DEF InsertRoom, Goto, Become
  <2>2. req[r] \in Creations /\ room[id] = NoRoom
    BY <1>1, Shapes DEF InsertRoom, CreationsApart
  <2>3. row \in Room /\ id \in RoomIds
    BY <2>2 DEF Creations, Room, RoomStatuses, HousekeepingStatuses
  <2>4. room'[id] = row /\ OnlyRow(id)
    BY <2>1, <2>3 DEF TypeOK, OnlyRow
  <2> QED
    BY <2>1, <2>2, <2>3, <2>4 DEF Added
<1>2. ASSUME WriteRoom(r), ~ UNCHANGED room
      PROVE  Rewritten(id)
  <2>1. /\ id \in Existing
        /\ ~ TakenByOther(UpdatedRow(req[r]).number, id)
        /\ room' = [room EXCEPT ![id] = UpdatedRow(req[r])]
    BY <1>2 DEF WriteRoom
  <2>2. UpdatedRow(req[r]) \in Room
    BY <1>2, <2>1, UpdatedRowType DEF WriteRoom
  <2>3. room'[id] = UpdatedRow(req[r]) /\ OnlyRow(id)
    BY <2>1, Rows DEF TypeOK, OnlyRow
  <2> QED
    BY <2>1, <2>2, <2>3 DEF Rewritten
<1>3. ASSUME WriteHousekeeping(r), ~ UNCHANGED room
      PROVE  Rewritten(id)
  <2> DEFINE row == [room[id] EXCEPT !.housekeeping = req[r].status]
  <2>1. id \in Existing /\ room' = [room EXCEPT ![id] = row]
    BY <1>3 DEF WriteHousekeeping
  <2>2. id \in RoomIds /\ room[id] \in Room
    BY <2>1, Rows
  <2>3. req[r].status \in HousekeepingStatuses
    BY <1>3, Shapes DEF WriteHousekeeping, Reports
  <2>4. row \in Room /\ row.number = room[id].number
    BY <2>2, <2>3 DEF Room
  <2>5. room'[id] = row /\ OnlyRow(id)
    BY <2>1, <2>2 DEF TypeOK, OnlyRow
  <2> HIDE DEF row
  <2> QED
    BY <2>1, <2>4, <2>5 DEF Rewritten
<1>4. ASSUME DeleteRoom(r), ~ UNCHANGED room
      PROVE  Removed(id) /\ req' = [req EXCEPT ![r].pc = "count"]
  <2>1. /\ id \in Existing
        /\ ~ Referenced(id)
        /\ room' = [room EXCEPT ![id] = Deleted]
        /\ req' = [req EXCEPT ![r].pc = "count"]
    BY <1>4 DEF DeleteRoom, Goto, Become
  <2>2. room'[id] = Deleted /\ OnlyRow(id)
    BY <2>1, Rows DEF TypeOK, OnlyRow
  <2> QED
    BY <2>1, <2>2 DEF Removed
<1>5. CASE Begin(r) \/ Fail(r)
  BY <1>5 DEF Begin, Fail, BeginCreate, BeginUpdate, BeginStatus, BeginDelete, BeginHousekeeping
<1>6. CASE Continue(r)
  <2>1. CASE InsertRoom(r) \/ WriteRoom(r) \/ WriteHousekeeping(r) \/ DeleteRoom(r)
    BY <1>1, <1>2, <1>3, <1>4, <2>1
  <2>2. CASE \/ UpdateTotalRooms(r) \/ GetRoomById(r) \/ CheckNumber(r) \/ FindTask(r)
             \/ WriteTask(r) \/ LogAction(r)
    BY <2>2 DEF UpdateTotalRooms, GetRoomById, CheckNumber, FindTask, WriteTask, LogAction
  <2> QED
    BY <1>6, <2>1, <2>2 DEF Continue
<1> QED
  BY <1>5, <1>6

\* What the changes of a row do to the rooms there are.
LEMMA ExistingStep ==
    ASSUME TypeOK, NEW id \in RoomIds
    PROVE  /\ UNCHANGED room => Existing' = Existing
           /\ Added(id) => id \notin Existing /\ Existing' = Existing \cup {id}
           /\ Rewritten(id) => Existing' = Existing
           /\ Removed(id) => Existing' = Existing \ {id}
BY RowsExist DEF Existing, Added, Rewritten, Removed, OnlyRow

\* The booking service changes the status of a room at most.
LEMMA BookingStep ==
    ASSUME TypeOK, ReferencesKept, NEW id \in RoomIds, BookRoom(id) \/ WriteBookedStatus(id)
    PROVE  /\ UNCHANGED room \/ Rewritten(id)
           /\ UNCHANGED <<totalRooms, task, req>>
<1>1. CASE BookRoom(id)
  BY <1>1 DEF BookRoom
<1>2. CASE WriteBookedStatus(id)
  <2>1. id \in Existing /\ room[id] \in Room
    BY <1>2, Rows DEF WriteBookedStatus, ReferencesKept, Referenced
  <2>2. PICK status \in {"RESERVED", "OCCUPIED", "AVAILABLE"} :
            room' = [room EXCEPT ![id].status = status]
    BY <1>2 DEF WriteBookedStatus
  <2> DEFINE row == [room[id] EXCEPT !.status = status]
  <2>3. row \in Room /\ row.number = room[id].number
    BY <2>1 DEF Room, RoomStatuses
  <2>4. room'[id] = row /\ OnlyRow(id)
    BY <2>2 DEF TypeOK, OnlyRow
  <2> HIDE DEF row
  <2>5. Rewritten(id)
    BY <2>1, <2>3, <2>4 DEF Rewritten
  <2> QED
    BY <1>2, <2>5 DEF WriteBookedStatus
<1> QED
  BY <1>1, <1>2

\* A request does not touch what the others carry.
LEMMA OthersUnchanged ==
    ASSUME TypeOK, NEW r \in Requests, Begin(r) \/ Continue(r) \/ Fail(r),
           NEW q \in Requests \ {r}
    PROVE  req'[q] = req[q]
BY DEF Begin, Continue, Fail, BeginCreate, BeginUpdate, BeginStatus, BeginDelete,
       BeginHousekeeping, InsertRoom, UpdateTotalRooms, GetRoomById, CheckNumber, WriteRoom,
       DeleteRoom, WriteHousekeeping, FindTask, WriteTask, LogAction, Become, Goto, Finish, TypeOK

\* The request goes on with the statement pc.
Moved(r, pc) == /\ req'[r].id = req[r].id
                /\ req'[r].op = req[r].op
                /\ At(r, pc)'

\* What going on with a statement leaves as it was.
LEMMA GotoMoves ==
    ASSUME TypeOK, NEW r \in Requests, NEW pc, Goto(r, pc),
           \/ req[r] \in Creations /\ pc \in {"insert", "count", "audit"}
           \/ req[r] \in Updates /\ pc \in {"read", "number", "write", "audit"}
           \/ req[r] \in StatusChanges /\ pc \in {"read", "write", "audit"}
           \/ req[r] \in Deletions /\ pc \in {"read", "delete", "count", "audit"}
           \/ req[r] \in Reports /\ pc \in {"room", "find", "task"}
    PROVE  Moved(r, pc)
<1>1. req[r] \in RequestStates /\ req'[r] = [req[r] EXCEPT !.pc = pc]
  BY DEF TypeOK, Goto, Become
<1> QED
  BY <1>1, NextStatement DEF Moved, At

\* Where the steps that issue a statement take their request.
LEMMA ContinueStep ==
    ASSUME TypeOK, NEW r \in Requests, Continue(r)
    PROVE  /\ req[r] # Idle
           /\ \/ req'[r] = Idle
              \/ InsertRoom(r) /\ Moved(r, "count")
              \/ UpdateTotalRooms(r) /\ Moved(r, "audit")
              \/ GetRoomById(r) /\ (Moved(r, "number") \/ Moved(r, "write") \/ Moved(r, "delete"))
              \/ CheckNumber(r) /\ Moved(r, "write")
              \/ WriteRoom(r) /\ Moved(r, "audit")
              \/ DeleteRoom(r) /\ Moved(r, "count")
              \/ WriteHousekeeping(r) /\ Moved(r, "find")
              \/ FindTask(r) /\ Moved(r, "task")
<1>1. req[r] # Idle
  BY Shapes DEF At, Continue, InsertRoom, UpdateTotalRooms, GetRoomById, CheckNumber, WriteRoom,
                DeleteRoom, WriteHousekeeping, FindTask, WriteTask, LogAction
<1>2. Finish(r) => req'[r] = Idle
  BY DEF Finish, Become, TypeOK
<1>3. CASE InsertRoom(r)
  <2>1. (Finish(r) \/ Goto(r, "count")) /\ req[r] \in Creations
    BY <1>3, Shapes DEF InsertRoom
  <2> QED
    BY <1>1, <1>2, <1>3, <2>1, GotoMoves
<1>4. CASE UpdateTotalRooms(r)
  <2>1. (Finish(r) \/ Goto(r, "audit")) /\ req[r] \in Creations \cup Deletions
    BY <1>4, Shapes DEF UpdateTotalRooms
  <2> QED
    BY <1>1, <1>2, <1>4, <2>1, GotoMoves
<1>5. CASE GetRoomById(r)
  <2>1. Finish(r) \/ Goto(r, AfterRead(req[r].op))
    BY <1>5 DEF GetRoomById
  <2>2. \/ req[r] \in Updates /\ AfterRead(req[r].op) = "number"
        \/ req[r] \in StatusChanges /\ AfterRead(req[r].op) = "write"
        \/ req[r] \in Deletions /\ AfterRead(req[r].op) = "delete"
    BY <1>5, Shapes DEF GetRoomById, Updates, StatusChanges, Deletions, AfterRead
  <2> QED
    BY <1>1, <1>2, <1>5, <2>1, <2>2, GotoMoves
<1>6. CASE CheckNumber(r)
  <2>1. (Finish(r) \/ Goto(r, "write")) /\ req[r] \in Updates
    BY <1>6, Shapes DEF CheckNumber
  <2> QED
    BY <1>1, <1>2, <1>6, <2>1, GotoMoves
<1>7. CASE WriteRoom(r)
  <2>1. (Finish(r) \/ Goto(r, "audit")) /\ req[r] \in Updates \cup StatusChanges
    BY <1>7, Shapes DEF WriteRoom
  <2> QED
    BY <1>1, <1>2, <1>7, <2>1, GotoMoves
<1>8. CASE DeleteRoom(r)
  <2>1. (Finish(r) \/ Goto(r, "count")) /\ req[r] \in Deletions
    BY <1>8, Shapes DEF DeleteRoom
  <2> QED
    BY <1>1, <1>2, <1>8, <2>1, GotoMoves
<1>9. CASE WriteHousekeeping(r)
  <2>1. (Finish(r) \/ Goto(r, "find")) /\ req[r] \in Reports
    BY <1>9, Shapes DEF WriteHousekeeping
  <2> QED
    BY <1>1, <1>2, <1>9, <2>1, GotoMoves
<1>10. CASE FindTask(r)
  <2>1. PICK found \in Nat : req' = [req EXCEPT ![r] = [req[r] EXCEPT !.pc = "task", !.found = found]]
    BY <1>10, Found
  <2>2. req'[r] = [req[r] EXCEPT !.pc = "task", !.found = found] /\ req[r] \in Reports
    BY <1>10, <2>1, Shapes DEF FindTask, TypeOK
  <2>3. Moved(r, "task")
    BY <2>2 DEF Moved, At, Reports
  <2> QED
    BY <1>1, <1>10, <2>3
<1>11. CASE WriteTask(r) \/ LogAction(r)
  BY <1>1, <1>2, <1>11 DEF WriteTask, LogAction
<1> QED
  BY <1>3, <1>4, <1>5, <1>6, <1>7, <1>8, <1>9, <1>10, <1>11 DEF Continue

\* A request begins with a free id or with that of a room that exists.
LEMMA BeginStep ==
    ASSUME TypeOK, NEW r \in Requests, Begin(r)
    PROVE  /\ req[r] = Idle
           /\ UNCHANGED <<room, booked, totalRooms, task, audit>>
           /\ \/ At(r, "insert")' /\ req'[r].id \in FreeIds
              \/ (At(r, "read") \/ At(r, "room"))' /\ req'[r].id \in Existing
BY DEF Begin, BeginCreate, BeginUpdate, BeginStatus, BeginDelete, BeginHousekeeping, Become, At,
       TypeOK

-------------------------------------------------------------------------------
(* The inductive invariant *)

Inductive == TypeOK /\ CreationsApart /\ FoundOK /\ ReferencesKept /\ NumbersUnique

\* A creation begins with a free id and no step of another request takes it.
LEMMA ApartStep ==
    ASSUME TypeOK, CreationsApart, NEW r \in Requests, Begin(r) \/ Continue(r) \/ Fail(r)
    PROVE  CreationsApart'
<1> SUFFICES ASSUME NEW q \in Requests, At(q, "insert")'
             PROVE  /\ room'[req'[q].id] = NoRoom
                    /\ \A p \in Requests \ {q} : req'[p] # Idle => req'[p].id # req'[q].id
  BY DEF CreationsApart
<1>1. \A p \in Requests \ {r} : req'[p] = req[p]
  BY OthersUnchanged
<1>2. CASE q = r
  <2>1. ~ Continue(r)
    BY <1>2, ContinueStep DEF Moved, At, Idle
  <2>2. Begin(r)
    BY <1>2, <2>1 DEF Fail, Finish, Become, At, Idle, TypeOK
  <2>3. req'[r].id \in FreeIds /\ UNCHANGED room
    BY <1>2, <2>2, BeginStep DEF At
  <2> QED
    BY <1>1, <1>2, <2>3 DEF FreeIds
<1>3. CASE q # r
  <2>1. /\ At(q, "insert") /\ req'[q] = req[q]
        /\ room[req[q].id] = NoRoom
        /\ req[q].id \in RoomIds
        /\ \A p \in Requests \ {q} : req[p] # Idle => req[p].id # req[q].id
    BY <1>1, <1>3, Shapes DEF At, CreationsApart, Creations
  <2>2. req[q] # Idle
    BY <2>1 DEF At, Idle
  <2>3. room'[req[q].id] = NoRoom
    <3>1. req[q].id \notin Existing
      BY <2>1 DEF Existing
    <3>2. InsertRoom(r) => req[r].id # req[q].id
      BY <1>3, <2>1, Shapes DEF InsertRoom, At
    <3> QED
      BY <2>1, <3>1, <3>2, RoomStep DEF Added, Rewritten, Removed, OnlyRow
  <2>4. req'[r] # Idle => req'[r].id # req[q].id
    <3>1. CASE Begin(r)
      BY <2>1, <2>2, <3>1, BeginStep DEF FreeIds, Existing
    <3>2. CASE Continue(r)
      BY <1>3, <2>1, <3>2, ContinueStep DEF Moved
    <3>3. CASE Fail(r)
      BY <3>3 DEF Fail, Finish, Become, TypeOK
    <3> QED
      BY <3>1, <3>2, <3>3
  <2> QED
    BY <1>1, <2>1, <2>3, <2>4
<1> QED
  BY <1>2, <1>3

\* The tasks only accumulate, and stay those of their rooms.
LEMMA TaskStep ==
    ASSUME TypeOK, FoundOK, NEW r \in Requests, Begin(r) \/ Continue(r) \/ Fail(r)
    PROVE  /\ WriteTask(r) \/ UNCHANGED task
           /\ DOMAIN task \subseteq DOMAIN task'
           /\ \A i \in DOMAIN task : task'[i].room = task[i].room
           /\ \A i \in DOMAIN task' \ DOMAIN task :
                 WriteTask(r) /\ req[r].id \in Existing /\ task'[i].room = req[r].id
<1>1. DOMAIN task = 1 .. Len(task) /\ Len(task) \in Nat
  BY LenProperties DEF TypeOK
<1>2. CASE WriteTask(r)
  <2>1. DOMAIN task' = 1 .. Len(task') /\ Len(task') \in Nat
    BY <1>2, WriteTaskRow, LenProperties
  <2>2. CASE UNCHANGED task
    BY <1>2, <2>2
  <2>3. CASE Reopened(r)
    BY <1>1, <1>2, <2>1, <2>3 DEF Reopened
  <2>4. CASE Appended(r)
    <3>1. DOMAIN task' = 1 .. (Len(task) + 1)
      BY <2>1, <2>4 DEF Appended
    <3>2. \A i \in DOMAIN task' \ DOMAIN task : i = Len(task) + 1
      BY <1>1, <3>1
    <3> QED
      BY <1>1, <1>2, <2>4, <3>1, <3>2 DEF Appended
  <2> QED
    BY <1>2, <2>2, <2>3, <2>4, WriteTaskRow
<1>3. CASE ~ WriteTask(r)
  <2>1. UNCHANGED task
    BY <1>3, BeginStep DEF Continue, Fail, InsertRoom, UpdateTotalRooms, GetRoomById, CheckNumber,
       WriteRoom, DeleteRoom, WriteHousekeeping, FindTask, LogAction
  <2> QED
    BY <2>1
<1> QED
  BY <1>2, <1>3

\* A report keeps the task it found, and finds one of its room.
LEMMA FoundStep ==
    ASSUME TypeOK, FoundOK, NEW r \in Requests, Begin(r) \/ Continue(r) \/ Fail(r)
    PROVE  FoundOK'
<1> SUFFICES ASSUME NEW q \in Requests, At(q, "task")', req'[q].found # 0
             PROVE  req'[q].found \in DOMAIN task' /\ task'[req'[q].found].room = req'[q].id
  BY DEF FoundOK
<1>1. CASE q # r
  BY <1>1, OthersUnchanged, TaskStep DEF FoundOK, At
<1>2. CASE q = r
  <2>1. FindTask(r)
    <3>1. ~ Begin(r)
      BY <1>2, BeginStep DEF At
    <3>2. ~ Fail(r)
      BY <1>2 DEF Fail, Finish, Become, At, Idle, TypeOK
    <3> QED
      BY <1>2, <3>1, <3>2, ContinueStep DEF Moved, At, Idle
  <2>2. PICK found \in Nat :
            /\ req' = [req EXCEPT ![r] = [req[r] EXCEPT !.pc = "task", !.found = found]]
            /\ found # 0 => found \in OpenTasks(req[r].id)
    BY <2>1, Found
  <2>3. req[r] \in Reports
    BY <2>1, Shapes DEF FindTask
  <2>4. req'[r].found = found /\ req'[r].id = req[r].id
    BY <2>2, <2>3 DEF Reports, TypeOK
  <2>5. UNCHANGED task
    BY <2>1 DEF FindTask
  <2> QED
    BY <1>2, <2>2, <2>4, <2>5 DEF OpenTasks
<1> QED
  BY <1>1, <1>2

\* The delete of a room that others refer to is refused, and what refers to a room
\* is written while the room exists.
LEMMA ReferencesStep ==
    ASSUME TypeOK, CreationsApart, FoundOK, ReferencesKept,
           NEW r \in Requests, Begin(r) \/ Continue(r) \/ Fail(r)
    PROVE  ReferencesKept'
<1> SUFFICES ASSUME NEW id \in RoomIds, Referenced(id)'
             PROVE  id \in Existing'
  BY DEF ReferencesKept
<1>1. UNCHANGED booked
  BY DEF Begin, Continue, Fail, BeginCreate, BeginUpdate, BeginStatus, BeginDelete,
     BeginHousekeeping, InsertRoom, UpdateTotalRooms, GetRoomById, CheckNumber, WriteRoom,
     DeleteRoom, WriteHousekeeping, FindTask, WriteTask, LogAction
<1>2. \/ Referenced(id)
      \/ WriteTask(r) /\ id = req[r].id /\ id \in Existing
  BY <1>1, TaskStep DEF Referenced
<1>3. id \in Existing
  BY <1>2 DEF ReferencesKept
<1>4. ASSUME DeleteRoom(r), Removed(req[r].id) PROVE id # req[r].id
  <2>1. UNCHANGED task
    BY <1>4 DEF DeleteRoom
  <2> QED
    BY <1>1, <1>4, <2>1 DEF Removed, Referenced
<1> QED
  BY <1>3, <1>4, RoomStep, ExistingStep, Rows DEF Rewritten, Removed, Added, OnlyRow, Existing

\* Each change of a row keeps the numbers of the rooms apart.
LEMMA NumbersStep ==
    ASSUME TypeOK, NumbersUnique, NEW id \in RoomIds,
           UNCHANGED room \/ Added(id) \/ Rewritten(id) \/ Removed(id)
    PROVE  NumbersUnique'
<1>1. CASE UNCHANGED room
  BY <1>1, ExistingStep DEF NumbersUnique
<1>2. CASE Removed(id)
  BY <1>2, ExistingStep, Rows DEF NumbersUnique, Removed, OnlyRow
<1>3. CASE Added(id) \/ Rewritten(id)
  <2>1. /\ Existing' = Existing \cup {id}
        /\ \A other \in Existing \ {id} : other \in RoomIds /\ room'[other] = room[other]
    BY <1>3, ExistingStep, Rows DEF Added, Rewritten, OnlyRow
  <2>2. \A other \in Existing \ {id} : room[other].number # room'[id].number
    BY <1>3 DEF Added, Rewritten, TakenByOther, NumbersUnique
  <2> QED
    BY <2>1, <2>2 DEF NumbersUnique
<1> QED
  BY <1>1, <1>2, <1>3

\* Nothing is in progress at first, and the tables are empty.
LEMMA InductiveInit == Init => Inductive
<1> SUFFICES ASSUME Init PROVE Inductive
  OBVIOUS
<1>1. TypeOK
  BY TypeInit
<1>2. CreationsApart /\ FoundOK
  BY DEF Init, CreationsApart, FoundOK, At, Idle
<1>3. Existing = {} /\ DOMAIN task = {}
  BY DEF Init, Existing
<1> QED
  BY <1>1, <1>2, <1>3 DEF Inductive, ReferencesKept, Referenced, NumbersUnique, Init

\* A statement of a request keeps the invariant.
LEMMA RequestStep ==
    ASSUME Inductive, NEW r \in Requests, Begin(r) \/ Continue(r) \/ Fail(r)
    PROVE  Inductive'
<1> USE DEF Inductive
<1>1. TypeOK'
  <2>1. CASE Fail(r)
    BY <2>1 DEF Fail, Finish, Become, TypeOK, RequestStates
  <2> QED
    BY <2>1, TypeBegin, TypeContinue
<1>2. \/ UNCHANGED room
      \/ \E id \in RoomIds : Added(id) \/ Rewritten(id) \/ Removed(id)
  BY RoomStep, Shapes, Rows DEF InsertRoom, Creations, Rewritten, Removed
<1>3. NumbersUnique'
  <2>1. CASE UNCHANGED room
    BY <2>1 DEF NumbersUnique, Existing
  <2> QED
    BY <1>2, <2>1, NumbersStep
<1> QED
  BY <1>1, <1>3, ApartStep, FoundStep, ReferencesStep

\* So does a write of the booking service.
LEMMA BookingKeeps ==
    ASSUME Inductive, NEW id \in RoomIds, BookRoom(id) \/ WriteBookedStatus(id)
    PROVE  Inductive'
<1> USE DEF Inductive
<1>1. UNCHANGED room \/ Rewritten(id)
  BY BookingStep
<1>2. UNCHANGED <<totalRooms, task, req>>
  BY BookingStep
<1>3. Existing' = Existing
  BY <1>1, ExistingStep
<1>4. CreationsApart'
  BY <1>1, <1>2, Shapes DEF CreationsApart, At, Rewritten, OnlyRow, Existing, Creations
<1>5. FoundOK'
  BY <1>2 DEF FoundOK, At
<1>6. ReferencesKept'
  <2>1. \A other \in RoomIds : Referenced(other)' => Referenced(other) \/ other \in Existing
    BY <1>2 DEF BookRoom, WriteBookedStatus, Referenced
  <2> QED
    BY <1>3, <2>1 DEF ReferencesKept
<1> QED
  BY <1>1, <1>4, <1>5, <1>6, TypeBooking, NumbersStep

\* The invariant holds whatever the requests and the booking service do.
LEMMA InductiveStep == Inductive /\ [Next]_vars => Inductive'
<1> SUFFICES ASSUME Inductive, [Next]_vars PROVE Inductive'
  OBVIOUS
<1>1. CASE UNCHANGED vars
  BY <1>1 DEF vars, Inductive, TypeOK, CreationsApart, FoundOK, ReferencesKept, NumbersUnique,
              Existing, Referenced, At
<1>2. CASE Next
  BY <1>2, RequestStep, BookingKeeps DEF Next, BookingService
<1> QED
  BY <1>1, <1>2

\* So it holds in every state of every behaviour.
LEMMA InductiveInvariant == Spec => []Inductive
BY InductiveInit, InductiveStep, PTL DEF Spec

\* Every row and every request keeps the shape the code gives it.
THEOREM RoomsTypeCorrect == Spec => []TypeOK
BY InductiveInvariant, PTL DEF Inductive

\* No two rooms have the same number, whatever creations and updates race.
THEOREM RoomNumbersUnique == Spec => []NumbersUnique
BY InductiveInvariant, PTL DEF Inductive

\* Every booking and every housekeeping task is of a room that exists, whatever
\* deletions race with the handlers that write them.
THEOREM RoomReferencesKept == Spec => []ReferencesKept
BY InductiveInvariant, PTL DEF Inductive

-------------------------------------------------------------------------------
(* The hotel's count of its rooms, when no statement fails *)

Counted == /\ IsFiniteSet(Existing)
           /\ IsFiniteSet(Counting("create"))
           /\ IsFiniteSet(Counting("delete"))
           /\ TotalRoomsExact

\* At first there is no room and nobody about to count.
LEMMA CountedInit == Init => Counted
<1>1. SUFFICES ASSUME Init PROVE Counted
  OBVIOUS
<1>2. Existing = {} /\ Counting("create") = {} /\ Counting("delete") = {} /\ totalRooms = 0
  BY <1>1 DEF Init, Existing, Counting, At, Idle
<1> QED
  BY <1>2, FS_EmptySet DEF Counted, TotalRoomsExact

\* Whether a request is about to write the counter only changes with its own steps.
LEMMA OtherCounts ==
    ASSUME TypeOK, NEW r \in Requests, Begin(r) \/ Continue(r) \/ Fail(r), NEW op
    PROVE  /\ Counting(op)' \ {r} = Counting(op) \ {r}
           /\ r \in Counting(op) <=> At(r, "count") /\ req[r].op = op
           /\ r \in Counting(op)' <=> (At(r, "count") /\ req[r].op = op)'
<1>1. \A q \in Requests \ {r} : req'[q] = req[q]
  BY OthersUnchanged
<1> QED
  BY <1>1 DEF Counting, At

\* A creation is counted from its insert to its update of the counter.
LEMMA InsertCounts ==
    ASSUME TypeOK, NEW r \in Requests, InsertRoom(r), Added(req[r].id),
           req' = [req EXCEPT ![r].pc = "count"]
    PROVE  /\ r \notin Counting("create")
           /\ Counting("create")' = Counting("create") \cup {r}
           /\ Counting("delete")' = Counting("delete")
           /\ UNCHANGED totalRooms
<1>1. req[r] \in Creations /\ At(r, "insert") /\ UNCHANGED totalRooms
  BY Shapes DEF InsertRoom
<1>2. req'[r].op = "create" /\ At(r, "count")'
  BY <1>1 DEF Creations, TypeOK, At
<1>3. Continue(r)
  BY DEF Continue
<1>4. /\ r \notin Counting("create") /\ r \notin Counting("delete")
      /\ r \in Counting("create")' /\ r \notin Counting("delete")'
  BY <1>1, <1>2 DEF Counting, At
<1>5. \A op : Counting(op)' \ {r} = Counting(op) \ {r}
  BY <1>3, OtherCounts
<1> QED
  BY <1>1, <1>4, <1>5

\* A deletion is counted from its delete to its update of the counter.
LEMMA DeleteCounts ==
    ASSUME TypeOK, NEW r \in Requests, DeleteRoom(r), Removed(req[r].id),
           req' = [req EXCEPT ![r].pc = "count"]
    PROVE  /\ r \notin Counting("delete")
           /\ Counting("delete")' = Counting("delete") \cup {r}
           /\ Counting("create")' = Counting("create")
           /\ UNCHANGED totalRooms
<1>1. req[r] \in Deletions /\ At(r, "delete") /\ UNCHANGED totalRooms
  BY Shapes DEF DeleteRoom
<1>2. req'[r].op = "delete" /\ At(r, "count")'
  BY <1>1 DEF Deletions, TypeOK, At
<1>3. Continue(r)
  BY DEF Continue
<1> QED
  BY <1>1, <1>2, <1>3, OtherCounts DEF At

\* The update of the counter ends it, and moves the counter the way the request goes.
LEMMA UpdateCounts ==
    ASSUME TypeOK, NEW r \in Requests, UpdateTotalRooms(r)
    PROVE  \/ /\ r \in Counting("create")
              /\ Counting("create")' = Counting("create") \ {r}
              /\ Counting("delete")' = Counting("delete")
              /\ totalRooms' = totalRooms + 1
           \/ /\ r \in Counting("delete")
              /\ Counting("delete")' = Counting("delete") \ {r}
              /\ Counting("create")' = Counting("create")
              /\ totalRooms' = totalRooms - 1
<1>1. Continue(r) /\ At(r, "count") /\ req[r] \in Creations \cup Deletions
  BY Shapes DEF Continue, UpdateTotalRooms
<1>2. ~ At(r, "count")'
  BY <1>1 DEF UpdateTotalRooms, Goto, Become, TypeOK, At, Creations, Deletions
<1>3. CASE req[r].op = "create"
  BY <1>1, <1>2, <1>3, OtherCounts DEF UpdateTotalRooms
<1>4. CASE req[r].op = "delete"
  BY <1>1, <1>2, <1>4, OtherCounts DEF UpdateTotalRooms
<1> QED
  BY <1>1, <1>3, <1>4 DEF Creations, Deletions

\* A request comes to the counter by the write of its room only.
LEMMA WroteRoom ==
    ASSUME TypeOK, CreationsApart, NEW r \in Requests, Begin(r) \/ Continue(r), At(r, "count")'
    PROVE  ~ UNCHANGED room
<1>1. /\ InsertRoom(r) \/ DeleteRoom(r)
      /\ Moved(r, "count")
  BY BeginStep, ContinueStep DEF Moved, At, Idle
<1>2. ~ Finish(r)
  BY DEF Finish, Become, At, Idle, TypeOK
<1>3. CASE InsertRoom(r)
  <2>1. room'[req[r].id] =
            [number |-> req[r].number, status |-> "AVAILABLE", housekeeping |-> "PENDING"]
    BY <1>2, <1>3, Shapes DEF InsertRoom, Creations, TypeOK
  <2>2. room'[req[r].id].status = "AVAILABLE" /\ room[req[r].id].status = "NONE"
    BY <1>3, <2>1 DEF CreationsApart, InsertRoom, NoRoom
  <2> QED
    BY <2>2
<1>4. CASE DeleteRoom(r)
  <2>1. req[r].id \in Existing /\ room'[req[r].id] = Deleted
    BY <1>2, <1>4, Rows DEF DeleteRoom, TypeOK
  <2> QED
    BY <2>1 DEF Existing
<1> QED
  BY <1>1, <1>3, <1>4

\* No other statement changes the counter, nor who is about to write it.
LEMMA OtherSteps ==
    ASSUME TypeOK, CreationsApart, NEW r \in Requests, Begin(r) \/ Continue(r),
           ~ UpdateTotalRooms(r), UNCHANGED room \/ WriteRoom(r) \/ WriteHousekeeping(r)
    PROVE  /\ Counting("create")' = Counting("create")
           /\ Counting("delete")' = Counting("delete")
           /\ UNCHANGED totalRooms
<1>1. ~ At(r, "count")
  BY BeginStep DEF Continue, InsertRoom, UpdateTotalRooms, GetRoomById, CheckNumber,
     WriteRoom, DeleteRoom, WriteHousekeeping, FindTask, WriteTask, LogAction, At, Idle
<1>2. ~ At(r, "count")'
  <2>1. CASE UNCHANGED room
    BY <2>1, WroteRoom
  <2>2. CASE WriteRoom(r) \/ WriteHousekeeping(r)
    <3>1. Continue(r) /\ ~ InsertRoom(r) /\ ~ DeleteRoom(r)
      BY <2>2 DEF Continue, WriteRoom, WriteHousekeeping, InsertRoom, DeleteRoom, At
    <3> QED
      BY <3>1, ContinueStep DEF Moved, At, Idle
  <2> QED
    BY <2>1, <2>2
<1>3. UNCHANGED totalRooms
  BY BeginStep DEF Continue, InsertRoom, UpdateTotalRooms, GetRoomById, CheckNumber,
     WriteRoom, DeleteRoom, WriteHousekeeping, FindTask, WriteTask, LogAction
<1>4. /\ r \notin Counting("create") /\ r \notin Counting("delete")
      /\ r \notin Counting("create")' /\ r \notin Counting("delete")'
  BY <1>1, <1>2 DEF Counting
<1>5. \A op : Counting(op)' \ {r} = Counting(op) \ {r}
  BY OtherCounts
<1> QED
  BY <1>3, <1>4, <1>5

\* Each statement keeps the counter right: it moves the rooms and who is about to
\* count together, or the counter and who is about to count.
LEMMA CountedStep ==
    ASSUME Inductive, Counted,
           [(\E r \in Requests : Begin(r) \/ Continue(r)) \/ BookingService]_vars
    PROVE  Counted'
<1> USE DEF Inductive
<1> DEFINE rooms == Existing
           creates == Counting("create")
           deletes == Counting("delete")
<1>1. /\ Cardinality(rooms) \in Nat
      /\ Cardinality(creates) \in Nat
      /\ Cardinality(deletes) \in Nat
      /\ totalRooms \in Int
      /\ totalRooms = Cardinality(rooms) - Cardinality(creates) + Cardinality(deletes)
  BY FS_CardinalityType DEF Counted, TotalRoomsExact, TypeOK
<1>2. ASSUME Existing' = Existing, Counting("create")' = Counting("create"),
             Counting("delete")' = Counting("delete"), UNCHANGED totalRooms
      PROVE  Counted'
  BY <1>2 DEF Counted, TotalRoomsExact
<1>3. ASSUME NEW r \in Requests, InsertRoom(r), Added(req[r].id),
             req' = [req EXCEPT ![r].pc = "count"]
      PROVE  Counted'
  <2>1. /\ r \notin creates
        /\ creates' = creates \cup {r}
        /\ deletes' = deletes
        /\ UNCHANGED totalRooms
    BY <1>3, InsertCounts
  <2>2. req[r].id \notin rooms /\ rooms' = rooms \cup {req[r].id}
    BY <1>3, Shapes, ExistingStep DEF InsertRoom, Creations
  <2> HIDE DEF rooms, creates, deletes
  <2>3. /\ IsFiniteSet(rooms') /\ Cardinality(rooms') = Cardinality(rooms) + 1
        /\ IsFiniteSet(creates') /\ Cardinality(creates') = Cardinality(creates) + 1
        /\ IsFiniteSet(deletes') /\ Cardinality(deletes') = Cardinality(deletes)
    BY <2>1, <2>2, FS_AddElement DEF Counted, rooms, creates, deletes
  <2>4. totalRooms' = Cardinality(rooms') - Cardinality(creates') + Cardinality(deletes')
    BY <1>1, <2>1, <2>3
  <2> QED
    BY <2>3, <2>4 DEF Counted, TotalRoomsExact, rooms, creates, deletes
<1>4. ASSUME NEW r \in Requests, DeleteRoom(r), Removed(req[r].id),
             req' = [req EXCEPT ![r].pc = "count"]
      PROVE  Counted'
  <2>1. /\ r \notin deletes
        /\ deletes' = deletes \cup {r}
        /\ creates' = creates
        /\ UNCHANGED totalRooms
    BY <1>4, DeleteCounts
  <2>2. req[r].id \in rooms /\ rooms' = rooms \ {req[r].id}
    BY <1>4, Rows, ExistingStep DEF Removed
  <2> HIDE DEF rooms, creates, deletes
  <2>3. /\ IsFiniteSet(rooms') /\ Cardinality(rooms') = Cardinality(rooms) - 1
        /\ IsFiniteSet(creates') /\ Cardinality(creates') = Cardinality(creates)
        /\ IsFiniteSet(deletes') /\ Cardinality(deletes') = Cardinality(deletes) + 1
    BY <2>1, <2>2, FS_AddElement, FS_RemoveElement DEF Counted, rooms, creates, deletes
  <2>4. totalRooms' = Cardinality(rooms') - Cardinality(creates') + Cardinality(deletes')
    BY <1>1, <2>1, <2>3
  <2> QED
    BY <2>3, <2>4 DEF Counted, TotalRoomsExact, rooms, creates, deletes
<1>5. ASSUME NEW r \in Requests, UpdateTotalRooms(r)
      PROVE  Counted'
  <2>1. rooms' = rooms
    BY <1>5, ExistingStep DEF UpdateTotalRooms, Existing
  <2>2. \/ /\ r \in creates
           /\ creates' = creates \ {r}
           /\ deletes' = deletes
           /\ totalRooms' = totalRooms + 1
        \/ /\ r \in deletes
           /\ deletes' = deletes \ {r}
           /\ creates' = creates
           /\ totalRooms' = totalRooms - 1
    BY <1>5, UpdateCounts
  <2> HIDE DEF rooms, creates, deletes
  <2>3. /\ IsFiniteSet(rooms') /\ IsFiniteSet(creates') /\ IsFiniteSet(deletes')
        /\ Cardinality(rooms') = Cardinality(rooms)
        /\ IF creates' = creates
           THEN Cardinality(creates') = Cardinality(creates)
           ELSE Cardinality(creates') = Cardinality(creates) - 1
        /\ IF deletes' = deletes
           THEN Cardinality(deletes') = Cardinality(deletes)
           ELSE Cardinality(deletes') = Cardinality(deletes) - 1
    BY <2>1, <2>2, FS_RemoveElement DEF Counted, rooms, creates, deletes
  <2>4. totalRooms' = Cardinality(rooms') - Cardinality(creates') + Cardinality(deletes')
    BY <1>1, <2>2, <2>3
  <2> QED
    BY <2>3, <2>4 DEF Counted, TotalRoomsExact, rooms, creates, deletes
<1>6. ASSUME NEW r \in Requests, Begin(r) \/ Continue(r)
      PROVE  Counted'
  <2>1. CASE UpdateTotalRooms(r)
    BY <1>5, <2>1
  <2>2. CASE ~ UpdateTotalRooms(r) /\ (UNCHANGED room \/ WriteRoom(r) \/ WriteHousekeeping(r))
    <3>1. Existing' = Existing
      <4>1. UNCHANGED room \/ Rewritten(req[r].id)
        BY <1>6, <2>2, RoomStep DEF WriteRoom, WriteHousekeeping, InsertRoom, DeleteRoom, At
      <4> QED
        BY <4>1, ExistingStep, Rows DEF Existing, Rewritten
    <3> QED
      BY <1>2, <1>6, <2>2, <3>1, OtherSteps
  <2> QED
    BY <1>3, <1>4, <1>6, <2>1, <2>2, RoomStep
<1>7. ASSUME NEW id \in RoomIds, BookRoom(id) \/ WriteBookedStatus(id)
      PROVE  Counted'
  <2>1. Existing' = Existing
    BY <1>7, BookingStep, ExistingStep
  <2>2. Counting("create")' = Counting("create") /\ Counting("delete")' = Counting("delete")
    BY <1>7, BookingStep DEF Counting, At
  <2> QED
    BY <1>2, <1>7, <2>1, <2>2, BookingStep
<1>8. CASE UNCHANGED vars
  BY <1>2, <1>8 DEF vars, Existing, Counting, At
<1> QED
  BY <1>6, <1>7, <1>8 DEF BookingService

\* As long as no statement fails, the hotel's counter is the number of its rooms but
\* for the creations and deletions about to write it, however they race.
THEOREM RoomsCounted ==
    ASSUME MayFail = FALSE
    PROVE  Spec => []TotalRoomsExact
<1>1. Init => Counted
  BY CountedInit
<1>2. Inductive /\ Counted /\ [Next]_vars => Counted'
  BY CountedStep, MayFail = FALSE DEF Next, Fail
<1> QED
  BY <1>1, <1>2, InductiveInvariant, PTL DEF Spec, Counted

-------------------------------------------------------------------------------
(* The statuses that rooms are given *)

\* A request in progress asks for a status that a client asked for.
AskedOK ==
    \A r \in Requests :
        /\ req[r].op = "update" => req[r].status \in NewStatuses \cup {Unset}
        /\ req[r].op = "status" => req[r].to \in NewStatuses \cup {Unset}

\* A request asks for the same status to its end.
LEMMA AskedStep ==
    ASSUME TypeOK, AskedOK, NEW r \in Requests, Begin(r) \/ Continue(r) \/ Fail(r)
    PROVE  AskedOK'
<1> SUFFICES /\ req'[r].op = "update" => req'[r].status \in NewStatuses \cup {Unset}
             /\ req'[r].op = "status" => req'[r].to \in NewStatuses \cup {Unset}
  BY OthersUnchanged DEF AskedOK
<1> USE DEF Become, TypeOK
<1>1. CASE Begin(r)
  BY <1>1 DEF Begin, BeginCreate, BeginUpdate, BeginStatus, BeginDelete, BeginHousekeeping
<1>2. CASE Finish(r)
  BY <1>2 DEF Finish, Idle
<1>3. ASSUME NEW pc, Goto(r, pc) PROVE req'[r] = [req[r] EXCEPT !.pc = pc]
  BY <1>3 DEF Goto
<1>4. CASE \E pc : Goto(r, pc)
  <2>1. PICK pc : req'[r] = [req[r] EXCEPT !.pc = pc]
    BY <1>3, <1>4
  <2>2. CASE req[r] \in Updates
    BY <2>1, <2>2 DEF AskedOK, Updates
  <2>3. CASE req[r] \in StatusChanges
    BY <2>1, <2>3 DEF AskedOK, StatusChanges
  <2>4. CASE req[r] \in Creations \cup Deletions \cup Reports \cup {Idle}
    BY <2>1, <2>4 DEF Creations, Deletions, Reports, Idle
  <2> QED
    BY <2>2, <2>3, <2>4 DEF RequestStates
<1>5. CASE FindTask(r)
  <2>1. req[r] \in Reports /\ req'[r].op = req[r].op
    BY <1>5, Shapes DEF FindTask, Reports
  <2> QED
    BY <2>1 DEF Reports
<1>6. CASE Continue(r) \/ Fail(r)
  BY <1>2, <1>4, <1>5, <1>6 DEF Continue, Fail, InsertRoom, UpdateTotalRooms, GetRoomById,
     CheckNumber, WriteRoom, DeleteRoom, WriteHousekeeping, WriteTask, LogAction
<1> QED
  BY <1>1, <1>6

\* The room service leaves a room its status, or gives it AVAILABLE or a status that
\* a client asked for.
LEMMA GivenStatus ==
    ASSUME TypeOK, CreationsApart, AskedOK, NEW r \in Requests,
           Begin(r) \/ Continue(r) \/ Fail(r), NEW id \in Existing'
    PROVE  \/ id \in Existing /\ room'[id].status = room[id].status
           \/ room'[id].status \in NewStatuses \cup {"AVAILABLE"}
<1>0. id \in RoomIds
  BY DEF Existing
<1>1. CASE UNCHANGED room
  BY <1>1 DEF Existing
<1>2. CASE InsertRoom(r) /\ Added(req[r].id)
  <2>1. req[r].id \in RoomIds /\ room[req[r].id] = NoRoom
    BY <1>2, Shapes DEF InsertRoom, Creations, Added
  <2>2. CASE id = req[r].id
    BY <1>2, <2>1, <2>2 DEF InsertRoom, Added, Existing, TypeOK
  <2>3. CASE id # req[r].id
    BY <1>0, <1>2, <2>3, ExistingStep, <2>1 DEF Added, OnlyRow
  <2> QED
    BY <2>2, <2>3
<1>3. CASE Rewritten(req[r].id) /\ id # req[r].id
  BY <1>0, <1>3 DEF Rewritten, OnlyRow, Existing
<1>4. CASE WriteRoom(r) /\ Rewritten(req[r].id) /\ id = req[r].id
  <2>1. id \in Existing /\ room[id] \in Room
    BY <1>4, Rows DEF Rewritten
  <2>2. req[r] \in Updates \cup StatusChanges
    BY <1>4, Shapes DEF WriteRoom
  <2>3. CASE UNCHANGED room
    BY <2>1, <2>3
  <2>4. CASE room'[id] = UpdatedRow(req[r])
    <3>1. \/ UpdatedRow(req[r]).status = room[id].status
          \/ UpdatedRow(req[r]).status \in NewStatuses \cup {"AVAILABLE"}
      BY <1>4, <2>1, <2>2 DEF UpdatedRow, OrElse, Room, Updates, StatusChanges, AskedOK
    <3> QED
      BY <2>1, <2>4, <3>1
  <2> QED
    BY <1>0, <1>4, <2>3, <2>4 DEF WriteRoom, TypeOK
<1>5. CASE WriteHousekeeping(r) /\ Rewritten(req[r].id) /\ id = req[r].id
  <2>1. id \in Existing /\ room[id] \in Room
    BY <1>5, Rows DEF Rewritten
  <2>2. room' = [room EXCEPT ![id].housekeeping = req[r].status]
    BY <1>5, <2>1 DEF WriteHousekeeping
  <2> QED
    BY <1>0, <2>1, <2>2 DEF TypeOK, Room
<1>6. CASE Removed(req[r].id)
  BY <1>0, <1>6 DEF Removed, OnlyRow, Existing
<1> QED
  BY <1>1, <1>2, <1>3, <1>4, <1>5, <1>6, RoomStep

-------------------------------------------------------------------------------
(* The open tasks of a room *)

\* The reports of a room about to add a task, and those about to write one.
Creators(id) == {r \in Requests : At(r, "task") /\ req[r].id = id /\ req[r].found = 0}
Updaters(id) == {r \in Requests : At(r, "task") /\ req[r].id = id /\ req[r].found # 0}

\* The tasks that are open and those a report may yet open again.
Claimed(id) == OpenTasks(id) \cup {req[r].found : r \in Updaters(id)}

\* A report adds a task only if it found none open: from then on, every open task
\* is one that another report has found or adds.  So each report in progress stands
\* for one task at most, and the open ones stand for a report that has ended.
ClaimsBounded ==
    \A id \in RoomIds :
        /\ IsFiniteSet(Claimed(id))
        /\ Cardinality(Claimed(id)) + Cardinality(Creators(id)) <= Cardinality(Requests)

\* A record field has no more values than there are records.
LEMMA FieldValues ==
    ASSUME NEW S, IsFiniteSet(S), NEW U \in SUBSET S, NEW C \in SUBSET S, U \cap C = {},
           NEW f, NEW T, \A r \in U : f[r].found \in T, \A t \in T : \E r \in U : f[r].found = t
    PROVE  IsFiniteSet(T) /\ Cardinality(T) + Cardinality(C) <= Cardinality(S)
<1> DEFINE g == [r \in U |-> f[r].found]
<1>1. g \in Surjection(U, T)
  <2>1. g \in [U -> T]
    OBVIOUS
  <2>2. \A t \in T : \E r \in U : g[r] = t
    OBVIOUS
  <2> HIDE DEF g
  <2> QED
    BY <2>1, <2>2, Fun_IsSurj
<1> HIDE DEF g
<1>2. IsFiniteSet(U) /\ IsFiniteSet(C)
  BY FS_Subset
<1>3. IsFiniteSet(T) /\ Cardinality(T) <= Cardinality(U)
  BY <1>1, <1>2, FS_Surjection
<1>4. Cardinality(U \cup C) = Cardinality(U) + Cardinality(C)
  <2>1. Cardinality(U \cup C) = Cardinality(U) + Cardinality(C) - Cardinality(U \cap C)
    BY <1>2, FS_Union
  <2>2. Cardinality(U \cap C) = 0
    BY FS_EmptySet
  <2>3. Cardinality(U) \in Nat /\ Cardinality(C) \in Nat
    BY <1>2, FS_CardinalityType
  <2> QED
    BY <2>1, <2>2, <2>3
<1>5. Cardinality(U \cup C) <= Cardinality(S)
  <2>1. U \cup C \subseteq S
    OBVIOUS
  <2> QED
    BY <2>1, FS_Subset
<1>6. /\ Cardinality(T) \in Nat /\ Cardinality(U) \in Nat
      /\ Cardinality(C) \in Nat /\ Cardinality(S) \in Nat
  BY <1>2, <1>3, FS_CardinalityType
<1>7. Cardinality(T) + Cardinality(C) <= Cardinality(S)
  BY <1>3, <1>4, <1>5, <1>6
<1> QED
  BY <1>3, <1>7

\* Where fewer tasks are claimed, or a report adds the task it was to add, the bound
\* stays.
LEMMA BoundStays ==
    ASSUME IsFiniteSet(Requests), ClaimsBounded, NEW id \in RoomIds,
           NEW T, NEW C,
           \/ T \subseteq Claimed(id) /\ C \subseteq Creators(id)
           \/ \E r \in Creators(id) : \E new :
                 T \subseteq Claimed(id) \cup {new} /\ C \subseteq Creators(id) \ {r}
    PROVE  IsFiniteSet(T) /\ Cardinality(T) + Cardinality(C) <= Cardinality(Requests)
<1>1. IsFiniteSet(Claimed(id)) /\ IsFiniteSet(Creators(id))
  BY FS_Subset DEF ClaimsBounded, Creators
<1>2. /\ Cardinality(Claimed(id)) + Cardinality(Creators(id)) <= Cardinality(Requests)
      /\ Cardinality(Claimed(id)) \in Nat
      /\ Cardinality(Creators(id)) \in Nat
      /\ Cardinality(Requests) \in Nat
  BY <1>1, FS_CardinalityType DEF ClaimsBounded
<1>3. CASE T \subseteq Claimed(id) /\ C \subseteq Creators(id)
  <2>1. /\ IsFiniteSet(T) /\ Cardinality(T) <= Cardinality(Claimed(id))
        /\ IsFiniteSet(C) /\ Cardinality(C) <= Cardinality(Creators(id))
    BY <1>1, <1>3, FS_Subset
  <2>2. Cardinality(T) \in Nat /\ Cardinality(C) \in Nat
    BY <2>1, FS_CardinalityType
  <2> QED
    BY <1>2, <2>1, <2>2
<1>4. ASSUME NEW r \in Creators(id), NEW new,
             T \subseteq Claimed(id) \cup {new}, C \subseteq Creators(id) \ {r}
      PROVE  IsFiniteSet(T) /\ Cardinality(T) + Cardinality(C) <= Cardinality(Requests)
  <2>1. /\ IsFiniteSet(Claimed(id) \cup {new})
        /\ Cardinality(Claimed(id) \cup {new}) <= Cardinality(Claimed(id)) + 1
    <3>1. CASE new \in Claimed(id)
      <4> DEFINE more == Claimed(id) \cup {new}
      <4>1. more = Claimed(id)
        BY <3>1
      <4> HIDE DEF more
      <4>2. IsFiniteSet(more) /\ Cardinality(more) <= Cardinality(Claimed(id)) + 1
        BY <1>1, <1>2, <4>1
      <4> QED
        BY <4>2 DEF more
    <3>2. CASE new \notin Claimed(id)
      <4>1. /\ IsFiniteSet(Claimed(id) \cup {new})
            /\ Cardinality(Claimed(id) \cup {new}) = Cardinality(Claimed(id)) + 1
        BY <1>1, <3>2, FS_AddElement
      <4> QED
        BY <1>2, <4>1
    <3> QED
      BY <3>1, <3>2
  <2>2. /\ IsFiniteSet(Creators(id) \ {r})
        /\ Cardinality(Creators(id) \ {r}) = Cardinality(Creators(id)) - 1
    BY <1>1, FS_RemoveElement
  <2>3. /\ IsFiniteSet(T) /\ Cardinality(T) <= Cardinality(Claimed(id) \cup {new})
        /\ IsFiniteSet(C) /\ Cardinality(C) <= Cardinality(Creators(id) \ {r})
    BY <1>4, <2>1, <2>2, FS_Subset
  <2>4. /\ Cardinality(T) \in Nat /\ Cardinality(C) \in Nat
        /\ Cardinality(Claimed(id) \cup {new}) \in Nat
    BY <2>1, <2>3, FS_CardinalityType
  <2> QED
    BY <1>2, <2>1, <2>2, <2>3, <2>4
<1> QED
  BY <1>3, <1>4

\* A search keeps its report among those that write an open task, or makes it one that
\* adds a task to a room with none open.
LEMMA FindClaims ==
    ASSUME IsFiniteSet(Requests), TypeOK, ClaimsBounded, NEW r \in Requests, FindTask(r),
           NEW id \in RoomIds
    PROVE  /\ IsFiniteSet(Claimed(id)')
           /\ Cardinality(Claimed(id)') + Cardinality(Creators(id)') <= Cardinality(Requests)
<1>1. PICK found \in Nat :
          /\ req' = [req EXCEPT ![r] = [req[r] EXCEPT !.pc = "task", !.found = found]]
          /\ found = 0 => OpenTasks(req[r].id) = {}
          /\ found # 0 => found \in OpenTasks(req[r].id)
  BY Found
<1>2. req[r] \in Reports /\ At(r, "find")
  BY Shapes DEF FindTask
<1>3. /\ req'[r].pc = "task" /\ req'[r].found = found /\ req'[r].id = req[r].id
      /\ \A q \in Requests \ {r} : req'[q] = req[q]
  BY <1>1, <1>2 DEF Reports, TypeOK
<1>4. OpenTasks(id)' = OpenTasks(id)
  BY DEF FindTask, OpenTasks
<1>5. r \notin Creators(id) /\ r \notin Updaters(id)
  BY <1>2 DEF Creators, Updaters, At
<1>6. CASE OpenTasks(id) = {}
  <2>1. /\ \A q \in Updaters(id)' : req'[q].found \in Claimed(id)'
        /\ \A t \in Claimed(id)' : \E q \in Updaters(id)' : req'[q].found = t
    BY <1>4, <1>6 DEF Claimed
  <2>2. /\ Updaters(id)' \in SUBSET Requests
        /\ Creators(id)' \in SUBSET Requests
        /\ Updaters(id)' \cap Creators(id)' = {}
    BY DEF Updaters, Creators
  <2> QED
    BY <2>1, <2>2, FieldValues
<1>7. CASE OpenTasks(id) # {}
  <2>1. Creators(id)' \subseteq Creators(id)
    BY <1>1, <1>3, <1>7 DEF Creators, At
  <2>2. \A q \in Updaters(id)' : req'[q].found \in Claimed(id)
    <3>1. \A q \in Updaters(id)' \ {r} : q \in Updaters(id) /\ req'[q].found = req[q].found
      BY <1>3 DEF Updaters, At
    <3>2. r \in Updaters(id)' => req'[r].found \in OpenTasks(id)
      BY <1>1, <1>3 DEF Updaters
    <3> QED
      BY <3>1, <3>2 DEF Claimed
  <2>3. Claimed(id)' \subseteq Claimed(id)
    BY <1>4, <2>2 DEF Claimed
  <2> QED
    BY <2>1, <2>3, BoundStays
<1> QED
  BY <1>6, <1>7

\* A report that ends takes its claim with it, and leaves at most one more open task.
LEMMA WriteClaims ==
    ASSUME IsFiniteSet(Requests), TypeOK, FoundOK, ClaimsBounded,
           NEW r \in Requests, WriteTask(r), NEW id \in RoomIds
    PROVE  /\ IsFiniteSet(Claimed(id)')
           /\ Cardinality(Claimed(id)') + Cardinality(Creators(id)') <= Cardinality(Requests)
<1>1. /\ req[r] \in Reports /\ At(r, "task")
      /\ ~ At(r, "task")'
      /\ \A q \in Requests \ {r} : req'[q] = req[q]
  BY Shapes DEF WriteTask, Finish, Become, At, Idle, TypeOK
<1>2. /\ Creators(id)' = Creators(id) \ {r}
      /\ Updaters(id)' = Updaters(id) \ {r}
      /\ {req'[q].found : q \in Updaters(id)'} \subseteq {req[q].found : q \in Updaters(id)}
  BY <1>1 DEF Creators, Updaters, At
<1>3. /\ DOMAIN task = 1 .. Len(task) /\ Len(task) \in Nat
      /\ DOMAIN task' = 1 .. Len(task') /\ Len(task') \in Nat
  BY WriteTaskRow, LenProperties DEF TypeOK
<1>4. CASE UNCHANGED task
  BY <1>2, <1>4, BoundStays DEF Claimed, OpenTasks
<1>5. CASE Reopened(r)
  <2>1. \A i \in OpenTasks(id)' : \/ i \in OpenTasks(id)
                                  \/ r \in Updaters(id) /\ i = req[r].found
    <3>1. \A i \in OpenTasks(id)' : i \in 1 .. Len(task) /\ task[i].room = id
      BY <1>3, <1>5 DEF OpenTasks, Reopened
    <3>2. \A i \in OpenTasks(id)' : i # req[r].found => i \in OpenTasks(id)
      BY <1>3, <1>5 DEF OpenTasks, Reopened
    <3>3. req[r].found \in OpenTasks(id)' => r \in Updaters(id)
      BY <1>1, <1>3, <1>5, <3>1 DEF Reopened, Updaters
    <3> QED
      BY <3>2, <3>3
  <2>2. OpenTasks(id)' \subseteq Claimed(id)
    BY <2>1 DEF Claimed
  <2>3. Claimed(id)' \subseteq Claimed(id)
    BY <1>2, <2>2 DEF Claimed
  <2> QED
    BY <1>2, <2>3, BoundStays
<1>6. CASE Appended(r)
  <2>1. \A i \in OpenTasks(id)' : i \in OpenTasks(id) \cup {Len(task) + 1}
    BY <1>3, <1>6 DEF OpenTasks, Appended
  <2>2. CASE req[r].id = id
    <3>1. r \in Creators(id)
      BY <1>1, <1>6, <2>2 DEF Creators, Appended
    <3>2. Claimed(id)' \subseteq Claimed(id) \cup {Len(task) + 1}
      BY <1>2, <2>1 DEF Claimed
    <3> QED
      BY <1>2, <3>1, <3>2, BoundStays
  <2>3. CASE req[r].id # id
    <3>1. OpenTasks(id)' \subseteq OpenTasks(id)
      BY <1>3, <1>6, <2>1, <2>3 DEF OpenTasks, Appended
    <3>2. Claimed(id)' \subseteq Claimed(id)
      BY <1>2, <3>1 DEF Claimed
    <3> QED
      BY <1>2, <3>2, BoundStays
  <2> QED
    BY <2>2, <2>3
<1> QED
  BY <1>4, <1>5, <1>6, WriteTaskRow

\* No other step gives a room an open task, or a report to add one.
LEMMA OtherClaims ==
    ASSUME IsFiniteSet(Requests), TypeOK, FoundOK, ClaimsBounded,
           NEW r \in Requests, Begin(r) \/ Continue(r) \/ Fail(r),
           ~ FindTask(r), ~ WriteTask(r), NEW id \in RoomIds
    PROVE  /\ IsFiniteSet(Claimed(id)')
           /\ Cardinality(Claimed(id)') + Cardinality(Creators(id)') <= Cardinality(Requests)
<1>1. UNCHANGED task
  BY TaskStep
<1>2. ~ At(r, "task")'
  <2>1. CASE Begin(r)
    BY <2>1, BeginStep DEF At
  <2>2. CASE Continue(r)
    BY <2>2, ContinueStep DEF Moved, At, Idle
  <2>3. CASE Fail(r)
    BY <2>3 DEF Fail, Finish, Become, At, Idle, TypeOK
  <2> QED
    BY <2>1, <2>2, <2>3
<1>3. \A q \in Requests \ {r} : req'[q] = req[q]
  BY OthersUnchanged
<1>4. Creators(id)' \subseteq Creators(id)
  BY <1>2, <1>3 DEF Creators, At
<1>5. \A q \in Updaters(id)' : q \in Updaters(id) /\ req'[q] = req[q]
  BY <1>2, <1>3 DEF Updaters, At
<1>6. Claimed(id)' \subseteq Claimed(id)
  BY <1>1, <1>5 DEF Claimed, OpenTasks
<1> QED
  BY <1>4, <1>6, BoundStays

\* The bound survives every step.
LEMMA ClaimsStep ==
    ASSUME IsFiniteSet(Requests), Inductive, ClaimsBounded, [Next]_vars
    PROVE  ClaimsBounded'
<1> USE DEF Inductive
<1>1. ASSUME NEW r \in Requests, Begin(r) \/ Continue(r) \/ Fail(r)
      PROVE  ClaimsBounded'
  BY <1>1, FindClaims, WriteClaims, OtherClaims DEF ClaimsBounded
<1>2. ASSUME UNCHANGED <<task, req>>
      PROVE  ClaimsBounded'
  <2>1. \A id \in RoomIds : UNCHANGED <<Claimed(id), Creators(id)>>
    BY <1>2 DEF Claimed, Updaters, Creators, OpenTasks, At
  <2> QED
    BY <2>1 DEF ClaimsBounded
<1> QED
  BY <1>1, <1>2, BookingStep DEF Next, BookingService, vars

\* A room never has more open tasks than there are requests at a time, though
\* reports that race each add one or open again what another has closed.
THEOREM RoomTasksBounded ==
    ASSUME IsFiniteSet(Requests)
    PROVE  Spec => []OpenTasksBounded
<1>1. Init => ClaimsBounded
  <2>1. SUFFICES ASSUME Init, NEW id \in RoomIds
                 PROVE  /\ IsFiniteSet(Claimed(id))
                        /\ Cardinality(Claimed(id)) + Cardinality(Creators(id))
                              <= Cardinality(Requests)
    BY DEF ClaimsBounded
  <2>2. Claimed(id) = {} /\ Creators(id) = {}
    BY <2>1 DEF Init, Claimed, OpenTasks, Updaters, Creators, At, Idle
  <2> QED
    BY <2>2, FS_EmptySet, FS_CardinalityType
<1>2. Inductive /\ ClaimsBounded /\ [Next]_vars => ClaimsBounded'
  BY ClaimsStep
<1>3. ClaimsBounded => OpenTasksBounded
  <2>1. SUFFICES ASSUME ClaimsBounded, NEW id \in RoomIds
                 PROVE  Cardinality(OpenTasks(id)) <= Cardinality(Requests)
    BY DEF OpenTasksBounded
  <2>2. IsFiniteSet(Claimed(id)) /\ IsFiniteSet(Creators(id))
    BY <2>1, FS_Subset DEF ClaimsBounded, Creators
  <2>3. /\ IsFiniteSet(OpenTasks(id))
        /\ Cardinality(OpenTasks(id)) <= Cardinality(Claimed(id))
    BY <2>2, FS_Subset DEF Claimed
  <2>4. /\ Cardinality(OpenTasks(id)) \in Nat /\ Cardinality(Claimed(id)) \in Nat
        /\ Cardinality(Creators(id)) \in Nat /\ Cardinality(Requests) \in Nat
    BY <2>2, <2>3, FS_CardinalityType
  <2> QED
    BY <2>1, <2>3, <2>4 DEF ClaimsBounded
<1> QED
  BY <1>1, <1>2, <1>3, InductiveInvariant, PTL DEF Spec
=============================================================================
