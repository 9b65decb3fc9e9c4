------------------------------- MODULE MCRooms -------------------------------
(* Instances of Rooms for TLC. *)
EXTENDS Rooms, TLC

\* Requests, ids and numbers of rooms are interchangeable.
Symmetry == Permutations(Requests) \cup Permutations(RoomIds) \cup Permutations(RoomNumbers)

\* No handler reads the audit log: states that differ in it only are explored once.
WithoutAudit == <<room, booked, totalRooms, task, req>>
=============================================================================
