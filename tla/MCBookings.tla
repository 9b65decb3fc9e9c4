------------------------------ MODULE MCBookings ------------------------------
(* Instances of Bookings for TLC. *)
EXTENDS Bookings, TLC

\* Requests, rooms and ids of bookings are interchangeable.
Symmetry == Permutations(Requests) \cup Permutations(Rooms) \cup Permutations(BookingIds)
=============================================================================
