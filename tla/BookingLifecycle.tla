--------------------------- MODULE BookingLifecycle ---------------------------
(***************************************************************************)
(* What the bookings table promises its readers (statistics, reports, the  *)
(* front desk), however the handlers that write it are interleaved: the    *)
(* events recorded of a booking only accumulate, and an event is recorded  *)
(* only of a booking that has its predecessor.                             *)
(***************************************************************************)
CONSTANT BookingIds

VARIABLE recorded   \* the events recorded of each booking

Events == {"created", "confirmed", "checkedIn", "checkedOut", "cancelled"}

\* The event that has to be recorded before this one.
Predecessors(event) ==
    CASE event = "created"    -> {}
      [] event = "confirmed"  -> {"created"}
      [] event = "checkedIn"  -> {"confirmed"}
      [] event = "checkedOut" -> {"checkedIn"}
      [] event = "cancelled"  -> {"created"}

Init == recorded = [b \in BookingIds |-> {}]

Record(b, event) ==
    /\ Predecessors(event) \subseteq recorded[b]
    /\ recorded' = [recorded EXCEPT ![b] = @ \cup {event}]

Next == \E b \in BookingIds, event \in Events : Record(b, event)

Spec == Init /\ [][Next]_recorded
=============================================================================
