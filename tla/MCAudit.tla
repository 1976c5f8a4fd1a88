------------------------------ MODULE MCAudit ------------------------------
(***************************************************************************)
(* Two requests of one user, one within the limits and one above the six   *)
(* tickets of a booking: the two ways the audit log is written.            *)
(***************************************************************************)
EXTENDS BookingProperties, TLC

CONSTANTS b1, b2, show, ann

MCEventOf     == [r \in Requests |-> show]
MCUserOf      == [r \in Requests |-> ann]
MCTickets     == b1 :> 1 @@ b2 :> 7
MCTarget      == [c \in Cancels |-> b1]
MCNewCapacity == [u \in Updates |-> Keep]
MCNewStatus   == [u \in Updates |-> Keep]
MCAfter       == [r \in Requests |-> {}]
MCInitEvents  == show :> [capacity |-> 9, booked |-> 0, status |-> "published"]
MCInitSpots   == {show :> Missing}
=============================================================================
