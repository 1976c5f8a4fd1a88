------------------------------ MODULE MCRetry ------------------------------
(***************************************************************************)
(* Three booking requests, one of them above the limit of its user once    *)
(* the other has booked, and three deadlock victims: enough for one        *)
(* request to run out of attempts.                                         *)
(***************************************************************************)
EXTENDS BookingProperties, TLC

CONSTANTS b1, b2, b3, show, ann, bob

MCEventOf     == [r \in Requests |-> show]
MCUserOf      == b1 :> ann @@ b2 :> ann @@ b3 :> bob
MCTickets     == b1 :> 2 @@ b2 :> 1 @@ b3 :> 2
MCTarget      == [c \in Cancels |-> b1]
MCNewCapacity == [u \in Updates |-> Keep]
MCNewStatus   == [u \in Updates |-> Keep]
MCAfter       == [r \in Requests |-> {}]
MCInitEvents  == show :> [capacity |-> 3, booked |-> 0, status |-> "published"]
MCInitSpots   == {show :> 3, show :> Missing}
=============================================================================
