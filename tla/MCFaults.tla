------------------------------ MODULE MCFaults ------------------------------
(***************************************************************************)
(* One event of three seats, one of them taken by b0.  Two users book      *)
(* while b0 is cancelled and an admin cancels the event, and up to two     *)
(* faults of any kind happen at any step: enough for a fault and a second  *)
(* one in the handling of the first.                                       *)
(***************************************************************************)
EXTENDS BookingProperties, TLC

CONSTANTS b0, b1, b2, c1, p1, show, ann, bob

MCEventOf     == [r \in Requests |-> show]
MCUserOf      == [r \in Books \cup Cancels |-> IF r = b2 THEN bob ELSE ann]
MCTickets     == b0 :> 1 @@ b1 :> 2 @@ b2 :> 1
MCTarget      == [c \in Cancels |-> b0]
MCNewCapacity == [u \in Updates |-> Keep]
MCNewStatus   == [u \in Updates |-> "cancelled"]
MCAfter       == [r \in Requests |-> {}]
MCInitEvents  == show :> [capacity |-> 3, booked |-> 1, status |-> "published"]
MCInitSpots   == {show :> 2, show :> Missing}
=============================================================================
