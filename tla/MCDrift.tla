------------------------------ MODULE MCDrift ------------------------------
(***************************************************************************)
(* Two requests race for an event of two seats; a third one runs alone     *)
(* when both have been answered.                                           *)
(***************************************************************************)
EXTENDS BookingProperties, TLC

CONSTANTS b1, b2, b3, show, ann, bob, cat

MCEventOf     == [r \in Requests |-> show]
MCUserOf      == b1 :> ann @@ b2 :> bob @@ b3 :> cat
MCTickets     == b1 :> 2 @@ b2 :> 1 @@ b3 :> 1
MCTarget      == [c \in Cancels |-> b1]
MCNewCapacity == [u \in Updates |-> Keep]
MCNewStatus   == [u \in Updates |-> Keep]
MCAfter       == [r \in Requests |-> IF r = b3 THEN {b1, b2} ELSE {}]
MCInitEvents  == show :> [capacity |-> 2, booked |-> 0, status |-> "published"]
MCInitSpots   == {show :> Missing}
=============================================================================
