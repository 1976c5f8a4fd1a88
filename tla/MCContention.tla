---------------------------- MODULE MCContention ----------------------------
(***************************************************************************)
(* One event of four seats, two of them taken by b0.  Its owner books two  *)
(* more single tickets at once (only one fits the limit of three per user  *)
(* while b0 stands), another user books two, b0 is cancelled twice at      *)
(* once, by its owner and by an admin, and an admin lowers the capacity    *)
(* below what may be booked by then.                                       *)
(***************************************************************************)
EXTENDS BookingProperties, TLC

CONSTANTS b0, b1, b2, b3, c1, c2, p1, show, ann, bob

MCEventOf     == [r \in Requests |-> show]
MCUserOf      == [r \in Books \cup Cancels |-> IF r = b3 THEN bob ELSE ann]
MCTickets     == b0 :> 2 @@ b1 :> 1 @@ b2 :> 1 @@ b3 :> 2
MCTarget      == [c \in Cancels |-> b0]
MCNewCapacity == [u \in Updates |-> 2]
MCNewStatus   == [u \in Updates |-> Keep]
MCAfter       == [r \in Requests |-> {}]
MCInitEvents  == show :> [capacity |-> 4, booked |-> 2, status |-> "published"]
MCInitSpots   == {show :> 2, show :> Missing}
=============================================================================
