------------------------------ MODULE MCStale ------------------------------
(***************************************************************************)
(* Three users race for the two seats of an event whose Redis counter is   *)
(* missing, too low, right or too high, and one asks for an event that is  *)
(* no longer in the database but may still have its key.                   *)
(***************************************************************************)
EXTENDS BookingProperties, TLC

CONSTANTS b1, b2, b3, b4, show, gone, ann, bob, cat

MCEventOf     == [r \in Requests |-> IF r = b4 THEN gone ELSE show]
MCUserOf      == b1 :> ann @@ b2 :> bob @@ b3 :> cat @@ b4 :> ann
MCTickets     == [b \in Books |-> 1]
MCTarget      == [c \in Cancels |-> b1]
MCNewCapacity == [u \in Updates |-> Keep]
MCNewStatus   == [u \in Updates |-> Keep]
MCAfter       == [r \in Requests |-> {}]
MCInitEvents  == show :> [capacity |-> 2, booked |-> 0, status |-> "published"] @@ gone :> NoRow
MCInitSpots   == {show :> s @@ gone :> g : s \in {Missing, 0, 1, 2, 3}, g \in {Missing, 0, 1}}
=============================================================================
