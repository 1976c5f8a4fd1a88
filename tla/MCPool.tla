------------------------------- MODULE MCPool -------------------------------
(***************************************************************************)
(* Bookings of one event and a health probe share the pool of a process.   *)
(* The event starts with a limit of its own, stricter than the default,    *)
(* which is changed once, to a stricter or a laxer one.                    *)
(***************************************************************************)
EXTENDS ConnectionPool, TLC

CONSTANTS show

MCEventOf   == [b \in Books |-> show]
MCInitTable == show :> 3 @@ Default :> 6
=============================================================================
