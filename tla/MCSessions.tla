----------------------------- MODULE MCSessions -----------------------------
(***************************************************************************)
(* A seeded user, who may be deleted, has a session of second 0; another   *)
(* address is still free.  Any three requests that can get in each other's *)
(* way meet: registrations and logins of the free address, refreshes, a    *)
(* logout and a login of the seeded user; with one fault.  Tokens live one *)
(* second, so that they expire before the clock stops at the third.        *)
(***************************************************************************)
EXTENDS Sessions

CONSTANTS g1, g2, l1, l2, f1, f2, o1, seed, home, work

MCAddressOf == [r \in Registers \cup Logins \cup Accounts |->
                   IF r \in {seed, l2} THEN work ELSE home]
MCTraffic == {{g1, g2, l1}, {g1, l1, f1}, {f1, f2, o1}, {l2, f1, f2}, {l2, f1, o1}}
=============================================================================
