---------------------------- MODULE MCBackoffice ----------------------------
(***************************************************************************)
(* A draft and a published event of one size, created through the API, and *)
(* two confirmed bookings of it, of ann and bob; the third event is yet to *)
(* come.                                                                   *)
(* Sets of requests that can get in each other's way are sent together:    *)
(* two PATCHes of one event and a booking of it, a POST, lists that are    *)
(* read while rows of them come, change and go, and single reads.          *)
(***************************************************************************)
EXTENDS Backoffice, TLC

CONSTANTS c1, c2, p1, p2, b0, b1, x1, x2, r1, r2, r3, r4, r5, r6, r7, r8, g1, g2, g3, g4,
          k1, k2, ann, bob, root

Admin == [bearer |-> "access", user |-> root, role |-> "admin", testUser |-> Nobody]
Ann   == [bearer |-> "access", user |-> ann, role |-> "user", testUser |-> Nobody]
Bob   == [bearer |-> "refresh", user |-> root, role |-> "admin", testUser |-> bob]
Stale == [bearer |-> "refresh", user |-> root, role |-> "admin", testUser |-> Nobody]
Guest == [bearer |-> "none", user |-> ann, role |-> "user", testUser |-> Nobody]

MCHeadersOf == [q \in Requests |->
    CASE q \in {c1, p1, p2, r3, r5, r7, r8, x2, g4} -> Admin
      [] q \in {b1, x1, r4, g2}            -> Ann
      [] q \in {b0, c2}                    -> Bob
      [] q \in {r6, g1}                    -> Stale
      [] OTHER                             -> Guest]

MCRouteOf ==
    r1 :> "listEvents" @@ r2 :> "listEvents" @@ r3 :> "listEvents" @@ r4 :> "listMyBookings"
    @@ r5 :> "listAuditLog" @@ r6 :> "listAuditLog" @@ r7 :> "listMyBookings"
    @@ r8 :> "listAuditLog" @@ g4 :> "getEventById"
    @@ g1 :> "getEventById" @@ g2 :> "getBookingById" @@ g3 :> "getBookingById"

Anything == [type |-> None, event |-> None, booking |-> None, outcome |-> None, from |-> None,
             to |-> None, search |-> None, status |-> None, sort |-> "created_at",
             order |-> "desc", limit |-> 1]
MCQuery == [r \in Readers |->
    CASE r = r1 -> [Anything EXCEPT !.sort = "remaining_spots", !.order = "asc"]
      [] r = r3 -> [Anything EXCEPT !.sort = "name", !.limit = 2]
      [] r = r2 -> [Anything EXCEPT !.search = 1]
      [] r = r5 -> [Anything EXCEPT !.type = "event"]
      [] r = r8 -> [Anything EXCEPT !.event = 2, !.from = 1, !.limit = 2]
      [] OTHER  -> Anything]

Empty == [f \in Fields |-> None]
MCBody == c1 :> [Empty EXCEPT !.name = 1, !.capacity = 2]
          @@ c2 :> [Empty EXCEPT !.name = 1, !.capacity = 2]
          @@ p1 :> [Empty EXCEPT !.status = "cancelled"]
          @@ p2 :> [Empty EXCEPT !.capacity = 2]
MCEventOf == [q \in Patches \cup Books |-> IF q = b0 THEN 3 ELSE 2]

Event(id, status, booked, at) == [id |-> id, name |-> 1, capacity |-> 3, status |-> status,
                                  booked |-> booked, at |-> at]
MCInitEvents == 1 :> Event(1, "draft", 0, 0) @@ 2 :> Event(2, "published", 2, 1)
                @@ 3 :> NoRow
MCInitBookings == {[by |-> k1, event |-> 2, user |-> ann, at |-> 2, status |-> "confirmed"],
                   [by |-> k2, event |-> 2, user |-> bob, at |-> 3, status |-> "confirmed"]}

Logged(q, log, e, booking, at, changes) ==
    [by |-> q, log |-> log, event |-> e, booking |-> booking, outcome |-> "success", at |-> at,
     changes |-> changes]
Initial(e) == [f \in Fields |-> MCInitEvents[e][f]]
MCInitLog == <<Logged(k1, "event", 1, None, 0, Initial(1)), Logged(k2, "event", 2, None, 1, Initial(2)),
               Logged(k1, "booking", 2, k1, 2, Empty), Logged(k2, "booking", 2, k2, 3, Empty)>>

MCTraffic == {{c1, p1, p2, b1}, {p1, p2, r5}, {p1, b1, r1}, {c1, p2, r3}, {c1, p1, r2},
              {b1, x1, r4}, {x1, x2, r8},
              {r6, r7, r8, c2, b0}, {p1, g1, g2, g3, g4}}

\* The admin's list alone, while bob cannot write.
MCAdminTraffic == {{r7}}

MCFilters == [type : Logs \cup {None}, event : {2, None}, booking : {k1, None},
              outcome : {"success", "failure", None}, from : {1, None}, to : {2, None}]
=============================================================================
