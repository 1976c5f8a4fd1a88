----------------------------- MODULE AccessControl -----------------------------
(***************************************************************************)
(* Who a request comes from, which routes let it in, and which rows its    *)
(* handler shows it.                                                       *)
(*                                                                         *)
(* Headers: bearer is the kind of token in Authorization (jwt.verify has   *)
(* accepted the two named ones), user and role what the token says, and    *)
(* testUser the header x-test-user-id.                                     *)
(***************************************************************************)
CONSTANTS Users, Nobody, Production

Roles == {"user", "admin"}

Headers == [bearer : {"none", "access", "refresh", "invalid"}, user : Users, role : Roles,
            testUser : Users \cup {Nobody}]

NoUser == [user |-> Nobody, role |-> ""]

Named(headers) == [user |-> headers.user, role |-> headers.role]

\* jwt.verify succeeds, and the token has type 'access'.
AccessToken(headers) == headers.bearer = "access"

\* authMiddleware; NoUser stands for the 401.
AuthUser(headers) ==
    IF ~Production /\ headers.testUser # Nobody
    THEN [user |-> headers.testUser, role |-> "user"]
    ELSE IF AccessToken(headers) THEN Named(headers) ELSE NoUser

\* optionalAuthMiddleware lets everybody in.
OptionalUser(headers) == IF AccessToken(headers) THEN Named(headers) ELSE NoUser

AnyRole(user, allowed) == user.role \in Roles \cup allowed
HasRole(user, allowed) == user.role = "admin" \/ user.role \in allowed

PublicRoutes == {"listEvents", "getEventById"}
AdminRoutes  == {"createEvent", "updateEvent", "listAuditLog"}
UserRoutes   == {"bookSpotForEvent", "listMyBookings", "getBookingById", "cancelBooking"}

ReqUser(route, headers) == IF route \in PublicRoutes THEN OptionalUser(headers)
                           ELSE AuthUser(headers)

\* What the middlewares of a route answer, if they do.
Gate(route, headers) ==
    LET user == ReqUser(route, headers) IN
    IF route \notin PublicRoutes /\ user = NoUser THEN "Unauthorized"
    ELSE IF route \in AdminRoutes /\ ~HasRole(user, {"admin"}) THEN "Forbidden"
    ELSE "next"

AsAdmin(user) == user.role = "admin"

PublicStatuses == {"published", "coming_soon"}

\* getEventById hides what the public list leaves out.
EventVisible(user, event) == AsAdmin(user) \/ event.status \in PublicStatuses

\* getBookingById, after it has found the booking.
BookingVisible(user, booking) == AsAdmin(user) \/ booking.user = user.user

\* The role that listMyBookings hands to listBookings.
ListingRole(user) == "user"
=============================================================================
