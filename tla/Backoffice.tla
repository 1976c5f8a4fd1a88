------------------------------ MODULE Backoffice ------------------------------
(***************************************************************************)
(* Creating and changing events, their audit trail, and the requests that  *)
(* read events, bookings and the audit log page by page.                   *)
(*                                                                         *)
(* A reader is a client that asks for page 1 of a list and goes on while   *)
(* has_next says so.  A page takes two queries, sent to the pool at once:  *)
(* the list and the count, each on the rows committed when it runs.  Rows  *)
(* are stamped with the start of their transaction.  Bookings commit in    *)
(* one step here; module Booking shows what that takes.                    *)
(***************************************************************************)
EXTENDS Pagination, AccessControl, AuditLog

CONSTANTS
    Creates, Patches, Books, Cancels, Readers, Getters,   \* requests
    RouteOf,        \* [Readers \cup Getters -> routes]
    HeadersOf,      \* [Requests -> Headers]
    Body,           \* [Creates \cup Patches -> fields or None]
    EventOf,        \* [Patches \cup Books -> Ids]
    Query,          \* [Readers -> the query string]
    Traffic,        \* the sets of requests of which one is sent
    Ids,            \* 1 .. how many events there can be (a bound)
    Names, Capacities,
    InitEvents, InitBookings, InitLog, InitNow,
    Filters,        \* the audit filters that FiltersAgree tries
    MaxFaults, NoRow

Writers  == Creates \cup Patches \cup Books \cup Cancels
Requests == Writers \cup Readers \cup Getters

Statuses == {"draft", "coming_soon", "published", "cancelled", "completed"}

Fields == {"name", "capacity", "status"}
Values == [name |-> Names, capacity |-> Capacities, status |-> Statuses]

Stamps == 0 .. InitNow + Cardinality(Writers)

Row == [id : Ids, name : Names, capacity : Capacities, status : Statuses,
        booked : Nat, at : Stamps]

Booking == [by : Requests, event : Ids, user : Users, at : Stamps,
            status : {"confirmed", "cancelled"}]

Answers == {"none", "OK", "Created", "Unauthorized", "Forbidden", "NotFound",
            "SoldOut", "AlreadyCancelled", "Error"}

PcValues == {"Idle", "InsertEvent", "ReadEvent", "WriteEvent", "Commit", "Sell",
             "CancelBooking", "Queries", "Done"}

ASSUME RequestAssumption ==
    /\ IsFiniteSet(Requests) /\ Traffic \subseteq SUBSET Requests
    /\ Creates \cap (Patches \cup Books \cup Cancels) = {} /\ Books \cap Cancels = {}
    /\ Patches \cap (Books \cup Cancels) = {} /\ Readers \cap Getters = {}
    /\ Writers \cap (Readers \cup Getters) = {}
    /\ HeadersOf \in [Requests -> Headers] /\ EventOf \in [Patches \cup Books -> Ids]
    /\ \A r \in Readers : RouteOf[r] \in {"listEvents", "listMyBookings", "listAuditLog"}
    /\ \A g \in Getters : RouteOf[g] \in {"getEventById", "getBookingById"}
    /\ \A q \in Creates \cup Patches, f \in Fields : Body[q][f] \in Values[f] \cup {None}
    /\ \A c \in Creates : Body[c].name # None /\ Body[c].capacity # None
    /\ Nobody \notin Users /\ \A f \in Fields : None \notin Values[f]
    /\ Capacities \subseteq Nat /\ MaxFaults \in Nat
    /\ \A r \in Readers : /\ Query[r].sort \in {"created_at", "name", "remaining_spots"}
                          /\ Query[r].limit \in Nat \ {0}
    /\ Names \subseteq Int   \* they are ordered
    /\ None \notin Int /\ None \notin {"success", "failure"}

Confirmed(rows, e) == {b \in rows : b.event = e /\ b.status = "confirmed"}

EntryOK(entry) ==
    /\ entry.by \in Requests /\ entry.log \in Logs /\ entry.event \in Ids
    /\ entry.booking \in (IF entry.log = "booking" THEN Requests ELSE {}) \cup {None}
    /\ entry.outcome \in {"success", "failure"} /\ entry.at \in Stamps
    /\ \A f \in Fields : entry.changes[f] \in Values[f] \cup {None}

\* The database at the start is one that earlier requests have left.
ASSUME StartAssumption ==
    /\ InitNow \in Nat /\ NoRow \notin Row
    /\ InitEvents \in [Ids -> Row \cup {NoRow}]
    /\ \A e \in Ids : InitEvents[e] # NoRow =>
          /\ InitEvents[e].id = e /\ InitEvents[e].booked <= InitEvents[e].capacity
          /\ InitEvents[e].booked = Cardinality(Confirmed(InitBookings, e))
    /\ InitBookings \subseteq Booking /\ IsFiniteSet(InitBookings)
    /\ \A b \in InitBookings : InitEvents[b.event] # NoRow /\ b.by \notin UNION Traffic
    /\ \A b, d \in InitBookings : b.by = d.by => b = d
    /\ InitLog \in Seq(ToSet(InitLog)) /\ \A i \in DOMAIN InitLog : EntryOK(InitLog[i])

\* There are ids for the events that requests sent together can create.
ASSUME IdAssumption ==
    LET taken == {e \in Ids : InitEvents[e] # NoRow} IN
    /\ IsFiniteSet(Ids) /\ Ids = 1 .. Cardinality(Ids) /\ taken = 1 .. Cardinality(taken)
    /\ \A sent \in Traffic : Cardinality(taken) + Cardinality(sent \cap Creates) <= Cardinality(Ids)

VARIABLES
    now,                          \* the clock of PostgreSQL
    events, bookings, auditLog,   \* the committed rows; auditLog in the order of their COMMITs
    nextId,                       \* the sequence of events.id
    pc, begin, view, tx,          \* a writer's transaction: its NOW(), what it read, what it wrote
    page, listed, counted,        \* a reader's page, and the answers of its two queries
    seen, reply, faults,
    \* history: what a reader's list was, what happened to it since, the rows that came
    \* into it between the count and the list of its page, those that came twice, and
    \* those that the edge of a page left to chance
    first, hist, late, twice, tied

tables  == <<events, bookings, auditLog>>
writing == <<begin, view, tx>>
reading == <<page, listed, counted, seen, first, twice, tied>>
watched == <<hist, late>>
vars == <<now, tables, nextId, pc, writing, reading, reply, faults, watched>>

NoTx == [event |-> NoRow, entry |-> NoRow]

Goto(q, label) == pc' = [pc EXCEPT ![q] = label]
Answer(q, a) == Goto(q, "Done") /\ reply' = [reply EXCEPT ![q] = a]

User(q, route) == ReqUser(route, HeadersOf[q])

-----------------------------------------------------------------------------
(* The lists *)

ReaderUser(r) == User(r, RouteOf[r])

\* listEvents: an admin may ask for one status, anybody else gets the public ones.
StatusFilter(r) == IF ~AsAdmin(ReaderUser(r)) THEN PublicStatuses
                   ELSE IF Given(Query[r].status) THEN {Query[r].status} ELSE Statuses

ListedEvents(r) ==
    {events[e] : e \in {e \in Ids : /\ events[e] # NoRow
                                    /\ events[e].status \in StatusFilter(r)
                                    /\ Given(Query[r].search) => events[e].name = Query[r].search}}

ListedBookings(r) ==
    IF ListingRole(ReaderUser(r)) = "admin" THEN bookings
    ELSE {b \in bookings : b.user = ReaderUser(r).user /\ b.status = "confirmed"}

ListedEntries(r) == Combined(ToSet(auditLog), Query[r])

Rows(r) == CASE RouteOf[r] = "listEvents"     -> ListedEvents(r)
             [] RouteOf[r] = "listMyBookings" -> ListedBookings(r)
             [] RouteOf[r] = "listAuditLog"   -> ListedEntries(r)

CountRows(r) == IF RouteOf[r] = "listAuditLog" THEN CombinedCount(ToSet(auditLog), Query[r])
                ELSE Cardinality(Rows(r))

SortKey(r, row) == CASE Query[r].sort = "created_at"      -> row.at
                     [] Query[r].sort = "name"            -> row.name
                     [] Query[r].sort = "remaining_spots" -> row.capacity - row.booked

\* buildListQuery: ORDER BY the chosen column, id DESC.
SortOnly(r, a, b) == IF Query[r].order = "asc" THEN SortKey(r, a) < SortKey(r, b)
                     ELSE SortKey(r, a) > SortKey(r, b)
EventBefore(r, a, b) == SortOnly(r, a, b) \/ (SortKey(r, a) = SortKey(r, b) /\ a.id > b.id)

\* The rows before the page.
Passed(r) == Offset(page[r], Query[r].limit)

PageRows(r) ==
    IF RouteOf[r] = "listEvents"
    THEN Pages(Rows(r), page[r], Query[r].limit, LAMBDA a, b : EventBefore(r, a, b))
    ELSE Pages(Rows(r), page[r], Query[r].limit, NewestFirst)

\* ORDER BY created_at alone: the rows of a stamp of which some are among the first n and
\* some are not.
SplitAt(r, n) ==
    IF RouteOf[r] = "listEvents" THEN {}
    ELSE {x \in Rows(r) : /\ Cardinality({y \in Rows(r) : y.at > x.at}) < n
                          /\ n < Cardinality({y \in Rows(r) : y.at >= x.at})}

-----------------------------------------------------------------------------
(* A reader *)

Open(r) ==
    /\ pc[r] = "Idle"
    /\ IF Gate(RouteOf[r], HeadersOf[r]) = "next"
       THEN Goto(r, "Queries") /\ UNCHANGED reply /\ first' = [first EXCEPT ![r] = Rows(r)]
       ELSE Answer(r, Gate(RouteOf[r], HeadersOf[r])) /\ UNCHANGED first
    /\ UNCHANGED <<now, tables, nextId, writing, page, listed, counted, seen, twice,
                   tied, faults, watched>>

\* Promise.all sends both queries; they run in either order.
ListQuery(r) ==
    /\ pc[r] = "Queries" /\ listed[r] = NoRow
    /\ \E rows \in PageRows(r) : listed' = [listed EXCEPT ![r] = rows]
    /\ tied' = [tied EXCEPT ![r] = @ \cup SplitAt(r, Passed(r))
                                    \cup SplitAt(r, Passed(r) + Query[r].limit)]
    /\ UNCHANGED <<now, tables, nextId, pc, writing, page, counted, seen, first, twice, reply,
                   faults, watched>>

CountQuery(r) ==
    /\ pc[r] = "Queries" /\ counted[r] = NoRow
    /\ counted' = [counted EXCEPT ![r] = CountRows(r)]
    /\ UNCHANGED <<now, tables, nextId, pc, writing, page, listed, seen, first, twice, tied,
                   reply, faults, watched>>

\* The answer, and the client's next request.
Respond(r) ==
    /\ pc[r] = "Queries" /\ listed[r] # NoRow /\ counted[r] # NoRow
    /\ seen' = [seen EXCEPT ![r] = @ \cup listed[r]]
    /\ twice' = [twice EXCEPT ![r] = @ \cup (seen[r] \cap listed[r])]
    /\ IF HasNext(page[r], counted[r], Query[r].limit)
       THEN /\ page' = [page EXCEPT ![r] = @ + 1]
            /\ late' = [late EXCEPT ![r] = {}]
            /\ UNCHANGED <<pc, reply>>
       ELSE Answer(r, "OK") /\ UNCHANGED <<page, late>>
    /\ listed' = [listed EXCEPT ![r] = NoRow]
    /\ counted' = [counted EXCEPT ![r] = NoRow]
    /\ UNCHANGED <<now, tables, nextId, writing, first, tied, faults, hist>>

\* getEventById and getBookingById, of any id.
Found(g, id) == IF RouteOf[g] = "getEventById" THEN {events[id]} \ {NoRow}
                ELSE {b \in bookings : b.by = id}
Hidden(g, row) == IF RouteOf[g] = "getEventById" THEN ~EventVisible(ReaderUser(g), row)
                  ELSE ~BookingVisible(ReaderUser(g), row)

GetRefused(g) ==
    /\ Gate(RouteOf[g], HeadersOf[g]) # "next"
    /\ Answer(g, Gate(RouteOf[g], HeadersOf[g])) /\ UNCHANGED seen
GetMissing(g, id) == Found(g, id) = {} /\ Answer(g, "NotFound") /\ UNCHANGED seen
GetHidden(g, id) ==
    /\ \E row \in Found(g, id) : Hidden(g, row)
    /\ Answer(g, IF RouteOf[g] = "getEventById" THEN "NotFound" ELSE "Forbidden")
    /\ UNCHANGED seen
GetShown(g, id) ==
    /\ \E row \in Found(g, id) : ~Hidden(g, row)
    /\ seen' = [seen EXCEPT ![g] = Found(g, id)]
    /\ Answer(g, "OK")

Get(g) ==
    /\ pc[g] = "Idle"
    /\ \/ GetRefused(g)
       \/ /\ Gate(RouteOf[g], HeadersOf[g]) = "next"
          /\ \E id \in (IF RouteOf[g] = "getEventById" THEN Ids ELSE Books) :
                GetMissing(g, id) \/ GetHidden(g, id) \/ GetShown(g, id)
    /\ UNCHANGED <<now, tables, nextId, writing, page, listed, counted, first, twice, tied,
                   faults, watched>>

\* What a commit does to the lists being read (history).
Effects(r) ==
    (IF Rows(r)' # Rows(r) THEN {"changed"} ELSE {})
    \cup (IF Rows(r) \subseteq Rows(r)' THEN {} ELSE {"removed"})
Came(r) == IF counted[r] # NoRow /\ listed[r] = NoRow THEN Rows(r)' \ Rows(r) ELSE {}
Observe ==
    /\ hist' = [r \in Readers |-> IF pc[r] = "Queries" THEN hist[r] \cup Effects(r) ELSE hist[r]]
    /\ late' = [r \in Readers |-> IF pc[r] = "Queries" THEN late[r] \cup Came(r) ELSE late[r]]

-----------------------------------------------------------------------------
(* createEvent and updateEvent *)

WriteRoute(q) == IF q \in Creates THEN "createEvent" ELSE IF q \in Patches THEN "updateEvent"
                 ELSE IF q \in Books THEN "bookSpotForEvent" ELSE "cancelBooking"

FirstStep(q) == IF q \in Creates THEN "InsertEvent" ELSE IF q \in Patches THEN "ReadEvent"
                ELSE IF q \in Books THEN "Sell" ELSE "CancelBooking"

\* BEGIN; NOW() stands still until the end of the transaction.
Begin(q) ==
    /\ pc[q] = "Idle"
    /\ IF Gate(WriteRoute(q), HeadersOf[q]) = "next"
       THEN Goto(q, FirstStep(q)) /\ begin' = [begin EXCEPT ![q] = now] /\ UNCHANGED reply
       ELSE Answer(q, Gate(WriteRoute(q), HeadersOf[q])) /\ UNCHANGED begin
    /\ UNCHANGED <<now, tables, nextId, view, tx, reading, faults, watched>>

NoChanges == [f \in Fields |-> None]

EventEntry(q, e, changes) ==
    [by |-> q, log |-> "event", event |-> e, booking |-> None, outcome |-> "success",
     at |-> begin[q], changes |-> changes]
BookingEntry(q, e, b) ==
    [by |-> q, log |-> "booking", event |-> e, booking |-> b, outcome |-> "success",
     at |-> begin[q], changes |-> NoChanges]

StatusOrDraft(c) == IF Given(Body[c].status) THEN Body[c].status ELSE "draft"

InsertedRow(c) == [id |-> nextId, name |-> Body[c].name, capacity |-> Body[c].capacity,
                   status |-> StatusOrDraft(c), booked |-> 0, at |-> begin[c]]

\* The INSERT of the event and that of its audit row, whose details are the row's.
InsertEvent(c) ==
    /\ pc[c] = "InsertEvent"
    /\ tx' = [tx EXCEPT ![c] =
                [event |-> InsertedRow(c),
                 entry |-> EventEntry(c, nextId, [f \in Fields |-> InsertedRow(c)[f]])]]
    /\ nextId' = nextId + 1
    /\ Goto(c, "Commit")
    /\ UNCHANGED <<now, tables, begin, view, reading, reply, faults, watched>>

\* findByIdWithClient, without a lock.
ReadEvent(p) ==
    /\ pc[p] = "ReadEvent"
    /\ view' = [view EXCEPT ![p] = events[EventOf[p]]]
    /\ IF events[EventOf[p]] = NoRow THEN Answer(p, "NotFound")
                                     ELSE Goto(p, "WriteEvent") /\ UNCHANGED reply
    /\ UNCHANGED <<now, tables, nextId, begin, tx, reading, faults, watched>>

Locked(e) == \E q \in Patches : pc[q] = "Commit" /\ tx[q].event.id = e

Patch(given, old) == IF Given(given) THEN given ELSE old

UpdatedRowAll(p) == [f \in DOMAIN view[p] |->
                        IF f \in Fields THEN Patch(Body[p][f], view[p][f]) ELSE view[p][f]]
\* All columns but booked_count are written, from the row that was read.
UpdatedRow(p) == [f \in DOMAIN events[EventOf[p]] |->
                     IF f \in Fields THEN Patch(Body[p][f], view[p][f]) ELSE events[EventOf[p]][f]]

\* The `changes` of the audit row.
Changes(p) == [f \in Fields |-> Body[p][f]]

\* UPDATE ... WHERE capacity >= booked_count waits for the row lock and sees the
\* committed row; chk_booked_lte_capacity is evaluated on the new one.
WriteEvent(p) ==
    LET e == EventOf[p] IN
    /\ pc[p] = "WriteEvent" /\ ~Locked(e)
    /\ IF events[e].capacity >= events[e].booked /\ UpdatedRow(p).booked <= UpdatedRow(p).capacity
       THEN /\ tx' = [tx EXCEPT ![p] = [event |-> UpdatedRow(p),
                                        entry |-> EventEntry(p, e, Changes(p))]]
            /\ Goto(p, "Commit") /\ UNCHANGED reply
       ELSE /\ Answer(p, IF events[e].capacity < events[e].booked THEN "NotFound" ELSE "Error")
            /\ UNCHANGED tx
    /\ UNCHANGED <<now, tables, nextId, begin, view, reading, faults, watched>>

\* COMMIT takes longer than the resolution of the clock.
Commit(q) ==
    /\ pc[q] = "Commit"
    /\ events' = [events EXCEPT ![tx[q].event.id] = tx[q].event]
    /\ auditLog' = Append(auditLog, tx[q].entry)
    /\ UNCHANGED bookings
    /\ now' = now + 1
    /\ tx' = [tx EXCEPT ![q] = NoTx]
    /\ Answer(q, IF q \in Creates THEN "Created" ELSE "OK")
    /\ Observe
    /\ UNCHANGED <<nextId, begin, view, reading, faults>>

\* The audit INSERT, which is awaited, or COMMIT fails: the transaction is rolled back.
RowWithoutEntry(q) == events' = [events EXCEPT ![tx[q].event.id] = tx[q].event]
                      /\ UNCHANGED <<bookings, auditLog>>
RolledBack(q) == UNCHANGED tables

WriteFault(q) ==
    /\ pc[q] = "Commit"
    /\ faults < MaxFaults /\ faults' = faults + 1
    /\ RolledBack(q)
    /\ tx' = [tx EXCEPT ![q] = NoTx]
    /\ Answer(q, "Error")
    /\ Observe
    /\ UNCHANGED <<now, nextId, begin, view, reading>>

-----------------------------------------------------------------------------
(* The transactions of bookSpot and cancelBooking, in one step each. *)

Sell(b) ==
    LET e == EventOf[b] IN
    /\ pc[b] = "Sell" /\ ~Locked(e)
    /\ IF events[e] = NoRow
       THEN Answer(b, "NotFound") /\ UNCHANGED <<tables, now, watched>>
       ELSE IF events[e].status # "published" \/ events[e].capacity - events[e].booked < 1
       THEN Answer(b, "SoldOut") /\ UNCHANGED <<tables, now, watched>>
       ELSE /\ events' = [events EXCEPT ![e].booked = @ + 1]
            /\ bookings' = bookings \cup
                  {[by |-> b, event |-> e, user |-> User(b, "bookSpotForEvent").user,
                    at |-> begin[b], status |-> "confirmed"]}
            /\ auditLog' = Append(auditLog, BookingEntry(b, e, b))
            /\ now' = now + 1
            /\ Answer(b, "Created")
            /\ Observe
    /\ UNCHANGED <<nextId, writing, reading, faults>>

Refusal(user, b) == IF ~BookingVisible(user, b) THEN "Forbidden"
                    ELSE IF b.status = "cancelled" THEN "AlreadyCancelled" ELSE "none"

CancelBooking(c) ==
    /\ pc[c] = "CancelBooking"
    /\ \E id \in Books :
          \/ /\ ~\E b \in bookings : b.by = id
             /\ Answer(c, "NotFound") /\ UNCHANGED <<tables, now, watched>>
          \/ \E b \in {b \in bookings : b.by = id} :
             LET refusal == Refusal(User(c, "cancelBooking"), b) IN
             \/ /\ refusal # "none"
                /\ Answer(c, refusal) /\ UNCHANGED <<tables, now, watched>>
             \/ /\ refusal = "none" /\ ~Locked(b.event)
                /\ events' = [events EXCEPT ![b.event].booked = @ - 1]
                /\ bookings' = (bookings \ {b}) \cup {[b EXCEPT !.status = "cancelled"]}
                /\ auditLog' = Append(auditLog, BookingEntry(c, b.event, b.by))
                /\ now' = now + 1
                /\ Answer(c, "OK")
                /\ Observe
    /\ UNCHANGED <<nextId, writing, reading, faults>>

-----------------------------------------------------------------------------
Init ==
    /\ now = InitNow /\ events = InitEvents /\ bookings = InitBookings /\ auditLog = InitLog
    /\ nextId = 1 + Cardinality({e \in Ids : InitEvents[e] # NoRow})
    /\ \E sent \in Traffic : pc = [q \in Requests |-> IF q \in sent THEN "Idle" ELSE "Done"]
    /\ begin = [q \in Writers |-> 0]
    /\ view = [q \in Patches |-> NoRow]
    /\ tx = [q \in Creates \cup Patches |-> NoTx]
    /\ page = [r \in Readers |-> 1]
    /\ listed = [r \in Readers |-> NoRow] /\ counted = [r \in Readers |-> NoRow]
    /\ seen = [r \in Readers \cup Getters |-> {}]
    /\ reply = [q \in Requests |-> "none"]
    /\ faults = 0
    /\ first = [r \in Readers |-> {}] /\ hist = [r \in Readers |-> {}]
    /\ late = [r \in Readers |-> {}]
    /\ twice = [r \in Readers |-> {}] /\ tied = [r \in Readers |-> {}]

Finished == (\A q \in Requests : pc[q] = "Done") /\ UNCHANGED vars

Next == \/ \E q \in Writers : Begin(q)
        \/ \E c \in Creates : InsertEvent(c)
        \/ \E p \in Patches : ReadEvent(p) \/ WriteEvent(p)
        \/ \E q \in Creates \cup Patches : Commit(q) \/ WriteFault(q)
        \/ \E b \in Books : Sell(b)
        \/ \E c \in Cancels : CancelBooking(c)
        \/ \E r \in Readers : Open(r) \/ ListQuery(r) \/ CountQuery(r) \/ Respond(r)
        \/ \E g \in Getters : Get(g)
        \/ Finished

Spec == Init /\ [][Next]_vars
-----------------------------------------------------------------------------
(* Properties *)

\* Every variable keeps its shape, and no more seats are booked than an event has.
TypeOK ==
    /\ now \in Stamps /\ nextId \in Nat /\ faults \in 0 .. MaxFaults
    /\ events \in [Ids -> Row \cup {NoRow}]
    /\ \A e \in Ids : events[e] # NoRow => events[e].id = e /\ events[e].booked <= events[e].capacity
    /\ bookings \subseteq Booking
    /\ auditLog \in Seq(ToSet(auditLog)) /\ \A i \in DOMAIN auditLog : EntryOK(auditLog[i])
    /\ pc \in [Requests -> PcValues] /\ begin \in [Writers -> Stamps]
    /\ view \in [Patches -> Row \cup {NoRow}]
    /\ \A q \in Creates \cup Patches : pc[q] = "Commit" <=> tx[q] # NoTx
    /\ page \in [Readers -> Nat \ {0}]
    /\ reply \in [Requests -> Answers]

\* The seats an event counts as booked are its confirmed bookings, although a PATCH writes
\* back a row that it has read without a lock, and bookings come and go until it does.
SeatsAreBookings ==
    \A e \in Ids : events[e] # NoRow =>
        events[e].booked = Cardinality(Confirmed(bookings, e))

\* The inductive invariant behind these.  A request keeps to the steps of its handler.
Path(q) ==
    {"Idle", "Done"} \cup
    (IF q \in Creates THEN {"InsertEvent", "Commit"}
     ELSE IF q \in Patches THEN {"ReadEvent", "WriteEvent", "Commit"}
     ELSE IF q \in Books THEN {"Sell"} ELSE IF q \in Cancels THEN {"CancelBooking"}
     ELSE IF q \in Readers THEN {"Queries"} ELSE {})

\* A booking is made once, of an event that is there.
BookingsInv ==
    /\ IsFiniteSet(bookings)
    /\ \A b \in bookings : events[b.event] # NoRow /\ pc[b.by] \notin {"Idle", "Sell"}
    /\ \A b, d \in bookings : b.by = d.by => b = d

\* What a transaction is about to commit: a row with an id of its own, or the row of an
\* event that is there, which nobody else changes, with the seats it has by now.
CreateTx(c) ==
    /\ tx[c].event.booked = 0 /\ tx[c].event.id < nextId /\ events[tx[c].event.id] = NoRow
    /\ \A d \in Creates : pc[d] = "Commit" /\ tx[d].event.id = tx[c].event.id => d = c
PatchTx(p) ==
    /\ tx[p].event.id = EventOf[p] /\ events[EventOf[p]] # NoRow
    /\ tx[p].event.booked = events[EventOf[p]].booked
    /\ tx[p].event.booked <= tx[p].event.capacity
    /\ \A d \in Patches : pc[d] = "Commit" /\ EventOf[d] = EventOf[p] => d = p
TxInv ==
    /\ DOMAIN tx = Creates \cup Patches
    /\ \A q \in Creates \cup Patches : pc[q] = "Commit" =>
          /\ tx[q].event \in Row /\ EntryOK(tx[q].entry) /\ tx[q].entry.by = q
          /\ IF q \in Creates THEN CreateTx(q) ELSE PatchTx(q)
    /\ \A p \in Patches : pc[p] = "WriteEvent" =>
          view[p] # NoRow /\ events[EventOf[p]] # NoRow

\* Every writer has a tick of the clock, and every POST an id.
Running  == {q \in Writers : pc[q] # "Done"}
ToInsert == {c \in Creates : pc[c] \in {"Idle", "InsertEvent"}}
Counting ==
    /\ now + Cardinality(Running) <= InitNow + Cardinality(Writers)
    /\ nextId > 0 /\ \A e \in Ids : e >= nextId => events[e] = NoRow
    /\ nextId + Cardinality(ToInsert) <= Cardinality(Ids) + 1

\* Whoever runs was let in by the gate of its route.
LetIn(q) == Gate(IF q \in Writers THEN WriteRoute(q) ELSE RouteOf[q], HeadersOf[q]) = "next"
Admitted == \A q \in Requests : pc[q] \in {"Idle", "Done"} \/ LetIn(q)

RowsInv ==
    /\ TypeOK /\ SeatsAreBookings /\ BookingsInv /\ TxInv /\ Counting /\ Admitted
    /\ \A q \in Requests : pc[q] \in Path(q)

\* What the log says of field f of event e: an entry gave it a value, and i was the last.
Gives(entry, e, f) == entry.log = "event" /\ entry.event = e /\ Given(entry.changes[f])
InTrail(log, e, f, value) ==
    \E i \in DOMAIN log : Gives(log[i], e, f) /\ log[i].changes[f] = value
IsLast(log, e, f, i) ==
    Gives(log[i], e, f) /\ \A j \in DOMAIN log : j > i => ~Gives(log[j], e, f)
LastInTrail(log, e, f, value) ==
    \E i \in DOMAIN log : IsLast(log, e, f, i) /\ log[i].changes[f] = value

\* The clock when an entry was committed; its `at` is when its transaction began.
CommitTime(i) == InitNow + i - Len(InitLog) - 1

\* After the last change of the field, a transaction on the event was committed that had
\* begun before that change was.
LostUpdate(log, e, f) ==
    \E i, j \in DOMAIN log : /\ IsLast(log, e, f, i) /\ j > i
                             /\ log[j].log = "event" /\ log[j].event = e
                             /\ log[j].at <= CommitTime(i)

\* What the trail accounts for as the value of a field.
Explained(log, e, f, value) ==
    InTrail(log, e, f, value) /\ (LastInTrail(log, e, f, value) \/ LostUpdate(log, e, f))

\* The trail explains the rows: an event is what its entries, replayed in the order of
\* their COMMITs, say field by field, the value that was given last; and where it is not
\* (a PATCH has written back what it had read without a lock, the lost update) it has a
\* value that was logged before, and that PATCH had begun before the change it undid was
\* committed.  What was committed before a PATCH began is never lost.
TrailExplainsEvents ==
    \A e \in Ids : events[e] # NoRow =>
        \A f \in Fields : Explained(auditLog, e, f, events[e][f])

\* The inductive invariant behind it: what a transaction that began then may write back.
Overtaken(log, e, f, begun) ==
    \E i \in DOMAIN log : IsLast(log, e, f, i) /\ begun <= CommitTime(i)
Readable(log, e, f, value, begun) ==
    \/ Explained(log, e, f, value)
    \/ InTrail(log, e, f, value) /\ Overtaken(log, e, f, begun)
TxTrail(q) ==
    LET row == tx[q].event
        entry == tx[q].entry IN
    /\ entry.log = "event" /\ entry.event = row.id /\ entry.at = begin[q]
    /\ \A f \in Fields :
          IF Given(entry.changes[f]) THEN entry.changes[f] = row[f]
          ELSE Readable(auditLog, row.id, f, row[f], begin[q])
\* The clock counts the entries, and nobody begins in the future.
LogClock == now = CommitTime(Len(auditLog) + 1) /\ \A q \in Writers : begin[q] <= now
TrailInv ==
    /\ TrailExplainsEvents
    /\ LogClock
    /\ \A p \in Patches : pc[p] = "WriteEvent" =>
          \A f \in Fields : Readable(auditLog, EventOf[p], f, view[p][f], begin[p])
    /\ \A q \in Creates \cup Patches : pc[q] = "Commit" => TxTrail(q)

\* What a filter asks for, row by row.
Wanted(rows, f) ==
    {row \in (IF f.type # "booking" THEN EventAudit(rows, f) ELSE {})
             \cup (IF f.type # "event" THEN BookingAudit(rows, f) ELSE {}) :
        Given(f.booking) => row.booking = f.booking}

\* The merged audit log shows what the two repositories show for the same filters, and
\* its count is that of its rows; the one filter that is ignored is a booking_id
\* together with resource_type=event.
FiltersAgree ==
    \A f \in Filters :
        LET rows == ToSet(auditLog) IN
        /\ CombinedCount(rows, f) = Cardinality(Combined(rows, f))
        /\ IF f.type = "event" /\ Given(f.booking)
           THEN Combined(rows, f) = EventAudit(rows, f)
           ELSE Combined(rows, f) = Wanted(rows, f)

Through(r) == pc[r] = "Done" /\ reply[r] = "OK"

\* A client that follows has_next to the end has seen every row that was there when it
\* began and stayed, although rows are committed meanwhile, some with older stamps than
\* rows it has seen.  Only two things cost it rows: a last page whose rows were listed
\* after its total was counted, no more of them than came in between; and the edge of a
\* page that runs through rows of one stamp, those rows alone.  (A row that is removed
\* from the list, or moves in it, shifts the pages; then LIMIT/OFFSET promises nothing.)
PagesMissNothing ==
    \A r \in Readers :
        Through(r) /\ "removed" \notin hist[r] =>
            Cardinality(first[r] \ (seen[r] \cup tied[r])) <= Cardinality(late[r])

\* When nothing is committed meanwhile, the pages are the list, each row once, but for
\* rows of one stamp at the edge of a page; and of those one is on no page only if
\* another is on two.
PagesPartition ==
    \A r \in Readers :
        Through(r) /\ hist[r] = {} =>
            /\ seen[r] \ tied[r] = first[r] \ tied[r]
            /\ twice[r] \subseteq tied[r]
            /\ seen[r] = first[r] <=> twice[r] = {}

\* The inductive invariant behind both.  A row that the client has not seen yet has at
\* least as many rows before it as the client has passed.
Ahead(r, a, b) == IF RouteOf[r] = "listEvents" THEN EventBefore(r, a, b) ELSE NewestFirst(a, b)
Rank(r, rows, x) == Cardinality({y \in rows : Ahead(r, y, x)})
Within(r, n) == Min({n, Cardinality(Rows(r))})
MissInv(r) ==
    LET edge == Passed(r) + Query[r].limit IN
    /\ first[r] \subseteq Rows(r)
    /\ \A x \in first[r] \ (seen[r] \cup tied[r]) : Rank(r, Rows(r), x) >= Passed(r)
    /\ listed[r] # NoRow =>
          \A x \in first[r] \ (seen[r] \cup listed[r] \cup tied[r]) : Rank(r, Rows(r), x) >= edge
    /\ counted[r] # NoRow =>
          IF listed[r] = NoRow THEN Cardinality(Rows(r) \ late[r]) <= counted[r]
          ELSE counted[r] <= edge =>
                  Cardinality(first[r] \ (seen[r] \cup listed[r] \cup tied[r])) <= Cardinality(late[r])
PartInv(r) ==
    LET edge == Passed(r) + Query[r].limit IN
    /\ first[r] = Rows(r) /\ seen[r] \subseteq Rows(r) /\ twice[r] \subseteq tied[r]
    /\ \A x \in Rows(r) \ tied[r] : x \in seen[r] <=> Rank(r, Rows(r), x) < Passed(r)
    /\ IF twice[r] = {} THEN Cardinality(seen[r]) = Within(r, Passed(r))
                        ELSE Cardinality(seen[r]) < Within(r, Passed(r))
    /\ counted[r] # NoRow => counted[r] = Cardinality(Rows(r))
    /\ listed[r] # NoRow =>
          /\ listed[r] \subseteq Rows(r)
          /\ \A x \in Rows(r) \ tied[r] :
                x \in listed[r] <=> Rank(r, Rows(r), x) >= Passed(r) /\ Rank(r, Rows(r), x) < edge
          /\ Cardinality(listed[r]) = Within(r, edge) - Within(r, Passed(r))
NotBegun(r) ==
    /\ page[r] = 1 /\ seen[r] = {} /\ twice[r] = {} /\ tied[r] = {} /\ late[r] = {}
    /\ listed[r] = NoRow /\ counted[r] = NoRow
ReadInv ==
    /\ DOMAIN listed = Readers /\ DOMAIN counted = Readers /\ DOMAIN first = Readers
    /\ DOMAIN twice = Readers /\ DOMAIN tied = Readers /\ DOMAIN hist = Readers
    /\ DOMAIN late = Readers /\ DOMAIN seen = Readers \cup Getters
    /\ \A r \in Readers : (counted[r] # NoRow => counted[r] \in Nat) /\ IsFiniteSet(late[r])
    /\ \A r \in Readers : pc[r] = "Idle" => NotBegun(r)
    /\ \A r \in Readers : pc[r] = "Queries" /\ "removed" \notin hist[r] => MissInv(r)
    /\ \A r \in Readers : pc[r] = "Queries" /\ hist[r] = {} => PartInv(r)
    /\ PagesMissNothing /\ PagesPartition

\* Who the headers really speak for (the bypass never makes an admin).
Bypassed(q, route) == ~Production /\ HeadersOf[q].testUser # Nobody /\ route \notin PublicRoutes
IsAdmin(q, route) == /\ ~Bypassed(q, route)
                     /\ HeadersOf[q].bearer = "access" /\ HeadersOf[q].role = "admin"
Owner(q) == IF Bypassed(q, RouteOf[q]) THEN HeadersOf[q].testUser
            ELSE IF HeadersOf[q].bearer = "access" THEN HeadersOf[q].user ELSE Nobody

\* Until now only admins have written to the log of events, and it explains the events.
ASSUME TrailAssumption ==
    /\ \A i \in DOMAIN InitLog :
          InitLog[i].by \in Creates \cup Patches => IsAdmin(InitLog[i].by, WriteRoute(InitLog[i].by))
    /\ \A e \in Ids, f \in Fields :
          InitEvents[e] # NoRow => LastInTrail(InitLog, e, f, InitEvents[e][f])

\* A public event, or a booking of one's own.
PermittedRow(r, row) ==
    \/ RouteOf[r] \in {"listEvents", "getEventById"} /\ row.status \in PublicStatuses
    \/ RouteOf[r] \in {"listMyBookings", "getBookingById"} /\ row.user = Owner(r)

\* Whatever the headers, a request that does not come from an admin sees public events
\* and its own bookings and nothing else, however lists and rows change between its
\* pages; and only admins have written to the log of events.
OnlyPermitted ==
    /\ \A r \in Readers \cup Getters : IsAdmin(r, RouteOf[r]) \/
          \A row \in seen[r] : PermittedRow(r, row)
    /\ \A i \in DOMAIN auditLog :
          auditLog[i].by \in Creates \cup Patches => IsAdmin(auditLog[i].by, WriteRoute(auditLog[i].by))

\* The inductive invariant behind it: what a list query has answered may be shown.
ListedInv ==
    /\ DOMAIN listed = Readers /\ DOMAIN seen = Readers \cup Getters
    /\ \A r \in Readers : listed[r] # NoRow => IsAdmin(r, RouteOf[r]) \/
          \A row \in listed[r] : PermittedRow(r, row)
PermitInv == RowsInv /\ ListedInv /\ OnlyPermitted

\* The whole: what every step of the back office keeps.
BackofficeInv == PermitInv /\ TrailInv /\ ReadInv

\* docs/role-based-access.md:45, "List own": "(all users)" for an admin.  An admin who
\* reads the list of bookings to its end sees those of the others.
AdminsListAll ==
    \A r \in Readers : RouteOf[r] = "listMyBookings" /\ IsAdmin(r, RouteOf[r]) /\ Through(r) =>
        \A b \in InitBookings : \E row \in seen[r] : row.by = b.by
=============================================================================
