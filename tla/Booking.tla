------------------------------- MODULE Booking -------------------------------
(***************************************************************************)
(* The seat-selling core of the service: BookingService.bookSpot and       *)
(* cancelBooking, EventService.updateEvent, the PostgreSQL rows they lock  *)
(* and the Redis seat counter they filter through.                         *)
(*                                                                         *)
(* Each HTTP request is a process.  An action runs from one `await` of the *)
(* handler to the next, so requests interleave where Node.js lets them     *)
(* (statements on rows whose lock the transaction holds share an action).  *)
(* A transaction's writes stay in tx[r] until COMMIT, as READ COMMITTED    *)
(* hides them from the others; what serialises transactions is the row     *)
(* locks taken by SELECT ... FOR UPDATE and by UPDATE.                     *)
(***************************************************************************)
EXTENDS Integers, FiniteSetsExt

CONSTANTS
    Books, Cancels, Updates,  \* requests: POST booking, PATCH booking, PATCH event
    Events, Users,
    EventOf,                  \* [Requests -> Events]
    UserOf,                   \* [Books \cup Cancels -> Users]: who is logged in
    Tickets,                  \* [Books -> Nat \ {0}]: ticket_count
    Target,                   \* [Cancels -> Books]: the booking to cancel
    ByAdmin,                  \* the cancels sent with role admin
    NewCapacity, NewStatus,   \* [Updates -> value or Keep]: the PATCH body
    After,                    \* [Requests -> SUBSET Requests]: answers a client waits for
    MaxPerBooking, MaxPerUser,
    Attempts,                 \* DEADLOCK_RETRY_ATTEMPTS
    InitEvents,               \* [Events -> Row \cup {NoRow}]
    InitBooked,               \* the bookings that exist already
    InitSpots,                \* the counters Redis may hold at the start
    FaultKinds, MaxFaults,    \* what may fail, and how often (a bound)
    Nobody, NoRow, Missing, Keep

Requests == Books \cup Cancels \cup Updates

Statuses == {"draft", "coming_soon", "published", "cancelled", "completed"}

Row == [capacity : Nat, booked : Int, status : Statuses]

Outcomes == {"success", "failure"}

Answers == {"none", "Created", "Cancelled", "Updated", "NotFound", "Forbidden",
            "AlreadyCancelled", "NotPublished", "SoldOut", "PerBooking",
            "PerUser", "Unreserved", "Deadlock", "Error", "Lost"}

PreTx    == {"Exists", "SyncRead", "SetNx", "Decr", "Recheck", "Heal", "Undo", "DelKey"}
InTx     == {"LockEvent", "Rules", "Reserve", "Insert", "LockBooking",
             "CancelWrites", "ReturnSeats", "ReadRow", "WriteRow", "Commit"}
PostTx   == {"DeadCommit", "Rollback", "GiveBack"}
PcValues == PreTx \cup InTx \cup PostTx \cup {"Idle", "Done"}

ASSUME RequestAssumption ==
    /\ Books \cap Cancels = {} /\ Books \cap Updates = {} /\ Cancels \cap Updates = {}
    /\ EventOf \in [Requests -> Events]
    /\ UserOf \in [Books \cup Cancels -> Users]
    /\ Tickets \in [Books -> Nat \ {0}]
    /\ Target \in [Cancels -> Books]
    /\ \A c \in Cancels : EventOf[c] = EventOf[Target[c]]
    /\ ByAdmin \subseteq Cancels
    /\ NewCapacity \in [Updates -> (Nat \ {0}) \cup {Keep}]
    /\ NewStatus \in [Updates -> Statuses \cup {Keep}]
    /\ After \in [Requests -> SUBSET Requests]
ASSUME FiniteAssumption == IsFiniteSet(Books)  \* as the rows of a table are
ASSUME LimitAssumption ==
    /\ MaxPerBooking \in Nat /\ MaxPerUser \in Nat
    /\ Attempts \in Nat \ {0} /\ MaxFaults \in Nat
ASSUME InitAssumption ==
    /\ InitEvents \in [Events -> Row \cup {NoRow}]
    /\ \A e \in Events : InitEvents[e] # NoRow =>
          0 <= InitEvents[e].booked /\ InitEvents[e].booked <= InitEvents[e].capacity
    /\ InitBooked \subseteq Books
    /\ InitSpots \subseteq [Events -> Int \cup {Missing}]
ASSUME LedgerAssumption ==  \* the seats booked at the start are those of the bookings
    \A e \in Events : InitEvents[e] # NoRow =>
       InitEvents[e].booked = MapThenSumSet(LAMBDA b : Tickets[b],
                                            {b \in InitBooked : EventOf[b] = e})
ASSUME NullAssumption ==
    /\ Nobody \notin Requests /\ NoRow \notin Row /\ Missing \notin Int
    /\ Keep \notin Nat /\ Keep \notin Statuses

VARIABLES
    \* PostgreSQL: committed rows, and who holds each row lock
    events,       \* [Events -> Row \cup {NoRow}]
    bookings,     \* [Books -> {"none", "confirmed", "cancelled"}], a booking is named by its request
    audit,        \* [Requests -> SUBSET Outcomes]: committed audit rows
    eventLock,    \* [Events -> Requests \cup {Nobody}]
    bookingLock,  \* [Books -> Requests \cup {Nobody}]
    \* Redis
    spots,        \* [Events -> Int \cup {Missing}]: key event:{id}:spots
    \* the handlers' local state
    pc, view,     \* where the request is, and the event row it has read
    retries, reply,
    tx,           \* the uncommitted writes of its transaction
    faults        \* how many faults there have been

db    == <<events, bookings, audit>>
locks == <<eventLock, bookingLock>>
local == <<view, retries>>
vars  == <<events, bookings, audit, eventLock, bookingLock, spots, pc, view,
           retries, reply, tx, faults>>

NoTx == [row |-> NoRow, booking |-> "none", audit |-> {}]

-----------------------------------------------------------------------------
(* Small steps the handlers share. *)

Goto(r, label) == pc' = [pc EXCEPT ![r] = label]

Answer(r, a) == /\ pc' = [pc EXCEPT ![r] = "Done"]
                /\ reply' = [reply EXCEPT ![r] = a]

\* An exception inside the transaction callback: executeInTransaction rolls back.
Throw(r, a) == /\ pc' = [pc EXCEPT ![r] = "Rollback"]
               /\ reply' = [reply EXCEPT ![r] = a]

Remaining(row) == row.capacity - row.booked

\* What CHECK (booked_count >= 0) and chk_booked_lte_capacity accept.
UnboundedRow(row) == row.booked >= 0
CheckConstraint(row) == 0 <= row.booked /\ row.booked <= row.capacity

\* A missing key counts as 0 for DECRBY and INCRBY.
KeyValue(e) == IF spots[e] = Missing THEN 0 ELSE spots[e]

SetKey(e, v) == [spots EXCEPT ![e] = v]

TicketsOf(r) == IF r \in Cancels THEN Tickets[Target[r]] ELSE Tickets[r]

\* INCRBY key ticketCount, wherever seats are handed back.
IncrByOne(r) == SetKey(EventOf[r], KeyValue(EventOf[r]) + 1)
IncrBy(r) == SetKey(EventOf[r], KeyValue(EventOf[r]) + TicketsOf(r))

DecrBy(r) == SetKey(EventOf[r], KeyValue(EventOf[r]) - TicketsOf(r))

Free(lock, r) == lock \in {Nobody, r}

\* Row locks go when the transaction ends, however it ends.
KeepEventLocks(r) == eventLock
EventUnlocked(r)   == [e \in Events |-> IF eventLock[e] = r THEN Nobody ELSE eventLock[e]]
BookingUnlocked(r) == [b \in Books |-> IF bookingLock[b] = r THEN Nobody ELSE bookingLock[b]]

EndTx(r) == /\ eventLock' = EventUnlocked(r)
            /\ bookingLock' = BookingUnlocked(r)
            /\ tx' = [tx EXCEPT ![r] = NoTx]

\* The first statement of the callback, where a retry starts again.
TxStart(r) == IF r \in Books THEN "LockEvent"
              ELSE IF r \in Cancels THEN "LockBooking" ELSE "ReadRow"

Start(r) ==
    /\ pc[r] = "Idle"
    /\ \A p \in After[r] : pc[p] = "Done"
    /\ Goto(r, IF r \in Books THEN "Exists" ELSE TxStart(r))
    /\ UNCHANGED <<db, locks, spots, local, reply, tx, faults>>

-----------------------------------------------------------------------------
(* ensureRedisSynced: EXISTS, then a read of the row and SETNX. *)

KeyExists(r) ==
    /\ pc[r] = "Exists"
    /\ Goto(r, IF spots[EventOf[r]] = Missing THEN "SyncRead" ELSE "Decr")
    /\ UNCHANGED <<db, locks, spots, local, reply, tx, faults>>

SyncRead(r) ==
    /\ pc[r] = "SyncRead"
    /\ \/ /\ events[EventOf[r]] = NoRow
          /\ Answer(r, "NotFound")
          /\ UNCHANGED view
       \/ /\ events[EventOf[r]] # NoRow
          /\ view' = [view EXCEPT ![r] = events[EventOf[r]]]
          /\ Goto(r, "SetNx")
          /\ UNCHANGED reply
    /\ UNCHANGED <<db, locks, spots, retries, tx, faults>>

SyncedSpots(r) == IF spots[EventOf[r]] = Missing
                  THEN SetKey(EventOf[r], Remaining(view[r])) ELSE spots

SetNx(r) ==
    /\ pc[r] = "SetNx"
    /\ spots' = SyncedSpots(r)
    /\ Goto(r, "Decr")
    /\ UNCHANGED <<db, locks, local, reply, tx, faults>>

(* The Redis filter and its self-healing. *)

Decr(r) ==
    /\ pc[r] = "Decr"
    /\ spots' = DecrBy(r)
    /\ Goto(r, IF spots'[EventOf[r]] < 0 THEN "Recheck" ELSE "LockEvent")
    /\ UNCHANGED <<db, locks, local, reply, tx, faults>>

HealNever(r) == FALSE
HealIfSpare(r) == Remaining(events[EventOf[r]]) > Tickets[r]
HealWanted(r) == Remaining(events[EventOf[r]]) >= Tickets[r]

Recheck(r) ==
    /\ pc[r] = "Recheck"
    /\ view' = [view EXCEPT ![r] = events[EventOf[r]]]
    /\ Goto(r, IF events[EventOf[r]] = NoRow THEN "DelKey"
               ELSE IF HealWanted(r) THEN "Heal" ELSE "Undo")
    /\ UNCHANGED <<db, locks, spots, retries, reply, tx, faults>>

HealedSpots(r) == SetKey(EventOf[r], Remaining(view[r]) - Tickets[r])

Heal(r) ==
    /\ pc[r] = "Heal"
    /\ spots' = HealedSpots(r)
    /\ Goto(r, "LockEvent")
    /\ UNCHANGED <<db, locks, local, reply, tx, faults>>

Undo(r) ==
    /\ pc[r] = "Undo"
    /\ spots' = IncrBy(r)
    /\ Answer(r, "SoldOut")
    /\ UNCHANGED <<db, locks, local, tx, faults>>

DelKey(r) ==
    /\ pc[r] = "DelKey"
    /\ spots' = SetKey(EventOf[r], Missing)
    /\ Answer(r, "NotFound")
    /\ UNCHANGED <<db, locks, local, tx, faults>>

-----------------------------------------------------------------------------
(* The transaction of bookSpot.  BEGIN has no effect of its own. *)

\* SELECT ... FOR UPDATE; ReadUnlocked is the same SELECT without the clause.
ReadUnlocked(r) == eventLock
LockRow(r) == [eventLock EXCEPT ![EventOf[r]] = r]

LockEvent(r) ==
    /\ pc[r] = "LockEvent"
    /\ \/ /\ events[EventOf[r]] = NoRow
          /\ Throw(r, "NotFound")
          /\ UNCHANGED <<view, eventLock>>
       \/ /\ events[EventOf[r]] # NoRow
          /\ Free(eventLock[EventOf[r]], r)
          /\ eventLock' = LockRow(r)
          /\ view' = [view EXCEPT ![r] = events[EventOf[r]]]
          /\ Goto(r, IF r \in Books THEN "Rules" ELSE "CancelWrites")
          /\ UNCHANGED reply
    /\ UNCHANGED <<db, bookingLock, spots, retries, tx, faults>>

Confirmed(u, e) == {b \in Books : /\ bookings[b] = "confirmed"
                                  /\ UserOf[b] = u /\ EventOf[b] = e}

\* SUM(ticket_count) over the user's confirmed bookings of the event.
TicketsHeld(u, e) == MapThenSumSet(LAMBDA b : Tickets[b], Confirmed(u, e))

Verdict(r) ==
    CASE view[r].status # "published"         -> "NotPublished"
      [] Remaining(view[r]) < Tickets[r]      -> "SoldOut"
      [] Tickets[r] > MaxPerBooking           -> "PerBooking"
      [] TicketsHeld(UserOf[r], EventOf[r]) + Tickets[r] > MaxPerUser -> "PerUser"
      [] OTHER                                -> "none"

\* recordAudit queues its row on the transaction's own connection, not awaited.
RecordOnPool(r, writes, outcome) ==
    /\ tx' = [tx EXCEPT ![r] = writes]
    /\ audit' = [audit EXCEPT ![r] = @ \cup {outcome}]
RecordAudit(r, writes, outcome) ==
    /\ tx' = [tx EXCEPT ![r] = [writes EXCEPT !.audit = {outcome}]]
    /\ UNCHANGED audit

Rules(r) ==
    /\ pc[r] = "Rules"
    /\ \/ /\ Verdict(r) # "none"
          /\ RecordAudit(r, tx[r], "failure")
          /\ Throw(r, Verdict(r))
       \/ /\ Verdict(r) = "none"
          /\ Goto(r, "Reserve")
          /\ UNCHANGED <<reply, tx, audit>>
    /\ UNCHANGED <<events, bookings, locks, spots, local, faults>>

\* An UPDATE of the event row: it takes the row lock, and a CHECK that fails
\* aborts the transaction on the server.
Write(r, writes, next) ==
    IF CheckConstraint(writes.row)
    THEN /\ tx' = [tx EXCEPT ![r] = writes]
         /\ eventLock' = [eventLock EXCEPT ![EventOf[r]] = r]
         /\ Goto(r, next)
         /\ UNCHANGED <<bookingLock, reply>>
    ELSE EndTx(r) /\ Throw(r, "Error")

ReservedOne(r) == [events[EventOf[r]] EXCEPT !.booked = @ + 1]
Reserved(r) == [events[EventOf[r]] EXCEPT !.booked = @ + Tickets[r]]

Reservable(row, n) == row.status = "published" /\ row.capacity - row.booked >= n

Reserve(r) ==
    /\ pc[r] = "Reserve"
    /\ Free(eventLock[EventOf[r]], r)
    /\ IF Reservable(events[EventOf[r]], Tickets[r])
       THEN Write(r, [tx[r] EXCEPT !.row = Reserved(r)], "Insert")
       ELSE Throw(r, "Unreserved") /\ UNCHANGED <<locks, tx>>
    /\ UNCHANGED <<db, spots, local, faults>>

Insert(r) ==
    /\ pc[r] = "Insert"
    /\ RecordAudit(r, [tx[r] EXCEPT !.booking = "confirmed"], "success")
    /\ Goto(r, "Commit")
    /\ UNCHANGED <<events, bookings, locks, spots, local, reply, faults>>

-----------------------------------------------------------------------------
(* The transaction of cancelBooking. *)

RefuseStrangers(c) ==
    IF c \notin ByAdmin /\ UserOf[Target[c]] # UserOf[c] THEN "Forbidden" ELSE "none"
Refusal(c) ==
    CASE c \notin ByAdmin /\ UserOf[Target[c]] # UserOf[c] -> "Forbidden"
      [] bookings[Target[c]] = "cancelled"                 -> "AlreadyCancelled"
      [] OTHER                                             -> "none"

\* SELECT ... FOR UPDATE of the booking, and the checks that follow it.
TakeBooking(c) ==
    \/ /\ bookings[Target[c]] = "none"
       /\ Throw(c, "NotFound")
       /\ UNCHANGED bookingLock
    \/ /\ bookings[Target[c]] # "none"
       /\ Free(bookingLock[Target[c]], c)
       /\ bookingLock' = [bookingLock EXCEPT ![Target[c]] = c]
       /\ IF Refusal(c) = "none" THEN Goto(c, "LockEvent") /\ UNCHANGED reply
                                 ELSE Throw(c, Refusal(c))

AdminsLockEventFirst(c) ==
    /\ pc[c] = "LockBooking"
    /\ \/ /\ c \in ByAdmin /\ eventLock[EventOf[c]] # c
          /\ Free(eventLock[EventOf[c]], c)
          /\ eventLock' = LockRow(c)
          /\ UNCHANGED <<bookingLock, pc, reply>>
       \/ /\ c \in ByAdmin => eventLock[EventOf[c]] = c
          /\ TakeBooking(c)
          /\ UNCHANGED eventLock
    /\ UNCHANGED <<db, spots, local, tx, faults>>
LockBooking(c) ==
    /\ pc[c] = "LockBooking"
    /\ TakeBooking(c)
    /\ UNCHANGED <<db, eventLock, spots, local, tx, faults>>

\* updateStatus and decrementBookedCount.
CancelWrites(c) ==
    /\ pc[c] = "CancelWrites"
    /\ Write(c, [tx[c] EXCEPT !.booking = "cancelled",
                              !.row = [events[EventOf[c]] EXCEPT !.booked = @ - TicketsOf(c)]],
             "ReturnSeats")
    /\ UNCHANGED <<db, spots, local, faults>>

\* The INCRBY is inside the transaction, before COMMIT; the audit row follows.
ReturnSeats(c) ==
    /\ pc[c] = "ReturnSeats"
    /\ spots' = IncrBy(c)
    /\ RecordAudit(c, tx[c], "success")
    /\ Goto(c, "Commit")
    /\ UNCHANGED <<events, bookings, locks, local, reply, faults>>

-----------------------------------------------------------------------------
(* The transaction of updateEvent: a SELECT without lock, then an UPDATE   *)
(* that writes every column back.                                          *)

ReadRow(u) ==
    /\ pc[u] = "ReadRow"
    /\ view' = [view EXCEPT ![u] = events[EventOf[u]]]
    /\ IF events[EventOf[u]] = NoRow THEN Throw(u, "NotFound")
                                     ELSE Goto(u, "WriteRow") /\ UNCHANGED reply
    /\ UNCHANGED <<db, locks, spots, retries, tx, faults>>

PatchBlindly(given, old) == given
Patch(given, old) == IF given = Keep THEN old ELSE given

Patched(u) == [capacity |-> Patch(NewCapacity[u], view[u].capacity),
               booked   |-> events[EventOf[u]].booked,
               status   |-> Patch(NewStatus[u], view[u].status)]

\* WHERE capacity >= booked_count reads the row as it is, not as it becomes.
WriteRow(u) ==
    /\ pc[u] = "WriteRow"
    /\ Free(eventLock[EventOf[u]], u)
    /\ IF events[EventOf[u]].capacity >= events[EventOf[u]].booked
       THEN Write(u, [tx[u] EXCEPT !.row = Patched(u), !.audit = {"success"}], "Commit")
       ELSE Throw(u, "NotFound") /\ UNCHANGED <<locks, tx>>
    /\ UNCHANGED <<db, spots, local, faults>>

-----------------------------------------------------------------------------
(* executeInTransaction, withDeadlockRetry and the catch of bookSpot. *)

BookingOf(r) == IF r \in Cancels THEN Target[r] ELSE r

Persist(r) ==
    /\ events' = IF tx[r].row = NoRow THEN events
                 ELSE [events EXCEPT ![EventOf[r]] = tx[r].row]
    /\ bookings' = IF tx[r].booking = "none" THEN bookings
                   ELSE [bookings EXCEPT ![BookingOf(r)] = tx[r].booking]
    /\ audit' = [audit EXCEPT ![r] = @ \cup tx[r].audit]
    /\ EndTx(r)

Success(r) == IF r \in Books THEN "Created"
              ELSE IF r \in Cancels THEN "Cancelled" ELSE "Updated"

Commit(r) ==
    /\ pc[r] = "Commit"
    /\ Persist(r)
    /\ Answer(r, Success(r))
    /\ UNCHANGED <<spots, local, faults>>

\* COMMIT of a transaction the server has aborted is a ROLLBACK without an error.
DeadCommit(r) ==
    /\ pc[r] = "DeadCommit"
    /\ Answer(r, Success(r))
    /\ UNCHANGED <<db, locks, spots, local, tx, faults>>

RetryAnyError(r) == reply[r] \in {"Deadlock", "Error"} /\ r \notin Updates
                    /\ retries[r] < Attempts - 1
MayRetry(r) == reply[r] = "Deadlock" /\ r \notin Updates /\ retries[r] < Attempts - 1

\* The catch of bookSpot.
AfterRollback(r) == IF r \in Books THEN "GiveBack" ELSE "Done"

Rollback(r) ==
    /\ pc[r] = "Rollback"
    /\ EndTx(r)
    /\ \/ /\ MayRetry(r)
          /\ retries' = [retries EXCEPT ![r] = @ + 1]
          /\ reply' = [reply EXCEPT ![r] = "none"]
          /\ Goto(r, TxStart(r))
       \/ /\ ~MayRetry(r)
          /\ reply' = [reply EXCEPT ![r] = IF @ = "Deadlock" THEN "Error" ELSE @]
          /\ Goto(r, AfterRollback(r))
          /\ UNCHANGED retries
    /\ UNCHANGED <<db, spots, view, faults>>

GiveBack(r) ==
    /\ pc[r] = "GiveBack"
    /\ spots' = IncrBy(r)
    /\ Goto(r, "Done")
    /\ UNCHANGED <<db, locks, local, reply, tx, faults>>

-----------------------------------------------------------------------------
(* Faults: at most MaxFaults, of the kinds the instance allows. *)

Fault(kind) == /\ kind \in FaultKinds
               /\ faults < MaxFaults
               /\ faults' = faults + 1

RedisSteps == {"Exists", "SetNx", "Decr", "Heal", "Undo", "DelKey", "GiveBack", "ReturnSeats"}

RedisEffect(r) ==
    CASE pc[r] = "Exists" -> spots
      [] pc[r] = "SetNx"  -> SyncedSpots(r)
      [] pc[r] = "Decr"   -> DecrBy(r)
      [] pc[r] = "Heal"   -> HealedSpots(r)
      [] pc[r] = "DelKey" -> SetKey(EventOf[r], Missing)
      [] OTHER            -> IncrBy(r)

\* A Redis command fails; the server may have carried it out.
RedisFault(r) ==
    /\ pc[r] \in RedisSteps
    /\ Fault("redis")
    /\ spots' \in {spots, RedisEffect(r)}
    /\ IF pc[r] = "ReturnSeats" THEN Throw(r, "Error") ELSE Answer(r, "Error")
    /\ UNCHANGED <<db, locks, local, tx>>

\* The connection drops after the command, and ioredis sends it again.
RedisResend(r) ==
    /\ pc[r] \in RedisSteps
    /\ Fault("resend")
    /\ spots' = RedisEffect(r)
    /\ UNCHANGED <<db, locks, local, pc, reply, tx>>

\* A SELECT outside the transaction fails.
ReadFault(r) ==
    /\ pc[r] \in {"SyncRead", "Recheck"}
    /\ Fault("postgres")
    /\ Answer(r, "Error")
    /\ UNCHANGED <<db, locks, spots, local, tx>>

\* A statement of the transaction fails: the server aborts it and frees its locks.
StatementFault(r) ==
    /\ pc[r] \in InTx \ {"ReturnSeats", "Commit"}
    /\ \/ Fault("postgres") /\ Throw(r, "Error")
       \/ Fault("deadlock") /\ Throw(r, "Deadlock")
    /\ EndTx(r)
    /\ UNCHANGED <<db, spots, local>>

\* The audit INSERT fails; its error is swallowed, and COMMIT is already queued.
AuditFault(r) ==
    /\ pc[r] = "Commit" /\ r \notin Updates
    /\ Fault("audit")
    /\ EndTx(r)
    /\ Goto(r, "DeadCommit")
    /\ UNCHANGED <<db, spots, local, reply>>

\* The connection is lost during COMMIT, before or after the server commits.
CommitFault(r) ==
    /\ pc[r] = "Commit"
    /\ Fault("commit")
    /\ Throw(r, "Error")
    /\ \/ Persist(r)
       \/ EndTx(r) /\ UNCHANGED db
    /\ UNCHANGED <<spots, local>>

\* ROLLBACK fails, and its error replaces the one being handled.
RollbackFault(r) ==
    /\ pc[r] = "Rollback"
    /\ Fault("postgres")
    /\ EndTx(r)
    /\ reply' = [reply EXCEPT ![r] = "Error"]
    /\ Goto(r, AfterRollback(r))
    /\ UNCHANGED <<db, spots, local>>

\* The process that serves r dies.
Crash(r) ==
    /\ pc[r] \notin {"Idle", "Done"}
    /\ Fault("crash")
    /\ EndTx(r)
    /\ Answer(r, "Lost")
    /\ UNCHANGED <<db, spots, local>>

\* Redis restarts empty.
Flush ==
    /\ Fault("flush")
    /\ spots' = [e \in Events |-> Missing]
    /\ UNCHANGED <<db, locks, local, pc, reply, tx>>

-----------------------------------------------------------------------------
Init ==
    /\ events = InitEvents
    /\ bookings = [b \in Books |-> IF b \in InitBooked THEN "confirmed" ELSE "none"]
    /\ audit = [r \in Requests |-> IF r \in InitBooked THEN {"success"} ELSE {}]
    /\ eventLock = [e \in Events |-> Nobody]
    /\ bookingLock = [b \in Books |-> Nobody]
    /\ spots \in InitSpots
    /\ pc = [r \in Requests |-> IF r \in InitBooked THEN "Done" ELSE "Idle"]
    /\ view = [r \in Requests |-> NoRow]
    /\ retries = [r \in Requests |-> 0]
    /\ reply = [r \in Requests |-> IF r \in InitBooked THEN "Created" ELSE "none"]
    /\ tx = [r \in Requests |-> NoTx]
    /\ faults = 0

BookStep(b) == \/ KeyExists(b) \/ SyncRead(b) \/ SetNx(b) \/ Decr(b) \/ Recheck(b)
               \/ Heal(b) \/ Undo(b) \/ DelKey(b)
               \/ LockEvent(b) \/ Rules(b) \/ Reserve(b) \/ Insert(b) \/ GiveBack(b)
CancelStep(c) == LockBooking(c) \/ LockEvent(c) \/ CancelWrites(c) \/ ReturnSeats(c)
UpdateStep(u) == ReadRow(u) \/ WriteRow(u)
TxStep(r)     == Commit(r) \/ DeadCommit(r) \/ Rollback(r)

Step == \/ \E b \in Books : BookStep(b)
        \/ \E c \in Cancels : CancelStep(c)
        \/ \E u \in Updates : UpdateStep(u)
        \/ \E r \in Requests : TxStep(r)

FaultStep == \/ \E r \in Requests :
                   \/ RedisFault(r) \/ RedisResend(r) \/ ReadFault(r) \/ StatementFault(r)
                   \/ AuditFault(r) \/ CommitFault(r) \/ RollbackFault(r) \/ Crash(r)
             \/ Flush

\* Every request has been answered; anything else that stops is a deadlock.
AllAnswered == \A r \in Requests : pc[r] = "Done"
Finished == AllAnswered /\ UNCHANGED vars

Next == (\E r \in Requests : Start(r)) \/ Step \/ FaultStep \/ Finished

Spec == Init /\ [][Next]_vars

\* The event loop runs every continuation, and PostgreSQL grants a free lock.
Fairness == /\ \A b \in Books : WF_vars(BookStep(b) \/ TxStep(b))
            /\ \A c \in Cancels : WF_vars(CancelStep(c) \/ TxStep(c))
            /\ \A u \in Updates : WF_vars(UpdateStep(u) \/ TxStep(u))

FairSpec == Spec /\ Fairness
=============================================================================
