-------------------------- MODULE BookingProperties --------------------------
(***************************************************************************)
(* What the seat-selling core promises, stated over the state of Booking.  *)
(***************************************************************************)
EXTENDS Booking

Sold(e) == MapThenSumSet(LAMBDA b : Tickets[b],
                         {b \in Books : bookings[b] = "confirmed" /\ EventOf[b] = e})

-----------------------------------------------------------------------------
(* Types *)

TxRecord == [row : Row \cup {NoRow}, booking : {"none", "confirmed", "cancelled"},
             audit : SUBSET Outcomes]

\* Every variable keeps its shape; withDeadlockRetry makes at most Attempts tries,
\* and a partial PATCH never writes an absent field into the row.
TypeOK ==
    /\ events \in [Events -> Row \cup {NoRow}]
    /\ bookings \in [Books -> {"none", "confirmed", "cancelled"}]
    /\ audit \in [Requests -> SUBSET Outcomes]
    /\ eventLock \in [Events -> Requests \cup {Nobody}]
    /\ bookingLock \in [Books -> Requests \cup {Nobody}]
    /\ spots \in [Events -> Int \cup {Missing}]
    /\ pc \in [Requests -> PcValues]
    /\ view \in [Requests -> Row \cup {NoRow}]
    /\ retries \in [Requests -> 0 .. Attempts - 1]
    /\ reply \in [Requests -> Answers]
    /\ tx \in [Requests -> TxRecord]
    /\ faults \in 0 .. MaxFaults

-----------------------------------------------------------------------------
(* Safety of the database *)

\* However bookings, cancellations, capacity changes, retries and crashes
\* interleave, an event never has more seats booked than its capacity, nor
\* fewer than none (reserveSpots, decrementBookedCount, updateWithClient).
NoOverbooking == \A e \in Events : events[e] # NoRow =>
                    0 <= events[e].booked /\ events[e].booked <= events[e].capacity

\* booked_count is always the sum of the tickets of the confirmed bookings: the
\* two tables never drift apart, whatever transaction fails half-way.
LedgerMatches == \A e \in Events : events[e] # NoRow => events[e].booked = Sold(e)

\* No user ever holds more confirmed tickets of an event than the per-user
\* limit, although the SUM of validateBookingRules and the INSERT are apart.
UserLimit == \A u \in Users, e \in Events : TicketsHeld(u, e) <= MaxPerUser

\* The bookings that exist at the start keep that limit too; an administrator who
\* lowers it in booking_limits leaves older bookings above it.
QuotaAtStart ==
    \A u \in Users, e \in Events :
        MapThenSumSet(LAMBDA b : Tickets[b],
                      {b \in InitBooked : UserOf[b] = u /\ EventOf[b] = e}) <= MaxPerUser

\* Without that assumption: no step takes a user past the limit, and a user who
\* is past it books nothing more.
WithinLimit ==
    \A u \in Users, e \in Events :
        TicketsHeld(u, e)' > TicketsHeld(u, e) => TicketsHeld(u, e)' <= MaxPerUser
HoldingsWithinLimit == [][WithinLimit]_vars

\* bookSpot never reaches its "Unable to reserve spots" branch (booking.service.ts:77):
\* what the locked read has validated is still true when the guarded UPDATE runs.
ReserveNeverRefuses == \A r \in Requests : reply[r] # "Unreserved"

\* Interleaving alone never trips a CHECK of the schema: as long as the servers
\* work, no booking and no cancellation ends in a 500 or is tried a second time
\* (chk_booked_lte_capacity is a guardrail that their locks never lean on).  An
\* update is not meant: one that cuts the capacity below the seats booked, or
\* writes back a capacity read before the last sale, ends in a 500 by itself.
NoErrorWithoutFault ==
    faults = 0 => \A r \in Books \cup Cancels : reply[r] # "Error" /\ retries[r] = 0

\* The audit trail commits with the booking it describes: a booking exists exactly
\* when its request has a success row, and it is cancelled exactly when one
\* cancellation has; rollbacks, lost COMMITs and crashes leave no orphan on either side.
AuditMatches ==
    \A b \in Books :
        /\ bookings[b] # "none" <=> "success" \in audit[b]
        /\ bookings[b] = "cancelled" <=>
              Cardinality({c \in Cancels : Target[c] = b /\ "success" \in audit[c]}) = 1

\* A row lock belongs to a request that is inside its transaction: no error path,
\* retry or crash leaves an event or a booking locked for good.
NoLockLeak ==
    /\ \A e \in Events : eventLock[e] # Nobody =>
          pc[eventLock[e]] \in InTx \cup {"Rollback"}
    /\ \A b \in Books : bookingLock[b] # Nobody =>
          pc[bookingLock[b]] \in InTx \cup {"Rollback"}

\* Whose row lock the next statement of r has to wait for, and who waits at all.
RowLock(r) == CASE pc[r] = "LockBooking" /\ bookings[Target[r]] # "none" -> bookingLock[Target[r]]
                [] pc[r] = "LockEvent" /\ events[EventOf[r]] # NoRow     -> eventLock[EventOf[r]]
                [] pc[r] \in {"Reserve", "WriteRow"}                     -> eventLock[EventOf[r]]
                [] OTHER                                                 -> Nobody
Waiting == {r \in Requests : ~Free(RowLock(r), r)}

\* A group that waits for ever: each waits for one of the group, or for a request
\* whose transaction is over.
Stuck(S) == /\ S # {}
            /\ \A r \in S : RowLock(r) \in S \/ pc[RowLock(r)] \notin InTx \cup {"Rollback"}

\* cancelBooking locks the booking and then the event (booking.service.ts:174, 190),
\* bookSpot and updateEvent the event alone: no group of requests ever waits in a
\* circle, while others go on, nor for a lock that nobody will release, so that
\* PostgreSQL's deadlock detector has nothing to do.
NobodyIsStuck == \A S \in SUBSET Waiting : ~Stuck(S)

Confirming(e) == {b \in Books : EventOf[b] = e /\ bookings[b] = "none"
                                               /\ bookings'[b] = "confirmed"}
Cancelling(e) == {b \in Books : EventOf[b] = e /\ bookings[b] = "confirmed"
                                               /\ bookings'[b] = "cancelled"}
SeatsMove ==
    /\ \A e \in Events : events[e] # NoRow =>
         \/ /\ events'[e].booked = events[e].booked
            /\ Confirming(e) = {} /\ Cancelling(e) = {}
         \/ \E b \in Confirming(e) : /\ events'[e].booked = events[e].booked + Tickets[b]
                                     /\ Confirming(e) = {b} /\ Cancelling(e) = {}
         \/ \E b \in Cancelling(e) : /\ events'[e].booked = events[e].booked - Tickets[b]
                                     /\ Confirming(e) = {} /\ Cancelling(e) = {b}
    /\ \A b \in Books : bookings'[b] # bookings[b] =>
         <<bookings[b], bookings'[b]>> \in {<<"none", "confirmed">>, <<"confirmed", "cancelled">>}

\* booked_count moves only together with one booking of the same event, by its
\* ticket count: up when the booking is confirmed, down when it is cancelled,
\* and a cancelled booking never comes back.
SeatsMoveWithBookings == [][SeatsMove]_vars

-----------------------------------------------------------------------------
(* Refinement: the committed rows are a ledger that sells in single steps. *)

\* The null of the mapping is no stock record.
ASSUME StockAssumption == NoRow \notin [capacity : Nat, left : Int, open : BOOLEAN]

Stock == [e \in Events |-> IF events[e] = NoRow THEN NoRow
                           ELSE [capacity |-> events[e].capacity,
                                 left     |-> Remaining(events[e]),
                                 open     |-> events[e].status = "published"]]

Ledger == INSTANCE TicketLedger WITH stock <- Stock, ticket <- bookings

\* However the handlers' statements interleave, retry and fail, the committed rows
\* change as if each booking had checked the status, the seats and the user's limit
\* and taken its seats in one step, and each cancellation had returned them in one.
ImplementsLedger == Ledger!Spec

-----------------------------------------------------------------------------
(* The inductive invariant behind the safety of the database: what holds of *)
(* each request at each point of its handler, whatever the others do.       *)

EventLocked == {"Rules", "Reserve", "Insert", "CancelWrites", "ReturnSeats", "Commit"}

\* Each handler stays on its own path.
PcFits ==
    \A r \in Requests :
        /\ pc[r] \in PreTx \cup {"Rules", "Reserve", "Insert", "GiveBack"} => r \in Books
        /\ pc[r] \in {"LockBooking", "CancelWrites", "ReturnSeats"} => r \in Cancels
        /\ pc[r] \in {"ReadRow", "WriteRow"} => r \in Updates
        /\ pc[r] = "LockEvent" => r \notin Updates

\* A lock is held by a request on that very row, inside its transaction, and by
\* none that has yet to ask for it: cancelBooking takes the booking before the event.
LocksOwned ==
    /\ \A e \in Events : eventLock[e] # Nobody =>
          EventOf[eventLock[e]] = e /\ pc[eventLock[e]] \in EventLocked \cup {"Rollback"}
    /\ \A b \in Books : bookingLock[b] # Nobody =>
          /\ bookingLock[b] \in Cancels /\ Target[bookingLock[b]] = b
          /\ pc[bookingLock[b]] \in {"LockEvent", "CancelWrites", "ReturnSeats", "Commit", "Rollback"}

\* Between lockForUpdate and the end of the transaction the request has its locks.
LocksHeld ==
    /\ \A r \in Requests : pc[r] \in EventLocked => eventLock[EventOf[r]] = r
    /\ \A c \in Cancels :
          pc[c] \in {"LockEvent", "CancelWrites", "ReturnSeats", "Commit"} =>
              bookingLock[Target[c]] = c /\ bookings[Target[c]] = "confirmed"

\* A request that read a row has it, and no event row disappears.
RowsRead ==
    \A r \in Requests :
        /\ pc[r] \in {"SetNx", "Heal", "WriteRow"} => view[r] # NoRow
        /\ pc[r] \in EventLocked \cup {"WriteRow"} => events[EventOf[r]] # NoRow

\* What the locked read returned is still the committed row, and Rules has checked it.
ViewIsCurrent ==
    \A r \in Requests :
        /\ pc[r] \in {"Rules", "Reserve"} => view[r] = events[EventOf[r]]
        /\ pc[r] = "Reserve" => Reservable(view[r], Tickets[r])

\* A booking request that has not committed has no booking.
NotYetBooked ==
    \A b \in Books :
        \/ pc[b] \in PreTx \cup InTx \cup {"Idle"}
        \/ pc[b] = "Rollback" /\ reply[b] = "Deadlock"
        => bookings[b] = "none"

\* What a transaction is about to commit: a row the CHECKs accept, whose
\* booked_count is the current one moved by the tickets of its booking.
PendingWrites ==
    \A r \in Requests :
        /\ pc[r] \in {"Insert", "ReturnSeats", "Commit"} =>
              tx[r].row # NoRow /\ CheckConstraint(tx[r].row)
        /\ pc[r] = "Insert" \/ (pc[r] = "Commit" /\ r \in Books) =>
              tx[r].row.booked = events[EventOf[r]].booked + Tickets[r]
        /\ pc[r] \in {"ReturnSeats", "Commit"} /\ r \in Cancels =>
              tx[r].row.booked = events[EventOf[r]].booked - Tickets[Target[r]]
        /\ pc[r] = "Commit" /\ r \in Updates =>
              tx[r].row.booked = events[EventOf[r]].booked
        /\ pc[r] = "Commit" /\ r \in Books => tx[r].booking = "confirmed"
        /\ pc[r] \in {"ReturnSeats", "Commit"} /\ r \in Cancels => tx[r].booking = "cancelled"
        /\ pc[r] = "Commit" /\ r \in Updates => tx[r].booking = "none"
        /\ pc[r] \in PreTx \cup {"Idle"} \cup (InTx \ {"Insert", "ReturnSeats", "Commit"})
              => tx[r] = NoTx

\* The whole: preserved by every action, and enough for the safety theorems.
IInv == /\ TypeOK /\ PcFits /\ LocksOwned /\ LocksHeld /\ RowsRead /\ ViewIsCurrent
        /\ NotYetBooked /\ PendingWrites /\ NoOverbooking /\ ReserveNeverRefuses

\* What validateBookingRules has established under the row lock stays true until
\* COMMIT, and the pending row is the committed one with the tickets added.
SaleChecked ==
    \A b \in Books :
        /\ pc[b] \in {"Reserve", "Insert", "Commit"} =>
              /\ Reservable(events[EventOf[b]], Tickets[b])
              /\ Tickets[b] <= MaxPerBooking
              /\ TicketsHeld(UserOf[b], EventOf[b]) + Tickets[b] <= MaxPerUser
        /\ pc[b] \in {"Insert", "Commit"} => tx[b].row = Reserved(b)

\* The pending row of a cancellation is the committed one with its tickets returned.
RefundPending ==
    \A c \in Cancels : pc[c] \in {"ReturnSeats", "Commit"} =>
        tx[c].row = [events[EventOf[c]] EXCEPT !.booked = @ - TicketsOf(c)]

\* With IInv, what makes the committed rows a ledger: preserved by every action.
LedgerInv == SaleChecked /\ RefundPending /\ LedgerMatches

\* A transaction about to commit brings its success row along.
AuditPending == \A r \in Requests : pc[r] = "Commit" => tx[r].audit = {"success"}

\* Success rows and bookings agree, and only one cancellation of a booking has one.
AuditTrail ==
    /\ \A b \in Books : bookings[b] # "none" <=> "success" \in audit[b]
    /\ \A b \in Books : bookings[b] = "cancelled" <=>
          \E c \in Cancels : Target[c] = b /\ "success" \in audit[c]
    /\ \A c, d \in Cancels :
          Target[c] = Target[d] /\ "success" \in audit[c] \cap audit[d] => c = d

\* A request that is on its way has no answer yet; a retry has forgotten the last one.
OnItsWay == PreTx \cup InTx \cup {"Idle", "DeadCommit"}
Unanswered == \A r \in Requests : pc[r] \in OnItsWay <=> reply[r] = "none"

\* While the servers work, no statement of a booking or a cancellation fails, and
\* none is tried again.
NothingFails ==
    faults = 0 => \A r \in Books \cup Cancels :
                     reply[r] \notin {"Error", "Deadlock"} /\ retries[r] = 0

-----------------------------------------------------------------------------
(* The Redis filter against the database *)

\* "It never blocks valid bookings even when stale": while nothing is cancelled
\* and no capacity changes, a request told "sold out" cannot be served by the
\* seats the database has left, whatever Redis held.
SoldOutIsJustified ==
    \A b \in Books : reply[b] = "SoldOut" /\ pc[b] = "Done" =>
        Remaining(events[EventOf[b]]) < Tickets[b]

\* While seats are only sold, an event that is short of seats stays so; from Recheck
\* on, a request on its way to that answer has seen that it is.
OnlySales == Cancels = {} /\ Updates = {}
SoldOutStays ==
    \A b \in Books : pc[b] = "Undo" \/ reply[b] = "SoldOut" =>
        events[EventOf[b]] # NoRow /\ Remaining(events[EventOf[b]]) < Tickets[b]

\* "Exactly N bookings for N spots": when single-ticket requests of distinct users
\* have all been answered, as many got a seat as there were seats or requests.
Winners(e) == {b \in Books : EventOf[b] = e /\ reply[b] = "Created"}
Runners(e) == {b \in Books : EventOf[b] = e /\ b \notin InitBooked}
NoUnderbooking ==
    AllAnswered => \A e \in Events : events[e] # NoRow =>
        Cardinality(Winners(e) \ InitBooked) =
            Min({Cardinality(Runners(e)), Remaining(InitEvents[e])})

\* It holds when the seats are only sold, one by one, for open events, no user asks
\* more often than the limits allow, and no server fails but Redis, which may lose
\* its keys or run a command twice: no answer is then but these three.
Race ==
    /\ OnlySales /\ FaultKinds \subseteq {"flush", "resend"}
    /\ \A b \in Books : Tickets[b] = 1
    /\ \A e \in Events : InitEvents[e] # NoRow => InitEvents[e].status = "published"
    /\ MaxPerBooking >= 1
    /\ \A u \in Users, e \in Events :
          Cardinality({b \in Books : UserOf[b] = u /\ EventOf[b] = e}) <= MaxPerUser
RaceInv ==
    /\ SoldOutStays
    /\ \A b \in Books :
          /\ reply[b] \in {"none", "Created", "SoldOut", "NotFound"}
          /\ reply[b] = "NotFound" \/ pc[b] = "DelKey" => events[EventOf[b]] = NoRow
          /\ reply[b] = "Created" <=> bookings[b] = "confirmed"
          /\ b \in InitBooked => bookings[b] = "confirmed"
          /\ pc[b] # "DeadCommit"
    /\ \A e \in Events :
          /\ events[e] = NoRow <=> InitEvents[e] = NoRow
          /\ events[e] # NoRow => /\ events[e].capacity = InitEvents[e].capacity
                                 /\ events[e].status = "published"

\* A counter below zero is owed by requests between their DECRBY and the SET or
\* INCRBY that answers it: Redis is never left in debt by a request that is gone.
Debtors(e) == {b \in Books : EventOf[b] = e /\ pc[b] \in {"Recheck", "Heal", "Undo", "DelKey"}}
DebtIsCovered ==
    \A e \in Events :
        KeyValue(e) + MapThenSumSet(LAMBDA b : Tickets[b], Debtors(e)) >= 0

\* It holds as long as no command is lost or sent twice and nobody dies on the way,
\* of a counter that starts in no debt: SETNX and SET write what a read has found.
NoDebtAtStart == \A s \in InitSpots, e \in Events : s[e] # Missing => s[e] >= 0
DebtInv == /\ DebtIsCovered
           /\ \A b \in Books : /\ pc[b] = "SetNx" => Remaining(view[b]) >= 0
                               /\ pc[b] = "Heal" => Remaining(view[b]) >= Tickets[b]

\* Without faults and cancellations the counter errs only upwards: with the seats
\* that requests still hold in it, it covers what the database has left, so that
\* no drift sends a request down the slow path for nothing.
Holders(e) == {b \in Books : /\ EventOf[b] = e
                             /\ \/ pc[b] \in PostTx \cup InTx
                                \/ pc[b] \in {"Recheck", "Heal", "Undo"}}
CounterHidesNoSeat ==
    \A e \in Events : spots[e] # Missing /\ events[e] # NoRow =>
        spots[e] + MapThenSumSet(LAMBDA b : Tickets[b], Holders(e)) >= Remaining(events[e])

\* Of a counter that covers its event at the start: what SETNX and SET write was read
\* from a row that has only lost seats since, and the key that EXISTS found stays.
CoveredAtStart ==
    \A s \in InitSpots, e \in Events : s[e] # Missing /\ InitEvents[e] # NoRow =>
        s[e] >= Remaining(InitEvents[e])
CoverInv ==
    /\ CounterHidesNoSeat
    /\ \A b \in Books :
          /\ pc[b] \in {"SetNx", "Heal"} =>
                /\ events[EventOf[b]] # NoRow
                /\ Remaining(view[b]) >= Remaining(events[EventOf[b]])
          /\ pc[b] = "Decr" \/ b \in Holders(EventOf[b]) =>
                events[EventOf[b]] = NoRow \/ spots[EventOf[b]] # Missing
          /\ pc[b] = "DelKey" => events[EventOf[b]] = NoRow
          /\ pc[b] # "DeadCommit"

-----------------------------------------------------------------------------
(* Answers *)

\* A refusal (403, 404, 409, 422) is final and true, also when an earlier attempt of the
\* same request died at COMMIT: a client told that a rule stopped the booking has
\* none, and a cancellation that was refused has cancelled nothing (its success row,
\* which commits with the cancellation, is not there: AuditMatches).
Refusals == {"NotFound", "NotPublished", "SoldOut", "PerBooking", "PerUser", "Unreserved"}
CancelRefusals == {"NotFound", "Forbidden", "AlreadyCancelled"}
RefusalChangesNothing ==
    /\ \A b \in Books : reply[b] \in Refusals => bookings[b] = "none"
    /\ \A c \in Cancels : reply[c] \in CancelRefusals => "success" \notin audit[c]

\* A cancellation that has not committed, or will be tried again, has cancelled nothing.
NotYetCancelled ==
    \A c \in Cancels :
        \/ pc[c] \in InTx \cup {"Idle"}
        \/ pc[c] = "Rollback" /\ reply[c] = "Deadlock"
        => "success" \notin audit[c]

\* With IInv and LedgerInv, what the answers and the audit trail rest on.
AnswerInv == /\ AuditPending /\ AuditTrail /\ Unanswered /\ NothingFails
             /\ RefusalChangesNothing /\ NotYetCancelled

\* Every request that starts is answered: locks are granted in the end, and
\* deadlock retries stop.
Answered == \A r \in Requests : pc[r] # "Idle" ~> pc[r] = "Done"

-----------------------------------------------------------------------------
(* What the documents say and the code does not do *)

\* docs/booking-concurrency-problem.md:185, "Self-healing corrects on next
\* request": a booking request that runs alone leaves the counter in step.
NextRequestHeals ==
    \A b \in Books : (AllAnswered /\ After[b] = Requests \ {b}) =>
        spots[EventOf[b]] = Remaining(events[EventOf[b]])

\* docs/booking-flow.md:88, "Audit log - records success/failure with details":
\* a request refused by a business rule leaves a failure row.
FailuresAreAudited ==
    \A b \in Books :
        pc[b] = "Done" /\ reply[b] \in {"NotPublished", "PerBooking", "PerUser"} =>
            "failure" \in audit[b]

\* docs/booking-concurrency-problem.md:153, "DB Final Count always matches Bookings
\* Completed": the 201 answers are the confirmed bookings.
CompletedIsBooked ==
    \A b \in Books : pc[b] = "Done" /\ reply[b] = "Created" => bookings[b] # "none"
=============================================================================
