# A formal model of the Eventix backend

Eventix sells tickets: users book and cancel seats of events, admins create and change
events. PostgreSQL holds the truth, Redis a seat counter in front of it that turns away
requests for sold-out events. This directory holds TLA+ modules that model the service:
selling seats, the connection pool and the limits cache of a process, sessions, the
administration of events with its audit trail, lists and access rules. It holds the TLC
configurations that check them on small instances, and machine-checked proofs, for
instances of any size, of every safety property that the passing runs check.

Paths below are relative to the repository's `src/`.

## 1. The system

| Component | State | Operations | Talks to |
|---|---|---|---|
| Booking service (`application/services/booking.service.ts`) | none of its own; local variables of each request | `bookSpot`, `cancelBooking`, `listBookings`, `getBookingById` | Redis counter, transactions, repositories, limits cache |
| Transactions (`infrastructure/database/postgres.client.ts`) | connection pool | `executeInTransaction` | PostgreSQL |
| Redis counter (`infrastructure/database/redis.client.ts`) | `event:{id}:spots` per event | EXISTS, SETNX, DECRBY, SET, INCRBY, DEL | called by the booking service only |
| Repositories (`infrastructure/repositories`) | tables `events`, `bookings`, two audit logs | one SQL statement each | PostgreSQL |
| Event administration (`application/services/event.service.ts`) | none | `createEvent`, `updateEvent`, lists | transactions, repositories |
| Limits cache (`event-booking-config.repository.ts`) | a map with a TTL of 60 s per process | `getForEvent` | the pool, while the caller holds a connection of it |
| Sessions (`application/services/auth.service.ts`) | tables `users`, `sessions` | `register`, `login`, `refresh`, `logout` | repositories, no transaction |
| Access control (middlewares, controllers) | none | role, ownership and visibility checks | JWT contents |
| Audit queries (`audit-log.service.ts`) | none | filter, merge, paginate | both audit logs |
| Rate limit, health, shutdown | request counters, pool, Redis connection | | Express, SIGTERM |

The hard part is the first three rows. Every `await` of a handler is a point at which
any other request, in this process or another, may run. The counter and the database are
updated one after the other and never together. A booking is

    EXISTS -> [SELECT, SETNX] -> DECRBY -> [SELECT, SET | INCRBY + 409]
           -> BEGIN, SELECT FOR UPDATE, rules, UPDATE, INSERT, audit, COMMIT
           -> on any error: ROLLBACK, up to two retries of a deadlock, INCRBY

a cancellation locks its booking, then its event, and hands the seats back to Redis
*before* its COMMIT; an update of an event reads the row without a lock and writes all
its columns back.

What makes each component correct:

* **Database**: seats booked stay between 0 and the capacity; `booked_count` is the sum of
  the confirmed tickets; nobody exceeds the limit per user; a booking and its audit row
  commit together; no lock outlives its transaction.
* **Counter**: it may be wrong, but it must never turn away a request that the database
  could serve, and never stay in debt.
* **Answers**: every request is answered, and a refusal means that nothing was booked or
  cancelled.
* **Sessions**: a refresh token is good for one refresh, and until then nothing takes it
  away; a refresh that fails does not log its user out; one account per address; no session outlives its user.
* **Pool**: whoever waits for a connection gets one while the process is up; a shutdown
  ends.
* **Events and audit log**: the trail of an event explains its row, and no change that
  was committed before a PATCH began is lost to it; filters select what they name; a
  client that follows the pages misses none of the rows that stay.
* **Limits cache**: a limit is applied at most a minute late; the hard-coded limits
  replace those of an event for the one lookup that failed and no other.
* **Access control**: a user sees and cancels only their own bookings, and sees only
  public events.

`PROJECT.json` lists under `hazards`, each at its line, what in this code is hard to test,
and the properties that cover it.

## 2. Modules

| Module | Contents |
|---|---|
| `TicketLedger` | what selling promises: seats sold, refunded and resized in single steps |
| `Booking` | its implementation: requests, PostgreSQL rows and locks, the Redis counter, faults |
| `BookingProperties` | its properties, the inductive invariant, the refinement mapping |
| `BookingProofs` | theorems about `Booking`: rows, locks, pending writes |
| `BookingLedgerProofs` | on top of it: sums of tickets, the limit per user, `Booking` implements `TicketLedger` |
| `BookingAnswerProofs` | on top of that: answers, the audit trail, races for the last seats |
| `BookingCounterProofs` | on top of that: the Redis counter beside the database |
| `FiniteSums` | lemmas on sums over finite sets, used by the modules above and by `ConnectionPoolProofs` |
| `ConnectionPool` | one server process: pg's pool, the limits cache, the health probe, startup and SIGTERM |
| `ConnectionPoolProofs` | theorems about `ConnectionPool` |
| `Sessions` | register, login, refresh and logout over `users` and `sessions` |
| `SessionsProofs` | theorems about `Sessions` |
| `Backoffice` | creating and changing events, the audit trail, lists and single reads |
| `BackofficeProofs` | theorems about `Backoffice` and the three modules it composes |
| `AccessControl`, `AuditLog`, `Pagination` | operators that `Backoffice` composes: middlewares and visibility, the audit queries, LIMIT/OFFSET pages |
| `MCContention`, `MCFaults`, `MCStale`, `MCRetry`, `MCDrift`, `MCAudit` | instances of `Booking` for TLC |
| `MCPool`, `MCSessions`, `MCBackoffice` | instances of the other three |

The four state machines overlap where the components touch. A booking is modelled statement
by statement in `Booking`; `ConnectionPool` keeps of it what the pool sees (a connection, a
row lock, the second connection of `getForEvent`), and `Backoffice` lets it commit in one step,
which `Booking` refining `TicketLedger` justifies for the committed rows.

### How `Booking` corresponds to the code

*Processes.* A request of `Books` runs `bookSpot`, one of `Cancels` runs `cancelBooking`, one
of `Updates` runs `updateEvent`. `pc[r]` is the statement at which the handler waits;
an action is what happens from one `await` to the next. Requests of one Node.js process and
of several look alike: they share nothing but the two servers. A booking is named by the
request that makes it.

*PostgreSQL.* `events`, `bookings` and `audit` are committed rows. The writes of an open
transaction wait in `tx[r]` until `Commit`, because READ COMMITTED (a plain `BEGIN`) hides
them. `eventLock` and `bookingLock` are the row locks of `SELECT ... FOR UPDATE` and of
`UPDATE`; an `UPDATE` that has waited sees the row as committed by then, as PostgreSQL
re-evaluates it. The CHECKs of `schema.sql` are evaluated when a row is written
(`CheckConstraint`); one that fails aborts the transaction on the server. Two statements on
rows whose lock the transaction already holds share an action (`updateStatus` with
`decrementBookedCount`; the `UPDATE` and the audit INSERT of `updateEvent`; the
limits and the SUM of `validateBookingRules`), since no other request can see or affect the
state between them.

*Redis.* `spots[e]` is the key of the event, `Missing` when it does not exist; DECRBY and
INCRBY take a missing key as 0, as the server does.

*`executeInTransaction` and `withDeadlockRetry`.* An exception goes to `Rollback`, which
frees the locks and then retries (a deadlock, fewer than `Attempts` tries), goes on to the
`INCRBY` of `bookSpot`'s catch (`GiveBack`) or answers. `recordAudit` is not awaited, but its
INSERT is queued on the transaction's connection before COMMIT, so it is part of `tx[r]`.

*Faults*, at most `MaxFaults` of the kinds an instance allows:

| Kind | Action | Code or library behaviour |
|---|---|---|
| `redis` | `RedisFault` | a command is rejected; the server may have carried it out |
| `resend` | `RedisResend` | ioredis reconnects and sends an unanswered command again |
| `postgres` | `ReadFault`, `StatementFault`, `RollbackFault` | a statement outside or inside the transaction, or ROLLBACK, fails |
| `deadlock` | `StatementFault` | error 40P01, the only one that is retried |
| `audit` | `AuditFault`, then `DeadCommit` | the audit INSERT fails, its error is swallowed, COMMIT rolls back silently |
| `commit` | `CommitFault` | the connection is lost during COMMIT, before or after it took effect |
| `crash` | `Crash` | the process serving a request dies; the server ends the transaction |
| `flush` | `Flush` | Redis restarts empty |

*Abstractions.* Users, events and requests are model values; names, descriptions and
timestamps are left out. The limits per booking and per user are constants, as if the
cache always answered, and the connection pool is unbounded; both are what `ConnectionPool`
is about. No route deletes events: an event without a row (`NoRow`) has none from the start.
`npm run db:seed:down`, which deletes the seeded events with their bookings, is modelled only
where it meets sessions. The back-off before a retry is a moment in which anything may happen.

### The ledger, and how `Booking` implements it

`TicketLedger` knows neither requests nor locks nor counters. `Sell` checks the status, the
seats left, the limit per booking and the limit per user, and takes the seats, in one step;
`Refund` gives them back once; `Revise` changes capacity and status of an event and leaves
what is sold sold. The mapping reads the committed rows only: `Stock[e]` is the capacity, the
seats left and whether the status is `published`; `ticket` is `bookings`. Every step before
COMMIT, every retry, every Redis command and every fault is a stutter; COMMIT is one ledger
step, also when its answer is lost.

### How `ConnectionPool` corresponds to the code

One process. `held[r]` counts the connections a request has checked out, `waiters` is the queue
of `connect()`: first in, first out, and without a timeout, since `postgres.client.ts` sets none.
A released connection goes to the head of the queue (`Release`), but not once `end()` has been
called. The pool is the `pg` library's and is modelled from how it is used.

A booking takes a connection (`BeginBooking`), the row lock (`LockEvent`), looks up its limits
(`GetLimits`: from the cache, or with a second connection through `ReadLimits` and
`CacheLimits`, or the defaults when the lookup fails) and finishes. `asked[r]` is the `now` that
`getForEvent` reads before its query and from which the entry's expiry is computed. `past` is a
history variable: the limits an event has had and when they were replaced. `getEventById`
reads the same cache, with one connection and no lock; it loads the pool as a health probe does
and has no process of its own. `Boot` listens whatever the probes of `bootstrap` answer. `Sigterm`
starts `server.close` and `pool.end()`, which is through when all connections are back
(`ClosePostgresPool`); `Exit` quits Redis and ends the process with whatever still runs. A
second signal is left out.

### How `Sessions` corresponds to the code

A request of `Registers`, `Logins`, `Refreshes` or `Logouts` runs the method of `AuthService`;
`pc[r]` is the statement it waits for, an account is named by the request that inserts it. `active`
and `retired` are the rows of `sessions` by status. A token is what its JWT contains: the
user and the whole second of its signature, so that two tokens of one user and second are one
string, as they are in the code. `Insertable` is the foreign key and the partial UNIQUE index,
`AddressFree` the UNIQUE index of `users.email`. An error inside the `try` of `refresh` leads to
its catch (`Cleanup`), which deactivates the presented token again; any other one is a 500.
`SeedDown` is the transaction of `npm run db:seed:down`, which may run beside the service.
Faults: a statement fails, before or after it took effect (`StatementFault`); the process of a
request dies (`Crash`). PostgreSQL and the servers are assumed to share one clock. Passwords and
signatures are assumed sound; a client presents only tokens that somebody was given.

### How `Backoffice` corresponds to the code

`createEvent` and `updateEvent` are transactions: `InsertEvent`, or `ReadEvent` without a lock and
`WriteEvent` of all columns, each with its audit entry, then `Commit` or `WriteFault` (the audit
INSERT is awaited here, so that its failure rolls everything back). `begin[q]` is `NOW()`, which
stands still in a transaction and stamps its rows. COMMIT is assumed to take longer than the
resolution of the clock. A reader is a client that asks for page 1 of `listEvents`,
`listMyBookings` or `listAuditLog` and goes on while `has_next` says so; each page sends its
list and its count at once (`ListQuery`, `CountQuery`, in either order). `Get` is `getEventById` or
`getBookingById` of any id. What a middleware answers is `Gate`, who the headers speak for
`ReqUser`, both in `AccessControl`. `AuditLog` has the query builders with their numbered
parameters, including the renumbering of the second half of the UNION; `Pagination` what
`ORDER BY ... LIMIT ... OFFSET` may answer when the order has ties, and `total_pages`.

Five history variables serve the properties of the lists: `first` is a reader's list when it
began, `hist` what happened to the list since (`changed`, `removed`), `late` the rows that came into
it between the count and the list of the current page, `tied` the rows of one stamp that the edge of
a page ran through (`SplitAt`), and `twice` the rows that came a second time. The trail needs no
history: the order and the stamps of its entries tell what was lost and to whom.

## 3. Runs

| Run | Instance | What it shows |
|---|---|---|
| `contention` | 4 seats, 3 new bookings of two users, one old booking cancelled by its owner and by an admin, a capacity cut to 2; no faults | `TypeOK`, `NoOverbooking`, `LedgerMatches`, `UserLimit`, `ReserveNeverRefuses`, `NoErrorWithoutFault`, `NobodyIsStuck`, `SeatsMoveWithBookings`, `ImplementsLedger` |
| `faults` | 3 seats, 2 new bookings, a cancellation, an update of the status; up to two faults of all eight kinds | `IInv`, `LedgerInv`, `AnswerInv`, `AuditMatches`, `RefusalChangesNothing`, `ImplementsLedger` |
| `stale` | 2 seats, 3 single tickets, one request for an event that is gone; the counter starts missing, 0 to 3; one flush or resend | `SoldOutIsJustified`, `NoUnderbooking` |
| `retry` | 3 seats, requests for 2, 1 and 2; three deadlock victims; fairness | `CounterHidesNoSeat`, `DebtIsCovered`, `Answered` |
| `drift` | 2 seats, requests for 2 and 1, then a third one alone | violates `NextRequestHeals` |
| `audit_failure` | a request above the limit per booking | violates `FailuresAreAudited` |
| `audit_silent` | one failing audit INSERT | violates `CompletedIsBooked` |
| `pool` | 3 connections, 2 bookings of one event and a health probe; limits stricter than the default, changed once; one fault, SIGTERM; fairness | `LimitsAtMostTtlOld`, `CacheComesFromTable`, `DefaultsHaveCause`, `PoolInv`, `AnsweredWhileUp`, `ShutdownEnds` |
| `pool_starved` | 2 connections, 2 bookings of one event; fairness | violates `PoolLimitsOnly` |
| `sessions` | any three of two registrations, a login, refreshes and a logout that meet, `db:seed:down`, one fault; fairness | `IInv`, `SessionsHaveOwners`, `UnusedTokenLives`, `RefreshKeepsLogin`, `RegistrationsAgree`, `NoReuse`, `Answered` |
| `backoffice` | nine sets of requests that meet: PATCHes of one event, a POST, a booking, cancellations, lists, single reads; one fault | `TrailExplainsEvents`, `FiltersAgree`, `PagesMissNothing`, `PagesPartition`, `OnlyPermitted`, `SeatsAreBookings`, `BackofficeInv` |
| `access` | the writers and readers of `backoffice`, of whom only an admin who lists bookings comes | violates `AdminsListAll` |

`IInv` (one of `Booking`, one of `Sessions`), `LedgerInv`, `AnswerInv`, `PoolInv` and `BackofficeInv`
are the inductive invariants of the proofs in section 4. Both `IInv`, `PoolInv` and
`BackofficeInv` have the type invariant of their module as a conjunct; `LedgerInv` has `LedgerMatches`, and `IInv` of `Booking` says who may hold a row
lock (`LocksOwned`).

TLC also looks for deadlocks in every run but the two of the pool: the only state in which
a model stops is the one in which all requests are answered (`Finished`). In the pool runs the
process may really stop: an exited process does, and so do a starved pool and a shutdown that
catches a booking waiting for its second connection. A deadlock of all requests is not the only
one that matters: `NobodyIsStuck` says that no group of them waits in a circle while others go on.
A cancellation that locked its event before its booking would close one (`AdminsLockEventFirst`).

*Bounds.* `contention` is built so that every pair of operations that touch one row
conflicts: both bookings of `ann` fit the event but not her limit unless `b0` is
cancelled first, the cut to 2 seats collides with bookings in flight, and two
cancellations race for one row. Three concurrent writers of one row are enough for
one to hold the lock, one to wait with a stale view and one to arrive. `faults` allows a
fault in the handling of another one; every error path of the code handles one error, so a
third adds nothing that a second did not. `stale` starts the counter below, at and above the
right value and outside what one request can repair. `retry` allows three victims,
enough for one request to exhaust `DEADLOCK_RETRY_ATTEMPTS` = 3. The values of the limits
(2 and 3, or 2 and 2) are small so that they are reached; 6 and 15, the defaults of
the schema, are used where they must not interfere.

In `sessions`, tokens live one second of the three the clock runs, so that a refresh meets a
token before, in and after the second of its expiry; three requests are enough for one to
read, one to write in between and one to see the result. The sets of `Traffic` are those whose
requests touch a common row; others do not affect each other. In `pool`, three
connections are one more than the bookings, so that all of them can be out; the clock outruns
the lifetime of a cache entry, and the event's own limit (3), a stricter (2) and a laxer one, which is
the hard-coded default (6), tell every source of a limit apart. In `backoffice`, pages have one row, or two, and lists
two to four rows, so that a client turns a page while rows come, change and go; `FiltersAgree` is
evaluated in every state for all combinations of a given and an absent filter. Its instance has rows of equal stamps at the edges of pages and commits between
the two queries of a page: TLC finds states in which a reader is through with `twice` not empty, and
states in which `late` costs it a row.

*Assumptions of single properties.* `CounterHidesNoSeat` is checked without cancellations
and without lost commands: a cancellation hands seats back before its COMMIT, and a
process that dies keeps its seats in the counter for ever. `NoUnderbooking` is the
documented promise of `docs/booking-concurrency-problem.md:47` for single tickets of distinct
users without cancellations; `SoldOutIsJustified` is that of line 138. `NoErrorWithoutFault`
and the retries it excludes are those of bookings and cancellations: an update that cuts the capacity
below the seats sold ends in a 500 by the CHECK, without any fault. `RefusalChangesNothing` reads a
cancellation's effect from its success row, which commits with it (`AuditMatches`).
`LimitsAtMostTtlOld` lets a booking fall back on the defaults after a fault or while the process ends;
`DefaultsHaveCause` says which booking may: the one whose own query fails in that step, or one that
asks while the pool is closing and has no cached entry. `ShutdownEnds` excepts one thing the code does:
`pool.end()` never serves a request that is queued, and a booking queued for its second connection
keeps its first, so that the shutdown hangs. Other queued requests hold no connection and do not
stop it. `NoReuse` begins when a refresh has deactivated its token, before its answer; refreshes that
have all looked the token up before that may all succeed, each with a session of its own, and this is
the only window. It leaves out a token that was signed twice, in one second, which is one string with
two lives. `RefreshKeepsLogin` is about runs without a fault: an error between the two statements does
log the user out. Otherwise a refresh loses its session only with its user, or because the string it
signed in that second had been handed out already.

`TrailExplainsEvents` accepts a lost update where the code makes one, and only there: a field
may differ from the last value its trail gives only when a transaction on that event was committed
later that had begun before that value was committed, and then the field has a value that was logged
before. `PagesMissNothing` bounds what a reader misses: rows that came between the last count and
its list, one for one, and rows of one stamp at a page's edge. Of a list that lost rows, or whose
rows moved in the order, it says nothing: LIMIT/OFFSET promises nothing then.

*Fairness*. `retry`: the event loop runs the continuation of every answered `await`, and
PostgreSQL grants a lock that is free to somebody: weak fairness of the steps of each request.
`Start` is not fair, a client need not come. A request that waits for a lock is not enabled
while another one holds it, so weak fairness promises it nothing by itself; `Answered`
holds because requests are finite and each lock holder finishes. `sessions`: the same, of the
steps of each request. `pool`, `pool_starved`: the same, of bookings and probes, and of the end of
the pool and of the process, which are continuations too. Requests, faults, `Crash`,
`SeedDown`, `Sigterm`, `Reconfigure` and the clock are never fair: nothing in the code makes
them happen. Waiting for a connection is no step at all; the pool's queue hands it on.

### What the violations mean

* `NextRequestHeals`. Two seats; a request A for two takes the counter to 0, B for one takes
  it to -1, reads two seats remaining and sets the counter to 1; A commits; B is refused by the
  transaction and gives its seat back: the counter says 2, the database 0. The next request
  finds a positive counter, is refused by the transaction, gives its seat back, and
  leaves the counter where it was. `docs/booking-concurrency-problem.md:185` says
  "Self-healing corrects on next request". Only the slow path suffers: the database never
  oversells.
* `FailuresAreAudited`. `reportFailure` writes the failure row on the client of the transaction
  and throws; the row is rolled back with it. `docs/booking-flow.md:88` promises it.
* `CompletedIsBooked`. A failing audit INSERT aborts the transaction on the server;
  `recordAudit` swallows the error, and COMMIT of an aborted transaction rolls back without one.
  The client is told 201. `docs/booking-concurrency-problem.md:153` says that the database
  always matches the bookings completed.

* `PoolLimitsOnly`. Two connections, two bookings of one event: both hold a connection, one has
  the row lock and asks the pool for a second connection in `getForEvent`
  (`booking.service.ts:115`, `event-booking-config.repository.ts:27`), the other waits for the
  row lock. Neither waits with a timeout, so nobody is answered any more, and the process
  cannot shut down either. With more connections than bookings at once the `pool` run shows
  that everybody is answered. `docs/booking-concurrency-problem.md:187` describes the pool's
  size as a limit on concurrency.
* `AdminsListAll`. `listMyBookings` passes the literal `'user'` as the role
  (`booking.controller.ts:34`), so that the branch of `listBookings` for admins is never taken.
  `docs/role-based-access.md:45` lists all users' bookings for an admin.

### Mutants

These operators are not part of the specifications: each is a plausible mistake in the code
that stands before the definition it would replace, and makes a property fail.

| Module | Operators |
|---|---|
| `Booking` | `UnboundedRow`, `IncrByOne`, `KeepEventLocks`, `HealNever`, `HealIfSpare`, `ReadUnlocked`, `RecordOnPool`, `ReservedOne`, `RefuseStrangers`, `AdminsLockEventFirst`, `PatchBlindly`, `RetryAnyError` |
| `Sessions` | `AlwaysFree`, `OnlyUnique`, `OneSessionEach`, `DeactivateUser`, `FoundAnyStatus`, `SignMillis`, `InsertAgain` |
| `ConnectionPool` | `ConnectUnbounded`, `ForgetWaiters`, `LeakOne`, `ExpiryFromAnswer`, `CacheDefaults` |
| `Backoffice` | `SortOnly`, `RowWithoutEntry`, `UpdatedRowAll` |
| `AuditLog`, `Pagination`, `AccessControl` | `ShiftedOne`; `TotalFloor`, `OffsetOfNext`; `AnyRole` |

## 4. Proofs

TLAPS checks the theorems below. They hold for every value of the constants that the named
assumptions admit: TLC evaluates the same assumptions on every instance of section 3. A
theorem that needs more of an instance than they say has it as a hypothesis, and the run that
checks its property is an instance of that hypothesis. The inductive invariants that the proofs
rest on are `IInv`, `LedgerInv`, `AnswerInv`, `PoolInv` and `BackofficeInv`, and `IInv` of `Sessions`, which
runs check as they are, and those of single theorems (`RaceInv`, `DebtInv`, `CoverInv`), of which the
runs check the property that they strengthen.

### Selling: rows and locks

`BookingProofs`, for every set of requests, users, events, ticket counts, limits,
initial database, initial counter and number of faults:

| Theorem | Statement |
|---|---|
| `AlwaysIInv` | `Spec => []IInv` |
| `TypeCorrect` | `Spec => []TypeOK` |
| `NeverOverbooked` | `Spec => []NoOverbooking` |
| `ReserveSucceeds` | `Spec => []ReserveNeverRefuses` |
| `LocksReleased` | `Spec => []NoLockLeak` |
| `NobodyEverStuck` | `Spec => []NobodyIsStuck` |
| `SeatsFollowBookings` | `Spec => SeatsMoveWithBookings` |

They rest on the assumptions named in `Booking`: requests are of three disjoint kinds with
at least one ticket each, a cancellation names the event of its booking, the limits
are natural numbers, and the database starts with rows that its CHECKs accept.

*Argument.* `NoOverbooking` is not inductive: COMMIT publishes a row written several steps
before. `IInv` says what makes that row good at COMMIT. A request between
`lockForUpdate` and the end of its transaction holds the row lock (`LocksHeld`), a lock has one
owner that is inside its transaction (`LocksOwned`), so nobody else's COMMIT touches the row
meanwhile: the view is current (`ViewIsCurrent`) and the pending row is the committed one
moved by the tickets of one booking, within the CHECKs (`PendingWrites`). A booking that
may still be tried again does not exist yet (`NotYetBooked`), also after a lost COMMIT, because
only error 40P01 is retried; a cancellation that passed its checks holds a confirmed booking
(in `LocksHeld`). `PcFits` keeps the three kinds of handler on their paths and
`RowsRead` says which rows exist.

`NobodyEverStuck` needs no induction beyond `IInv`. Whoever owns an event's lock is past its last
`lockForUpdate` and waits for nobody; whoever owns a booking's lock waits, if at all, for an event
(`LocksOwned`). So a chain of waiting requests has at most two links, and its end can go on.

*Layout.* Each action changes the state in one of five ways, and one lemma per way carries
the invariant: `OutsideStep` (no transaction), `AbandonStep` (a transaction ends without
COMMIT), `CommitStep`, `ThrowStep` (an exception, before ROLLBACK) and `WriteStep` (an UPDATE of the
event row). The lemmas on the actions reduce to them, `NextInv` collects the actions, and the
theorems combine `InitInv` and `NextInv`.

### Selling: the ledger

`BookingLedgerProofs`:

| Theorem | Statement |
|---|---|
| `AlwaysUnanswered` | `Spec => []Unanswered` |
| `AlwaysLedgerInv` | `Spec => []LedgerInv` |
| `LedgerAlwaysMatches` | `Spec => []LedgerMatches` |
| `LimitNeverPassed` | `Spec => HoldingsWithinLimit` |
| `LimitAlwaysKept` | `QuotaAtStart` implies `Spec => []UserLimit` |
| `Refinement` | `Spec => ImplementsLedger` |

They add `FiniteAssumption` (finitely many bookings), `LedgerAssumption` (the seats booked at
the start are those of the bookings at the start) and `StockAssumption` (the null of the mapping
is no record). `UserLimit` needs a database in which nobody is past the limit to begin with
(`QuotaAtStart`): lowering a row of `event_booking_config` takes no tickets away.
`LimitNeverPassed` says what the code does without that hypothesis: no step takes anybody past
the limit or further past it.

*Argument.* `LedgerInv` is inductive on top of `IInv`. `SaleChecked`: what
`validateBookingRules` established under the row lock (status, seats, both limits) holds until
COMMIT. The rows of the event cannot change because of the lock; the tickets the user holds
cannot, because only COMMITs of the same event change them and these need the same lock.
`RefundPending` says the same of a cancellation. With them the COMMIT of a booking is the
ledger's `Sell`, that of a cancellation its `Refund`, that of an update its `Revise`, and every
other step a stutter. `Unanswered` (a request on its way has no answer, a retry has forgotten
the last one) excludes a COMMIT that has been answered before.

*Sums.* `SumOver(f, S)` is `SUM(ticket_count)`. That it grows by one summand when one element is
added is, for a fold that picks elements in an unknown order, a statement about all finite sets.
The library's induction rules take a predicate as a parameter, which the provers at hand cannot
instantiate. `FiniteSums` goes around it: a set that violates the equation has a subset of least
cardinality that does, and that one yields a contradiction. The least element of a set of
naturals exists by the well-foundedness theorem of the library. The same construction shows that
the function the fold computes exists.

### Selling: answers and audit

`BookingAnswerProofs`:

| Theorem | Statement |
|---|---|
| `AlwaysAnswerInv` | `Spec => []AnswerInv` |
| `NothingFailsAlone` | `Spec => []NoErrorWithoutFault`: no booking and no cancellation |
| `RefusedMeansUnchanged` | `Spec => []RefusalChangesNothing` |
| `AuditAlwaysMatches` | `Spec => []AuditMatches` |
| `NeverRefusedInError` | `OnlySales` implies `Spec => []SoldOutIsJustified` |
| `RaceFillsSeats` | `Race` implies `Spec => []NoUnderbooking` |

*Argument.* `AnswerInv` is the third layer: a transaction about to commit brings its success row
(`AuditPending`), success rows and bookings agree, one cancellation of a booking has one
(`AuditTrail`), and while no fault has happened no booking and no cancellation fails or is tried again
(`NothingFails`, which needs `IInv`: the guarded `UPDATE`s match a row and the CHECKs hold). A
cancellation that is refused has not committed in an earlier attempt either, since one that will be
tried again has left no success row (`NotYetCancelled`). `NeverRefusedInError`:
with sales only (`OnlySales`), an event that was too full when the request read it stays too
full (`SoldOutStays`), whatever Redis holds and whatever fails. `RaceFillsSeats`: in a `Race`
every answer is 201, "sold out" or "not found" (`RaceInv`). If somebody was sold out, no seat is
left, and the winners are as many as the seats sold since the start, since every booking is for
one ticket; if nobody was, everybody won. `OnlySales` and `Race` are the conditions under which
the documentation makes its promises: a cancellation or a larger capacity makes an earlier "sold
out" outdated, not wrong.

### Selling: the counter

`BookingCounterProofs`:

| Theorem | Statement |
|---|---|
| `DebtsArePaid` | `NothingLost`, `NoDebtAtStart` imply `Spec => []DebtIsCovered` |
| `NoSeatHidden` | `OnlySales`, `GivesBack`, `CoveredAtStart` imply `Spec => []CounterHidesNoSeat` |

`NothingLost`: no rejected or repeated Redis command, no failing statement, no crash. After
these a request may be gone without its INCRBY or have sent a DECRBY twice, and the counter
stays in debt. Cancellations, updates, deadlocks, failing audit INSERTs, lost COMMITs and
flushes are allowed. `GivesBack` leaves deadlocks and lost COMMITs: with them every request that
sold nothing reaches its INCRBY. The hypotheses on the start say that the counter is not wrong
from the outset.

*Argument.* A value that SETNX or SET writes was read from a row some steps before. `DebtInv`
says that it is not negative, and that what SET writes pays for the request's own tickets.
`CoverInv` says that it was at least what the row has left now, since seats are only sold, and
that the key a request has taken tickets from is still there. Both sums (`Debtors`, `Holders`)
change by one request per step; `FiniteSums` says by how much.

### The pool and the limits cache

`ConnectionPoolProofs`, for every number of requests, events, connections and lifetimes:

| Theorem | Statement |
|---|---|
| `AlwaysPoolInv` | `Spec => []PoolInv` |
| `PoolNeverOverdrawn` | `Spec => []TypeOK`, of which `FreeConnections >= 0` is the part that needs a proof |
| `LimitsNeverOld` | `Spec => []LimitsAtMostTtlOld` |
| `CacheNeverInvents` | `Spec => []CacheComesFromTable` |
| `DefaultsNeverLeak` | `Spec => DefaultsHaveCause` |

Assumptions: `PoolAssumption`, `FiniteAssumption` and `LimitAssumption` of `ConnectionPool`
(bookings and probes are disjoint and finite, the pool has a size, limits are positive and the
hard-coded default is one).

*Argument.* `PoolInv` is `TypeOK`, `QueueInv`, `LookupInv` and `LimitsAtMostTtlOld`. `QueueInv`:
a request holds as many connections as its place in the handler says, and stands in the queue
once, while it waits; so `release` hands a connection to somebody who can use it, and the sum of
what is held moves by one. `LookupInv` is stronger than what the runs ask: what a lookup has
read was in force when the lookup *began* or later (`LimitsSince`), and so was what the cache
keeps, counted back from its expiry. The expiry is computed from the time before the query; from
that the bound of one TTL follows however long the query waits for its connection.
`DefaultsNeverLeak` is a property of steps: each way a booking gets its limits is looked at, and
`LookupInv` says of those that do not fall back that the limits were in force.

### Sessions

`SessionsProofs` proves, for every set of requests and of requests sent, accounts, addresses,
token lifetime, clock bound and number of faults:

| Theorem | Statement |
|---|---|
| `AlwaysIInv` | `Spec => []IInv` |
| `TypeCorrect` | `Spec => []TypeOK` |
| `NoOrphanedSession` | `Spec => []SessionsHaveOwners` |
| `TokensLastUntilUsed` | `Spec => []UnusedTokenLives` |
| `RefreshLosesNoLogin` | `Spec => []RefreshKeepsLogin` |
| `AnswersAgree` | `Spec => []RegistrationsAgree` |
| `RefreshOnce` | `Spec => NoReuse` |

They rest on `RequestAssumption` and `BoundAssumption` of `Sessions`: the four kinds of requests
are disjoint, the accounts of the start have addresses of their own, and the numbers are
naturals.

*Argument.* None of the invariants is inductive alone. `PathsKept` says which kind of request
can be where and what it has in hand. `AccountsAreNew` says that before its INSERT nobody has a
token of an account or works for it, so that a token signed earlier cannot be the new user's.
`OneAccountPerAddress` is what the UNIQUE index keeps. `TokensHaveSigners` follows a token back
to the request that signed it and was answered, which explains a refused INSERT of a session.
`UsedUp` says that what a refresh or a logout has deactivated is not active again unless the
same string was signed again. `RefreshOnce` is a property of steps: a lookup that succeeds finds
an active row, and `UsedUp` excludes that for a used token (`UsedTokenIsNotFound`). One lemma
per action carries `IInv`, with one step per conjunct; only `InsertSession` needs more than one
leaf for `RegistrationsAgree`.

### The back office

`BackofficeProofs`, for all requests, headers, queries, bodies, filters, rows at the start and
numbers of ids:

| Theorem | Statement |
|---|---|
| `AlwaysRowsInv` | `Spec => []RowsInv` |
| `RowsKeepShape` | `Spec => []TypeOK`, with `booked <= capacity` after any PATCH |
| `SeatsStayBookings` | `Spec => []SeatsAreBookings` |
| `NeverShowsMore` | `Spec => []OnlyPermitted` |
| `TrailAlwaysExplains` | `Spec => []TrailExplainsEvents` |
| `FiltersAlwaysAgree` | `Spec => []FiltersAgree` |
| `PagesNeverMiss` | `Spec => []PagesMissNothing` |
| `PagesAlwaysPartition` | `Spec => []PagesPartition` |
| `AlwaysBackofficeInv` | `Spec => []BackofficeInv`, the conjunction of the invariants behind these |

Assumptions: `RequestAssumption` (kinds of requests are disjoint, page sizes positive, sort keys
known), `StartAssumption` (the rows at the start fit each other), `IdAssumption` (the sequence
has an id for every POST that is sent), `TrailAssumption` (the log at the start was written by
admins and explains the events at the start).

*Rows.* `RowsInv` says of a PATCH that has written its row (`TxInv`): it still has the seats
that the committed row has, because the UPDATE locks the row and takes `booked_count` from the
committed version, not from the stale read; nobody else has a write of that event under way; and
a POST has an id that no row has. `Counting` shows that the clock and the ids suffice: every
writer that has not finished has a tick left, every POST an id. `Admitted`: who runs was let in
by the gate of its route.

*Access.* `PermitInv` adds that a page that a list query has answered, but that was not sent
yet, is permitted (`ListedInv`). Its steps come down to a case split over the middlewares of
each route (`RowsPermitted`, `FoundPermitted`).

*Trail.* Every COMMIT of the model appends one entry and ticks the clock, so the place of an
entry in the log is the time of its COMMIT (`LogClock`), while its stamp is when its transaction
began. `TrailInv` adds what holds between the steps of a PATCH: each value that it has read is
explained, or was logged and has been overtaken since the PATCH began (`Readable`, `Overtaken`), and so
is each field that it is about to commit and that its body leaves out (`TxTrail`). The commits of
others keep this (`LogKeeps`): what was the last value either stays so or is overtaken. When the PATCH
commits, an overtaken value becomes one that its own entry explains as a lost update.

*Filters.* The query builders number their parameters, and the second half of the UNION is
renumbered. `MeetsConcat` and `WhereHolds` show that a list of conditions with its numbered
parameters means the conjunction of what the filters ask; `BothLogs` that the shift of the
second half points at its own parameters and not at those of the first; `MergedLog` that the
merged query is then the union of the two, and that its count is the cardinality, since an entry
is of one log.

*Pages.* Rows are ordered up to equal stamps. When the edge after the first n rows does not run
through the stamp of a row (`SplitAt`, `UnsplitFact`), that row is among the first n exactly if fewer
than n rows are before it (`FirstsRank`), so a page is an interval of ranks, but for `tied` rows,
and its size is known (`PageRank`). `ReadInv` says of a client on its way: every row of the beginning
that it has not seen and that is not `tied` has a rank at or behind the offset it has reached
(`MissInv`). Rows that are added only raise ranks (`RankGrows`). `has_next = false` means that the page
reaches the total it was given (`LastPage`). If the total was counted after the list, nothing is
behind that page; if before, the list has at most the rows of `late` more than the total, and as many
at most are behind it. When nothing changes, what was seen is the rows of lower rank, and
their number tells the rest: as many as there are ranks as long as no row came twice, fewer from then
on (`PartInv`).

### Only model-checked

* *Liveness*: `Answered` (of `Booking` and of `Sessions`), `AnsweredWhileUp`, `ShutdownEnds`.
  Fairness and ENABLED are out of the prover's reach.
* *The violations*: a counterexample is a run, not a theorem.
* *Deadlock freedom*, which TLC checks in the runs named in section 3.

All other properties of the passing runs are theorems: the invariants and the action
properties of each run, and the refinement.

## 5. Not modelled, and the plan

Not modelled, and why:

* *Test reports and database scripts.* The report generators format the output of test runs;
  `db-init` and `db-seed` run one SQL file before the service starts.
* *Validation, DTOs, logging, configuration.* They keep no state; the ranges that the validators
  let through are the types of the models' inputs.
* *Rate limiting.* The counting is `express-rate-limit`'s, in the memory of each process; the
  service adds a rule that skips some paths.
* *Repository methods that no route calls*, and indexes that only make queries faster.
* *A Redis outage that lasts.* The `faults` run rejects single commands. What an outage does
  is a single step of the model, `RedisFault` at `Exists`: `bookSpot` awaits EXISTS and DECRBY
  outside any `try` (`booking.service.ts:46`, `:49`), so the client gets a 500 and no transaction
  is begun, although `docs/booking-concurrency-problem.md:184` says "If Redis goes down, all
  requests hit PostgreSQL directly". How long ioredis retries before it rejects is left out.
* *Several processes with a cache each.* `ConnectionPool` is one process; processes share only
  the table, and each applies limits as late as its own cache.

Planned, in this order:

1. `ConnectionPool`: with fewer bookings than connections, somebody who holds a connection can
   always take a step. This is the safety half of `AnsweredWhileUp`, and an invariant that the
   prover can handle.
2. `TicketLedger`: theorems about the ledger alone (stock never below zero, no refund twice), which
   `Refinement` carries over to `Booking`.
