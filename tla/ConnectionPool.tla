--------------------------- MODULE ConnectionPool ---------------------------
(***************************************************************************)
(* One server process: its PostgreSQL pool, the minute-long cache of       *)
(* booking limits that is filled through it, and SIGTERM.                  *)
(*                                                                         *)
(* A booking holds a connection from BEGIN to the end of its transaction,  *)
(* waits on the event's row lock while it does, and asks the pool for a    *)
(* second one when the limits are not cached.  What the transaction writes *)
(* is in module Booking; here it is a user of the pool, like the health    *)
(* probe.  The pool itself is pg's: FIFO waiters without a timeout, and    *)
(* none of them served any more once end() has been called.                *)
(***************************************************************************)
EXTENDS Integers, Sequences, FiniteSetsExt

CONSTANTS
    Books, Probes,          \* requests: POST booking, GET health
    Events, EventOf,        \* [Books -> Events]
    PoolMax,                \* DB_POOL_MAX
    Ttl,                    \* CACHE_TTL_MS, in ticks of the clock
    InitTable,              \* event_booking_config: [Events \cup {Default} -> Limit or NoRow]
    Limits,                 \* the limits that may be written into it
    HardDefault,            \* DEFAULT_MAX_PER_BOOKING and DEFAULT_MAX_PER_USER
    MaxTime, MaxChanges, MaxFaults,   \* bounds
    Default, NoRow, Nobody

Requests == Books \cup Probes

ASSUME PoolAssumption ==
    /\ Books \cap Probes = {} /\ Nobody \notin Requests
    /\ EventOf \in [Books -> Events] /\ Default \notin Events
    /\ PoolMax \in 1 .. 100 /\ Ttl \in Nat \ {0}
    /\ MaxTime \in Nat /\ MaxChanges \in Nat /\ MaxFaults \in Nat
ASSUME FiniteAssumption == IsFiniteSet(Requests)  \* those of one life of the process
ASSUME LimitAssumption ==
    /\ Limits \subseteq Nat \ {0} /\ HardDefault \in Limits /\ NoRow \notin Limits
    /\ InitTable \in [Events \cup {Default} -> Limits \cup {NoRow}]

Phases == {"boot", "up", "ending", "quitting", "exited"}

PcValues == {"Idle", "WaitClient", "LockEvent", "GetLimits", "WaitLimits", "ReadLimits",
             "CacheLimits", "Finish", "WaitPing", "Ping", "CheckRedis", "Done"}

VARIABLES
    now,
    table,     \* the rows of event_booking_config
    past,      \* the limits an event has had: {[event, limit, until]}
    lock,      \* [Events -> Requests \cup {Nobody}]: the row lock of the event
    cache,     \* [Events -> [limit, expires] or NoRow]: the Map of the repository
    phase,     \* of the process
    held,      \* [Requests -> Nat]: connections checked out
    waiters,   \* the pool's queue
    pc, asked, seen, applied, \* when a booking looked its limits up, what it read and used
    reply, faults

limits == <<table, past>>
local  == <<asked, seen, applied>>
vars   == <<now, table, past, lock, cache, phase, held, waiters, pc, asked, seen,
            applied, reply, faults>>

-----------------------------------------------------------------------------
(* The pool *)

FreeConnections == PoolMax - MapThenSumSet(LAMBDA r : held[r], Requests)

Granted(label) == CASE label = "WaitClient" -> "LockEvent"
                    [] label = "WaitLimits" -> "ReadLimits"
                    [] label = "WaitPing"   -> "Ping"

\* connect() without the max of getDbConfig.
ConnectUnbounded(r, wait) ==
    /\ held' = [held EXCEPT ![r] = @ + 1]
    /\ pc' = [pc EXCEPT ![r] = Granted(wait)]
    /\ UNCHANGED waiters
\* connect(): at once when a connection is free, else behind the others.
Connect(r, wait) ==
    IF waiters = <<>> /\ FreeConnections > 0
    THEN /\ held' = [held EXCEPT ![r] = @ + 1]
         /\ pc' = [pc EXCEPT ![r] = Granted(wait)]
         /\ UNCHANGED waiters
    ELSE /\ waiters' = Append(waiters, r)
         /\ pc' = [pc EXCEPT ![r] = wait]
         /\ UNCHANGED held

\* release(): the connection goes to the first waiter, unless the pool is ending.
ForgetWaiters(r, label) ==
    /\ held' = [held EXCEPT ![r] = @ - 1]
    /\ pc' = [pc EXCEPT ![r] = label]
    /\ UNCHANGED waiters
LeakOne(r, label) ==
    /\ pc' = [pc EXCEPT ![r] = label]
    /\ UNCHANGED <<held, waiters>>
Release(r, label) ==
    IF waiters = <<>> \/ phase = "ending"
    THEN ForgetWaiters(r, label)
    ELSE LET first == Head(waiters) IN
         /\ held' = [held EXCEPT ![r] = @ - 1, ![first] = @ + 1]
         /\ pc' = [pc EXCEPT ![r] = label, ![first] = Granted(pc[first])]
         /\ waiters' = Tail(waiters)

\* connect() on a pool that is ending throws; once end() is through, the next
\* getPostgresPool makes a new pool.
PoolUsable == phase # "ending"

Respond(r, answer) == reply' = [reply EXCEPT ![r] = answer]

-----------------------------------------------------------------------------
(* A booking: executeInTransaction, lockForUpdate, getForEvent. *)

BeginBooking(r) ==
    /\ pc[r] = "Idle" /\ phase = "up"
    /\ Connect(r, "WaitClient")
    /\ UNCHANGED <<now, limits, lock, cache, phase, local, reply, faults>>

LockEvent(r) ==
    /\ pc[r] = "LockEvent"
    /\ lock[EventOf[r]] = Nobody
    /\ lock' = [lock EXCEPT ![EventOf[r]] = r]
    /\ pc' = [pc EXCEPT ![r] = "GetLimits"]
    /\ UNCHANGED <<now, limits, cache, phase, held, waiters, local, reply, faults>>

Cached(e) == cache[e] # NoRow /\ cache[e].expires > now

Use(r, limit) == applied' = [applied EXCEPT ![r] = limit]

\* getForEvent: the cache, or a query on the pool; on an error the defaults.
GetLimits(r) ==
    /\ pc[r] = "GetLimits"
    /\ asked' = [asked EXCEPT ![r] = now]
    /\ IF Cached(EventOf[r])
       THEN /\ Use(r, cache[EventOf[r]].limit)
            /\ pc' = [pc EXCEPT ![r] = "Finish"]
            /\ UNCHANGED <<held, waiters>>
       ELSE IF PoolUsable
       THEN Connect(r, "WaitLimits") /\ UNCHANGED applied
       ELSE /\ Use(r, HardDefault)
            /\ pc' = [pc EXCEPT ![r] = "Finish"]
            /\ UNCHANGED <<held, waiters>>
    /\ UNCHANGED <<now, limits, lock, cache, phase, seen, reply, faults>>

\* SELECT_FOR_EVENT: the row of the event, else the default row, else none.
Effective(t, e) == IF t[e] # NoRow THEN t[e]
                   ELSE IF t[Default] # NoRow THEN t[Default] ELSE HardDefault

ReadLimits(r) ==
    /\ pc[r] = "ReadLimits"
    /\ seen' = [seen EXCEPT ![r] = Effective(table, EventOf[r])]
    /\ pc' = [pc EXCEPT ![r] = "CacheLimits"]
    /\ UNCHANGED <<now, limits, lock, cache, phase, held, waiters, asked, applied, reply, faults>>

\* The entry expires a TTL after the lookup began, not after the answer came.
ExpiryFromAnswer(r) == now + Ttl
Expiry(r) == asked[r] + Ttl

CacheLimits(r) ==
    /\ pc[r] = "CacheLimits"
    /\ cache' = [cache EXCEPT ![EventOf[r]] = [limit |-> seen[r], expires |-> Expiry(r)]]
    /\ Use(r, seen[r])
    /\ Release(r, "Finish")
    /\ UNCHANGED <<now, limits, lock, phase, asked, seen, reply, faults>>

\* The query fails: the defaults, which are not cached.
CacheDefaults(r) ==
    cache' = [cache EXCEPT ![EventOf[r]] = [limit |-> HardDefault, expires |-> Expiry(r)]]
KeepCache(r) == UNCHANGED cache

LimitsFault(r) ==
    /\ pc[r] = "ReadLimits"
    /\ faults < MaxFaults /\ faults' = faults + 1
    /\ KeepCache(r)
    /\ Use(r, HardDefault)
    /\ Release(r, "Finish")
    /\ UNCHANGED <<now, limits, lock, phase, asked, seen, reply>>

\* COMMIT or ROLLBACK, and the finally of executeInTransaction.
Finish(r) ==
    /\ pc[r] = "Finish"
    /\ lock' = [lock EXCEPT ![EventOf[r]] = Nobody]
    /\ Release(r, "Done")
    /\ Respond(r, "Answered")
    /\ UNCHANGED <<now, limits, cache, phase, local, faults>>

-----------------------------------------------------------------------------
(* GET health: SELECT 1 on the pool, then PING. *)

BeginProbe(r) ==
    /\ pc[r] = "Idle" /\ phase = "up"
    /\ Connect(r, "WaitPing")
    /\ UNCHANGED <<now, limits, lock, cache, phase, local, reply, faults>>

Ping(r) ==
    /\ pc[r] = "Ping"
    /\ \/ Respond(r, "connected") /\ UNCHANGED faults
       \/ faults < MaxFaults /\ faults' = faults + 1 /\ Respond(r, "disconnected")
    /\ Release(r, "CheckRedis")
    /\ UNCHANGED <<now, limits, lock, cache, phase, local>>

CheckRedis(r) ==
    /\ pc[r] = "CheckRedis"
    /\ Respond(r, IF reply[r] = "connected" /\ phase # "quitting" THEN "ok" ELSE "error")
    /\ pc' = [pc EXCEPT ![r] = "Done"]
    /\ UNCHANGED <<now, limits, lock, cache, phase, held, waiters, local, faults>>

-----------------------------------------------------------------------------
(* The process *)

\* bootstrap listens whether or not its SELECT 1 and its PING succeed.
Boot == /\ phase = "boot" /\ phase' = "up"
        /\ UNCHANGED <<now, limits, lock, cache, held, waiters, pc, local, reply, faults>>

\* server.close() and pool.end(); requests that are running go on.
Sigterm == /\ phase = "up" /\ phase' = "ending"
           /\ UNCHANGED <<now, limits, lock, cache, held, waiters, pc, local, reply, faults>>

\* end() is through when every connection is back; its queue is never served.
ClosePostgresPool ==
    /\ phase = "ending"
    /\ \A r \in Requests : held[r] = 0
    /\ phase' = "quitting" /\ waiters' = <<>>
    /\ UNCHANGED <<now, limits, lock, cache, held, pc, local, reply, faults>>

\* redis.quit() answers, and process.exit ends whatever still runs.
Exit ==
    /\ phase = "quitting" /\ phase' = "exited"
    /\ pc' = [r \in Requests |-> "Done"]
    /\ reply' = [r \in Requests |-> IF pc[r] = "Done" THEN reply[r] ELSE "Lost"]
    /\ held' = [r \in Requests |-> 0] /\ waiters' = <<>>
    /\ lock' = [e \in Events |-> Nobody]
    /\ UNCHANGED <<now, limits, cache, local, faults>>

\* Somebody changes a row of event_booking_config.
Reconfigure ==
    /\ Cardinality(past) < MaxChanges
    /\ \E key \in Events \cup {Default}, limit \in Limits \cup {NoRow} :
          /\ table' = [table EXCEPT ![key] = limit]
          /\ past' = past \cup {[event |-> e, limit |-> Effective(table, e), until |-> now] :
                                e \in {e \in Events : Effective(table', e) # Effective(table, e)}}
    /\ table' # table
    /\ UNCHANGED <<now, lock, cache, phase, held, waiters, pc, local, reply, faults>>

Tick == /\ now < MaxTime /\ now' = now + 1
        /\ UNCHANGED <<limits, lock, cache, phase, held, waiters, pc, local, reply, faults>>

-----------------------------------------------------------------------------
Init ==
    /\ now = 0 /\ table = InitTable /\ past = {}
    /\ lock = [e \in Events |-> Nobody]
    /\ cache = [e \in Events |-> NoRow]
    /\ phase = "boot"
    /\ held = [r \in Requests |-> 0] /\ waiters = <<>>
    /\ pc = [r \in Requests |-> "Idle"]
    /\ asked = [r \in Requests |-> 0]
    /\ seen = [r \in Requests |-> HardDefault]
    /\ applied = [r \in Requests |-> NoRow]
    /\ reply = [r \in Requests |-> "none"]
    /\ faults = 0

BookStep(b) == LockEvent(b) \/ GetLimits(b) \/ ReadLimits(b) \/ CacheLimits(b) \/ Finish(b)
ProbeStep(p) == Ping(p) \/ CheckRedis(p)

Next == \/ \E b \in Books : BeginBooking(b) \/ BookStep(b) \/ LimitsFault(b)
        \/ \E p \in Probes : BeginProbe(p) \/ ProbeStep(p)
        \/ Boot \/ Sigterm \/ ClosePostgresPool \/ Exit \/ Reconfigure \/ Tick

Spec == Init /\ [][Next]_vars

\* The servers answer every statement and the event loop runs every continuation;
\* nobody has to send a request or a signal.
FairSpec == /\ Spec
            /\ \A b \in Books : WF_vars(BookStep(b))
            /\ \A p \in Probes : WF_vars(ProbeStep(p))
            /\ WF_vars(ClosePostgresPool) /\ WF_vars(Exit)

-----------------------------------------------------------------------------
(* Properties *)

\* Every variable keeps its shape, and no more connections are out than the pool has.
TypeOK ==
    /\ now \in 0 .. MaxTime /\ table \in [Events \cup {Default} -> Limits \cup {NoRow}]
    /\ \A p \in past : p.event \in Events /\ p.limit \in Limits /\ p.until \in 0 .. MaxTime
    /\ lock \in [Events -> Books \cup {Nobody}]
    /\ \A e \in Events : cache[e] = NoRow \/ cache[e].limit \in Limits
    /\ phase \in Phases /\ pc \in [Requests -> PcValues]
    /\ held \in [Requests -> 0 .. 2] /\ FreeConnections >= 0
    /\ waiters \in Seq(Requests)
    /\ asked \in [Requests -> 0 .. MaxTime] /\ seen \in [Requests -> Limits]
    /\ applied \in [Requests -> Limits \cup {NoRow}]
    /\ faults \in 0 .. MaxFaults

\* The limits of e at some moment of the last ttl ticks before t.
RecentLimits(e, t) == {Effective(table, e)} \cup
                      {p.limit : p \in {p \in past : p.event = e /\ p.until + Ttl > t}}

\* A stricter limit is ignored for at most a TTL: however long a lookup waits for
\* its connection and for its answer, a booking applies limits its event has had
\* within the TTL before it looked them up, or since, unless a failing query or a
\* closing pool made it fall back on the hard-coded ones.
LimitsAtMostTtlOld ==
    \A b \in Books : applied[b] # NoRow =>
        \/ applied[b] \in RecentLimits(EventOf[b], asked[b])
        \/ applied[b] = HardDefault /\ (faults > 0 \/ phase \notin {"boot", "up"})

\* The fallback is never remembered: what the cache serves comes from the table, so
\* that one failing query weakens the limits of one booking only.
CacheComesFromTable ==
    \A e \in Events : Cached(e) => cache[e].limit \in RecentLimits(e, cache[e].expires - Ttl)

\* The hard-coded limits answer for one lookup's own failure: no booking is judged by
\* limits that were not in force unless its own query fails in that very step, or
\* it asks while the pool is being closed and the cache has nothing to offer.  The
\* failures of other requests, earlier ones and a shutdown that finds the limits
\* cached change nothing for it.
DefaultsHaveCause ==
    [][\A b \in Books :
          applied'[b] # applied[b] /\ applied'[b] \notin RecentLimits(EventOf[b], asked'[b]) =>
             /\ applied'[b] = HardDefault
             /\ \/ pc[b] = "ReadLimits" /\ faults' = faults + 1
                \/ pc[b] = "GetLimits" /\ phase = "ending" /\ ~Cached(EventOf[b])]_vars

\* The inductive invariant behind these.  The pool's books are right: a request has the
\* connections that the point of its handler says, stays on its handler's path, and
\* stands in the queue once, while it waits.
Holding(label) == CASE label \in {"ReadLimits", "CacheLimits"} -> 2
                    [] label \in {"LockEvent", "GetLimits", "WaitLimits", "Finish", "Ping"} -> 1
                    [] OTHER -> 0
Waiting == {"WaitClient", "WaitLimits", "WaitPing"}
QueueInv ==
    /\ \A r \in Requests :
          /\ held[r] = Holding(pc[r])
          /\ pc[r] \in {"WaitPing", "Ping", "CheckRedis"} => r \in Probes
          /\ pc[r] \notin {"Idle", "WaitPing", "Ping", "CheckRedis", "Done"} => r \in Books
    /\ \A i \in DOMAIN waiters : pc[waiters[i]] \in Waiting
    /\ \A i, j \in DOMAIN waiters : waiters[i] = waiters[j] => i = j

\* What a lookup has read, and what the cache keeps, was in force when or after the
\* lookup began; a booking applies limits once.
LimitsSince(e, t) == {Effective(table, e)} \cup
                     {p.limit : p \in {p \in past : p.event = e /\ p.until >= t}}
LookingUp == {"Idle", "WaitClient", "LockEvent", "GetLimits", "WaitLimits", "ReadLimits",
              "CacheLimits"}
LookupInv ==
    /\ \A b \in Books :
          /\ asked[b] <= now
          /\ pc[b] \in LookingUp => applied[b] = NoRow
          /\ pc[b] = "CacheLimits" => seen[b] \in LimitsSince(EventOf[b], asked[b])
    /\ \A e \in Events : cache[e] # NoRow =>
          /\ cache[e].expires \in Ttl .. now + Ttl
          /\ cache[e].limit \in LimitsSince(e, cache[e].expires - Ttl)

PoolInv == TypeOK /\ QueueInv /\ LookupInv /\ LimitsAtMostTtlOld

\* While the process is up, every booking and every probe is answered: the pool's
\* queue moves, although bookings hold a connection while they wait for the row
\* lock, and the owner of the lock for a second connection.
AnsweredWhileUp ==
    \A r \in Requests : pc[r] # "Idle" ~> (pc[r] = "Done" \/ phase # "up")

\* A shutdown ends although transactions are running and requests are queued for a
\* connection: every transaction gets to its end, falling back on the default limits
\* if it must.  The one exception is what the code does: a booking that the signal
\* finds queued for its second connection is never served and never gives back its
\* first, so that pool.end() waits for it for ever.
ShutdownEnds ==
    (phase = "ending" /\ \A i \in DOMAIN waiters : pc[waiters[i]] # "WaitLimits")
        ~> phase = "exited"

\* docs/booking-concurrency-problem.md:187, "Default 20 connections limits concurrent
\* DB ops": when they are all in use, requests wait for their turn and get it.
PoolLimitsOnly == AnsweredWhileUp
=============================================================================
