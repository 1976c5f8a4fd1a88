------------------------- MODULE ConnectionPoolProofs -------------------------
(***************************************************************************)
(* Proofs, for every number of requests, events and connections, of the    *)
(* safety of the pool and of the cache of booking limits.                  *)
(***************************************************************************)
EXTENDS ConnectionPool, FiniteSums, SequenceTheorems

USE DEF Requests

-----------------------------------------------------------------------------
(* The pool's books *)

\* FreeConnections, in this state and the next, as a sum over held.
LEMMA FreeIsSum ==
  /\ FreeConnections = PoolMax - SumOver(held, Requests)
  /\ FreeConnections' = PoolMax - SumOver(held', Requests)
BY DEF FreeConnections, SumOver, MapThenSumSet, MapThenFoldSet

\* One request takes or gives back connections.
LEMMA FreeMoves ==
  ASSUME \A q \in Requests : held[q] \in Int, NEW r \in Requests, held'[r] \in Int,
         \A q \in Requests \ {r} : held'[q] = held[q]
  PROVE  FreeConnections \in Int /\ FreeConnections' = FreeConnections + held[r] - held'[r]
<1> DEFINE before == SumOver(held, Requests)
           after == SumOver(held', Requests)
<1>1. after = before + held'[r] - held[r]
  BY FiniteAssumption, SumUpdate
<1>2. before \in Int
  BY FiniteAssumption, SumType
<1>3. FreeConnections = PoolMax - before /\ FreeConnections' = PoolMax - after
  BY FreeIsSum
<1>4. held[r] \in Int /\ PoolMax \in Int
  BY PoolAssumption
<1> HIDE DEF before, after
<1> QED BY <1>1, <1>2, <1>3, <1>4

\* The part of TypeOK that the pool's operations move.
PoolType == /\ held \in [Requests -> 0 .. 2] /\ FreeConnections >= 0
            /\ waiters \in Seq(Requests) /\ pc \in [Requests -> PcValues]

\* What an operation of the pool by r does to the others: at most one leaves the queue.
Served(r) == \A q \in Requests \ {r} :
                pc'[q] = pc[q] \/ (pc[q] \in Waiting /\ pc'[q] = Granted(pc[q]))

\* The queue holds each request once, and r is not in it.
LEMMA NotQueued ==
  ASSUME TypeOK, QueueInv, NEW r \in Requests, pc[r] \notin Waiting
  PROVE  \A i \in DOMAIN waiters : waiters[i] \in Requests /\ waiters[i] # r
<1>1. \A i \in DOMAIN waiters : waiters[i] \in Requests
  BY LenProperties, ElementOfSeq DEF TypeOK
<1> QED BY <1>1 DEF QueueInv

\* connect() gives a connection or a place in the queue.
LEMMA ConnectPool ==
  ASSUME TypeOK, QueueInv, NEW r \in Requests, NEW wait \in Waiting, Connect(r, wait),
         pc[r] \notin Waiting, Holding(pc[r]) = Holding(wait),
         IF wait = "WaitPing" THEN r \in Probes ELSE r \in Books
  PROVE  PoolType' /\ QueueInv' /\ Served(r) /\ pc'[r] \in {wait, Granted(wait)}
<1>0. /\ \A i \in DOMAIN waiters : waiters[i] \in Requests /\ waiters[i] # r
      /\ held \in [Requests -> 0 .. 2] /\ pc \in [Requests -> PcValues]
      /\ waiters \in Seq(Requests) /\ held[r] \in 0 .. 1 /\ held[r] = Holding(pc[r])
      /\ Holding(Granted(wait)) = held[r] + 1 /\ Granted(wait) \in PcValues /\ wait \in PcValues
  BY NotQueued DEF TypeOK, QueueInv, Holding, Granted, Waiting, PcValues
<1>1. CASE /\ FreeConnections > 0 /\ waiters' = waiters
           /\ held' = [held EXCEPT ![r] = @ + 1]
           /\ pc' = [pc EXCEPT ![r] = Granted(wait)]
  <2>1. FreeConnections' = FreeConnections - 1 /\ FreeConnections \in Int
    <3>1. /\ \A q \in Requests : held[q] \in Int
          /\ \A q \in Requests \ {r} : held'[q] = held[q]
          /\ held'[r] = held[r] + 1
      BY <1>0, <1>1
    <3>2. /\ FreeConnections \in Int
          /\ FreeConnections' = FreeConnections + held[r] - held'[r]
      BY <3>1, FreeMoves
    <3> QED BY <3>1, <3>2
  <2>2. PoolType'
    BY <1>0, <1>1, <2>1 DEF PoolType
  <2>3. Served(r) /\ pc'[r] = Granted(wait) /\ held'[r] = held[r] + 1
        /\ \A q \in Requests \ {r} : pc'[q] = pc[q] /\ held'[q] = held[q]
    BY <1>0, <1>1 DEF Served
  <2>4. QueueInv'
    <3>1. \A i \in DOMAIN waiters' : pc'[waiters'[i]] \in Waiting
      BY <1>0, <1>1, <2>3 DEF QueueInv
    <3>2. ASSUME NEW q \in Requests
          PROVE  /\ held'[q] = Holding(pc'[q])
                 /\ pc'[q] \in {"WaitPing", "Ping", "CheckRedis"} => q \in Probes
                 /\ pc'[q] \notin {"Idle", "WaitPing", "Ping", "CheckRedis", "Done"} => q \in Books
      BY <1>0, <2>3 DEF QueueInv, Granted, Waiting
    <3> QED BY <1>1, <3>1, <3>2 DEF QueueInv
  <2> QED BY <2>2, <2>3, <2>4
<1>2. CASE /\ held' = held /\ waiters' = Append(waiters, r)
           /\ pc' = [pc EXCEPT ![r] = wait]
  <2>1. FreeConnections' = FreeConnections
    BY <1>2, FreeIsSum
  <2>2. /\ waiters' \in Seq(Requests) /\ Len(waiters') = Len(waiters) + 1
        /\ \A i \in 1 .. Len(waiters) : waiters'[i] = waiters[i]
        /\ waiters'[Len(waiters) + 1] = r
        /\ Len(waiters) \in Nat /\ DOMAIN waiters = 1 .. Len(waiters)
        /\ DOMAIN waiters' = 1 .. Len(waiters')
    BY <1>0, <1>2, AppendProperties, LenProperties
  <2>3. PoolType'
    BY <1>0, <1>2, <2>1, <2>2 DEF PoolType, TypeOK
  <2>4. Served(r) /\ pc'[r] = wait /\ held' = held
        /\ \A q \in Requests \ {r} : pc'[q] = pc[q]
    BY <1>0, <1>2 DEF Served
  <2>5. QueueInv'
    <3>1. \A i \in DOMAIN waiters' : pc'[waiters'[i]] \in Waiting
      BY <1>0, <2>2, <2>4 DEF QueueInv
    <3>2. \A i, j \in DOMAIN waiters' : waiters'[i] = waiters'[j] => i = j
      BY <1>0, <2>2 DEF QueueInv
    <3>3. ASSUME NEW q \in Requests
          PROVE  /\ held'[q] = Holding(pc'[q])
                 /\ pc'[q] \in {"WaitPing", "Ping", "CheckRedis"} => q \in Probes
                 /\ pc'[q] \notin {"Idle", "WaitPing", "Ping", "CheckRedis", "Done"} => q \in Books
      BY <1>0, <2>4 DEF QueueInv, Waiting
    <3> QED BY <3>1, <3>2, <3>3 DEF QueueInv
  <2> QED BY <2>3, <2>4, <2>5
<1> QED BY <1>1, <1>2 DEF Connect

\* release() hands the connection on, or frees it.
LEMMA ReleasePool ==
  ASSUME TypeOK, QueueInv, NEW r \in Requests, NEW label \in PcValues \ Waiting,
         Release(r, label), pc[r] \notin Waiting, Holding(pc[r]) = Holding(label) + 1,
         label \in {"Idle", "CheckRedis", "Done"} \/ r \in Books,
         label = "CheckRedis" => r \in Probes, label # "Ping"
  PROVE  PoolType' /\ QueueInv' /\ Served(r) /\ pc'[r] = label
<1>0. /\ \A i \in DOMAIN waiters : waiters[i] \in Requests /\ waiters[i] # r
      /\ held \in [Requests -> 0 .. 2] /\ pc \in [Requests -> PcValues]
      /\ waiters \in Seq(Requests) /\ held[r] \in 1 .. 2 /\ held[r] = Holding(pc[r])
      /\ Holding(label) = held[r] - 1
  BY NotQueued DEF TypeOK, QueueInv, Holding
<1>1. CASE ForgetWaiters(r, label)
  <2>0. /\ held' = [held EXCEPT ![r] = held[r] - 1] /\ waiters' = waiters
        /\ pc' = [pc EXCEPT ![r] = label]
    BY <1>1 DEF ForgetWaiters
  <2>1. FreeConnections' = FreeConnections + 1 /\ FreeConnections \in Int
    <3>1. /\ \A q \in Requests : held[q] \in Int
          /\ \A q \in Requests \ {r} : held'[q] = held[q]
          /\ held'[r] = held[r] - 1
      BY <1>0, <2>0
    <3>2. /\ FreeConnections \in Int
          /\ FreeConnections' = FreeConnections + held[r] - held'[r]
      BY <3>1, FreeMoves
    <3> QED BY <3>1, <3>2
  <2>2. PoolType'
    <3>1. held[r] - 1 \in 0 .. 2 /\ FreeConnections >= 0
      BY <1>0 DEF TypeOK
    <3>2. held' \in [Requests -> 0 .. 2]
      BY <1>0, <2>0, <3>1
    <3>3. FreeConnections' >= 0
      BY <2>1, <3>1
    <3>4. pc' \in [Requests -> PcValues] /\ waiters' \in Seq(Requests)
      BY <1>0, <2>0
    <3> QED BY <3>2, <3>3, <3>4 DEF PoolType
  <2>3. Served(r) /\ pc'[r] = label /\ held'[r] = held[r] - 1
        /\ \A q \in Requests \ {r} : pc'[q] = pc[q] /\ held'[q] = held[q]
    BY <1>0, <2>0 DEF Served
  <2>4. QueueInv'
    <3>1. \A i \in DOMAIN waiters' : pc'[waiters'[i]] \in Waiting
      BY <1>0, <2>0, <2>3 DEF QueueInv
    <3>2. ASSUME NEW q \in Requests
          PROVE  /\ held'[q] = Holding(pc'[q])
                 /\ pc'[q] \in {"WaitPing", "Ping", "CheckRedis"} => q \in Probes
                 /\ pc'[q] \notin {"Idle", "WaitPing", "Ping", "CheckRedis", "Done"} => q \in Books
      BY <1>0, <2>3 DEF QueueInv, Waiting
    <3> QED BY <2>0, <3>1, <3>2 DEF QueueInv
  <2> QED BY <2>2, <2>3, <2>4
<1>2. CASE /\ waiters # <<>>
           /\ held' = [held EXCEPT ![r] = @ - 1, ![Head(waiters)] = @ + 1]
           /\ pc' = [pc EXCEPT ![r] = label, ![Head(waiters)] = Granted(pc[Head(waiters)])]
           /\ waiters' = Tail(waiters)
  <2> DEFINE w == waiters[1]
  <2>1. /\ Head(waiters) = w /\ 1 \in DOMAIN waiters
        /\ waiters' \in Seq(Requests) /\ Len(waiters') = Len(waiters) - 1
        /\ \A i \in 1 .. Len(waiters') : waiters'[i] = waiters[i + 1]
        /\ Len(waiters) \in Nat \ {0} /\ DOMAIN waiters = 1 .. Len(waiters)
        /\ DOMAIN waiters' = 1 .. Len(waiters')
    <3>1. Len(waiters) \in Nat \ {0} /\ DOMAIN waiters = 1 .. Len(waiters)
      BY <1>0, <1>2, EmptySeq, LenProperties
    <3>2. /\ waiters' \in Seq(Requests) /\ Len(waiters') = Len(waiters) - 1
          /\ \A i \in 1 .. Len(waiters') : waiters'[i] = waiters[i + 1]
      BY <1>0, <1>2, HeadTailProperties
    <3>3. Head(waiters) = waiters[1]
      BY <1>0, <1>2
    <3> QED BY <3>1, <3>2, <3>3, LenProperties
  <2>2. w \in Requests /\ w # r /\ pc[w] \in Waiting
    BY <1>0, <2>1 DEF QueueInv
  <2>3. /\ held[w] = Holding(pc[w]) /\ Holding(Granted(pc[w])) = held[w] + 1
        /\ held[w] \in 0 .. 1 /\ Granted(pc[w]) \in PcValues
    BY <2>2 DEF QueueInv, Holding, Granted, Waiting, PcValues
  <2> HIDE DEF w
  <2>4. /\ held'[r] = held[r] - 1 /\ held'[w] = held[w] + 1
        /\ \A q \in Requests \ {r, w} : held'[q] = held[q]
        /\ pc'[r] = label /\ pc'[w] = Granted(pc[w])
        /\ \A q \in Requests \ {r, w} : pc'[q] = pc[q]
        /\ held' \in [Requests -> 0 .. 2] /\ pc' \in [Requests -> PcValues]
    <3>1. /\ held' = [held EXCEPT ![r] = held[r] - 1, ![w] = held[w] + 1]
          /\ pc' = [pc EXCEPT ![r] = label, ![w] = Granted(pc[w])]
      BY <1>0, <1>2, <2>1, <2>2
    <3>2. /\ held'[r] = held[r] - 1 /\ held'[w] = held[w] + 1
          /\ \A q \in Requests \ {r, w} : held'[q] = held[q]
      BY <1>0, <2>2, <3>1
    <3>3. held[r] - 1 \in 0 .. 2 /\ held[w] + 1 \in 0 .. 2
      BY <1>0, <2>3
    <3>4. held' \in [Requests -> 0 .. 2]
      BY <1>0, <3>1, <3>3
    <3>5. /\ pc'[r] = label /\ pc'[w] = Granted(pc[w])
          /\ \A q \in Requests \ {r, w} : pc'[q] = pc[q]
          /\ pc' \in [Requests -> PcValues]
      BY <1>0, <2>2, <2>3, <3>1
    <3> QED BY <3>2, <3>4, <3>5
  <2>5. FreeConnections' = FreeConnections
    <3> DEFINE mid == [held EXCEPT ![r] = @ - 1]
               a == SumOver(held, Requests)
               b == SumOver(mid, Requests)
               c == SumOver(held', Requests)
    <3>1. /\ \A q \in Requests : held[q] \in Int /\ mid[q] \in Int
          /\ mid[r] = held[r] - 1 /\ mid[w] = held[w]
          /\ \A q \in Requests \ {r} : mid[q] = held[q]
          /\ \A q \in Requests \ {w} : held'[q] = mid[q]
          /\ held'[w] \in Int
      BY <1>0, <2>2, <2>3, <2>4
    <3> HIDE DEF mid
    <3>2. b = a + mid[r] - held[r] /\ c = b + held'[w] - mid[w]
      BY <2>2, <3>1, FiniteAssumption, SumUpdate
    <3>3. a \in Int
      BY <3>1, FiniteAssumption, SumType
    <3>4. held[r] \in Int /\ held[w] \in Int
      BY <2>2, <3>1
    <3> HIDE DEF a, b, c
    <3>5. c = a
      BY <2>4, <3>1, <3>2, <3>3, <3>4
    <3> QED BY <3>5, FreeIsSum DEF a, c
  <2>6. PoolType'
    BY <2>1, <2>4, <2>5 DEF PoolType, TypeOK
  <2>7. Served(r)
    BY <2>2, <2>4 DEF Served
  <2>8. QueueInv'
    <3>1. ASSUME NEW i \in DOMAIN waiters' PROVE pc'[waiters'[i]] \in Waiting
      <4>1. i + 1 \in DOMAIN waiters /\ waiters'[i] = waiters[i + 1] /\ i + 1 # 1
        BY <2>1
      <4>2. waiters[i + 1] # w
        BY <2>1, <4>1 DEF QueueInv, w
      <4> QED BY <1>0, <2>4, <4>1, <4>2 DEF QueueInv
    <3>2. \A i, j \in DOMAIN waiters' : waiters'[i] = waiters'[j] => i = j
      <4>1. \A i \in DOMAIN waiters' : i \in Int /\ i + 1 \in DOMAIN waiters
        BY <2>1
      <4> QED BY <2>1, <4>1 DEF QueueInv
    <3>3. ASSUME NEW q \in Requests
          PROVE  /\ held'[q] = Holding(pc'[q])
                 /\ pc'[q] \in {"WaitPing", "Ping", "CheckRedis"} => q \in Probes
                 /\ pc'[q] \notin {"Idle", "WaitPing", "Ping", "CheckRedis", "Done"} => q \in Books
      <4>1. CASE q = r
        BY <1>0, <2>4, <4>1 DEF Waiting
      <4>2. CASE q = w
        BY <2>2, <2>3, <2>4, <4>2 DEF QueueInv, Granted, Waiting
      <4>3. CASE q \notin {r, w}
        BY <2>4, <4>3 DEF QueueInv
      <4> QED BY <4>1, <4>2, <4>3
    <3> QED BY <3>1, <3>2, <3>3 DEF QueueInv
  <2> QED BY <2>4, <2>6, <2>7, <2>8
<1> QED BY <1>1, <1>2 DEF Release

\* A request that goes on with the connections it has.
LEMMA MovePool ==
  ASSUME TypeOK, QueueInv, NEW r \in Requests, NEW label \in PcValues \ Waiting,
         pc' = [pc EXCEPT ![r] = label], UNCHANGED <<held, waiters>>,
         pc[r] \notin Waiting, Holding(pc[r]) = Holding(label),
         label \in {"Idle", "CheckRedis", "Done"} \/ r \in Books,
         label = "CheckRedis" => r \in Probes, label # "Ping"
  PROVE  PoolType' /\ QueueInv' /\ Served(r) /\ pc'[r] = label
<1>0. /\ \A i \in DOMAIN waiters : waiters[i] \in Requests /\ waiters[i] # r
      /\ pc \in [Requests -> PcValues] /\ held[r] = Holding(pc[r])
  BY NotQueued DEF TypeOK, QueueInv
<1>1. pc'[r] = label /\ \A q \in Requests \ {r} : pc'[q] = pc[q]
  BY <1>0
<1>2. FreeConnections' = FreeConnections
  BY FreeIsSum
<1>3. PoolType'
  BY <1>0, <1>2 DEF PoolType, TypeOK
<1>4. \A i \in DOMAIN waiters' : pc'[waiters'[i]] \in Waiting
  BY <1>0, <1>1 DEF QueueInv
<1>5. ASSUME NEW q \in Requests
      PROVE  /\ held'[q] = Holding(pc'[q])
             /\ pc'[q] \in {"WaitPing", "Ping", "CheckRedis"} => q \in Probes
             /\ pc'[q] \notin {"Idle", "WaitPing", "Ping", "CheckRedis", "Done"} => q \in Books
  BY <1>0, <1>1 DEF QueueInv, Waiting
<1> QED BY <1>1, <1>3, <1>4, <1>5 DEF QueueInv, Served

-----------------------------------------------------------------------------
(* The age of limits *)

\* Limits that have been in force since a moment that has come stay so, whatever rows change.
SinceGrows == \A e \in Events, t \in Int : t <= now => LimitsSince(e, t) \subseteq LimitsSince(e, t)'

\* Time and the other requests leave the table alone.
LEMMA SinceSame ==
  ASSUME UNCHANGED limits  PROVE SinceGrows /\ \A e \in Events, t \in Int : RecentLimits(e, t)' = RecentLimits(e, t)
BY DEF SinceGrows, LimitsSince, RecentLimits, Effective, limits

\* A change of the table files what was in force until then.
LEMMA SinceReconfigured ==
  ASSUME TypeOK, Reconfigure
  PROVE  /\ SinceGrows
         /\ \A e \in Events, t \in Int : t <= now => RecentLimits(e, t) \subseteq RecentLimits(e, t)'
         /\ table' \in [Events \cup {Default} -> Limits \cup {NoRow}]
         /\ \A p \in past' : p.event \in Events /\ p.limit \in Limits /\ p.until \in 0 .. MaxTime
<1> USE PoolAssumption, LimitAssumption
<1>1. PICK key \in Events \cup {Default}, limit \in Limits \cup {NoRow} :
         table' = [table EXCEPT ![key] = limit]
  BY DEF Reconfigure
<1>2. now \in Nat /\ now \in 0 .. MaxTime /\ now' = now
  BY DEF TypeOK, Reconfigure
<1> DEFINE changed == {e \in Events : Effective(table', e) # Effective(table, e)}
           filed == {[event |-> e, limit |-> Effective(table, e), until |-> now] : e \in changed}
<1>3. past' = past \cup filed
  BY DEF Reconfigure
<1>4. \A e \in Events : Effective(table, e) \in Limits
  BY DEF TypeOK, Effective
<1>5. \A e \in changed : \E p \in past' : /\ p.event = e /\ p.limit = Effective(table, e)
                                         /\ p.until = now
  <2> TAKE e \in changed
  <2> DEFINE p == [event |-> e, limit |-> Effective(table, e), until |-> now]
  <2>1. p \in past'
    BY <1>3
  <2>2. p.event = e /\ p.limit = Effective(table, e) /\ p.until = now
    OBVIOUS
  <2> QED BY <2>1, <2>2
<1>6. \A e \in Events : Effective(table', e) = Effective(table, e) \/ e \in changed
  OBVIOUS
<1>7. \A p \in filed : p.event \in Events /\ p.limit \in Limits /\ p.until \in 0 .. MaxTime
  BY <1>2, <1>4
<1>8. past \subseteq past'
  BY <1>3, Zenon
<1> HIDE DEF changed, filed
<1>9. ASSUME NEW e \in Events, NEW t \in Int, t <= now
      PROVE  LimitsSince(e, t) \subseteq LimitsSince(e, t)'
  <2>1. Effective(table, e) \in LimitsSince(e, t)'
    <3>1. CASE Effective(table', e) = Effective(table, e)
      BY <3>1 DEF LimitsSince, Effective
    <3>2. CASE e \in changed
      BY <1>5, <1>9, <3>2 DEF LimitsSince
    <3> QED BY <1>6, <3>1, <3>2
  <2> QED BY <1>8, <2>1 DEF LimitsSince
<1>10. ASSUME NEW e \in Events, NEW t \in Int, t <= now
       PROVE  RecentLimits(e, t) \subseteq RecentLimits(e, t)'
  <2>1. Effective(table, e) \in RecentLimits(e, t)'
    <3>1. CASE Effective(table', e) = Effective(table, e)
      BY <3>1 DEF RecentLimits, Effective
    <3>2. CASE e \in changed
      <4>1. now + Ttl > t
        BY <1>2, <1>10
      <4> QED BY <1>5, <3>2, <4>1 DEF RecentLimits
    <3> QED BY <1>6, <3>1, <3>2
  <2> QED BY <1>8, <2>1 DEF RecentLimits
<1>11. table' \in [Events \cup {Default} -> Limits \cup {NoRow}]
  BY <1>1 DEF TypeOK
<1>12. \A p \in past' : p.event \in Events /\ p.limit \in Limits /\ p.until \in 0 .. MaxTime
  BY <1>3, <1>7 DEF TypeOK
<1> QED BY <1>9, <1>10, <1>11, <1>12 DEF SinceGrows

\* What was in force at or after a moment was in force within a TTL of any moment less
\* than a TTL later.
LEMMA SinceIsRecent ==
  ASSUME TypeOK, NEW e \in Events, NEW t \in Int, NEW u \in Int, u < t + Ttl
  PROVE  LimitsSince(e, t) \subseteq RecentLimits(e, u)
<1>1. \A p \in past : p.until >= t => p.until + Ttl > u
  BY PoolAssumption DEF TypeOK
<1> QED BY <1>1 DEF LimitsSince, RecentLimits

\* What the invariant says of one booking and of one entry of the cache.
BookOK(b) ==
    /\ asked[b] <= now
    /\ pc[b] \in LookingUp => applied[b] = NoRow
    /\ pc[b] = "CacheLimits" => seen[b] \in LimitsSince(EventOf[b], asked[b])
    /\ applied[b] # NoRow =>
          \/ applied[b] \in RecentLimits(EventOf[b], asked[b])
          \/ applied[b] = HardDefault /\ (faults > 0 \/ phase \notin {"boot", "up"})
EntryOK(e) ==
    cache[e] # NoRow => /\ cache[e].expires \in Ttl .. now + Ttl
                        /\ cache[e].limit \in LimitsSince(e, cache[e].expires - Ttl)

\* The invariant, part by part.
LEMMA LookupParts ==
  /\ LookupInv /\ LimitsAtMostTtlOld <=> (\A b \in Books : BookOK(b)) /\ (\A e \in Events : EntryOK(e))
  /\ (\A b \in Books : BookOK(b)') /\ (\A e \in Events : EntryOK(e)')
        => LookupInv' /\ LimitsAtMostTtlOld'
BY DEF LookupInv, LimitsAtMostTtlOld, BookOK, EntryOK

\* What every step does to the clock, the table and the excuses for the hard-coded limits.
Aging ==
    /\ SinceGrows
    /\ \A e \in Events, t \in Int : t <= now => RecentLimits(e, t) \subseteq RecentLimits(e, t)'
    /\ now' \in Int /\ now' >= now
    /\ faults > 0 => faults' > 0
    /\ phase \notin {"boot", "up"} => phase' \notin {"boot", "up"}

\* A booking that reads and applies nothing stays right.
LEMMA BookStays ==
  ASSUME TypeOK, Aging, NEW b \in Books, BookOK(b),
         asked'[b] = asked[b], seen'[b] = seen[b], applied'[b] = applied[b],
         pc'[b] \in LookingUp => pc[b] \in LookingUp,
         pc'[b] = "CacheLimits" => pc[b] = "CacheLimits"
  PROVE  BookOK(b)'
<1>1. EventOf[b] \in Events /\ asked[b] \in Int /\ asked[b] <= now /\ now \in Int
  BY PoolAssumption DEF TypeOK, BookOK
<1>2. PICK e \in Events, t \in Int : e = EventOf[b] /\ t = asked[b]
  BY <1>1
<1>3. LimitsSince(e, t) \subseteq LimitsSince(e, t)' /\ RecentLimits(e, t) \subseteq RecentLimits(e, t)'
  BY <1>1, <1>2 DEF Aging, SinceGrows
<1>4. /\ LimitsSince(EventOf[b], asked[b])' = LimitsSince(e, t)'
      /\ RecentLimits(EventOf[b], asked[b])' = RecentLimits(e, t)'
  BY <1>2 DEF LimitsSince, RecentLimits
<1> QED BY <1>1, <1>2, <1>3, <1>4 DEF BookOK, Aging

\* An entry that is not replaced stays right.
LEMMA EntryStays ==
  ASSUME TypeOK, Aging, NEW e \in Events, EntryOK(e), cache'[e] = cache[e]
  PROVE  EntryOK(e)'
<1>1. CASE cache[e] = NoRow
  BY <1>1 DEF EntryOK
<1>2. CASE cache[e] # NoRow
  <2>1. /\ cache[e].expires \in Ttl .. now + Ttl /\ now \in Int /\ Ttl \in Int
        /\ cache[e].limit \in LimitsSince(e, cache[e].expires - Ttl)
    BY <1>2, PoolAssumption DEF TypeOK, EntryOK
  <2>2. PICK t \in Int : t = cache[e].expires - Ttl
    BY <2>1
  <2>3. t <= now /\ cache[e].expires \in Ttl .. now' + Ttl
    BY <2>1, <2>2 DEF Aging
  <2>4. cache[e].limit \in LimitsSince(e, t)'
    BY <2>1, <2>2, <2>3 DEF Aging, SinceGrows
  <2>5. LimitsSince(e, cache[e].expires - Ttl)' = LimitsSince(e, t)'
    BY <2>2 DEF LimitsSince
  <2> QED BY <2>3, <2>4, <2>5 DEF EntryOK
<1> QED BY <1>1, <1>2

-----------------------------------------------------------------------------
(* The steps *)

\* Nobody starts a lookup, and nobody gets to its end, by what another does to the pool.
LEMMA ServedPath ==
  ASSUME NEW r \in Requests, Served(r), NEW q \in Requests \ {r}
  PROVE  /\ pc'[q] \in LookingUp => pc[q] \in LookingUp
         /\ pc'[q] = "CacheLimits" => pc[q] = "CacheLimits"
BY DEF Served, Waiting, Granted, LookingUp

\* Every step but Reconfigure.
LEMMA AgingStep ==
  ASSUME TypeOK, UNCHANGED limits, now' \in {now, now + 1}, faults' \in {faults, faults + 1},
         phase \notin {"boot", "up"} => phase' \notin {"boot", "up"}
  PROVE  Aging
<1>1. now \in Nat /\ faults \in Nat
  BY PoolAssumption DEF TypeOK
<1> QED BY <1>1, SinceSame DEF Aging

\* The parts of a step of r that looks nothing up.
LEMMA PlainStep ==
  ASSUME PoolInv, Aging, NEW r \in Requests, PoolType', QueueInv', Served(r),
         UNCHANGED <<now, limits, cache, phase, local>>,
         lock' \in [Events -> Books \cup {Nobody}], faults' \in 0 .. MaxFaults,
         pc'[r] \in LookingUp => pc[r] \in LookingUp,
         pc'[r] = "CacheLimits" => pc[r] = "CacheLimits"
  PROVE  PoolInv'
<1>1. /\ TypeOK /\ QueueInv /\ (\A b \in Books : BookOK(b)) /\ (\A e \in Events : EntryOK(e))
  BY LookupParts DEF PoolInv
<1>2. TypeOK'
  BY <1>1 DEF TypeOK, PoolType, limits, local
<1>3. ASSUME NEW b \in Books PROVE BookOK(b)'
  <2>1. /\ asked'[b] = asked[b] /\ seen'[b] = seen[b] /\ applied'[b] = applied[b]
        /\ b \in Requests
    BY DEF local
  <2>2. /\ pc'[b] \in LookingUp => pc[b] \in LookingUp
        /\ pc'[b] = "CacheLimits" => pc[b] = "CacheLimits"
    BY <2>1, ServedPath
  <2> QED BY <1>1, <2>1, <2>2, BookStays
<1>4. ASSUME NEW e \in Events PROVE EntryOK(e)'
  BY <1>1, EntryStays
<1> QED BY <1>2, <1>3, <1>4, LookupParts DEF PoolInv

\* The handlers of a booking and of a probe, but for the lookup.
LEMMA HandlerStep ==
  ASSUME PoolInv, NEW r \in Requests,
         \/ r \in Books /\ (BeginBooking(r) \/ LockEvent(r) \/ Finish(r))
         \/ r \in Probes /\ (BeginProbe(r) \/ Ping(r) \/ CheckRedis(r))
  PROVE  PoolInv'
<1>0. TypeOK /\ QueueInv
  BY DEF PoolInv
<1>1. /\ UNCHANGED <<now, limits, cache, phase, local>>
      /\ faults' \in {faults, faults + 1} /\ faults' \in 0 .. MaxFaults
      /\ lock' \in [Events -> Books \cup {Nobody}]
  <2> USE <1>0, PoolAssumption DEF TypeOK
  <2>1. CASE r \in Books /\ (BeginBooking(r) \/ LockEvent(r) \/ Finish(r))
    BY <2>1 DEF BeginBooking, LockEvent, Finish
  <2>2. CASE r \in Probes /\ (BeginProbe(r) \/ Ping(r) \/ CheckRedis(r))
    BY <2>2 DEF BeginProbe, Ping, CheckRedis
  <2> QED BY <2>1, <2>2
<1>2. Aging
  BY <1>0, <1>1, AgingStep
<1> USE DEF Waiting, PcValues, Holding, LookingUp
<1>3. CASE r \in Books /\ BeginBooking(r)
  <2>1. Connect(r, "WaitClient") /\ pc[r] = "Idle"
    BY <1>3 DEF BeginBooking
  <2>2. PoolType' /\ QueueInv' /\ Served(r) /\ pc'[r] \in {"WaitClient", "LockEvent"}
    BY <1>0, <1>3, <2>1, ConnectPool DEF Granted
  <2> QED BY <1>1, <1>2, <2>1, <2>2, PlainStep
<1>4. CASE r \in Books /\ LockEvent(r)
  <2>1. /\ pc' = [pc EXCEPT ![r] = "GetLimits"] /\ pc[r] = "LockEvent"
        /\ UNCHANGED <<held, waiters>>
    BY <1>4 DEF LockEvent
  <2>2. PoolType' /\ QueueInv' /\ Served(r) /\ pc'[r] = "GetLimits"
    BY <1>0, <1>4, <2>1, MovePool
  <2> QED BY <1>1, <1>2, <2>1, <2>2, PlainStep
<1>5. CASE r \in Books /\ Finish(r)
  <2>1. Release(r, "Done") /\ pc[r] = "Finish"
    BY <1>5 DEF Finish
  <2>2. PoolType' /\ QueueInv' /\ Served(r) /\ pc'[r] = "Done"
    BY <1>0, <1>5, <2>1, ReleasePool
  <2> QED BY <1>1, <1>2, <2>1, <2>2, PlainStep
<1>6. CASE r \in Probes /\ BeginProbe(r)
  <2>1. Connect(r, "WaitPing") /\ pc[r] = "Idle"
    BY <1>6 DEF BeginProbe
  <2>2. PoolType' /\ QueueInv' /\ Served(r) /\ pc'[r] \in {"WaitPing", "Ping"}
    BY <1>0, <1>6, <2>1, ConnectPool DEF Granted
  <2> QED BY <1>1, <1>2, <2>1, <2>2, PlainStep
<1>7. CASE r \in Probes /\ Ping(r)
  <2>1. Release(r, "CheckRedis") /\ pc[r] = "Ping"
    BY <1>7 DEF Ping
  <2>2. PoolType' /\ QueueInv' /\ Served(r) /\ pc'[r] = "CheckRedis"
    BY <1>0, <1>7, <2>1, ReleasePool
  <2> QED BY <1>1, <1>2, <2>1, <2>2, PlainStep
<1>8. CASE r \in Probes /\ CheckRedis(r)
  <2>1. /\ pc' = [pc EXCEPT ![r] = "Done"] /\ pc[r] = "CheckRedis"
        /\ UNCHANGED <<held, waiters>>
    BY <1>8 DEF CheckRedis
  <2>2. PoolType' /\ QueueInv' /\ Served(r) /\ pc'[r] = "Done"
    BY <1>0, <1>8, <2>1, MovePool
  <2> QED BY <1>1, <1>2, <2>1, <2>2, PlainStep
<1> QED BY <1>3, <1>4, <1>5, <1>6, <1>7, <1>8

\* What a step of b writes of its lookup and into the cache.
Looked(b) ==
    /\ UNCHANGED <<now, limits, lock, phase>> /\ faults' \in 0 .. MaxFaults
    /\ asked' \in [Requests -> 0 .. MaxTime] /\ seen' \in [Requests -> Limits]
    /\ applied' \in [Requests -> Limits \cup {NoRow}]
    /\ \A q \in Requests \ {b} : /\ asked'[q] = asked[q] /\ seen'[q] = seen[q]
                                /\ applied'[q] = applied[q]
Replaced(e) == EntryOK(e)' /\ cache'[e].limit \in Limits
Entries == \A e \in Events : cache'[e] = cache[e] \/ Replaced(e)

\* The parts of a step of b that looks its limits up.
LEMMA LookupStep ==
  ASSUME PoolInv, Aging, NEW b \in Books, PoolType', QueueInv', Served(b),
         Looked(b), BookOK(b)', Entries
  PROVE  PoolInv'
<1> USE DEF Looked, Entries, Replaced
<1>1. /\ TypeOK /\ QueueInv /\ (\A q \in Books : BookOK(q)) /\ (\A e \in Events : EntryOK(e))
  BY LookupParts DEF PoolInv
<1>2. TypeOK'
  BY <1>1 DEF TypeOK, PoolType, limits
<1>3. ASSUME NEW q \in Books PROVE BookOK(q)'
  <2>1. CASE q = b
    BY <2>1
  <2>2. CASE q # b
    <3>1. /\ q \in Requests \ {b} /\ b \in Requests
          /\ asked'[q] = asked[q] /\ seen'[q] = seen[q] /\ applied'[q] = applied[q]
      BY <2>2
    <3>2. /\ pc'[q] \in LookingUp => pc[q] \in LookingUp
          /\ pc'[q] = "CacheLimits" => pc[q] = "CacheLimits"
      BY <3>1, ServedPath
    <3> QED BY <1>1, <3>1, <3>2, BookStays
  <2> QED BY <2>1, <2>2
<1>4. ASSUME NEW e \in Events PROVE EntryOK(e)'
  BY <1>1, EntryStays
<1> QED BY <1>2, <1>3, <1>4, LookupParts DEF PoolInv

\* What the cache serves was in force within the last TTL.
LEMMA CachedIsRecent ==
  ASSUME PoolInv, NEW e \in Events, Cached(e)
  PROVE  cache[e].limit \in Limits /\ cache[e].limit \in RecentLimits(e, now)
<1>1. TypeOK /\ EntryOK(e) /\ cache[e] # NoRow /\ cache[e].expires > now
  BY LookupParts DEF PoolInv, Cached
<1>2. /\ cache[e].limit \in Limits /\ cache[e].expires \in Int /\ Ttl \in Int /\ now \in Int
      /\ cache[e].limit \in LimitsSince(e, cache[e].expires - Ttl)
  BY <1>1, PoolAssumption DEF TypeOK, EntryOK
<1>3. PICK t \in Int : t = cache[e].expires - Ttl /\ now < t + Ttl
  BY <1>1, <1>2
<1>4. LimitsSince(e, t) \subseteq RecentLimits(e, now)
  BY <1>1, <1>2, <1>3, SinceIsRecent
<1> QED BY <1>2, <1>3, <1>4

\* getForEvent finds the limits in the cache, queues for a connection, or falls back.
LEMMA GetLimitsStep ==
  ASSUME PoolInv, NEW b \in Books, GetLimits(b)  PROVE PoolInv'
<1> DEFINE e == EventOf[b]
<1>0. /\ TypeOK /\ QueueInv /\ (\A q \in Books : BookOK(q)) /\ (\A x \in Events : EntryOK(x))
      /\ b \in Requests /\ e \in Events /\ now \in 0 .. MaxTime /\ now \in Int
      /\ pc[b] = "GetLimits" /\ applied[b] = NoRow
  <2>1. TypeOK /\ QueueInv /\ (\A q \in Books : BookOK(q)) /\ (\A x \in Events : EntryOK(x))
    BY LookupParts DEF PoolInv
  <2>2. pc[b] = "GetLimits"
    BY DEF GetLimits
  <2> QED BY <2>1, <2>2, PoolAssumption DEF TypeOK, BookOK, LookingUp
<1>1. /\ UNCHANGED <<now, limits, lock, cache, phase, seen, faults>>
      /\ asked' = [asked EXCEPT ![b] = now]
  BY DEF GetLimits
<1>2. Aging
  BY <1>0, <1>1, AgingStep
<1>3. /\ asked' \in [Requests -> 0 .. MaxTime] /\ seen' \in [Requests -> Limits]
      /\ faults' \in 0 .. MaxFaults /\ asked'[b] = now
      /\ \A q \in Requests \ {b} : asked'[q] = asked[q] /\ seen'[q] = seen[q]
  BY <1>0, <1>1 DEF TypeOK
<1> USE DEF Waiting, PcValues, Holding
<1>4. CASE PoolUsable /\ Connect(b, "WaitLimits") /\ UNCHANGED applied
  <2>1. PoolType' /\ QueueInv' /\ Served(b) /\ pc'[b] \in {"WaitLimits", "ReadLimits"}
    BY <1>0, <1>4, ConnectPool DEF Granted
  <2>2. BookOK(b)'
    BY <1>0, <1>1, <1>3, <1>4, <2>1 DEF BookOK
  <2>3. Looked(b) /\ Entries
    <3>1. Looked(b)
      BY <1>0, <1>1, <1>3, <1>4 DEF TypeOK, Looked, limits
    <3>2. Entries
      BY <1>0, <1>1, <1>3, <1>4 DEF Entries
    <3> QED BY <3>1, <3>2
  <2> QED BY <1>2, <2>1, <2>2, <2>3, LookupStep
<1>5. ASSUME NEW limit \in Limits, Use(b, limit), pc' = [pc EXCEPT ![b] = "Finish"],
             UNCHANGED <<held, waiters>>,
             \/ limit \in RecentLimits(e, now)
             \/ limit = HardDefault /\ phase \notin {"boot", "up"}
      PROVE  PoolInv'
  <2>1. PoolType' /\ QueueInv' /\ Served(b) /\ pc'[b] = "Finish"
    BY <1>0, <1>5, MovePool
  <2>2. /\ applied' \in [Requests -> Limits \cup {NoRow}] /\ applied'[b] = limit
        /\ \A q \in Requests \ {b} : applied'[q] = applied[q]
    BY <1>0, <1>5 DEF TypeOK, Use
  <2>3. RecentLimits(EventOf[b], asked[b])' = RecentLimits(e, now)
    BY <1>1, <1>3 DEF RecentLimits, Effective, limits
  <2>4. BookOK(b)'
    BY <1>0, <1>1, <1>3, <1>5, <2>1, <2>2, <2>3 DEF BookOK, LookingUp
  <2>5. Looked(b) /\ Entries
    <3>1. Looked(b)
      BY <1>1, <1>3, <2>2 DEF Looked, limits
    <3>2. Entries
      BY <1>1, <1>3, <2>2 DEF Entries
    <3> QED BY <3>1, <3>2
  <2> QED BY <1>2, <2>1, <2>4, <2>5, LookupStep
<1>6. CASE /\ Cached(e) /\ Use(b, cache[e].limit)
           /\ pc' = [pc EXCEPT ![b] = "Finish"] /\ UNCHANGED <<held, waiters>>
  <2>1. cache[e].limit \in Limits /\ cache[e].limit \in RecentLimits(e, now)
    BY <1>0, <1>6, CachedIsRecent
  <2> QED BY <1>5, <1>6, <2>1
<1>7. CASE /\ ~PoolUsable /\ Use(b, HardDefault)
           /\ pc' = [pc EXCEPT ![b] = "Finish"] /\ UNCHANGED <<held, waiters>>
  BY <1>5, <1>7, LimitAssumption DEF PoolUsable
<1> QED BY <1>4, <1>6, <1>7 DEF GetLimits

\* SELECT_FOR_EVENT answers what is in force.
LEMMA ReadLimitsStep ==
  ASSUME PoolInv, NEW b \in Books, ReadLimits(b)  PROVE PoolInv'
<1> DEFINE e == EventOf[b]
<1>0. /\ TypeOK /\ QueueInv /\ (\A q \in Books : BookOK(q))
      /\ b \in Requests /\ e \in Events
  BY LookupParts, PoolAssumption DEF PoolInv
<1>1. /\ UNCHANGED <<now, limits, lock, cache, phase, held, waiters, asked, applied, faults>>
      /\ seen' = [seen EXCEPT ![b] = Effective(table, e)]
      /\ pc' = [pc EXCEPT ![b] = "CacheLimits"] /\ pc[b] = "ReadLimits"
  BY DEF ReadLimits
<1>2. Aging
  BY <1>0, <1>1, AgingStep
<1>3. Effective(table, e) \in Limits
  BY <1>0, LimitAssumption DEF TypeOK, Effective
<1>4. /\ asked' \in [Requests -> 0 .. MaxTime] /\ seen' \in [Requests -> Limits]
      /\ applied' \in [Requests -> Limits \cup {NoRow}]
      /\ faults' \in 0 .. MaxFaults /\ seen'[b] = Effective(table, e)
      /\ \A q \in Requests \ {b} : seen'[q] = seen[q]
  BY <1>0, <1>1, <1>3 DEF TypeOK
<1>5. PoolType' /\ QueueInv' /\ Served(b) /\ pc'[b] = "CacheLimits"
  BY <1>0, <1>1, MovePool DEF Waiting, PcValues, Holding
<1>6. seen'[b] \in LimitsSince(EventOf[b], asked[b])'
  BY <1>1, <1>4 DEF LimitsSince, Effective, limits
<1>7. BookOK(b)'
  BY <1>0, <1>1, <1>5, <1>6 DEF BookOK, LookingUp
<1>8. Looked(b) /\ Entries
  <2>1. Looked(b)
    BY <1>1, <1>4 DEF Looked, limits
  <2>2. Entries
    BY <1>1, <1>4 DEF Entries
  <2> QED BY <2>1, <2>2
<1> QED BY <1>2, <1>5, <1>7, <1>8, LookupStep

\* The answer is cached and applied; a query that fails gives the defaults, uncached.
LEMMA CacheLimitsStep ==
  ASSUME PoolInv, NEW b \in Books, CacheLimits(b) \/ LimitsFault(b)  PROVE PoolInv'
<1> DEFINE e == EventOf[b]
<1>0. /\ TypeOK /\ QueueInv /\ (\A q \in Books : BookOK(q))
      /\ b \in Requests /\ e \in Events /\ asked[b] \in 0 .. MaxTime /\ now \in Int /\ asked[b] <= now
      /\ seen[b] \in Limits
  <2>1. TypeOK /\ QueueInv /\ (\A q \in Books : BookOK(q))
    BY LookupParts DEF PoolInv
  <2> QED BY <2>1, PoolAssumption DEF TypeOK, BookOK
<1> DEFINE limit == IF CacheLimits(b) THEN seen[b] ELSE HardDefault
<1>1. /\ UNCHANGED <<now, limits, lock, phase, asked, seen>>
      /\ applied' = [applied EXCEPT ![b] = limit] /\ Release(b, "Finish")
      /\ faults' \in {faults, faults + 1} /\ faults' \in 0 .. MaxFaults
      /\ pc[b] \in {"ReadLimits", "CacheLimits"}
  <2>1. faults \in 0 .. MaxFaults /\ MaxFaults \in Nat
    BY <1>0, PoolAssumption DEF TypeOK
  <2> QED BY <2>1 DEF CacheLimits, LimitsFault, Use
<1>2. Aging
  BY <1>0, <1>1, AgingStep
<1>3. PoolType' /\ QueueInv' /\ Served(b) /\ pc'[b] = "Finish"
  BY <1>0, <1>1, ReleasePool DEF Waiting, PcValues, Holding
<1>4. limit \in Limits
  BY <1>0, LimitAssumption
<1>5. /\ asked' \in [Requests -> 0 .. MaxTime] /\ seen' \in [Requests -> Limits]
      /\ applied' \in [Requests -> Limits \cup {NoRow}] /\ applied'[b] = limit
      /\ \A q \in Requests \ {b} : /\ asked'[q] = asked[q] /\ seen'[q] = seen[q]
                                   /\ applied'[q] = applied[q]
  BY <1>0, <1>1, <1>4 DEF TypeOK
<1>6. CASE CacheLimits(b)
  <2>1. /\ cache' = [cache EXCEPT ![e] = [limit |-> seen[b], expires |-> asked[b] + Ttl]]
        /\ pc[b] = "CacheLimits"
    BY <1>6 DEF CacheLimits, Expiry
  <2>2. PICK t \in Int : t = asked[b] /\ t <= now /\ t >= 0
    BY <1>0, PoolAssumption
  <2>3. seen[b] \in LimitsSince(e, t)
    BY <1>0, <2>1, <2>2 DEF BookOK
  <2>4. BookOK(b)'
    <3>1. seen[b] \in RecentLimits(e, t)
      BY <1>0, <2>2, <2>3, SinceIsRecent, PoolAssumption
    <3>2. RecentLimits(EventOf[b], asked[b])' = RecentLimits(e, t)
      BY <1>1, <2>2 DEF RecentLimits, Effective, limits
    <3> QED BY <1>0, <1>1, <1>3, <1>5, <1>6, <3>1, <3>2 DEF BookOK, LookingUp
  <2>5. ASSUME NEW x \in Events, cache'[x] # cache[x] PROVE Replaced(x)
    <3>1. /\ x = e /\ cache'[x].limit = seen[b] /\ cache'[x].expires = t + Ttl
          /\ Ttl \in Int
      BY <2>1, <2>2, <2>5, PoolAssumption
    <3>2. LimitsSince(x, cache[x].expires - Ttl)' = LimitsSince(e, t)
      <4>1. (t + Ttl) - Ttl = t
        BY <3>1
      <4> QED BY <1>1, <3>1, <4>1 DEF LimitsSince, Effective, limits
    <3>3. cache'[x].expires \in Ttl .. now' + Ttl
      BY <1>0, <1>1, <2>2, <3>1
    <3> QED BY <1>0, <2>3, <3>1, <3>2, <3>3 DEF EntryOK, Replaced
  <2>6. Looked(b) /\ Entries
    <3>1. Looked(b)
      BY <1>1, <1>5, <2>5 DEF Looked, limits
    <3>2. Entries
      BY <1>1, <1>5, <2>5 DEF Entries
    <3> QED BY <3>1, <3>2
  <2> QED BY <1>2, <1>3, <2>4, <2>6, LookupStep
<1>7. CASE ~CacheLimits(b)
  <2>1. /\ cache' = cache /\ faults' = faults + 1 /\ limit = HardDefault
        /\ faults \in Nat
    BY <1>0, <1>7, PoolAssumption DEF LimitsFault, KeepCache, TypeOK
  <2>2. BookOK(b)'
    BY <1>0, <1>1, <1>3, <1>5, <2>1 DEF BookOK, LookingUp
  <2>3. Looked(b) /\ Entries
    <3>1. Looked(b)
      BY <1>1, <1>5, <2>1 DEF Looked, limits
    <3>2. Entries
      BY <1>1, <1>5, <2>1 DEF Entries
    <3> QED BY <3>1, <3>2
  <2> QED BY <1>2, <1>3, <2>2, <2>3, LookupStep
<1> QED BY <1>6, <1>7

\* The signal, the end of the pool and the clock: no handler runs.
LEMMA ProcessStep ==
  ASSUME PoolInv, Boot \/ Sigterm \/ ClosePostgresPool \/ Tick  PROVE PoolInv'
<1>0. /\ TypeOK /\ QueueInv /\ (\A b \in Books : BookOK(b)) /\ (\A e \in Events : EntryOK(e))
  BY LookupParts DEF PoolInv
<1>1. /\ UNCHANGED <<limits, lock, cache, held, pc, local, faults>>
      /\ waiters' \in {waiters, <<>>} /\ now' \in {now, now + 1} /\ now' \in 0 .. MaxTime
      /\ phase' \in Phases
      /\ phase \notin {"boot", "up"} => phase' \notin {"boot", "up"}
  <2>1. now \in 0 .. MaxTime /\ MaxTime \in Nat /\ phase \in Phases
    BY <1>0, PoolAssumption DEF TypeOK
  <2> QED BY <2>1 DEF Boot, Sigterm, ClosePostgresPool, Tick, Phases
<1>2. Aging
  BY <1>0, <1>1, AgingStep
<1>3. FreeConnections' = FreeConnections
  BY <1>1, FreeIsSum
<1>4. waiters' \in Seq(Requests) /\ (waiters' # waiters => DOMAIN waiters' = {})
  <2>1. <<>> \in Seq(Requests) /\ DOMAIN <<>> = {}
    BY EmptySeq, LenProperties
  <2> QED BY <1>0, <1>1, <2>1 DEF TypeOK
<1>5. TypeOK'
  BY <1>0, <1>1, <1>3, <1>4 DEF TypeOK, limits, local
<1>6. QueueInv'
  BY <1>0, <1>1, <1>4 DEF QueueInv
<1>7. ASSUME NEW b \in Books PROVE BookOK(b)'
  <2>1. asked'[b] = asked[b] /\ seen'[b] = seen[b] /\ applied'[b] = applied[b] /\ pc'[b] = pc[b]
    BY <1>1 DEF local
  <2> QED BY <1>0, <1>2, <2>1, BookStays
<1>8. ASSUME NEW e \in Events PROVE EntryOK(e)'
  BY <1>0, <1>1, <1>2, EntryStays
<1> QED BY <1>5, <1>6, <1>7, <1>8, LookupParts DEF PoolInv

\* process.exit drops whatever still runs.
LEMMA ExitStep ==
  ASSUME PoolInv, Exit  PROVE PoolInv'
<1>0. /\ TypeOK /\ QueueInv /\ (\A b \in Books : BookOK(b)) /\ (\A e \in Events : EntryOK(e))
  BY LookupParts DEF PoolInv
<1>1. /\ UNCHANGED <<now, limits, cache, local, faults>> /\ phase' = "exited"
      /\ pc' = [r \in Requests |-> "Done"] /\ held' = [r \in Requests |-> 0]
      /\ waiters' = <<>> /\ lock' = [e \in Events |-> Nobody]
  BY DEF Exit
<1>2. Aging
  BY <1>0, <1>1, AgingStep
<1>3. FreeConnections' = PoolMax
  <2>1. SumOver(held', Requests) = 0
    BY <1>1, FiniteAssumption, SumZeros
  <2> QED BY <2>1, FreeIsSum, PoolAssumption
<1>4. waiters' \in Seq(Requests) /\ DOMAIN waiters' = {}
  BY <1>1, EmptySeq, LenProperties
<1>5. TypeOK'
  BY <1>0, <1>1, <1>3, <1>4, PoolAssumption DEF TypeOK, limits, local, Phases, PcValues
<1>6. QueueInv'
  BY <1>1, <1>4 DEF QueueInv, Holding
<1>7. ASSUME NEW b \in Books PROVE BookOK(b)'
  <2>1. asked'[b] = asked[b] /\ seen'[b] = seen[b] /\ applied'[b] = applied[b] /\ pc'[b] = "Done"
    BY <1>1 DEF local
  <2> QED BY <1>0, <1>2, <2>1, BookStays DEF LookingUp
<1>8. ASSUME NEW e \in Events PROVE EntryOK(e)'
  BY <1>0, <1>1, <1>2, EntryStays
<1> QED BY <1>5, <1>6, <1>7, <1>8, LookupParts DEF PoolInv

\* Somebody changes the limits.
LEMMA ReconfigureStep ==
  ASSUME PoolInv, Reconfigure  PROVE PoolInv'
<1>0. /\ TypeOK /\ QueueInv /\ (\A b \in Books : BookOK(b)) /\ (\A e \in Events : EntryOK(e))
  BY LookupParts DEF PoolInv
<1>1. UNCHANGED <<now, lock, cache, phase, held, waiters, pc, local, faults>>
  BY DEF Reconfigure
<1>2. Aging
  BY <1>0, <1>1, SinceReconfigured DEF Aging, TypeOK
<1>3. FreeConnections' = FreeConnections
  BY <1>1, FreeIsSum
<1>4. TypeOK'
  BY <1>0, <1>1, <1>3, SinceReconfigured DEF TypeOK, local
<1>5. QueueInv'
  BY <1>0, <1>1 DEF QueueInv
<1>6. ASSUME NEW b \in Books PROVE BookOK(b)'
  <2>1. asked'[b] = asked[b] /\ seen'[b] = seen[b] /\ applied'[b] = applied[b] /\ pc'[b] = pc[b]
    BY <1>1 DEF local
  <2> QED BY <1>0, <1>2, <2>1, BookStays
<1>7. ASSUME NEW e \in Events PROVE EntryOK(e)'
  BY <1>0, <1>1, <1>2, EntryStays
<1> QED BY <1>4, <1>5, <1>6, <1>7, LookupParts DEF PoolInv

-----------------------------------------------------------------------------
(* The theorems *)

\* A process that boots has its pool and its cache empty.
LEMMA PoolInit == Init => PoolInv
<1> SUFFICES ASSUME Init PROVE PoolInv
  OBVIOUS
<1> USE DEF Init
<1>1. FreeConnections = PoolMax
  <2>1. SumOver(held, Requests) = 0
    BY FiniteAssumption, SumZeros
  <2> QED BY <2>1, FreeIsSum, PoolAssumption
<1>2. waiters \in Seq(Requests) /\ DOMAIN waiters = {}
  BY EmptySeq, LenProperties
<1>3. TypeOK
  BY <1>1, <1>2, PoolAssumption, LimitAssumption DEF TypeOK, Phases, PcValues
<1>4. QueueInv
  BY <1>2 DEF QueueInv, Holding
<1>5. LookupInv /\ LimitsAtMostTtlOld
  BY DEF LookupInv, LimitsAtMostTtlOld
<1> QED BY <1>3, <1>4, <1>5 DEF PoolInv

\* Every step keeps the invariant.
LEMMA PoolStep == PoolInv /\ [Next]_vars => PoolInv'
<1> SUFFICES ASSUME PoolInv, [Next]_vars PROVE PoolInv'
  OBVIOUS
<1>1. ASSUME NEW b \in Books, BeginBooking(b) \/ BookStep(b) \/ LimitsFault(b) PROVE PoolInv'
  BY <1>1, HandlerStep, GetLimitsStep, ReadLimitsStep, CacheLimitsStep DEF BookStep
<1>2. ASSUME NEW p \in Probes, BeginProbe(p) \/ ProbeStep(p) PROVE PoolInv'
  BY <1>2, HandlerStep DEF ProbeStep
<1>3. CASE UNCHANGED vars
  BY <1>3 DEF vars, PoolInv, TypeOK, QueueInv, LookupInv, LimitsAtMostTtlOld, FreeConnections,
              MapThenSumSet, MapThenFoldSet, RecentLimits, LimitsSince, Effective
<1> QED BY <1>1, <1>2, <1>3, ProcessStep, ExitStep, ReconfigureStep DEF Next

\* In every reachable state the pool's books are right, and what the cache keeps, a lookup
\* has read or a booking has applied is no older than the lookup allows.
THEOREM AlwaysPoolInv == Spec => []PoolInv
BY PoolInit, PoolStep, PTL DEF Spec

\* Every variable keeps its shape, and connect() and release() never let more connections
\* out than DB_POOL_MAX, whatever requests, faults and signals come.
THEOREM PoolNeverOverdrawn == Spec => []TypeOK
<1>1. PoolInv => TypeOK
  BY DEF PoolInv
<1> QED BY <1>1, AlwaysPoolInv, PTL

\* getForEvent applies limits of the last TTL, or falls back for a reason.
THEOREM LimitsNeverOld == Spec => []LimitsAtMostTtlOld
<1>1. PoolInv => LimitsAtMostTtlOld
  BY DEF PoolInv
<1> QED BY <1>1, AlwaysPoolInv, PTL

\* What the Map of the repository serves was in event_booking_config; the defaults of a
\* failing query never get into it.
THEOREM CacheNeverInvents == Spec => []CacheComesFromTable
<1>1. ASSUME PoolInv PROVE CacheComesFromTable
  <2> SUFFICES ASSUME NEW e \in Events, Cached(e)
               PROVE  cache[e].limit \in RecentLimits(e, cache[e].expires - Ttl)
    BY DEF CacheComesFromTable
  <2>1. TypeOK /\ EntryOK(e)
    BY <1>1, LookupParts DEF PoolInv
  <2>2. /\ cache[e].expires \in Ttl .. now + Ttl /\ now \in Int /\ Ttl \in Nat \ {0}
        /\ cache[e].limit \in LimitsSince(e, cache[e].expires - Ttl)
    BY <2>1, PoolAssumption DEF EntryOK, TypeOK, Cached
  <2>3. PICK t \in Int : t = cache[e].expires - Ttl /\ t < t + Ttl
    BY <2>2
  <2> QED BY <2>1, <2>2, <2>3, SinceIsRecent
<1> QED BY <1>1, AlwaysPoolInv, PTL
\* DefaultsHaveCause: a booking is judged by the hard-coded limits for a failure of its own
\* lookup only, a query that fails now or a closing pool without a cached answer.
THEOREM DefaultsNeverLeak == Spec => DefaultsHaveCause
<1>1. ASSUME PoolInv, [Next]_vars, NEW b \in Books, applied'[b] # applied[b],
             applied'[b] \notin RecentLimits(EventOf[b], asked'[b])
      PROVE  /\ applied'[b] = HardDefault
             /\ \/ pc[b] = "ReadLimits" /\ faults' = faults + 1
                \/ pc[b] = "GetLimits" /\ phase = "ending" /\ ~Cached(EventOf[b])
  <2> DEFINE e == EventOf[b]
  <2>0. /\ TypeOK /\ BookOK(b) /\ b \in Requests /\ e \in Events
        /\ asked \in [Requests -> 0 .. MaxTime] /\ applied \in [Requests -> Limits \cup {NoRow}]
        /\ now \in Int /\ asked[b] \in Int /\ Ttl \in Nat \ {0}
    BY <1>1, LookupParts, PoolAssumption DEF PoolInv, TypeOK
  <2>1. \E q \in Books : GetLimits(q) \/ CacheLimits(q) \/ LimitsFault(q)
    BY <1>1 DEF Next, BookStep, ProbeStep, vars, local, BeginBooking, LockEvent, ReadLimits,
                Finish, BeginProbe, Ping, CheckRedis, Boot, Sigterm, ClosePostgresPool, Exit,
                Reconfigure, Tick
  <2>2. PICK q \in Books : GetLimits(q) \/ CacheLimits(q) \/ LimitsFault(q)
    BY <2>1
  <2>3. q = b
    <3>1. q \in Requests /\ \E limit : applied' \in {applied, [applied EXCEPT ![q] = limit]}
      BY <2>2 DEF GetLimits, CacheLimits, LimitsFault, Use
    <3> QED BY <1>1, <2>0, <3>1
  <2>4. CASE GetLimits(b)
    <3>1. asked'[b] = now
      BY <2>0, <2>4 DEF GetLimits
    <3>2. CASE Cached(e)
      <4>1. applied'[b] = cache[e].limit
        BY <2>0, <2>4, <3>2 DEF GetLimits, Use
      <4> QED BY <1>1, <2>0, <3>1, <3>2, <4>1, CachedIsRecent
    <3>3. CASE ~Cached(e)
      <4>1. /\ ~PoolUsable /\ applied' = [applied EXCEPT ![b] = HardDefault]
            /\ pc[b] = "GetLimits"
        BY <1>1, <2>4, <3>3 DEF GetLimits, Use
      <4> QED BY <2>0, <3>3, <4>1 DEF PoolUsable
    <3> QED BY <3>2, <3>3
  <2>5. CASE CacheLimits(b)
    <3>1. /\ applied'[b] = seen[b] /\ asked'[b] = asked[b] /\ pc[b] = "CacheLimits"
      BY <2>0, <2>5 DEF CacheLimits, Use
    <3>2. seen[b] \in LimitsSince(e, asked[b])
      BY <2>0, <3>1 DEF BookOK
    <3>3. LimitsSince(e, asked[b]) \subseteq RecentLimits(e, asked[b])
      BY <2>0, SinceIsRecent
    <3> QED BY <1>1, <3>1, <3>2, <3>3
  <2>6. CASE LimitsFault(b)
    BY <2>0, <2>6 DEF LimitsFault, Use
  <2> QED BY <2>2, <2>3, <2>4, <2>5, <2>6
<1>2. PoolInv /\ [Next]_vars =>
         [\A b \in Books :
             applied'[b] # applied[b] /\ applied'[b] \notin RecentLimits(EventOf[b], asked'[b]) =>
                /\ applied'[b] = HardDefault
                /\ \/ pc[b] = "ReadLimits" /\ faults' = faults + 1
                   \/ pc[b] = "GetLimits" /\ phase = "ending" /\ ~Cached(EventOf[b])]_vars
  BY <1>1
<1> QED BY <1>2, AlwaysPoolInv, PTL DEF Spec, DefaultsHaveCause
===============================================================================
