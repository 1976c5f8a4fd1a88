---------------------------- MODULE BookingProofs ----------------------------
(***************************************************************************)
(* Proofs, for every instance, that the seat-selling core keeps its types, *)
(* never overbooks and always succeeds in reserving what it has validated. *)
(* The steps fall into four classes: those outside a transaction, those    *)
(* that abandon one, those that commit one, and those inside one.          *)
(***************************************************************************)
EXTENDS BookingProperties, TLAPS

USE DEF Requests

\* What a step of r leaves alone of the other requests.
Others(r) == \A q \in Requests \ {r} :
                /\ pc'[q] = pc[q] /\ reply'[q] = reply[q]
                /\ view'[q] = view[q] /\ tx'[q] = tx[q]

-----------------------------------------------------------------------------
(* Lemmas on the operators *)

\* What validateBookingRules answers, and what it has established when it passes.
LEMMA VerdictFact ==
  ASSUME NEW r \in Books
  PROVE  /\ Verdict(r) \in {"NotPublished", "SoldOut", "PerBooking", "PerUser", "none"}
         /\ Verdict(r) = "none" =>
               view[r].status = "published" /\ ~(Remaining(view[r]) < Tickets[r])
<1>1. CASE view[r].status # "published"  BY <1>1 DEF Verdict
<1>2. CASE view[r].status = "published" /\ Remaining(view[r]) < Tickets[r]  BY <1>2 DEF Verdict
<1>3. CASE view[r].status = "published" /\ ~(Remaining(view[r]) < Tickets[r])
  BY <1>3 DEF Verdict
<1>. QED  BY <1>1, <1>2, <1>3

\* Ending a transaction frees its locks, and no others.
LEMMA EndTxFact ==
  ASSUME TypeOK, NEW r \in Requests, EndTx(r)
  PROVE  /\ eventLock' \in [Events -> Requests \cup {Nobody}]
         /\ bookingLock' \in [Books -> Requests \cup {Nobody}]
         /\ tx' \in [Requests -> TxRecord] /\ tx'[r] = NoTx
         /\ \A q \in Requests \ {r} : tx'[q] = tx[q]
         /\ \A e \in Events : eventLock'[e] = IF eventLock[e] = r THEN Nobody ELSE eventLock[e]
         /\ \A b \in Books : bookingLock'[b] = IF bookingLock[b] = r THEN Nobody ELSE bookingLock[b]
<1>1. NoTx \in TxRecord  BY DEF NoTx, TxRecord
<1>. QED  BY <1>1 DEF EndTx, EventUnlocked, BookingUnlocked, TypeOK

\* Setting one field of the pending writes.
LEMMA TxAudit ==
  ASSUME NEW t \in TxRecord, NEW o \in Outcomes
  PROVE  [t EXCEPT !.audit = {o}] \in TxRecord /\ [t EXCEPT !.audit = {o}].row = t.row
         /\ [t EXCEPT !.audit = {o}].booking = t.booking
BY DEF TxRecord

\* Setting the row and the status of the booking.
LEMMA TxBooking ==
  ASSUME NEW t \in TxRecord, NEW row \in Row, NEW b \in {"none", "confirmed", "cancelled"}
  PROVE  /\ [t EXCEPT !.booking = b, !.row = row] \in TxRecord
         /\ [t EXCEPT !.booking = b, !.row = row].row = row
         /\ [t EXCEPT !.booking = b, !.row = row].booking = b
BY DEF TxRecord

\* Setting the row and a success row of the audit log.
LEMMA TxRow ==
  ASSUME NEW t \in TxRecord, NEW row \in Row
  PROVE  /\ [t EXCEPT !.row = row, !.audit = {"success"}] \in TxRecord
         /\ [t EXCEPT !.row = row, !.audit = {"success"}].row = row
         /\ [t EXCEPT !.row = row, !.audit = {"success"}].booking = t.booking
<1>. {"success"} \in SUBSET Outcomes  BY DEF Outcomes
<1>. QED  BY DEF TxRecord

-----------------------------------------------------------------------------
(* The initial states *)

\* The inductive invariant holds of every database and every Redis the service may start on.
THEOREM InitInv == Init => IInv
<1> SUFFICES ASSUME Init PROVE IInv  OBVIOUS
<1> USE RequestAssumption, LimitAssumption, InitAssumption, NullAssumption
<1>1. TypeOK
  BY DEF Init, TypeOK, NoTx, TxRecord, Outcomes, Answers, PcValues
<1>2. PcFits /\ LocksOwned /\ LocksHeld /\ RowsRead /\ ViewIsCurrent
  BY DEF Init, PcFits, LocksOwned, LocksHeld, RowsRead, ViewIsCurrent, EventLocked, PreTx, InTx
<1>3. NotYetBooked /\ PendingWrites /\ NoOverbooking /\ ReserveNeverRefuses
  BY DEF Init, NotYetBooked, PendingWrites, NoOverbooking, ReserveNeverRefuses, PreTx, InTx
<1>. QED  BY <1>1, <1>2, <1>3 DEF IInv

-----------------------------------------------------------------------------
(* Steps outside a transaction *)

\* A step of a request that is in no transaction touches no row, lock or pending
\* write; all it can do is move on along its own path.
LEMMA OutsideStep ==
  ASSUME NEW r \in Requests, IInv, TypeOK', Others(r),
         UNCHANGED <<events, bookings, eventLock, bookingLock, tx>>,
         pc[r] \notin InTx \cup {"Rollback"},
         pc'[r] = "Done" \/ ( /\ pc[r] \in PreTx \cup {"Idle"}
                              /\ \/ r \in Books /\ pc'[r] \in PreTx \cup {"LockEvent"}
                                 \/ r \in Cancels /\ pc'[r] = "LockBooking"
                                 \/ r \in Updates /\ pc'[r] = "ReadRow" ),
         pc'[r] \in {"SetNx", "Heal"} => view'[r] # NoRow,
         reply'[r] # "Unreserved"
  PROVE  IInv'
<1> USE RequestAssumption, NullAssumption DEF IInv, Others
<1>1. PcFits'  BY DEF TypeOK, PcFits, PreTx
<1>2. LocksOwned'
  <2>1. \A q \in Requests : pc[q] \in InTx \cup {"Rollback"} => pc'[q] = pc[q]
    OBVIOUS
  <2>2. EventLocked \cup {"LockEvent", "CancelWrites", "ReturnSeats", "Commit", "Rollback"}
           \subseteq InTx \cup {"Rollback"}
    BY DEF EventLocked, InTx
  <2>3. ASSUME NEW e \in Events, eventLock[e] # Nobody
        PROVE  EventOf[eventLock[e]] = e /\ pc'[eventLock[e]] \in EventLocked \cup {"Rollback"}
    <3>1. /\ eventLock[e] \in Requests /\ EventOf[eventLock[e]] = e
          /\ pc[eventLock[e]] \in EventLocked \cup {"Rollback"}
      BY <2>3 DEF TypeOK, LocksOwned
    <3>. QED  BY <2>1, <2>2, <3>1
  <2>4. ASSUME NEW b \in Books, bookingLock[b] # Nobody
        PROVE  /\ bookingLock[b] \in Cancels /\ Target[bookingLock[b]] = b
               /\ pc'[bookingLock[b]] \in {"LockEvent", "CancelWrites", "ReturnSeats",
                                           "Commit", "Rollback"}
    <3>1. /\ bookingLock[b] \in Cancels /\ Target[bookingLock[b]] = b
          /\ pc[bookingLock[b]] \in {"LockEvent", "CancelWrites", "ReturnSeats",
                                     "Commit", "Rollback"}
      BY <2>4 DEF LocksOwned
    <3>. QED  BY <2>1, <2>2, <3>1
  <2>. QED  BY <2>3, <2>4 DEF LocksOwned
<1>3. LocksHeld'  BY DEF TypeOK, LocksHeld, EventLocked, PreTx
<1>4. RowsRead'  BY DEF TypeOK, RowsRead, EventLocked, PreTx
<1>5. ViewIsCurrent'  BY DEF TypeOK, ViewIsCurrent, PreTx
<1>6. NotYetBooked'  BY DEF TypeOK, NotYetBooked, PreTx, InTx
<1>7. PendingWrites'
  <2> SUFFICES ASSUME NEW q \in Requests
               PROVE  /\ pc'[q] \in {"Insert", "ReturnSeats", "Commit"} => pc'[q] = pc[q]
                      /\ pc'[q] \in PreTx \cup {"Idle"} \cup (InTx \ {"Insert", "ReturnSeats", "Commit"})
                           => tx[q] = NoTx
    BY DEF PendingWrites
  <2>. QED  BY DEF TypeOK, PendingWrites, PreTx, InTx
<1>8. NoOverbooking'  BY DEF NoOverbooking
<1>9. ReserveNeverRefuses'  BY DEF TypeOK, ReserveNeverRefuses
<1>. QED  BY <1>1, <1>2, <1>3, <1>4, <1>5, <1>6, <1>7, <1>8, <1>9

\* ensureRedisSynced, the Redis filter and the answers before the transaction.
LEMMA BeforeTxInv ==
  ASSUME NEW r \in Requests, IInv,
         \/ Start(r)
         \/ r \in Books /\ ( \/ KeyExists(r) \/ SyncRead(r) \/ SetNx(r) \/ Decr(r)
                             \/ Recheck(r) \/ Heal(r) \/ Undo(r) \/ DelKey(r) )
  PROVE  IInv'
<1> USE RequestAssumption, LimitAssumption, NullAssumption
    DEF IInv, Others, Goto, Answer, db, locks, local, SetKey, KeyValue
<1>1. CASE Start(r)
  <2>1. TypeOK'  BY <1>1 DEF Start, TypeOK, PcValues, PreTx, InTx, TxStart
  <2>2. \/ r \in Books /\ pc'[r] = "Exists"
        \/ r \in Cancels /\ pc'[r] = "LockBooking"
        \/ r \in Updates /\ pc'[r] = "ReadRow"
    BY <1>1 DEF Start, TypeOK, TxStart
  <2>3. reply'[r] # "Unreserved"  BY <1>1 DEF Start, TypeOK, ReserveNeverRefuses, PendingWrites
  <2>. QED  BY <1>1, <2>1, <2>2, <2>3, OutsideStep DEF Start, TypeOK, PreTx, InTx
<1>2. CASE r \in Books /\ KeyExists(r)
  <2>1. TypeOK'  BY <1>2 DEF KeyExists, TypeOK, PcValues, PreTx
  <2>. QED  BY <1>2, <2>1, OutsideStep DEF KeyExists, TypeOK, PreTx, InTx, ReserveNeverRefuses
<1>3. CASE r \in Books /\ SyncRead(r)
  <2>1. CASE events[EventOf[r]] = NoRow
    <3>0. /\ pc[r] = "SyncRead" /\ pc' = [pc EXCEPT ![r] = "Done"]
          /\ reply' = [reply EXCEPT ![r] = "NotFound"]
          /\ UNCHANGED <<events, bookings, audit, eventLock, bookingLock, spots, view, retries, tx, faults>>
      BY <1>3, <2>1 DEF SyncRead
    <3>1. TypeOK'  BY <3>0 DEF TypeOK, PcValues, Answers
    <3>. QED  BY <3>0, <3>1, OutsideStep DEF TypeOK, PreTx, InTx
  <2>2. CASE events[EventOf[r]] # NoRow
    <3>0. /\ pc[r] = "SyncRead" /\ pc' = [pc EXCEPT ![r] = "SetNx"]
          /\ view' = [view EXCEPT ![r] = events[EventOf[r]]]
          /\ UNCHANGED <<events, bookings, audit, eventLock, bookingLock, spots, retries, reply, tx, faults>>
      BY <1>3, <2>2 DEF SyncRead
    <3>1. TypeOK'  BY <3>0 DEF TypeOK, PcValues, PreTx
    <3>. QED  BY <1>3, <2>2, <3>0, <3>1, OutsideStep DEF TypeOK, PreTx, InTx, ReserveNeverRefuses
  <2>. QED  BY <2>1, <2>2
<1>4. CASE r \in Books /\ SetNx(r)
  <2>1. TypeOK'  BY <1>4 DEF SetNx, SyncedSpots, Remaining, TypeOK, PcValues, PreTx, RowsRead, Row
  <2>. QED  BY <1>4, <2>1, OutsideStep DEF SetNx, TypeOK, PreTx, InTx, ReserveNeverRefuses
<1>5. CASE r \in Books /\ Decr(r)
  <2>1. TypeOK'  BY <1>5 DEF Decr, DecrBy, TicketsOf, TypeOK, PcValues, PreTx, InTx
  <2>. QED  BY <1>5, <2>1, OutsideStep DEF Decr, TypeOK, PreTx, InTx, ReserveNeverRefuses
<1>6. CASE r \in Books /\ Recheck(r)
  <2>1. TypeOK'  BY <1>6 DEF Recheck, TypeOK, PcValues, PreTx
  <2>. QED  BY <1>6, <2>1, OutsideStep DEF Recheck, TypeOK, PreTx, InTx, ReserveNeverRefuses
<1>7. CASE r \in Books /\ Heal(r)
  <2>1. TypeOK'  BY <1>7 DEF Heal, HealedSpots, Remaining, TypeOK, PcValues, InTx, RowsRead, Row
  <2>. QED  BY <1>7, <2>1, OutsideStep DEF Heal, TypeOK, PreTx, InTx, ReserveNeverRefuses
<1>8. CASE r \in Books /\ Undo(r)
  <2>1. TypeOK'  BY <1>8 DEF Undo, IncrBy, TicketsOf, TypeOK, PcValues, Answers
  <2>. QED  BY <1>8, <2>1, OutsideStep DEF Undo, TypeOK, PreTx, InTx
<1>9. CASE r \in Books /\ DelKey(r)
  <2>1. TypeOK'  BY <1>9 DEF DelKey, TypeOK, PcValues, Answers
  <2>. QED  BY <1>9, <2>1, OutsideStep DEF DelKey, TypeOK, PreTx, InTx
<1>. QED  BY <1>1, <1>2, <1>3, <1>4, <1>5, <1>6, <1>7, <1>8, <1>9

\* Any Redis command leaves the counters integers, or keys missing.
LEMMA EffectType ==
  ASSUME NEW r \in Requests, IInv, pc[r] \in RedisSteps
  PROVE  RedisEffect(r) \in [Events -> Int \cup {Missing}]
<1> USE RequestAssumption, NullAssumption DEF IInv, SetKey, KeyValue, TypeOK
<1>1. r \in Books \cup Cancels  BY DEF RedisSteps, PcFits, PreTx
<1>2. TicketsOf(r) \in Nat  BY <1>1 DEF TicketsOf
<1>3. pc[r] \in {"Decr", "Heal", "SetNx"} => r \in Books  BY DEF PcFits, PreTx
<1>4. pc[r] \in {"Heal", "SetNx"} => Remaining(view[r]) \in Int
  BY DEF Remaining, RowsRead, Row
<1>. QED
  BY <1>1, <1>2, <1>3, <1>4 DEF RedisEffect, SyncedSpots, DecrBy, HealedSpots, IncrBy

\* What follows the transaction, and the reads and Redis commands that fail outside it.
LEMMA AfterTxInv ==
  ASSUME NEW r \in Requests, IInv,
         \/ r \in Books /\ GiveBack(r)
         \/ DeadCommit(r)
         \/ ReadFault(r)
         \/ RedisFault(r) /\ pc[r] # "ReturnSeats"
  PROVE  IInv'
<1> USE RequestAssumption, LimitAssumption, NullAssumption
    DEF IInv, Others, Goto, Answer, db, locks, local, SetKey, KeyValue
<1>1. CASE r \in Books /\ GiveBack(r)
  <2>1. TypeOK'  BY <1>1 DEF GiveBack, IncrBy, TicketsOf, TypeOK, PcValues
  <2>. QED  BY <1>1, <2>1, OutsideStep DEF GiveBack, TypeOK, InTx, ReserveNeverRefuses
<1>2. CASE DeadCommit(r)
  <2>1. TypeOK'  BY <1>2 DEF DeadCommit, Success, TypeOK, PcValues, Answers
  <2>. QED  BY <1>2, <2>1, OutsideStep DEF DeadCommit, Success, TypeOK, InTx
<1>3. CASE ReadFault(r)
  <2>1. TypeOK'  BY <1>3 DEF ReadFault, Fault, TypeOK, PcValues, Answers
  <2>. QED  BY <1>3, <2>1, OutsideStep DEF ReadFault, Fault, TypeOK, InTx
<1>4. CASE RedisFault(r) /\ pc[r] # "ReturnSeats"
  <2>1. r \in Books  BY <1>4 DEF RedisFault, RedisSteps, PcFits, PreTx
  <2>2. RedisEffect(r) \in [Events -> Int \cup {Missing}]
    BY <1>4, EffectType DEF RedisFault
  <2>3. /\ pc[r] \in RedisSteps \ {"ReturnSeats"}
        /\ pc' = [pc EXCEPT ![r] = "Done"] /\ reply' = [reply EXCEPT ![r] = "Error"]
        /\ spots' \in [Events -> Int \cup {Missing}]
        /\ faults' \in 0 .. MaxFaults
        /\ UNCHANGED <<events, bookings, audit, eventLock, bookingLock, view, retries, tx>>
    BY <1>4, <2>2 DEF RedisFault, Fault, TypeOK
  <2>4. TypeOK'  BY <2>3 DEF TypeOK, PcValues, Answers
  <2>. QED  BY <2>3, <2>4, OutsideStep DEF RedisSteps, TypeOK, InTx
<1>. QED  BY <1>1, <1>2, <1>3, <1>4

-----------------------------------------------------------------------------
(* Steps that abandon a transaction *)

\* A transaction that ends without COMMIT changes no row and frees its locks; a
\* request that may run it again has not booked.
LEMMA AbandonStep ==
  ASSUME NEW r \in Requests, IInv, TypeOK', EndTx(r), Others(r),
         UNCHANGED <<events, bookings>>,
         \/ pc'[r] \in {"Done", "DeadCommit", "Rollback"}
         \/ pc'[r] = "GiveBack" /\ r \in Books
         \/ pc'[r] = TxStart(r),
         r \in Books /\ (pc'[r] = TxStart(r) \/ (pc'[r] = "Rollback" /\ reply'[r] = "Deadlock"))
             => bookings[r] = "none",
         reply'[r] # "Unreserved"
  PROVE  IInv'
<1> USE RequestAssumption, NullAssumption DEF IInv, Others
<1>0. /\ tx'[r] = NoTx
      /\ \A e \in Events : eventLock'[e] = IF eventLock[e] = r THEN Nobody ELSE eventLock[e]
      /\ \A b \in Books : bookingLock'[b] = IF bookingLock[b] = r THEN Nobody ELSE bookingLock[b]
  BY EndTxFact
<1>1. PcFits'  BY DEF TypeOK, PcFits, PreTx, TxStart
<1>2. LocksOwned'  BY <1>0 DEF TypeOK, LocksOwned, EventLocked
<1>3. LocksHeld'
  <2> SUFFICES ASSUME NEW q \in Requests
               PROVE  /\ pc'[q] \in EventLocked => pc'[q] = pc[q] /\ q # r
                      /\ q \in Cancels /\ pc'[q] = "LockEvent" => pc'[q] = pc[q] /\ q # r
    BY <1>0 DEF TypeOK, LocksHeld, EventLocked
  <2>1. CASE q = r  BY <2>1 DEF TypeOK, EventLocked, TxStart
  <2>2. CASE q # r  BY <2>2
  <2>. QED  BY <2>1, <2>2
<1>4. RowsRead'  BY DEF TypeOK, RowsRead, EventLocked, TxStart
<1>5. ViewIsCurrent'  BY DEF TypeOK, ViewIsCurrent, TxStart
<1>6. NotYetBooked'
  <2> SUFFICES ASSUME NEW b \in Books,
                      \/ pc'[b] \in PreTx \cup InTx \cup {"Idle"}
                      \/ pc'[b] = "Rollback" /\ reply'[b] = "Deadlock"
               PROVE  bookings[b] = "none"
    BY DEF NotYetBooked
  <2>1. CASE b = r
    <3>1. CASE pc'[r] = TxStart(r)  BY <2>1, <3>1
    <3>2. CASE pc'[r] = "Rollback"  BY <2>1, <3>2 DEF PreTx, InTx
    <3>3. CASE pc'[r] \in {"Done", "DeadCommit", "GiveBack"}  BY <2>1, <3>3 DEF PreTx, InTx
    <3>. QED  BY <3>1, <3>2, <3>3
  <2>2. CASE b # r  BY <2>2 DEF NotYetBooked
  <2>. QED  BY <2>1, <2>2
<1>7. PendingWrites'
  <2> SUFFICES ASSUME NEW q \in Requests
               PROVE  /\ pc'[q] \in {"Insert", "ReturnSeats", "Commit"} => pc'[q] = pc[q] /\ q # r
                      /\ pc'[q] \in PreTx \cup {"Idle"} \cup (InTx \ {"Insert", "ReturnSeats", "Commit"})
                           => tx'[q] = NoTx
    BY DEF PendingWrites
  <2>. QED  BY <1>0 DEF TypeOK, PendingWrites, PreTx, InTx, TxStart
<1>8. NoOverbooking'  BY DEF NoOverbooking
<1>9. ReserveNeverRefuses'  BY DEF TypeOK, ReserveNeverRefuses
<1>. QED  BY <1>1, <1>2, <1>3, <1>4, <1>5, <1>6, <1>7, <1>8, <1>9

\* ROLLBACK and retry, statements and audit rows that fail, lost COMMITs, crashes.
LEMMA AbandonInv ==
  ASSUME NEW r \in Requests, IInv,
         \/ Rollback(r)
         \/ StatementFault(r)
         \/ AuditFault(r)
         \/ RollbackFault(r)
         \/ Crash(r)
         \/ CommitFault(r) /\ UNCHANGED db /\ EndTx(r)
  PROVE  IInv'
<1> USE RequestAssumption, LimitAssumption, NullAssumption
    DEF IInv, Others, Goto, Answer, Throw, Fault, db, locks, local
<1>0. EndTx(r)
  BY DEF Rollback, StatementFault, AuditFault, RollbackFault, Crash
<1>1. /\ eventLock' \in [Events -> Requests \cup {Nobody}]
      /\ bookingLock' \in [Books -> Requests \cup {Nobody}]
      /\ tx' \in [Requests -> TxRecord]
      /\ \A q \in Requests \ {r} : tx'[q] = tx[q]
  BY <1>0, EndTxFact
<1>2. CASE Rollback(r)
  <2>1. CASE MayRetry(r)
    <3>0. /\ pc' = [pc EXCEPT ![r] = TxStart(r)]
          /\ retries' = [retries EXCEPT ![r] = retries[r] + 1]
          /\ reply' = [reply EXCEPT ![r] = "none"]
          /\ retries[r] < Attempts - 1
          /\ UNCHANGED <<events, bookings, audit, spots, view, faults>>
      BY <1>2, <2>1 DEF Rollback, MayRetry
    <3>1. TypeOK'
      <4>1. pc' \in [Requests -> PcValues]  BY <3>0 DEF TypeOK, PcValues, InTx, TxStart
      <4>2. retries' \in [Requests -> 0 .. Attempts - 1]  BY <3>0 DEF TypeOK
      <4>3. reply' \in [Requests -> Answers]  BY <3>0 DEF TypeOK, Answers
      <4>. QED  BY <1>1, <3>0, <4>1, <4>2, <4>3 DEF TypeOK
    <3>3. pc'[r] = TxStart(r) /\ reply'[r] = "none"  BY <3>0 DEF TypeOK
    <3>2. r \in Books => bookings[r] = "none"
      BY <1>2, <2>1 DEF Rollback, MayRetry, NotYetBooked
    <3>. QED  BY <1>0, <1>1, <3>0, <3>1, <3>2, <3>3, AbandonStep DEF TypeOK
  <2>2. CASE ~MayRetry(r)
    <3>0. /\ pc' = [pc EXCEPT ![r] = IF r \in Books THEN "GiveBack" ELSE "Done"]
          /\ reply' = [reply EXCEPT ![r] = IF @ = "Deadlock" THEN "Error" ELSE @]
      BY <1>2, <2>2 DEF Rollback, AfterRollback
    <3>1. /\ pc' \in [Requests -> PcValues]
          /\ reply' \in [Requests -> Answers]
      BY <3>0 DEF TypeOK, PcValues, PostTx, Answers
    <3>3. TypeOK'
      BY <1>1, <1>2, <2>2, <3>1 DEF Rollback, TypeOK
    <3>2. pc'[r] = (IF r \in Books THEN "GiveBack" ELSE "Done") /\ reply'[r] # "Unreserved"
      BY <1>2, <2>2 DEF Rollback, AfterRollback, TypeOK, ReserveNeverRefuses
    <3>4. UNCHANGED <<events, bookings, audit, spots, view, retries, faults>>
      BY <1>2, <2>2 DEF Rollback
    <3>. QED  BY <1>0, <1>1, <3>0, <3>2, <3>3, <3>4, AbandonStep DEF TypeOK, TxStart
  <2>. QED  BY <2>1, <2>2
<1>3. CASE StatementFault(r)
  <2>0. /\ pc' = [pc EXCEPT ![r] = "Rollback"]
        /\ \E a \in {"Error", "Deadlock"} : reply' = [reply EXCEPT ![r] = a]
        /\ faults' \in 0 .. MaxFaults
        /\ UNCHANGED <<events, bookings, audit, spots, view, retries>>
    BY <1>3 DEF StatementFault, TypeOK
  <2>1. TypeOK'
    <3>1. reply' \in [Requests -> Answers]  BY <2>0 DEF TypeOK, Answers
    <3>2. pc' \in [Requests -> PcValues]  BY <2>0 DEF TypeOK, PcValues, PostTx
    <3>. QED  BY <1>1, <2>0, <3>1, <3>2 DEF TypeOK
  <2>2. r \in Books => bookings[r] = "none"
    BY <1>3 DEF StatementFault, NotYetBooked
  <2>3. pc'[r] = "Rollback" /\ reply'[r] # "Unreserved"
    BY <2>0 DEF TypeOK
  <2>. QED  BY <1>0, <1>1, <1>3, <2>1, <2>2, <2>3, AbandonStep DEF StatementFault, TypeOK
<1>4. CASE AuditFault(r)
  <2>1. TypeOK'  BY <1>1, <1>4 DEF AuditFault, TypeOK, PcValues, PostTx
  <2>. QED  BY <1>0, <1>1, <1>4, <2>1, AbandonStep DEF AuditFault, TypeOK, TxStart, ReserveNeverRefuses
<1>5. CASE Crash(r)
  <2>1. TypeOK'  BY <1>1, <1>5 DEF Crash, TypeOK, PcValues, Answers
  <2>. QED  BY <1>0, <1>1, <1>5, <2>1, AbandonStep DEF Crash, TypeOK, TxStart
<1>6. CASE CommitFault(r) /\ UNCHANGED db /\ EndTx(r)
  <2>1. TypeOK'  BY <1>1, <1>6 DEF CommitFault, TypeOK, PcValues, PostTx, Answers
  <2>2. pc'[r] = "Rollback" /\ reply'[r] = "Error"  BY <1>6 DEF CommitFault, TypeOK
  <2>. QED  BY <1>0, <1>1, <1>6, <2>1, <2>2, AbandonStep DEF CommitFault, TypeOK, TxStart
<1>7. CASE RollbackFault(r)
  <2>1. /\ pc' = [pc EXCEPT ![r] = IF r \in Books THEN "GiveBack" ELSE "Done"]
        /\ reply' = [reply EXCEPT ![r] = "Error"]
        /\ faults' \in 0 .. MaxFaults
        /\ UNCHANGED <<events, bookings, audit, spots, view, retries>>
    BY <1>7 DEF RollbackFault, AfterRollback, TypeOK
  <2>2. TypeOK'  BY <1>1, <2>1 DEF TypeOK, PcValues, PostTx, Answers
  <2>3. /\ pc'[r] = (IF r \in Books THEN "GiveBack" ELSE "Done") /\ reply'[r] = "Error"
        /\ pc'[r] # TxStart(r)
    BY <2>1 DEF TypeOK, TxStart
  <2>. QED  BY <1>0, <1>1, <2>1, <2>2, <2>3, AbandonStep DEF TypeOK
<1>. QED  BY <1>2, <1>3, <1>4, <1>5, <1>6, <1>7

-----------------------------------------------------------------------------
(* Steps that commit *)

\* COMMIT publishes a row that only the holder of its lock could have written.
LEMMA CommitStep ==
  ASSUME NEW r \in Requests, IInv, Persist(r), pc[r] = "Commit",
         pc'[r] \in {"Done", "Rollback"}, pc' = [pc EXCEPT ![r] = pc'[r]],
         reply'[r] \in Answers \ {"Deadlock", "Unreserved"},
         reply' = [reply EXCEPT ![r] = reply'[r]],
         UNCHANGED <<spots, view, retries>>, faults' \in 0 .. MaxFaults
  PROVE  IInv'
<1> USE RequestAssumption, LimitAssumption, NullAssumption DEF IInv
<1> DEFINE e == EventOf[r]
<1>0. /\ EndTx(r)
      /\ e \in Events /\ eventLock[e] = r /\ events[e] # NoRow
      /\ tx[r].row \in Row /\ CheckConstraint(tx[r].row)
      /\ events' = [events EXCEPT ![e] = tx[r].row]
  BY DEF Persist, LocksHeld, RowsRead, PendingWrites, EventLocked, TypeOK, TxRecord
<1>1. /\ eventLock' \in [Events -> Requests \cup {Nobody}]
      /\ bookingLock' \in [Books -> Requests \cup {Nobody}]
      /\ tx' \in [Requests -> TxRecord] /\ tx'[r] = NoTx
      /\ \A q \in Requests \ {r} : tx'[q] = tx[q]
      /\ \A x \in Events : eventLock'[x] = IF eventLock[x] = r THEN Nobody ELSE eventLock[x]
      /\ \A b \in Books : bookingLock'[b] = IF bookingLock[b] = r THEN Nobody ELSE bookingLock[b]
  BY <1>0, EndTxFact
<1>2. \/ r \in Books /\ bookings[r] = "none" /\ bookings' = [bookings EXCEPT ![r] = "confirmed"]
      \/ /\ r \in Cancels /\ bookingLock[Target[r]] = r /\ bookings[Target[r]] = "confirmed"
         /\ bookings' = [bookings EXCEPT ![Target[r]] = "cancelled"]
      \/ r \in Updates /\ bookings' = bookings
  <2>1. CASE r \in Books
    BY <2>1 DEF Persist, BookingOf, PendingWrites, NotYetBooked, InTx
  <2>2. CASE r \in Cancels
    BY <2>2 DEF Persist, BookingOf, PendingWrites, LocksHeld
  <2>3. CASE r \in Updates
    BY <2>3 DEF Persist, BookingOf, PendingWrites
  <2>. QED  BY <2>1, <2>2, <2>3
<1>3. TypeOK'
  <2>1. events' \in [Events -> Row \cup {NoRow}]
    <3>1. events \in [Events -> Row \cup {NoRow}]  BY DEF TypeOK
    <3>2. tx[r].row \in Row \cup {NoRow}  BY <1>0
    <3>3. [events EXCEPT ![e] = tx[r].row] \in [Events -> Row \cup {NoRow}]
      BY ONLY <3>1, <3>2, Zenon
    <3>4. events' = [events EXCEPT ![e] = tx[r].row]  BY ONLY <1>0
    <3>. QED  BY ONLY <3>3, <3>4, Zenon
  <2>2. bookings' \in [Books -> {"none", "confirmed", "cancelled"}]
    <3>1. bookings \in [Books -> {"none", "confirmed", "cancelled"}]  BY DEF TypeOK
    <3>2. CASE r \in Books /\ bookings' = [bookings EXCEPT ![r] = "confirmed"]
      BY ONLY <3>1, <3>2
    <3>3. CASE /\ Target[r] \in Books
               /\ bookings' = [bookings EXCEPT ![Target[r]] = "cancelled"]
      BY ONLY <3>1, <3>3
    <3>4. CASE bookings' = bookings  BY ONLY <3>1, <3>4
    <3>5. r \in Cancels => Target[r] \in Books  OBVIOUS
    <3>. QED  BY ONLY <1>2, <3>2, <3>3, <3>4, <3>5, Zenon
  <2>3. audit' \in [Requests -> SUBSET Outcomes]  BY DEF Persist, TypeOK, TxRecord
  <2>4. pc' \in [Requests -> PcValues]  BY DEF TypeOK, PcValues, PostTx
  <2>. QED  BY <1>1, <2>1, <2>2, <2>3, <2>4 DEF TypeOK
<1>4. \A q \in Requests \ {r} : pc[q] \in EventLocked => events'[EventOf[q]] = events[EventOf[q]]
  BY <1>0 DEF LocksHeld, TypeOK
<1>5. \A x \in Events : events'[x] = NoRow <=> events[x] = NoRow
  BY <1>0 DEF TypeOK
<1>6. PcFits'  BY DEF TypeOK, PcFits, PreTx
<1>7. LocksOwned'  BY <1>1 DEF TypeOK, LocksOwned, EventLocked
<1>8. LocksHeld'
  <2>1. \A q \in Requests : pc'[q] \in EventLocked => eventLock'[EventOf[q]] = q
    BY <1>1 DEF TypeOK, LocksHeld, EventLocked
  <2>2. ASSUME NEW c \in Cancels, pc'[c] \in {"LockEvent", "CancelWrites", "ReturnSeats", "Commit"}
        PROVE  bookingLock'[Target[c]] = c /\ bookings'[Target[c]] = "confirmed"
    <3>1. c # r /\ bookingLock[Target[c]] = c /\ bookings[Target[c]] = "confirmed"
      BY <2>2 DEF TypeOK, LocksHeld
    <3>. QED  BY <1>1, <1>2, <3>1 DEF TypeOK
  <2>. QED  BY <2>1, <2>2 DEF LocksHeld
<1>9. RowsRead'  BY <1>5 DEF TypeOK, RowsRead, EventLocked
<1>10. ViewIsCurrent'  BY <1>4 DEF TypeOK, ViewIsCurrent, EventLocked
<1>11. NotYetBooked'
  <2> SUFFICES ASSUME NEW b \in Books,
                      \/ pc'[b] \in PreTx \cup InTx \cup {"Idle"}
                      \/ pc'[b] = "Rollback" /\ reply'[b] = "Deadlock"
               PROVE  bookings'[b] = "none"
    BY DEF NotYetBooked
  <2>1. b # r /\ bookings[b] = "none"  BY DEF TypeOK, NotYetBooked, PreTx, InTx
  <2>. QED  BY <1>2, <2>1 DEF TypeOK
<1>12. PendingWrites'
  <2> SUFFICES ASSUME NEW q \in Requests \ {r}
               PROVE  /\ pc'[q] = pc[q] /\ tx'[q] = tx[q]
                      /\ pc[q] \in {"Insert", "ReturnSeats", "Commit"} =>
                            events'[EventOf[q]] = events[EventOf[q]]
    <3>1. pc'[r] \notin {"Insert", "ReturnSeats", "Commit", "Idle"} \cup PreTx \cup InTx
      BY DEF PreTx, InTx
    <3>. QED  BY <3>1 DEF PendingWrites
  <2>. QED  BY <1>1, <1>4 DEF TypeOK, EventLocked
<1>13. NoOverbooking'  BY <1>0 DEF NoOverbooking, CheckConstraint, TypeOK
<1>14. ReserveNeverRefuses'  BY DEF TypeOK, ReserveNeverRefuses
<1>. QED
  BY <1>3, <1>6, <1>7, <1>8, <1>9, <1>10, <1>11, <1>12, <1>13, <1>14

\* COMMIT, and a COMMIT whose answer is lost.
LEMMA CommitInv ==
  ASSUME NEW r \in Requests, IInv, Commit(r) \/ CommitFault(r)
  PROVE  IInv'
<1>1. CASE Commit(r)
  BY <1>1, CommitStep DEF Commit, Answer, Success, Answers, local, IInv, TypeOK
<1>2. CASE CommitFault(r) /\ Persist(r)
  <2>1. /\ pc[r] = "Commit" /\ pc' = [pc EXCEPT ![r] = "Rollback"] /\ pc'[r] = "Rollback"
        /\ reply' = [reply EXCEPT ![r] = "Error"] /\ reply'[r] = "Error"
    BY <1>2 DEF CommitFault, Throw, IInv, TypeOK
  <2>2. faults' \in 0 .. MaxFaults
    BY <1>2, LimitAssumption DEF CommitFault, Fault, IInv, TypeOK
  <2>3. UNCHANGED <<spots, view, retries>>  BY <1>2 DEF CommitFault, local
  <2>. QED  BY <1>2, <2>1, <2>2, <2>3, CommitStep DEF Answers
<1>3. CASE CommitFault(r) /\ UNCHANGED db /\ EndTx(r)
  BY <1>3, AbandonInv
<1>. QED  BY <1>1, <1>2, <1>3 DEF CommitFault

-----------------------------------------------------------------------------
(* Steps inside a transaction *)

\* An exception in the callback: the transaction is left to ROLLBACK as it is.
LEMMA ThrowStep ==
  ASSUME NEW r \in Requests, IInv, TypeOK', Others(r),
         UNCHANGED <<events, bookings, eventLock, bookingLock>>,
         pc[r] \in InTx, pc'[r] = "Rollback", reply'[r] \notin {"Deadlock", "Unreserved"}
  PROVE  IInv'
<1> USE RequestAssumption, NullAssumption DEF IInv, Others
<1>1. PcFits'  BY DEF TypeOK, PcFits, PreTx
<1>2. LocksOwned'
  <2>1. \A q \in Requests : pc[q] \in InTx \cup {"Rollback"} => pc'[q] \in InTx \cup {"Rollback"}
    OBVIOUS
  <2>. QED  BY <2>1 DEF TypeOK, LocksOwned, EventLocked
<1>3. LocksHeld'  BY DEF TypeOK, LocksHeld, EventLocked
<1>4. RowsRead'  BY DEF TypeOK, RowsRead, EventLocked
<1>5. ViewIsCurrent'  BY DEF TypeOK, ViewIsCurrent
<1>6. NotYetBooked'  BY DEF TypeOK, NotYetBooked, PreTx, InTx
<1>7. PendingWrites'
  <2> SUFFICES ASSUME NEW q \in Requests,
                      pc'[q] \in {"Insert", "ReturnSeats", "Commit", "Idle"} \cup PreTx \cup InTx
               PROVE  pc'[q] = pc[q] /\ tx'[q] = tx[q]
    BY DEF PendingWrites
  <2>. QED  BY DEF PreTx, InTx
<1>8. NoOverbooking'  BY DEF NoOverbooking
<1>9. ReserveNeverRefuses'  BY DEF TypeOK, ReserveNeverRefuses
<1>. QED  BY <1>1, <1>2, <1>3, <1>4, <1>5, <1>6, <1>7, <1>8, <1>9

\* SELECT ... FOR UPDATE on the event row.
LEMMA LockEventInv ==
  ASSUME NEW r \in Books \cup Cancels, IInv, LockEvent(r)  PROVE IInv'
<1> USE RequestAssumption, NullAssumption
    DEF IInv, Others, Goto, Throw, LockEvent, db, locks, local
<1>1. CASE events[EventOf[r]] = NoRow
  <2>0. /\ pc[r] = "LockEvent" /\ pc' = [pc EXCEPT ![r] = "Rollback"]
        /\ reply' = [reply EXCEPT ![r] = "NotFound"]
        /\ UNCHANGED <<events, bookings, audit, eventLock, bookingLock, spots, view, retries, tx, faults>>
    BY <1>1
  <2> HIDE DEF LockEvent
  <2>1. TypeOK'  BY <2>0 DEF TypeOK, PcValues, PostTx, Answers
  <2>. QED  BY <2>0, <2>1, ThrowStep DEF TypeOK, InTx
<1>2. CASE events[EventOf[r]] # NoRow
  <2>1. /\ eventLock' = [eventLock EXCEPT ![EventOf[r]] = r]
        /\ eventLock[EventOf[r]] \in {Nobody, r}
        /\ view' = [view EXCEPT ![r] = events[EventOf[r]]]
        /\ pc' = [pc EXCEPT ![r] = IF r \in Books THEN "Rules" ELSE "CancelWrites"]
        /\ pc[r] = "LockEvent"
        /\ UNCHANGED <<events, bookings, audit, bookingLock, spots, retries, reply, tx, faults>>
    BY <1>2 DEF LockRow, Free
  <2> HIDE DEF LockEvent
  <2>2. TypeOK'  BY <2>1 DEF TypeOK, PcValues, InTx
  <2>3. PcFits'  BY <2>1 DEF TypeOK, PcFits, PreTx
  <2>4. LocksOwned'  BY <2>1 DEF TypeOK, LocksOwned, EventLocked
  <2>5. LocksHeld'
    <3>1. ASSUME NEW q \in Requests, pc'[q] \in EventLocked PROVE eventLock'[EventOf[q]] = q
      <4>1. CASE q = r  BY <2>1, <4>1 DEF TypeOK
      <4>2. CASE q # r  BY <2>1, <3>1, <4>2 DEF TypeOK, LocksHeld, EventLocked
      <4>. QED  BY <4>1, <4>2
    <3>2. ASSUME NEW c \in Cancels, pc'[c] \in {"LockEvent", "CancelWrites", "ReturnSeats", "Commit"}
          PROVE  bookingLock'[Target[c]] = c /\ bookings'[Target[c]] = "confirmed"
      BY <2>1, <3>2 DEF TypeOK, LocksHeld
    <3>. QED  BY <3>1, <3>2 DEF LocksHeld
  <2>6. RowsRead'  BY <1>2, <2>1 DEF TypeOK, RowsRead, EventLocked
  <2>7. ViewIsCurrent'  BY <2>1 DEF TypeOK, ViewIsCurrent
  <2>8. NotYetBooked'  BY <2>1 DEF TypeOK, NotYetBooked, PreTx, InTx
  <2>9. PendingWrites'
    <3> SUFFICES ASSUME NEW q \in Requests
                 PROVE  /\ pc'[q] \in {"Insert", "ReturnSeats", "Commit", "Idle"} \cup PreTx => pc'[q] = pc[q]
                        /\ pc'[q] \in InTx \ {"Insert", "ReturnSeats", "Commit"} => tx[q] = NoTx
      BY <2>1 DEF PendingWrites
    <3>. QED  BY <2>1 DEF TypeOK, PendingWrites, PreTx, InTx
  <2>10. NoOverbooking' /\ ReserveNeverRefuses'  BY <2>1 DEF NoOverbooking, ReserveNeverRefuses
  <2>. QED  BY <2>2, <2>3, <2>4, <2>5, <2>6, <2>7, <2>8, <2>9, <2>10
<1>. QED  BY <1>1, <1>2

\* validateBookingRules: what it passes, the guard of reserveSpots accepts.
LEMMA RulesInv ==
  ASSUME NEW r \in Books, IInv, Rules(r)  PROVE IInv'
<1> USE RequestAssumption, NullAssumption DEF IInv, Others, Goto, Throw, db, locks, local
<1>1. CASE Verdict(r) # "none"
  <2>1. /\ pc[r] = "Rules" /\ pc' = [pc EXCEPT ![r] = "Rollback"]
        /\ reply' = [reply EXCEPT ![r] = Verdict(r)]
        /\ tx' = [tx EXCEPT ![r] = [tx[r] EXCEPT !.audit = {"failure"}]]
        /\ UNCHANGED <<events, bookings, audit, eventLock, bookingLock, spots, view, retries, faults>>
    BY <1>1 DEF Rules, RecordAudit
  <2>2. Verdict(r) \in Answers \ {"none", "Deadlock", "Unreserved"}
    BY <1>1, VerdictFact DEF Answers
  <2>3. [tx[r] EXCEPT !.audit = {"failure"}] \in TxRecord
    BY TxAudit, "failure" \in Outcomes DEF TypeOK, Outcomes
  <2>4. TypeOK'  BY <2>1, <2>2, <2>3 DEF TypeOK, PcValues, PostTx
  <2>. QED  BY <2>1, <2>2, <2>4, ThrowStep DEF TypeOK, InTx
<1>2. CASE Verdict(r) = "none"
  <2>1. /\ pc[r] = "Rules" /\ pc' = [pc EXCEPT ![r] = "Reserve"]
        /\ UNCHANGED <<events, bookings, audit, eventLock, bookingLock, spots, view, retries, reply, tx, faults>>
    BY <1>2 DEF Rules
  <2>2. view[r] = events[EventOf[r]] /\ view[r] # NoRow /\ EventOf[r] \in Events
    BY <2>1 DEF ViewIsCurrent, RowsRead, EventLocked
  <2>3. Reservable(view[r], Tickets[r])
    BY <1>2, <2>2, VerdictFact DEF Reservable, Remaining, TypeOK, Row
  <2>4. TypeOK'  BY <2>1 DEF TypeOK, PcValues, InTx
  <2>5. PcFits' /\ LocksOwned' /\ LocksHeld' /\ RowsRead'
    BY <2>1 DEF TypeOK, PcFits, LocksOwned, LocksHeld, RowsRead, EventLocked, PreTx, InTx
  <2>6. ViewIsCurrent'  BY <2>1, <2>3 DEF TypeOK, ViewIsCurrent, Reservable
  <2>7. NotYetBooked'  BY <2>1 DEF TypeOK, NotYetBooked, PreTx, InTx
  <2>8. PendingWrites'
    <3> SUFFICES ASSUME NEW q \in Requests
                 PROVE  /\ pc'[q] \in {"Insert", "ReturnSeats", "Commit", "Idle"} \cup PreTx => pc'[q] = pc[q]
                        /\ pc'[q] \in InTx \ {"Insert", "ReturnSeats", "Commit"} => tx[q] = NoTx
      BY <2>1 DEF PendingWrites
    <3>. QED  BY <2>1 DEF TypeOK, PendingWrites, PreTx, InTx
  <2>9. NoOverbooking' /\ ReserveNeverRefuses'  BY <2>1 DEF NoOverbooking, ReserveNeverRefuses
  <2>. QED  BY <2>4, <2>5, <2>6, <2>7, <2>8, <2>9
<1>. QED  BY <1>1, <1>2

\* An UPDATE of the event row inside a transaction that holds the lock or takes it:
\* the pending row is the committed one moved by what the transaction is about.
LEMMA WriteStep ==
  ASSUME NEW r \in Requests, IInv, NEW writes \in TxRecord, NEW next \in InTx,
         Write(r, writes, next), Free(eventLock[EventOf[r]], r),
         UNCHANGED <<events, bookings, audit, spots, view, retries, faults>>,
         pc[r] \in InTx, events[EventOf[r]] # NoRow, writes.row # NoRow,
         \/ /\ r \in Books /\ next = "Insert"
            /\ writes.row.booked = events[EventOf[r]].booked + Tickets[r]
         \/ /\ r \in Cancels /\ next = "ReturnSeats"
            /\ pc[r] = "CancelWrites"
            /\ writes.row.booked = events[EventOf[r]].booked - Tickets[Target[r]]
            /\ writes.booking = "cancelled"
         \/ /\ r \in Updates /\ next = "Commit"
            /\ writes.row.booked = events[EventOf[r]].booked
            /\ writes.booking = "none"
  PROVE  IInv'
<1> USE RequestAssumption, NullAssumption DEF IInv, Others, Goto, Throw
<1>1. CASE ~CheckConstraint(writes.row)
  <2>1. /\ EndTx(r) /\ pc' = [pc EXCEPT ![r] = "Rollback"]
        /\ reply' = [reply EXCEPT ![r] = "Error"]
    BY <1>1 DEF Write
  <2>2. /\ eventLock' \in [Events -> Requests \cup {Nobody}]
        /\ bookingLock' \in [Books -> Requests \cup {Nobody}]
        /\ tx' \in [Requests -> TxRecord]
        /\ \A q \in Requests \ {r} : tx'[q] = tx[q]
    BY <2>1, EndTxFact
  <2>3. TypeOK'  BY <2>1, <2>2 DEF TypeOK, PcValues, PostTx, Answers
  <2>4. reply'[r] = "Error" /\ pc'[r] = "Rollback" /\ TxStart(r) # "Rollback"
    BY <2>1 DEF TypeOK, TxStart
  <2>. QED  BY <2>1, <2>2, <2>3, <2>4, AbandonStep DEF TypeOK
<1>2. CASE CheckConstraint(writes.row)
  <2>1. /\ tx' = [tx EXCEPT ![r] = writes]
        /\ eventLock' = [eventLock EXCEPT ![EventOf[r]] = r]
        /\ pc' = [pc EXCEPT ![r] = next]
        /\ UNCHANGED <<bookingLock, reply>>
        /\ eventLock[EventOf[r]] \in {Nobody, r}
    BY <1>2 DEF Write, Free
  <2>0. pc'[r] = next /\ tx'[r] = writes /\ pc'[r] \in {"Insert", "ReturnSeats", "Commit"}
    BY <2>1 DEF TypeOK
  <2>2. TypeOK'  BY <2>1 DEF TypeOK, PcValues
  <2>3. PcFits'  BY <2>0, <2>1 DEF TypeOK, PcFits, PreTx
  <2>4. LocksOwned'  BY <2>0, <2>1 DEF TypeOK, LocksOwned, EventLocked
  <2>5. LocksHeld'
    <3>1. ASSUME NEW q \in Requests, pc'[q] \in EventLocked PROVE eventLock'[EventOf[q]] = q
      <4>1. CASE q = r  BY <2>1, <4>1 DEF TypeOK
      <4>2. CASE q # r  BY <2>1, <3>1, <4>2 DEF TypeOK, LocksHeld, EventLocked
      <4>. QED  BY <4>1, <4>2
    <3>2. ASSUME NEW c \in Cancels, pc'[c] \in {"LockEvent", "CancelWrites", "ReturnSeats", "Commit"}
          PROVE  bookingLock'[Target[c]] = c /\ bookings'[Target[c]] = "confirmed"
      BY <2>0, <2>1, <3>2 DEF TypeOK, LocksHeld
    <3>. QED  BY <3>1, <3>2 DEF LocksHeld
  <2>6. RowsRead'  BY <2>0, <2>1 DEF TypeOK, RowsRead, EventLocked
  <2>7. ViewIsCurrent'  BY <2>0, <2>1 DEF TypeOK, ViewIsCurrent
  <2>8. NotYetBooked'
    <3>1. ASSUME NEW b \in Books, b # r PROVE pc'[b] = pc[b] /\ reply'[b] = reply[b]
      BY <2>1, <3>1 DEF TypeOK
    <3>2. r \in Books => bookings[r] = "none"  BY DEF NotYetBooked
    <3>. QED  BY <3>1, <3>2 DEF NotYetBooked
  <2>9. PendingWrites'
    <3>1. ASSUME NEW q \in Requests, q # r PROVE pc'[q] = pc[q] /\ tx'[q] = tx[q]
      BY <2>1, <3>1 DEF TypeOK
    <3>2. pc'[r] \notin PreTx \cup {"Idle"} \cup (InTx \ {"Insert", "ReturnSeats", "Commit"})
      BY <2>0 DEF PreTx, InTx
    <3>. QED  BY <1>2, <2>0, <3>1, <3>2 DEF PendingWrites
  <2>10. NoOverbooking' /\ ReserveNeverRefuses'  BY <2>1 DEF NoOverbooking, ReserveNeverRefuses
  <2>. QED  BY <2>2, <2>3, <2>4, <2>5, <2>6, <2>7, <2>8, <2>9, <2>10
<1>. QED  BY <1>1, <1>2

\* reserveSpots: the locked row is the one Rules has checked, so its guard holds.
LEMMA ReserveInv ==
  ASSUME NEW r \in Books, IInv, Reserve(r)  PROVE IInv'
<1> USE RequestAssumption, NullAssumption DEF IInv
<1> DEFINE row == events[EventOf[r]]
           writes == [tx[r] EXCEPT !.row = Reserved(r)]
<1>1. pc[r] = "Reserve" /\ EventOf[r] \in Events /\ row \in Row /\ row # NoRow
  BY DEF Reserve, RowsRead, EventLocked, TypeOK
<1>2. Reservable(row, Tickets[r])  BY <1>1 DEF ViewIsCurrent
<1>3. Reserved(r) \in Row /\ Reserved(r).booked = row.booked + Tickets[r]
  BY <1>1 DEF Reserved, Row
<1>4. tx[r] = NoTx  BY <1>1 DEF PendingWrites, InTx
<1>5. writes \in TxRecord /\ writes.row = Reserved(r)
  BY <1>3, <1>4 DEF NoTx, TxRecord
<1>6. Write(r, writes, "Insert") /\ Free(eventLock[EventOf[r]], r)
      /\ UNCHANGED <<events, bookings, audit, spots, view, retries, faults>>
  BY <1>2 DEF Reserve, db, local
<1>7. "Insert" \in InTx /\ pc[r] \in InTx  BY <1>1 DEF InTx
<1> HIDE DEF writes
<1>. QED  BY <1>1, <1>3, <1>5, <1>6, <1>7, WriteStep

\* updateStatus and decrementBookedCount.
LEMMA CancelWritesInv ==
  ASSUME NEW c \in Cancels, IInv, CancelWrites(c)  PROVE IInv'
<1> USE RequestAssumption, NullAssumption DEF IInv
<1> DEFINE row == [events[EventOf[c]] EXCEPT !.booked = @ - TicketsOf(c)]
           writes == [tx[c] EXCEPT !.booking = "cancelled", !.row = row]
<1>1. /\ pc[c] = "CancelWrites" /\ EventOf[c] \in Events
      /\ events[EventOf[c]] \in Row /\ events[EventOf[c]] # NoRow
  BY DEF CancelWrites, RowsRead, EventLocked, TypeOK
<1>2. row \in Row /\ row.booked = events[EventOf[c]].booked - Tickets[Target[c]]
  BY <1>1 DEF TicketsOf, Row
<1>3. tx[c] = NoTx  BY <1>1 DEF PendingWrites, InTx
<1>4. Write(c, writes, "ReturnSeats")
      /\ UNCHANGED <<events, bookings, audit, spots, view, retries, faults>>
  BY DEF CancelWrites, db, local
<1> HIDE DEF row
<1>5. writes \in TxRecord /\ writes.row = row /\ writes.booking = "cancelled"
  <2>1. tx[c] \in TxRecord  BY DEF TypeOK
  <2> HIDE DEF IInv
  <2>. QED  BY <1>2, <2>1, TxBooking
<1>6. "ReturnSeats" \in InTx /\ pc[c] \in InTx  BY <1>1 DEF InTx
<1>7. Free(eventLock[EventOf[c]], c)  BY <1>1 DEF LocksHeld, EventLocked, Free
<1> HIDE DEF writes
<1>. QED  BY <1>1, <1>2, <1>4, <1>5, <1>6, <1>7, WriteStep

\* The UPDATE of updateEvent keeps booked_count, or its CHECK throws it out.
LEMMA WriteRowInv ==
  ASSUME NEW u \in Updates, IInv, WriteRow(u)  PROVE IInv'
<1> USE RequestAssumption, NullAssumption DEF IInv
<1> DEFINE row == events[EventOf[u]]
           writes == [tx[u] EXCEPT !.row = Patched(u), !.audit = {"success"}]
<1>1. /\ pc[u] = "WriteRow" /\ EventOf[u] \in Events
      /\ row \in Row /\ row # NoRow /\ view[u] \in Row
  BY DEF WriteRow, RowsRead, TypeOK
<1>2. CASE row.capacity >= row.booked
  <2>1. Patched(u) \in Row /\ Patched(u).booked = row.booked
    <3>1. /\ Patch(NewCapacity[u], view[u].capacity) \in Nat
          /\ Patch(NewStatus[u], view[u].status) \in Statuses
      BY <1>1 DEF Patch, Row
    <3>. QED  BY <1>1, <3>1 DEF Patched, Row
  <2>2. tx[u] = NoTx  BY <1>1 DEF PendingWrites, InTx
  <2>3. writes \in TxRecord /\ writes.row = Patched(u) /\ writes.booking = "none"
    <3>1. tx[u] \in TxRecord  BY DEF TypeOK
    <3>2. tx[u].booking = "none"  BY <2>2 DEF NoTx
    <3>3. /\ [tx[u] EXCEPT !.row = Patched(u), !.audit = {"success"}] \in TxRecord
          /\ [tx[u] EXCEPT !.row = Patched(u), !.audit = {"success"}].row = Patched(u)
      BY ONLY <2>1, <3>1, TxRow
    <3>4. [tx[u] EXCEPT !.row = Patched(u), !.audit = {"success"}].booking = tx[u].booking
      BY ONLY <2>1, <3>1, TxRow
    <3>. QED  BY <3>2, <3>3, <3>4
  <2>4. Write(u, writes, "Commit") /\ Free(eventLock[EventOf[u]], u)
        /\ UNCHANGED <<events, bookings, audit, spots, view, retries, faults>>
    BY <1>2 DEF WriteRow, db, local
  <2>5. "Commit" \in InTx /\ pc[u] \in InTx  BY <1>1 DEF InTx
  <2> HIDE DEF writes
  <2>. QED  BY <1>1, <2>1, <2>3, <2>4, <2>5, WriteStep
<1>3. CASE ~(row.capacity >= row.booked)
  <2>1. /\ pc' = [pc EXCEPT ![u] = "Rollback"] /\ reply' = [reply EXCEPT ![u] = "NotFound"]
        /\ UNCHANGED <<events, bookings, audit, eventLock, bookingLock, spots, view, retries, tx, faults>>
    BY <1>3 DEF WriteRow, Throw, db, locks, local
  <2>2. TypeOK'  BY <2>1 DEF TypeOK, PcValues, PostTx, Answers
  <2>. QED  BY <1>1, <2>1, <2>2, ThrowStep DEF Others, TypeOK, InTx
<1>. QED  BY <1>2, <1>3

\* The INSERT of the booking, with its audit row.
LEMMA InsertInv ==
  ASSUME NEW r \in Books, IInv, Insert(r)  PROVE IInv'
<1> USE RequestAssumption, NullAssumption DEF IInv
<1> DEFINE new == [[tx[r] EXCEPT !.booking = "confirmed"] EXCEPT !.audit = {"success"}]
<1>1. /\ pc[r] = "Insert" /\ pc' = [pc EXCEPT ![r] = "Commit"]
      /\ tx' = [tx EXCEPT ![r] = new]
      /\ UNCHANGED <<events, bookings, audit, eventLock, bookingLock, spots, view, retries, reply, faults>>
  BY DEF Insert, RecordAudit, Goto, locks, local
<1>2. new \in TxRecord /\ new.row = tx[r].row /\ new.booking = "confirmed"
  <2>1. tx[r] \in TxRecord  BY DEF TypeOK
  <2> DEFINE booked == [tx[r] EXCEPT !.booking = "confirmed"]
  <2>2. booked \in TxRecord /\ booked.row = tx[r].row /\ booked.booking = "confirmed"
    BY <2>1 DEF TxRecord
  <2> HIDE DEF booked
  <2>3. /\ [booked EXCEPT !.audit = {"success"}] \in TxRecord
        /\ [booked EXCEPT !.audit = {"success"}].row = booked.row
        /\ [booked EXCEPT !.audit = {"success"}].booking = booked.booking
    BY <2>2, TxAudit, "success" \in Outcomes DEF Outcomes
  <2>. QED  BY <2>2, <2>3 DEF booked
<1> HIDE DEF new
<1>3. TypeOK'  BY <1>1, <1>2 DEF TypeOK, PcValues, InTx
<1>4. pc'[r] = "Commit" /\ tx'[r] = new  BY <1>1 DEF TypeOK
<1>5. \A q \in Requests \ {r} : pc'[q] = pc[q] /\ tx'[q] = tx[q]  BY <1>1 DEF TypeOK
<1>6. PcFits' /\ LocksOwned'  BY <1>1, <1>4, <1>5 DEF TypeOK, PcFits, LocksOwned, EventLocked, PreTx, InTx
<1>7. LocksHeld' /\ RowsRead'  BY <1>1, <1>4, <1>5 DEF TypeOK, LocksHeld, RowsRead, EventLocked
<1>8. ViewIsCurrent'  BY <1>1, <1>4, <1>5 DEF ViewIsCurrent
<1>9. NotYetBooked'  BY <1>1, <1>4, <1>5 DEF NotYetBooked, PreTx, InTx
<1>10. PendingWrites'
  <2>1. tx[r].row # NoRow /\ CheckConstraint(tx[r].row)
        /\ tx[r].row.booked = events[EventOf[r]].booked + Tickets[r]
    BY <1>1 DEF PendingWrites
  <2>2. pc'[r] \notin PreTx \cup {"Idle"} \cup (InTx \ {"Insert", "ReturnSeats", "Commit"})
    BY <1>4 DEF PreTx, InTx
  <2>. QED  BY <1>1, <1>2, <1>4, <1>5, <2>1, <2>2 DEF PendingWrites
<1>11. NoOverbooking' /\ ReserveNeverRefuses'  BY <1>1 DEF NoOverbooking, ReserveNeverRefuses
<1>. QED  BY <1>3, <1>6, <1>7, <1>8, <1>9, <1>10, <1>11

\* INCRBY inside the transaction of a cancellation, with its audit row.
LEMMA ReturnSeatsInv ==
  ASSUME NEW c \in Cancels, IInv, ReturnSeats(c)  PROVE IInv'
<1> USE RequestAssumption, NullAssumption DEF IInv
<1> DEFINE new == [tx[c] EXCEPT !.audit = {"success"}]
<1>1. /\ pc[c] = "ReturnSeats" /\ pc' = [pc EXCEPT ![c] = "Commit"]
      /\ tx' = [tx EXCEPT ![c] = new]
      /\ spots' = IncrBy(c)
      /\ UNCHANGED <<events, bookings, audit, eventLock, bookingLock, view, retries, reply, faults>>
  BY DEF ReturnSeats, RecordAudit, Goto, locks, local
<1>2. new \in TxRecord /\ new.row = tx[c].row /\ new.booking = tx[c].booking
  BY TxAudit, "success" \in Outcomes DEF TypeOK, Outcomes
<1>12. spots' \in [Events -> Int \cup {Missing}]
  BY <1>1 DEF IncrBy, SetKey, KeyValue, TicketsOf, TypeOK
<1> HIDE DEF new
<1>3. TypeOK'  BY <1>1, <1>2, <1>12 DEF TypeOK, PcValues, InTx
<1>4. pc'[c] = "Commit" /\ tx'[c] = new  BY <1>1 DEF TypeOK
<1>5. \A q \in Requests \ {c} : pc'[q] = pc[q] /\ tx'[q] = tx[q]  BY <1>1 DEF TypeOK
<1>6. PcFits' /\ LocksOwned'  BY <1>1, <1>4, <1>5 DEF TypeOK, PcFits, LocksOwned, EventLocked, PreTx, InTx
<1>7. LocksHeld' /\ RowsRead'  BY <1>1, <1>4, <1>5 DEF TypeOK, LocksHeld, RowsRead, EventLocked
<1>8. ViewIsCurrent'  BY <1>1, <1>4, <1>5 DEF ViewIsCurrent
<1>9. NotYetBooked'  BY <1>1, <1>4, <1>5 DEF NotYetBooked, PreTx, InTx
<1>10. PendingWrites'
  <2>1. /\ tx[c].row # NoRow /\ CheckConstraint(tx[c].row) /\ tx[c].booking = "cancelled"
        /\ tx[c].row.booked = events[EventOf[c]].booked - Tickets[Target[c]]
    BY <1>1 DEF PendingWrites
  <2>2. pc'[c] \notin PreTx \cup {"Idle"} \cup (InTx \ {"Insert", "ReturnSeats", "Commit"})
    BY <1>4 DEF PreTx, InTx
  <2>. QED  BY <1>1, <1>2, <1>4, <1>5, <2>1, <2>2 DEF PendingWrites
<1>11. NoOverbooking' /\ ReserveNeverRefuses'  BY <1>1 DEF NoOverbooking, ReserveNeverRefuses
<1>. QED  BY <1>3, <1>6, <1>7, <1>8, <1>9, <1>10, <1>11

\* SELECT ... FOR UPDATE on the booking: the cancel that passes owns a confirmed one.
LEMMA LockBookingInv ==
  ASSUME NEW c \in Cancels, IInv, LockBooking(c)  PROVE IInv'
<1> USE RequestAssumption, NullAssumption DEF IInv
<1>1. CASE bookings[Target[c]] = "none"
  <2>1. /\ pc[c] = "LockBooking" /\ pc' = [pc EXCEPT ![c] = "Rollback"]
        /\ reply' = [reply EXCEPT ![c] = "NotFound"]
        /\ UNCHANGED <<events, bookings, audit, eventLock, bookingLock, spots, view, retries, tx, faults>>
    BY <1>1 DEF LockBooking, TakeBooking, Throw, db, local
  <2>2. TypeOK'  BY <2>1 DEF TypeOK, PcValues, PostTx, Answers
  <2>. QED  BY <2>1, <2>2, ThrowStep DEF Others, TypeOK, InTx
<1>2. CASE bookings[Target[c]] # "none"
  <2>1. /\ pc[c] = "LockBooking" /\ bookingLock[Target[c]] \in {Nobody, c}
        /\ bookingLock' = [bookingLock EXCEPT ![Target[c]] = c]
        /\ \/ /\ pc' = [pc EXCEPT ![c] = "LockEvent"] /\ reply' = reply
              /\ bookings[Target[c]] = "confirmed"
           \/ /\ pc' = [pc EXCEPT ![c] = "Rollback"]
              /\ reply' = [reply EXCEPT ![c] = Refusal(c)]
              /\ Refusal(c) \in {"Forbidden", "AlreadyCancelled"}
        /\ UNCHANGED <<events, bookings, audit, eventLock, spots, view, retries, tx, faults>>
    BY <1>2 DEF LockBooking, TakeBooking, Refusal, Free, Goto, Throw, db, local, TypeOK
  <2>2. TypeOK'
    <3>1. bookingLock' \in [Books -> Requests \cup {Nobody}]
      <4>1. bookingLock \in [Books -> Requests \cup {Nobody}]  BY DEF TypeOK
      <4> HIDE DEF IInv
      <4>. QED  BY <2>1, <4>1
    <3>2. pc' \in [Requests -> PcValues]  BY <2>1 DEF TypeOK, PcValues, PostTx, InTx
    <3>3. reply' \in [Requests -> Answers]
      <4>1. reply \in [Requests -> Answers]  BY DEF TypeOK
      <4>2. {"Forbidden", "AlreadyCancelled"} \subseteq Answers  BY DEF Answers
      <4>3. ASSUME Refusal(c) \in {"Forbidden", "AlreadyCancelled"}
            PROVE  [reply EXCEPT ![c] = Refusal(c)] \in [Requests -> Answers]
        BY ONLY <4>1, <4>2, <4>3, Zenon
      <4>4. \/ reply' = reply
            \/ /\ reply' = [reply EXCEPT ![c] = Refusal(c)]
               /\ Refusal(c) \in {"Forbidden", "AlreadyCancelled"}
        BY ONLY <2>1, Zenon
      <4>. QED  BY ONLY <4>1, <4>3, <4>4, Zenon
    <3>. QED  BY <2>1, <3>1, <3>2, <3>3 DEF TypeOK
  <2>3. /\ pc'[c] \in {"LockEvent", "Rollback"}
        /\ reply'[c] # "Unreserved"
        /\ pc'[c] = "LockEvent" => bookings[Target[c]] = "confirmed"
        /\ \A q \in Requests \ {c} : pc'[q] = pc[q] /\ reply'[q] = reply[q]
        /\ bookingLock'[Target[c]] = c
        /\ \A b \in Books \ {Target[c]} : bookingLock'[b] = bookingLock[b]
    BY <2>1 DEF TypeOK, ReserveNeverRefuses
  <2>4. PcFits'  BY <2>3 DEF PcFits, PreTx
  <2>5. LocksOwned'
    <3>1. ASSUME NEW e \in Events, eventLock[e] # Nobody
          PROVE  EventOf[eventLock[e]] = e /\ pc'[eventLock[e]] \in EventLocked \cup {"Rollback"}
      <4>1. /\ eventLock[e] \in Requests /\ EventOf[eventLock[e]] = e
            /\ pc[eventLock[e]] \in EventLocked \cup {"Rollback"}
        BY <3>1 DEF LocksOwned, TypeOK
      <4>. QED  BY <2>1, <2>3, <4>1 DEF EventLocked
    <3>2. ASSUME NEW b \in Books, bookingLock'[b] # Nobody
          PROVE  /\ bookingLock'[b] \in Cancels /\ Target[bookingLock'[b]] = b
                 /\ pc'[bookingLock'[b]] \in {"LockEvent", "CancelWrites", "ReturnSeats",
                                              "Commit", "Rollback"}
      <4>1. CASE b = Target[c]  BY <2>3, <4>1
      <4>2. CASE b # Target[c]  BY <2>1, <2>3, <3>2, <4>2 DEF LocksOwned
      <4>. QED  BY <4>1, <4>2
    <3>. QED  BY <2>1, <3>1, <3>2 DEF LocksOwned
  <2>6. LocksHeld'
    <3>1. \A q \in Requests : pc'[q] \in EventLocked => pc'[q] = pc[q]
      BY <2>3 DEF EventLocked
    <3>2. ASSUME NEW d \in Cancels, pc'[d] \in {"LockEvent", "CancelWrites", "ReturnSeats", "Commit"}
          PROVE  bookingLock'[Target[d]] = d /\ bookings'[Target[d]] = "confirmed"
      <4>1. CASE d = c  BY <2>1, <2>3, <3>2, <4>1
      <4>2. CASE d # c
        <5>1. bookingLock[Target[d]] = d /\ bookings[Target[d]] = "confirmed"
          BY <2>3, <3>2, <4>2 DEF LocksHeld
        <5>2. Target[d] # Target[c]  BY <2>1, <4>2, <5>1
        <5>. QED  BY <2>1, <2>3, <5>1, <5>2
      <4>. QED  BY <4>1, <4>2
    <3>. QED  BY <2>1, <3>1, <3>2 DEF LocksHeld
  <2>7. RowsRead' /\ ViewIsCurrent'  BY <2>1, <2>3 DEF RowsRead, ViewIsCurrent, EventLocked
  <2>8. NotYetBooked'  BY <2>1, <2>3 DEF NotYetBooked
  <2>9. PendingWrites'
    <3>1. tx[c] = NoTx  BY <2>1 DEF PendingWrites, InTx
    <3>. QED  BY <2>1, <2>3, <3>1 DEF PendingWrites
  <2>10. NoOverbooking' /\ ReserveNeverRefuses'  BY <2>1, <2>3 DEF NoOverbooking, ReserveNeverRefuses
  <2>. QED  BY <2>2, <2>4, <2>5, <2>6, <2>7, <2>8, <2>9, <2>10
<1>. QED  BY <1>1, <1>2

\* The SELECT without a lock of updateEvent.
LEMMA ReadRowInv ==
  ASSUME NEW u \in Updates, IInv, ReadRow(u)  PROVE IInv'
<1> USE RequestAssumption, NullAssumption DEF IInv
<1>1. CASE events[EventOf[u]] = NoRow
  <2>1. /\ pc[u] = "ReadRow" /\ pc' = [pc EXCEPT ![u] = "Rollback"]
        /\ reply' = [reply EXCEPT ![u] = "NotFound"]
        /\ view' = [view EXCEPT ![u] = events[EventOf[u]]]
        /\ UNCHANGED <<events, bookings, audit, eventLock, bookingLock, spots, retries, tx, faults>>
    BY <1>1 DEF ReadRow, Throw, db, locks
  <2>2. TypeOK'  BY <2>1 DEF TypeOK, PcValues, PostTx, Answers
  <2>. QED  BY <2>1, <2>2, ThrowStep DEF Others, TypeOK, InTx
<1>2. CASE events[EventOf[u]] # NoRow
  <2>1. /\ pc[u] = "ReadRow" /\ pc' = [pc EXCEPT ![u] = "WriteRow"]
        /\ view' = [view EXCEPT ![u] = events[EventOf[u]]]
        /\ UNCHANGED <<events, bookings, audit, eventLock, bookingLock, spots, retries, reply, tx, faults>>
    BY <1>2 DEF ReadRow, Goto, db, locks
  <2>2. TypeOK'  BY <2>1 DEF TypeOK, PcValues, InTx
  <2>3. /\ pc'[u] = "WriteRow" /\ view'[u] = events[EventOf[u]]
        /\ \A q \in Requests \ {u} : pc'[q] = pc[q] /\ view'[q] = view[q]
    BY <2>1 DEF TypeOK
  <2>4. PcFits' /\ LocksOwned'  BY <2>1, <2>3 DEF TypeOK, PcFits, LocksOwned, EventLocked, PreTx, InTx
  <2>5. LocksHeld'  BY <2>1, <2>3 DEF LocksHeld, EventLocked
  <2>6. RowsRead'  BY <1>2, <2>1, <2>3 DEF RowsRead, EventLocked
  <2>7. ViewIsCurrent'  BY <2>1, <2>3 DEF ViewIsCurrent
  <2>8. NotYetBooked'  BY <2>1, <2>3 DEF NotYetBooked
  <2>9. PendingWrites'
    <3>1. tx[u] = NoTx  BY <2>1 DEF PendingWrites, InTx
    <3>. QED  BY <2>1, <2>3, <3>1 DEF PendingWrites
  <2>10. NoOverbooking' /\ ReserveNeverRefuses'  BY <2>1 DEF NoOverbooking, ReserveNeverRefuses
  <2>. QED  BY <2>2, <2>4, <2>5, <2>6, <2>7, <2>8, <2>9, <2>10
<1>. QED  BY <1>1, <1>2

\* The INCRBY of a cancellation fails: its callback throws.
LEMMA RedisThrowInv ==
  ASSUME NEW r \in Requests, IInv, RedisFault(r), pc[r] = "ReturnSeats"  PROVE IInv'
<1> USE RequestAssumption, LimitAssumption, NullAssumption DEF IInv
<1>1. r \in Cancels  BY DEF PcFits
<1>2. spots' \in [Events -> Int \cup {Missing}]
  <2>1. RedisEffect(r) \in [Events -> Int \cup {Missing}]  BY EffectType DEF RedisSteps
  <2>2. spots \in [Events -> Int \cup {Missing}]  BY DEF TypeOK
  <2> HIDE DEF IInv
  <2>. QED  BY <2>1, <2>2 DEF RedisFault
<1>3. /\ pc' = [pc EXCEPT ![r] = "Rollback"] /\ reply' = [reply EXCEPT ![r] = "Error"]
      /\ faults' \in 0 .. MaxFaults
      /\ UNCHANGED <<events, bookings, audit, eventLock, bookingLock, view, retries, tx>>
  BY DEF RedisFault, Throw, Fault, db, locks, local, TypeOK
<1>4. TypeOK'  BY <1>2, <1>3 DEF TypeOK, PcValues, PostTx, Answers
<1>. QED  BY <1>3, <1>4, ThrowStep DEF Others, TypeOK, InTx

\* Steps that change nothing but the counter.
LEMMA CounterInv ==
  ASSUME IInv, Flush \/ UNCHANGED vars \/ \E r \in Requests : RedisResend(r)  PROVE IInv'
<1> USE LimitAssumption
<1>1. /\ spots' \in [Events -> Int \cup {Missing}] /\ faults' \in 0 .. MaxFaults
      /\ UNCHANGED <<events, bookings, audit, eventLock, bookingLock, pc, view, retries, reply, tx>>
  <2>1. CASE Flush \/ UNCHANGED vars
    BY <2>1 DEF Flush, Fault, db, locks, local, vars, IInv, TypeOK
  <2>2. ASSUME NEW r \in Requests, RedisResend(r)
        PROVE  /\ spots' \in [Events -> Int \cup {Missing}] /\ faults' \in 0 .. MaxFaults
               /\ UNCHANGED <<events, bookings, audit, eventLock, bookingLock, pc, view, retries,
                              reply, tx>>
    BY <2>2, EffectType DEF RedisResend, Fault, db, locks, local, IInv, TypeOK
  <2>. QED  BY <2>1, <2>2
<1>2. TypeOK'  BY <1>1 DEF IInv, TypeOK
<1>3. PcFits' /\ LocksOwned' /\ LocksHeld' /\ RowsRead' /\ ViewIsCurrent'
  BY <1>1 DEF IInv, PcFits, LocksOwned, LocksHeld, RowsRead, ViewIsCurrent
<1>4. NotYetBooked' /\ PendingWrites' /\ NoOverbooking' /\ ReserveNeverRefuses'
  BY <1>1 DEF IInv, NotYetBooked, PendingWrites, NoOverbooking, ReserveNeverRefuses
<1>. QED  BY <1>2, <1>3, <1>4 DEF IInv

-----------------------------------------------------------------------------
(* The theorems *)

\* Every step of every request, and every fault, preserves the inductive invariant.
THEOREM NextInv == IInv /\ [Next]_vars => IInv'
<1> SUFFICES ASSUME IInv, [Next]_vars PROVE IInv'  OBVIOUS
<1>1. ASSUME NEW r \in Requests, Start(r) PROVE IInv'
  BY <1>1, BeforeTxInv
<1>2. ASSUME NEW b \in Books, BookStep(b) PROVE IInv'
  BY <1>2, BeforeTxInv, AfterTxInv, LockEventInv, RulesInv, ReserveInv, InsertInv DEF BookStep
<1>3. ASSUME NEW c \in Cancels, CancelStep(c) PROVE IInv'
  BY <1>3, LockBookingInv, LockEventInv, CancelWritesInv, ReturnSeatsInv DEF CancelStep
<1>4. ASSUME NEW u \in Updates, UpdateStep(u) PROVE IInv'
  BY <1>4, ReadRowInv, WriteRowInv DEF UpdateStep
<1>5. ASSUME NEW r \in Requests, TxStep(r) PROVE IInv'
  BY <1>5, CommitInv, AfterTxInv, AbandonInv DEF TxStep
<1>6. ASSUME NEW r \in Requests, RedisFault(r) PROVE IInv'
  BY <1>6, AfterTxInv, RedisThrowInv
<1>7. ASSUME NEW r \in Requests,
             \/ ReadFault(r) \/ StatementFault(r) \/ AuditFault(r)
             \/ CommitFault(r) \/ RollbackFault(r) \/ Crash(r)
      PROVE  IInv'
  BY <1>7, AfterTxInv, AbandonInv, CommitInv
<1>8. CASE Flush \/ UNCHANGED vars
  BY <1>8, CounterInv
<1>9. ASSUME NEW r \in Requests, RedisResend(r) PROVE IInv'
  BY <1>9, CounterInv
<1>. QED
  BY <1>1, <1>2, <1>3, <1>4, <1>5, <1>6, <1>7, <1>8, <1>9
     DEF Next, Step, FaultStep, Finished

\* Whatever the requests, limits and faults, the inductive invariant holds throughout.
THEOREM AlwaysIInv == Spec => []IInv
BY InitInv, NextInv, PTL DEF Spec

\* Every variable keeps its type: no partial PATCH writes an absent field, no
\* request is tried more than Attempts times.
THEOREM TypeCorrect == Spec => []TypeOK
<1>1. IInv => TypeOK  BY DEF IInv
<1>. QED  BY <1>1, AlwaysIInv, PTL

\* No event ever has more seats booked than its capacity, or fewer than none.
THEOREM NeverOverbooked == Spec => []NoOverbooking
<1>1. IInv => NoOverbooking  BY DEF IInv
<1>. QED  BY <1>1, AlwaysIInv, PTL

\* The guarded UPDATE of reserveSpots never refuses what validateBookingRules passed.
THEOREM ReserveSucceeds == Spec => []ReserveNeverRefuses
<1>1. IInv => ReserveNeverRefuses  BY DEF IInv
<1>. QED  BY <1>1, AlwaysIInv, PTL

\* No error path, retry or crash leaves a row locked.
THEOREM LocksReleased == Spec => []NoLockLeak
<1>1. IInv => NoLockLeak  BY DEF IInv, LocksOwned, NoLockLeak, EventLocked, InTx
<1>. QED  BY <1>1, AlwaysIInv, PTL

\* NobodyIsStuck: whoever waits for a booking waits for a cancellation that holds it
\* and can only wait for the event, and whoever holds an event waits for nothing.
THEOREM NobodyEverStuck == Spec => []NobodyIsStuck
<1>1. ASSUME IInv PROVE NobodyIsStuck
  <2> USE RequestAssumption, NullAssumption
  <2> SUFFICES ASSUME NEW S \in SUBSET Waiting, Stuck(S) PROVE FALSE
    BY DEF NobodyIsStuck
  <2> DEFINE Owner(r) == IF pc[r] = "LockBooking" THEN bookingLock[Target[r]]
                                                 ELSE eventLock[EventOf[r]]
  <2>1. ASSUME NEW r \in S
        PROVE  /\ r \in Requests /\ RowLock(r) = Owner(r) /\ Owner(r) \notin {Nobody, r}
               /\ pc[r] \in {"LockBooking", "LockEvent", "Reserve", "WriteRow"}
    BY DEF Waiting, RowLock, Free
  <2>2. ASSUME NEW r \in S, pc[r] = "LockBooking"
        PROVE  pc[Owner(r)] \in {"LockEvent", "CancelWrites", "ReturnSeats", "Commit", "Rollback"}
    <3>1. r \in Cancels /\ Target[r] \in Books
      BY <1>1, <2>1, <2>2 DEF IInv, PcFits
    <3>. QED  BY <1>1, <2>1, <2>2, <3>1 DEF IInv, LocksOwned
  <2>3. ASSUME NEW r \in S, pc[r] # "LockBooking"
        PROVE  Owner(r) \in Requests /\ pc[Owner(r)] \in EventLocked \cup {"Rollback"}
    <3>1. EventOf[r] \in Events  BY <2>1
    <3>. QED  BY <1>1, <2>1, <2>3, <3>1 DEF IInv, LocksOwned, TypeOK
  <2>4. ASSUME NEW r \in S PROVE Owner(r) \in S
    <3>1. pc[Owner(r)] \in InTx \cup {"Rollback"}
      BY <2>2, <2>3 DEF EventLocked, InTx
    <3>. QED  BY <2>1, <3>1 DEF Stuck
  <2>5. ASSUME NEW r \in S, pc[r] # "LockBooking" PROVE FALSE
    <3>1. Owner(r) \in S  BY <2>4
    <3>2. pc[Owner(r)] = "Reserve"  BY <2>1, <2>3, <2>5, <3>1 DEF EventLocked
    <3>3. eventLock[EventOf[Owner(r)]] = Owner(r)
      BY <1>1, <2>3, <2>5, <3>2 DEF IInv, LocksHeld, EventLocked
    <3>4. Owner(Owner(r)) = Owner(r)  BY <3>2, <3>3
    <3>. QED  BY <2>1, <3>1, <3>4
  <2>6. ASSUME NEW r \in S, pc[r] = "LockBooking" PROVE FALSE
    BY <2>2, <2>4, <2>5, <2>6
  <2>. QED  BY <2>5, <2>6 DEF Stuck
<1>. QED  BY <1>1, AlwaysIInv, PTL

-----------------------------------------------------------------------------
(* Seats and bookings move together *)

\* A step that commits nothing moves neither.
LEMMA NothingMoves ==
  ASSUME UNCHANGED <<events, bookings>>  PROVE SeatsMove
BY DEF SeatsMove, Confirming, Cancelling

\* COMMIT moves booked_count by the tickets of the one booking it writes.
LEMMA CommitMoves ==
  ASSUME NEW r \in Requests, IInv, Persist(r), pc[r] = "Commit"  PROVE SeatsMove
<1> USE RequestAssumption DEF IInv
<1> DEFINE x == EventOf[r]
<1>1. /\ x \in Events /\ events[x] # NoRow
      /\ events' = [events EXCEPT ![x] = tx[r].row]
  BY DEF Persist, RowsRead, PendingWrites, EventLocked
<1>2. /\ \A e \in Events \ {x} : events'[e] = events[e]
      /\ events'[x] = tx[r].row
  BY <1>1 DEF TypeOK
<1>3. CASE r \in Books
  <2>1. /\ tx[r].row.booked = events[x].booked + Tickets[r] /\ bookings[r] = "none"
        /\ bookings' = [bookings EXCEPT ![r] = "confirmed"]
    BY <1>3 DEF Persist, BookingOf, PendingWrites, NotYetBooked, InTx
  <2>2. /\ bookings'[r] = "confirmed"
        /\ \A b \in Books \ {r} : bookings'[b] = bookings[b]
    BY <1>3, <2>1 DEF TypeOK
  <2>3. /\ Confirming(x) = {r} /\ Cancelling(x) = {}
        /\ \A e \in Events \ {x} : Confirming(e) = {} /\ Cancelling(e) = {}
    BY <1>3, <2>1, <2>2 DEF Confirming, Cancelling
  <2>4. \A b \in Books : bookings'[b] # bookings[b] =>
          <<bookings[b], bookings'[b]>> \in {<<"none", "confirmed">>, <<"confirmed", "cancelled">>}
    BY <2>1, <2>2
  <2> HIDE DEF IInv, x
  <2>. QED  BY <1>2, <2>1, <2>3, <2>4 DEF SeatsMove
<1>4. CASE r \in Cancels
  <2> DEFINE t == Target[r]
  <2>1. /\ tx[r].row.booked = events[x].booked - Tickets[t] /\ bookings[t] = "confirmed"
        /\ bookings' = [bookings EXCEPT ![t] = "cancelled"]
        /\ t \in Books /\ EventOf[t] = x
    BY <1>4 DEF Persist, BookingOf, PendingWrites, LocksHeld
  <2>2. /\ bookings'[t] = "cancelled"
        /\ \A b \in Books \ {t} : bookings'[b] = bookings[b]
    BY <2>1 DEF TypeOK
  <2>3. /\ Confirming(x) = {} /\ Cancelling(x) = {t}
        /\ \A e \in Events \ {x} : Confirming(e) = {} /\ Cancelling(e) = {}
    BY <2>1, <2>2 DEF Confirming, Cancelling
  <2>4. \A b \in Books : bookings'[b] # bookings[b] =>
          <<bookings[b], bookings'[b]>> \in {<<"none", "confirmed">>, <<"confirmed", "cancelled">>}
    BY <2>1, <2>2
  <2> HIDE DEF IInv, x, t
  <2>. QED  BY <1>2, <2>1, <2>3, <2>4 DEF SeatsMove
<1>5. CASE r \in Updates
  <2>1. tx[r].row.booked = events[x].booked /\ bookings' = bookings
    BY <1>5 DEF Persist, BookingOf, PendingWrites
  <2>2. \A e \in Events : Confirming(e) = {} /\ Cancelling(e) = {}
    BY <2>1 DEF Confirming, Cancelling
  <2> HIDE DEF IInv, x
  <2>. QED  BY <1>2, <2>1, <2>2 DEF SeatsMove
<1>. QED  BY <1>3, <1>4, <1>5

\* Only COMMIT writes to the database.
LEMMA NextMoves ==
  ASSUME IInv, Next  PROVE SeatsMove
<1> USE DEF db
<1>1. ASSUME NEW r \in Requests, TxStep(r) PROVE SeatsMove
  BY <1>1, NothingMoves, CommitMoves DEF TxStep, Commit, DeadCommit, Rollback
<1>2. ASSUME NEW r \in Requests, LockEvent(r) \/ Start(r) PROVE SeatsMove
  BY <1>2, NothingMoves DEF LockEvent, Start
<1>3. ASSUME NEW b \in Books, BookStep(b) PROVE SeatsMove
  BY <1>2, <1>3, NothingMoves DEF BookStep, KeyExists, SyncRead, SetNx, Decr, Recheck, Heal,
     Undo, DelKey, Rules, Reserve, Insert, GiveBack
<1>4. ASSUME NEW c \in Cancels, CancelStep(c) PROVE SeatsMove
  BY <1>2, <1>4, NothingMoves DEF CancelStep, LockBooking, TakeBooking, CancelWrites, ReturnSeats
<1>5. ASSUME NEW u \in Updates, UpdateStep(u) PROVE SeatsMove
  BY <1>5, NothingMoves DEF UpdateStep, ReadRow, WriteRow
<1>6. ASSUME NEW r \in Requests, CommitFault(r) PROVE SeatsMove
  BY <1>6, NothingMoves, CommitMoves DEF CommitFault
<1>7. CASE FaultStep
  BY <1>6, <1>7, NothingMoves DEF FaultStep, RedisFault, RedisResend, ReadFault,
     StatementFault, AuditFault, RollbackFault, Crash, Flush
<1>8. CASE Finished  BY <1>8, NothingMoves DEF Finished, vars
<1>. QED  BY <1>1, <1>2, <1>3, <1>4, <1>5, <1>7, <1>8 DEF Next, Step

\* In every execution booked_count moves only with one booking of the event, by its
\* ticket count, and a booking goes from none to confirmed to cancelled.
THEOREM SeatsFollowBookings == Spec => SeatsMoveWithBookings
<1>1. IInv /\ [Next]_vars => [SeatsMove]_vars  BY NextMoves
<1>2. Spec => [][SeatsMove]_vars  BY <1>1, AlwaysIInv, PTL DEF Spec
<1>. QED  BY <1>2 DEF SeatsMoveWithBookings
=============================================================================
