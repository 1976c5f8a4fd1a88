-------------------------- MODULE BookingAnswerProofs --------------------------
(***************************************************************************)
(* Proofs, for every instance, of what the clients are told and of what    *)
(* the audit trail records: the third layer of the invariant, AnswerInv,   *)
(* on top of IInv and LedgerInv; that "sold out" is true, and that a race  *)
(* for single seats fills them all, whatever the Redis counter held.       *)
(***************************************************************************)
EXTENDS BookingLedgerProofs

USE DEF Requests

-----------------------------------------------------------------------------
(* The initial states *)

\* Before any request runs, each booking has its success row and nobody an error.
LEMMA InitAnswers == ASSUME Init PROVE AnswerInv
<1> USE RequestAssumption, InitAssumption DEF Init
<1>1. AuditPending /\ AuditTrail
  BY DEF AuditPending, AuditTrail
<1>2. Unanswered /\ NothingFails
  BY DEF Unanswered, OnItsWay, PreTx, InTx, NothingFails
<1>3. RefusalChangesNothing /\ NotYetCancelled
  BY DEF RefusalChangesNothing, Refusals, CancelRefusals, NotYetCancelled
<1> QED BY <1>1, <1>2, <1>3 DEF AnswerInv

-----------------------------------------------------------------------------
(* The audit trail *)

\* Insert, ReturnSeats and WriteRow queue the success row with the writes.
LEMMA AuditPendingStep ==
  ASSUME AuditPending, NEW r \in Requests, Moved(r)  PROVE AuditPending'
BY DEF AuditPending, Moved, Others

\* COMMIT writes the booking and its success row together.
LEMMA AuditTrailStep ==
  ASSUME IInv, AuditPending, AuditTrail, NEW r \in Requests, Moved(r)  PROVE AuditTrail'
<1> USE RequestAssumption
<1>1. CASE UNCHANGED db
  BY <1>1 DEF AuditTrail, db
<1>2. CASE pc[r] = "Commit" /\ Persist(r)
  <2>0. audit \in [Requests -> SUBSET Outcomes] /\ tx[r].audit = {"success"}
    BY <1>2 DEF AuditPending, IInv, TypeOK
  <2>1. /\ "success" \in audit'[r]
        /\ \A q \in Requests \ {r} : audit'[q] = audit[q]
    <3>1. audit' = [audit EXCEPT ![r] = @ \cup {"success"}]
      BY <1>2, <2>0, CommitEffect
    <3> QED BY <2>0, <3>1
  <2>2. CASE r \in Books
    <3>1. bookings[r] = "none" /\ bookings'[r] = "confirmed"
          /\ \A b \in Books \ {r} : bookings'[b] = bookings[b]
      BY <1>2, <2>2, CommitEffect DEF IInv, TypeOK
    <3> QED BY <2>1, <2>2, <3>1 DEF AuditTrail
  <2>3. CASE r \in Cancels
    <3> DEFINE t == Target[r]
    <3>1. /\ t \in Books /\ bookings[t] = "confirmed" /\ bookings'[t] = "cancelled"
          /\ \A b \in Books \ {t} : bookings'[b] = bookings[b]
      BY <1>2, <2>3, CommitEffect DEF IInv, TypeOK
    <3>2. \A c \in Cancels : Target[c] = t => "success" \notin audit[c]
      BY <3>1 DEF AuditTrail
    <3>3. \A b \in Books : bookings'[b] # "none" <=> "success" \in audit'[b]
      BY <2>1, <2>3, <3>1 DEF AuditTrail
    <3>4. \A b \in Books : bookings'[b] = "cancelled" <=>
             \E c \in Cancels : Target[c] = b /\ "success" \in audit'[c]
      BY <2>1, <2>3, <3>1, <3>2 DEF AuditTrail
    <3>5. \A c, d \in Cancels :
             Target[c] = Target[d] /\ "success" \in audit'[c] \cap audit'[d] => c = d
      BY <2>1, <2>3, <3>2 DEF AuditTrail
    <3> QED BY <3>3, <3>4, <3>5 DEF AuditTrail
  <2>4. CASE r \in Updates
    <3>1. bookings' = bookings
      BY <1>2, <2>4, CommitEffect
    <3> QED BY <2>1, <2>4, <3>1 DEF AuditTrail
  <2> QED BY <2>2, <2>3, <2>4
<1> QED BY <1>1, <1>2 DEF Moved

-----------------------------------------------------------------------------
(* The answers *)

\* A refusal is given before COMMIT, when the request has no booking; and the only
\* other request that writes the booking cancels one that was confirmed.
LEMMA RefusedBookingStep ==
  ASSUME IInv, RefusalChangesNothing, NEW r \in Requests, Moved(r),
         NEW b \in Books, reply'[b] \in Refusals
  PROVE  bookings'[b] = "none"
<1> USE RequestAssumption
<1>0. b \in Requests
  OBVIOUS
<1>1. (b = r => pc[r] # "Commit") /\ bookings[b] = "none"
  <2>1. CASE b = r
    <3>1. pc[b] \in PreTx \cup (InTx \ {"Commit"}) => bookings[b] = "none"
      BY DEF IInv, NotYetBooked
    <3>2. reply[b] \in Refusals => bookings[b] = "none"
      BY DEF RefusalChangesNothing
    <3>3. \/ reply'[r] = reply[r] /\ pc[r] # "Commit"
          \/ pc[r] \in PreTx \cup (InTx \ {"Commit"})
      BY <2>1 DEF Moved
    <3> QED BY <2>1, <3>1, <3>2, <3>3 DEF PreTx
  <2>2. CASE b # r
    BY <1>0, <2>2 DEF Moved, Others, RefusalChangesNothing
  <2> QED BY <2>1, <2>2
<1>2. CASE UNCHANGED db
  BY <1>1, <1>2 DEF db
<1>3. CASE pc[r] = "Commit" /\ Persist(r)
  <2>1. b # r
    BY <1>1, <1>3
  <2>2. bookings \in [Books -> {"none", "confirmed", "cancelled"}]
    BY DEF IInv, TypeOK
  <2>3. r \in Books => bookings'[b] = bookings[b]
    BY <1>3, <2>1, <2>2, CommitEffect
  <2>4. r \in Cancels => bookings'[b] = bookings[b]
    BY <1>1, <1>3, <2>2, CommitEffect
  <2>5. r \in Updates => bookings'[b] = bookings[b]
    BY <1>3, CommitEffect
  <2> QED BY <1>1, <2>3, <2>4, <2>5
<1> QED BY <1>2, <1>3 DEF Moved

\* The success row of a cancellation comes with its COMMIT alone, and none that has
\* committed is refused or tried again afterwards.
LEMMA RefusedCancelStep ==
  ASSUME IInv, RefusalChangesNothing, NotYetCancelled, NEW r \in Requests, Moved(r),
         NEW c \in Cancels,
         \/ reply'[c] \in CancelRefusals
         \/ pc'[c] \in InTx \cup {"Idle"}
         \/ pc'[c] = "Rollback" /\ reply'[c] = "Deadlock"
  PROVE  "success" \notin audit'[c]
<1> USE RequestAssumption
<1>0. c \in Requests /\ pc[c] \notin PreTx
  BY DEF IInv, PcFits
<1>1. "success" \notin audit[c] /\ (c = r => pc[c] # "Commit")
  <2>1. CASE c = r
    <3>1. pc[c] \in InTx \cup {"Idle"} \/ (pc[c] = "Rollback" /\ reply[c] = "Deadlock")
             => "success" \notin audit[c]
      BY DEF NotYetCancelled
    <3>2. reply[c] \in CancelRefusals => "success" \notin audit[c]
      BY DEF RefusalChangesNothing
    <3>3. \/ reply'[r] = reply[r] /\ reply[r] \in CancelRefusals /\ pc[r] # "Commit"
          \/ pc[r] \in PreTx \cup {"Idle"} \cup (InTx \ {"Commit"})
          \/ pc[r] = "Rollback" /\ reply[r] = "Deadlock"
      BY <2>1 DEF Moved
    <3>4. pc[c] # "Commit"
      BY <2>1, <3>3 DEF PreTx
    <3> QED BY <1>0, <2>1, <3>1, <3>2, <3>3, <3>4
  <2>2. CASE c # r
    <3>1. pc'[c] = pc[c] /\ reply'[c] = reply[c]
      BY <1>0, <2>2 DEF Moved, Others
    <3> QED BY <2>2, <3>1 DEF RefusalChangesNothing, NotYetCancelled
  <2> QED BY <2>1, <2>2
<1>2. CASE UNCHANGED db
  BY <1>1, <1>2 DEF db
<1>3. CASE pc[r] = "Commit" /\ Persist(r)
  <2>1. c # r
    BY <1>1, <1>3
  <2>2. audit'[c] = audit[c]
    BY <1>0, <1>3, <2>1 DEF Persist, IInv, TypeOK
  <2> QED BY <1>1, <2>2
<1> QED BY <1>2, <1>3 DEF Moved

\* Refusals stay true, and what may still be tried has done nothing.
LEMMA RefusalStep ==
  ASSUME IInv, RefusalChangesNothing, NotYetCancelled, NEW r \in Requests, Moved(r)
  PROVE  RefusalChangesNothing' /\ NotYetCancelled'
<1>1. \A b \in Books : reply'[b] \in Refusals => bookings'[b] = "none"
  BY RefusedBookingStep
<1>2. \A c \in Cancels :
         \/ reply'[c] \in CancelRefusals
         \/ pc'[c] \in InTx \cup {"Idle"}
         \/ pc'[c] = "Rollback" /\ reply'[c] = "Deadlock"
         => "success" \notin audit'[c]
  BY RefusedCancelStep
<1> QED BY <1>1, <1>2 DEF RefusalChangesNothing, NotYetCancelled

\* No CHECK of the schema refuses a row that the locks and the ledger vouch for.
LEMMA NoBadWrite ==
  ASSUME IInv, LedgerInv, NEW r \in Requests  PROVE ~BadWrite(r)
<1> USE RequestAssumption
<1> DEFINE x == EventOf[r]
<1>1. ASSUME pc[r] \in {"Reserve", "CancelWrites"}
      PROVE  /\ x \in Events /\ events[x] \in Row
             /\ 0 <= events[x].booked /\ events[x].booked <= events[x].capacity
             /\ events[x].booked = Sold(x)
  <2>1. x \in Events /\ events[x] # NoRow
    BY <1>1 DEF IInv, RowsRead, EventLocked
  <2> QED BY <2>1 DEF IInv, TypeOK, NoOverbooking, LedgerInv, LedgerMatches
<1>2. ASSUME pc[r] = "Reserve", Reservable(events[x], Tickets[r])
      PROVE  CheckConstraint(Reserved(r))
  <2>1. r \in Books /\ Tickets[r] \in Nat
    BY <1>2 DEF IInv, PcFits
  <2> DEFINE row == events[x]
  <2>2. /\ row \in Row /\ 0 <= row.booked /\ row.booked <= row.capacity
        /\ row.capacity - row.booked >= Tickets[r]
    BY <1>1, <1>2 DEF Reservable
  <2>3. Reserved(r) = [row EXCEPT !.booked = @ + Tickets[r]]
    BY DEF Reserved
  <2> HIDE DEF row
  <2>4. /\ Reserved(r).capacity = row.capacity
        /\ Reserved(r).booked = row.booked + Tickets[r]
    BY <2>2, <2>3 DEF Row
  <2> QED BY <2>1, <2>2, <2>4 DEF CheckConstraint, Row
<1>3. ASSUME pc[r] = "CancelWrites"
      PROVE  CheckConstraint(Returned(r))
  <2> DEFINE t == Target[r]
  <2>1. r \in Cancels /\ t \in Books /\ EventOf[t] = x /\ bookings[t] = "confirmed"
    BY <1>3 DEF IInv, PcFits, LocksHeld
  <2>2. t \in SoldFor(x) /\ SoldFor(x) \in SUBSET Books
    BY <2>1 DEF SoldFor
  <2>3. Tickets[t] <= Sold(x) /\ Tickets[t] \in Nat
    <3>1. Sold(x) = SumOver(Tickets, SoldFor(x))
      BY SoldIsSum
    <3>2. Tickets[t] <= SumOver(Tickets, SoldFor(x))
      BY <2>2, TicketSum
    <3> QED BY <2>1, <3>1, <3>2
  <2>4. /\ Returned(r).capacity = events[x].capacity
        /\ Returned(r).booked = events[x].booked - Tickets[t]
    BY <1>1, <1>3, <2>1 DEF Returned, TicketsOf, Row
  <2> QED BY <1>1, <1>3, <2>3, <2>4 DEF CheckConstraint, Row
<1> QED BY <1>2, <1>3 DEF BadWrite

\* Only withDeadlockRetry makes a second attempt, and only of a deadlock victim.
LEMMA OnlyVictimsRetry ==
  ASSUME TypeOK, [Next]_vars, NEW q \in Requests, reply[q] # "Deadlock"
  PROVE  retries'[q] = retries[q]
<1> USE DEF local
<1>1. ASSUME NEW r \in Requests, Rollback(r)
      PROVE  retries' = retries \/ (reply[r] = "Deadlock" /\ retries' = [retries EXCEPT ![r] = @ + 1])
  BY <1>1 DEF Rollback, MayRetry
<1>2. CASE UNCHANGED retries
  BY <1>2
<1>3. CASE \E r \in Requests : Rollback(r)
  BY <1>1, <1>3 DEF TypeOK
<1>4. (\E b \in Books : BookStep(b)) => UNCHANGED retries
  BY DEF BookStep, KeyExists, SyncRead, SetNx, Decr, Recheck, Heal, Undo, DelKey, LockEvent,
         Rules, Reserve, Insert, GiveBack
<1>5. (\E c \in Cancels : CancelStep(c)) => UNCHANGED retries
  BY DEF CancelStep, LockBooking, LockEvent, CancelWrites, ReturnSeats
<1>6. (\E u \in Updates : UpdateStep(u)) => UNCHANGED retries
  BY DEF UpdateStep, ReadRow, WriteRow
<1>7. ASSUME NEW r \in Requests, Start(r) \/ Commit(r) \/ DeadCommit(r)
      PROVE  UNCHANGED retries
  BY <1>7 DEF Start, Commit, DeadCommit
<1>8. FaultStep => UNCHANGED retries
  BY DEF FaultStep, RedisFault, RedisResend, ReadFault, StatementFault, AuditFault, CommitFault,
         RollbackFault, Crash, Flush
<1>9. Finished \/ UNCHANGED vars => UNCHANGED retries
  BY DEF Finished, vars
<1> QED BY <1>2, <1>3, <1>4, <1>5, <1>6, <1>7, <1>8, <1>9 DEF Next, Step, TxStep

\* So no booking and no cancellation answers 500, or is tried again, before something
\* has failed.
LEMMA NothingFailsStep ==
  ASSUME IInv, LedgerInv, NothingFails, [Next]_vars, NEW r \in Requests, Moved(r)
  PROVE  NothingFails'
<1> USE RequestAssumption
<1>1. ~BadWrite(r)
  BY NoBadWrite
<1> SUFFICES ASSUME faults' = 0, NEW q \in Books \cup Cancels
             PROVE  reply'[q] \notin {"Error", "Deadlock"} /\ retries'[q] = 0
  BY DEF NothingFails
<1>2. /\ faults = 0 /\ q \in Requests /\ q \notin Updates
      /\ reply[q] \notin {"Error", "Deadlock"} /\ retries[q] = 0
  BY DEF Moved, NothingFails
<1>3. retries'[q] = 0
  BY <1>2, OnlyVictimsRetry DEF IInv
<1>4. CASE q = r
  BY <1>1, <1>2, <1>3, <1>4 DEF Moved
<1>5. CASE q # r
  BY <1>2, <1>3, <1>5 DEF Moved, Others
<1> QED BY <1>4, <1>5

-----------------------------------------------------------------------------
(* The theorems *)

\* Every step preserves the third layer.
LEMMA AnswerStep ==
  ASSUME IInv, LedgerInv, AnswerInv, [Next]_vars  PROVE AnswerInv'
<1>1. Unanswered /\ Unanswered'
  BY UnansweredStep DEF AnswerInv
<1>2. CASE UNCHANGED <<events, bookings, audit, pc, reply, tx>> /\ (faults' = 0 => faults = 0)
  <2>1. AuditPending' /\ AuditTrail'
    BY <1>2 DEF AnswerInv, AuditPending, AuditTrail
  <2>2. RefusalChangesNothing' /\ NotYetCancelled'
    BY <1>2 DEF AnswerInv, RefusalChangesNothing, NotYetCancelled
  <2>3. NothingFails'
    <3>1. ASSUME NEW q \in Books \cup Cancels, NothingFails, faults = 0
          PROVE  retries'[q] = retries[q]
      BY <3>1, OnlyVictimsRetry DEF NothingFails, IInv
    <3> QED BY <1>2, <3>1 DEF AnswerInv, NothingFails
  <2> QED BY <1>1, <2>1, <2>2, <2>3 DEF AnswerInv
<1>3. ASSUME NEW r \in Requests, Moved(r) PROVE AnswerInv'
  BY <1>1, <1>3, AuditPendingStep, AuditTrailStep, RefusalStep, NothingFailsStep DEF AnswerInv
<1> QED BY <1>1, <1>2, <1>3, NextMoved

\* AnswerInv, the third layer of the invariant, holds in every reachable state.
THEOREM AlwaysAnswerInv == Spec => []AnswerInv
<1>1. Init => AnswerInv
  BY InitAnswers
<1>2. IInv /\ LedgerInv /\ AnswerInv /\ [Next]_vars => AnswerInv'
  BY AnswerStep
<1> QED BY <1>1, <1>2, AlwaysIInv, AlwaysLedgerInv, PTL DEF Spec

\* NoErrorWithoutFault: as long as nothing has failed, no booking and no cancellation
\* (updates are not meant) has been answered 500 or tried a second time.
THEOREM NothingFailsAlone == Spec => []NoErrorWithoutFault
<1>1. AnswerInv => NoErrorWithoutFault
  BY DEF AnswerInv, NothingFails, NoErrorWithoutFault
<1> QED BY <1>1, AlwaysAnswerInv, PTL

\* RefusalChangesNothing: a client that bookSpot has refused with 404 or 409 has no
\* booking, and one that cancelBooking has refused with 403, 404 or 422 has cancelled
\* nothing, also when an earlier attempt of the request failed.
THEOREM RefusedMeansUnchanged == Spec => []RefusalChangesNothing
<1>1. AnswerInv => RefusalChangesNothing
  BY DEF AnswerInv
<1> QED BY <1>1, AlwaysAnswerInv, PTL

\* AuditMatches: bookings and success rows of the audit log come and go together,
\* through rollbacks, lost COMMITs and crashes.
THEOREM AuditAlwaysMatches == Spec => []AuditMatches
<1>1. AnswerInv => AuditMatches
  <2> SUFFICES ASSUME AnswerInv, NEW b \in Books
               PROVE  /\ bookings[b] # "none" <=> "success" \in audit[b]
                      /\ bookings[b] = "cancelled" <=>
                           Cardinality({c \in Cancels : Target[c] = b /\ "success" \in audit[c]}) = 1
    BY DEF AuditMatches
  <2> DEFINE S == {c \in Cancels : Target[c] = b /\ "success" \in audit[c]}
  <2>1. AuditTrail
    BY DEF AnswerInv
  <2>2. CASE bookings[b] = "cancelled"
    <3>1. PICK c \in S : TRUE
      BY <2>1, <2>2 DEF AuditTrail
    <3>2. S = {c}
      BY <2>1 DEF AuditTrail
    <3>3. Cardinality(S) = 1
      BY <3>2, FS_Singleton
    <3> QED BY <2>1, <2>2, <3>3 DEF AuditTrail
  <2>3. CASE bookings[b] # "cancelled"
    <3>1. S = {}
      BY <2>1, <2>3 DEF AuditTrail
    <3>2. Cardinality(S) = 0
      BY <3>1, FS_EmptySet
    <3> QED BY <2>1, <2>3, <3>2 DEF AuditTrail
  <2> QED BY <2>2, <2>3
<1> QED BY <1>1, AlwaysAnswerInv, PTL

-----------------------------------------------------------------------------
(* "Sold out" *)

\* A sale takes its tickets from what its event has left, and nothing else moves.
LEMMA SaleEffect ==
  ASSUME IInv, LedgerInv, OnlySales, NEW r \in Requests,
         UNCHANGED db \/ (pc[r] = "Commit" /\ Persist(r)),
         NEW e \in Events, events[e] # NoRow
  PROVE  /\ events'[e] # NoRow /\ events[e] \in Row /\ Remaining(events[e]) \in Int
         /\ Remaining(events'[e]) \in Int
         /\ Remaining(events'[e]) <= Remaining(events[e])
         /\ pc[r] = "Commit" /\ Persist(r) /\ EventOf[r] = e =>
               Remaining(events'[e]) = Remaining(events[e]) - Tickets[r]
<1> USE RequestAssumption
<1>1. r \in Books /\ Tickets[r] \in Nat /\ events[e] \in Row /\ Remaining(events[e]) \in Int
  BY DEF OnlySales, IInv, TypeOK, Remaining, Row
<1>2. CASE pc[r] = "Commit" /\ Persist(r) /\ EventOf[r] = e
  <2>1. events'[e] = tx[r].row /\ tx[r].row # NoRow
    BY <1>2, CommitEffect DEF IInv, TypeOK
  <2>2. tx[r].row = [events[e] EXCEPT !.booked = @ + Tickets[r]]
    BY <1>1, <1>2 DEF LedgerInv, SaleChecked, Reserved
  <2>3. Remaining(tx[r].row) = Remaining(events[e]) - Tickets[r]
    BY <1>1, <2>2 DEF Remaining, Row
  <2> QED BY <1>1, <2>1, <2>3
<1>3. CASE ~(pc[r] = "Commit" /\ Persist(r) /\ EventOf[r] = e)
  <2>1. events'[e] = events[e]
    BY <1>3, CommitEffect DEF IInv, TypeOK, db
  <2> QED BY <1>1, <1>3, <2>1
<1> QED BY <1>2, <1>3

\* Whoever is told "sold out" has compared with the row as it was or has fallen since.
LEMMA SoldOutStep ==
  ASSUME IInv, LedgerInv, OnlySales, SoldOutStays, NEW r \in Requests, Moved(r)
  PROVE  SoldOutStays'
<1> USE RequestAssumption
<1> SUFFICES ASSUME NEW b \in Books, pc'[b] = "Undo" \/ reply'[b] = "SoldOut"
             PROVE  events'[EventOf[b]] # NoRow /\ Remaining(events'[EventOf[b]]) < Tickets[b]
  BY DEF SoldOutStays, Remaining
<1> DEFINE e == EventOf[b]
<1>1. e \in Events /\ Tickets[b] \in Nat /\ b \in Requests
  OBVIOUS
<1>2. events[e] # NoRow /\ Remaining(events[e]) < Tickets[b]
  <2>1. CASE b # r
    BY <2>1 DEF Moved, Others, SoldOutStays
  <2>2. CASE b = r /\ pc'[b] = "Undo"
    <3>1. events[e] # NoRow /\ ~(Remaining(events[e]) >= Tickets[b])
      BY <2>2 DEF Moved, HealWanted
    <3>2. events[e] \in Row
      BY <1>1, <3>1 DEF IInv, TypeOK
    <3> QED BY <1>1, <3>1, <3>2 DEF Remaining, Row
  <2>3. CASE b = r /\ reply'[b] = "SoldOut"
    <3>1. \/ reply[b] = "SoldOut" \/ pc[b] = "Undo"
          \/ pc[b] = "Rules" /\ Verdict(b) = "SoldOut"
      BY <2>3 DEF Moved, Explained, Success
    <3>2. ASSUME pc[b] = "Rules", Verdict(b) = "SoldOut"
          PROVE  events[e] # NoRow /\ Remaining(events[e]) < Tickets[b]
      <4>1. view[b] = events[e] /\ events[e] # NoRow
        BY <1>1, <3>2 DEF IInv, ViewIsCurrent, RowsRead, EventLocked
      <4>2. Remaining(view[b]) < Tickets[b]
        BY <3>2 DEF Verdict
      <4> QED BY <4>1, <4>2
    <3> QED BY <3>1, <3>2 DEF SoldOutStays
  <2> QED BY <2>1, <2>2, <2>3
<1>3. /\ events'[e] # NoRow /\ Remaining(events[e]) \in Int /\ Remaining(events'[e]) \in Int
      /\ Remaining(events'[e]) <= Remaining(events[e])
  BY <1>1, <1>2, SaleEffect DEF Moved
<1> QED BY <1>1, <1>2, <1>3

\* SoldOutIsJustified, as long as seats are only sold: whatever the counter says, is lost
\* or wrong about, a request told "sold out" finds fewer seats than it asked for.
THEOREM NeverRefusedInError == ASSUME OnlySales PROVE Spec => []SoldOutIsJustified
<1>1. Init => SoldOutStays
  BY RequestAssumption, InitAssumption DEF Init, SoldOutStays
<1>2. IInv /\ Unanswered /\ LedgerInv /\ SoldOutStays /\ [Next]_vars => SoldOutStays'
  <2> SUFFICES ASSUME IInv, Unanswered, LedgerInv, SoldOutStays, [Next]_vars PROVE SoldOutStays'
    OBVIOUS
  <2>1. CASE UNCHANGED <<events, bookings, audit, pc, reply, tx>>
    BY <2>1 DEF SoldOutStays, Remaining
  <2> QED BY <2>1, NextMoved, SoldOutStep
<1>3. SoldOutStays => SoldOutIsJustified
  BY DEF SoldOutStays, SoldOutIsJustified
<1> QED BY <1>1, <1>2, <1>3, AlwaysIInv, AlwaysUnanswered, AlwaysLedgerInv, PTL DEF Spec

-----------------------------------------------------------------------------
(* "Exactly N bookings for N spots": the race *)

\* Sums of tickets count bookings.
LEMMA RaceCounts ==
  ASSUME Race, NEW S \in SUBSET Books
  PROVE  /\ IsFiniteSet(S) /\ Cardinality(S) \in Nat
         /\ SumOver(Tickets, S) = Cardinality(S)
<1>1. IsFiniteSet(S) /\ \A b \in S : Tickets[b] = 1
  BY FiniteAssumption, FS_Subset DEF Race
<1> QED BY <1>1, SumOnes, FS_CardinalityType

\* The limit per user lets every request of the race in.
LEMMA RaceQuota ==
  ASSUME Race, NEW b \in Books, bookings[b] = "none"
  PROVE  TicketsHeld(UserOf[b], EventOf[b]) + 1 <= MaxPerUser
<1> DEFINE u == UserOf[b]
           e == EventOf[b]
           All == {q \in Books : UserOf[q] = u /\ EventOf[q] = e}
           Has == Confirmed(u, e)
<1>1. u \in Users /\ e \in Events /\ b \in All
  BY RequestAssumption
<1>2. Has \in SUBSET (All \ {b}) /\ Has \in SUBSET Books /\ All \in SUBSET Books
  BY DEF Confirmed
<1>3. TicketsHeld(u, e) = Cardinality(Has) /\ Cardinality(Has) \in Nat
  BY <1>2, RaceCounts, HeldIsSum
<1>4. Cardinality(All) <= MaxPerUser
  BY <1>1 DEF Race
<1>5. IsFiniteSet(All) /\ Cardinality(All) \in Nat
  BY <1>2, RaceCounts
<1> HIDE DEF All, Has, u, e
<1>6. IsFiniteSet(All \ {b}) /\ Cardinality(All \ {b}) = Cardinality(All) - 1
  BY <1>1, <1>5, FS_RemoveElement
<1>7. Cardinality(Has) <= Cardinality(All \ {b})
  BY <1>2, <1>6, FS_Subset
<1>8. TicketsHeld(u, e) + 1 <= MaxPerUser
  BY <1>3, <1>4, <1>5, <1>6, <1>7, LimitAssumption
<1> QED BY <1>8 DEF u, e

\* So validateBookingRules stops a request only when the seats are gone.
LEMMA RaceVerdict ==
  ASSUME IInv, Race, RaceInv, NEW b \in Books, pc[b] = "Rules"
  PROVE  Verdict(b) \in {"none", "SoldOut"}
<1> USE RequestAssumption, LimitAssumption
<1>1. view[b] = events[EventOf[b]] /\ events[EventOf[b]] # NoRow /\ EventOf[b] \in Events
  BY DEF IInv, ViewIsCurrent, RowsRead, EventLocked
<1>2. view[b].status = "published"
  BY <1>1 DEF RaceInv
<1>3. bookings[b] = "none"
  BY DEF IInv, NotYetBooked, InTx
<1>4. Tickets[b] = 1 /\ ~(1 > MaxPerBooking)
  BY DEF Race
<1>5. ~(TicketsHeld(UserOf[b], EventOf[b]) + 1 > MaxPerUser)
  <2>1. TicketsHeld(UserOf[b], EventOf[b]) + 1 <= MaxPerUser
    BY <1>3, RaceQuota
  <2>2. TicketsHeld(UserOf[b], EventOf[b]) \in Nat
    <3>1. Confirmed(UserOf[b], EventOf[b]) \in SUBSET Books
      BY DEF Confirmed
    <3> QED BY <3>1, HeldIsSum, TicketSum
  <2> QED BY <2>1, <2>2
<1> QED BY <1>2, <1>4, <1>5 DEF Verdict

\* COMMIT books the request; no other step touches a booking or an event's row, and
\* a sale changes only its booked_count.
LEMMA RaceRows ==
  ASSUME IInv, LedgerInv, Race, NEW r \in Requests, Moved(r)
  PROVE  /\ r \in Books
         /\ \A b \in Books \ {r} : bookings'[b] = bookings[b]
         /\ \/ UNCHANGED db
            \/ pc[r] = "Commit" /\ Persist(r) /\ bookings'[r] = "confirmed"
         /\ \A e \in Events :
               /\ events'[e] = NoRow <=> events[e] = NoRow
               /\ events[e] # NoRow => /\ events'[e].capacity = events[e].capacity
                                       /\ events'[e].status = events[e].status
<1> USE RequestAssumption
<1>1. r \in Books
  BY DEF Race, OnlySales
<1>2. CASE UNCHANGED db
  BY <1>1, <1>2 DEF db
<1>3. CASE pc[r] = "Commit" /\ Persist(r)
  <2> DEFINE x == EventOf[r]
  <2>1. /\ x \in Events /\ events[x] # NoRow /\ tx[r].row # NoRow
        /\ events' = [events EXCEPT ![x] = tx[r].row]
        /\ bookings' = [bookings EXCEPT ![r] = "confirmed"]
    BY <1>1, <1>3, CommitEffect
  <2>2. TypeOK
    BY DEF IInv
  <2>3. tx[r].row = [events[x] EXCEPT !.booked = @ + Tickets[r]] /\ events[x] \in Row
    BY <1>1, <1>3, <2>1, <2>2 DEF LedgerInv, SaleChecked, Reserved, TypeOK
  <2>4. tx[r].row.capacity = events[x].capacity /\ tx[r].row.status = events[x].status
    BY <2>3 DEF Row
  <2>5. /\ \A b \in Books \ {r} : bookings'[b] = bookings[b]
        /\ bookings'[r] = "confirmed"
    BY <1>1, <2>1, <2>2 DEF TypeOK
  <2>6. /\ events'[x] = tx[r].row
        /\ \A e \in Events \ {x} : events'[e] = events[e]
    BY <2>1, <2>2 DEF TypeOK
  <2> QED BY <1>1, <1>3, <2>1, <2>4, <2>5, <2>6
<1> QED BY <1>2, <1>3 DEF Moved

\* The answers of the race.
LEMMA RaceAnswer ==
  ASSUME IInv, IInv', Unanswered, LedgerInv, Race, RaceInv, NEW r \in Requests, Moved(r)
  PROVE  /\ reply'[r] \in {"none", "Created", "SoldOut", "NotFound"}
         /\ reply'[r] = "NotFound" \/ pc'[r] = "DelKey" => events[EventOf[r]] = NoRow
         /\ reply'[r] = "Created" <=> bookings'[r] = "confirmed"
         /\ pc'[r] # "DeadCommit"
<1> USE RequestAssumption
<1>1. r \in Books /\ ~Failing /\ ~BadWrite(r)
  BY RaceRows, NoBadWrite DEF Race, Failing
<1>2. /\ reply[r] \in {"none", "Created", "SoldOut", "NotFound"}
      /\ reply[r] = "NotFound" \/ pc[r] = "DelKey" => events[EventOf[r]] = NoRow
      /\ reply[r] = "Created" <=> bookings[r] = "confirmed"
      /\ pc[r] # "DeadCommit"
  BY <1>1 DEF RaceInv
<1>3. pc'[r] # "DeadCommit" /\ (pc'[r] = "DelKey" => events[EventOf[r]] = NoRow)
  BY <1>1 DEF Moved
<1>4. reply'[r] # "Unreserved"
  BY <1>1 DEF IInv, ReserveNeverRefuses
<1>5. Explained(r)
  BY DEF Moved
<1>6. CASE pc[r] = "Commit" /\ Persist(r)
  <2>0. events[EventOf[r]] # NoRow /\ bookings[r] = "none" /\ bookings'[r] = "confirmed"
    BY <1>1, <1>6, CommitEffect DEF IInv, TypeOK
  <2>1. reply[r] = "none" /\ reply'[r] # "none"
    <3>1. pc'[r] \in {"Done", "Rollback"}
      BY <2>0 DEF Moved, db
    <3> QED BY <1>6, <3>1 DEF Unanswered, Moved, OnItsWay, PreTx, InTx
  <2>2. events[EventOf[r]] # NoRow /\ bookings'[r] = "confirmed"
    BY <2>0
  <2>3. reply'[r] = "Created"
    BY <1>1, <1>4, <1>5, <1>6, <2>1, <2>2 DEF Explained, Success
  <2> QED BY <1>3, <2>2, <2>3
<1>7. CASE UNCHANGED db /\ ~(pc[r] = "Commit" /\ Persist(r))
  <2>1. bookings'[r] = bookings[r]
    BY <1>7 DEF db
  <2>2. CASE reply'[r] = reply[r]
    BY <1>2, <1>3, <2>1, <2>2
  <2>3. CASE reply[r] = "none" /\ reply'[r] # "none"
    <3>1. \/ reply'[r] = "NotFound" /\ events[EventOf[r]] = NoRow
          \/ reply'[r] = "SoldOut"
          \/ reply'[r] = Verdict(r) /\ pc[r] = "Rules"
      BY <1>1, <1>2, <1>4, <1>5, <1>7, <2>3 DEF Explained
    <3>2. pc[r] = "Rules" => Verdict(r) \in {"none", "SoldOut"}
      BY <1>1, RaceVerdict
    <3> QED BY <1>2, <1>3, <2>1, <2>3, <3>1, <3>2
  <2>4. reply'[r] = reply[r] \/ (reply[r] = "none" /\ reply'[r] # "none")
    BY <1>1, <1>2, <1>5 DEF Explained
  <2> QED BY <2>2, <2>3, <2>4
<1> QED BY <1>6, <1>7 DEF Moved

\* Every step of a request keeps the race.
LEMMA RaceStep ==
  ASSUME IInv, IInv', Unanswered, LedgerInv, Race, RaceInv, NEW r \in Requests, Moved(r)
  PROVE  RaceInv'
<1> USE RequestAssumption
<1>1. SoldOutStays'
  BY SoldOutStep DEF Race, RaceInv
<1>2. /\ r \in Books
      /\ \A b \in Books \ {r} : bookings'[b] = bookings[b]
      /\ UNCHANGED db \/ bookings'[r] = "confirmed"
      /\ \A e \in Events :
            /\ events'[e] = NoRow <=> events[e] = NoRow
            /\ events[e] # NoRow => /\ events'[e].capacity = events[e].capacity
                                    /\ events'[e].status = events[e].status
  BY RaceRows
<1>3. ASSUME NEW b \in Books
      PROVE  /\ reply'[b] \in {"none", "Created", "SoldOut", "NotFound"}
             /\ reply'[b] = "NotFound" \/ pc'[b] = "DelKey" => events'[EventOf[b]] = NoRow
             /\ reply'[b] = "Created" <=> bookings'[b] = "confirmed"
             /\ b \in InitBooked => bookings'[b] = "confirmed"
             /\ pc'[b] # "DeadCommit"
  <2>1. EventOf[b] \in Events /\ b \in Requests
    OBVIOUS
  <2>2. CASE b = r
    <3>1. b \in InitBooked => bookings'[b] = "confirmed"
      BY <1>2, <2>2 DEF RaceInv, db
    <3> QED BY <1>2, <2>1, <2>2, <3>1, RaceAnswer
  <2>3. CASE b # r
    <3>1. reply'[b] = reply[b] /\ pc'[b] = pc[b] /\ bookings'[b] = bookings[b]
      BY <1>2, <2>1, <2>3 DEF Moved, Others
    <3> QED BY <1>2, <2>1, <3>1 DEF RaceInv
  <2> QED BY <2>2, <2>3
<1>4. ASSUME NEW e \in Events
      PROVE  /\ events'[e] = NoRow <=> InitEvents[e] = NoRow
             /\ events'[e] # NoRow => /\ events'[e].capacity = InitEvents[e].capacity
                                      /\ events'[e].status = "published"
  BY <1>2 DEF RaceInv
<1> QED BY <1>1, <1>3, <1>4 DEF RaceInv

-----------------------------------------------------------------------------
(* The finish of the race *)

\* The smaller of two numbers.
LEMMA MinOfTwo ==
  ASSUME NEW m \in Int, NEW n \in Int, m <= n
  PROVE  Min({m, n}) = m /\ Min({n, m}) = m
<1>1. ASSUME NEW S, S = {m, n} PROVE Min(S) = m
  <2>1. \E x \in S : \A y \in S : x <= y
    BY <1>1
  <2>2. Min(S) \in S /\ \A y \in S : Min(S) <= y
    BY <2>1 DEF Min
  <2> QED BY <1>1, <2>2
<1>2. {n, m} = {m, n}
  OBVIOUS
<1> QED BY <1>1, <1>2

\* The winners are as many as the seats that have gone.
LEMMA WinnersTookSeats ==
  ASSUME IInv, LedgerInv, Race, RaceInv, NEW e \in Events, events[e] # NoRow
  PROVE  /\ Remaining(InitEvents[e]) \in Int /\ Remaining(events[e]) \in Nat
         /\ Cardinality(Winners(e) \ InitBooked) = Remaining(InitEvents[e]) - Remaining(events[e])
<1> USE RequestAssumption, InitAssumption
<1> DEFINE First0 == {b \in InitBooked : EventOf[b] = e}
           Now == SoldFor(e)
<1>1. First0 \in SUBSET Books /\ Now \in SUBSET Books /\ Now \cap First0 = First0
  BY DEF SoldFor, RaceInv
<1>2. Winners(e) \ InitBooked = Now \ First0
  BY DEF Winners, SoldFor, RaceInv
<1>3. /\ IsFiniteSet(Now) /\ Cardinality(Now) \in Nat /\ Cardinality(First0) \in Nat
      /\ SumOver(Tickets, Now) = Cardinality(Now)
      /\ SumOver(Tickets, First0) = Cardinality(First0)
  BY <1>1, RaceCounts
<1>4. InitEvents[e] # NoRow /\ events[e].capacity = InitEvents[e].capacity
  BY DEF RaceInv
<1>5. InitEvents[e].booked = Cardinality(First0)
  BY <1>3, <1>4, LedgerAssumption DEF SumOver
<1>6. events[e].booked = Cardinality(Now)
  BY <1>3, SoldIsSum DEF LedgerInv, LedgerMatches
<1>7. events[e] \in Row /\ events[e].booked <= events[e].capacity
  BY DEF IInv, TypeOK, NoOverbooking
<1> HIDE DEF First0, Now
<1>8. Cardinality(Now \ First0) = Cardinality(Now) - Cardinality(First0)
  <2>1. Cardinality(Now \ First0) = Cardinality(Now) - Cardinality(Now \cap First0)
    BY <1>3, FS_Difference
  <2> QED BY <1>1, <2>1
<1>9. /\ Remaining(InitEvents[e]) = events[e].capacity - Cardinality(First0)
      /\ Remaining(events[e]) = events[e].capacity - Cardinality(Now)
      /\ events[e].capacity \in Nat /\ Cardinality(Now) <= events[e].capacity
  BY <1>4, <1>5, <1>6, <1>7 DEF Remaining, Row
<1>10. Cardinality(Winners(e) \ InitBooked) = Cardinality(Now) - Cardinality(First0)
  BY <1>2, <1>8 DEF Now, First0
<1> QED BY <1>3, <1>9, <1>10

\* NoUnderbooking, for every race of single-ticket requests: Redis losing its keys or
\* running commands twice costs nobody a seat.
THEOREM RaceFillsSeats == ASSUME Race PROVE Spec => []NoUnderbooking
<1>1. Init => RaceInv
  BY RequestAssumption, InitAssumption DEF Init, RaceInv, SoldOutStays, Race
<1>2. ASSUME IInv, IInv', Unanswered, LedgerInv, RaceInv, [Next]_vars PROVE RaceInv'
  <2>1. CASE UNCHANGED <<events, bookings, audit, pc, reply, tx>>
    BY <1>2, <2>1 DEF RaceInv, SoldOutStays, Remaining
  <2> QED BY <1>2, <2>1, NextMoved, RaceStep
<1>3. ASSUME IInv, Unanswered, LedgerInv, RaceInv PROVE NoUnderbooking
  <2> SUFFICES ASSUME AllAnswered, NEW e \in Events, events[e] # NoRow
               PROVE  Cardinality(Winners(e) \ InitBooked) =
                        Min({Cardinality(Runners(e)), Remaining(InitEvents[e])})
    BY DEF NoUnderbooking
  <2> DEFINE W == Winners(e) \ InitBooked
             R == Runners(e)
             first == Remaining(InitEvents[e])
             left == Remaining(events[e])
  <2>1. first \in Int /\ left \in Nat /\ Cardinality(W) = first - left
    BY <1>3, WinnersTookSeats
  <2>2. W \in SUBSET R /\ R \in SUBSET Books
    BY DEF Winners, Runners
  <2>3. IsFiniteSet(R) /\ Cardinality(R) \in Nat /\ Cardinality(W) <= Cardinality(R)
    BY <2>2, RaceCounts, FS_Subset
  <2>4. W = R \/ left = 0
    <3> SUFFICES ASSUME NEW b \in R \ W PROVE left = 0
      BY <2>2
    <3>1. b \in Books /\ EventOf[b] = e /\ b \notin InitBooked /\ reply[b] # "Created"
      BY DEF Winners, Runners
    <3>2. pc[b] = "Done"
      BY <3>1 DEF AllAnswered
    <3>3. reply[b] # "none"
      BY <1>3, <3>1, <3>2 DEF Unanswered, OnItsWay, PreTx, InTx
    <3>4. reply[b] = "SoldOut"
      BY <1>3, <3>1, <3>3 DEF RaceInv
    <3>5. left < Tickets[b] /\ Tickets[b] = 1
      BY <1>3, <3>1, <3>4 DEF RaceInv, SoldOutStays, Race
    <3> HIDE DEF left
    <3> QED BY <2>1, <3>5
  <2>5. \/ Cardinality(W) = Cardinality(R) /\ Cardinality(R) <= first
        \/ Cardinality(W) = first /\ first <= Cardinality(R)
    <3> HIDE DEF W, R, first, left
    <3> QED BY <2>1, <2>3, <2>4
  <2>6. Cardinality(R) \in Int
    BY <2>3
  <2> HIDE DEF W, R, first, left
  <2>7. Cardinality(W) = Min({Cardinality(R), first})
    BY <2>1, <2>5, <2>6, MinOfTwo
  <2> QED BY <2>7 DEF W, R, first
<1>4. IInv /\ IInv' /\ Unanswered /\ LedgerInv /\ RaceInv /\ [Next]_vars => RaceInv'
  BY <1>2
<1>5. IInv /\ Unanswered /\ LedgerInv /\ RaceInv => NoUnderbooking
  BY <1>3
<1> QED BY <1>1, <1>4, <1>5, AlwaysIInv, AlwaysUnanswered, AlwaysLedgerInv, PTL DEF Spec
===============================================================================
