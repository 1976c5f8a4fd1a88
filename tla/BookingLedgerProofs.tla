------------------------- MODULE BookingLedgerProofs -------------------------
(***************************************************************************)
(* Proofs, for every instance, that the committed rows are a ledger: the   *)
(* second layer of the invariant, LedgerInv, on top of IInv; booked_count  *)
(* and the limit per user, which are sums; and that Booking implements     *)
(* TicketLedger.                                                           *)
(***************************************************************************)
EXTENDS BookingProofs, FiniteSums

USE DEF Requests

-----------------------------------------------------------------------------
(* What one step does *)

\* An UPDATE whose new row a CHECK of the schema refuses.
Returned(r) == [events[EventOf[r]] EXCEPT !.booked = @ - TicketsOf(r)]
BadWrite(r) ==
    \/ pc[r] = "Reserve" /\ Reservable(events[EventOf[r]], Tickets[r])
                         /\ ~CheckConstraint(Reserved(r))
    \/ pc[r] = "CancelWrites" /\ ~CheckConstraint(Returned(r))

\* Where a new answer comes from: faults, in the third case.
Failing == FaultKinds \ {"flush", "resend"} # {}
Explained(r) ==
    \/ reply'[r] = reply[r]
    \/ /\ reply[r] = "none"
       /\ \/ reply'[r] = Success(r) /\ (pc[r] = "DeadCommit" \/ (pc[r] = "Commit" /\ Persist(r)))
          \/ r \in Books /\ reply'[r] = "NotFound"
                         /\ (events[EventOf[r]] = NoRow \/ pc[r] = "DelKey")
          \/ r \in Books /\ reply'[r] = "SoldOut" /\ pc[r] = "Undo"
          \/ r \in Books /\ reply'[r] = Verdict(r) /\ pc[r] = "Rules"
          \/ reply'[r] = "Unreserved" /\ pc[r] = "Reserve"
          \/ reply'[r] = "Error" /\ BadWrite(r)
          \/ r \notin Books
    \/ /\ Failing \/ reply[r] = "Deadlock"
       /\ reply'[r] \in {"none", "Error", "Deadlock", "Lost"}

\* What a step of r may do to the database, to its pending writes and its answer.
Moved(r) ==
    /\ Others(r)
    /\ faults' = 0 => faults = 0
    /\ \/ UNCHANGED db
       \/ pc[r] = "Commit" /\ Persist(r) /\ pc'[r] \in {"Done", "Rollback"}
    /\ pc'[r] = "Reserve" => pc[r] = "Rules" /\ Verdict(r) = "none"
    /\ pc'[r] = "Insert" => pc[r] = "Reserve" /\ tx'[r].row = Reserved(r)
    /\ pc'[r] = "ReturnSeats" => pc[r] = "CancelWrites" /\ tx'[r].row = Returned(r)
    /\ pc'[r] = "Commit" =>
          /\ tx'[r].audit = {"success"}
          /\ r \in Updates \/ (pc[r] \in {"Insert", "ReturnSeats"} /\ tx'[r].row = tx[r].row)
    /\ pc'[r] \in OnItsWay <=> reply'[r] = "none"
    /\ reply'[r] \in Refusals \cup CancelRefusals =>
          \/ reply'[r] = reply[r] /\ pc[r] # "Commit"
          \/ pc[r] \in PreTx \cup (InTx \ {"Commit"})
    /\ \/ pc'[r] \in InTx \cup {"Idle"}
       \/ pc'[r] = "Rollback" /\ reply'[r] = "Deadlock"
       => \/ pc[r] \in PreTx \cup {"Idle"} \cup (InTx \ {"Commit"})
          \/ pc[r] = "Rollback" /\ reply[r] = "Deadlock"
    /\ reply'[r] \in {"Error", "Deadlock"} =>
          \/ faults' # 0 \/ r \in Updates \/ reply[r] \in {"Error", "Deadlock"} \/ BadWrite(r)
    /\ Explained(r)
    /\ pc'[r] = "Undo" => pc[r] = "Recheck" /\ events[EventOf[r]] # NoRow /\ ~HealWanted(r)
    /\ pc'[r] = "DelKey" => pc[r] = "Recheck" /\ events[EventOf[r]] = NoRow
    /\ pc'[r] = "DeadCommit" => Failing

\* Write stores the new row in the transaction, or a CHECK aborts it.
LEMMA WriteEffect ==
  ASSUME NEW r, NEW writes, NEW next, Write(r, writes, next)
  PROVE  \/ /\ CheckConstraint(writes.row)
            /\ tx' = [tx EXCEPT ![r] = writes]
            /\ pc' = [pc EXCEPT ![r] = next] /\ reply' = reply
         \/ /\ ~CheckConstraint(writes.row)
            /\ tx' = [tx EXCEPT ![r] = NoTx]
            /\ pc' = [pc EXCEPT ![r] = "Rollback"] /\ reply' = [reply EXCEPT ![r] = "Error"]
BY DEF Write, EndTx, Throw, Goto

\* The three UPDATEs of the event row: reserveSpots, decrementBookedCount, updateWithClient.
LEMMA WriteMoved ==
  ASSUME TypeOK, Unanswered, NEW r \in Requests, NEW writes, NEW next, Write(r, writes, next),
         UNCHANGED <<db, spots, local, faults>>, pc[r] \in InTx \ {"Commit"},
         \/ /\ pc[r] = "Reserve" /\ next = "Insert" /\ writes.row = Reserved(r)
            /\ Reservable(events[EventOf[r]], Tickets[r])
         \/ pc[r] = "CancelWrites" /\ next = "ReturnSeats" /\ writes.row = Returned(r)
         \/ r \in Updates /\ next = "Commit" /\ writes.audit = {"success"}
  PROVE  Moved(r)
<1> USE DEF TypeOK, Moved, Explained, Failing, Others, Unanswered, OnItsWay, PreTx, InTx, Refusals, CancelRefusals, db, local
<1>1. /\ reply[r] = "none" /\ UNCHANGED <<events, bookings, audit, view, faults>>
  OBVIOUS
<1>2. CASE /\ CheckConstraint(writes.row)
           /\ tx' = [tx EXCEPT ![r] = writes]
           /\ pc' = [pc EXCEPT ![r] = next] /\ reply' = reply
  BY <1>1, <1>2
<1>3. CASE /\ ~CheckConstraint(writes.row)
           /\ tx' = [tx EXCEPT ![r] = NoTx]
           /\ pc' = [pc EXCEPT ![r] = "Rollback"] /\ reply' = [reply EXCEPT ![r] = "Error"]
  <2>1. r \in Updates \/ BadWrite(r)
    BY <1>3 DEF BadWrite
  <2>2. Explained(r)
    BY <1>3, <2>1, RequestAssumption
  <2> HIDE DEF Explained
  <2> QED BY <1>1, <1>3, <2>1, <2>2
<1> QED BY <1>2, <1>3, WriteEffect

\* Steps outside a transaction leave the database alone.
LEMMA OutsideMoved ==
  ASSUME TypeOK, PcFits, Unanswered, NEW r \in Requests,
         \/ Start(r) \/ DeadCommit(r)
         \/ r \in Books /\ ( \/ KeyExists(r) \/ SyncRead(r) \/ SetNx(r) \/ Decr(r)
                             \/ Recheck(r) \/ Heal(r) \/ Undo(r) \/ DelKey(r) \/ GiveBack(r) )
  PROVE  Moved(r)
<1> USE RequestAssumption, LimitAssumption
    DEF TypeOK, Moved, Explained, Failing, Others, Goto, Answer, Unanswered, OnItsWay, PreTx, InTx, Refusals, CancelRefusals, db, locks, local
<1>1. CASE Start(r)  BY <1>1 DEF Start, TxStart
<1>2. CASE DeadCommit(r)  BY <1>2 DEF DeadCommit, Success
<1>3. CASE KeyExists(r)  BY <1>3 DEF KeyExists
<1>4. CASE SyncRead(r)  BY <1>4 DEF SyncRead
<1>5. CASE SetNx(r)  BY <1>5 DEF SetNx
<1>6. CASE Decr(r)  BY <1>6 DEF Decr
<1>7. CASE Recheck(r)  BY <1>7 DEF Recheck
<1>8. CASE Heal(r)  BY <1>8 DEF Heal
<1>9. CASE Undo(r)  BY <1>9 DEF Undo
<1>10. CASE DelKey(r)  BY <1>10 DEF DelKey
<1>11. CASE GiveBack(r)  BY <1>11 DEF GiveBack
<1> QED BY <1>1, <1>2, <1>3, <1>4, <1>5, <1>6, <1>7, <1>8, <1>9, <1>10, <1>11

\* Statements inside a transaction write nothing that others see.
LEMMA InsideMoved ==
  ASSUME IInv, Unanswered, NEW r \in Requests,
         \/ LockEvent(r)
         \/ r \in Books /\ (Rules(r) \/ Reserve(r) \/ Insert(r))
         \/ r \in Cancels /\ (LockBooking(r) \/ CancelWrites(r) \/ ReturnSeats(r))
         \/ r \in Updates /\ (ReadRow(r) \/ WriteRow(r))
  PROVE  Moved(r)
<1> USE RequestAssumption, LimitAssumption
    DEF TypeOK, Moved, Explained, Failing, Others, Goto, Answer, Throw, Unanswered, OnItsWay, PreTx, InTx, Refusals, CancelRefusals, db, locks, local
<1>0. TypeOK /\ PcFits /\ ViewIsCurrent
  BY DEF IInv
<1>1. CASE LockEvent(r)  BY <1>0, <1>1 DEF LockEvent, PcFits
<1>2. CASE r \in Books /\ Rules(r)
  <2>1. /\ pc[r] = "Rules" /\ UNCHANGED <<db, view, faults>>
        /\ \/ /\ Verdict(r) \in Refusals
              /\ tx' = [tx EXCEPT ![r] = [tx[r] EXCEPT !.audit = {"failure"}]]
              /\ pc' = [pc EXCEPT ![r] = "Rollback"]
              /\ reply' = [reply EXCEPT ![r] = Verdict(r)]
           \/ /\ Verdict(r) = "none" /\ pc' = [pc EXCEPT ![r] = "Reserve"]
              /\ UNCHANGED <<reply, tx>>
    BY <1>2, VerdictFact DEF Rules, RecordAudit
  <2> HIDE DEF Moved, Explained, Failing, Goto, Answer, Throw, db, locks, local
  <2>2. /\ Others(r) /\ reply[r] = "none"
        /\ \/ /\ Verdict(r) \in Refusals
              /\ pc'[r] = "Rollback" /\ reply'[r] = Verdict(r)
           \/ /\ Verdict(r) = "none"
              /\ pc'[r] = "Reserve" /\ reply'[r] = reply[r]
    BY <1>0, <2>1
  <2>3. Explained(r)
    BY <1>2, <2>1, <2>2 DEF Explained
  <2> HIDE DEF TypeOK, Others, Unanswered, PcFits
  <2> QED BY <2>1, <2>2, <2>3 DEF Moved, Refusals, CancelRefusals
<1>3. CASE r \in Books /\ Reserve(r)
  <2>1. CASE Reservable(events[EventOf[r]], Tickets[r])
    <3>1. [tx[r] EXCEPT !.row = Reserved(r)].row = Reserved(r)
      BY <1>0 DEF TxRecord
    <3>2. Write(r, [tx[r] EXCEPT !.row = Reserved(r)], "Insert")
      BY <1>3, <2>1 DEF Reserve
    <3>3. UNCHANGED <<db, spots, local, faults>> /\ pc[r] = "Reserve"
      BY <1>3 DEF Reserve
    <3> HIDE DEF TypeOK, Moved, Explained, Failing, Unanswered, OnItsWay, Refusals, CancelRefusals, db, local, Goto, Answer, Throw
    <3> QED BY <1>0, <2>1, <3>1, <3>2, <3>3, WriteMoved
  <2>2. CASE ~Reservable(events[EventOf[r]], Tickets[r])
    BY <1>0, <1>3, <2>2 DEF Reserve
  <2> QED BY <2>1, <2>2
<1>4. CASE r \in Books /\ Insert(r)  BY <1>0, <1>4 DEF Insert, RecordAudit, TxRecord
<1>5. CASE r \in Cancels /\ LockBooking(r)  BY <1>0, <1>5 DEF LockBooking, TakeBooking, Refusal
<1>6. CASE r \in Cancels /\ CancelWrites(r)
  <2> DEFINE writes == [tx[r] EXCEPT !.booking = "cancelled", !.row = Returned(r)]
  <2>1. writes.row = Returned(r)
    BY <1>0 DEF TxRecord
  <2>2. Write(r, writes, "ReturnSeats")
    BY <1>6 DEF CancelWrites, Returned
  <2>3. UNCHANGED <<db, spots, local, faults>> /\ pc[r] = "CancelWrites"
    BY <1>6 DEF CancelWrites
  <2> HIDE DEF writes
  <2> HIDE DEF TypeOK, Moved, Explained, Failing, Unanswered, OnItsWay, Refusals, CancelRefusals, db, local, Goto, Answer, Throw
  <2> QED BY <1>0, <2>1, <2>2, <2>3, WriteMoved
<1>7. CASE r \in Cancels /\ ReturnSeats(r)  BY <1>0, <1>7 DEF ReturnSeats, RecordAudit, TxRecord
<1>8. CASE r \in Updates /\ ReadRow(r)  BY <1>0, <1>8 DEF ReadRow
<1>9. CASE r \in Updates /\ WriteRow(r)
  <2> DEFINE row == events[EventOf[r]]
             writes == [tx[r] EXCEPT !.row = Patched(r), !.audit = {"success"}]
  <2>1. CASE row.capacity >= row.booked
    <3>1. writes.audit = {"success"}
      BY <1>0 DEF TxRecord
    <3>2. Write(r, writes, "Commit")
      BY <1>9, <2>1 DEF WriteRow
    <3>3. UNCHANGED <<db, spots, local, faults>> /\ pc[r] = "WriteRow" /\ r \in Updates
      BY <1>9 DEF WriteRow
    <3> HIDE DEF writes
    <3> HIDE DEF TypeOK, Moved, Explained, Failing, Unanswered, OnItsWay, Refusals, CancelRefusals, db, local, Goto, Answer, Throw
    <3> QED BY <1>0, <3>1, <3>2, <3>3, WriteMoved
  <2>2. CASE ~(row.capacity >= row.booked)
    BY <1>0, <1>9, <2>2 DEF WriteRow
  <2> QED BY <2>1, <2>2
<1> QED BY <1>1, <1>2, <1>3, <1>4, <1>5, <1>6, <1>7, <1>8, <1>9

\* COMMIT and ROLLBACK.
LEMMA EndMoved ==
  ASSUME IInv, Unanswered, NEW r \in Requests,
         Commit(r) \/ Rollback(r)
  PROVE  Moved(r)
<1> USE RequestAssumption, LimitAssumption
    DEF TypeOK, Moved, Explained, Failing, Others, Goto, Answer, Throw, Unanswered, OnItsWay, PreTx, InTx, Refusals, CancelRefusals, db, locks, local
<1>0. TypeOK /\ PcFits
  BY DEF IInv
<1>1. CASE Commit(r)  BY <1>0, <1>1 DEF Commit, Success, Persist, EndTx
<1>2. CASE Rollback(r)  BY <1>0, <1>2 DEF Rollback, EndTx, MayRetry, TxStart, AfterRollback
<1> QED BY <1>1, <1>2

\* A failed statement ends the transaction, and answers with an error or not at all.
LEMMA FailMoved ==
  ASSUME NEW r \in Requests, Others(r), Failing, faults' # 0,
         UNCHANGED db \/ (pc[r] = "Commit" /\ Persist(r) /\ pc'[r] = "Rollback"),
         pc'[r] \in {"Rollback", "GiveBack", "Done"},
         reply'[r] \in {"Error", "Deadlock", "Lost"},
         reply'[r] = "Deadlock" => pc[r] \in InTx \ {"Commit"}
  PROVE  Moved(r)
<1>1. Explained(r)
  BY DEF Explained
<1> HIDE DEF Explained
<1>2. /\ pc'[r] \notin {"Reserve", "Insert", "ReturnSeats", "Commit", "Undo", "DelKey", "DeadCommit"}
      /\ pc'[r] \notin OnItsWay /\ reply'[r] # "none"
      /\ reply'[r] \notin Refusals \cup CancelRefusals /\ pc'[r] \notin InTx \cup {"Idle"}
  BY DEF OnItsWay, PreTx, InTx, Refusals, CancelRefusals
<1>3. UNCHANGED db \/ (pc[r] = "Commit" /\ Persist(r) /\ pc'[r] \in {"Done", "Rollback"})
  OBVIOUS
<1> QED BY <1>1, <1>2, <1>3 DEF Moved

\* Answering or throwing touches one request only.
LEMMA FailOthers ==
  ASSUME TypeOK, NEW r \in Requests, NEW a, NEW label,
         pc' = [pc EXCEPT ![r] = label], reply' = [reply EXCEPT ![r] = a],
         EndTx(r) \/ tx' = tx, UNCHANGED local
  PROVE  Others(r) /\ pc'[r] = label /\ reply'[r] = a
<1>1. /\ pc \in [Requests -> PcValues] /\ reply \in [Requests -> Answers]
      /\ tx \in [Requests -> TxRecord]
  BY DEF TypeOK
<1>2. tx' = [tx EXCEPT ![r] = NoTx] \/ tx' = tx
  BY DEF EndTx
<1>3. view' = view
  BY DEF local
<1> QED BY <1>1, <1>2, <1>3 DEF Others

\* Failures: only a COMMIT whose answer is lost writes to the database.
LEMMA FaultMoved ==
  ASSUME IInv, Unanswered, NEW r \in Requests,
         \/ RedisFault(r) \/ ReadFault(r) \/ StatementFault(r)
         \/ AuditFault(r) \/ CommitFault(r) \/ RollbackFault(r) \/ Crash(r)
  PROVE  Moved(r)
<1>0. TypeOK /\ PcFits /\ faults \in Nat
  BY DEF IInv, TypeOK
<1>1. ASSUME NEW kind \in FaultKinds \ {"flush", "resend"}, Fault(kind)
      PROVE  Failing /\ faults' # 0
  BY <1>0, <1>1 DEF Fault, Failing
<1>2. ASSUME NEW a \in {"Error", "Deadlock", "Lost"}, NEW label \in {"Rollback", "GiveBack", "Done"},
             pc' = [pc EXCEPT ![r] = label], reply' = [reply EXCEPT ![r] = a],
             EndTx(r) \/ tx' = tx, UNCHANGED local, Failing, faults' # 0,
             UNCHANGED db \/ (pc[r] = "Commit" /\ Persist(r) /\ label = "Rollback"),
             a = "Deadlock" => pc[r] \in InTx \ {"Commit"}
      PROVE  Moved(r)
  <2>1. Others(r) /\ pc'[r] = label /\ reply'[r] = a
    BY <1>0, <1>2, FailOthers
  <2> QED BY <1>2, <2>1, FailMoved
<1>3. CASE RedisFault(r)
  <2>1. Failing /\ faults' # 0
    BY <1>1, <1>3 DEF RedisFault, Fault
  <2> QED BY <1>2, <1>3, <2>1 DEF RedisFault, Throw, Answer
<1>4. CASE ReadFault(r)
  <2>1. Failing /\ faults' # 0
    BY <1>1, <1>4 DEF ReadFault, Fault
  <2> QED BY <1>2, <1>4, <2>1 DEF ReadFault, Answer
<1>5. CASE StatementFault(r)
  <2>1. Failing /\ faults' # 0
    BY <1>1, <1>5 DEF StatementFault, Fault
  <2> QED BY <1>2, <1>5, <2>1 DEF StatementFault, Throw
<1>6. CASE AuditFault(r)
  <2>1. Failing /\ faults' # 0
    BY <1>1, <1>6 DEF AuditFault, Fault
  <2>2. /\ pc[r] = "Commit" /\ pc' = [pc EXCEPT ![r] = "DeadCommit"]
        /\ tx' = [tx EXCEPT ![r] = NoTx] /\ UNCHANGED <<reply, view, db>>
    BY <1>6 DEF AuditFault, Goto, EndTx, local
  <2>3. pc'[r] = "DeadCommit" /\ reply'[r] = "none" /\ reply'[r] = reply[r] /\ Others(r)
    BY <1>0, <2>2 DEF TypeOK, Others, Unanswered, OnItsWay, InTx
  <2>4. Explained(r)
    BY <2>3 DEF Explained
  <2> HIDE DEF Explained
  <2>5. /\ pc'[r] \in OnItsWay /\ reply'[r] \notin Refusals \cup CancelRefusals
        /\ pc'[r] \notin InTx \cup {"Idle"}
    BY <2>3 DEF OnItsWay, InTx, Refusals, CancelRefusals
  <2> QED BY <2>1, <2>2, <2>3, <2>4, <2>5 DEF Moved
<1>7. CASE CommitFault(r)
  <2>1. Failing /\ faults' # 0
    BY <1>1, <1>7 DEF CommitFault, Fault
  <2>2. /\ pc' = [pc EXCEPT ![r] = "Rollback"] /\ reply' = [reply EXCEPT ![r] = "Error"]
        /\ pc[r] = "Commit" /\ UNCHANGED local
        /\ Persist(r) \/ (EndTx(r) /\ UNCHANGED db)
    BY <1>7 DEF CommitFault, Throw
  <2>3. EndTx(r)
    BY <2>2 DEF Persist
  <2> QED BY <1>2, <2>1, <2>2, <2>3
<1>8. CASE RollbackFault(r)
  <2>1. Failing /\ faults' # 0
    BY <1>1, <1>8 DEF RollbackFault, Fault
  <2>2. AfterRollback(r) \in {"Rollback", "GiveBack", "Done"}
    BY DEF AfterRollback
  <2> QED BY <1>2, <1>8, <2>1, <2>2 DEF RollbackFault, Goto
<1>9. CASE Crash(r)
  <2>1. Failing /\ faults' # 0
    BY <1>1, <1>9 DEF Crash, Fault
  <2> QED BY <1>2, <1>9, <2>1 DEF Crash, Answer
<1> QED BY <1>3, <1>4, <1>5, <1>6, <1>7, <1>8, <1>9

\* Every step is a step of one request, or moves nothing but the counter.
LEMMA NextMoved ==
  ASSUME IInv, Unanswered, [Next]_vars
  PROVE  \/ UNCHANGED <<events, bookings, audit, pc, reply, tx>> /\ (faults' = 0 => faults = 0)
         \/ \E r \in Requests : Moved(r)
<1> DEFINE Still == /\ UNCHANGED <<events, bookings, audit, pc, reply, tx>>
                    /\ faults' = 0 => faults = 0
           Goal == Still \/ \E r \in Requests : Moved(r)
<1>0. TypeOK /\ PcFits
  BY DEF IInv
<1>1. ASSUME NEW r \in Requests, Start(r) PROVE Goal
  BY <1>0, <1>1, OutsideMoved
<1>2. ASSUME NEW b \in Books, BookStep(b) PROVE Goal
  <2>1. Moved(b)
    BY <1>0, <1>2, OutsideMoved, InsideMoved DEF BookStep
  <2> QED BY <2>1
<1>3. ASSUME NEW c \in Cancels, CancelStep(c) PROVE Goal
  <2>1. Moved(c)
    BY <1>3, InsideMoved DEF CancelStep
  <2> QED BY <2>1
<1>4. ASSUME NEW u \in Updates, UpdateStep(u) PROVE Goal
  <2>1. Moved(u)
    BY <1>4, InsideMoved DEF UpdateStep
  <2> QED BY <2>1
<1>5. ASSUME NEW r \in Requests, TxStep(r) PROVE Goal
  BY <1>0, <1>5, EndMoved, OutsideMoved DEF TxStep
<1>6. ASSUME NEW r \in Requests,
             \/ RedisFault(r) \/ ReadFault(r) \/ StatementFault(r)
             \/ AuditFault(r) \/ CommitFault(r) \/ RollbackFault(r) \/ Crash(r)
      PROVE  Goal
  BY <1>6, FaultMoved
<1>7. CASE Flush \/ (\E r \in Requests : RedisResend(r)) \/ UNCHANGED vars
  <2>1. faults \in Nat
    BY <1>0, LimitAssumption DEF TypeOK
  <2>2. Still
    BY <1>7, <2>1 DEF Flush, RedisResend, Fault, db, locks, local, vars
  <2> QED BY <2>2
<1> QED
  BY <1>1, <1>2, <1>3, <1>4, <1>5, <1>6, <1>7 DEF Next, Step, FaultStep, Finished

\* What COMMIT does to the committed rows.
LEMMA CommitEffect ==
  ASSUME IInv, NEW r \in Requests, pc[r] = "Commit", Persist(r)
  PROVE  /\ EventOf[r] \in Events /\ events[EventOf[r]] # NoRow /\ tx[r].row # NoRow
         /\ events' = [events EXCEPT ![EventOf[r]] = tx[r].row]
         /\ audit' = [audit EXCEPT ![r] = @ \cup tx[r].audit]
         /\ r \in Books => /\ bookings[r] = "none"
                           /\ bookings' = [bookings EXCEPT ![r] = "confirmed"]
         /\ r \in Cancels => /\ Target[r] \in Books /\ EventOf[Target[r]] = EventOf[r]
                             /\ bookings[Target[r]] = "confirmed"
                             /\ bookings' = [bookings EXCEPT ![Target[r]] = "cancelled"]
         /\ r \in Updates => bookings' = bookings
<1> USE RequestAssumption DEF IInv
<1>1. EventOf[r] \in Events /\ events[EventOf[r]] # NoRow /\ tx[r].row # NoRow
  BY DEF RowsRead, PendingWrites, EventLocked
<1>2. /\ events' = [events EXCEPT ![EventOf[r]] = tx[r].row]
      /\ audit' = [audit EXCEPT ![r] = @ \cup tx[r].audit]
  BY <1>1 DEF Persist
<1>3. ASSUME r \in Books
      PROVE  bookings[r] = "none" /\ bookings' = [bookings EXCEPT ![r] = "confirmed"]
  BY <1>3 DEF Persist, BookingOf, PendingWrites, NotYetBooked, InTx
<1>4. ASSUME r \in Cancels
      PROVE  /\ Target[r] \in Books /\ EventOf[Target[r]] = EventOf[r]
             /\ bookings[Target[r]] = "confirmed"
             /\ bookings' = [bookings EXCEPT ![Target[r]] = "cancelled"]
  BY <1>4 DEF Persist, BookingOf, PendingWrites, LocksHeld
<1>5. ASSUME r \in Updates PROVE bookings' = bookings
  BY <1>5 DEF Persist, BookingOf, PendingWrites
<1> HIDE DEF IInv
<1> QED BY <1>1, <1>2, <1>3, <1>4, <1>5

-----------------------------------------------------------------------------
(* Sums of tickets *)

\* A set of bookings has a sum of tickets, which one booking moves by its own.
LEMMA TicketSum ==
  ASSUME NEW S \in SUBSET Books
  PROVE  /\ SumOver(Tickets, S) \in Nat
         /\ \A b \in Books \ S : SumOver(Tickets, S \cup {b}) = SumOver(Tickets, S) + Tickets[b]
         /\ \A b \in S : /\ SumOver(Tickets, S \ {b}) = SumOver(Tickets, S) - Tickets[b]
                        /\ Tickets[b] <= SumOver(Tickets, S)
<1>1. IsFiniteSet(S) /\ \A b \in Books : Tickets[b] \in Nat /\ Tickets[b] \in Int
  BY FiniteAssumption, RequestAssumption, FS_Subset
<1>2. SumOver(Tickets, S) \in Nat
  BY <1>1, SumNat
<1>3. ASSUME NEW b \in Books \ S
      PROVE  SumOver(Tickets, S \cup {b}) = SumOver(Tickets, S) + Tickets[b]
  BY <1>1, SumAdd
<1>4. ASSUME NEW b \in S
      PROVE  /\ SumOver(Tickets, S \ {b}) = SumOver(Tickets, S) - Tickets[b]
             /\ Tickets[b] <= SumOver(Tickets, S)
  <2> DEFINE all == SumOver(Tickets, S)
             rest == SumOver(Tickets, S \ {b})
  <2>1. all = Tickets[b] + rest
    BY <1>1, SumRemove
  <2>2. rest \in Nat
    <3>1. IsFiniteSet(S \ {b})
      BY <1>1, FS_RemoveElement
    <3> QED BY <1>1, <3>1, SumNat
  <2>3. Tickets[b] \in Nat
    BY <1>1
  <2> HIDE DEF all, rest
  <2>4. rest = all - Tickets[b] /\ Tickets[b] <= all
    BY <2>1, <2>2, <2>3
  <2> QED BY <2>4 DEF all, rest
<1> QED BY <1>2, <1>3, <1>4

\* The confirmed bookings of an event, and the sums the code compares, as sums over sets.
SoldFor(e) == {b \in Books : bookings[b] = "confirmed" /\ EventOf[b] = e}

\* Sold, in this state and the next, is the sum of the tickets of SoldFor.
LEMMA SoldIsSum ==
  ASSUME NEW e
  PROVE  /\ Sold(e) = SumOver(Tickets, SoldFor(e))
         /\ Sold(e)' = SumOver(Tickets, SoldFor(e)')
BY DEF Sold, SoldFor, SumOver, MapThenSumSet, MapThenFoldSet

\* TicketsHeld, in this state and the next, is the sum of the tickets of Confirmed.
LEMMA HeldIsSum ==
  ASSUME NEW u, NEW e
  PROVE  /\ TicketsHeld(u, e) = SumOver(Tickets, Confirmed(u, e))
         /\ TicketsHeld(u, e)' = SumOver(Tickets, Confirmed(u, e)')
BY DEF TicketsHeld, SumOver, MapThenSumSet, MapThenFoldSet

\* A booking or cancellation moves the sums of its own event and user, and no other.
LEMMA SumsMove ==
  ASSUME IInv, NEW r \in Requests, pc[r] = "Commit", Persist(r), NEW e \in Events
  PROVE  /\ EventOf[r] # e \/ r \in Updates =>
               /\ Sold(e)' = Sold(e)
               /\ \A u \in Users : TicketsHeld(u, e)' = TicketsHeld(u, e)
         /\ EventOf[r] = e /\ r \in Books =>
               /\ Sold(e)' = Sold(e) + Tickets[r]
               /\ \A u \in Users : TicketsHeld(u, e)' =
                     IF u = UserOf[r] THEN TicketsHeld(u, e) + Tickets[r] ELSE TicketsHeld(u, e)
         /\ EventOf[r] = e /\ r \in Cancels =>
               /\ Sold(e)' = Sold(e) - Tickets[Target[r]]
               /\ \A u \in Users : TicketsHeld(u, e)' =
                     IF u = UserOf[Target[r]] THEN TicketsHeld(u, e) - Tickets[Target[r]]
                                              ELSE TicketsHeld(u, e)
<1> USE RequestAssumption
<1>1. TypeOK
  BY DEF IInv
<1>2. CASE EventOf[r] # e \/ r \in Updates
  <2>0. \A b \in Books : EventOf[b] = e => bookings'[b] = bookings[b]
    BY <1>1, <1>2, CommitEffect DEF TypeOK
  <2>1. SoldFor(e)' = SoldFor(e) /\ \A u \in Users : Confirmed(u, e)' = Confirmed(u, e)
    BY <2>0 DEF SoldFor, Confirmed
  <2> QED BY <1>2, <2>1, SoldIsSum, HeldIsSum
<1>3. CASE EventOf[r] = e /\ r \in Books
  <2>1. /\ SoldFor(e)' = SoldFor(e) \cup {r} /\ r \in Books \ SoldFor(e)
        /\ SoldFor(e) \in SUBSET Books
    BY <1>1, <1>3, CommitEffect DEF SoldFor, TypeOK
  <2>2. Sold(e)' = Sold(e) + Tickets[r]
    BY <2>1, SoldIsSum, TicketSum
  <2>3. ASSUME NEW u \in Users
        PROVE  TicketsHeld(u, e)' =
                  IF u = UserOf[r] THEN TicketsHeld(u, e) + Tickets[r] ELSE TicketsHeld(u, e)
    <3>1. /\ Confirmed(u, e)' = IF u = UserOf[r] THEN Confirmed(u, e) \cup {r} ELSE Confirmed(u, e)
          /\ r \in Books \ Confirmed(u, e) /\ Confirmed(u, e) \in SUBSET Books
      BY <1>1, <1>3, CommitEffect DEF Confirmed, TypeOK
    <3> QED BY <3>1, HeldIsSum, TicketSum
  <2> QED BY <1>3, <2>2, <2>3
<1>4. CASE EventOf[r] = e /\ r \in Cancels
  <2> DEFINE t == Target[r]
  <2>1. /\ SoldFor(e)' = SoldFor(e) \ {t} /\ t \in SoldFor(e)
        /\ SoldFor(e) \in SUBSET Books
    BY <1>1, <1>4, CommitEffect DEF SoldFor, TypeOK
  <2>2. Sold(e)' = Sold(e) - Tickets[t]
    BY <2>1, SoldIsSum, TicketSum
  <2>3. ASSUME NEW u \in Users
        PROVE  TicketsHeld(u, e)' =
                  IF u = UserOf[t] THEN TicketsHeld(u, e) - Tickets[t] ELSE TicketsHeld(u, e)
    <3>1. /\ Confirmed(u, e)' = IF u = UserOf[t] THEN Confirmed(u, e) \ {t} ELSE Confirmed(u, e)
          /\ u = UserOf[t] => t \in Confirmed(u, e)
          /\ Confirmed(u, e) \in SUBSET Books
      BY <1>1, <1>4, CommitEffect DEF Confirmed, TypeOK
    <3> QED BY <3>1, HeldIsSum, TicketSum
  <2> QED BY <1>4, <2>2, <2>3
<1> QED BY <1>2, <1>3, <1>4

-----------------------------------------------------------------------------
(* Requests on their way have no answer *)

\* Every step keeps the requests on their way without an answer.
LEMMA UnansweredStep ==
  ASSUME Unanswered, IInv, [Next]_vars  PROVE Unanswered'
<1>1. CASE UNCHANGED <<events, bookings, audit, pc, reply, tx>>
  BY <1>1 DEF Unanswered
<1>2. ASSUME NEW r \in Requests, Moved(r) PROVE Unanswered'
  BY <1>2 DEF Unanswered, Moved, Others
<1> QED BY <1>1, <1>2, NextMoved

\* Until it is answered, and only until then, a request has no answer: a retry forgets
\* the last one.
THEOREM AlwaysUnanswered == Spec => []Unanswered
<1>1. Init => Unanswered
  BY RequestAssumption, InitAssumption DEF Init, Unanswered, OnItsWay, PreTx, InTx
<1>2. IInv /\ Unanswered /\ [Next]_vars => Unanswered'
  BY UnansweredStep
<1> QED BY <1>1, <1>2, AlwaysIInv, PTL DEF Spec

-----------------------------------------------------------------------------
(* The ledger *)

\* What validateBookingRules has established when it passes.
LEMMA VerdictPasses ==
  ASSUME TypeOK, NEW b \in Books, view[b] # NoRow, Verdict(b) = "none"
  PROVE  /\ Reservable(view[b], Tickets[b]) /\ Tickets[b] <= MaxPerBooking
         /\ TicketsHeld(UserOf[b], EventOf[b]) + Tickets[b] <= MaxPerUser
<1> USE RequestAssumption, LimitAssumption
<1>1. /\ view[b].status = "published" /\ ~(Remaining(view[b]) < Tickets[b])
      /\ ~(Tickets[b] > MaxPerBooking)
      /\ ~(TicketsHeld(UserOf[b], EventOf[b]) + Tickets[b] > MaxPerUser)
  BY DEF Verdict
<1>2. TicketsHeld(UserOf[b], EventOf[b]) \in Nat
  <2>1. Confirmed(UserOf[b], EventOf[b]) \in SUBSET Books
    BY DEF Confirmed
  <2> QED BY <2>1, HeldIsSum, TicketSum
<1>3. Tickets[b] \in Nat /\ view[b] \in Row
  BY DEF TypeOK
<1>4. view[b].capacity \in Int /\ view[b].booked \in Int
  BY <1>3 DEF Row
<1>5. Reservable(view[b], Tickets[b])
  BY <1>1, <1>3, <1>4 DEF Reservable, Remaining
<1> QED BY <1>1, <1>2, <1>3, <1>5

\* The rows at the start are a ledger.
LEMMA InitLedger == ASSUME Init PROVE LedgerInv
<1> USE RequestAssumption, InitAssumption
<1>1. SaleChecked /\ RefundPending
  BY DEF Init, SaleChecked, RefundPending
<1>2. ASSUME NEW e \in Events, events[e] # NoRow PROVE events[e].booked = Sold(e)
  <2>1. SoldFor(e) = {b \in InitBooked : EventOf[b] = e}
    BY DEF Init, SoldFor
  <2>2. InitEvents[e].booked = SumOver(Tickets, {b \in InitBooked : EventOf[b] = e})
    BY <1>2, LedgerAssumption DEF Init, SumOver
  <2> QED BY <2>1, <2>2, SoldIsSum DEF Init
<1> QED BY <1>1, <1>2 DEF LedgerInv, LedgerMatches

\* While a request holds an event's lock no other request commits to that event.
LEMMA LockExcludes ==
  ASSUME IInv, NEW r \in Requests, NEW q \in Requests \ {r},
         pc[r] = "Commit", pc[q] \in EventLocked
  PROVE  EventOf[q] # EventOf[r]
BY DEF IInv, LocksHeld, EventLocked

\* So what a request in its transaction has read of its event stays as it was.
LEMMA LockedRowStays ==
  ASSUME IInv, NEW r \in Requests, Moved(r), NEW q \in Requests,
         pc[q] \in EventLocked, pc'[q] \in InTx
  PROVE  /\ events'[EventOf[q]] = events[EventOf[q]]
         /\ \A u \in Users : TicketsHeld(u, EventOf[q])' = TicketsHeld(u, EventOf[q])
<1> DEFINE e == EventOf[q]
<1>1. e \in Events
  BY RequestAssumption
<1>2. CASE UNCHANGED db
  <2>1. \A u \in Users : Confirmed(u, e)' = Confirmed(u, e)
    BY <1>2 DEF Confirmed, db
  <2> QED BY <1>2, <2>1, HeldIsSum DEF db
<1>3. CASE pc[r] = "Commit" /\ Persist(r) /\ pc'[r] \in {"Done", "Rollback"}
  <2>1. q # r
    BY <1>3 DEF InTx
  <2>2. EventOf[r] # e
    BY <1>3, <2>1, LockExcludes
  <2>3. events'[e] = events[e]
    BY <1>1, <1>3, <2>2, CommitEffect DEF IInv, TypeOK
  <2> QED BY <1>1, <1>3, <2>2, <2>3, SumsMove
<1> QED BY <1>2, <1>3 DEF Moved

\* A sale stays checked until its COMMIT: the lock keeps the others away from the row.
LEMMA SaleCheckedStep ==
  ASSUME IInv, SaleChecked, NEW r \in Requests, Moved(r)  PROVE SaleChecked'
<1> USE RequestAssumption
<1> SUFFICES ASSUME NEW b \in Books, pc'[b] \in {"Reserve", "Insert", "Commit"}
             PROVE  /\ Reservable(events'[EventOf[b]], Tickets[b])
                    /\ Tickets[b] <= MaxPerBooking
                    /\ TicketsHeld(UserOf[b], EventOf[b])' + Tickets[b] <= MaxPerUser
                    /\ pc'[b] \in {"Insert", "Commit"} => tx'[b].row = Reserved(b)'
  BY DEF SaleChecked
<1>1. EventOf[b] \in Events /\ UserOf[b] \in Users /\ b \in Requests /\ pc'[b] \in InTx
  BY DEF InTx
<1>2. /\ pc[b] \in {"Rules", "Reserve", "Insert", "Commit"}
      /\ pc[b] = "Rules" => pc'[b] = "Reserve" /\ Verdict(b) = "none"
      /\ pc'[b] = "Insert" => tx'[b].row = IF pc[b] = "Insert" THEN tx[b].row ELSE Reserved(b)
      /\ pc'[b] = "Commit" => pc[b] \in {"Insert", "Commit"} /\ tx'[b].row = tx[b].row
  BY DEF Moved, Others, IInv, PcFits
<1>3. /\ events'[EventOf[b]] = events[EventOf[b]]
      /\ TicketsHeld(UserOf[b], EventOf[b])' = TicketsHeld(UserOf[b], EventOf[b])
  BY <1>1, <1>2, LockedRowStays DEF EventLocked
<1>4. Reserved(b)' = Reserved(b)
  BY <1>3 DEF Reserved
<1>5. CASE pc[b] = "Rules"
  <2>1. view[b] = events[EventOf[b]] /\ events[EventOf[b]] # NoRow /\ TypeOK
    BY <1>5 DEF IInv, ViewIsCurrent, RowsRead, EventLocked
  <2> QED BY <1>2, <1>3, <1>5, <2>1, VerdictPasses
<1>6. CASE pc[b] \in {"Reserve", "Insert", "Commit"}
  BY <1>2, <1>3, <1>4, <1>6 DEF SaleChecked
<1> QED BY <1>2, <1>5, <1>6

\* So does the row that a cancellation is about to write.
LEMMA RefundPendingStep ==
  ASSUME IInv, RefundPending, NEW r \in Requests, Moved(r)  PROVE RefundPending'
<1> USE RequestAssumption
<1> SUFFICES ASSUME NEW c \in Cancels, pc'[c] \in {"ReturnSeats", "Commit"}
             PROVE  tx'[c].row = Returned(c)'
  BY DEF RefundPending, Returned
<1>1. /\ pc[c] \in {"CancelWrites", "ReturnSeats", "Commit"}
      /\ tx'[c].row = Returned(c)
  <2>1. pc[c] \in {"ReturnSeats", "Commit"} => tx[c].row = Returned(c)
    BY DEF RefundPending, Returned
  <2>2. PcFits /\ c \in Requests /\ c \notin Books \cup Updates
    BY DEF IInv
  <2>3. CASE c = r
    BY <2>1, <2>2, <2>3 DEF Moved, PcFits
  <2>4. CASE c # r
    BY <2>1, <2>2, <2>4 DEF Moved, Others
  <2> QED BY <2>3, <2>4
<1>2. events'[EventOf[c]] = events[EventOf[c]]
  BY <1>1, LockedRowStays DEF EventLocked, InTx
<1>3. Returned(c)' = Returned(c)
  BY <1>2 DEF Returned, TicketsOf
<1> QED BY <1>1, <1>3

\* COMMIT moves booked_count and the sum of the tickets by the same amount.
LEMMA LedgerMatchesStep ==
  ASSUME IInv, LedgerMatches, NEW r \in Requests, Moved(r)  PROVE LedgerMatches'
<1> USE RequestAssumption
<1>1. CASE UNCHANGED db
  <2>1. \A e \in Events : SoldFor(e)' = SoldFor(e)
    BY <1>1 DEF SoldFor, db
  <2> QED BY <1>1, <2>1, SoldIsSum DEF LedgerMatches, db
<1>2. CASE pc[r] = "Commit" /\ Persist(r)
  <2> SUFFICES ASSUME NEW e \in Events, events'[e] # NoRow
               PROVE  events'[e].booked = Sold(e)'
    BY DEF LedgerMatches
  <2>1. CASE e # EventOf[r]
    <3>1. events'[e] = events[e]
      BY <1>2, <2>1, CommitEffect DEF IInv, TypeOK
    <3> QED BY <1>2, <2>1, <3>1, SumsMove DEF LedgerMatches
  <2>2. CASE e = EventOf[r]
    <3>1. events'[e] = tx[r].row /\ events[e].booked = Sold(e)
      BY <1>2, <2>2, CommitEffect DEF IInv, TypeOK, LedgerMatches
    <3>2. /\ r \in Books => tx[r].row.booked = events[e].booked + Tickets[r]
          /\ r \in Cancels => tx[r].row.booked = events[e].booked - Tickets[Target[r]]
          /\ r \in Updates => tx[r].row.booked = events[e].booked
      BY <1>2, <2>2 DEF IInv, PendingWrites
    <3> QED BY <1>2, <2>2, <3>1, <3>2, SumsMove
  <2> QED BY <2>1, <2>2
<1> QED BY <1>1, <1>2 DEF Moved

\* Every step preserves the second layer.
LEMMA LedgerStep ==
  ASSUME IInv, Unanswered, LedgerInv, [Next]_vars  PROVE LedgerInv'
<1>1. CASE UNCHANGED <<events, bookings, audit, pc, reply, tx>>
  <2>1. /\ \A u \in Users, e \in Events : Confirmed(u, e)' = Confirmed(u, e)
        /\ \A e \in Events : SoldFor(e)' = SoldFor(e)
    BY <1>1 DEF Confirmed, SoldFor
  <2>2. SaleChecked'
    BY <1>1, <2>1, HeldIsSum, RequestAssumption DEF SaleChecked, Reserved, LedgerInv
  <2>3. RefundPending'
    BY <1>1 DEF RefundPending, TicketsOf, LedgerInv
  <2>4. \A e \in Events : Sold(e)' = Sold(e)
    BY <2>1, SoldIsSum
  <2>5. LedgerMatches'
    BY <1>1, <2>4 DEF LedgerMatches, LedgerInv
  <2> QED BY <2>2, <2>3, <2>5 DEF LedgerInv
<1>2. ASSUME NEW r \in Requests, Moved(r) PROVE LedgerInv'
  BY <1>2, SaleCheckedStep, RefundPendingStep, LedgerMatchesStep DEF LedgerInv
<1> QED BY <1>1, <1>2, NextMoved

\* LedgerInv, the second layer of the invariant, holds in every reachable state.
THEOREM AlwaysLedgerInv == Spec => []LedgerInv
<1>1. Init => LedgerInv
  BY InitLedger
<1>2. IInv /\ Unanswered /\ LedgerInv /\ [Next]_vars => LedgerInv'
  BY LedgerStep
<1> QED BY <1>1, <1>2, AlwaysIInv, AlwaysUnanswered, PTL DEF Spec

\* LedgerMatches: booked_count is at all times the sum of the confirmed tickets.
THEOREM LedgerAlwaysMatches == Spec => []LedgerMatches
<1>1. LedgerInv => LedgerMatches
  BY DEF LedgerInv
<1> QED BY <1>1, AlwaysLedgerInv, PTL

-----------------------------------------------------------------------------
(* The per-user limit *)

\* A user holds a natural number of tickets.
LEMMA HeldType ==
  ASSUME NEW u, NEW e  PROVE TicketsHeld(u, e) \in Nat
<1>1. Confirmed(u, e) \in SUBSET Books
  BY DEF Confirmed
<1> QED BY <1>1, HeldIsSum, TicketSum

\* Only the COMMIT of a booking adds tickets, and its sale was checked under the lock.
LEMMA WithinLimitStep ==
  ASSUME IInv, Unanswered, LedgerInv, [Next]_vars  PROVE WithinLimit
<1> USE RequestAssumption, LimitAssumption
<1> SUFFICES ASSUME NEW u \in Users, NEW e \in Events, TicketsHeld(u, e)' > TicketsHeld(u, e)
             PROVE  TicketsHeld(u, e)' <= MaxPerUser
  BY DEF WithinLimit
<1>1. TicketsHeld(u, e) \in Nat
  BY HeldType
<1>2. CASE UNCHANGED <<events, bookings, audit>>
  <2>1. Confirmed(u, e)' = Confirmed(u, e)
    BY <1>2 DEF Confirmed
  <2>2. TicketsHeld(u, e)' = TicketsHeld(u, e)
    BY <2>1, HeldIsSum
  <2> QED BY <1>1, <2>2
<1>3. ASSUME NEW r \in Requests, pc[r] = "Commit", Persist(r) PROVE TicketsHeld(u, e)' <= MaxPerUser
  <2>1. CASE EventOf[r] # e \/ r \in Updates
    BY <1>1, <1>3, <2>1, SumsMove
  <2>2. CASE EventOf[r] = e /\ r \in Books
    <3>1. TicketsHeld(UserOf[r], e) + Tickets[r] <= MaxPerUser
      BY <1>3, <2>2 DEF LedgerInv, SaleChecked
    <3> QED BY <1>1, <1>3, <2>2, <3>1, SumsMove
  <2>3. CASE EventOf[r] = e /\ r \in Cancels
    <3>1. Tickets[Target[r]] \in Nat
      BY <2>3
    <3> QED BY <1>1, <1>3, <2>3, <3>1, SumsMove
  <2> QED BY <2>1, <2>2, <2>3
<1>4. \/ UNCHANGED <<events, bookings, audit>>
      \/ \E r \in Requests : pc[r] = "Commit" /\ Persist(r)
  BY NextMoved DEF Moved, db
<1> QED BY <1>2, <1>3, <1>4

\* HoldingsWithinLimit, whatever the bookings at the start: no step takes a user past
\* the limit that validateBookingRules enforces under the row lock.
THEOREM LimitNeverPassed == Spec => HoldingsWithinLimit
<1>1. IInv /\ Unanswered /\ LedgerInv /\ [Next]_vars => [WithinLimit]_vars
  BY WithinLimitStep
<1>2. Spec => [][WithinLimit]_vars
  BY <1>1, AlwaysIInv, AlwaysUnanswered, AlwaysLedgerInv, PTL DEF Spec
<1> QED BY <1>2 DEF HoldingsWithinLimit

\* UserLimit: from a database within the limit, no user ever holds more confirmed
\* tickets of an event than max_tickets_per_user, however bookings interleave.
THEOREM LimitAlwaysKept == ASSUME QuotaAtStart PROVE Spec => []UserLimit
<1>1. Init => UserLimit
  <2> SUFFICES ASSUME Init, NEW u \in Users, NEW e \in Events
               PROVE  TicketsHeld(u, e) <= MaxPerUser
    BY DEF UserLimit
  <2>1. Confirmed(u, e) = {b \in InitBooked : UserOf[b] = u /\ EventOf[b] = e}
    BY InitAssumption DEF Init, Confirmed
  <2>2. SumOver(Tickets, {b \in InitBooked : UserOf[b] = u /\ EventOf[b] = e}) <= MaxPerUser
    BY DEF QuotaAtStart, SumOver
  <2> QED BY <2>1, <2>2, HeldIsSum
<1>2. UserLimit /\ [WithinLimit]_vars => UserLimit'
  <2> SUFFICES ASSUME UserLimit, [WithinLimit]_vars, NEW u \in Users, NEW e \in Events
               PROVE  TicketsHeld(u, e)' <= MaxPerUser
    BY DEF UserLimit
  <2>0. TicketsHeld(u, e) \in Nat /\ TicketsHeld(u, e)' \in Nat /\ TicketsHeld(u, e) <= MaxPerUser
    <3>1. TicketsHeld(u, e) \in Nat
      BY HeldType
    <3>2. (TicketsHeld(u, e) \in Nat)'
      <4>1. Confirmed(u, e)' \in SUBSET Books
        BY DEF Confirmed
      <4> QED BY <4>1, HeldIsSum, TicketSum
    <3> QED BY <3>1, <3>2 DEF UserLimit
  <2>1. CASE UNCHANGED vars
    <3>1. Confirmed(u, e)' = Confirmed(u, e)
      BY <2>1 DEF Confirmed, vars
    <3> QED BY <2>0, <3>1, HeldIsSum
  <2>2. CASE WithinLimit
    BY <2>0, <2>2, LimitAssumption DEF WithinLimit
  <2> QED BY <2>1, <2>2
<1>3. Spec => [][WithinLimit]_vars
  BY LimitNeverPassed DEF HoldingsWithinLimit
<1> QED BY <1>1, <1>2, <1>3, PTL DEF Spec

-----------------------------------------------------------------------------
(* Booking implements TicketLedger *)

\* The ledger counts the same sums.
LEMMA LedgerSums ==
  ASSUME NEW u, NEW e
  PROVE  /\ Ledger!Seats(Ledger!SoldFor(e)) = Sold(e)
         /\ Ledger!Seats(Ledger!SoldTo(u, e)) = TicketsHeld(u, e)
BY DEF Ledger!Seats, Ledger!SoldFor, Ledger!SoldTo, Ledger!MapThenSumSet, Ledger!MapThenFoldSet,
       Sold, TicketsHeld, Confirmed, MapThenSumSet, MapThenFoldSet

\* The mapping turns a row into a stock record, which is never null.
LEMMA StockOfRow ==
  ASSUME TypeOK, NEW e \in Events, events[e] # NoRow
  PROVE  /\ Stock[e].capacity = events[e].capacity /\ Stock[e].left = Remaining(events[e])
         /\ Stock[e].open = (events[e].status = "published")
         /\ Stock[e] \in [capacity : Nat, left : Int, open : BOOLEAN]
         /\ events[e].capacity \in Nat /\ events[e].booked \in Int
         /\ Stock[e].left \in Int /\ Stock[e] # NoRow
<1>1. events[e] \in Row
  BY DEF TypeOK
<1>2. Stock[e] = [capacity |-> events[e].capacity, left |-> Remaining(events[e]),
                        open |-> events[e].status = "published"]
  BY DEF Stock
<1>3. events[e].capacity \in Nat /\ events[e].booked \in Int
  BY <1>1 DEF Row
<1>4. Stock[e] \in [capacity : Nat, left : Int, open : BOOLEAN]
  BY <1>2, <1>3 DEF Remaining
<1>5. /\ Stock[e].capacity = events[e].capacity /\ Stock[e].left = Remaining(events[e])
      /\ Stock[e].open = (events[e].status = "published")
  BY <1>2
<1>6. Stock[e].left \in Int /\ Stock[e] # NoRow
  BY <1>4, StockAssumption
<1> QED BY <1>3, <1>4, <1>5, <1>6

\* The rows at the start map to an initial state of the ledger.
LEMMA LedgerInit == ASSUME Init PROVE Ledger!Init
<1>1. TypeOK /\ LedgerMatches
  BY InitInv, InitLedger DEF IInv, LedgerInv
<1>2. bookings \in [Books -> {"none", "confirmed"}]
  BY DEF Init
<1>3. ASSUME NEW e \in Events, Stock[e] # NoRow
      PROVE  Stock[e].left >= 0 /\ Stock[e].capacity - Stock[e].left = Ledger!Seats(Ledger!SoldFor(e))
  <2>1. events[e] # NoRow
    BY <1>3 DEF Stock
  <2>2. 0 <= events[e].booked /\ events[e].booked <= events[e].capacity
    BY <2>1, InitAssumption DEF Init
  <2>3. events[e].booked = Ledger!Seats(Ledger!SoldFor(e))
    BY <1>1, <2>1, LedgerSums DEF LedgerMatches
  <2>4. events[e].capacity - Remaining(events[e]) = events[e].booked /\ Remaining(events[e]) >= 0
    BY <1>1, <2>1, <2>2, StockOfRow DEF Remaining
  <2>5. Stock[e].capacity = events[e].capacity /\ Stock[e].left = Remaining(events[e])
    BY <1>1, <2>1, StockOfRow
  <2> QED BY <2>3, <2>4, <2>5
<1> QED BY <1>2, <1>3 DEF Ledger!Init

\* The stock of the one event a COMMIT writes, and of the others.
LEMMA StockMoves ==
  ASSUME IInv, IInv', NEW r \in Requests, pc[r] = "Commit", Persist(r)
  PROVE  /\ EventOf[r] \in Events /\ Stock[EventOf[r]] # NoRow
         /\ Stock' = [Stock EXCEPT ![EventOf[r]] = Stock'[EventOf[r]]]
         /\ Stock'[EventOf[r]] \in [capacity : Nat, left : Int, open : BOOLEAN]
         /\ Stock'[EventOf[r]].capacity = tx[r].row.capacity
         /\ Stock'[EventOf[r]].left = Remaining(tx[r].row)
         /\ Stock'[EventOf[r]].open = (tx[r].row.status = "published")
<1> DEFINE x == EventOf[r]
<1>1. TypeOK /\ TypeOK'
  BY DEF IInv
<1>2. x \in Events /\ events[x] # NoRow /\ events'[x] = tx[r].row /\ events'[x] # NoRow
  BY <1>1, CommitEffect DEF TypeOK
<1>3. \A e \in Events \ {x} : events'[e] = events[e]
  BY <1>1, CommitEffect DEF TypeOK
<1>4. Stock[x] # NoRow
  BY <1>1, <1>2, StockOfRow
<1>5. Stock' = [Stock EXCEPT ![x] = Stock'[x]]
  BY <1>2, <1>3 DEF Stock, Remaining
<1>6. Stock'[x] = [capacity |-> tx[r].row.capacity, left |-> Remaining(tx[r].row),
                   open |-> tx[r].row.status = "published"]
  BY <1>2 DEF Stock, Remaining
<1>7. tx[r].row \in Row
  BY <1>1, <1>2 DEF TypeOK
<1>8. Stock'[x] \in [capacity : Nat, left : Int, open : BOOLEAN]
  BY <1>6, <1>7 DEF Row, Remaining
<1>9. /\ Stock'[x].capacity = tx[r].row.capacity /\ Stock'[x].left = Remaining(tx[r].row)
      /\ Stock'[x].open = (tx[r].row.status = "published")
  BY <1>6
<1> QED BY <1>2, <1>4, <1>5, <1>8, <1>9

\* Two stock records with the same fields are the same.
LEMMA SameStock ==
  ASSUME NEW s \in [capacity : Nat, left : Int, open : BOOLEAN],
         NEW t \in [capacity : Nat, left : Int, open : BOOLEAN],
         s.capacity = t.capacity, s.left = t.left, s.open = t.open
  PROVE  s = t
OBVIOUS

\* COMMIT of a booking is a sale.
LEMMA SellStep ==
  ASSUME IInv, IInv', LedgerInv, NEW b \in Books, pc[b] = "Commit", Persist(b)
  PROVE  Ledger!Sell(b)
<1> USE RequestAssumption
<1> DEFINE x == EventOf[b]
           old == Stock[x]
           new == Stock'[x]
<1>1. TypeOK /\ x \in Events /\ events[x] # NoRow /\ b \in Requests
  BY CommitEffect DEF IInv
<1>2. /\ Reservable(events[x], Tickets[b]) /\ Tickets[b] <= MaxPerBooking
      /\ TicketsHeld(UserOf[b], x) + Tickets[b] <= MaxPerUser
      /\ tx[b].row = Reserved(b)
  BY DEF LedgerInv, SaleChecked
<1>3. bookings[b] = "none" /\ bookings' = [bookings EXCEPT ![b] = "confirmed"]
  BY CommitEffect
<1>4. /\ old # NoRow /\ old.open /\ old.left >= Tickets[b]
  BY <1>1, <1>2, StockOfRow DEF Reservable, Remaining
<1>5. Ledger!Seats(Ledger!SoldTo(UserOf[b], x)) + Tickets[b] <= MaxPerUser
  BY <1>2, LedgerSums
<1>6. new = [old EXCEPT !.left = @ - Tickets[b]]
  <2>1. events[x] \in Row /\ Tickets[b] \in Nat
    BY <1>1 DEF TypeOK
  <2>2. /\ tx[b].row.capacity = events[x].capacity /\ tx[b].row.status = events[x].status
        /\ Remaining(tx[b].row) = Remaining(events[x]) - Tickets[b]
    BY <1>2, <2>1 DEF Reserved, Remaining, Row
  <2>3. /\ new \in [capacity : Nat, left : Int, open : BOOLEAN]
        /\ new.capacity = old.capacity /\ new.left = old.left - Tickets[b] /\ new.open = old.open
    BY <1>1, <2>2, StockOfRow, StockMoves
  <2>4. old \in [capacity : Nat, left : Int, open : BOOLEAN]
    BY <1>1, StockOfRow
  <2> HIDE DEF old, new
  <2>5. [old EXCEPT !.left = @ - Tickets[b]] \in [capacity : Nat, left : Int, open : BOOLEAN]
    BY <2>1, <2>4
  <2>6. /\ [old EXCEPT !.left = @ - Tickets[b]].capacity = old.capacity
        /\ [old EXCEPT !.left = @ - Tickets[b]].left = old.left - Tickets[b]
        /\ [old EXCEPT !.left = @ - Tickets[b]].open = old.open
    BY <2>4
  <2> QED BY <2>3, <2>5, <2>6, SameStock
<1>7. Stock' = [Stock EXCEPT ![x].left = @ - Tickets[b]]
  <2>1. Stock' = [Stock EXCEPT ![x] = new]
    BY <1>1, StockMoves
  <2>2. DOMAIN Stock = Events
    BY DEF Stock
  <2> QED BY <1>6, <2>1, <2>2
<1> QED BY <1>2, <1>3, <1>4, <1>5, <1>7 DEF Ledger!Sell

\* COMMIT of a cancellation is a refund.
LEMMA RefundStep ==
  ASSUME IInv, IInv', LedgerInv, NEW c \in Cancels, pc[c] = "Commit", Persist(c)
  PROVE  Ledger!Refund(Target[c])
<1> USE RequestAssumption
<1> DEFINE t == Target[c]
           x == EventOf[c]
           old == Stock[x]
           new == Stock'[x]
<1>1. TypeOK /\ x \in Events /\ events[x] # NoRow /\ c \in Requests
  BY CommitEffect DEF IInv
<1>2. tx[c].row = [events[x] EXCEPT !.booked = @ - Tickets[t]]
  BY DEF LedgerInv, RefundPending, TicketsOf
<1>3. /\ t \in Books /\ EventOf[t] = x
      /\ bookings[t] = "confirmed" /\ bookings' = [bookings EXCEPT ![t] = "cancelled"]
  BY CommitEffect
<1>6. new = [old EXCEPT !.left = @ + Tickets[t]]
  <2>1. events[x] \in Row /\ Tickets[t] \in Nat
    BY <1>1, <1>3 DEF TypeOK
  <2>2. /\ tx[c].row.capacity = events[x].capacity /\ tx[c].row.status = events[x].status
        /\ Remaining(tx[c].row) = Remaining(events[x]) + Tickets[t]
    BY <1>2, <2>1 DEF Remaining, Row
  <2>3. /\ new \in [capacity : Nat, left : Int, open : BOOLEAN]
        /\ new.capacity = old.capacity /\ new.left = old.left + Tickets[t] /\ new.open = old.open
    BY <1>1, <2>2, StockOfRow, StockMoves
  <2>4. old \in [capacity : Nat, left : Int, open : BOOLEAN]
    BY <1>1, StockOfRow
  <2> HIDE DEF old, new
  <2>5. [old EXCEPT !.left = @ + Tickets[t]] \in [capacity : Nat, left : Int, open : BOOLEAN]
    BY <2>1, <2>4
  <2>6. /\ [old EXCEPT !.left = @ + Tickets[t]].capacity = old.capacity
        /\ [old EXCEPT !.left = @ + Tickets[t]].left = old.left + Tickets[t]
        /\ [old EXCEPT !.left = @ + Tickets[t]].open = old.open
    BY <2>4
  <2> QED BY <2>3, <2>5, <2>6, SameStock
<1>7. Stock' = [Stock EXCEPT ![x].left = @ + Tickets[t]]
  <2>1. Stock' = [Stock EXCEPT ![x] = new]
    BY <1>1, StockMoves
  <2>2. DOMAIN Stock = Events
    BY DEF Stock
  <2> QED BY <1>6, <2>1, <2>2
<1> QED BY <1>3, <1>7 DEF Ledger!Refund

\* COMMIT of an update is a revision: what is sold stays sold, and fits.
LEMMA ReviseStep ==
  ASSUME IInv, IInv', NEW u \in Updates, pc[u] = "Commit", Persist(u)
  PROVE  Ledger!Revise(EventOf[u])
<1> USE RequestAssumption
<1> DEFINE x == EventOf[u]
           old == Stock[x]
           new == Stock'[x]
<1>1. TypeOK /\ x \in Events /\ events[x] # NoRow /\ u \in Requests /\ tx[u].row # NoRow
  BY CommitEffect DEF IInv
<1>2. tx[u].row.booked = events[x].booked /\ CheckConstraint(tx[u].row)
  BY DEF IInv, PendingWrites
<1>3. tx[u].row \in Row /\ events[x] \in Row
  BY <1>1 DEF TypeOK, TxRecord
<1>4. /\ new.capacity - new.left = old.capacity - old.left
      /\ new.left >= 0 /\ new.open \in BOOLEAN
  <2>1. /\ tx[u].row.capacity - Remaining(tx[u].row) = events[x].capacity - Remaining(events[x])
        /\ Remaining(tx[u].row) >= 0
    BY <1>2, <1>3 DEF Remaining, CheckConstraint, Row
  <2>2. /\ new.capacity = tx[u].row.capacity /\ new.left = Remaining(tx[u].row)
        /\ new \in [capacity : Nat, left : Int, open : BOOLEAN]
    BY <1>1, StockMoves
  <2>3. old.capacity = events[x].capacity /\ old.left = Remaining(events[x])
    BY <1>1, StockOfRow
  <2> QED BY <2>1, <2>2, <2>3
<1>5. old # NoRow /\ Stock' = [Stock EXCEPT ![x] = new]
  BY <1>1, StockMoves
<1>6. bookings' = bookings
  BY CommitEffect
<1> QED BY <1>4, <1>5, <1>6 DEF Ledger!Revise

\* Every step of a request is a step of the ledger, or leaves it alone.
LEMMA LedgerNext ==
  ASSUME IInv, IInv', Unanswered, LedgerInv, [Next]_vars
  PROVE  [Ledger!Next]_(Ledger!ledger)
<1>1. CASE UNCHANGED <<events, bookings, audit>>
  BY <1>1 DEF Ledger!ledger, Stock, Remaining
<1>2. ASSUME NEW r \in Requests, pc[r] = "Commit", Persist(r) PROVE Ledger!Next
  <2>1. EventOf[r] \in Events /\ (r \in Cancels => Target[r] \in Books)
    BY RequestAssumption
  <2> QED BY <1>2, <2>1, SellStep, RefundStep, ReviseStep DEF Ledger!Next
<1>3. \/ UNCHANGED <<events, bookings, audit>>
      \/ \E r \in Requests : pc[r] = "Commit" /\ Persist(r)
  BY NextMoved DEF Moved, db
<1> QED BY <1>1, <1>2, <1>3

\* ImplementsLedger: the committed rows behave as a ledger that checks and sells,
\* refunds and revises in single steps.
THEOREM Refinement == Spec => ImplementsLedger
<1>1. Init => Ledger!Init
  BY LedgerInit
<1>2. IInv /\ IInv' /\ Unanswered /\ LedgerInv /\ [Next]_vars => [Ledger!Next]_(Ledger!ledger)
  BY LedgerNext
<1>3. Spec => Ledger!Spec
  BY <1>1, <1>2, AlwaysIInv, AlwaysUnanswered, AlwaysLedgerInv, PTL DEF Spec, Ledger!Spec
<1> QED BY <1>3 DEF ImplementsLedger
===============================================================================
