------------------------- MODULE BookingCounterProofs -------------------------
(***************************************************************************)
(* Proofs, for every instance, of what the Redis counter promises beside   *)
(* the database: that no request leaves it in debt and that it hides no    *)
(* seat.  Each theorem names the faults and requests it speaks of.         *)
(***************************************************************************)
EXTENDS BookingAnswerProofs

USE DEF Requests

-----------------------------------------------------------------------------
(* Steps that do not touch the counter *)

\* Where the request may go next, and what it has read when it goes there.
Quiet(r) ==
    /\ Others(r) /\ spots' = spots
    /\ UNCHANGED db \/ (pc[r] = "Commit" /\ Persist(r))
    /\ pc'[r] \in {"SetNx", "Heal", "Undo"} => view'[r] = events[EventOf[r]] /\ view'[r] # NoRow
    /\ pc'[r] = "SetNx" => pc[r] = "SyncRead"
    /\ pc'[r] = "Heal" => pc[r] = "Recheck" /\ HealWanted(r)
    /\ pc'[r] = "Undo" => pc[r] = "Recheck"
    /\ pc'[r] = "DelKey" => pc[r] = "Recheck" /\ events[EventOf[r]] = NoRow
    /\ pc'[r] = "Decr" => pc[r] = "Exists" /\ spots[EventOf[r]] # Missing
    /\ pc'[r] # "Recheck" /\ pc[r] \notin {"SetNx", "Decr", "Heal", "Undo", "DelKey", "GiveBack"}
    /\ pc[r] = "Recheck" => pc'[r] \in {"Heal", "Undo", "DelKey"}
    /\ pc'[r] = "DeadCommit" => "audit" \in FaultKinds
    /\ r \in Books =>
          \/ pc[r] \in InTx \cup PostTx <=> pc'[r] \in InTx \cup PostTx
          \/ pc[r] = "Commit" /\ Persist(r) /\ pc'[r] = "Done"
          \/ pc[r] = "DeadCommit"

\* The steps of the handlers.
LEMMA HandlerQuiet ==
  ASSUME IInv, NEW r \in Requests,
         \/ Start(r) \/ LockEvent(r) \/ Commit(r) \/ DeadCommit(r) \/ Rollback(r)
         \/ r \in Books /\ (KeyExists(r) \/ SyncRead(r) \/ Recheck(r) \/ Rules(r) \/ Reserve(r) \/ Insert(r))
         \/ r \in Cancels /\ (LockBooking(r) \/ CancelWrites(r))
         \/ r \in Updates /\ (ReadRow(r) \/ WriteRow(r))
  PROVE  Quiet(r)
<1> USE RequestAssumption
    DEF TypeOK, Quiet, Others, Goto, Answer, Throw, EndTx, InTx, PostTx, db, locks, local
<1>0. TypeOK /\ PcFits
  BY DEF IInv
<1>1. CASE Start(r)  BY <1>0, <1>1 DEF Start, TxStart
<1>2. CASE LockEvent(r)
  <2>1. /\ pc[r] = "LockEvent" /\ pc'[r] \in {"Rollback", "Rules", "CancelWrites"}
        /\ Others(r) /\ UNCHANGED <<events, bookings, audit, spots>>
    BY <1>0, <1>2 DEF LockEvent
  <2> HIDE DEF TypeOK, Others
  <2> QED BY <2>1
<1>3. CASE Commit(r)
  <2>1. Persist(r) /\ pc[r] = "Commit" /\ pc' = [pc EXCEPT ![r] = "Done"] /\ spots' = spots
    BY <1>3 DEF Commit
  <2>2. pc'[r] = "Done" /\ Others(r)
    BY <1>0, <1>3 DEF Commit, Persist
  <2> HIDE DEF TypeOK, Others, EndTx
  <2> QED BY <2>1, <2>2
<1>4. CASE DeadCommit(r)
  <2>1. /\ pc[r] = "DeadCommit" /\ pc'[r] = "Done" /\ Others(r)
        /\ UNCHANGED <<events, bookings, audit, spots>>
    BY <1>0, <1>4 DEF DeadCommit
  <2> HIDE DEF TypeOK, Others
  <2> QED BY <2>1
<1>5. CASE Rollback(r)  BY <1>0, <1>5 DEF Rollback, TxStart, AfterRollback
<1>6. CASE r \in Books /\ KeyExists(r)  BY <1>0, <1>6 DEF KeyExists
<1>7. CASE r \in Books /\ SyncRead(r)  BY <1>0, <1>7 DEF SyncRead
<1>8. CASE r \in Books /\ Recheck(r)  BY <1>0, <1>8 DEF Recheck
<1>9. CASE r \in Books /\ Rules(r)  BY <1>0, <1>9 DEF Rules, RecordAudit
<1>10. CASE r \in Books /\ Reserve(r)  BY <1>0, <1>10 DEF Reserve, Write
<1>11. CASE r \in Books /\ Insert(r)  BY <1>0, <1>11 DEF Insert, RecordAudit
<1>12. CASE r \in Cancels /\ LockBooking(r)  BY <1>0, <1>12 DEF LockBooking, TakeBooking
<1>13. CASE r \in Cancels /\ CancelWrites(r)  BY <1>0, <1>13 DEF CancelWrites, Write
<1>14. CASE r \in Updates /\ ReadRow(r)  BY <1>0, <1>14 DEF ReadRow
<1>15. CASE r \in Updates /\ WriteRow(r)  BY <1>0, <1>15 DEF WriteRow, Write
<1> QED BY <1>1, <1>2, <1>3, <1>4, <1>5, <1>6, <1>7, <1>8, <1>9, <1>10, <1>11, <1>12,
           <1>13, <1>14, <1>15

\* The faults after which a transaction ends with all its handler does then.
LEMMA FaultQuiet ==
  ASSUME IInv, NEW r \in Requests, "postgres" \notin FaultKinds,
         StatementFault(r) \/ AuditFault(r) \/ CommitFault(r)
  PROVE  Quiet(r)
<1> USE RequestAssumption
    DEF TypeOK, Quiet, Others, Goto, Answer, Throw, Fault, InTx, PostTx, db, locks, local
<1>0. TypeOK /\ PcFits
  BY DEF IInv
<1>1. CASE StatementFault(r)  BY <1>0, <1>1 DEF StatementFault, EndTx
<1>2. CASE AuditFault(r)  BY <1>0, <1>2 DEF AuditFault, EndTx
<1>3. CASE CommitFault(r)  BY <1>0, <1>3 DEF CommitFault, EndTx, Persist
<1> QED BY <1>1, <1>2, <1>3

\* The commands a booking request sends, and no command lost or repeated and nobody dying.
Commands(b) == SetNx(b) \/ Decr(b) \/ Heal(b) \/ Undo(b) \/ DelKey(b) \/ GiveBack(b)
NothingLost == FaultKinds \cap {"redis", "resend", "postgres", "crash"} = {}

\* Every step is then a command, a cancellation's INCRBY, a flush or leaves the counter.
LEMMA NextQuiet ==
  ASSUME IInv, NothingLost, [Next]_vars
  PROVE  \/ UNCHANGED vars
         \/ "flush" \in FaultKinds /\ Flush
         \/ \E r \in Requests : Quiet(r)
         \/ \E b \in Books : Commands(b)
         \/ \E c \in Cancels : ReturnSeats(c)
<1> DEFINE Goal == \/ UNCHANGED vars
                   \/ "flush" \in FaultKinds /\ Flush
                   \/ \E r \in Requests : Quiet(r)
                   \/ \E b \in Books : Commands(b)
                   \/ \E c \in Cancels : ReturnSeats(c)
<1>1. ASSUME NEW r \in Requests, Start(r) PROVE Goal
  BY <1>1, HandlerQuiet
<1>2. ASSUME NEW b \in Books, BookStep(b) PROVE Goal
  <2>1. Quiet(b) \/ Commands(b)
    BY <1>2, HandlerQuiet DEF BookStep, Commands
  <2> QED BY <2>1
<1>3. ASSUME NEW c \in Cancels, CancelStep(c) PROVE Goal
  <2>1. Quiet(c) \/ ReturnSeats(c)
    BY <1>3, HandlerQuiet DEF CancelStep
  <2> QED BY <2>1
<1>4. ASSUME NEW u \in Updates, UpdateStep(u) PROVE Goal
  <2>1. Quiet(u)
    BY <1>4, HandlerQuiet DEF UpdateStep
  <2> QED BY <2>1
<1>5. ASSUME NEW r \in Requests, TxStep(r) PROVE Goal
  BY <1>5, HandlerQuiet DEF TxStep
<1>6. ASSUME NEW r \in Requests, StatementFault(r) \/ AuditFault(r) \/ CommitFault(r) PROVE Goal
  BY <1>6, FaultQuiet DEF NothingLost
<1>7. ASSUME NEW r \in Requests,
             RedisFault(r) \/ RedisResend(r) \/ ReadFault(r) \/ RollbackFault(r) \/ Crash(r)
      PROVE  FALSE
  BY <1>7 DEF NothingLost, RedisFault, RedisResend, ReadFault, RollbackFault, Crash, Fault
<1>8. CASE Flush
  BY <1>8 DEF Flush, Fault
<1>9. CASE Finished
  BY <1>9 DEF Finished
<1> QED
  BY <1>1, <1>2, <1>3, <1>4, <1>5, <1>6, <1>7, <1>8, <1>9 DEF Next, Step, FaultStep

\* What each command does to the key of the event, and where the request goes on.
Commanded(b) ==
    LET e == EventOf[b]
        n == Tickets[b]
    IN  \/ /\ pc[b] = "SetNx" /\ pc'[b] = "Decr"
           /\ spots'[e] = IF spots[e] = Missing THEN Remaining(view[b]) ELSE spots[e]
        \/ /\ pc[b] = "Decr" /\ spots'[e] = KeyValue(e) - n
           /\ \/ spots'[e] < 0 /\ pc'[b] = "Recheck"
              \/ ~(spots'[e] < 0) /\ pc'[b] = "LockEvent"
        \/ pc[b] = "Heal" /\ pc'[b] = "LockEvent" /\ spots'[e] = Remaining(view[b]) - n
        \/ pc[b] \in {"Undo", "GiveBack"} /\ pc'[b] = "Done" /\ spots'[e] = KeyValue(e) + n
        \/ pc[b] = "DelKey" /\ pc'[b] = "Done" /\ spots'[e] = Missing

\* A command moves its request and the key of its event, and nothing else.
LEMMA CommandEffect ==
  ASSUME IInv, NEW b \in Books, Commands(b)
  PROVE  /\ EventOf[b] \in Events /\ Tickets[b] \in Nat /\ Tickets[b] \in Int
         /\ \A q \in Requests \ {b} : pc'[q] = pc[q]
         /\ view' = view /\ events' = events
         /\ \A e \in Events \ {EventOf[b]} : spots'[e] = spots[e]
         /\ pc[b] \in {"SetNx", "Heal"} =>
               view[b] \in Row /\ view[b].capacity \in Int /\ view[b].booked \in Int
         /\ spots[EventOf[b]] \in Int \cup {Missing}
         /\ KeyValue(EventOf[b]) \in Int
         /\ Commanded(b)
<1> USE RequestAssumption
<1> DEFINE e == EventOf[b]
           n == Tickets[b]
<1>0. /\ TypeOK /\ e \in Events /\ n \in Nat /\ TicketsOf(b) = n /\ b \in Requests
      /\ spots[e] \in Int \cup {Missing}
  BY DEF IInv, TypeOK, TicketsOf
<1>1. /\ \A q \in Requests \ {b} : pc'[q] = pc[q]
      /\ view' = view /\ events' = events
  BY <1>0 DEF TypeOK, Commands, SetNx, Decr, Heal, Undo, DelKey, GiveBack, Goto, Answer, db, local
<1>2. \A v, x : x \in Events => SetKey(e, v)[x] = IF x = e THEN v ELSE spots[x]
  BY <1>0 DEF SetKey, TypeOK
<1>3. /\ \A x \in Events \ {e} : spots'[x] = spots[x]
      /\ Commanded(b)
  <2> USE DEF Goto, Answer, TypeOK, Commanded
  <2>1. CASE SetNx(b)
    <3>1. spots' = SyncedSpots(b) /\ pc[b] = "SetNx" /\ pc'[b] = "Decr"
      BY <1>0, <2>1 DEF SetNx
    <3> QED BY <1>0, <1>2, <3>1 DEF SyncedSpots
  <2>2. CASE Decr(b)
    <3>1. /\ spots' = SetKey(e, KeyValue(e) - n) /\ pc[b] = "Decr"
          /\ pc'[b] = IF spots'[e] < 0 THEN "Recheck" ELSE "LockEvent"
      BY <1>0, <2>2 DEF Decr, DecrBy
    <3> QED BY <1>0, <1>2, <3>1
  <2>3. CASE Heal(b)
    <3>1. spots' = SetKey(e, Remaining(view[b]) - n) /\ pc[b] = "Heal" /\ pc'[b] = "LockEvent"
      BY <1>0, <2>3 DEF Heal, HealedSpots
    <3> QED BY <1>0, <1>2, <3>1
  <2>4. CASE Undo(b) \/ GiveBack(b)
    <3>1. spots' = SetKey(e, KeyValue(e) + n) /\ pc[b] \in {"Undo", "GiveBack"} /\ pc'[b] = "Done"
      BY <1>0, <2>4 DEF Undo, GiveBack, IncrBy
    <3> QED BY <1>0, <1>2, <3>1
  <2>5. CASE DelKey(b)
    <3>1. spots' = SetKey(e, Missing) /\ pc[b] = "DelKey" /\ pc'[b] = "Done"
      BY <1>0, <2>5 DEF DelKey
    <3> QED BY <1>0, <1>2, <3>1
  <2> QED BY <2>1, <2>2, <2>3, <2>4, <2>5 DEF Commands
<1>4. ASSUME pc[b] \in {"SetNx", "Heal"}
      PROVE  view[b] \in Row /\ view[b].capacity \in Int /\ view[b].booked \in Int
  <2>1. view[b] # NoRow /\ view[b] \in Row \cup {NoRow}
    BY <1>0, <1>4 DEF IInv, TypeOK, RowsRead
  <2> QED BY <2>1 DEF Row
<1>5. KeyValue(e) \in Int
  BY <1>0 DEF KeyValue
<1> QED BY <1>0, <1>1, <1>3, <1>4, <1>5

\* The booking requests of an event that are at one of the points P, and their tickets.
At(P, e) == {q \in Books : EventOf[q] = e /\ pc[q] \in P}
TicketsAt(P, e) == SumOver(Tickets, At(P, e))

\* A step of b moves such a sum if it enters or leaves P, and only that of its event.
LEMMA TicketsMove ==
  ASSUME NEW P, NEW b \in Books, NEW e \in Events, \A q \in Books \ {b} : pc'[q] = pc[q]
  PROVE  LET here == EventOf[b] = e
             before == pc[b] \in P
             after == pc'[b] \in P
         IN  /\ ~here \/ (before <=> after) => TicketsAt(P, e)' = TicketsAt(P, e)
             /\ here /\ ~before /\ after => TicketsAt(P, e)' = TicketsAt(P, e) + Tickets[b]
             /\ here /\ before /\ ~after => TicketsAt(P, e)' = TicketsAt(P, e) - Tickets[b]
<1> DEFINE here == EventOf[b] = e
           before == pc[b] \in P
           after == pc'[b] \in P
<1>0. At(P, e) \in SUBSET Books
  BY DEF At
<1>1. ASSUME ~here \/ (before <=> after) PROVE TicketsAt(P, e)' = TicketsAt(P, e)
  <2>1. At(P, e)' = At(P, e)
    BY <1>1 DEF At
  <2> QED BY <2>1 DEF TicketsAt
<1>2. ASSUME here, ~before, after PROVE TicketsAt(P, e)' = TicketsAt(P, e) + Tickets[b]
  <2>1. At(P, e)' = At(P, e) \cup {b} /\ b \in Books \ At(P, e)
    BY <1>2 DEF At
  <2> QED BY <1>0, <2>1, TicketSum DEF TicketsAt
<1>3. ASSUME here, before, ~after PROVE TicketsAt(P, e)' = TicketsAt(P, e) - Tickets[b]
  <2>1. At(P, e)' = At(P, e) \ {b} /\ b \in At(P, e)
    BY <1>3 DEF At
  <2> QED BY <1>0, <2>1, TicketSum DEF TicketsAt
<1> QED BY <1>1, <1>2, <1>3

-----------------------------------------------------------------------------
(* The counter is never left in debt *)

\* What the requests between a DECRBY below zero and its answer owe.
Owed(e) == SumOver(Tickets, Debtors(e))

\* The sum of DebtIsCovered, in this state and the next, is Owed.
LEMMA DebtIsSum ==
  /\ DebtIsCovered <=> \A e \in Events : KeyValue(e) + Owed(e) >= 0
  /\ DebtIsCovered' <=> \A e \in Events : KeyValue(e)' + Owed(e)' >= 0
BY DEF DebtIsCovered, Owed, SumOver, MapThenSumSet, MapThenFoldSet

\* The counter and the debt of an event are integers.
LEMMA DebtType ==
  ASSUME TypeOK, NEW e \in Events
  PROVE  KeyValue(e) \in Int /\ Debtors(e) \in SUBSET Books /\ Owed(e) \in Nat
<1>1. KeyValue(e) \in Int
  BY DEF TypeOK, KeyValue
<1>2. Debtors(e) \in SUBSET Books
  BY DEF Debtors
<1> QED BY <1>1, <1>2, TicketSum DEF Owed

\* A step of b moves the debt of its own event by its tickets, or not at all.
LEMMA DebtMoves ==
  ASSUME NEW b \in Books, NEW e \in Events, \A q \in Books \ {b} : pc'[q] = pc[q]
  PROVE  LET here == EventOf[b] = e
             before == pc[b] \in {"Recheck", "Heal", "Undo", "DelKey"}
             after == pc'[b] \in {"Recheck", "Heal", "Undo", "DelKey"}
         IN  /\ ~here \/ (before <=> after) => Owed(e)' = Owed(e)
             /\ here /\ ~before /\ after => Owed(e)' = Owed(e) + Tickets[b]
             /\ here /\ before /\ ~after => Owed(e)' = Owed(e) - Tickets[b]
<1> DEFINE P == {"Recheck", "Heal", "Undo", "DelKey"}
<1>1. Owed(e) = TicketsAt(P, e) /\ Owed(e)' = TicketsAt(P, e)'
  BY DEF Owed, Debtors, TicketsAt, At
<1> HIDE DEF P
<1> QED BY <1>1, TicketsMove DEF P

\* A command pays back what it takes, or finds that the event can pay.
LEMMA DebtCommand ==
  ASSUME IInv, DebtInv, NEW b \in Books, Commands(b)
  PROVE  DebtInv'
<1> USE RequestAssumption
<1> DEFINE x == EventOf[b]
<1>0. TypeOK /\ x \in Events /\ Tickets[b] \in Nat /\ KeyValue(x) \in Int /\ Owed(x) \in Nat
  BY CommandEffect, DebtType DEF IInv
<1>1. ASSUME NEW e \in Events PROVE KeyValue(e)' + Owed(e)' >= 0
  <2>0. KeyValue(e) + Owed(e) >= 0 /\ KeyValue(e) \in Int /\ Owed(e) \in Nat
    BY <1>0, DebtIsSum, DebtType DEF DebtInv
  <2>1. CASE e # x
    <3>1. KeyValue(e)' = KeyValue(e)
      BY <2>1, CommandEffect DEF KeyValue
    <3>2. Owed(e)' = Owed(e)
      BY <1>0, <2>1, CommandEffect, DebtMoves
    <3> QED BY <2>0, <3>1, <3>2
  <2>2. CASE e = x
    <3> DEFINE owed == Owed(e)
               owedNext == Owed(e)'
    <3>1. /\ pc[b] \in {"SetNx", "GiveBack", "Heal", "Undo", "Decr", "DelKey"}
          /\ pc[b] \in {"SetNx", "GiveBack"} => owedNext = owed
          /\ pc[b] \in {"Heal", "Undo", "DelKey"} => owedNext = owed - Tickets[b]
          /\ pc[b] = "Decr" => owedNext = IF pc'[b] = "Recheck" THEN owed + Tickets[b] ELSE owed
      BY <1>0, <2>2, CommandEffect, DebtMoves DEF Commanded
    <3>2. owedNext \in Nat
      <4>1. (Debtors(e) \in SUBSET Books)'
        BY DEF Debtors
      <4> QED BY <4>1, TicketSum DEF Owed
    <3>3. KeyValue(e)' = IF spots'[e] = Missing THEN 0 ELSE spots'[e]
      BY DEF KeyValue
    <3>4. /\ pc[b] = "SetNx" => Remaining(view[b]) \in Nat
          /\ pc[b] = "Heal" => Remaining(view[b]) - Tickets[b] \in Nat
      BY <1>0, CommandEffect DEF DebtInv, Remaining
    <3> HIDE DEF owed, owedNext
    <3>5. /\ Missing \notin Int /\ owed \in Nat /\ KeyValue(e) + owed >= 0
          /\ spots[e] # Missing => KeyValue(e) = spots[e]
          /\ spots[e] \in Int \cup {Missing}
      BY <2>0, <2>2, NullAssumption, CommandEffect DEF owed, KeyValue
    <3>6. Commanded(b)
      BY CommandEffect
    <3>7. KeyValue(e)' + owedNext >= 0
      <4>1. CASE pc[b] = "SetNx"
        BY <1>0, <2>0, <2>2, <3>1, <3>2, <3>3, <3>4, <3>5, <3>6, <4>1 DEF Commanded
      <4>2. CASE pc[b] = "Decr"
        BY <1>0, <2>0, <2>2, <3>1, <3>2, <3>3, <3>5, <3>6, <4>2 DEF Commanded
      <4>3. CASE pc[b] = "Heal"
        BY <1>0, <2>0, <2>2, <3>1, <3>2, <3>3, <3>4, <3>5, <3>6, <4>3 DEF Commanded
      <4>4. CASE pc[b] \in {"Undo", "GiveBack"}
        BY <1>0, <2>0, <2>2, <3>1, <3>2, <3>3, <3>5, <3>6, <4>4 DEF Commanded
      <4>5. CASE pc[b] = "DelKey"
        BY <1>0, <2>0, <2>2, <3>1, <3>2, <3>3, <3>5, <3>6, <4>5 DEF Commanded
      <4> QED BY <3>1, <4>1, <4>2, <4>3, <4>4, <4>5
    <3> QED BY <3>7 DEF owedNext
  <2> QED BY <2>1, <2>2
<1>2. ASSUME NEW q \in Books
      PROVE  /\ pc'[q] = "SetNx" => Remaining(view'[q]) >= 0
             /\ pc'[q] = "Heal" => Remaining(view'[q]) >= Tickets[q]
  <2>1. pc'[q] \in {"SetNx", "Heal"} => pc[q] = pc'[q]
    BY CommandEffect DEF Commanded
  <2> QED BY <2>1, CommandEffect DEF DebtInv
<1> QED BY <1>1, <1>2, DebtIsSum DEF DebtInv, Remaining

\* The other steps leave counter and debt alone, and read rows that are not overbooked.
LEMMA DebtQuiet ==
  ASSUME IInv, DebtInv, NEW r \in Requests, Quiet(r)
  PROVE  DebtInv'
<1> USE RequestAssumption
<1>1. \A e \in Events : Debtors(e)' = Debtors(e) /\ KeyValue(e)' = KeyValue(e)
  BY DEF Debtors, KeyValue, Quiet, Others
<1>2. ASSUME NEW q \in Books, pc'[q] \in {"SetNx", "Heal"}
      PROVE  /\ pc'[q] = "SetNx" => Remaining(view'[q]) >= 0
             /\ pc'[q] = "Heal" => Remaining(view'[q]) >= Tickets[q]
  <2>1. CASE q # r
    BY <1>2, <2>1 DEF Quiet, Others, DebtInv
  <2>2. CASE q = r
    <3>1. /\ view'[q] = events[EventOf[q]] /\ events[EventOf[q]] # NoRow /\ EventOf[q] \in Events
          /\ pc'[q] = "Heal" => HealWanted(q)
      BY <1>2, <2>2 DEF Quiet
    <3>2. /\ events[EventOf[q]] \in Row /\ events[EventOf[q]].booked <= events[EventOf[q]].capacity
      BY <3>1 DEF IInv, TypeOK, NoOverbooking
    <3>3. Remaining(view'[q]) >= 0
      BY <3>1, <3>2 DEF Remaining, Row
    <3> QED BY <3>1, <3>3 DEF HealWanted
  <2> QED BY <2>1, <2>2
<1>3. \A e \in Events : KeyValue(e)' + Owed(e)' >= 0
  BY <1>1, DebtIsSum DEF DebtInv, Owed
<1> QED BY <1>2, <1>3, DebtIsSum DEF DebtInv, Remaining

\* A cancellation hands seats back; an empty Redis owes nothing.
LEMMA DebtOthers ==
  ASSUME IInv, DebtInv, Flush \/ UNCHANGED vars \/ \E c \in Cancels : ReturnSeats(c)
  PROVE  DebtInv'
<1> USE RequestAssumption
<1>1. CASE Flush
  <2>1. \A e \in Events : KeyValue(e)' = 0 /\ Debtors(e)' = Debtors(e)
    BY <1>1 DEF Flush, KeyValue, Debtors
  <2>2. \A e \in Events : Owed(e)' \in Nat
    BY <2>1, DebtType DEF Owed, IInv
  <2>3. pc' = pc /\ view' = view
    BY <1>1 DEF Flush, local
  <2> QED BY <2>1, <2>2, <2>3, DebtIsSum DEF DebtInv, Remaining
<1>2. CASE UNCHANGED vars
  <2>1. \A e \in Events : KeyValue(e)' = KeyValue(e) /\ Debtors(e)' = Debtors(e)
    BY <1>2 DEF vars, KeyValue, Debtors
  <2> QED BY <1>2, <2>1, DebtIsSum DEF DebtInv, Remaining, Owed, vars
<1>3. ASSUME NEW c \in Cancels, ReturnSeats(c) PROVE DebtInv'
  <2>0. TypeOK /\ c \in Requests /\ c \notin Books /\ Tickets[Target[c]] \in Nat /\ EventOf[c] \in Events
    BY DEF IInv
  <2>1. /\ \A q \in Books : pc'[q] = pc[q]
        /\ view' = view
    BY <1>3, <2>0 DEF ReturnSeats, Goto, TypeOK, local
  <2>2. spots' = [spots EXCEPT ![EventOf[c]] = KeyValue(EventOf[c]) + Tickets[Target[c]]]
    BY <1>3 DEF ReturnSeats, IncrBy, SetKey, TicketsOf
  <2>3. \A e \in Events : Debtors(e)' = Debtors(e)
    BY <2>1 DEF Debtors
  <2>4. ASSUME NEW e \in Events PROVE KeyValue(e)' + Owed(e)' >= 0
    <3>1. KeyValue(e) + Owed(e) >= 0 /\ KeyValue(e) \in Int /\ Owed(e) \in Nat
      BY <2>0, DebtIsSum, DebtType DEF DebtInv
    <3>2. KeyValue(e)' \in {KeyValue(e), KeyValue(e) + Tickets[Target[c]]}
      BY <2>0, <2>2, <3>1, NullAssumption DEF KeyValue, TypeOK
    <3>3. Owed(e)' = Owed(e)
      BY <2>3 DEF Owed
    <3> QED BY <2>0, <3>1, <3>2, <3>3
  <2> QED BY <2>1, <2>4, DebtIsSum DEF DebtInv, Remaining
<1> QED BY <1>1, <1>2, <1>3

\* DebtIsCovered: as long as every command arrives once and no process dies, every debt
\* of the counter belongs to a request that is about to pay it, whatever bookings,
\* cancellations, updates, deadlocks, lost COMMITs and restarts of Redis do.
THEOREM DebtsArePaid == ASSUME NothingLost, NoDebtAtStart PROVE Spec => []DebtIsCovered
<1>1. Init => DebtInv
  <2> SUFFICES ASSUME Init PROVE DebtInv
    OBVIOUS
  <2>1. ASSUME NEW e \in Events PROVE KeyValue(e) + Owed(e) >= 0
    <3>1. TypeOK
      BY InitInv DEF IInv
    <3>2. KeyValue(e) >= 0 /\ KeyValue(e) \in Int
      BY <3>1, DebtType DEF Init, NoDebtAtStart, KeyValue
    <3> QED BY <3>1, <3>2, DebtType
  <2>2. \A b \in Books : pc[b] \notin {"SetNx", "Heal"}
    BY RequestAssumption DEF Init
  <2> QED BY <2>1, <2>2, DebtIsSum DEF DebtInv
<1>2. IInv /\ DebtInv /\ [Next]_vars => DebtInv'
  BY NextQuiet, DebtQuiet, DebtCommand, DebtOthers
<1>3. DebtInv => DebtIsCovered
  BY DEF DebtInv
<1> QED BY <1>1, <1>2, <1>3, AlwaysIInv, PTL DEF Spec

-----------------------------------------------------------------------------
(* The counter hides no seat *)

\* The faults after which every transaction gives its seats back or keeps them.
GivesBack == FaultKinds \subseteq {"deadlock", "commit"}

\* The seats that requests still hold in the counter.
HoldingPoints == InTx \cup PostTx \cup {"Recheck", "Heal", "Undo"}
HeldBack(e) == TicketsAt(HoldingPoints, e)
Covers(e) == spots[e] # Missing /\ events[e] # NoRow => spots[e] + HeldBack(e) >= Remaining(events[e])

\* The sum of CounterHidesNoSeat, in this state and the next, is HeldBack.
LEMMA CoverIsSum ==
  /\ CounterHidesNoSeat <=> \A e \in Events : Covers(e)
  /\ CounterHidesNoSeat' <=> \A e \in Events : Covers(e)'
<1>1. \A e : Holders(e) = At(HoldingPoints, e) /\ Holders(e)' = At(HoldingPoints, e)'
  BY DEF Holders, At, HoldingPoints
<1>2. \A e : /\ MapThenSumSet(LAMBDA b : Tickets[b], Holders(e)) = HeldBack(e)
             /\ MapThenSumSet(LAMBDA b : Tickets[b], Holders(e))' = HeldBack(e)'
  BY <1>1 DEF HeldBack, TicketsAt, SumOver, MapThenSumSet, MapThenFoldSet
<1> QED BY <1>2 DEF CounterHidesNoSeat, Covers, MapThenSumSet, MapThenFoldSet

\* What requests hold is a natural number.
LEMMA HeldBackType ==
  ASSUME NEW e  PROVE HeldBack(e) \in Nat /\ HeldBack(e)' \in Nat
<1>1. At(HoldingPoints, e) \in SUBSET Books /\ At(HoldingPoints, e)' \in SUBSET Books
  BY DEF At
<1> QED BY <1>1, TicketSum DEF HeldBack, TicketsAt

\* A step of b moves what is held back of its event when it enters or leaves the points.
LEMMA HeldMoves ==
  ASSUME NEW b \in Books, NEW e \in Events, \A q \in Books \ {b} : pc'[q] = pc[q]
  PROVE  /\ EventOf[b] # e \/ (pc[b] \in HoldingPoints <=> pc'[b] \in HoldingPoints)
               => HeldBack(e)' = HeldBack(e)
         /\ EventOf[b] = e /\ pc[b] \notin HoldingPoints /\ pc'[b] \in HoldingPoints
               => HeldBack(e)' = HeldBack(e) + Tickets[b]
         /\ EventOf[b] = e /\ pc[b] \in HoldingPoints /\ pc'[b] \notin HoldingPoints
               => HeldBack(e)' = HeldBack(e) - Tickets[b]
<1> DEFINE P == HoldingPoints
<1>1. HeldBack(e) = TicketsAt(P, e) /\ HeldBack(e)' = TicketsAt(P, e)'
  BY DEF HeldBack
<1>2. P = HoldingPoints
  OBVIOUS
<1> HIDE DEF P
<1> QED BY <1>1, <1>2, TicketsMove

\* The points at which the request relies on the key, and what the key must be then.
LEMMA CoverPoints ==
  /\ CoverInv <=>
        /\ CounterHidesNoSeat
        /\ \A b \in Books :
              /\ pc[b] \in {"SetNx", "Heal"} =>
                    /\ events[EventOf[b]] # NoRow
                    /\ Remaining(view[b]) >= Remaining(events[EventOf[b]])
              /\ pc[b] \in HoldingPoints \cup {"Decr"} =>
                    events[EventOf[b]] = NoRow \/ spots[EventOf[b]] # Missing
              /\ pc[b] = "DelKey" => events[EventOf[b]] = NoRow
              /\ pc[b] # "DeadCommit"
  /\ CoverInv' <=>
        /\ CounterHidesNoSeat'
        /\ \A b \in Books :
              /\ pc'[b] \in {"SetNx", "Heal"} =>
                    /\ events'[EventOf[b]] # NoRow
                    /\ Remaining(view'[b]) >= Remaining(events'[EventOf[b]])
              /\ pc'[b] \in HoldingPoints \cup {"Decr"} =>
                    events'[EventOf[b]] = NoRow \/ spots'[EventOf[b]] # Missing
              /\ pc'[b] = "DelKey" => events'[EventOf[b]] = NoRow
              /\ pc'[b] # "DeadCommit"
<1>1. \A b \in Books : /\ pc[b] = "Decr" \/ b \in Holders(EventOf[b]) <=> pc[b] \in HoldingPoints \cup {"Decr"}
                       /\ pc'[b] = "Decr" \/ b \in Holders(EventOf[b])' <=> pc'[b] \in HoldingPoints \cup {"Decr"}
  BY DEF Holders, HoldingPoints
<1> QED BY <1>1 DEF CoverInv, Remaining

\* An event has a row before a step exactly if it has one after it.
LEMMA RowsStay ==
  ASSUME IInv, NEW r \in Requests, UNCHANGED db \/ (pc[r] = "Commit" /\ Persist(r)),
         NEW e \in Events
  PROVE  events'[e] = NoRow <=> events[e] = NoRow
<1>1. CASE UNCHANGED db
  BY <1>1 DEF db
<1>2. CASE pc[r] = "Commit" /\ Persist(r)
  BY <1>2, CommitEffect DEF IInv, TypeOK
<1> QED BY <1>1, <1>2

\* The other steps leave the counter alone; a sale takes from the event what it held back.
LEMMA CoverQuiet ==
  ASSUME IInv, LedgerInv, CoverInv, OnlySales, GivesBack, NEW r \in Requests, Quiet(r)
  PROVE  CoverInv'
<1> USE RequestAssumption
<1> DEFINE x == EventOf[r]
<1>0. /\ r \in Books /\ x \in Events /\ Tickets[r] \in Nat
      /\ UNCHANGED db \/ (pc[r] = "Commit" /\ Persist(r))
      /\ \A q \in Books \ {r} : pc'[q] = pc[q] /\ view'[q] = view[q]
      /\ spots' = spots /\ pc'[r] # "DeadCommit" /\ pc[r] # "DeadCommit"
      /\ \A e \in Events : spots[e] \in Int \cup {Missing}
  BY CoverPoints DEF OnlySales, GivesBack, Quiet, Others, IInv, TypeOK
<1>1. \A e \in Events : /\ events'[e] = NoRow <=> events[e] = NoRow
                        /\ events[e] # NoRow =>
                              /\ Remaining(events[e]) \in Int /\ Remaining(events'[e]) \in Int
                              /\ Remaining(events'[e]) <= Remaining(events[e])
  BY <1>0, RowsStay, SaleEffect
<1>2. \/ pc'[r] \in HoldingPoints <=> pc[r] \in HoldingPoints
      \/ pc'[r] = "DelKey" /\ events[x] = NoRow
      \/ pc[r] = "Commit" /\ Persist(r) /\ pc'[r] = "Done"
  BY <1>0 DEF Quiet, HoldingPoints, InTx, PostTx
<1>3. ASSUME NEW e \in Events PROVE Covers(e)'
  <2> SUFFICES ASSUME spots[e] # Missing, events[e] # NoRow
               PROVE  spots[e] + HeldBack(e)' >= Remaining(events'[e])
    BY <1>0, <1>1 DEF Covers, Remaining
  <2> DEFINE held == HeldBack(e)
             heldNext == HeldBack(e)'
  <2>1. /\ spots[e] + held >= Remaining(events[e]) /\ spots[e] \in Int
        /\ held \in Nat /\ heldNext \in Nat
    BY <1>0, CoverIsSum, HeldBackType DEF CoverInv, Covers
  <2>12. \A q \in Books \ {r} : pc'[q] = pc[q]
    BY <1>0
  <2>2. ASSUME x # e \/ (pc'[r] \in HoldingPoints <=> pc[r] \in HoldingPoints) PROVE heldNext = held
    <3>1. HeldBack(e)' = HeldBack(e)
      BY <1>0, <2>12, <2>2, HeldMoves
    <3> QED BY <3>1
  <2>3. ASSUME pc[r] = "Commit", Persist(r), pc'[r] = "Done", x = e
        PROVE  heldNext = held - Tickets[r] /\ Remaining(events'[e]) = Remaining(events[e]) - Tickets[r]
    <3>1. pc[r] \in HoldingPoints /\ pc'[r] \notin HoldingPoints
      BY <2>3 DEF HoldingPoints, InTx, PostTx
    <3>2. HeldBack(e)' = HeldBack(e) - Tickets[r]
      BY <1>0, <2>12, <2>3, <3>1, HeldMoves
    <3> QED BY <1>0, <2>3, <3>2, SaleEffect
  <2> HIDE DEF held, heldNext
  <2>4. spots[e] + heldNext >= Remaining(events'[e])
    BY <1>0, <1>1, <1>2, <2>1, <2>2, <2>3
  <2> QED BY <2>4 DEF heldNext
<1>4. ASSUME NEW b \in Books
      PROVE  /\ pc'[b] \in {"SetNx", "Heal"} =>
                    /\ events'[EventOf[b]] # NoRow
                    /\ Remaining(view'[b]) >= Remaining(events'[EventOf[b]])
             /\ pc'[b] \in HoldingPoints \cup {"Decr"} =>
                    events'[EventOf[b]] = NoRow \/ spots'[EventOf[b]] # Missing
             /\ pc'[b] = "DelKey" => events'[EventOf[b]] = NoRow
             /\ pc'[b] # "DeadCommit"
  <2>0. EventOf[b] \in Events
    OBVIOUS
  <2>1. CASE b # r
    <3>1. pc[b] \in {"SetNx", "Heal"} => Remaining(view[b]) \in Int
      BY DEF IInv, TypeOK, RowsRead, Remaining, Row
    <3> QED BY <1>0, <1>1, <2>0, <2>1, <3>1, CoverPoints
  <2>2. CASE b = r
    <3>1. ASSUME pc'[b] \in {"SetNx", "Heal"}
          PROVE  events'[x] # NoRow /\ Remaining(view'[b]) >= Remaining(events'[x])
      BY <1>1, <2>0, <2>2, <3>1 DEF Quiet
    <3>2. ASSUME pc'[b] \in HoldingPoints \cup {"Decr"}
          PROVE  events'[x] = NoRow \/ spots'[x] # Missing
      <4>1. pc[b] \in HoldingPoints \/ (pc'[b] = "Decr" /\ spots[x] # Missing)
        BY <1>2, <2>2, <3>2 DEF Quiet, HoldingPoints, InTx, PostTx
      <4> QED BY <1>0, <1>1, <2>2, <4>1, CoverPoints
    <3>3. ASSUME pc'[b] = "DelKey" PROVE events'[x] = NoRow
      BY <1>0, <1>1, <2>2, <3>3 DEF Quiet
    <3> QED BY <1>0, <2>2, <3>1, <3>2, <3>3
  <2> QED BY <2>1, <2>2
<1> QED BY <1>3, <1>4, CoverIsSum, CoverPoints

\* What a command writes covers the event: it was read from a row that has not grown.
LEMMA CoverCommand ==
  ASSUME IInv, CoverInv, NEW b \in Books, Commands(b)
  PROVE  CoverInv'
<1> USE RequestAssumption
<1> DEFINE x == EventOf[b]
           n == Tickets[b]
<1>1. /\ x \in Events /\ n \in Nat /\ Commanded(b) /\ events' = events /\ view' = view
      /\ \A q \in Books \ {b} : pc'[q] = pc[q]
      /\ \A e \in Events \ {x} : spots'[e] = spots[e]
      /\ spots[x] \in Int \cup {Missing} /\ KeyValue(x) \in Int /\ Missing \notin Int
      /\ pc[b] \in {"SetNx", "Heal"} =>
            view[b] \in Row /\ view[b].capacity \in Int /\ view[b].booked \in Int
  BY CommandEffect, NullAssumption
<1>2. /\ pc[b] \in {"SetNx", "Heal"} =>
            /\ events[x] # NoRow /\ Remaining(view[b]) >= Remaining(events[x])
            /\ Remaining(view[b]) \in Int
      /\ pc[b] \in HoldingPoints \cup {"Decr"} => events[x] = NoRow \/ spots[x] # Missing
      /\ pc[b] = "DelKey" => events[x] = NoRow
  BY <1>1, CoverPoints DEF Remaining
<1>3. ASSUME events[x] # NoRow PROVE spots'[x] \in Int /\ pc[b] # "DelKey"
  <2>1. spots[x] # Missing => KeyValue(x) = spots[x]
    BY DEF KeyValue
  <2> QED BY <1>1, <1>2, <1>3, <2>1 DEF Commanded
<1>4. ASSUME events[x] # NoRow, spots'[x] # Missing
      PROVE  spots'[x] + HeldBack(x)' >= Remaining(events[x])
  <2> DEFINE held == HeldBack(x)
             heldNext == HeldBack(x)'
             left == Remaining(events[x])
  <2>1. /\ pc[b] \in {"SetNx", "Decr", "Heal", "Undo", "GiveBack"}
        /\ pc[b] = "SetNx" => heldNext = held
        /\ pc[b] = "Decr" => heldNext = held + n
        /\ pc[b] = "Heal" => heldNext = held
        /\ pc[b] \in {"Undo", "GiveBack"} => heldNext = held - n
    BY <1>1, <1>3, <1>4, HeldMoves DEF Commanded, HoldingPoints, InTx, PostTx
  <2>2. pc[b] = "Heal" => n <= held
    <3>1. ASSUME pc[b] = "Heal" PROVE b \in At(HoldingPoints, x) /\ At(HoldingPoints, x) \in SUBSET Books
      BY <3>1 DEF At, HoldingPoints
    <3> QED BY <3>1, TicketSum DEF HeldBack, TicketsAt
  <2>3. /\ held \in Nat /\ heldNext \in Nat /\ left \in Int
        /\ spots[x] # Missing => spots[x] + held >= left /\ KeyValue(x) = spots[x]
    <3>1. events[x] \in Row
      BY <1>1, <1>4 DEF IInv, TypeOK
    <3>2. left \in Int
      BY <3>1 DEF Remaining, Row
    <3>3. held \in Nat /\ heldNext \in Nat
      BY HeldBackType
    <3>4. Covers(x)
      BY <1>1, CoverIsSum DEF CoverInv
    <3> QED BY <1>4, <3>2, <3>3, <3>4 DEF Covers, KeyValue
  <2>4. /\ pc[b] \in {"SetNx", "Heal"} => Remaining(view[b]) >= left /\ Remaining(view[b]) \in Int
        /\ pc[b] \in {"Decr", "Undo", "GiveBack"} => spots[x] # Missing
    BY <1>2, <1>4 DEF HoldingPoints, InTx, PostTx
  <2> HIDE DEF held, heldNext, left
  <2>5. spots'[x] + heldNext >= left
    <3>1. CASE pc[b] = "SetNx"
      BY <1>1, <2>1, <2>3, <2>4, <3>1 DEF Commanded
    <3>2. CASE pc[b] = "Decr"
      BY <1>1, <2>1, <2>3, <2>4, <3>2 DEF Commanded
    <3>3. CASE pc[b] = "Heal"
      BY <1>1, <2>1, <2>2, <2>3, <2>4, <3>3 DEF Commanded
    <3>4. CASE pc[b] \in {"Undo", "GiveBack"}
      BY <1>1, <2>1, <2>3, <2>4, <3>4 DEF Commanded
    <3> QED BY <2>1, <3>1, <3>2, <3>3, <3>4
  <2> QED BY <2>5 DEF heldNext, left
<1>5. ASSUME NEW e \in Events PROVE Covers(e)'
  <2>1. CASE e = x
    BY <1>1, <1>4, <2>1 DEF Covers, Remaining
  <2>2. CASE e # x
    <3>1. HeldBack(e)' = HeldBack(e)
      BY <1>1, <2>2, HeldMoves
    <3>2. Covers(e)
      BY CoverIsSum DEF CoverInv
    <3> QED BY <1>1, <2>2, <3>1, <3>2 DEF Covers, Remaining
  <2> QED BY <2>1, <2>2
<1>6. ASSUME NEW q \in Books
      PROVE  /\ pc'[q] \in {"SetNx", "Heal"} =>
                    /\ events'[EventOf[q]] # NoRow
                    /\ Remaining(view'[q]) >= Remaining(events'[EventOf[q]])
             /\ pc'[q] \in HoldingPoints \cup {"Decr"} =>
                    events'[EventOf[q]] = NoRow \/ spots'[EventOf[q]] # Missing
             /\ pc'[q] = "DelKey" => events'[EventOf[q]] = NoRow
             /\ pc'[q] # "DeadCommit"
  <2>0. EventOf[q] \in Events
    OBVIOUS
  <2>1. events[EventOf[q]] = NoRow \/ spots'[EventOf[q]] # Missing \/ q # b
    BY <1>1, <1>3
  <2>2. CASE q = b
    <3>1. pc'[b] \in {"Decr", "Recheck", "LockEvent", "Done"}
      BY <1>1 DEF Commanded
    <3> QED BY <1>1, <2>1, <2>2, <3>1
  <2>3. CASE q # b
    <3>1. /\ pc[q] \in {"SetNx", "Heal"} =>
                /\ events[EventOf[q]] # NoRow
                /\ Remaining(view[q]) >= Remaining(events[EventOf[q]])
          /\ pc[q] \in HoldingPoints \cup {"Decr"} =>
                events[EventOf[q]] = NoRow \/ spots[EventOf[q]] # Missing
          /\ pc[q] = "DelKey" => events[EventOf[q]] = NoRow
          /\ pc[q] # "DeadCommit" /\ pc'[q] = pc[q]
      BY <1>1, <2>3, CoverPoints
    <3>2. events[EventOf[q]] = NoRow \/ spots[EventOf[q]] = Missing \/ spots'[EventOf[q]] # Missing
      BY <1>1, <1>3, <2>0
    <3> QED BY <1>1, <3>1, <3>2
  <2> QED BY <2>2, <2>3
<1> QED BY <1>5, <1>6, CoverIsSum, CoverPoints

\* CounterHidesNoSeat: while seats are only sold, commands arrive and nobody dies, the
\* counter and the seats that requests hold in it cover what the event has left,
\* through deadlock retries and lost COMMITs too.
THEOREM NoSeatHidden ==
  ASSUME OnlySales, GivesBack, CoveredAtStart  PROVE Spec => []CounterHidesNoSeat
<1>0. NothingLost /\ "flush" \notin FaultKinds
  BY DEF GivesBack, NothingLost
<1>1. Init => CoverInv
  <2> SUFFICES ASSUME Init PROVE CoverInv
    OBVIOUS
  <2>1. TypeOK
    BY InitInv DEF IInv
  <2>2. \A b \in Books : pc[b] \in {"Idle", "Done"}
    BY RequestAssumption DEF Init
  <2>3. ASSUME NEW e \in Events PROVE Covers(e)
    <3> SUFFICES ASSUME spots[e] # Missing, events[e] # NoRow
                 PROVE  spots[e] + HeldBack(e) >= Remaining(events[e])
      BY DEF Covers
    <3>1. spots[e] \in Int /\ events[e] \in Row /\ HeldBack(e) \in Nat
      BY <2>1, HeldBackType DEF TypeOK
    <3>2. spots[e] >= Remaining(events[e]) /\ Remaining(events[e]) \in Int
      BY <3>1 DEF Init, CoveredAtStart, Remaining, Row
    <3> QED BY <3>1, <3>2
  <2> QED BY <2>2, <2>3, CoverIsSum, CoverPoints DEF HoldingPoints, InTx, PostTx
<1>2. IInv /\ LedgerInv /\ CoverInv /\ [Next]_vars => CoverInv'
  <2> SUFFICES ASSUME IInv, LedgerInv, CoverInv, [Next]_vars PROVE CoverInv'
    OBVIOUS
  <2>1. CASE UNCHANGED vars
    <3>1. \A e \in Events : Covers(e)' <=> Covers(e)
      <4>1. \A e : At(HoldingPoints, e)' = At(HoldingPoints, e)
        BY <2>1 DEF At, vars
      <4> QED BY <2>1, <4>1 DEF Covers, Remaining, HeldBack, TicketsAt, vars
    <3> QED BY <2>1, <3>1, CoverIsSum, CoverPoints DEF CoverInv, vars
  <2>2. ASSUME NEW c \in Cancels PROVE FALSE
    BY DEF OnlySales
  <2> QED BY <1>0, <2>1, <2>2, NextQuiet, CoverQuiet, CoverCommand
<1>3. CoverInv => CounterHidesNoSeat
  BY DEF CoverInv
<1> QED BY <1>1, <1>2, <1>3, AlwaysIInv, AlwaysLedgerInv, PTL DEF Spec
===============================================================================
