---------------------------- MODULE BackofficeProofs ----------------------------
(***************************************************************************)
(* Proofs, for all requests, headers, queries and bodies, of the rows that *)
(* the back office leaves and of what its readers are shown.               *)
(***************************************************************************)
EXTENDS Backoffice, FiniteSetTheorems, SequenceTheorems, TLAPS

USE DEF Requests, Writers

-----------------------------------------------------------------------------
(* Steps that write no row *)

\* Each request keeps to its own steps.
LEMMA Paths ==
  /\ \A q \in Requests : Path(q) \subseteq PcValues
  /\ \A c \in Creates : Path(c) = {"Idle", "Done", "InsertEvent", "Commit"}
  /\ \A p \in Patches : Path(p) = {"Idle", "Done", "ReadEvent", "WriteEvent", "Commit"}
  /\ \A b \in Books : Path(b) = {"Idle", "Done", "Sell"}
  /\ \A c \in Cancels : Path(c) = {"Idle", "Done", "CancelBooking"}
  /\ \A r \in Readers : Path(r) = {"Idle", "Done", "Queries"}
  /\ \A g \in Getters : Path(g) = {"Idle", "Done"}
BY RequestAssumption DEF Path, PcValues

\* The sets that are counted are finite.
LEMMA Finite ==
  /\ IsFiniteSet(Writers) /\ IsFiniteSet(Running) /\ IsFiniteSet(ToInsert)
  /\ Cardinality(Writers) \in Nat /\ Cardinality(Running) \in Nat /\ Cardinality(ToInsert) \in Nat
  /\ Cardinality(Ids) \in Nat /\ InitNow \in Nat /\ Ids = 1 .. Cardinality(Ids)
<1>1. IsFiniteSet(Writers) /\ IsFiniteSet(Running) /\ IsFiniteSet(ToInsert)
  <2>1. Writers \subseteq Requests /\ Running \subseteq Requests /\ ToInsert \subseteq Requests
    BY DEF Running, ToInsert
  <2> QED BY <2>1, RequestAssumption, FS_Subset
<1>2. IsFiniteSet(Ids) /\ Ids = 1 .. Cardinality(Ids)
  BY IdAssumption
<1> QED BY <1>1, <1>2, StartAssumption, FS_CardinalityType

\* Requests that come to an end or insert their event only free ticks and ids.
LEMMA CountsFall ==
  ASSUME \A q \in Writers : pc[q] = "Done" => pc'[q] = "Done",
         \A c \in Creates : pc'[c] \in {"Idle", "InsertEvent"} => pc[c] \in {"Idle", "InsertEvent"}
  PROVE  /\ Cardinality(Running') \in Nat /\ Cardinality(Running') <= Cardinality(Running)
         /\ Cardinality(ToInsert') \in Nat /\ Cardinality(ToInsert') <= Cardinality(ToInsert)
         /\ \A q \in Writers : pc[q] # "Done" /\ pc'[q] = "Done" =>
                  Cardinality(Running') <= Cardinality(Running) - 1
         /\ \A c \in Creates : /\ pc[c] \in {"Idle", "InsertEvent"}
                              /\ pc'[c] \notin {"Idle", "InsertEvent"} =>
                  Cardinality(ToInsert') <= Cardinality(ToInsert) - 1
<1>1. Running' \subseteq Running /\ ToInsert' \subseteq ToInsert
  BY DEF Running, ToInsert
<1>2. /\ Cardinality(Running') \in Nat /\ Cardinality(Running') <= Cardinality(Running)
      /\ Cardinality(ToInsert') \in Nat /\ Cardinality(ToInsert') <= Cardinality(ToInsert)
  BY <1>1, Finite, FS_Subset, FS_CardinalityType
<1>3. ASSUME NEW q \in Writers, pc[q] # "Done", pc'[q] = "Done"
      PROVE  Cardinality(Running') <= Cardinality(Running) - 1
  <2>1. q \in Running /\ Running' \subseteq Running \ {q}
    BY <1>1, <1>3 DEF Running
  <2>2. /\ IsFiniteSet(Running \ {q})
        /\ Cardinality(Running \ {q}) = Cardinality(Running) - 1
    BY <2>1, Finite, FS_RemoveElement
  <2>3. Cardinality(Running') <= Cardinality(Running \ {q})
    BY <2>1, <2>2, FS_Subset
  <2> QED BY <2>2, <2>3
<1>4. ASSUME NEW c \in Creates, pc[c] \in {"Idle", "InsertEvent"},
             pc'[c] \notin {"Idle", "InsertEvent"}
      PROVE  Cardinality(ToInsert') <= Cardinality(ToInsert) - 1
  <2>1. c \in ToInsert /\ ToInsert' \subseteq ToInsert \ {c}
    BY <1>1, <1>4 DEF ToInsert
  <2>2. /\ IsFiniteSet(ToInsert \ {c})
        /\ Cardinality(ToInsert \ {c}) = Cardinality(ToInsert) - 1
    BY <2>1, Finite, FS_RemoveElement
  <2>3. Cardinality(ToInsert') <= Cardinality(ToInsert \ {c})
    BY <2>1, <2>2, FS_Subset
  <2> QED BY <2>2, <2>3
<1> QED BY <1>2, <1>3, <1>4

\* Nobody gets past the gate but those it lets in.
LEMMA AdmittedStays ==
  ASSUME Admitted, \A x \in Requests : pc'[x] \in {"Done", pc[x]} \/ pc[x] \notin {"Idle", "Done"} \/ LetIn(x)
  PROVE  Admitted'
<1>1. \A x \in Requests : pc'[x] \in {"Idle", "Done"} \/ LetIn(x)
  BY DEF Admitted
<1> QED BY <1>1 DEF Admitted, LetIn, WriteRoute

\* A step of q that changes its place in its handler and what it has read, and no row.
Quiet(q) ==
    /\ UNCHANGED <<now, tables, nextId, tx, faults>>
    /\ pc' \in [Requests -> PcValues] /\ \A x \in Requests \ {q} : pc'[x] = pc[x]
    /\ pc'[q] \in Path(q) \ {"Commit"} /\ pc[q] # "Commit"
    /\ pc[q] = "Done" => pc'[q] = "Done"
    /\ pc[q] = "Idle" /\ pc'[q] \notin {"Idle", "Done"} => LetIn(q)
    /\ pc'[q] \in {"Idle", "InsertEvent", "Sell"} => pc[q] \in {"Idle", pc'[q]}
    /\ begin' \in [Writers -> Stamps] /\ page' \in [Readers -> Nat \ {0}]
    /\ reply' \in [Requests -> Answers] /\ view' \in [Patches -> Row \cup {NoRow}]
    /\ \A p \in Patches : pc'[p] = "WriteEvent" =>
          view'[p] # NoRow /\ events[EventOf[p]] # NoRow

\* Such a step keeps the invariant.
LEMMA QuietStep ==
  ASSUME RowsInv, NEW q \in Requests, Quiet(q)  PROVE RowsInv'
<1>0. /\ TypeOK /\ SeatsAreBookings /\ BookingsInv /\ TxInv /\ Counting
      /\ \A x \in Requests : pc[x] \in Path(x)
  BY DEF RowsInv
<1>1. /\ now' = now /\ events' = events /\ bookings' = bookings /\ auditLog' = auditLog
      /\ nextId' = nextId /\ tx' = tx /\ faults' = faults
  BY DEF Quiet, tables
<1>2. \A x \in Requests : pc'[x] = "Commit" <=> pc[x] = "Commit"
  BY DEF Quiet
<1>3. TypeOK'
  BY <1>0, <1>1, <1>2 DEF TypeOK, Quiet
<1>4. SeatsAreBookings'
  BY <1>0, <1>1 DEF SeatsAreBookings, Confirmed
<1>5. BookingsInv'
  <2>1. ASSUME NEW b \in bookings, pc'[b.by] \in {"Idle", "Sell"} PROVE FALSE
    <3>1. b.by \in Requests /\ pc[b.by] \notin {"Idle", "Sell"}
      BY <1>0 DEF BookingsInv, TypeOK, Booking
    <3> QED BY <2>1, <3>1 DEF Quiet
  <2> QED BY <1>0, <1>1, <2>1 DEF BookingsInv
<1>6. TxInv'
  BY <1>0, <1>1, <1>2 DEF TxInv, CreateTx, PatchTx, Quiet
<1>7. Counting'
  <2>1. /\ Cardinality(Running') \in Nat /\ Cardinality(Running') <= Cardinality(Running)
        /\ Cardinality(ToInsert') \in Nat /\ Cardinality(ToInsert') <= Cardinality(ToInsert)
    <3>1. /\ \A x \in Writers : pc[x] = "Done" => pc'[x] = "Done"
          /\ \A c \in Creates : pc'[c] \in {"Idle", "InsertEvent"} => pc[c] \in {"Idle", "InsertEvent"}
      BY DEF Quiet
    <3> QED BY <3>1, CountsFall
  <2>2. now \in Nat /\ nextId \in Nat
    BY <1>0, Finite DEF TypeOK, Stamps
  <2>3. now' + Cardinality(Running') <= InitNow + Cardinality(Writers)
    BY <1>0, <1>1, <2>1, <2>2, Finite DEF Counting
  <2>4. nextId' + Cardinality(ToInsert') <= Cardinality(Ids) + 1
    BY <1>0, <1>1, <2>1, <2>2, Finite DEF Counting
  <2> QED BY <1>0, <1>1, <2>3, <2>4 DEF Counting
<1>8. \A x \in Requests : pc'[x] \in Path(x)
  BY <1>0 DEF Quiet
<1>9. (\A x \in Requests : pc[x] \in Path(x))'
  BY <1>8 DEF Path
<1>10. Admitted'
  <2>1. \A x \in Requests : pc'[x] \in {"Done", pc[x]} \/ pc[x] \notin {"Idle", "Done"} \/ LetIn(x)
    BY DEF Quiet
  <2> QED BY <2>1, AdmittedStays DEF RowsInv
<1> QED BY <1>3, <1>4, <1>5, <1>6, <1>7, <1>9, <1>10 DEF RowsInv

\* A request that answers, or goes on, alone changes its place.
LEMMA Goes ==
  ASSUME TypeOK, NEW q \in Requests, NEW label \in PcValues, Goto(q, label)
  PROVE  /\ pc' \in [Requests -> PcValues] /\ pc'[q] = label
         /\ \A x \in Requests \ {q} : pc'[x] = pc[x]
BY DEF TypeOK, Goto

\* The same, with its answer: the handler has ended.
LEMMA Ends ==
  ASSUME TypeOK, NEW q \in Requests, NEW a \in Answers, Answer(q, a)
  PROVE  /\ pc' \in [Requests -> PcValues] /\ pc'[q] = "Done"
         /\ \A x \in Requests \ {q} : pc'[x] = pc[x]
         /\ reply' \in [Requests -> Answers]
BY DEF TypeOK, Goto, Answer, PcValues

\* An answer that commits nothing.
LEMMA EndStep ==
  ASSUME RowsInv, NEW q \in Requests, pc[q] # "Commit", NEW a \in Answers, Answer(q, a),
         UNCHANGED <<now, tables, nextId, tx, faults, begin>>, page' \in [Readers -> Nat \ {0}],
         view' \in [Patches -> Row \cup {NoRow}], \A p \in Patches \ {q} : view'[p] = view[p]
  PROVE  RowsInv'
<1>0. TypeOK
  BY DEF RowsInv
<1>1. /\ pc' \in [Requests -> PcValues] /\ pc'[q] = "Done"
      /\ \A x \in Requests \ {q} : pc'[x] = pc[x]
      /\ reply' \in [Requests -> Answers]
  BY <1>0, Ends
<1>2. \A p \in Patches : pc'[p] = "WriteEvent" => view'[p] # NoRow /\ events[EventOf[p]] # NoRow
  BY <1>1 DEF RowsInv, TxInv
<1>3. "Done" \in Path(q)
  BY DEF Path
<1>4. begin' \in [Writers -> Stamps]
  BY <1>0 DEF TypeOK
<1> QED BY <1>1, <1>2, <1>3, <1>4, QuietStep DEF Quiet, tables

\* What the middlewares answer.
LEMMA GateAnswers == \A route, headers : Gate(route, headers) \in {"next"} \cup Answers
BY DEF Gate, Answers

\* The clock of a running transaction is that of its BEGIN.
LEMMA BeginStep ==
  ASSUME RowsInv, NEW q \in Writers, Begin(q)  PROVE RowsInv'
<1>0. TypeOK /\ pc[q] = "Idle" /\ q \in Requests
  BY DEF RowsInv, Begin
<1>1. CASE Gate(WriteRoute(q), HeadersOf[q]) = "next"
  <2>1. Goto(q, FirstStep(q)) /\ begin' = [begin EXCEPT ![q] = now] /\ reply' = reply
    BY <1>1 DEF Begin
  <2>2. FirstStep(q) \in PcValues /\ FirstStep(q) \in Path(q) \ {"Commit", "WriteEvent"}
    BY Paths, RequestAssumption DEF FirstStep, PcValues
  <2>3. /\ pc' \in [Requests -> PcValues] /\ pc'[q] = FirstStep(q)
        /\ \A x \in Requests \ {q} : pc'[x] = pc[x]
    BY <1>0, <2>1, <2>2, Goes
  <2>4. /\ begin' \in [Writers -> Stamps] /\ reply' \in [Requests -> Answers] /\ view' = view
        /\ view \in [Patches -> Row \cup {NoRow}] /\ page' \in [Readers -> Nat \ {0}]
    BY <1>0, <2>1 DEF TypeOK, Begin, reading
  <2>5. \A p \in Patches : pc'[p] = "WriteEvent" => view'[p] # NoRow /\ events[EventOf[p]] # NoRow
    BY <2>2, <2>3, <2>4 DEF RowsInv, TxInv
  <2>6. LetIn(q)
    BY <1>1 DEF LetIn
  <2> QED BY <1>0, <2>2, <2>3, <2>4, <2>5, <2>6, QuietStep DEF Quiet, Begin
<1>2. CASE Gate(WriteRoute(q), HeadersOf[q]) # "next"
  <2>1. Answer(q, Gate(WriteRoute(q), HeadersOf[q])) /\ begin' = begin
    BY <1>2 DEF Begin
  <2>2. Gate(WriteRoute(q), HeadersOf[q]) \in Answers
    BY <1>2, GateAnswers
  <2>3. /\ UNCHANGED <<now, tables, nextId, tx, faults, begin>> /\ page' \in [Readers -> Nat \ {0}]
        /\ view' \in [Patches -> Row \cup {NoRow}] /\ view' = view
    BY <1>0, <2>1 DEF Begin, TypeOK, reading
  <2> QED BY <1>0, <2>1, <2>2, <2>3, EndStep
<1> QED BY <1>1, <1>2

\* findByIdWithClient finds the row, or there is none.
LEMMA ReadEventStep ==
  ASSUME RowsInv, NEW p \in Patches, ReadEvent(p)  PROVE RowsInv'
<1>0. TypeOK /\ pc[p] = "ReadEvent" /\ p \in Requests /\ EventOf[p] \in Ids
  BY RequestAssumption DEF RowsInv, ReadEvent
<1>1. /\ view' \in [Patches -> Row \cup {NoRow}] /\ view'[p] = events[EventOf[p]]
      /\ \A x \in Patches \ {p} : view'[x] = view[x]
  BY <1>0 DEF ReadEvent, TypeOK
<1>2. UNCHANGED <<now, tables, nextId, tx, faults, begin, page>>
  BY DEF ReadEvent, reading
<1>3. page' \in [Readers -> Nat \ {0}] /\ begin' \in [Writers -> Stamps]
  BY <1>0, <1>2 DEF TypeOK
<1>4. CASE events[EventOf[p]] = NoRow
  <2>1. Answer(p, "NotFound") /\ "NotFound" \in Answers
    BY <1>4 DEF ReadEvent, Answers
  <2> QED BY <1>0, <1>1, <1>2, <1>3, <2>1, EndStep
<1>5. CASE events[EventOf[p]] # NoRow
  <2>1. Goto(p, "WriteEvent") /\ reply' = reply
    BY <1>5 DEF ReadEvent
  <2>2. "WriteEvent" \in PcValues /\ "WriteEvent" \in Path(p)
    BY Paths DEF PcValues
  <2>3. /\ pc' \in [Requests -> PcValues] /\ pc'[p] = "WriteEvent"
        /\ \A x \in Requests \ {p} : pc'[x] = pc[x]
    BY <1>0, <2>1, <2>2, Goes
  <2>4. \A x \in Patches : pc'[x] = "WriteEvent" => view'[x] # NoRow /\ events[EventOf[x]] # NoRow
    BY <1>1, <1>5, <2>3 DEF RowsInv, TxInv
  <2>5. reply' \in [Requests -> Answers]
    BY <1>0, <2>1 DEF TypeOK
  <2> QED BY <1>0, <1>1, <1>2, <1>3, <2>2, <2>3, <2>4, <2>5, QuietStep DEF Quiet
<1> QED BY <1>4, <1>5

\* A reader between its queries.
LEMMA ReaderStep ==
  ASSUME RowsInv, NEW r \in Readers,
         Open(r) \/ ListQuery(r) \/ CountQuery(r) \/ Respond(r)
  PROVE  RowsInv'
<1>0. TypeOK /\ r \in Requests /\ pc[r] \in {"Idle", "Queries"}
  BY DEF RowsInv, Open, ListQuery, CountQuery, Respond
<1>1. UNCHANGED <<now, tables, nextId, tx, faults, begin, view>>
  BY DEF Open, ListQuery, CountQuery, Respond, writing
<1>2. page' \in [Readers -> Nat \ {0}]
  BY <1>0 DEF TypeOK, Open, ListQuery, CountQuery, Respond
<1>3. view' \in [Patches -> Row \cup {NoRow}] /\ begin' \in [Writers -> Stamps]
  BY <1>0, <1>1 DEF TypeOK
<1>4. ASSUME NEW a \in Answers, Answer(r, a) PROVE RowsInv'
  BY <1>0, <1>1, <1>2, <1>3, <1>4, EndStep
<1>5. CASE (Goto(r, "Queries") \/ pc' = pc) /\ reply' = reply /\ (pc[r] = "Queries" \/ LetIn(r))
  <2>1. "Queries" \in PcValues /\ "Queries" \in Path(r) /\ pc[r] \in Path(r)
    BY <1>0, Paths DEF PcValues, RowsInv
  <2>2. /\ pc' \in [Requests -> PcValues] /\ pc'[r] \in {"Queries", pc[r]}
        /\ \A x \in Requests \ {r} : pc'[x] = pc[x]
    BY <1>0, <1>5, <2>1, Goes DEF TypeOK
  <2>3. \A x \in Patches : pc'[x] = "WriteEvent" => view'[x] # NoRow /\ events[EventOf[x]] # NoRow
    BY <1>0, <1>1, <2>2 DEF RowsInv, TxInv
  <2>4. reply' \in [Requests -> Answers]
    BY <1>0, <1>5 DEF TypeOK
  <2>5. pc[r] = "Idle" => LetIn(r)
    BY <1>5
  <2> QED BY <1>0, <1>1, <1>2, <1>3, <2>1, <2>2, <2>3, <2>4, <2>5, QuietStep DEF Quiet
<1>6. CASE Open(r)
  <2>1. CASE Gate(RouteOf[r], HeadersOf[r]) = "next"
    <3>1. LetIn(r)
      BY <2>1, RequestAssumption DEF LetIn
    <3> QED BY <1>5, <1>6, <2>1, <3>1 DEF Open
  <2>2. CASE Gate(RouteOf[r], HeadersOf[r]) # "next"
    BY <1>4, <1>6, <2>2, GateAnswers DEF Open
  <2> QED BY <2>1, <2>2
<1>7. CASE ListQuery(r) \/ CountQuery(r)
  BY <1>5, <1>7 DEF ListQuery, CountQuery
<1>8. CASE Respond(r)
  <2>1. "OK" \in Answers
    BY DEF Answers
  <2> QED BY <1>4, <1>5, <1>8, <2>1 DEF Respond
<1> QED BY <1>6, <1>7, <1>8

\* A request for one row.
LEMMA GetterStep ==
  ASSUME RowsInv, NEW g \in Getters, Get(g)  PROVE RowsInv'
<1>0. TypeOK /\ g \in Requests /\ pc[g] = "Idle" /\ g \notin Patches
  BY RequestAssumption DEF RowsInv, Get
<1>1. UNCHANGED <<now, tables, nextId, tx, faults, begin, view, page>>
  BY DEF Get, writing
<1>2. /\ page' \in [Readers -> Nat \ {0}] /\ view' \in [Patches -> Row \cup {NoRow}]
  BY <1>0, <1>1 DEF TypeOK
<1>3. \E a \in Answers : Answer(g, a)
  <2>1. {"NotFound", "Forbidden", "OK"} \subseteq Answers
    BY DEF Answers
  <2>2. CASE GetRefused(g)
    BY <2>2, GateAnswers DEF GetRefused
  <2>3. ASSUME NEW id, GetMissing(g, id) \/ GetHidden(g, id) \/ GetShown(g, id)
        PROVE  \E a \in Answers : Answer(g, a)
    BY <2>1, <2>3 DEF GetMissing, GetHidden, GetShown
  <2> QED BY <2>2, <2>3 DEF Get
<1> QED BY <1>0, <1>1, <1>2, <1>3, EndStep

-----------------------------------------------------------------------------
(* Transactions on events *)

\* The row of a POST, and the values of it that are logged.
LEMMA InsertedIsRow ==
  ASSUME TypeOK, NEW c \in Creates, nextId \in Ids
  PROVE  /\ InsertedRow(c) \in Row /\ InsertedRow(c).booked = 0 /\ InsertedRow(c).id = nextId
         /\ EntryOK(EventEntry(c, nextId, [f \in Fields |-> InsertedRow(c)[f]]))
<1>1. /\ Body[c].name \in Names /\ Body[c].capacity \in Capacities
      /\ Body[c].status \in Statuses \cup {None}
  <2>1. Body[c]["name"] \in Names \cup {None} /\ Body[c]["capacity"] \in Capacities \cup {None}
        /\ Body[c]["status"] \in Statuses \cup {None}
    BY RequestAssumption DEF Fields, Values
  <2> QED BY <2>1, RequestAssumption
<1>2. StatusOrDraft(c) \in Statuses
  BY <1>1 DEF StatusOrDraft, Given, Statuses
<1>3. c \in Writers /\ begin[c] \in Stamps
  BY DEF TypeOK
<1>4. InsertedRow(c) \in Row /\ InsertedRow(c).booked = 0 /\ InsertedRow(c).id = nextId
  BY <1>1, <1>2, <1>3 DEF InsertedRow, Row
<1>5. \A f \in Fields : InsertedRow(c)[f] \in Values[f] \cup {None}
  BY <1>1, <1>2 DEF InsertedRow, Fields, Values
<1>6. "event" \in Logs /\ "success" \in {"success", "failure"}
  BY DEF Logs
<1> QED BY <1>3, <1>4, <1>5, <1>6 DEF EventEntry, EntryOK

\* The row of a PATCH: the columns of the body, and booked_count as it is now.
LEMMA UpdatedIsRow ==
  ASSUME TypeOK, NEW p \in Patches, view[p] # NoRow, events[EventOf[p]] # NoRow
  PROVE  /\ UpdatedRow(p) \in Row /\ UpdatedRow(p).booked = events[EventOf[p]].booked
         /\ UpdatedRow(p).id = EventOf[p]
         /\ EntryOK(EventEntry(p, EventOf[p], Changes(p)))
<1> DEFINE e == EventOf[p]
<1>1. e \in Ids /\ events[e] \in Row /\ view[p] \in Row /\ events[e].id = e
  BY RequestAssumption DEF TypeOK
<1>2. \A f \in Fields : Body[p][f] \in Values[f] \cup {None}
  BY RequestAssumption
<1>3. DOMAIN events[e] = {"id", "name", "capacity", "status", "booked", "at"}
  BY <1>1 DEF Row
<1>4. UpdatedRow(p) = [id |-> events[e].id, name |-> Patch(Body[p]["name"], view[p].name),
                       capacity |-> Patch(Body[p]["capacity"], view[p].capacity),
                       status |-> Patch(Body[p]["status"], view[p].status),
                       booked |-> events[e].booked, at |-> events[e].at]
  BY <1>3 DEF UpdatedRow, Fields
<1>5. /\ Patch(Body[p]["name"], view[p].name) \in Names
      /\ Patch(Body[p]["capacity"], view[p].capacity) \in Capacities
      /\ Patch(Body[p]["status"], view[p].status) \in Statuses
  BY <1>1, <1>2 DEF Row, Patch, Given, Fields, Values
<1>6. p \in Writers /\ begin[p] \in Stamps /\ "event" \in Logs
  BY DEF TypeOK, Logs
<1>7. EntryOK(EventEntry(p, e, Changes(p)))
  BY <1>1, <1>2, <1>6 DEF EventEntry, EntryOK, Changes
<1> QED BY <1>1, <1>4, <1>5, <1>7 DEF Row

\* The INSERT of an event takes the next id, which no row and no other POST has.
LEMMA InsertEventStep ==
  ASSUME RowsInv, NEW c \in Creates, InsertEvent(c)  PROVE RowsInv'
<1> DEFINE row == InsertedRow(c)
           entry == EventEntry(c, nextId, [f \in Fields |-> row[f]])
<1>0. /\ TypeOK /\ SeatsAreBookings /\ BookingsInv /\ TxInv /\ Counting
      /\ \A x \in Requests : pc[x] \in Path(x)
      /\ pc[c] = "InsertEvent" /\ c \in Requests /\ c \in Writers
  BY DEF RowsInv, InsertEvent
<1>1. /\ now' = now /\ events' = events /\ bookings' = bookings /\ auditLog' = auditLog
      /\ nextId' = nextId + 1 /\ faults' = faults /\ begin' = begin /\ view' = view
      /\ page' = page /\ reply' = reply /\ Goto(c, "Commit")
      /\ tx' = [tx EXCEPT ![c] = [event |-> row, entry |-> entry]]
  BY DEF InsertEvent, tables, reading
<1>2. "Commit" \in PcValues /\ "Commit" \in Path(c)
  BY Paths DEF PcValues
<1>3. /\ pc' \in [Requests -> PcValues] /\ pc'[c] = "Commit"
      /\ \A x \in Requests \ {c} : pc'[x] = pc[x]
  BY <1>0, <1>1, <1>2, Goes
<1>4. now \in Nat /\ nextId \in Nat
  BY <1>0, Finite DEF TypeOK, Stamps
<1>5. /\ Cardinality(Running') \in Nat /\ Cardinality(Running') <= Cardinality(Running)
      /\ Cardinality(ToInsert') \in Nat /\ Cardinality(ToInsert') <= Cardinality(ToInsert) - 1
  <2>1. /\ \A x \in Writers : pc[x] = "Done" => pc'[x] = "Done"
        /\ \A d \in Creates : pc'[d] \in {"Idle", "InsertEvent"} => pc[d] \in {"Idle", "InsertEvent"}
    BY <1>0, <1>3
  <2>2. pc[c] \in {"Idle", "InsertEvent"} /\ pc'[c] \notin {"Idle", "InsertEvent"}
    BY <1>0, <1>3
  <2> QED BY <2>1, <2>2, CountsFall
<1>6. nextId \in Ids /\ events[nextId] = NoRow
  <2>1. nextId + Cardinality(ToInsert) <= Cardinality(Ids) + 1 /\ nextId > 0
    BY <1>0 DEF Counting
  <2>2. nextId \in 1 .. Cardinality(Ids)
    BY <1>4, <1>5, <2>1, Finite
  <2>3. nextId \in Ids
    BY <2>2, Finite
  <2> QED BY <1>0, <1>4, <2>3 DEF Counting
<1>7. row \in Row /\ row.booked = 0 /\ row.id = nextId /\ EntryOK(entry)
  BY <1>0, <1>6, InsertedIsRow
<1>8. entry.by = c
  BY DEF EventEntry
<1> HIDE DEF row, entry
<1>9. /\ DOMAIN tx' = Creates \cup Patches /\ tx'[c].event = row /\ tx'[c].entry = entry
      /\ tx'[c] = [event |-> row, entry |-> entry]
      /\ \A q \in (Creates \cup Patches) \ {c} : tx'[q] = tx[q]
  BY <1>0, <1>1 DEF TxInv
<1>10. TypeOK'
  <2>1. tx'[c] # NoTx
    BY <1>7, <1>9, StartAssumption DEF NoTx
  <2>2. ASSUME NEW q \in Creates \cup Patches PROVE pc'[q] = "Commit" <=> tx'[q] # NoTx
    BY <1>0, <1>3, <1>9, <2>1 DEF TypeOK
  <2>3. nextId' \in Nat
    BY <1>1, <1>4
  <2>4. (\A q \in Creates \cup Patches : pc[q] = "Commit" <=> tx[q] # NoTx)'
    BY <2>2 DEF NoTx
  <2> QED BY <1>0, <1>1, <1>3, <2>3, <2>4 DEF TypeOK
<1>11. SeatsAreBookings'
  BY <1>0, <1>1 DEF SeatsAreBookings, Confirmed
<1>12. BookingsInv'
  <2>1. ASSUME NEW b \in bookings PROVE pc'[b.by] \notin {"Idle", "Sell"}
    <3>1. b.by \in Requests /\ pc[b.by] \notin {"Idle", "Sell"}
      BY <1>0 DEF BookingsInv, TypeOK, Booking
    <3> QED BY <1>3, <3>1
  <2> QED BY <1>0, <1>1, <2>1 DEF BookingsInv
<1>13. TxInv'
  <2>1. ASSUME NEW q \in Creates \cup Patches, pc'[q] = "Commit"
        PROVE  /\ tx'[q].event \in Row /\ EntryOK(tx'[q].entry) /\ tx'[q].entry.by = q
               /\ q # c => pc[q] = "Commit" /\ tx'[q] = tx[q]
    BY <1>0, <1>3, <1>7, <1>8, <1>9, <2>1 DEF TxInv
  <2>2. ASSUME NEW d \in Creates, pc[d] = "Commit", d # c PROVE tx'[d] = tx[d] /\ CreateTx(d)
    BY <1>0, <1>9, <2>2 DEF TxInv
  <2>3. ASSUME NEW d \in Creates, pc'[d] = "Commit" PROVE CreateTx(d)'
    <3>1. CASE d = c
      <4>1. tx'[d].event.id = nextId /\ tx'[d].event.booked = 0
        BY <1>7, <1>9, <3>1
      <4>2. ASSUME NEW x \in Creates, pc'[x] = "Commit", tx'[x].event.id = tx'[d].event.id PROVE x = d
        <5>1. x # c => tx[x].event.id < nextId /\ tx'[x] = tx[x]
          BY <1>3, <2>2, <4>2 DEF CreateTx
        <5> QED BY <1>4, <3>1, <4>1, <4>2, <5>1
      <4> QED BY <1>1, <1>4, <1>6, <4>1, <4>2 DEF CreateTx
    <3>2. CASE d # c
      <4>1. /\ tx'[d] = tx[d] /\ tx[d].event.booked = 0 /\ tx[d].event.id < nextId
            /\ events[tx[d].event.id] = NoRow /\ tx[d].event.id \in Int
            /\ \A x \in Creates : pc[x] = "Commit" /\ tx[x].event.id = tx[d].event.id => x = d
        <5>1. tx'[d] = tx[d] /\ CreateTx(d) /\ tx[d].event.id \in Ids
          BY <1>0, <1>3, <2>2, <2>3, <3>2 DEF TxInv, Row
        <5>2. tx[d].event.id \in Int
          BY <5>1, Finite
        <5> QED BY <5>1, <5>2 DEF CreateTx
      <4>2. ASSUME NEW x \in Creates, pc'[x] = "Commit", tx'[x].event.id = tx'[d].event.id PROVE x = d
        <5>1. CASE x = c
          BY <1>4, <1>7, <1>9, <4>1, <4>2, <5>1
        <5>2. CASE x # c
          BY <1>3, <2>2, <4>1, <4>2, <5>2
        <5> QED BY <5>1, <5>2
      <4>3. tx'[d].event.id < nextId'
        BY <1>1, <1>4, <4>1
      <4> QED BY <1>1, <4>1, <4>2, <4>3 DEF CreateTx
    <3> QED BY <3>1, <3>2
  <2>4. ASSUME NEW p \in Patches, pc'[p] = "Commit" PROVE PatchTx(p)'
    <3>1. p # c /\ p \notin Creates /\ c \notin Patches
      BY RequestAssumption
    <3>2. PatchTx(p) /\ tx'[p] = tx[p] /\ \A d \in Patches : pc'[d] = pc[d]
      BY <1>0, <1>3, <1>9, <2>4, <3>1 DEF TxInv
    <3> QED BY <1>1, <3>2 DEF PatchTx
  <2>5. \A p \in Patches : pc'[p] = "WriteEvent" => view'[p] # NoRow /\ events'[EventOf[p]] # NoRow
    BY <1>0, <1>1, <1>3 DEF TxInv
  <2>6. \A q \in Creates \cup Patches : pc'[q] = "Commit" =>
          /\ tx'[q].event \in Row /\ EntryOK(tx'[q].entry) /\ tx'[q].entry.by = q
    BY <2>1
  <2> QED BY <1>9, <2>3, <2>4, <2>5, <2>6, RequestAssumption DEF TxInv
<1>14. Counting'
  <2>1. now' + Cardinality(Running') <= InitNow + Cardinality(Writers)
    BY <1>0, <1>1, <1>4, <1>5, Finite DEF Counting
  <2>2. nextId' + Cardinality(ToInsert') <= Cardinality(Ids) + 1
    BY <1>0, <1>1, <1>4, <1>5, Finite DEF Counting
  <2>3. nextId' > 0 /\ \A e \in Ids : e >= nextId' => events'[e] = NoRow
    <3>1. \A e \in Ids : e \in Int
      BY Finite
    <3> QED BY <1>0, <1>1, <1>4, <3>1 DEF Counting
  <2> QED BY <2>1, <2>2, <2>3 DEF Counting
<1>15. (\A x \in Requests : pc[x] \in Path(x))'
  <2>1. \A x \in Requests : pc'[x] \in Path(x)
    BY <1>0, <1>2, <1>3
  <2> QED BY <2>1 DEF Path
<1>16. Admitted'
  BY <1>0, <1>3, AdmittedStays DEF RowsInv
<1> QED BY <1>10, <1>11, <1>12, <1>13, <1>14, <1>15, <1>16 DEF RowsInv

\* The guarded UPDATE of a PATCH finds the row free, or refuses.
LEMMA WriteEventStep ==
  ASSUME RowsInv, NEW p \in Patches, WriteEvent(p)  PROVE RowsInv'
<1> DEFINE e == EventOf[p]
           row == UpdatedRow(p)
           entry == EventEntry(p, e, Changes(p))
<1>0. /\ TypeOK /\ SeatsAreBookings /\ BookingsInv /\ TxInv /\ Counting
      /\ \A x \in Requests : pc[x] \in Path(x)
      /\ pc[p] = "WriteEvent" /\ ~Locked(e) /\ p \in Requests /\ p \in Writers
      /\ view[p] # NoRow /\ events[e] # NoRow
  BY DEF RowsInv, WriteEvent, TxInv
<1>1. /\ now' = now /\ events' = events /\ bookings' = bookings /\ auditLog' = auditLog
      /\ nextId' = nextId /\ faults' = faults /\ begin' = begin /\ view' = view
      /\ page' = page
  BY DEF WriteEvent, tables, reading
<1>2. CASE Answer(p, "NotFound") \/ Answer(p, "Error")
  <2>1. tx' = tx
    BY <1>0, <1>2 DEF WriteEvent, Answer, Goto, TypeOK
  <2>2. "NotFound" \in Answers /\ "Error" \in Answers
    BY DEF Answers
  <2>3. page' \in [Readers -> Nat \ {0}] /\ view' \in [Patches -> Row \cup {NoRow}]
    BY <1>0, <1>1 DEF TypeOK
  <2> QED BY <1>0, <1>1, <1>2, <2>1, <2>2, <2>3, EndStep DEF tables
<1>3. CASE /\ row.booked <= row.capacity /\ tx' = [tx EXCEPT ![p] = [event |-> row, entry |-> entry]]
           /\ Goto(p, "Commit") /\ reply' = reply
  <2>1. "Commit" \in PcValues /\ "Commit" \in Path(p)
    BY Paths DEF PcValues
  <2>2. /\ pc' \in [Requests -> PcValues] /\ pc'[p] = "Commit"
        /\ \A x \in Requests \ {p} : pc'[x] = pc[x]
    BY <1>0, <1>3, <2>1, Goes
  <2>3. row \in Row /\ row.booked = events[e].booked /\ row.id = e /\ EntryOK(entry)
    BY <1>0, UpdatedIsRow
  <2>4. entry.by = p
    BY DEF EventEntry
  <2> HIDE DEF row, entry
  <2>5. /\ DOMAIN tx' = Creates \cup Patches /\ tx'[p].event = row /\ tx'[p].entry = entry
        /\ tx'[p] = [event |-> row, entry |-> entry]
        /\ \A q \in (Creates \cup Patches) \ {p} : tx'[q] = tx[q]
    BY <1>0, <1>3 DEF TxInv
  <2>6. TypeOK'
    <3>1. tx'[p] # NoTx
      BY <2>3, <2>5, StartAssumption DEF NoTx
    <3>2. ASSUME NEW q \in Creates \cup Patches PROVE pc'[q] = "Commit" <=> tx'[q] # NoTx
      BY <1>0, <2>2, <2>5, <3>1 DEF TypeOK
    <3>3. (\A q \in Creates \cup Patches : pc[q] = "Commit" <=> tx[q] # NoTx)'
      BY <3>2 DEF NoTx
    <3> QED BY <1>0, <1>1, <1>3, <2>2, <3>3 DEF TypeOK
  <2>7. SeatsAreBookings'
    BY <1>0, <1>1 DEF SeatsAreBookings, Confirmed
  <2>8. BookingsInv'
    <3>1. ASSUME NEW b \in bookings PROVE pc'[b.by] \notin {"Idle", "Sell"}
      <4>1. b.by \in Requests /\ pc[b.by] \notin {"Idle", "Sell"}
        BY <1>0 DEF BookingsInv, TypeOK, Booking
      <4> QED BY <2>2, <4>1
    <3> QED BY <1>0, <1>1, <3>1 DEF BookingsInv
  <2>9. TxInv'
    <3>1. ASSUME NEW q \in Creates \cup Patches, pc'[q] = "Commit"
          PROVE  /\ tx'[q].event \in Row /\ EntryOK(tx'[q].entry) /\ tx'[q].entry.by = q
                 /\ q # p => pc[q] = "Commit" /\ tx'[q] = tx[q]
      BY <1>0, <2>2, <2>3, <2>4, <2>5, <3>1 DEF TxInv
    <3>2. ASSUME NEW d \in Creates, pc'[d] = "Commit" PROVE CreateTx(d)'
      <4>1. \A x \in Creates : x # p /\ pc'[x] = pc[x] /\ tx'[x] = tx[x]
        BY <2>2, <2>5, RequestAssumption
      <4>2. CreateTx(d)
        BY <1>0, <3>2, <4>1 DEF TxInv
      <4> QED BY <1>1, <4>1, <4>2 DEF CreateTx
    <3>3. ASSUME NEW d \in Patches, pc[d] = "Commit" PROVE EventOf[d] # e /\ PatchTx(d) /\ d # p
      <4>1. PatchTx(d) /\ d \notin Creates
        BY <1>0, <3>3, RequestAssumption DEF TxInv
      <4> QED BY <1>0, <3>3, <4>1 DEF PatchTx, Locked
    <3>4. ASSUME NEW d \in Patches, pc'[d] = "Commit" PROVE PatchTx(d)'
      <4>1. CASE d = p
        <5>1. ASSUME NEW x \in Patches, pc'[x] = "Commit", EventOf[x] = e PROVE x = p
          BY <2>2, <3>3, <5>1
        <5> QED BY <1>0, <1>1, <1>3, <2>3, <2>5, <4>1, <5>1 DEF PatchTx
      <4>2. CASE d # p
        <5>1. tx'[d] = tx[d] /\ PatchTx(d) /\ EventOf[d] # e
          BY <2>2, <2>5, <3>3, <3>4, <4>2
        <5>2. ASSUME NEW x \in Patches, pc'[x] = "Commit", EventOf[x] = EventOf[d] PROVE x = d
          BY <2>2, <5>1, <5>2 DEF PatchTx
        <5> QED BY <1>1, <5>1, <5>2 DEF PatchTx
      <4> QED BY <4>1, <4>2
    <3>5. \A x \in Patches : pc'[x] = "WriteEvent" => view'[x] # NoRow /\ events'[EventOf[x]] # NoRow
      BY <1>0, <1>1, <2>2 DEF TxInv
    <3>6. \A q \in Creates \cup Patches : pc'[q] = "Commit" =>
            /\ tx'[q].event \in Row /\ EntryOK(tx'[q].entry) /\ tx'[q].entry.by = q
      BY <3>1
    <3> QED BY <2>5, <3>2, <3>4, <3>5, <3>6, RequestAssumption DEF TxInv
  <2>10. Counting'
    <3>1. /\ Cardinality(Running') \in Nat /\ Cardinality(Running') <= Cardinality(Running)
          /\ Cardinality(ToInsert') \in Nat /\ Cardinality(ToInsert') <= Cardinality(ToInsert)
      <4>1. /\ \A x \in Writers : pc[x] = "Done" => pc'[x] = "Done"
            /\ \A d \in Creates : pc'[d] \in {"Idle", "InsertEvent"} => pc[d] \in {"Idle", "InsertEvent"}
        BY <1>0, <2>2
      <4> QED BY <4>1, CountsFall
    <3>2. now \in Nat /\ nextId \in Nat
      BY <1>0, Finite DEF TypeOK, Stamps
    <3>3. now' + Cardinality(Running') <= InitNow + Cardinality(Writers)
      BY <1>0, <1>1, <3>1, <3>2, Finite DEF Counting
    <3>4. nextId' + Cardinality(ToInsert') <= Cardinality(Ids) + 1
      BY <1>0, <1>1, <3>1, <3>2, Finite DEF Counting
    <3> QED BY <1>0, <1>1, <3>3, <3>4 DEF Counting
  <2>11. (\A x \in Requests : pc[x] \in Path(x))'
    <3>1. \A x \in Requests : pc'[x] \in Path(x)
      BY <1>0, <2>1, <2>2
    <3> QED BY <3>1 DEF Path
  <2>12. Admitted'
    BY <1>0, <2>2, AdmittedStays DEF RowsInv
  <2> QED BY <2>6, <2>7, <2>8, <2>9, <2>10, <2>11, <2>12 DEF RowsInv
<1> QED BY <1>2, <1>3 DEF WriteEvent

\* The INSERT of an audit row.
LEMMA LogGrows ==
  ASSUME NEW s, s \in Seq(ToSet(s)), \A i \in DOMAIN s : EntryOK(s[i]),
         NEW entry, EntryOK(entry), NEW t, t = Append(s, entry)
  PROVE  /\ t \in Seq(ToSet(t)) /\ \A i \in DOMAIN t : EntryOK(t[i])
         /\ \A i \in DOMAIN t : t[i] = entry \/ \E j \in DOMAIN s : t[i] = s[j]
<1> DEFINE S == ToSet(s) \cup {entry}
<1>1. s \in Seq(S)
  <2>1. ToSet(s) \subseteq S
    OBVIOUS
  <2> HIDE DEF S
  <2> QED BY <2>1, SeqMonotonic
<1>2. entry \in S
  OBVIOUS
<1> HIDE DEF S
<1>3. /\ t \in Seq(S) /\ Len(t) = Len(s) + 1
      /\ \A i \in 1 .. Len(s) : t[i] = s[i]
      /\ t[Len(s) + 1] = entry
  BY <1>1, <1>2, AppendProperties
<1>4. DOMAIN s = 1 .. Len(s) /\ DOMAIN t = 1 .. Len(t) /\ Len(s) \in Nat
  BY <1>1, <1>3, LenProperties
<1>5. \A i \in DOMAIN t : t[i] = entry \/ (i \in DOMAIN s /\ t[i] = s[i])
  BY <1>3, <1>4
<1>6. t \in Seq(ToSet(t))
  <2>1. \A i \in 1 .. Len(t) : t[i] \in ToSet(t)
    BY <1>4 DEF ToSet
  <2>2. t \in [1 .. Len(t) -> S] /\ Len(t) \in Nat
    BY <1>3, LenProperties
  <2> QED BY <2>1, <2>2
<1> QED BY <1>5, <1>6

\* A transaction ends: what it leaves of the others', whether its row is committed or not.
LEMMA TxEnds ==
  ASSUME RowsInv, NEW q \in Creates \cup Patches, pc[q] = "Commit",
         tx' = [tx EXCEPT ![q] = NoTx], pc'[q] = "Done", nextId' = nextId, view' = view,
         \A x \in Requests \ {q} : pc'[x] = pc[x],
         events' = events \/ events' = [events EXCEPT ![tx[q].event.id] = tx[q].event]
  PROVE  /\ TxInv' /\ (\A x \in Creates \cup Patches : pc[x] = "Commit" <=> tx[x] # NoTx)'
         /\ \A e \in Ids : /\ events[e] # NoRow => events'[e] # NoRow
                           /\ events[e] = NoRow /\ events'[e] # NoRow => e < nextId
<1> DEFINE row == tx[q].event
           i == row.id
<1>0. /\ TypeOK /\ TxInv /\ Counting /\ row \in Row /\ i \in Ids /\ row # NoRow
      /\ \A p \in Patches : EventOf[p] \in Ids
      /\ \A x \in Creates \cup Patches : x \in Requests
  <2>1. TypeOK /\ TxInv /\ Counting /\ row \in Row
    BY DEF RowsInv, TxInv
  <2> QED BY <2>1, StartAssumption, RequestAssumption DEF Row
<1>1. /\ DOMAIN tx' = Creates \cup Patches /\ tx'[q] = NoTx
      /\ \A x \in (Creates \cup Patches) \ {q} : tx'[x] = tx[x]
  BY <1>0 DEF TxInv
<1>2. CreateTx(q) \/ (PatchTx(q) /\ q \in Patches)
  BY <1>0 DEF TxInv
<1>3. \A e \in Ids \ {i} : events'[e] = events[e]
  BY <1>0 DEF TypeOK
<1>4. events'[i] = events[i] \/ events'[i] = row
  BY <1>0 DEF TypeOK
<1>5. i < nextId \/ events[i] # NoRow
  BY <1>2 DEF CreateTx, PatchTx
<1> HIDE DEF row, i
<1>6. \A e \in Ids : /\ events[e] # NoRow => events'[e] # NoRow
                     /\ events[e] = NoRow /\ events'[e] # NoRow => e < nextId
  BY <1>0, <1>3, <1>4, <1>5
<1>7. ASSUME NEW x \in Creates \cup Patches, pc'[x] = "Commit"
      PROVE  x # q /\ pc[x] = "Commit" /\ tx'[x] = tx[x]
  BY <1>0, <1>1, <1>7
<1>8. ASSUME NEW d \in Creates, pc'[d] = "Commit" PROVE CreateTx(d)'
  <2>1. /\ d # q /\ pc[d] = "Commit" /\ tx'[d] = tx[d] /\ CreateTx(d)
        /\ tx[d].event.id \in Ids
    <3>1. d # q /\ pc[d] = "Commit" /\ tx'[d] = tx[d]
      BY <1>7, <1>8
    <3> QED BY <1>0, <3>1 DEF TxInv, Row
  <2>2. tx[d].event.id # i
    <3>1. CASE q \in Creates
      <4>1. CreateTx(q)
        BY <1>0, <3>1 DEF TxInv
      <4> QED BY <2>1, <4>1 DEF CreateTx, i, row
    <3>2. CASE q \in Patches
      <4>1. PatchTx(q)
        BY <1>0, <3>2, RequestAssumption DEF TxInv
      <4> QED BY <2>1, <4>1 DEF CreateTx, PatchTx, i, row
    <3> QED BY <3>1, <3>2
  <2>3. events'[tx[d].event.id] = NoRow
    BY <1>3, <2>1, <2>2 DEF CreateTx
  <2>4. ASSUME NEW x \in Creates, pc'[x] = "Commit", tx'[x].event.id = tx'[d].event.id PROVE x = d
    BY <1>7, <2>1, <2>4 DEF CreateTx
  <2> QED BY <2>1, <2>3, <2>4 DEF CreateTx
<1>9. ASSUME NEW p \in Patches, pc'[p] = "Commit" PROVE PatchTx(p)'
  <2>1. /\ p # q /\ pc[p] = "Commit" /\ tx'[p] = tx[p] /\ PatchTx(p) /\ EventOf[p] \in Ids
    <3>1. p # q /\ pc[p] = "Commit" /\ tx'[p] = tx[p]
      BY <1>7, <1>9
    <3> QED BY <1>0, <3>1, RequestAssumption DEF TxInv
  <2>2. EventOf[p] # i
    <3>1. CASE q \in Creates
      <4>1. CreateTx(q)
        BY <1>0, <3>1 DEF TxInv
      <4> QED BY <2>1, <4>1 DEF CreateTx, PatchTx, i, row
    <3>2. CASE q \in Patches
      <4>1. PatchTx(q)
        BY <1>0, <3>2, RequestAssumption DEF TxInv
      <4> QED BY <2>1, <3>2, <4>1 DEF PatchTx, i, row
    <3> QED BY <3>1, <3>2
  <2>3. events'[EventOf[p]] = events[EventOf[p]]
    BY <1>3, <2>1, <2>2
  <2>4. ASSUME NEW x \in Patches, pc'[x] = "Commit", EventOf[x] = EventOf[p] PROVE x = p
    BY <1>7, <2>1, <2>4 DEF PatchTx
  <2> QED BY <2>1, <2>3, <2>4 DEF PatchTx
<1>10. \A p \in Patches : pc'[p] = "WriteEvent" => view'[p] # NoRow /\ events'[EventOf[p]] # NoRow
  BY <1>0, <1>6 DEF TxInv
<1>11. \A x \in Creates \cup Patches : pc'[x] = "Commit" =>
          /\ tx'[x].event \in Row /\ EntryOK(tx'[x].entry) /\ tx'[x].entry.by = x
  BY <1>0, <1>7 DEF TxInv
<1>12. TxInv'
  BY <1>1, <1>8, <1>9, <1>10, <1>11, RequestAssumption DEF TxInv
<1>13. ASSUME NEW x \in Creates \cup Patches PROVE pc'[x] = "Commit" <=> tx'[x] # NoTx
  BY <1>0, <1>1 DEF TypeOK
<1>14. (\A x \in Creates \cup Patches : pc[x] = "Commit" <=> tx[x] # NoTx)'
  BY <1>13 DEF NoTx
<1> QED BY <1>6, <1>12, <1>14

\* The bookings outlast every end of a transaction on events.
LEMMA BookingsStay ==
  ASSUME RowsInv, NEW q \in Requests \ Books, bookings' = bookings, pc'[q] = "Done",
         \A x \in Requests \ {q} : pc'[x] = pc[x],
         \A e \in Ids : events[e] # NoRow => events'[e] # NoRow
  PROVE  BookingsInv'
<1>1. ASSUME NEW b \in bookings
      PROVE  events'[b.event] # NoRow /\ pc'[b.by] \notin {"Idle", "Sell"}
  BY DEF RowsInv, TypeOK, BookingsInv, Booking
<1> QED BY <1>1 DEF RowsInv, BookingsInv

\* A tick taken for one that was freed.
LEMMA TickFreed ==
  ASSUME NEW tick \in Nat, NEW next, NEW before \in Nat, NEW after \in Nat, NEW most \in Nat,
         tick + before <= most, next \in {tick, tick + 1}, after <= before - 1
  PROVE  next + after <= most /\ next \in Nat
<1>1. next <= tick + 1 /\ next \in Nat
  OBVIOUS
<1> QED BY <1>1

\* A writer that ends frees a tick, which its COMMIT may take.
LEMMA TickStep ==
  ASSUME RowsInv, NEW q \in Writers, pc[q] \notin {"Idle", "InsertEvent", "Done"}, pc'[q] = "Done",
         \A x \in Requests \ {q} : pc'[x] = pc[x], now' \in {now, now + 1}, nextId' = nextId,
         \A e \in Ids : events[e] = NoRow /\ events'[e] # NoRow => e < nextId
  PROVE  now' \in Stamps /\ Counting'
<1>0. TypeOK /\ Counting /\ now \in Nat /\ nextId \in Nat /\ q \in Requests
  <2>1. TypeOK /\ Counting
    BY DEF RowsInv
  <2>2. now \in Stamps /\ nextId \in Nat
    BY <2>1 DEF TypeOK
  <2>3. now \in Nat
    BY <2>2, Finite DEF Stamps
  <2> QED BY <2>1, <2>2, <2>3
<1>1. /\ Cardinality(Running') \in Nat /\ Cardinality(Running') <= Cardinality(Running) - 1
      /\ Cardinality(ToInsert') \in Nat /\ Cardinality(ToInsert') <= Cardinality(ToInsert)
  <2>1. /\ \A x \in Writers : pc[x] = "Done" => pc'[x] = "Done"
        /\ \A d \in Creates : pc'[d] \in {"Idle", "InsertEvent"} => pc[d] \in {"Idle", "InsertEvent"}
    BY <1>0
  <2>2. pc[q] # "Done" /\ pc'[q] = "Done"
    OBVIOUS
  <2> QED BY <2>1, <2>2, CountsFall
<1>2. now' + Cardinality(Running') <= InitNow + Cardinality(Writers) /\ now' \in Nat
  <2>1. /\ Cardinality(Running) \in Nat /\ InitNow + Cardinality(Writers) \in Nat
        /\ now + Cardinality(Running) <= InitNow + Cardinality(Writers)
    BY <1>0, Finite DEF Counting
  <2> QED BY <1>0, <1>1, <2>1, TickFreed
<1>3. now' \in 0 .. InitNow + Cardinality(Writers)
  BY <1>1, <1>2, Finite
<1>4. nextId' + Cardinality(ToInsert') <= Cardinality(Ids) + 1
  BY <1>0, <1>1, Finite DEF Counting
<1>5. nextId' > 0 /\ \A e \in Ids : e >= nextId' => events'[e] = NoRow
  <2>1. \A e \in Ids : e \in Int
    BY Finite
  <2> QED BY <1>0, <2>1 DEF Counting
<1> QED BY <1>2, <1>3, <1>4, <1>5 DEF Counting, Stamps

\* COMMIT makes the row and its entry visible; a failing audit INSERT or COMMIT neither.
LEMMA CommitStep ==
  ASSUME RowsInv, NEW q \in Creates \cup Patches, Commit(q) \/ WriteFault(q)  PROVE RowsInv'
<1> DEFINE row == tx[q].event
           entry == tx[q].entry
           i == row.id
<1>0. /\ TypeOK /\ SeatsAreBookings /\ BookingsInv /\ TxInv /\ Counting
      /\ \A x \in Requests : pc[x] \in Path(x)
      /\ pc[q] = "Commit" /\ q \in Requests /\ q \in Writers /\ q \notin Books
      /\ row \in Row /\ i \in Ids /\ row # NoRow /\ EntryOK(entry)
  <2>1. /\ TypeOK /\ SeatsAreBookings /\ BookingsInv /\ TxInv /\ Counting
        /\ \A x \in Requests : pc[x] \in Path(x)
        /\ pc[q] = "Commit" /\ q \in Requests /\ q \in Writers /\ q \notin Books
    BY RequestAssumption DEF RowsInv, Commit, WriteFault
  <2>2. row \in Row /\ EntryOK(entry)
    BY <2>1 DEF TxInv
  <2> QED BY <2>1, <2>2, StartAssumption DEF Row
<1>1. /\ tx' = [tx EXCEPT ![q] = NoTx] /\ UNCHANGED <<nextId, begin, view, page, bookings>>
      /\ now' \in {now, now + 1}
      /\ \/ events' = events /\ auditLog' = auditLog
         \/ events' = [events EXCEPT ![i] = row] /\ auditLog' = Append(auditLog, entry)
  BY DEF Commit, WriteFault, RolledBack, reading, tables
<1>2. \E a \in Answers : Answer(q, a)
  BY DEF Commit, WriteFault, Answers
<1>3. /\ pc' \in [Requests -> PcValues] /\ pc'[q] = "Done"
      /\ \A x \in Requests \ {q} : pc'[x] = pc[x]
      /\ reply' \in [Requests -> Answers]
  BY <1>0, <1>2, Ends
<1>4. /\ TxInv' /\ (\A x \in Creates \cup Patches : pc[x] = "Commit" <=> tx[x] # NoTx)'
      /\ \A e \in Ids : /\ events[e] # NoRow => events'[e] # NoRow
                        /\ events[e] = NoRow /\ events'[e] # NoRow => e < nextId
  BY <1>0, <1>1, <1>3, TxEnds
<1>5. BookingsInv'
  BY <1>0, <1>1, <1>3, <1>4, BookingsStay
<1>6. now' \in Stamps /\ Counting'
  BY <1>0, <1>1, <1>3, <1>4, TickStep
<1>7. row.booked <= row.capacity /\ row.booked = Cardinality(Confirmed(bookings, i))
  <2>1. CASE q \in Creates
    <3>1. row.booked = 0 /\ events[i] = NoRow /\ row.capacity \in Nat
      BY <1>0, <2>1, RequestAssumption DEF TxInv, CreateTx, Row
    <3>2. Confirmed(bookings, i) = {}
      BY <1>0, <3>1 DEF Confirmed, BookingsInv
    <3> QED BY <3>1, <3>2, FS_EmptySet
  <2>2. CASE q \in Patches
    <3>1. PatchTx(q)
      BY <1>0, <2>2, RequestAssumption DEF TxInv
    <3> QED BY <1>0, <3>1 DEF PatchTx, SeatsAreBookings
  <2> QED BY <2>1, <2>2
<1> HIDE DEF row, entry
<1>8. /\ events' \in [Ids -> Row \cup {NoRow}]
      /\ \A e \in Ids : events'[e] = events[e] \/ (e = i /\ events'[e] = row)
  BY <1>0, <1>1 DEF TypeOK
<1>9. auditLog' \in Seq(ToSet(auditLog)') /\ \A j \in DOMAIN auditLog' : EntryOK(auditLog'[j])
  <2>1. CASE auditLog' = auditLog
    BY <1>0, <2>1 DEF TypeOK, ToSet
  <2>2. CASE auditLog' = Append(auditLog, entry)
    <3>1. auditLog' \in Seq(ToSet(auditLog')) /\ \A j \in DOMAIN auditLog' : EntryOK(auditLog'[j])
      BY <1>0, <2>2, LogGrows DEF TypeOK
    <3> QED BY <3>1 DEF ToSet
  <2> QED BY <1>1, <2>1, <2>2
<1>10. TypeOK'
  <2>1. faults' \in 0 .. MaxFaults
    BY <1>0, RequestAssumption DEF TypeOK, Commit, WriteFault
  <2>2. \A e \in Ids : events'[e] # NoRow => events'[e].id = e /\ events'[e].booked <= events'[e].capacity
    BY <1>0, <1>7, <1>8 DEF TypeOK
  <2> QED BY <1>0, <1>1, <1>3, <1>4, <1>6, <1>8, <1>9, <2>1, <2>2 DEF TypeOK
<1>11. SeatsAreBookings'
  <2>1. \A e \in Ids : events'[e] # NoRow => events'[e].booked = Cardinality(Confirmed(bookings, e))
    BY <1>0, <1>7, <1>8 DEF SeatsAreBookings
  <2> QED BY <1>1, <2>1 DEF SeatsAreBookings, Confirmed
<1>12. (\A x \in Requests : pc[x] \in Path(x))'
  <2>1. \A x \in Requests : pc'[x] \in Path(x)
    BY <1>0, <1>3 DEF Path
  <2> QED BY <2>1 DEF Path
<1>13. Admitted'
  BY <1>0, <1>3, AdmittedStays DEF RowsInv
<1> QED BY <1>4, <1>5, <1>6, <1>10, <1>11, <1>12, <1>13 DEF RowsInv

-----------------------------------------------------------------------------
(* Bookings *)

\* What a booking or a cancellation does to the event, and to the bookings.
SeatMoves(q, e, n) ==
    /\ events' = [events EXCEPT ![e].booked = n] /\ now' = now + 1
    /\ \E entry : EntryOK(entry) /\ auditLog' = Append(auditLog, entry)
    /\ \E a \in Answers : Answer(q, a)
    /\ UNCHANGED <<nextId, writing, reading, faults>>
BookingMoves(q, e, n) ==
    /\ bookings' \subseteq Booking /\ IsFiniteSet(bookings')
    /\ n = Cardinality(Confirmed(bookings', e))
    /\ \A x \in Ids \ {e} : Confirmed(bookings', x) = Confirmed(bookings, x)
    /\ \A b, d \in bookings' : b.by = d.by => b = d
    /\ \A b \in bookings' : \/ b.by = q /\ b.event = e
                           \/ \E d \in bookings : d.by = b.by /\ d.event = b.event

\* Neither touches an event that a PATCH holds.
LEMMA SeatStep ==
  ASSUME RowsInv, NEW q \in Books \cup Cancels, pc[q] \in {"Sell", "CancelBooking"},
         NEW e \in Ids, events[e] # NoRow, ~Locked(e), NEW n \in Nat, n <= events[e].capacity,
         SeatMoves(q, e, n), BookingMoves(q, e, n)
  PROVE  RowsInv'
<1> USE DEF SeatMoves, BookingMoves
<1> DEFINE new == [events[e] EXCEPT !.booked = n]
<1>0. /\ TypeOK /\ SeatsAreBookings /\ BookingsInv /\ TxInv /\ Counting /\ Admitted
      /\ \A x \in Requests : pc[x] \in Path(x)
      /\ q \in Requests /\ q \in Writers /\ q \notin Creates \cup Patches
      /\ events[e] \in Row
  <2>1. /\ TypeOK /\ SeatsAreBookings /\ BookingsInv /\ TxInv /\ Counting /\ Admitted
        /\ \A x \in Requests : pc[x] \in Path(x)
    BY DEF RowsInv
  <2> QED BY <2>1, RequestAssumption DEF TypeOK
<1>1. /\ nextId' = nextId /\ begin' = begin /\ view' = view /\ tx' = tx /\ page' = page
      /\ faults' = faults
  BY DEF writing, reading
<1>2. /\ pc' \in [Requests -> PcValues] /\ pc'[q] = "Done"
      /\ \A x \in Requests \ {q} : pc'[x] = pc[x]
      /\ reply' \in [Requests -> Answers]
  BY <1>0, Ends
<1>3. new \in Row /\ new.booked = n /\ new.id = e /\ new.capacity = events[e].capacity /\ new # NoRow
  <2>1. new \in Row /\ new.booked = n /\ new.id = events[e].id /\ new.capacity = events[e].capacity
    BY <1>0 DEF Row
  <2>2. events[e].id = e
    BY <1>0 DEF TypeOK
  <2> QED BY <2>1, <2>2, StartAssumption
<1>4. events' = [events EXCEPT ![e] = new]
  BY <1>0 DEF TypeOK
<1> HIDE DEF new
<1>5. /\ events' \in [Ids -> Row \cup {NoRow}] /\ events'[e] = new
      /\ \A x \in Ids \ {e} : events'[x] = events[x]
  <2>1. events \in [Ids -> Row \cup {NoRow}]
    BY <1>0 DEF TypeOK
  <2> QED BY <1>3, <1>4, <2>1
<1>6. now' \in Stamps /\ Counting'
  BY <1>0, <1>1, <1>2, <1>5, TickStep
<1>7. auditLog' \in Seq(ToSet(auditLog)') /\ \A j \in DOMAIN auditLog' : EntryOK(auditLog'[j])
  <2> PICK entry : EntryOK(entry) /\ auditLog' = Append(auditLog, entry)
    OBVIOUS
  <2>1. auditLog' \in Seq(ToSet(auditLog')) /\ \A j \in DOMAIN auditLog' : EntryOK(auditLog'[j])
    BY <1>0, LogGrows DEF TypeOK
  <2> QED BY <2>1 DEF ToSet
<1>8. TypeOK'
  <2>1. \A x \in Ids : events'[x] # NoRow => events'[x].id = x /\ events'[x].booked <= events'[x].capacity
    BY <1>0, <1>3, <1>5 DEF TypeOK
  <2>2. \A x \in Creates \cup Patches : pc'[x] = "Commit" <=> tx'[x] # NoTx
    BY <1>0, <1>1, <1>2 DEF TypeOK
  <2>3. (\A x \in Creates \cup Patches : pc[x] = "Commit" <=> tx[x] # NoTx)'
    BY <2>2 DEF NoTx
  <2> QED BY <1>0, <1>1, <1>2, <1>5, <1>6, <1>7, <2>1, <2>3 DEF TypeOK
<1>9. SeatsAreBookings'
  <2>1. \A x \in Ids : events'[x] # NoRow => events'[x].booked = Cardinality(Confirmed(bookings', x))
    BY <1>0, <1>3, <1>5 DEF SeatsAreBookings
  <2> QED BY <2>1 DEF SeatsAreBookings, Confirmed
<1>10. BookingsInv'
  <2>1. ASSUME NEW b \in bookings'
        PROVE  events'[b.event] # NoRow /\ pc'[b.by] \notin {"Idle", "Sell"}
    <3>1. b.by \in Requests /\ b.event \in Ids
      BY DEF Booking
    <3>2. CASE b.by = q /\ b.event = e
      BY <1>2, <1>3, <1>5, <3>2
    <3>3. CASE ~(b.by = q /\ b.event = e)
      <4>1. events[b.event] # NoRow /\ pc[b.by] \notin {"Idle", "Sell"}
        BY <1>0, <3>3 DEF BookingsInv
      <4> QED BY <1>2, <1>3, <1>5, <3>1, <4>1
    <3> QED BY <3>2, <3>3
  <2> QED BY <2>1 DEF BookingsInv
<1>11. TxInv'
  <2>1. \A x \in Creates \cup Patches : pc'[x] = pc[x] /\ tx'[x] = tx[x] /\ view'[x] = view[x]
    BY <1>0, <1>1, <1>2
  <2>2. ASSUME NEW d \in Creates, pc'[d] = "Commit" PROVE CreateTx(d)'
    <3>1. CreateTx(d) /\ tx[d].event.id \in Ids
      BY <1>0, <2>1, <2>2 DEF TxInv, Row
    <3>2. events'[tx[d].event.id] = NoRow
      BY <1>5, <3>1 DEF CreateTx
    <3> QED BY <1>1, <2>1, <3>1, <3>2 DEF CreateTx
  <2>3. ASSUME NEW p \in Patches, pc'[p] = "Commit" PROVE PatchTx(p)'
    <3>1. PatchTx(p) /\ EventOf[p] \in Ids /\ pc[p] = "Commit"
      BY <1>0, <2>1, <2>3, RequestAssumption DEF TxInv
    <3>2. EventOf[p] # e
      BY <3>1 DEF PatchTx, Locked
    <3>3. events'[EventOf[p]] = events[EventOf[p]]
      BY <1>5, <3>1, <3>2
    <3> QED BY <1>1, <2>1, <3>1, <3>3 DEF PatchTx
  <2>4. ASSUME NEW p \in Patches, pc'[p] = "WriteEvent"
        PROVE  view'[p] # NoRow /\ events'[EventOf[p]] # NoRow
    <3>1. view[p] # NoRow /\ events[EventOf[p]] # NoRow /\ EventOf[p] \in Ids
      BY <1>0, <2>1, <2>4, RequestAssumption DEF TxInv
    <3> QED BY <1>1, <1>3, <1>5, <3>1
  <2>5. \A x \in Creates \cup Patches : pc'[x] = "Commit" =>
          /\ tx'[x].event \in Row /\ EntryOK(tx'[x].entry) /\ tx'[x].entry.by = x
    BY <1>0, <2>1 DEF TxInv
  <2> QED BY <1>0, <1>1, <2>2, <2>3, <2>4, <2>5, RequestAssumption DEF TxInv
<1>12. (\A x \in Requests : pc[x] \in Path(x))'
  <2>1. \A x \in Requests : pc'[x] \in Path(x)
    BY <1>0, <1>2 DEF Path
  <2> QED BY <2>1 DEF Path
<1>13. Admitted'
  BY <1>0, <1>2, AdmittedStays
<1> QED BY <1>6, <1>8, <1>9, <1>10, <1>11, <1>12, <1>13 DEF RowsInv

\* Whom the gate of a route that needs a user lets in has one.
LEMMA LetInUser ==
  ASSUME NEW q \in Requests, NEW route, route \notin PublicRoutes,
         Gate(route, HeadersOf[q]) = "next"
  PROVE  User(q, route).user \in Users
<1>1. HeadersOf[q] \in Headers
  BY RequestAssumption
<1>2. User(q, route) # NoUser /\ User(q, route) = AuthUser(HeadersOf[q])
  BY DEF User, ReqUser, Gate
<1> QED BY <1>1, <1>2 DEF AuthUser, Named, Headers

\* The entry of a booking or of a cancellation.
LEMMA BookingEntryOK ==
  ASSUME TypeOK, NEW q \in Books \cup Cancels, NEW e \in Ids, NEW b \in Requests
  PROVE  EntryOK(BookingEntry(q, e, b))
<1>1. begin[q] \in Stamps /\ q \in Requests /\ "booking" \in Logs
  BY DEF TypeOK, Logs
<1> QED BY <1>1 DEF BookingEntry, EntryOK, NoChanges

\* bookSpot adds a seat and the booking that holds it, or refuses.
LEMMA SellStep ==
  ASSUME RowsInv, NEW b \in Books, Sell(b)  PROVE RowsInv'
<1> DEFINE e == EventOf[b]
           nb == [by |-> b, event |-> e, user |-> User(b, "bookSpotForEvent").user,
                  at |-> begin[b], status |-> "confirmed"]
           entry == BookingEntry(b, e, b)
           n == events[e].booked + 1
<1>0. /\ TypeOK /\ SeatsAreBookings /\ BookingsInv /\ Admitted
      /\ b \in Requests /\ b \in Writers /\ b \notin Patches /\ e \in Ids
      /\ pc[b] = "Sell" /\ ~Locked(e)
  <2>1. pc[b] = "Sell" /\ ~Locked(e)
    BY DEF Sell
  <2> QED BY <2>1, RequestAssumption DEF RowsInv
<1>1. CASE /\ Answer(b, "NotFound") \/ Answer(b, "SoldOut")
           /\ UNCHANGED <<tables, now, watched>>
  <2>1. UNCHANGED <<now, tables, nextId, tx, faults, begin>> /\ view' = view /\ page' = page
    BY <1>1 DEF Sell, writing, reading
  <2>2. /\ page' \in [Readers -> Nat \ {0}] /\ view' \in [Patches -> Row \cup {NoRow}]
        /\ "NotFound" \in Answers /\ "SoldOut" \in Answers
    BY <1>0, <2>1 DEF TypeOK, Answers
  <2> QED BY <1>0, <1>1, <2>1, <2>2, EndStep
<1>2. CASE /\ events[e] # NoRow /\ events[e].capacity - events[e].booked >= 1
           /\ events' = [events EXCEPT ![e].booked = @ + 1]
           /\ bookings' = bookings \cup {nb}
           /\ auditLog' = Append(auditLog, entry) /\ now' = now + 1
           /\ Answer(b, "Created")
  <2>1. UNCHANGED <<nextId, writing, reading, faults>>
    BY DEF Sell
  <2>2. /\ events[e] \in Row /\ events[e].booked \in Nat /\ events[e].capacity \in Nat
        /\ events[e].booked = Cardinality(Confirmed(bookings, e))
    BY <1>0, <1>2, RequestAssumption DEF TypeOK, Row, SeatsAreBookings
  <2>3. n \in Nat /\ n <= events[e].capacity
    BY <1>2, <2>2
  <2>4. nb \in Booking /\ nb.by = b /\ nb.event = e /\ nb.status = "confirmed"
    <3>1. Gate("bookSpotForEvent", HeadersOf[b]) = "next"
      BY <1>0, RequestAssumption DEF Admitted, LetIn, WriteRoute
    <3>2. User(b, "bookSpotForEvent").user \in Users
      BY <1>0, <3>1, LetInUser DEF PublicRoutes
    <3>3. begin[b] \in Stamps
      BY <1>0 DEF TypeOK
    <3> QED BY <1>0, <3>2, <3>3 DEF Booking
  <2> HIDE DEF nb
  <2>5. \A d \in bookings : d.by # b
    BY <1>0 DEF BookingsInv
  <2>6. /\ bookings' \subseteq Booking /\ IsFiniteSet(bookings')
        /\ \A x, d \in bookings' : x.by = d.by => x = d
        /\ \A x \in bookings' : \/ x.by = b /\ x.event = e
                                \/ \E d \in bookings : d.by = x.by /\ d.event = x.event
    <3>1. IsFiniteSet(bookings')
      BY <1>0, <1>2, FS_AddElement DEF BookingsInv
    <3> QED BY <1>0, <1>2, <2>4, <2>5, <3>1 DEF TypeOK, BookingsInv
  <2>7. n = Cardinality(Confirmed(bookings', e))
    <3>1. Confirmed(bookings', e) = Confirmed(bookings, e) \cup {nb}
      BY <1>2, <2>4 DEF Confirmed
    <3>2. Confirmed(bookings, e) \subseteq bookings /\ nb \notin Confirmed(bookings, e)
      BY <2>4, <2>5 DEF Confirmed
    <3>3. IsFiniteSet(Confirmed(bookings, e))
      BY <1>0, <3>2, FS_Subset DEF BookingsInv
    <3>4. Cardinality(Confirmed(bookings, e) \cup {nb}) = Cardinality(Confirmed(bookings, e)) + 1
      BY <3>2, <3>3, FS_AddElement
    <3> QED BY <2>2, <3>1, <3>4
  <2>8. \A x \in Ids \ {e} : Confirmed(bookings', x) = Confirmed(bookings, x)
    BY <1>2, <2>4 DEF Confirmed
  <2>9. EntryOK(entry) /\ "Created" \in Answers
    BY <1>0, BookingEntryOK DEF Answers
  <2>10. events' = [events EXCEPT ![e].booked = n]
    BY <1>2
  <2> HIDE DEF n, entry, e
  <2>11. SeatMoves(b, e, n)
    BY <1>2, <2>1, <2>9, <2>10 DEF SeatMoves
  <2>12. BookingMoves(b, e, n)
    BY <2>6, <2>7, <2>8 DEF BookingMoves
  <2> QED BY <1>0, <1>2, <2>3, <2>11, <2>12, SeatStep
<1>3. ASSUME events[e] # NoRow PROVE events[e].capacity \in Int /\ events[e].booked \in Int
  <2>1. events[e] \in Row
    BY <1>0, <1>3 DEF TypeOK
  <2>2. events[e].capacity \in Nat /\ events[e].booked \in Nat
    BY <2>1, RequestAssumption DEF Row
  <2> QED BY <2>2
<1> QED BY <1>1, <1>2, <1>3 DEF Sell

\* cancelBooking gives the seat of a confirmed booking back, or refuses.
LEMMA CancelStep ==
  ASSUME RowsInv, NEW c \in Cancels, CancelBooking(c)  PROVE RowsInv'
<1>0. /\ TypeOK /\ SeatsAreBookings /\ BookingsInv
      /\ c \in Requests /\ c \in Writers /\ c \notin Patches /\ pc[c] = "CancelBooking"
  <2>1. pc[c] = "CancelBooking"
    BY DEF CancelBooking
  <2> QED BY <2>1, RequestAssumption DEF RowsInv
<1>1. UNCHANGED <<nextId, writing, reading, faults>>
  BY DEF CancelBooking
<1>2. ASSUME NEW a \in Answers, Answer(c, a), UNCHANGED <<tables, now, watched>> PROVE RowsInv'
  <2>1. UNCHANGED <<now, tables, nextId, tx, faults, begin>> /\ view' = view /\ page' = page
    BY <1>1, <1>2 DEF writing, reading
  <2>2. page' \in [Readers -> Nat \ {0}] /\ view' \in [Patches -> Row \cup {NoRow}]
    BY <1>0, <2>1 DEF TypeOK
  <2> QED BY <1>0, <1>2, <2>1, <2>2, EndStep
<1>3. ASSUME NEW b \in bookings, b.status # "cancelled", ~Locked(b.event),
             events' = [events EXCEPT ![b.event].booked = @ - 1],
             bookings' = (bookings \ {b}) \cup {[b EXCEPT !.status = "cancelled"]},
             auditLog' = Append(auditLog, BookingEntry(c, b.event, b.by)), now' = now + 1,
             Answer(c, "OK")
      PROVE  RowsInv'
  <2> DEFINE e == b.event
             cb == [b EXCEPT !.status = "cancelled"]
             entry == BookingEntry(c, e, b.by)
             n == events[e].booked - 1
  <2>1. b \in Booking /\ e \in Ids /\ b.by \in Requests /\ b.status = "confirmed" /\ events[e] # NoRow
    BY <1>0, <1>3 DEF TypeOK, Booking, BookingsInv
  <2>2. /\ events[e].booked \in Nat /\ events[e].capacity \in Nat
        /\ events[e].booked = Cardinality(Confirmed(bookings, e))
        /\ events[e].booked <= events[e].capacity
    <3>1. events[e] \in Row /\ events[e].booked <= events[e].capacity
      BY <1>0, <2>1 DEF TypeOK
    <3>2. events[e].booked \in Nat /\ events[e].capacity \in Nat
      BY <3>1, RequestAssumption DEF Row
    <3> QED BY <1>0, <2>1, <3>1, <3>2 DEF SeatsAreBookings
  <2>3. cb \in Booking /\ cb.by = b.by /\ cb.event = e /\ cb.status = "cancelled"
    BY <2>1 DEF Booking
  <2> HIDE DEF cb
  <2>4. /\ bookings' \subseteq Booking /\ IsFiniteSet(bookings')
        /\ \A x, d \in bookings' : x.by = d.by => x = d
        /\ \A x \in bookings' : \/ x.by = c /\ x.event = e
                                \/ \E d \in bookings : d.by = x.by /\ d.event = x.event
    <3>1. IsFiniteSet(bookings')
      <4>1. IsFiniteSet(bookings \ {b})
        BY <1>0, FS_RemoveElement DEF BookingsInv
      <4> QED BY <1>3, <4>1, FS_AddElement DEF cb
    <3>2. bookings' = (bookings \ {b}) \cup {cb}
      BY <1>3 DEF cb
    <3> QED BY <1>0, <2>3, <3>1, <3>2 DEF TypeOK, BookingsInv
  <2>5. n \in Nat /\ n <= events[e].capacity /\ n = Cardinality(Confirmed(bookings', e))
    <3>1. Confirmed(bookings', e) = Confirmed(bookings, e) \ {b}
      BY <1>3, <2>1, <2>3 DEF Confirmed, cb
    <3>2. Confirmed(bookings, e) \subseteq bookings /\ b \in Confirmed(bookings, e)
      BY <2>1 DEF Confirmed
    <3>3. IsFiniteSet(Confirmed(bookings, e))
      BY <1>0, <3>2, FS_Subset DEF BookingsInv
    <3>4. /\ Cardinality(Confirmed(bookings, e) \ {b}) = Cardinality(Confirmed(bookings, e)) - 1
          /\ Cardinality(Confirmed(bookings, e) \ {b}) \in Nat
      BY <3>2, <3>3, FS_RemoveElement, FS_CardinalityType
    <3> QED BY <2>2, <3>1, <3>4
  <2>6. \A x \in Ids \ {e} : Confirmed(bookings', x) = Confirmed(bookings, x)
    BY <1>3, <2>1, <2>3 DEF Confirmed, cb
  <2>7. EntryOK(entry) /\ "OK" \in Answers
    BY <1>0, <2>1, BookingEntryOK DEF Answers
  <2>8. /\ events' = [events EXCEPT ![e].booked = n] /\ ~Locked(e)
        /\ auditLog' = Append(auditLog, entry)
    BY <1>3
  <2> HIDE DEF n, entry, e
  <2>9. SeatMoves(c, e, n)
    BY <1>1, <1>3, <2>7, <2>8 DEF SeatMoves
  <2>10. BookingMoves(c, e, n)
    BY <2>4, <2>5, <2>6 DEF BookingMoves
  <2> QED BY <1>0, <2>1, <2>5, <2>8, <2>9, <2>10, SeatStep
<1>4. {"NotFound", "Forbidden", "AlreadyCancelled"} \subseteq Answers
  BY DEF Answers
<1>5. \A user, b : Refusal(user, b) \in {"Forbidden", "AlreadyCancelled", "none"}
                   /\ (Refusal(user, b) = "none" => b.status # "cancelled")
  BY DEF Refusal
<1>6. PICK id \in Books :
         \/ Answer(c, "NotFound") /\ UNCHANGED <<tables, now, watched>>
         \/ \E b \in bookings :
            LET refusal == Refusal(User(c, "cancelBooking"), b) IN
            \/ /\ refusal # "none"
               /\ Answer(c, refusal) /\ UNCHANGED <<tables, now, watched>>
            \/ /\ refusal = "none" /\ ~Locked(b.event)
               /\ events' = [events EXCEPT ![b.event].booked = @ - 1]
               /\ bookings' = (bookings \ {b}) \cup {[b EXCEPT !.status = "cancelled"]}
               /\ auditLog' = Append(auditLog, BookingEntry(c, b.event, b.by))
               /\ now' = now + 1
               /\ Answer(c, "OK")
  BY DEF CancelBooking
<1> QED BY <1>2, <1>3, <1>4, <1>5, <1>6

-----------------------------------------------------------------------------
(* The rows *)

\* The database at the start fits, and leaves ids for what is sent.
LEMMA RowsInit == ASSUME Init PROVE RowsInv
<1> DEFINE taken == {e \in Ids : InitEvents[e] # NoRow}
<1>1. PICK sent \in Traffic : pc = [q \in Requests |-> IF q \in sent THEN "Idle" ELSE "Done"]
  BY DEF Init
<1>2. /\ now = InitNow /\ events = InitEvents /\ bookings = InitBookings /\ auditLog = InitLog
      /\ nextId = 1 + Cardinality(taken)
      /\ begin = [q \in Writers |-> 0] /\ view = [q \in Patches |-> NoRow]
      /\ tx = [q \in Creates \cup Patches |-> NoTx] /\ page = [r \in Readers |-> 1]
      /\ reply = [q \in Requests |-> "none"] /\ faults = 0
  BY DEF Init
<1>3. /\ \A q \in Requests : pc[q] \in {"Idle", "Done"} /\ (pc[q] = "Idle" => q \in sent)
      /\ pc \in [Requests -> PcValues] /\ sent \subseteq Requests
  BY <1>1, RequestAssumption DEF PcValues
<1>4. /\ taken = 1 .. Cardinality(taken) /\ IsFiniteSet(taken) /\ Cardinality(taken) \in Nat
      /\ Cardinality(taken) + Cardinality(sent \cap Creates) <= Cardinality(Ids)
  <2>1. /\ IsFiniteSet(Ids) /\ taken = 1 .. Cardinality(taken)
        /\ Cardinality(taken) + Cardinality(sent \cap Creates) <= Cardinality(Ids)
    BY IdAssumption
  <2>2. taken \subseteq Ids
    OBVIOUS
  <2> HIDE DEF taken
  <2> QED BY <2>1, <2>2, FS_Subset, FS_CardinalityType
<1>5. TypeOK
  <2>1. 0 \in Stamps /\ InitNow \in Stamps
    <3>1. 0 \in 0 .. InitNow + Cardinality(Writers) /\ InitNow \in 0 .. InitNow + Cardinality(Writers)
      BY Finite
    <3> QED BY <3>1 DEF Stamps
  <2>2. /\ \A q \in Creates \cup Patches : pc[q] # "Commit" /\ tx[q] = NoTx
        /\ nextId \in Nat /\ "none" \in Answers
    BY <1>2, <1>3, <1>4 DEF Answers
  <2> QED BY <1>2, <1>3, <2>1, <2>2, StartAssumption, RequestAssumption DEF TypeOK
<1>6. SeatsAreBookings
  BY <1>2, StartAssumption DEF SeatsAreBookings
<1>7. BookingsInv
  <2>1. ASSUME NEW b \in bookings PROVE events[b.event] # NoRow /\ pc[b.by] \notin {"Idle", "Sell"}
    <3>1. b.by \in Requests /\ b.by \notin sent /\ events[b.event] # NoRow
      BY <1>2, StartAssumption DEF Booking
    <3> QED BY <1>3, <3>1
  <2> QED BY <1>2, <2>1, StartAssumption DEF BookingsInv
<1>8. TxInv
  BY <1>2, <1>3 DEF TxInv
<1>9. Counting
  <2>1. Cardinality(Running) <= Cardinality(Writers)
    <3>1. Running \subseteq Writers
      BY DEF Running
    <3> QED BY <3>1, Finite, FS_Subset
  <2>2. Cardinality(ToInsert) <= Cardinality(sent \cap Creates)
    <3>1. ToInsert \subseteq sent \cap Creates /\ sent \cap Creates \subseteq Requests
      BY <1>3 DEF ToInsert
    <3>2. IsFiniteSet(sent \cap Creates)
      BY <3>1, RequestAssumption, FS_Subset
    <3> QED BY <3>1, <3>2, FS_Subset
  <2>3. Cardinality(sent \cap Creates) \in Nat
    <3>1. sent \cap Creates \subseteq Requests
      BY <1>3
    <3> QED BY <3>1, RequestAssumption, FS_Subset, FS_CardinalityType
  <2>4. nextId > 0 /\ \A e \in Ids : e >= nextId => e \notin taken
    <3> DEFINE k == Cardinality(taken)
    <3>1. nextId = 1 + k /\ taken = 1 .. k /\ k \in Nat
      BY <1>2, <1>4
    <3>2. \A e \in Ids : e \in Int
      BY Finite
    <3> HIDE DEF taken, k
    <3> QED BY <3>1, <3>2
  <2>5. now + Cardinality(Running) <= InitNow + Cardinality(Writers)
    BY <1>2, <2>1, Finite
  <2>6. nextId + Cardinality(ToInsert) <= Cardinality(Ids) + 1
    BY <1>2, <1>4, <2>2, <2>3, Finite
  <2>7. \A e \in Ids : e >= nextId => events[e] = NoRow
    BY <1>2, <2>4
  <2> QED BY <2>4, <2>5, <2>6, <2>7 DEF Counting
<1>10. Admitted /\ \A q \in Requests : pc[q] \in Path(q)
  BY <1>3 DEF Admitted, Path
<1> QED BY <1>5, <1>6, <1>7, <1>8, <1>9, <1>10 DEF RowsInv

\* Every step keeps the invariant.
LEMMA RowsStep == ASSUME RowsInv, [Next]_vars PROVE RowsInv'
<1>1. CASE UNCHANGED vars
  <2>1. /\ UNCHANGED <<now, events, bookings, auditLog, nextId, pc, begin, view, tx, page, reply,
                       faults>>
    BY <1>1 DEF vars, tables, writing, reading
  <2>2. TypeOK' /\ SeatsAreBookings' /\ BookingsInv'
    BY <2>1 DEF RowsInv, TypeOK, SeatsAreBookings, Confirmed, BookingsInv, NoTx, ToSet
  <2>3. TxInv'
    BY <2>1 DEF RowsInv, TxInv, CreateTx, PatchTx
  <2>4. Counting'
    BY <2>1 DEF RowsInv, Counting, Running, ToInsert
  <2>5. Admitted' /\ (\A q \in Requests : pc[q] \in Path(q))'
    BY <2>1 DEF RowsInv, Admitted, LetIn, WriteRoute, Path
  <2> QED BY <2>2, <2>3, <2>4, <2>5 DEF RowsInv
<1>2. CASE Next
  BY <1>1, <1>2, BeginStep, InsertEventStep, ReadEventStep, WriteEventStep, CommitStep, SellStep,
     CancelStep, ReaderStep, GetterStep DEF Next, Finished
<1> QED BY <1>1, <1>2

\* In every reachable state the rows fit each other, each transaction holds what it is about
\* to commit, and whoever runs was let in.
THEOREM AlwaysRowsInv == Spec => []RowsInv
<1>1. Init => RowsInv
  BY RowsInit
<1>2. RowsInv /\ [Next]_vars => RowsInv'
  BY RowsStep
<1> QED BY <1>1, <1>2, PTL DEF Spec

\* Every variable of the back office keeps its shape, and no PATCH, however old the row it
\* writes back, leaves an event with more seats booked than it has.
THEOREM RowsKeepShape == Spec => []TypeOK
<1>1. RowsInv => TypeOK
  BY DEF RowsInv
<1> QED BY <1>1, AlwaysRowsInv, PTL

\* updateEvent never undoes the count of a booking or of a cancellation that was committed
\* between its read and its write.
THEOREM SeatsStayBookings == Spec => []SeatsAreBookings
<1>1. RowsInv => SeatsAreBookings
  BY DEF RowsInv
<1> QED BY <1>1, AlwaysRowsInv, PTL

-----------------------------------------------------------------------------
(* What is shown *)

\* A page is a part of the list.
LEMMA PageOfRows ==
  ASSUME NEW r \in Readers, NEW rows \in PageRows(r)  PROVE rows \subseteq Rows(r)
BY DEF PageRows, Pages, Firsts, kSubset

\* The gate of an administrative route lets admins in, and no bypass makes one.
LEMMA AdminGate ==
  ASSUME NEW q \in Requests, NEW route \in AdminRoutes, Gate(route, HeadersOf[q]) = "next"
  PROVE  IsAdmin(q, route)
<1>1. route \notin PublicRoutes
  BY DEF AdminRoutes, PublicRoutes
<1>2. AuthUser(HeadersOf[q]).role = "admin"
  BY <1>1 DEF Gate, HasRole, ReqUser
<1> QED BY <1>1, <1>2 DEF IsAdmin, Bypassed, AuthUser, AccessToken, Named, NoUser

\* Who is treated as an admin on a public route or on one for users, is one.
LEMMA TreatedAsAdmin ==
  ASSUME NEW q \in Requests, NEW route, AsAdmin(User(q, route))
  PROVE  IsAdmin(q, route)
BY DEF AsAdmin, User, ReqUser, OptionalUser, AuthUser, AccessToken, Named, NoUser, IsAdmin, Bypassed

\* The user of a request, on a route that needs one.
LEMMA UserIsOwner ==
  ASSUME NEW q \in Requests, RouteOf[q] \notin PublicRoutes
  PROVE  User(q, RouteOf[q]).user = Owner(q)
BY DEF User, ReqUser, AuthUser, AccessToken, Named, NoUser, Owner, Bypassed

\* The list of a reader that was let in holds nothing it may not see.
LEMMA RowsPermitted ==
  ASSUME RowsInv, NEW r \in Readers, pc[r] = "Queries"
  PROVE  IsAdmin(r, RouteOf[r]) \/ \A row \in Rows(r) : PermittedRow(r, row)
<1>0. /\ r \in Requests /\ r \notin Writers
      /\ RouteOf[r] \in {"listEvents", "listMyBookings", "listAuditLog"}
  BY RequestAssumption
<1>1. CASE RouteOf[r] = "listEvents"
  <2>1. CASE AsAdmin(ReaderUser(r))
    BY <1>0, <2>1, TreatedAsAdmin DEF ReaderUser
  <2>2. CASE ~AsAdmin(ReaderUser(r))
    BY <1>1, <2>2 DEF Rows, ListedEvents, StatusFilter, PermittedRow
  <2> QED BY <2>1, <2>2
<1>2. CASE RouteOf[r] = "listMyBookings"
  <2>1. ReaderUser(r).user = Owner(r)
    BY <1>0, <1>2, UserIsOwner DEF ReaderUser, PublicRoutes
  <2> QED BY <1>2, <2>1 DEF Rows, ListedBookings, ListingRole, PermittedRow
<1>3. CASE RouteOf[r] = "listAuditLog"
  <2>1. Gate(RouteOf[r], HeadersOf[r]) = "next"
    BY <1>0 DEF RowsInv, Admitted, LetIn
  <2> QED BY <1>0, <1>3, <2>1, AdminGate DEF AdminRoutes
<1> QED BY <1>0, <1>1, <1>2, <1>3

\* The one row that a request for it is shown.
LEMMA FoundPermitted ==
  ASSUME RowsInv, NEW g \in Getters, NEW id \in Ids \cup Books,
         \E row \in Found(g, id) : ~Hidden(g, row)
  PROVE  IsAdmin(g, RouteOf[g]) \/ \A row \in Found(g, id) : PermittedRow(g, row)
<1>0. g \in Requests /\ RouteOf[g] \in {"getEventById", "getBookingById"}
  BY RequestAssumption
<1>1. CASE AsAdmin(ReaderUser(g))
  BY <1>0, <1>1, TreatedAsAdmin DEF ReaderUser
<1>2. CASE ~AsAdmin(ReaderUser(g)) /\ RouteOf[g] = "getEventById"
  BY <1>2 DEF Found, Hidden, EventVisible, PermittedRow
<1>3. CASE ~AsAdmin(ReaderUser(g)) /\ RouteOf[g] = "getBookingById"
  <2>1. ReaderUser(g).user = Owner(g)
    BY <1>0, <1>3, UserIsOwner DEF ReaderUser, PublicRoutes
  <2>2. \A b, d \in bookings : b.by = d.by => b = d
    BY DEF RowsInv, BookingsInv
  <2> QED BY <1>3, <2>1, <2>2 DEF Found, Hidden, BookingVisible, PermittedRow
<1> QED BY <1>0, <1>1, <1>2, <1>3

\* The two parts of OnlyPermitted, row by row and entry by entry.
MayShow(r, rows) == IsAdmin(r, RouteOf[r]) \/ \A row \in rows : PermittedRow(r, row)
MayLog(entry) == entry.by \in Creates \cup Patches => IsAdmin(entry.by, WriteRoute(entry.by))

\* The invariant in these words.
LEMMA PermitParts ==
  /\ OnlyPermitted <=> /\ \A r \in Readers \cup Getters : MayShow(r, seen[r])
                       /\ \A i \in DOMAIN auditLog : MayLog(auditLog[i])
  /\ ListedInv <=> /\ DOMAIN listed = Readers /\ DOMAIN seen = Readers \cup Getters
                   /\ \A r \in Readers : listed[r] # NoRow => MayShow(r, listed[r])
  /\ /\ \A r \in Readers \cup Getters : MayShow(r, seen'[r])
     /\ \A i \in DOMAIN auditLog' : MayLog(auditLog'[i])
     => OnlyPermitted'
  /\ /\ DOMAIN listed' = Readers /\ DOMAIN seen' = Readers \cup Getters
     /\ \A r \in Readers : listed'[r] # NoRow => MayShow(r, listed'[r])
     => ListedInv'
BY DEF OnlyPermitted, ListedInv, MayShow, MayLog, PermittedRow, IsAdmin, Bypassed, Owner, WriteRoute

\* Only a reader's answer shows rows, and only what its queries have found.
LEMMA ShownStep ==
  ASSUME RowsInv, ListedInv, OnlyPermitted, [Next]_vars
  PROVE  /\ DOMAIN listed' = Readers /\ DOMAIN seen' = Readers \cup Getters
         /\ \A r \in Readers : listed'[r] # NoRow => MayShow(r, listed'[r])
         /\ \A r \in Readers \cup Getters : MayShow(r, seen'[r])
<1>0. /\ DOMAIN listed = Readers /\ DOMAIN seen = Readers \cup Getters
      /\ \A r \in Readers : listed[r] # NoRow => MayShow(r, listed[r])
      /\ \A r \in Readers \cup Getters : MayShow(r, seen[r])
  BY PermitParts
<1>1. CASE UNCHANGED <<listed, seen>>
  BY <1>0, <1>1
<1>2. ASSUME NEW r \in Readers, ListQuery(r)
      PROVE  /\ seen' = seen
             /\ \E rows : MayShow(r, rows) /\ listed' = [listed EXCEPT ![r] = rows]
  <2>1. PICK rows \in PageRows(r) : listed' = [listed EXCEPT ![r] = rows]
    BY <1>2 DEF ListQuery
  <2>2. MayShow(r, rows)
    BY <1>2, <2>1, PageOfRows, RowsPermitted DEF ListQuery, MayShow
  <2> QED BY <1>2, <2>1, <2>2 DEF ListQuery
<1>3. ASSUME NEW r \in Readers, Respond(r)
      PROVE  /\ seen' = [seen EXCEPT ![r] = @ \cup listed[r]] /\ MayShow(r, seen[r] \cup listed[r])
             /\ listed' = [listed EXCEPT ![r] = NoRow]
  BY <1>0, <1>3 DEF Respond, MayShow
<1>4. ASSUME NEW g \in Getters, Get(g)
      PROVE  /\ listed' = listed
             /\ \/ seen' = seen
                \/ \E rows : MayShow(g, rows) /\ seen' = [seen EXCEPT ![g] = rows]
  <2>1. listed' = listed
    BY <1>4 DEF Get
  <2>2. CASE GetRefused(g)
    BY <2>1, <2>2 DEF GetRefused
  <2>3. ASSUME NEW id \in Ids \cup Books, GetMissing(g, id) \/ GetHidden(g, id)
        PROVE  seen' = seen
    BY <2>3 DEF GetMissing, GetHidden
  <2>4. ASSUME NEW id \in Ids \cup Books, GetShown(g, id)
        PROVE  MayShow(g, Found(g, id)) /\ seen' = [seen EXCEPT ![g] = Found(g, id)]
    BY <2>4, FoundPermitted DEF GetShown, MayShow
  <2> QED BY <1>4, <2>1, <2>2, <2>3, <2>4 DEF Get
<1>5. [Next]_vars => \/ UNCHANGED <<listed, seen>>
                     \/ \E r \in Readers : ListQuery(r) \/ Respond(r)
                     \/ \E g \in Getters : Get(g)
  BY DEF Next, Finished, vars, reading, Begin, InsertEvent, ReadEvent, WriteEvent, Commit,
         WriteFault, Sell, CancelBooking, Open, CountQuery
<1>6. ASSUME NEW r \in Readers, ListQuery(r) \/ Respond(r)
      PROVE  /\ DOMAIN listed' = Readers /\ DOMAIN seen' = Readers \cup Getters
             /\ \A x \in Readers : listed'[x] # NoRow => MayShow(x, listed'[x])
             /\ \A x \in Readers \cup Getters : MayShow(x, seen'[x])
  <2>1. CASE ListQuery(r)
    BY <1>0, <1>2, <2>1
  <2>2. CASE Respond(r)
    BY <1>0, <1>3, <2>2
  <2> QED BY <1>6, <2>1, <2>2
<1>7. ASSUME NEW g \in Getters, Get(g)
      PROVE  /\ DOMAIN listed' = Readers /\ DOMAIN seen' = Readers \cup Getters
             /\ \A x \in Readers : listed'[x] # NoRow => MayShow(x, listed'[x])
             /\ \A x \in Readers \cup Getters : MayShow(x, seen'[x])
  BY <1>0, <1>4, <1>7
<1> QED BY <1>1, <1>5, <1>6, <1>7

\* Every entry is that of its writer, whom the gate has let in.
LEMMA LoggedStep ==
  ASSUME RowsInv, OnlyPermitted, [Next]_vars
  PROVE  \A i \in DOMAIN auditLog' : MayLog(auditLog'[i])
<1>0. /\ \A i \in DOMAIN auditLog : MayLog(auditLog[i])
      /\ auditLog \in Seq(ToSet(auditLog)) /\ \A i \in DOMAIN auditLog : EntryOK(auditLog[i])
  BY PermitParts DEF RowsInv, TypeOK
<1>1. ASSUME NEW entry, EntryOK(entry), MayLog(entry), auditLog' = Append(auditLog, entry)
      PROVE  \A i \in DOMAIN auditLog' : MayLog(auditLog'[i])
  BY <1>0, <1>1, LogGrows
<1>2. CASE auditLog' = auditLog
  BY <1>0, <1>2
<1>3. ASSUME NEW q \in Creates \cup Patches, Commit(q)
      PROVE  \A i \in DOMAIN auditLog' : MayLog(auditLog'[i])
  <2>1. /\ auditLog' = Append(auditLog, tx[q].entry) /\ pc[q] = "Commit" /\ q \in Requests
    BY <1>3 DEF Commit
  <2>2. EntryOK(tx[q].entry) /\ tx[q].entry.by = q /\ LetIn(q)
    BY <2>1 DEF RowsInv, TxInv, Admitted
  <2>3. WriteRoute(q) \in AdminRoutes /\ Gate(WriteRoute(q), HeadersOf[q]) = "next"
    BY <2>2, RequestAssumption DEF LetIn, WriteRoute, AdminRoutes
  <2>4. MayLog(tx[q].entry)
    BY <2>1, <2>2, <2>3, AdminGate DEF MayLog
  <2> QED BY <1>1, <2>1, <2>2, <2>4
<1>4. ASSUME NEW q \in Books, Sell(q)
      PROVE  auditLog' = auditLog \/ \E e \in Ids, b \in Requests : auditLog' = Append(auditLog, BookingEntry(q, e, b))
  <2>1. q \in Requests /\ EventOf[q] \in Ids
    BY RequestAssumption DEF Requests
  <2> QED BY <1>4, <2>1 DEF Sell, tables
<1>5. ASSUME NEW q \in Cancels, CancelBooking(q)
      PROVE  auditLog' = auditLog \/ \E e \in Ids, b \in Requests : auditLog' = Append(auditLog, BookingEntry(q, e, b))
  BY <1>5 DEF CancelBooking, tables, RowsInv, TypeOK, Booking
<1>6. ASSUME NEW q \in Books \cup Cancels, NEW e \in Ids, NEW b \in Requests
      PROVE  EntryOK(BookingEntry(q, e, b)) /\ MayLog(BookingEntry(q, e, b))
  <2>1. EntryOK(BookingEntry(q, e, b))
    BY BookingEntryOK DEF RowsInv
  <2>2. BookingEntry(q, e, b).by \notin Creates \cup Patches
    BY RequestAssumption DEF BookingEntry
  <2> QED BY <2>1, <2>2 DEF MayLog
<1>7. [Next]_vars => \/ auditLog' = auditLog
                     \/ \E q \in Creates \cup Patches : Commit(q)
                     \/ \E b \in Books : Sell(b)
                     \/ \E c \in Cancels : CancelBooking(c)
  BY DEF Next, Finished, vars, tables, Begin, InsertEvent, ReadEvent, WriteEvent, WriteFault,
         RolledBack, Open, ListQuery, CountQuery, Respond, Get
<1> QED BY <1>1, <1>2, <1>3, <1>4, <1>5, <1>6, <1>7

\* What was answered and logged so far is what AccessControl lets through.
LEMMA AlwaysPermitInv == Spec => []PermitInv
<1>1. Init => PermitInv
  <2> SUFFICES ASSUME Init PROVE PermitInv
    OBVIOUS
  <2>1. /\ listed = [r \in Readers |-> NoRow] /\ seen = [r \in Readers \cup Getters |-> {}]
        /\ auditLog = InitLog
    BY DEF Init
  <2>2. \A r \in Readers \cup Getters : MayShow(r, seen[r])
    BY <2>1 DEF MayShow
  <2>3. \A i \in DOMAIN auditLog : MayLog(auditLog[i])
    BY <2>1, TrailAssumption DEF MayLog
  <2> QED BY <2>1, <2>2, <2>3, RowsInit, PermitParts DEF PermitInv
<1>2. PermitInv /\ [Next]_vars => PermitInv'
  BY RowsStep, ShownStep, LoggedStep, PermitParts DEF PermitInv
<1> QED BY <1>1, <1>2, PTL DEF Spec

\* Whatever the headers of a request, AccessControl and the queries of the lists show it
\* public events and its own bookings and no more, unless it comes from an admin; and only
\* admins write to the log of events.
THEOREM NeverShowsMore == Spec => []OnlyPermitted
<1>1. PermitInv => OnlyPermitted
  BY DEF PermitInv
<1> QED BY <1>1, AlwaysPermitInv, PTL


-----------------------------------------------------------------------------
(* The audit trail *)

\* Where an entry at the end of the log stands, and that the others stay where they are.
LEMMA LogAppend ==
  ASSUME NEW S, NEW log \in Seq(S), NEW entry \in S, NEW t, t = Append(log, entry)
  PROVE  /\ \A i \in DOMAIN log : i \in DOMAIN t /\ t[i] = log[i] /\ i < Len(log) + 1
         /\ Len(log) + 1 \in DOMAIN t /\ t[Len(log) + 1] = entry
         /\ \A j \in DOMAIN t : /\ j = Len(log) + 1 \/ j \in DOMAIN log
                                /\ ~(j > Len(log) + 1)
         /\ Len(t) = Len(log) + 1
<1>1. /\ t \in Seq(S) /\ Len(t) = Len(log) + 1 /\ Len(log) \in Nat
      /\ \A i \in 1 .. Len(log) : t[i] = log[i]
      /\ t[Len(log) + 1] = entry
  BY AppendProperties, LenProperties
<1>2. DOMAIN log = 1 .. Len(log) /\ DOMAIN t = 1 .. Len(log) + 1
  BY <1>1, LenProperties
<1> QED BY <1>1, <1>2

\* An entry at the end of the log gives what it gives last, and overtakes whoever has
\* begun before its COMMIT.
LEMMA LastEntryGives ==
  ASSUME NEW S, NEW log \in Seq(S), NEW entry \in S, NEW t, t = Append(log, entry),
         NEW e, NEW f, Gives(entry, e, f), NEW begun, begun <= CommitTime(Len(log) + 1)
  PROVE  Explained(t, e, f, entry.changes[f]) /\ Overtaken(t, e, f, begun)
<1>1. IsLast(t, e, f, Len(log) + 1) /\ t[Len(log) + 1] = entry /\ Len(log) + 1 \in DOMAIN t
  BY LogAppend DEF IsLast
<1> HIDE DEF Gives, CommitTime
<1> QED BY <1>1 DEF Explained, InTrail, LastInTrail, Overtaken, IsLast

\* What was in the log stays in it.
LEMMA InTrailStays ==
  ASSUME NEW S, NEW log \in Seq(S), NEW entry \in S, NEW t, t = Append(log, entry),
         NEW e, NEW f, NEW value, InTrail(log, e, f, value)
  PROVE  InTrail(t, e, f, value)
<1> HIDE DEF Gives
<1> QED BY LogAppend DEF InTrail

\* An entry that does not give the field leaves its last one the last one, with all that
\* follows from it.
LEMMA OtherEntryHides ==
  ASSUME NEW S, NEW log \in Seq(S), NEW entry \in S, NEW t, t = Append(log, entry),
         NEW e, NEW f, ~Gives(entry, e, f), NEW value, NEW begun
  PROVE  /\ Explained(log, e, f, value) => Explained(t, e, f, value)
         /\ Overtaken(log, e, f, begun) => Overtaken(t, e, f, begun)
         /\ Overtaken(log, e, f, entry.at) /\ entry.log = "event" /\ entry.event = e =>
               LostUpdate(t, e, f)
<1>1. \A i \in DOMAIN log : IsLast(log, e, f, i) => IsLast(t, e, f, i)
  BY LogAppend DEF IsLast
<1> HIDE DEF Gives, CommitTime, IsLast
<1>2. LastInTrail(log, e, f, value) => LastInTrail(t, e, f, value)
  BY <1>1, LogAppend DEF LastInTrail
<1>3. LostUpdate(log, e, f) => LostUpdate(t, e, f)
  BY <1>1, LogAppend DEF LostUpdate
<1>4. Explained(log, e, f, value) => Explained(t, e, f, value)
  BY <1>2, <1>3, InTrailStays DEF Explained
<1>5. Overtaken(log, e, f, begun) => Overtaken(t, e, f, begun)
  BY <1>1, LogAppend DEF Overtaken
<1>6. ASSUME Overtaken(log, e, f, entry.at), entry.log = "event", entry.event = e
      PROVE  LostUpdate(t, e, f)
  <2>1. PICK i \in DOMAIN log : IsLast(log, e, f, i) /\ entry.at <= CommitTime(i)
    BY <1>6 DEF Overtaken
  <2>2. Len(log) + 1 > i /\ Len(log) + 1 \in DOMAIN t /\ t[Len(log) + 1] = entry
    <3>1. i < Len(log) + 1
      BY LogAppend
    <3>2. i \in Nat /\ Len(log) \in Nat
      BY LenProperties
    <3> QED BY <3>1, <3>2, LogAppend
  <2> QED BY <1>1, <1>6, <2>1, <2>2, LogAppend DEF LostUpdate
<1> QED BY <1>4, <1>5, <1>6

\* The log after the COMMIT of one more entry: what was explained stays so unless the entry
\* gives another value; what could be written back can be; and the entry of a transaction
\* that writes back what it could explains it.
TrailKeeps(entry) ==
    \A e \in Ids, f \in Fields :
        /\ Gives(entry, e, f) => Explained(auditLog', e, f, entry.changes[f])
        /\ ~Gives(entry, e, f) =>
              /\ \A value : Explained(auditLog, e, f, value) => Explained(auditLog', e, f, value)
              /\ entry.log = "event" /\ entry.event = e =>
                    \A value : Readable(auditLog, e, f, value, entry.at) =>
                                  Explained(auditLog', e, f, value)
        /\ \A begun \in Stamps : begun <= now =>
              \A value : Readable(auditLog, e, f, value, begun) =>
                            Readable(auditLog', e, f, value, begun)

\* Every entry keeps the trail so.
LEMMA LogKeeps ==
  ASSUME TypeOK, now = CommitTime(Len(auditLog) + 1), NEW entry, auditLog' = Append(auditLog, entry)
  PROVE  TrailKeeps(entry)
<1> DEFINE S == ToSet(auditLog) \cup {entry}
<1>1. auditLog \in Seq(S) /\ entry \in S
  <2>1. ToSet(auditLog) \subseteq S /\ auditLog \in Seq(ToSet(auditLog)) /\ entry \in S
    BY DEF TypeOK
  <2> HIDE DEF S
  <2> QED BY <2>1, SeqMonotonic
<1> HIDE DEF S, Gives, CommitTime, Explained, Overtaken, LostUpdate, InTrail
<1> SUFFICES ASSUME NEW e \in Ids, NEW f \in Fields
             PROVE  /\ Gives(entry, e, f) => Explained(auditLog', e, f, entry.changes[f])
                    /\ ~Gives(entry, e, f) =>
                          /\ \A value : Explained(auditLog, e, f, value) => Explained(auditLog', e, f, value)
                          /\ entry.log = "event" /\ entry.event = e =>
                                \A value : Readable(auditLog, e, f, value, entry.at) =>
                                              Explained(auditLog', e, f, value)
                    /\ \A begun \in Stamps : begun <= now =>
                          \A value : Readable(auditLog, e, f, value, begun) =>
                                        Readable(auditLog', e, f, value, begun)
  BY DEF TrailKeeps
<1>2. \A value : InTrail(auditLog, e, f, value) => InTrail(auditLog', e, f, value)
  BY <1>1, InTrailStays
<1>3. CASE Gives(entry, e, f)
  <2>1. now <= CommitTime(Len(auditLog) + 1)
    <3>1. now \in Int
      BY DEF TypeOK, Stamps
    <3> QED BY <3>1
  <2>2. Explained(auditLog', e, f, entry.changes[f])
    BY <1>1, <1>3, <2>1, LastEntryGives
  <2>3. \A begun \in Stamps : begun <= now => Overtaken(auditLog', e, f, begun)
    BY <1>1, <1>3, LastEntryGives
  <2>4. \A value : Explained(auditLog, e, f, value) => InTrail(auditLog, e, f, value)
    BY DEF Explained
  <2> QED BY <1>2, <1>3, <2>2, <2>3, <2>4 DEF Readable
<1>4. CASE ~Gives(entry, e, f)
  <2>1. \A value : Explained(auditLog, e, f, value) => Explained(auditLog', e, f, value)
    BY <1>1, <1>4, OtherEntryHides
  <2>2. \A begun : Overtaken(auditLog, e, f, begun) => Overtaken(auditLog', e, f, begun)
    BY <1>1, <1>4, OtherEntryHides
  <2>3. ASSUME entry.log = "event", entry.event = e, NEW value,
               Readable(auditLog, e, f, value, entry.at)
        PROVE  Explained(auditLog', e, f, value)
    <3>1. CASE Explained(auditLog, e, f, value)
      BY <2>1, <3>1
    <3>2. CASE InTrail(auditLog, e, f, value) /\ Overtaken(auditLog, e, f, entry.at)
      <4>1. LostUpdate(auditLog', e, f)
        BY <1>1, <1>4, <2>3, <3>2, OtherEntryHides
      <4> QED BY <1>2, <3>2, <4>1 DEF Explained
    <3> QED BY <2>3, <3>1, <3>2 DEF Readable
  <2> QED BY <1>2, <1>4, <2>1, <2>2, <2>3 DEF Readable
<1> QED BY <1>3, <1>4

\* The clock ticks with every COMMIT that writes to the log.
Ticked == \/ auditLog' = auditLog /\ now' = now
          \/ now' = now + 1 /\ \E entry : auditLog' = Append(auditLog, entry)

\* The clock goes on counting the entries.
LEMMA ClockTicks ==
  ASSUME TypeOK, LogClock, Ticked,
         \A q \in Writers : begin'[q] \in {begin[q], now}
  PROVE  LogClock'
<1>1. now \in Int /\ InitNow \in Int /\ \A q \in Writers : begin[q] \in Int
  BY StartAssumption DEF TypeOK, Stamps
<1>2. now' \in Int /\ now' >= now /\ \A q \in Writers : begin'[q] <= now'
  BY <1>1 DEF Ticked, LogClock
<1>3. CASE auditLog' = auditLog /\ now' = now
  BY <1>2, <1>3 DEF LogClock
<1>4. ASSUME now' = now + 1, NEW entry, auditLog' = Append(auditLog, entry) PROVE LogClock'
  <2> DEFINE S == ToSet(auditLog) \cup {entry}
  <2>1. auditLog \in Seq(S) /\ entry \in S
    <3>1. ToSet(auditLog) \subseteq S /\ auditLog \in Seq(ToSet(auditLog)) /\ entry \in S
      BY DEF TypeOK
    <3> HIDE DEF S
    <3> QED BY <3>1, SeqMonotonic
  <2> HIDE DEF S
  <2>2. Len(auditLog') = Len(auditLog) + 1
    BY <1>4, <2>1, LogAppend
  <2>3. Len(auditLog) \in Nat /\ Len(InitLog) \in Nat
    BY <2>1, StartAssumption, LenProperties
  <2>4. now' = CommitTime(Len(auditLog') + 1)
    BY <1>1, <1>4, <2>2, <2>3 DEF LogClock, CommitTime
  <2> QED BY <1>2, <2>4 DEF LogClock, CommitTime
<1> QED BY <1>3, <1>4 DEF Ticked

\* The fields of a row that the trail is about.
LEMMA RowFields ==
  ASSUME NEW row \in Row, NEW f \in Fields
  PROVE  row[f] \in Values[f] /\ Given(row[f])
<1>1. row[f] \in Values[f]
  BY DEF Row, Fields, Values
<1> QED BY <1>1, RequestAssumption DEF Given

\* A step that gives no field of an event another value, nor logs one.
LEMMA TrailStays ==
  ASSUME RowsInv, TrailInv, LogClock', UNCHANGED <<view, tx>>,
         auditLog' = auditLog \/ \E entry : auditLog' = Append(auditLog, entry) /\ entry.log # "event",
         \A e \in Ids : /\ events[e] # NoRow <=> events'[e] # NoRow
                        /\ \A f \in Fields : events'[e][f] = events[e][f],
         \A q \in Creates \cup Patches : pc'[q] \in {"WriteEvent", "Commit"} =>
                                            pc'[q] = pc[q] /\ begin'[q] = begin[q]
  PROVE  TrailInv'
<1>0. TypeOK /\ TxInv /\ LogClock
  BY DEF RowsInv, TrailInv
<1>1. \A e \in Ids, f \in Fields :
        /\ \A value : Explained(auditLog, e, f, value) => Explained(auditLog', e, f, value)
        /\ \A begun \in Stamps : begun <= now =>
              \A value : Readable(auditLog, e, f, value, begun) =>
                            Readable(auditLog', e, f, value, begun)
  <2>1. CASE auditLog' = auditLog
    BY <2>1
  <2>2. ASSUME NEW entry, auditLog' = Append(auditLog, entry), entry.log # "event"
        PROVE  \A e \in Ids, f \in Fields :
                 /\ \A value : Explained(auditLog, e, f, value) => Explained(auditLog', e, f, value)
                 /\ \A begun \in Stamps : begun <= now =>
                       \A value : Readable(auditLog, e, f, value, begun) =>
                                     Readable(auditLog', e, f, value, begun)
    <3>1. TrailKeeps(entry) /\ \A e, f : ~Gives(entry, e, f)
      BY <1>0, <2>2, LogKeeps DEF Gives, LogClock
    <3> QED BY <3>1 DEF TrailKeeps
  <2> QED BY <2>1, <2>2
<1>2. TrailExplainsEvents'
  <2> SUFFICES ASSUME NEW e \in Ids, events'[e] # NoRow, NEW f \in Fields
               PROVE  Explained(auditLog', e, f, events'[e][f])
    BY DEF TrailExplainsEvents
  <2>1. events[e] # NoRow /\ events'[e][f] = events[e][f]
    OBVIOUS
  <2>2. Explained(auditLog, e, f, events[e][f])
    BY <2>1 DEF TrailInv, TrailExplainsEvents
  <2> QED BY <1>1, <2>1, <2>2
<1>3. ASSUME NEW p \in Patches, pc'[p] = "WriteEvent", NEW f \in Fields
      PROVE  Readable(auditLog', EventOf[p], f, view'[p][f], begin'[p])
  <2>1. /\ pc[p] = "WriteEvent" /\ view'[p] = view[p] /\ begin'[p] = begin[p] /\ EventOf[p] \in Ids
        /\ begin[p] \in Stamps /\ begin[p] <= now
    <3>1. pc[p] = "WriteEvent" /\ view'[p] = view[p] /\ begin'[p] = begin[p]
      BY <1>3
    <3>2. begin[p] \in Stamps /\ begin[p] <= now
      BY <1>0 DEF TypeOK, LogClock, Writers
    <3> QED BY <3>1, <3>2, RequestAssumption
  <2>2. Readable(auditLog, EventOf[p], f, view[p][f], begin[p])
    BY <2>1 DEF TrailInv
  <2> QED BY <1>1, <2>1, <2>2
<1>4. ASSUME NEW q \in Creates \cup Patches, pc'[q] = "Commit" PROVE TxTrail(q)'
  <2> DEFINE row == tx[q].event
             entry == tx[q].entry
  <2>1. /\ pc[q] = "Commit" /\ tx'[q] = tx[q] /\ begin'[q] = begin[q] /\ row.id \in Ids /\ TxTrail(q)
        /\ begin[q] \in Stamps /\ begin[q] <= now
    <3>1. pc[q] = "Commit" /\ tx'[q] = tx[q] /\ begin'[q] = begin[q]
      BY <1>4
    <3>2. begin[q] \in Stamps /\ begin[q] <= now
      BY <1>0 DEF TypeOK, LogClock, Writers
    <3> QED BY <1>0, <3>1, <3>2 DEF TrailInv, TxInv, Row
  <2>2. /\ entry.log = "event" /\ entry.event = row.id /\ entry.at = begin[q]
        /\ \A f \in Fields : IF Given(entry.changes[f]) THEN entry.changes[f] = row[f]
                             ELSE Readable(auditLog, row.id, f, row[f], begin[q])
    BY <2>1 DEF TxTrail
  <2> HIDE DEF row, entry
  <2>3. ASSUME NEW f \in Fields
        PROVE  IF Given(entry.changes[f]) THEN entry.changes[f] = row[f]
               ELSE Readable(auditLog', row.id, f, row[f], begin[q])
    BY <1>1, <2>1, <2>2
  <2> QED BY <2>1, <2>2, <2>3 DEF TxTrail, row, entry
<1> QED BY <1>2, <1>3, <1>4 DEF TrailInv

\* A step of one transaction, which others do not see.
LEMMA TrailOfOne ==
  ASSUME TrailInv, LogClock', NEW q \in Creates \cup Patches, events' = events, auditLog' = auditLog,
         begin' = begin,
         \A x \in (Creates \cup Patches) \ {q} : pc'[x] = pc[x] /\ tx'[x] = tx[x],
         \A p \in Patches \ {q} : view'[p] = view[p],
         q \in Patches /\ pc'[q] = "WriteEvent" =>
            \A f \in Fields : Readable(auditLog, EventOf[q], f, view'[q][f], begin[q]),
         pc'[q] = "Commit" => TxTrail(q)'
  PROVE  TrailInv'
<1>1. TrailExplainsEvents'
  BY DEF TrailInv, TrailExplainsEvents
<1>2. ASSUME NEW p \in Patches, pc'[p] = "WriteEvent", NEW f \in Fields
      PROVE  Readable(auditLog', EventOf[p], f, view'[p][f], begin'[p])
  BY <1>2 DEF TrailInv
<1>3. ASSUME NEW x \in Creates \cup Patches, pc'[x] = "Commit" PROVE TxTrail(x)'
  <2>1. CASE x = q
    BY <1>3, <2>1
  <2>2. CASE x # q
    <3>1. TxTrail(x) /\ tx'[x] = tx[x]
      BY <1>3, <2>2 DEF TrailInv
    <3> QED BY <3>1 DEF TxTrail
  <2> QED BY <2>1, <2>2
<1> QED BY <1>1, <1>2, <1>3 DEF TrailInv

\* A POST logs every field of the row that it inserts.
LEMMA TrailInsert ==
  ASSUME RowsInv, RowsInv', TrailInv, LogClock', NEW c \in Creates, InsertEvent(c)
  PROVE  TrailInv'
<1> DEFINE row == InsertedRow(c)
           entry == EventEntry(c, nextId, [f \in Fields |-> row[f]])
<1>0. /\ events' = events /\ auditLog' = auditLog /\ view' = view /\ begin' = begin
      /\ tx' = [tx EXCEPT ![c] = [event |-> row, entry |-> entry]]
      /\ pc' = [pc EXCEPT ![c] = "Commit"] /\ c \notin Patches
      /\ DOMAIN tx = Creates \cup Patches /\ pc \in [Requests -> PcValues]
  BY RequestAssumption DEF InsertEvent, Goto, tables, RowsInv, TypeOK, TxInv
<1>1. /\ \A x \in (Creates \cup Patches) \ {c} : pc'[x] = pc[x] /\ tx'[x] = tx[x]
      /\ pc'[c] = "Commit" /\ tx'[c].event = row /\ tx'[c].entry = entry
  BY <1>0
<1>2. row \in Row
  BY <1>1 DEF RowsInv, TxInv
<1>3. row.id = nextId
  BY DEF InsertedRow
<1>4. /\ entry.log = "event" /\ entry.event = row.id /\ entry.at = begin[c]
      /\ \A f \in Fields : entry.changes[f] = row[f]
  BY <1>3 DEF EventEntry
<1> HIDE DEF row, entry
<1>5. \A f \in Fields : Given(entry.changes[f])
  BY <1>2, <1>4, RowFields
<1>6. TxTrail(c)'
  BY <1>0, <1>1, <1>4, <1>5 DEF TxTrail
<1> QED BY <1>0, <1>1, <1>6, TrailOfOne

\* What a PATCH reads is explained.
LEMMA TrailRead ==
  ASSUME RowsInv, TrailInv, LogClock', NEW p \in Patches, ReadEvent(p)
  PROVE  TrailInv'
<1>0. /\ events' = events /\ auditLog' = auditLog /\ tx' = tx /\ begin' = begin
      /\ view' = [view EXCEPT ![p] = events[EventOf[p]]] /\ view \in [Patches -> Row \cup {NoRow}]
      /\ \/ pc' = [pc EXCEPT ![p] = "Done"]
         \/ pc' = [pc EXCEPT ![p] = "WriteEvent"] /\ events[EventOf[p]] # NoRow
      /\ pc \in [Requests -> PcValues] /\ EventOf[p] \in Ids
  BY RequestAssumption DEF ReadEvent, Goto, Answer, tables, RowsInv, TypeOK
<1>1. /\ \A x \in (Creates \cup Patches) \ {p} : pc'[x] = pc[x] /\ tx'[x] = tx[x]
      /\ \A x \in Patches \ {p} : view'[x] = view[x]
      /\ view'[p] = events[EventOf[p]] /\ pc'[p] # "Commit"
      /\ pc'[p] = "WriteEvent" => events[EventOf[p]] # NoRow
  BY <1>0
<1>2. pc'[p] = "WriteEvent" =>
         \A f \in Fields : Readable(auditLog, EventOf[p], f, view'[p][f], begin[p])
  BY <1>0, <1>1 DEF TrailInv, TrailExplainsEvents, Readable
<1> QED BY <1>0, <1>1, <1>2, TrailOfOne

\* A PATCH writes back a value that it does not log only where it has read it.
LEMMA TrailWrite ==
  ASSUME RowsInv, TrailInv, LogClock', NEW p \in Patches, WriteEvent(p)
  PROVE  TrailInv'
<1> DEFINE e == EventOf[p]
           row == UpdatedRow(p)
           entry == EventEntry(p, e, Changes(p))
<1>0. /\ TypeOK /\ pc[p] = "WriteEvent" /\ view[p] # NoRow /\ events[e] # NoRow
      /\ events' = events /\ auditLog' = auditLog /\ view' = view /\ begin' = begin
      /\ DOMAIN tx = Creates \cup Patches /\ pc \in [Requests -> PcValues]
  BY DEF WriteEvent, tables, RowsInv, TypeOK, TxInv
<1>1. CASE tx' = tx /\ \E a : Answer(p, a)
  <2>1. /\ pc'[p] = "Done" /\ \A x \in (Creates \cup Patches) \ {p} : pc'[x] = pc[x]
    BY <1>0, <1>1 DEF Answer, Goto
  <2> QED BY <1>0, <1>1, <2>1, TrailOfOne
<1>2. CASE tx' = [tx EXCEPT ![p] = [event |-> row, entry |-> entry]] /\ Goto(p, "Commit")
  <2>1. /\ \A x \in (Creates \cup Patches) \ {p} : pc'[x] = pc[x] /\ tx'[x] = tx[x]
        /\ pc'[p] = "Commit" /\ tx'[p].event = row /\ tx'[p].entry = entry
    BY <1>0, <1>2 DEF Goto
  <2>2. row.id = e /\ events[e] \in Row
    <3>1. e \in Ids
      BY RequestAssumption
    <3> QED BY <1>0, <3>1, UpdatedIsRow DEF TypeOK
  <2>3. \A f \in Fields : row[f] = Patch(Body[p][f], view[p][f])
    BY <2>2 DEF UpdatedRow, Row, Fields
  <2>4. /\ entry.log = "event" /\ entry.event = row.id /\ entry.at = begin[p]
        /\ \A f \in Fields : entry.changes[f] = Body[p][f]
    BY <2>2 DEF EventEntry, Changes
  <2>5. \A f \in Fields : Readable(auditLog, e, f, view[p][f], begin[p])
    BY <1>0 DEF TrailInv
  <2> HIDE DEF row, entry, e
  <2>6. ASSUME NEW f \in Fields
        PROVE  IF Given(entry.changes[f]) THEN entry.changes[f] = row[f]
               ELSE Readable(auditLog, row.id, f, row[f], begin[p])
    BY <2>2, <2>3, <2>4, <2>5 DEF Patch
  <2>7. TxTrail(p)'
    BY <1>0, <2>1, <2>4, <2>6 DEF TxTrail
  <2> QED BY <1>0, <2>1, <2>7, TrailOfOne
<1> QED BY <1>1, <1>2 DEF WriteEvent

\* COMMIT makes the row of a transaction and its entry visible together.
LEMMA TrailCommit ==
  ASSUME RowsInv, TrailInv, LogClock', NEW q \in Creates \cup Patches, Commit(q)
  PROVE  TrailInv'
<1> DEFINE row == tx[q].event
           entry == tx[q].entry
           i == row.id
<1>0. /\ TypeOK /\ TxInv /\ LogClock /\ pc[q] = "Commit" /\ TxTrail(q)
      /\ events' = [events EXCEPT ![i] = row] /\ auditLog' = Append(auditLog, entry)
      /\ view' = view /\ begin' = begin
      /\ tx' = [tx EXCEPT ![q] = NoTx] /\ pc' = [pc EXCEPT ![q] = "Done"]
      /\ DOMAIN tx = Creates \cup Patches /\ pc \in [Requests -> PcValues]
      /\ events \in [Ids -> Row \cup {NoRow}]
  BY DEF Commit, Answer, Goto, RowsInv, TypeOK, TxInv, TrailInv
<1>1. /\ row \in Row /\ i \in Ids /\ entry.log = "event" /\ entry.event = i /\ entry.at = begin[q]
      /\ \A f \in Fields : IF Given(entry.changes[f]) THEN entry.changes[f] = row[f]
                           ELSE Readable(auditLog, i, f, row[f], begin[q])
  BY <1>0 DEF TxInv, TxTrail, Row
<1>2. /\ events'[i] = row /\ \A e \in Ids \ {i} : events'[e] = events[e]
      /\ pc'[q] = "Done"
      /\ \A x \in (Creates \cup Patches) \ {q} : pc'[x] = pc[x] /\ tx'[x] = tx[x]
  BY <1>0, <1>1
<1>3. TrailKeeps(entry)
  BY <1>0, LogKeeps DEF LogClock
<1>4. \A x \in Creates \cup Patches : begin[x] \in Stamps /\ begin[x] <= now
  BY <1>0 DEF TypeOK, LogClock, Writers
<1> HIDE DEF row, entry, i
<1>5. TrailExplainsEvents'
  <2> SUFFICES ASSUME NEW e \in Ids, events'[e] # NoRow, NEW f \in Fields
               PROVE  Explained(auditLog', e, f, events'[e][f])
    BY DEF TrailExplainsEvents
  <2>1. CASE e # i
    <3>1. events'[e] = events[e] /\ ~Gives(entry, e, f)
      BY <1>1, <1>2, <2>1 DEF Gives
    <3>2. Explained(auditLog, e, f, events[e][f])
      BY <3>1 DEF TrailInv, TrailExplainsEvents
    <3> QED BY <1>3, <3>1, <3>2 DEF TrailKeeps
  <2>2. CASE e = i
    <3>1. CASE Given(entry.changes[f])
      <4>1. Gives(entry, e, f) /\ entry.changes[f] = row[f]
        BY <1>1, <2>2, <3>1 DEF Gives
      <4> QED BY <1>2, <1>3, <2>2, <4>1 DEF TrailKeeps
    <3>2. CASE ~Given(entry.changes[f])
      <4>1. ~Gives(entry, e, f) /\ Readable(auditLog, e, f, row[f], entry.at)
        BY <1>1, <2>2, <3>2 DEF Gives
      <4> QED BY <1>1, <1>2, <1>3, <2>2, <4>1 DEF TrailKeeps
    <3> QED BY <3>1, <3>2
  <2> QED BY <2>1, <2>2
<1>6. ASSUME NEW p \in Patches, pc'[p] = "WriteEvent", NEW f \in Fields
      PROVE  Readable(auditLog', EventOf[p], f, view'[p][f], begin'[p])
  <2>1. pc[p] = "WriteEvent" /\ EventOf[p] \in Ids
    BY <1>2, <1>6, RequestAssumption
  <2>2. Readable(auditLog, EventOf[p], f, view[p][f], begin[p])
    BY <2>1 DEF TrailInv
  <2> QED BY <1>0, <1>3, <1>4, <2>1, <2>2 DEF TrailKeeps
<1>7. ASSUME NEW x \in Creates \cup Patches, pc'[x] = "Commit" PROVE TxTrail(x)'
  <2> DEFINE r == tx[x].event
             n == tx[x].entry
  <2>1. x # q /\ pc[x] = "Commit" /\ tx'[x] = tx[x] /\ TxTrail(x)
    BY <1>2, <1>7 DEF TrailInv
  <2>2. r.id \in Ids
    BY <1>0, <2>1 DEF TxInv, Row
  <2>3. /\ n.log = "event" /\ n.event = r.id /\ n.at = begin[x]
        /\ \A f \in Fields : IF Given(n.changes[f]) THEN n.changes[f] = r[f]
                             ELSE Readable(auditLog, r.id, f, r[f], begin[x])
    BY <2>1 DEF TxTrail
  <2> HIDE DEF r, n
  <2>4. ASSUME NEW f \in Fields
        PROVE  IF Given(n.changes[f]) THEN n.changes[f] = r[f]
               ELSE Readable(auditLog', r.id, f, r[f], begin[x])
    BY <1>3, <1>4, <2>2, <2>3 DEF TrailKeeps
  <2> QED BY <1>0, <2>1, <2>3, <2>4 DEF TxTrail, r, n
<1> QED BY <1>5, <1>6, <1>7 DEF TrailInv

\* Seats change no field of an event that PATCHes write, and their entries are of the other log.
LEMMA TrailSeats ==
  ASSUME RowsInv, TrailInv, LogClock', NEW q \in Requests \ (Creates \cup Patches),
         pc' = [pc EXCEPT ![q] = "Done"], UNCHANGED <<view, tx, begin>>,
         \/ UNCHANGED <<events, auditLog>>
         \/ /\ \E e \in Ids : \E n : /\ events[e] # NoRow /\ events'[e] # NoRow
                                     /\ events' = [events EXCEPT ![e].booked = n]
            /\ \E e, b : auditLog' = Append(auditLog, BookingEntry(q, e, b))
  PROVE  TrailInv'
<1>1. /\ TypeOK /\ events \in [Ids -> Row \cup {NoRow}] /\ NoRow \notin Row
      /\ pc \in [Requests -> PcValues]
  BY StartAssumption DEF RowsInv, TypeOK
<1>2. \A x \in Creates \cup Patches : pc'[x] = pc[x] /\ begin'[x] = begin[x]
  BY <1>1
<1>3. CASE UNCHANGED <<events, auditLog>>
  BY <1>2, <1>3, TrailStays
<1>4. ASSUME NEW e \in Ids, NEW n, events[e] # NoRow, events'[e] # NoRow,
             events' = [events EXCEPT ![e].booked = n], NEW d, NEW b, auditLog' = Append(auditLog, BookingEntry(q, d, b))
      PROVE  TrailInv'
  <2>1. BookingEntry(q, d, b).log # "event"
    BY DEF BookingEntry
  <2> DEFINE new == [events[e] EXCEPT !.booked = n]
  <2>2. \A x \in Ids : events'[x] = IF x = e THEN new ELSE events[x]
    BY <1>1, <1>4
  <2>3. events[e] \in Row /\ new # NoRow /\ \A f \in Fields : new[f] = events[e][f]
    <3>1. events[e] \in Row
      BY <1>1, <1>4
    <3>2. \A f \in Fields : new[f] = events[e][f]
      BY <3>1 DEF Row, Fields
    <3>3. new # NoRow
      BY <1>4, <2>2
    <3> QED BY <3>1, <3>2, <3>3
  <2> HIDE DEF new
  <2>4. \A x \in Ids : /\ events[x] # NoRow <=> events'[x] # NoRow
                       /\ \A f \in Fields : events'[x][f] = events[x][f]
    BY <1>4, <2>2, <2>3
  <2> QED BY <1>2, <1>4, <2>1, <2>4, TrailStays
<1> QED BY <1>3, <1>4

\* A booking.
LEMMA TrailSell ==
  ASSUME RowsInv, RowsInv', TrailInv, LogClock', NEW b \in Books, Sell(b)
  PROVE  TrailInv'
<1> DEFINE e == EventOf[b]
           nb == [by |-> b, event |-> e, user |-> User(b, "bookSpotForEvent").user,
                  at |-> begin[b], status |-> "confirmed"]
<1>1. /\ UNCHANGED <<view, tx, begin>> /\ pc' = [pc EXCEPT ![b] = "Done"]
      /\ b \in Requests \ (Creates \cup Patches) /\ e \in Ids
  BY RequestAssumption DEF Sell, Answer, Goto, writing
<1>2. \/ UNCHANGED <<events, auditLog>>
      \/ /\ events[e] # NoRow /\ \E n : events' = [events EXCEPT ![e].booked = n]
         /\ bookings' = bookings \cup {nb}
         /\ auditLog' = Append(auditLog, BookingEntry(b, e, b))
  BY DEF Sell, tables
<1>3. bookings' = bookings \cup {nb} => events'[e] # NoRow
  <2>1. nb.event = e
    OBVIOUS
  <2> HIDE DEF nb
  <2> QED BY <2>1 DEF RowsInv, BookingsInv
<1> HIDE DEF e, nb
<1> QED BY <1>1, <1>2, <1>3, TrailSeats

\* A cancellation.
LEMMA TrailCancel ==
  ASSUME RowsInv, RowsInv', TrailInv, LogClock', NEW c \in Cancels, CancelBooking(c)
  PROVE  TrailInv'
<1>1. /\ UNCHANGED <<view, tx, begin>> /\ pc' = [pc EXCEPT ![c] = "Done"]
      /\ c \in Requests \ (Creates \cup Patches)
  BY RequestAssumption DEF CancelBooking, Answer, Goto, writing
<1>2. \/ UNCHANGED <<events, auditLog>>
      \/ \E b \in bookings :
            /\ events' = [events EXCEPT ![b.event].booked = @ - 1]
            /\ [b EXCEPT !.status = "cancelled"] \in bookings'
            /\ auditLog' = Append(auditLog, BookingEntry(c, b.event, b.by))
  BY DEF CancelBooking, tables
<1>3. ASSUME NEW b \in bookings, [b EXCEPT !.status = "cancelled"] \in bookings'
      PROVE  b.event \in Ids /\ events[b.event] # NoRow /\ events'[b.event] # NoRow
  <2>1. b \in Booking
    BY DEF RowsInv, TypeOK
  <2>2. b.event \in Ids /\ [b EXCEPT !.status = "cancelled"].event = b.event
    BY <2>1 DEF Booking
  <2> QED BY <1>3, <2>2 DEF RowsInv, BookingsInv
<1>4. ASSUME NEW b \in bookings, [b EXCEPT !.status = "cancelled"] \in bookings',
             events' = [events EXCEPT ![b.event].booked = @ - 1],
             auditLog' = Append(auditLog, BookingEntry(c, b.event, b.by))
      PROVE  TrailInv'
  <2>1. \E n : events' = [events EXCEPT ![b.event].booked = n]
    BY <1>4
  <2> QED BY <1>1, <1>3, <1>4, <2>1, TrailSeats
<1>5. CASE UNCHANGED <<events, auditLog>>
  BY <1>1, <1>5, TrailSeats
<1> QED BY <1>2, <1>4, <1>5

\* Every step keeps the clock of the log.
LEMMA ClockStep == ASSUME RowsInv, TrailInv, [Next]_vars PROVE LogClock'
<1>0. TypeOK /\ LogClock /\ begin \in [Writers -> Stamps]
  BY DEF RowsInv, TrailInv, TypeOK
<1>1. ASSUME Ticked, begin' = begin PROVE LogClock'
  BY <1>0, <1>1, ClockTicks
<1>2. ASSUME NEW q \in Writers, Begin(q) PROVE LogClock'
  <2>1. Ticked /\ (begin' = begin \/ begin' = [begin EXCEPT ![q] = now])
    BY <1>2 DEF Begin, Ticked, tables
  <2>2. \A x \in Writers : begin'[x] \in {begin[x], now}
    BY <1>0, <2>1
  <2> QED BY <1>0, <2>1, <2>2, ClockTicks
<1>3. ASSUME NEW q \in Writers,
             InsertEvent(q) \/ ReadEvent(q) \/ WriteEvent(q) \/ Commit(q) \/ WriteFault(q)
             \/ Sell(q) \/ CancelBooking(q)
      PROVE  Ticked /\ begin' = begin
  BY <1>3 DEF InsertEvent, ReadEvent, WriteEvent, Commit, WriteFault, RolledBack, Sell, CancelBooking,
     tables, writing, Ticked
<1>4. ASSUME NEW r \in Readers, Open(r) \/ ListQuery(r) \/ CountQuery(r) \/ Respond(r)
      PROVE  Ticked /\ begin' = begin
  BY <1>4 DEF Open, ListQuery, CountQuery, Respond, tables, writing, Ticked
<1>5. ASSUME NEW g \in Getters, Get(g) PROVE Ticked /\ begin' = begin
  BY <1>5 DEF Get, tables, writing, Ticked
<1>6. CASE UNCHANGED vars \/ Finished
  BY <1>1, <1>6 DEF Finished, vars, tables, writing, Ticked
<1> QED BY <1>1, <1>2, <1>3, <1>4, <1>5, <1>6 DEF Next, Writers

\* Every step keeps the trail.
LEMMA TrailStep == ASSUME RowsInv, RowsInv', TrailInv, [Next]_vars PROVE TrailInv'
<1>0. LogClock'
  BY ClockStep
<1>1. ASSUME UNCHANGED <<events, auditLog, view, tx>>,
             \A q \in Creates \cup Patches : pc'[q] \in {"WriteEvent", "Commit"} =>
                                                pc'[q] = pc[q] /\ begin'[q] = begin[q]
      PROVE  TrailInv'
  BY <1>0, <1>1, TrailStays
<1>2. ASSUME NEW q \in Requests, NEW label, pc' = [pc EXCEPT ![q] = label],
             label \notin {"WriteEvent", "Commit"},
             \A x \in (Creates \cup Patches) \ {q} : begin'[x] = begin[x]
      PROVE  \A x \in Creates \cup Patches : pc'[x] \in {"WriteEvent", "Commit"} =>
                                                pc'[x] = pc[x] /\ begin'[x] = begin[x]
  BY <1>2 DEF RowsInv, TypeOK
<1>3. CASE UNCHANGED vars \/ Finished
  BY <1>1, <1>3 DEF Finished, vars, tables, writing
<1>4. ASSUME NEW q \in Writers, Begin(q) PROVE TrailInv'
  <2>1. /\ UNCHANGED <<events, auditLog, view, tx>>
        /\ \E label : pc' = [pc EXCEPT ![q] = label] /\ label \notin {"WriteEvent", "Commit"}
    BY <1>4 DEF Begin, tables, Goto, Answer, FirstStep
  <2>2. q \in Requests /\ \A x \in (Creates \cup Patches) \ {q} : begin'[x] = begin[x]
    BY <1>4 DEF Begin, RowsInv, TypeOK, Writers, Requests
  <2> QED BY <1>1, <1>2, <2>1, <2>2
<1>5. ASSUME NEW q \in Creates \cup Patches, WriteFault(q) PROVE TrailInv'
  <2>1. /\ events' = events /\ auditLog' = auditLog /\ view' = view /\ begin' = begin
        /\ tx' = [tx EXCEPT ![q] = NoTx] /\ pc' = [pc EXCEPT ![q] = "Done"]
    BY <1>5 DEF WriteFault, RolledBack, tables, Goto, Answer
  <2>2. /\ pc'[q] = "Done"
        /\ \A x \in (Creates \cup Patches) \ {q} : pc'[x] = pc[x] /\ tx'[x] = tx[x]
    BY <2>1 DEF RowsInv, TypeOK, TxInv
  <2> QED BY <1>0, <2>1, <2>2, TrailOfOne
<1>6. ASSUME NEW r \in Readers, Open(r) \/ ListQuery(r) \/ CountQuery(r) \/ Respond(r)
      PROVE  TrailInv'
  <2>1. /\ UNCHANGED <<events, auditLog, view, tx, begin>>
        /\ pc' = pc \/ \E label : pc' = [pc EXCEPT ![r] = label] /\ label \notin {"WriteEvent", "Commit"}
    BY <1>6 DEF Open, ListQuery, CountQuery, Respond, tables, writing, Goto, Answer
  <2> QED BY <1>1, <1>2, <2>1
<1>7. ASSUME NEW g \in Getters, Get(g) PROVE TrailInv'
  <2>1. /\ UNCHANGED <<events, auditLog, view, tx, begin>>
        /\ \E a : Answer(g, a)
    BY <1>7 DEF Get, GetRefused, GetMissing, GetHidden, GetShown, tables, writing
  <2>2. pc' = [pc EXCEPT ![g] = "Done"]
    BY <2>1 DEF Answer, Goto
  <2> QED BY <1>1, <1>2, <2>1, <2>2
<1> QED BY <1>0, <1>3, <1>4, <1>5, <1>6, <1>7, TrailInsert, TrailRead, TrailWrite, TrailCommit, TrailSell,
           TrailCancel DEF Next

\* The trail gives the events, and what a transaction under way may write back.
LEMMA AlwaysTrailInv == Spec => [](RowsInv /\ TrailInv)
<1>1. Init => RowsInv /\ TrailInv
  <2> SUFFICES ASSUME Init PROVE TrailInv
    BY RowsInit
  <2>1. /\ events = InitEvents /\ auditLog = InitLog
        /\ \A q \in Requests : pc[q] \notin {"WriteEvent", "Commit"}
    BY DEF Init
  <2>2. ASSUME NEW e \in Ids, events[e] # NoRow, NEW f \in Fields
        PROVE  Explained(auditLog, e, f, events[e][f])
    <3>1. LastInTrail(auditLog, e, f, events[e][f])
      BY <2>1, <2>2, TrailAssumption
    <3> QED BY <3>1 DEF LastInTrail, IsLast, InTrail, Explained
  <2>3. LogClock
    <3>1. InitNow \in Nat /\ Len(InitLog) \in Nat
      BY StartAssumption, LenProperties
    <3>2. now = InitNow /\ auditLog = InitLog /\ \A q \in Writers : begin[q] = 0
      BY DEF Init
    <3> QED BY <3>1, <3>2 DEF LogClock, CommitTime
  <2> QED BY <2>1, <2>2, <2>3 DEF TrailInv, TrailExplainsEvents
<1>2. RowsInv /\ TrailInv /\ [Next]_vars => (RowsInv /\ TrailInv)'
  BY RowsStep, TrailStep
<1> QED BY <1>1, <1>2, PTL DEF Spec

\* The trail explains the events (updateEvent, updateWithClient): every field has the value
\* that its entries, replayed in the order of their COMMITs, gave last, but where a PATCH
\* undid a change that was committed after it had begun.
THEOREM TrailAlwaysExplains == Spec => []TrailExplainsEvents
<1>1. TrailInv => TrailExplainsEvents
  BY DEF TrailInv
<1> QED BY <1>1, AlwaysTrailInv, PTL

-----------------------------------------------------------------------------
(* The filters of the audit log *)

\* A row meets a conjunct of a WHERE clause, and all of a list of them.
Meets(c, row) ==
    /\ row[c.column] # None
    /\ CASE c.op = "="  -> row[c.column] = c.value
         [] c.op = ">=" -> row[c.column] >= c.value
         [] c.op = "<=" -> row[c.column] <= c.value
MeetsAll(conjuncts, row) == \A i \in DOMAIN conjuncts : Meets(conjuncts[i], row)

\* To meet a list of conjuncts is to meet its parts.
LEMMA MeetsConcat ==
  ASSUME NEW S, NEW s \in Seq(S), NEW t \in Seq(S), NEW row
  PROVE  /\ s \o t \in Seq(S)
         /\ MeetsAll(s \o t, row) <=> MeetsAll(s, row) /\ MeetsAll(t, row)
<1> DEFINE st == s \o t
<1>1. /\ st \in Seq(S) /\ Len(s) \in Nat /\ Len(t) \in Nat /\ Len(st) = Len(s) + Len(t)
      /\ \A i \in 1 .. Len(s) + Len(t) : st[i] = IF i <= Len(s) THEN s[i] ELSE t[i - Len(s)]
      /\ DOMAIN s = 1 .. Len(s) /\ DOMAIN t = 1 .. Len(t) /\ DOMAIN st = 1 .. Len(s) + Len(t)
  OBVIOUS
<1> HIDE DEF st
<1>2. \A i \in DOMAIN s : i \in DOMAIN st /\ st[i] = s[i]
  BY <1>1
<1>3. \A i \in DOMAIN t : i + Len(s) \in DOMAIN st /\ st[i + Len(s)] = t[i]
  BY <1>1
<1>4. ASSUME NEW i \in DOMAIN st
      PROVE  (i \in DOMAIN s /\ st[i] = s[i]) \/ (i - Len(s) \in DOMAIN t /\ st[i] = t[i - Len(s)])
  BY <1>1, <1>4
<1>5. MeetsAll(st, row) <=> MeetsAll(s, row) /\ MeetsAll(t, row)
  BY <1>2, <1>3, <1>4 DEF MeetsAll
<1> QED BY <1>1, <1>5 DEF st

\* An absent filter adds no conjunct.
LEMMA MeetsOne ==
  ASSUME NEW column, NEW op, NEW value, NEW S, [column |-> column, op |-> op, value |-> value] \in S,
         NEW row
  PROVE  /\ Conjunct(column, op, value) \in Seq(S)
         /\ MeetsAll(Conjunct(column, op, value), row) <=>
               (Given(value) => Meets([column |-> column, op |-> op, value |-> value], row))
<1>1. CASE Given(value)
  BY <1>1 DEF Conjunct, MeetsAll
<1>2. CASE ~Given(value)
  BY <1>2 DEF Conjunct, MeetsAll
<1> QED BY <1>1, <1>2

\* What the filters ask of an entry of a log.
Asked(log, f, row) ==
    /\ Given(f.event) => row.event = f.event
    /\ log = "booking" /\ Given(f.booking) => row.booking = f.booking
    /\ Given(f.outcome) => row.outcome = f.outcome
    /\ Given(f.from) => row.at >= f.from
    /\ Given(f.to) => row.at <= f.to

\* An entry has a value in every column, but perhaps no booking.
LEMMA EntryColumns ==
  ASSUME NEW row, EntryOK(row)
  PROVE  row["event"] # None /\ row["outcome"] # None /\ row["at"] # None
<1>1. row.event \in Int /\ row.at \in Int
  BY Finite DEF EntryOK, Stamps
<1> QED BY <1>1, RequestAssumption DEF EntryOK

\* The conjuncts of buildWhereClause ask just that.
LEMMA ConjunctsAsk ==
  ASSUME NEW log \in Logs, NEW f, NEW row, EntryOK(row)
  PROVE  MeetsAll(Conjuncts(log, f), row) <=> Asked(log, f, row)
<1> DEFINE S == {[column |-> "event", op |-> "=", value |-> f.event],
                 [column |-> "booking", op |-> "=", value |-> f.booking],
                 [column |-> "outcome", op |-> "=", value |-> f.outcome],
                 [column |-> "at", op |-> ">=", value |-> f.from],
                 [column |-> "at", op |-> "<=", value |-> f.to]}
           e == Conjunct("event", "=", f.event)
           b == BookingConjunct(log, f)
           o == Conjunct("outcome", "=", f.outcome)
           x == Conjunct("at", ">=", f.from)
           y == Conjunct("at", "<=", f.to)
<1>1. e \in Seq(S) /\ (MeetsAll(e, row) <=> (Given(f.event) => row.event = f.event))
  <2> DEFINE c == [column |-> "event", op |-> "=", value |-> f.event]
  <2>1. c \in S
    OBVIOUS
  <2>2. e \in Seq(S) /\ (MeetsAll(e, row) <=> (Given(f.event) => Meets(c, row)))
    <3> HIDE DEF S
    <3> QED BY <2>1, MeetsOne
  <2>3. Meets(c, row) <=> row.event = f.event
    BY EntryColumns DEF Meets
  <2> QED BY <2>2, <2>3
<1>2. b \in Seq(S) /\ (MeetsAll(b, row) <=>
                         (log = "booking" /\ Given(f.booking) => row.booking = f.booking))
  <2>1. CASE log = "booking"
    <3> DEFINE c == [column |-> "booking", op |-> "=", value |-> f.booking]
    <3>1. c \in S /\ b = Conjunct("booking", "=", f.booking)
      BY <2>1 DEF BookingConjunct
    <3>2. b \in Seq(S) /\ (MeetsAll(b, row) <=> (Given(f.booking) => Meets(c, row)))
      <4> HIDE DEF S, b
      <4> QED BY <3>1, MeetsOne
    <3>3. Given(f.booking) => (Meets(c, row) <=> row.booking = f.booking)
      BY DEF Meets, Given
    <3> QED BY <2>1, <3>2, <3>3
  <2>2. CASE log # "booking"
    BY <2>2 DEF BookingConjunct, MeetsAll
  <2> QED BY <2>1, <2>2
<1>3. o \in Seq(S) /\ (MeetsAll(o, row) <=> (Given(f.outcome) => row.outcome = f.outcome))
  <2> DEFINE c == [column |-> "outcome", op |-> "=", value |-> f.outcome]
  <2>1. c \in S
    OBVIOUS
  <2>2. o \in Seq(S) /\ (MeetsAll(o, row) <=> (Given(f.outcome) => Meets(c, row)))
    <3> HIDE DEF S
    <3> QED BY <2>1, MeetsOne
  <2>3. Meets(c, row) <=> row.outcome = f.outcome
    BY EntryColumns DEF Meets
  <2> QED BY <2>2, <2>3
<1>4. x \in Seq(S) /\ (MeetsAll(x, row) <=> (Given(f.from) => row.at >= f.from))
  <2> DEFINE c == [column |-> "at", op |-> ">=", value |-> f.from]
  <2>1. c \in S
    OBVIOUS
  <2>2. x \in Seq(S) /\ (MeetsAll(x, row) <=> (Given(f.from) => Meets(c, row)))
    <3> HIDE DEF S
    <3> QED BY <2>1, MeetsOne
  <2>3. Meets(c, row) <=> row.at >= f.from
    BY EntryColumns DEF Meets
  <2> QED BY <2>2, <2>3
<1>5. y \in Seq(S) /\ (MeetsAll(y, row) <=> (Given(f.to) => row.at <= f.to))
  <2> DEFINE c == [column |-> "at", op |-> "<=", value |-> f.to]
  <2>1. c \in S
    OBVIOUS
  <2>2. y \in Seq(S) /\ (MeetsAll(y, row) <=> (Given(f.to) => Meets(c, row)))
    <3> HIDE DEF S
    <3> QED BY <2>1, MeetsOne
  <2>3. Meets(c, row) <=> row.at <= f.to
    BY EntryColumns DEF Meets
  <2> QED BY <2>2, <2>3
<1>6. Conjuncts(log, f) = (((e \o b) \o o) \o x) \o y
  BY DEF Conjuncts
<1> DEFINE eb == e \o b
           ebo == eb \o o
           ebox == ebo \o x
<1> HIDE DEF S, e, b, o, x, y
<1>7. eb \in Seq(S) /\ (MeetsAll(eb, row) <=> MeetsAll(e, row) /\ MeetsAll(b, row))
  BY <1>1, <1>2, MeetsConcat
<1> HIDE DEF eb
<1>8. ebo \in Seq(S) /\ (MeetsAll(ebo, row) <=> MeetsAll(eb, row) /\ MeetsAll(o, row))
  BY <1>7, <1>3, MeetsConcat
<1> HIDE DEF ebo
<1>9. ebox \in Seq(S) /\ (MeetsAll(ebox, row) <=> MeetsAll(ebo, row) /\ MeetsAll(x, row))
  BY <1>8, <1>4, MeetsConcat
<1>10. Conjuncts(log, f) = ebox \o y
  BY <1>6 DEF ebox, ebo, eb
<1> HIDE DEF ebox
<1>11. /\ Conjuncts(log, f) \in Seq(S)
       /\ MeetsAll(Conjuncts(log, f), row) <=> MeetsAll(ebox, row) /\ MeetsAll(y, row)
  BY <1>9, <1>10, <1>5, MeetsConcat
<1>12. MeetsAll(Conjuncts(log, f), row) <=> Asked(log, f, row)
  BY <1>1, <1>2, <1>3, <1>4, <1>5, <1>7, <1>8, <1>9, <1>11 DEF Asked
<1> QED BY <1>11, <1>12

\* The rows that numbered conditions select, when the parameters are where they say.
LEMMA WhereHolds ==
  ASSUME NEW log \in Logs, NEW f, NEW rows, \A row \in rows : EntryOK(row),
         NEW n \in Nat, NEW conditions, NEW params,
         DOMAIN conditions = DOMAIN Conjuncts(log, f),
         \A i \in DOMAIN Conjuncts(log, f) :
            /\ conditions[i].column = Conjuncts(log, f)[i].column
            /\ conditions[i].op = Conjuncts(log, f)[i].op
            /\ conditions[i].param = i + n
            /\ params[i + n] = Conjuncts(log, f)[i].value
  PROVE  Select(rows, log, conditions, params)
            = {row \in rows : row.log = log /\ Asked(log, f, row)}
<1> DEFINE c == Conjuncts(log, f)
<1>1. \A i \in DOMAIN c : \A row : Holds(conditions[i], params, row) <=> Meets(c[i], row)
  BY DEF Holds, Meets
<1> HIDE DEF c
<1>2. \A row : (\A i \in DOMAIN conditions : Holds(conditions[i], params, row)) <=> MeetsAll(c, row)
  BY <1>1 DEF MeetsAll, c
<1>3. \A row \in rows : MeetsAll(c, row) <=> Asked(log, f, row)
  BY ConjunctsAsk DEF c
<1> QED BY <1>2, <1>3 DEF Select

\* The conjuncts are a sequence.
LEMMA ConjunctsSeq ==
  ASSUME NEW log, NEW f
  PROVE  \E S : Conjuncts(log, f) \in Seq(S)
<1> DEFINE S == {[column |-> "event", op |-> "=", value |-> f.event],
                 [column |-> "booking", op |-> "=", value |-> f.booking],
                 [column |-> "outcome", op |-> "=", value |-> f.outcome],
                 [column |-> "at", op |-> ">=", value |-> f.from],
                 [column |-> "at", op |-> "<=", value |-> f.to]}
           e == Conjunct("event", "=", f.event)
           b == BookingConjunct(log, f)
           o == Conjunct("outcome", "=", f.outcome)
           x == Conjunct("at", ">=", f.from)
           y == Conjunct("at", "<=", f.to)
<1>1. e \in Seq(S) /\ b \in Seq(S) /\ o \in Seq(S) /\ x \in Seq(S) /\ y \in Seq(S)
  <2>1. /\ [column |-> "event", op |-> "=", value |-> f.event] \in S
        /\ [column |-> "booking", op |-> "=", value |-> f.booking] \in S
        /\ [column |-> "outcome", op |-> "=", value |-> f.outcome] \in S
        /\ [column |-> "at", op |-> ">=", value |-> f.from] \in S
        /\ [column |-> "at", op |-> "<=", value |-> f.to] \in S
    OBVIOUS
  <2> HIDE DEF S
  <2>2. e \in Seq(S) /\ o \in Seq(S) /\ x \in Seq(S) /\ y \in Seq(S)
    BY <2>1, MeetsOne
  <2>3. Conjunct("booking", "=", f.booking) \in Seq(S)
    BY <2>1, MeetsOne
  <2>4. <<>> \in Seq(S)
    OBVIOUS
  <2> QED BY <2>2, <2>3, <2>4 DEF BookingConjunct, b
<1> HIDE DEF S, e, b, o, x, y
<1>2. (((e \o b) \o o) \o x) \o y \in Seq(S)
  <2>1. e \o b \in Seq(S)
    BY <1>1, ConcatProperties
  <2>2. (e \o b) \o o \in Seq(S)
    BY <1>1, <2>1, ConcatProperties
  <2>3. ((e \o b) \o o) \o x \in Seq(S)
    BY <1>1, <2>2, ConcatProperties
  <2> QED BY <1>1, <2>3, ConcatProperties
<1>3. Conjuncts(log, f) = (((e \o b) \o o) \o x) \o y
  BY DEF Conjuncts, e, b, o, x, y
<1> QED BY <1>2, <1>3

\* One log alone: the parameters are numbered from $1.
LEMMA OneLog ==
  ASSUME NEW log \in Logs, NEW f, NEW rows, \A row \in rows : EntryOK(row)
  PROVE  SelectOne(rows, log, f) = {row \in rows : row.log = log /\ Asked(log, f, row)}
<1> DEFINE w == BuildWhereClause(log, f)
           c == Conjuncts(log, f)
<1>1. PICK S : c \in Seq(S)
  BY ConjunctsSeq
<1>2. \A i \in DOMAIN c : i + 0 = i
  BY <1>1
<1> HIDE DEF c
<1>3. /\ DOMAIN w.conditions = DOMAIN c
      /\ \A i \in DOMAIN c : /\ w.conditions[i].column = c[i].column
                             /\ w.conditions[i].op = c[i].op
                             /\ w.conditions[i].param = i
                             /\ w.params[i] = c[i].value
  BY DEF BuildWhereClause, c
<1> HIDE DEF w
<1>4. Select(rows, log, w.conditions, w.params) = {row \in rows : row.log = log /\ Asked(log, f, row)}
  <2>1. 0 \in Nat
    OBVIOUS
  <2> QED BY <1>2, <1>3, <2>1, WhereHolds DEF c
<1> QED BY <1>4 DEF SelectOne, w

\* Both logs: the parameters of the second are found after those of the first.
LEMMA BothLogs ==
  ASSUME NEW f, NEW rows, \A row \in rows : EntryOK(row)
  PROVE  LET e == BuildWhereClause("event", f)
             b == BuildWhereClause("booking", f)
             params == e.params \o b.params IN
         /\ Select(rows, "event", e.conditions, params)
               = {row \in rows : row.log = "event" /\ Asked("event", f, row)}
         /\ Select(rows, "booking", Shifted(b.conditions, Len(e.params)), params)
               = {row \in rows : row.log = "booking" /\ Asked("booking", f, row)}
<1> DEFINE e == BuildWhereClause("event", f)
           b == BuildWhereClause("booking", f)
           ce == Conjuncts("event", f)
           cb == Conjuncts("booking", f)
           shifted == Shifted(b.conditions, Len(e.params))
           params == e.params \o b.params
<1>1. PICK S : ce \in Seq(S)
  BY ConjunctsSeq
<1>2. PICK T : cb \in Seq(T)
  BY ConjunctsSeq
<1>3. /\ DOMAIN e.conditions = DOMAIN ce
      /\ e.params = [i \in DOMAIN ce |-> ce[i].value]
      /\ b.params = [i \in DOMAIN cb |-> cb[i].value]
      /\ \A i \in DOMAIN ce : /\ e.conditions[i].column = ce[i].column
                              /\ e.conditions[i].op = ce[i].op
                              /\ e.conditions[i].param = i
      /\ DOMAIN shifted = DOMAIN cb
      /\ \A i \in DOMAIN cb : /\ shifted[i].column = cb[i].column
                              /\ shifted[i].op = cb[i].op
                              /\ shifted[i].param = i + Len(e.params)
  BY DEF BuildWhereClause, Shifted
<1> DEFINE V == {ce[i].value : i \in DOMAIN ce} \cup {cb[i].value : i \in DOMAIN cb}
<1> HIDE DEF ce, cb, e, b, shifted
<1>4. /\ e.params \in Seq(V) /\ Len(e.params) = Len(ce)
      /\ b.params \in Seq(V) /\ Len(b.params) = Len(cb)
      /\ DOMAIN ce = 1 .. Len(ce) /\ DOMAIN cb = 1 .. Len(cb) /\ Len(ce) \in Nat /\ Len(cb) \in Nat
  BY <1>1, <1>2, <1>3
<1> HIDE DEF V
<1>5. \A i \in 1 .. Len(ce) + Len(cb) :
         params[i] = IF i <= Len(ce) THEN e.params[i] ELSE b.params[i - Len(ce)]
  <2> DEFINE p == e.params
             q == b.params
  <2>1. p \in Seq(V) /\ q \in Seq(V) /\ params = p \o q
    BY <1>4
  <2> HIDE DEF p, q, params
  <2>2. \A i \in 1 .. Len(p) + Len(q) : params[i] = IF i <= Len(p) THEN p[i] ELSE q[i - Len(p)]
    BY <2>1, ConcatProperties
  <2> QED BY <1>4, <2>2 DEF p, q
<1> HIDE DEF params
<1>6. \A i \in DOMAIN ce : params[i] = ce[i].value /\ i + 0 = i
  BY <1>3, <1>4, <1>5
<1>7. \A i \in DOMAIN cb : params[i + Len(e.params)] = cb[i].value
  <2> SUFFICES ASSUME NEW i \in DOMAIN cb PROVE params[i + Len(ce)] = cb[i].value
    BY <1>4
  <2>1. /\ i + Len(ce) \in 1 .. Len(ce) + Len(cb) /\ ~(i + Len(ce) <= Len(ce))
        /\ i + Len(ce) - Len(ce) = i
    BY <1>4
  <2>2. params[i + Len(ce)] = b.params[i]
    BY <1>5, <2>1
  <2> QED BY <1>3, <2>2
<1>8. Select(rows, "event", e.conditions, params)
         = {row \in rows : row.log = "event" /\ Asked("event", f, row)}
  <2>1. "event" \in Logs /\ 0 \in Nat
    BY DEF Logs
  <2> QED BY <1>3, <1>6, <2>1, WhereHolds DEF ce
<1>9. Select(rows, "booking", shifted, params)
         = {row \in rows : row.log = "booking" /\ Asked("booking", f, row)}
  <2>1. "booking" \in Logs /\ Len(e.params) \in Nat
    BY <1>4 DEF Logs
  <2> QED BY <1>3, <1>7, <2>1, WhereHolds DEF cb
<1> QED BY <1>8, <1>9 DEF e, b, shifted, params

\* What the rows of the merged log are, whatever the filters.
LEMMA MergedLog ==
  ASSUME NEW f, NEW rows, \A row \in rows : EntryOK(row)
  PROVE  /\ EventAudit(rows, f) = {row \in rows : row.log = "event" /\ Asked("event", f, row)}
         /\ BookingAudit(rows, f) = {row \in rows : row.log = "booking" /\ Asked("booking", f, row)}
         /\ Combined(rows, f) = IF EventLogOnly(f) THEN EventAudit(rows, f)
                                ELSE IF BookingLogOnly(f) THEN BookingAudit(rows, f)
                                ELSE EventAudit(rows, f) \cup BookingAudit(rows, f)
         /\ IsFiniteSet(rows) => CombinedCount(rows, f) = Cardinality(Combined(rows, f))
<1>1. EventAudit(rows, f) = {row \in rows : row.log = "event" /\ Asked("event", f, row)}
  BY DEF EventAudit, Asked
<1>2. BookingAudit(rows, f) = {row \in rows : row.log = "booking" /\ Asked("booking", f, row)}
  BY DEF BookingAudit, Asked
<1>3. "event" \in Logs /\ "booking" \in Logs
  BY DEF Logs
<1>4. /\ SelectOne(rows, "event", f) = EventAudit(rows, f)
      /\ SelectOne(rows, "booking", f) = BookingAudit(rows, f)
  BY <1>1, <1>2, <1>3, OneLog
<1>5. /\ Combined(rows, f) = IF EventLogOnly(f) THEN EventAudit(rows, f)
                             ELSE IF BookingLogOnly(f) THEN BookingAudit(rows, f)
                             ELSE EventAudit(rows, f) \cup BookingAudit(rows, f)
      /\ CombinedCount(rows, f) = IF EventLogOnly(f) THEN Cardinality(EventAudit(rows, f))
                                  ELSE IF BookingLogOnly(f) THEN Cardinality(BookingAudit(rows, f))
                                  ELSE Cardinality(EventAudit(rows, f))
                                       + Cardinality(BookingAudit(rows, f))
  BY <1>1, <1>2, <1>4, BothLogs DEF Combined, CombinedCount, SelectBoth
<1>6. ASSUME IsFiniteSet(rows)
      PROVE  Cardinality(EventAudit(rows, f) \cup BookingAudit(rows, f))
                = Cardinality(EventAudit(rows, f)) + Cardinality(BookingAudit(rows, f))
  <2> DEFINE E == EventAudit(rows, f)
             B == BookingAudit(rows, f)
  <2>1. E \subseteq rows /\ B \subseteq rows /\ E \cap B = {}
    BY <1>1, <1>2
  <2> HIDE DEF E, B
  <2>2. IsFiniteSet(E) /\ IsFiniteSet(B)
    BY <1>6, <2>1, FS_Subset
  <2>3. Cardinality(E \cup B) = Cardinality(E) + Cardinality(B)
    <3>1. Cardinality(E \cup B) = Cardinality(E) + Cardinality(B) - Cardinality(E \cap B)
      BY <2>2, FS_Union
    <3>2. Cardinality(E \cap B) = 0
      BY <2>1, FS_EmptySet
    <3>3. Cardinality(E) \in Nat /\ Cardinality(B) \in Nat
      BY <2>2, FS_CardinalityType
    <3> QED BY <3>1, <3>2, <3>3
  <2> QED BY <2>3 DEF E, B
<1> QED BY <1>1, <1>2, <1>5, <1>6

\* The log is a finite set of entries.
LEMMA LogFinite ==
  ASSUME TypeOK
  PROVE  IsFiniteSet(ToSet(auditLog)) /\ \A row \in ToSet(auditLog) : EntryOK(row)
<1>1. auditLog \in Seq(ToSet(auditLog)) /\ \A i \in DOMAIN auditLog : EntryOK(auditLog[i])
  BY DEF TypeOK
<1>2. auditLog \in Surjection(DOMAIN auditLog, ToSet(auditLog))
  BY <1>1 DEF ToSet, Surjection
<1>3. DOMAIN auditLog = 1 .. Len(auditLog) /\ Len(auditLog) \in Nat
  BY <1>1, LenProperties
<1>4. IsFiniteSet(DOMAIN auditLog)
  BY <1>3, FS_Interval
<1>5. \A row \in ToSet(auditLog) : EntryOK(row)
  BY <1>1 DEF ToSet
<1> QED BY <1>2, <1>4, <1>5, FS_Surjection

\* Whatever the filters and the logs, listAuditLog shows the rows that they ask for, and
\* counts them: the numbering of the parameters of its UNION ALL never mixes them up.
THEOREM FiltersAlwaysAgree == Spec => []FiltersAgree
<1>1. RowsInv => FiltersAgree
  <2> SUFFICES ASSUME RowsInv, NEW f \in Filters
               PROVE  LET rows == ToSet(auditLog) IN
                      /\ CombinedCount(rows, f) = Cardinality(Combined(rows, f))
                      /\ IF f.type = "event" /\ Given(f.booking)
                         THEN Combined(rows, f) = EventAudit(rows, f)
                         ELSE Combined(rows, f) = Wanted(rows, f)
    BY DEF FiltersAgree
  <2> DEFINE rows == ToSet(auditLog)
  <2>1. IsFiniteSet(rows) /\ \A row \in rows : EntryOK(row)
    BY LogFinite DEF RowsInv
  <2> HIDE DEF rows
  <2>2. \A row \in rows : row.log = "event" /\ Given(f.booking) => row.booking # f.booking
    BY <2>1 DEF EntryOK, Given
  <2>3. CombinedCount(rows, f) = Cardinality(Combined(rows, f))
    BY <2>1, MergedLog
  <2>4. CASE f.type = "event"
    <3>1. Combined(rows, f) = EventAudit(rows, f)
      BY <2>1, <2>4, MergedLog DEF EventLogOnly
    <3>2. ~Given(f.booking) => Wanted(rows, f) = EventAudit(rows, f)
      BY <2>4 DEF Wanted
    <3> QED BY <2>3, <2>4, <3>1, <3>2 DEF rows
  <2>5. CASE f.type = "booking"
    <3>1. Combined(rows, f) = BookingAudit(rows, f)
      BY <2>1, <2>5, MergedLog DEF EventLogOnly, BookingLogOnly
    <3>2. Wanted(rows, f) = BookingAudit(rows, f)
      BY <2>5 DEF Wanted, BookingAudit
    <3> QED BY <2>3, <2>5, <3>1, <3>2 DEF rows
  <2>6. CASE f.type \notin {"event", "booking"} /\ Given(f.booking)
    <3>1. Combined(rows, f) = BookingAudit(rows, f)
      BY <2>1, <2>6, MergedLog DEF EventLogOnly, BookingLogOnly
    <3>2. Wanted(rows, f) = BookingAudit(rows, f)
      BY <2>2, <2>6 DEF Wanted, EventAudit, BookingAudit
    <3> QED BY <2>3, <2>6, <3>1, <3>2 DEF rows
  <2>7. CASE f.type \notin {"event", "booking"} /\ ~Given(f.booking)
    <3>1. Combined(rows, f) = EventAudit(rows, f) \cup BookingAudit(rows, f)
      BY <2>1, <2>7, MergedLog DEF EventLogOnly, BookingLogOnly
    <3>2. Wanted(rows, f) = EventAudit(rows, f) \cup BookingAudit(rows, f)
      BY <2>7 DEF Wanted
    <3> QED BY <2>3, <2>7, <3>1, <3>2 DEF rows
  <2> QED BY <2>4, <2>5, <2>6, <2>7
<1> QED BY <1>1, AlwaysRowsInv, PTL

-----------------------------------------------------------------------------
(* Pages *)

\* What Math.max and Math.min of two numbers are.
LEMMA MaxIs ==
  ASSUME NEW a \in Int, NEW b \in Int
  PROVE  Max({a, b}) = IF a >= b THEN a ELSE b
<1>1. \E x \in {a, b} : \A y \in {a, b} : x >= y
  OBVIOUS
<1>2. Max({a, b}) \in {a, b} /\ \A y \in {a, b} : Max({a, b}) >= y
  BY <1>1 DEF Max
<1> QED BY <1>2
\* Of these, the first n rows need the smaller.
LEMMA MinIs ==
  ASSUME NEW a \in Int, NEW b \in Int
  PROVE  Min({a, b}) = IF a <= b THEN a ELSE b
<1>1. \E x \in {a, b} : \A y \in {a, b} : x <= y
  OBVIOUS
<1>2. Min({a, b}) \in {a, b} /\ \A y \in {a, b} : Min({a, b}) <= y
  BY <1>1 DEF Min
<1> QED BY <1>2

\* Offsets, and what has_next says: without a next page, this one reaches the total.
LEMMA Offsets ==
  ASSUME NEW n \in Nat \ {0}, NEW limit \in Nat
  PROVE  /\ Offset(n, limit) \in Nat /\ Offset(1, limit) = 0
         /\ Offset(n + 1, limit) = Offset(n, limit) + limit
         /\ Offset(n, limit) + limit = limit * n
BY DEF Offset

\* The page whose has_next is false reaches the end of the list.
LEMMA LastPage ==
  ASSUME NEW n \in Nat \ {0}, NEW limit \in Nat \ {0}, NEW total \in Nat, ~HasNext(n, total, limit)
  PROVE  total <= Offset(n, limit) + limit
<1> DEFINE q == (total + limit - 1) \div limit
<1>1. q \in Int /\ total <= limit * q
  OBVIOUS
<1> HIDE DEF q
<1>2. q <= n
  BY <1>1, MaxIs DEF HasNext, TotalPages, q
<1>3. limit * q <= limit * n
  BY <1>1, <1>2
<1>4. limit * q \in Int /\ limit * n \in Int
  BY <1>1
<1>5. total <= limit * n
  BY <1>1, <1>3, <1>4
<1> QED BY <1>5, Offsets

\* The rows before a row, and those that are not after it.
Prior(rows, before, x) == {y \in rows : <<y, x>> \in before}
NotAfter(rows, before, x) == {y \in rows : <<x, y>> \notin before}

\* A row whose equals are all among the first n rows, or none of them, is one of the first n
\* when fewer than n rows are before it.
LEMMA FirstsRank ==
  ASSUME NEW rows, IsFiniteSet(rows), NEW before,
         \A a \in rows : <<a, a>> \notin before,
         NEW n \in Nat, NEW A \in SUBSET rows,
         Cardinality(A) = Min({n, Cardinality(rows)}),
         \A a \in A, b \in rows \ A : <<b, a>> \notin before,
         NEW x \in rows,
         Cardinality(Prior(rows, before, x)) < n => Cardinality(NotAfter(rows, before, x)) <= n
  PROVE  x \in A <=> Cardinality(Prior(rows, before, x)) < n
<1> DEFINE P == Prior(rows, before, x)
           Q == NotAfter(rows, before, x)
<1>0. P = {y \in rows : <<y, x>> \in before} /\ Q = {y \in rows : <<x, y>> \notin before}
  BY DEF Prior, NotAfter
<1>1. /\ IsFiniteSet(P) /\ IsFiniteSet(A) /\ Cardinality(P) \in Nat /\ Cardinality(A) \in Nat
      /\ IsFiniteSet(Q) /\ Cardinality(Q) \in Nat /\ Cardinality(rows) \in Nat
  BY <1>0, FS_Subset, FS_CardinalityType
<1>2. Cardinality(A) = IF n <= Cardinality(rows) THEN n ELSE Cardinality(rows)
  BY <1>1, MinIs
<1>3. ASSUME x \in A PROVE Cardinality(P) < n
  <2>1. P \subseteq A \ {x}
    BY <1>0, <1>3
  <2> HIDE DEF P
  <2>2. IsFiniteSet(A \ {x}) /\ Cardinality(A \ {x}) = Cardinality(A) - 1
    BY <1>1, <1>3, FS_RemoveElement
  <2>3. Cardinality(P) <= Cardinality(A \ {x})
    BY <2>1, <2>2, FS_Subset
  <2> QED BY <1>1, <1>2, <2>2, <2>3
<1>4. ASSUME x \notin A PROVE ~(Cardinality(P) < n)
  <2>1. A \subseteq Q \ {x} /\ x \in Q
    BY <1>0, <1>4
  <2> HIDE DEF Q
  <2>2. IsFiniteSet(Q \ {x}) /\ Cardinality(Q \ {x}) = Cardinality(Q) - 1
    BY <1>1, <2>1, FS_RemoveElement
  <2>3. Cardinality(A) <= Cardinality(Q \ {x})
    BY <2>1, <2>2, FS_Subset
  <2>4. Cardinality(A) < Cardinality(rows)
    <3>1. IsFiniteSet(rows \ {x}) /\ Cardinality(rows \ {x}) = Cardinality(rows) - 1
      BY FS_RemoveElement
    <3>2. Cardinality(A) <= Cardinality(rows \ {x})
      BY <1>4, <3>1, FS_Subset
    <3> QED BY <1>1, <3>1, <3>2
  <2>5. Cardinality(A) = n
    BY <1>1, <1>2, <2>4
  <2>6. Cardinality(P) < n => Cardinality(Q) <= n
    BY DEF Q
  <2> HIDE DEF P
  <2> QED BY <1>1, <2>2, <2>3, <2>5, <2>6
<1> QED BY <1>3, <1>4

\* The rows of a list have what they are ordered by.
LEMMA RowsFact ==
  ASSUME RowsInv, NEW r \in Readers
  PROVE  /\ IsFiniteSet(Rows(r)) /\ \A x \in Rows(r) : x.at \in Int
         /\ RouteOf[r] = "listEvents" =>
               /\ \A x \in Rows(r) : SortKey(r, x) \in Int /\ x.id \in Int
               /\ \A x, y \in Rows(r) : x.id = y.id => x = y
         /\ CountRows(r) = Cardinality(Rows(r))
<1>0. /\ TypeOK /\ IsFiniteSet(bookings) /\ bookings \subseteq Booking
      /\ IsFiniteSet(ToSet(auditLog)) /\ \A row \in ToSet(auditLog) : EntryOK(row)
  BY LogFinite DEF RowsInv, BookingsInv, TypeOK
<1>1. \A x \in Stamps : x \in Int
  BY Finite DEF Stamps
<1>2. CASE RouteOf[r] = "listEvents"
  <2> DEFINE E == {events[e] : e \in {e \in Ids : events[e] # NoRow}}
  <2>1. Rows(r) \subseteq E
    BY <1>2 DEF Rows, ListedEvents
  <2>2. /\ E \subseteq Row /\ \A x, y \in E : x.id = y.id => x = y
        /\ \A x \in E : x.id \in Ids
    BY <1>0 DEF TypeOK
  <2>3. IsFiniteSet(E)
    <3> DEFINE taken == {e \in Ids : events[e] # NoRow}
               f == [e \in taken |-> events[e]]
    <3>1. IsFiniteSet(taken)
      BY IdAssumption, FS_Subset
    <3>2. f \in Surjection(taken, E)
      BY DEF Surjection
    <3> HIDE DEF taken, f, E
    <3> QED BY <3>1, <3>2, FS_Surjection
  <2>4. IsFiniteSet(Rows(r))
    BY <2>1, <2>3, FS_Subset
  <2> HIDE DEF E
  <2>5. ASSUME NEW x \in E PROVE x.at \in Int /\ x.id \in Int /\ SortKey(r, x) \in Int
    <3>1. /\ x.at \in Stamps /\ x.id \in Ids /\ x.name \in Names
          /\ x.capacity \in Capacities /\ x.booked \in Nat
      BY <2>2 DEF Row
    <3>2. x.capacity \in Int /\ x.name \in Int /\ x.at \in Int /\ x.id \in Int
      <4>1. (\A c \in Capacities : c \in Int) /\ \A c \in Names : c \in Int
        BY RequestAssumption
      <4>2. \A c \in Ids : c \in Int
        BY Finite
      <4>3. x.at \in Int
        BY <1>1, <3>1
      <4>4. x.capacity \in Int /\ x.name \in Int /\ x.id \in Int
        BY <3>1, <4>1, <4>2, Zenon
      <4> QED BY <4>3, <4>4
    <3>3. Query[r].sort \in {"created_at", "name", "remaining_spots"}
      BY RequestAssumption
    <3> QED BY <3>1, <3>2, <3>3 DEF SortKey
  <2>6. CountRows(r) = Cardinality(Rows(r))
    BY <1>2 DEF CountRows
  <2> QED BY <2>1, <2>2, <2>4, <2>5, <2>6
<1>3. CASE RouteOf[r] = "listMyBookings"
  <2>1. Rows(r) \subseteq bookings /\ CountRows(r) = Cardinality(Rows(r))
    BY <1>3 DEF Rows, ListedBookings, CountRows
  <2>2. \A x \in bookings : x.at \in Int
    BY <1>0, <1>1 DEF Booking
  <2> QED BY <1>0, <1>3, <2>1, <2>2, FS_Subset
<1>4. CASE RouteOf[r] = "listAuditLog"
  <2> DEFINE log == ToSet(auditLog)
  <2>1. Rows(r) = Combined(log, Query[r]) /\ CountRows(r) = CombinedCount(log, Query[r])
    BY <1>4 DEF Rows, ListedEntries, CountRows
  <2> HIDE DEF log
  <2>2. /\ CountRows(r) = Cardinality(Rows(r)) /\ Rows(r) \subseteq log
    BY <1>0, <2>1, MergedLog DEF log
  <2>3. \A x \in log : x.at \in Int
    BY <1>0, <1>1 DEF EntryOK, log
  <2> QED BY <1>0, <1>4, <2>2, <2>3, FS_Subset DEF log
<1> QED BY <1>2, <1>3, <1>4, RequestAssumption

\* The ORDER BY of a list: for events it leaves nothing to chance, elsewhere rows of one
\* stamp are equals.
LEMMA AheadFact ==
  ASSUME RowsInv, NEW r \in Readers
  PROVE  /\ \A x \in Rows(r) : ~Ahead(r, x, x)
         /\ RouteOf[r] = "listEvents" =>
               \A x, y \in Rows(r) : x # y => Ahead(r, x, y) \/ Ahead(r, y, x)
         /\ RouteOf[r] # "listEvents" =>
               \A x, y \in Rows(r) : /\ x.at \in Int /\ y.at \in Int
                                     /\ Ahead(r, x, y) <=> x.at > y.at
<1>1. CASE RouteOf[r] = "listEvents"
  <2>1. \A x, y \in Rows(r) : /\ SortKey(r, x) \in Int /\ SortKey(r, y) \in Int
                              /\ x.id \in Int /\ y.id \in Int /\ (x # y => x.id # y.id)
    BY <1>1, RowsFact
  <2>2. \A x, y \in Rows(r) : Ahead(r, x, y) <=>
            \/ SortOnly(r, x, y) \/ (SortKey(r, x) = SortKey(r, y) /\ x.id > y.id)
    BY <1>1 DEF Ahead, EventBefore
  <2>3. \A x, y \in Rows(r) : SortOnly(r, x, y) <=>
            IF Query[r].order = "asc" THEN SortKey(r, x) < SortKey(r, y)
            ELSE SortKey(r, x) > SortKey(r, y)
    BY DEF SortOnly
  <2>4. \A x \in Rows(r) : ~Ahead(r, x, x)
    BY <2>1, <2>2, <2>3
  <2>5. \A x, y \in Rows(r) : x # y => Ahead(r, x, y) \/ Ahead(r, y, x)
    BY <2>1, <2>2, <2>3
  <2> QED BY <1>1, <2>4, <2>5
<1>2. CASE RouteOf[r] # "listEvents"
  <2>1. \A x \in Rows(r) : x.at \in Int
    BY RowsFact
  <2>2. \A x, y \in Rows(r) : Ahead(r, x, y) <=> x.at > y.at
    BY <1>2 DEF Ahead, NewestFirst
  <2> QED BY <1>2, <2>1, <2>2
<1> QED BY <1>1, <1>2

\* The ranks of the rows.
LEMMA RankFact ==
  ASSUME RowsInv, NEW r \in Readers, NEW x \in Rows(r)
  PROVE  /\ Rank(r, Rows(r), x) \in Nat /\ Cardinality(Rows(r)) \in Nat
         /\ Rank(r, Rows(r), x) < Cardinality(Rows(r))
<1> DEFINE P == {y \in Rows(r) : Ahead(r, y, x)}
<1>1. P \subseteq Rows(r) \ {x} /\ IsFiniteSet(Rows(r))
  BY AheadFact, RowsFact
<1>2. Rank(r, Rows(r), x) = Cardinality(P)
  BY DEF Rank
<1> HIDE DEF P
<1>3. /\ IsFiniteSet(Rows(r) \ {x})
      /\ Cardinality(Rows(r) \ {x}) = Cardinality(Rows(r)) - 1
  BY <1>1, FS_RemoveElement
<1>4. /\ IsFiniteSet(P) /\ Cardinality(P) <= Cardinality(Rows(r) \ {x})
      /\ Cardinality(P) \in Nat /\ Cardinality(Rows(r)) \in Nat
  BY <1>1, <1>3, FS_Subset, FS_CardinalityType
<1> QED BY <1>2, <1>3, <1>4

\* The rows that are not after a row: itself, its equals and those before it.
NotBehind(r, x) == {y \in Rows(r) : ~Ahead(r, x, y)}

\* A row that the edge after the first n rows does not leave to chance has no equals on
\* the other side of it.
LEMMA UnsplitFact ==
  ASSUME RowsInv, NEW r \in Readers, NEW n \in Nat, NEW x \in Rows(r), x \notin SplitAt(r, n),
         Rank(r, Rows(r), x) < n
  PROVE  Cardinality(NotBehind(r, x)) <= n
<1> DEFINE P == {y \in Rows(r) : Ahead(r, y, x)}
<1>1. /\ Rank(r, Rows(r), x) = Cardinality(P) /\ IsFiniteSet(Rows(r)) /\ P \subseteq Rows(r)
      /\ NotBehind(r, x) \subseteq Rows(r)
  BY RowsFact DEF Rank, NotBehind
<1>2. CASE RouteOf[r] = "listEvents"
  <2>1. NotBehind(r, x) \subseteq P \cup {x} /\ x \notin P
    BY <1>2, AheadFact DEF NotBehind
  <2> HIDE DEF P
  <2>2. IsFiniteSet(P) /\ Cardinality(P) \in Nat
    BY <1>1, FS_Subset, FS_CardinalityType
  <2>3. IsFiniteSet(P \cup {x}) /\ Cardinality(P \cup {x}) = Cardinality(P) + 1
    BY <2>1, <2>2, FS_AddElement
  <2>4. Cardinality(NotBehind(r, x)) <= Cardinality(P \cup {x}) /\ Cardinality(NotBehind(r, x)) \in Nat
    BY <1>1, <2>1, <2>3, FS_Subset, FS_CardinalityType
  <2> QED BY <1>1, <2>2, <2>3, <2>4
<1>3. CASE RouteOf[r] # "listEvents"
  <2>1. P = {y \in Rows(r) : y.at > x.at}
    BY <1>3, AheadFact
  <2>2. NotBehind(r, x) = {y \in Rows(r) : y.at >= x.at}
    <3>1. \A y \in Rows(r) : ~Ahead(r, x, y) <=> y.at >= x.at
      BY <1>3, AheadFact
    <3> QED BY <3>1 DEF NotBehind
  <2>3. ~(Cardinality(P) < n /\ n < Cardinality(NotBehind(r, x)))
    BY <1>3, <2>1, <2>2 DEF SplitAt
  <2> HIDE DEF P
  <2>4. Cardinality(NotBehind(r, x)) \in Nat
    BY <1>1, FS_Subset, FS_CardinalityType
  <2> QED BY <1>1, <2>3, <2>4
<1> QED BY <1>2, <1>3

\* What a page leaves out at its front are the rows of the lowest ranks.
LEMMA FirstsFact ==
  ASSUME RowsInv, NEW r \in Readers, NEW n \in Nat, NEW A \in SUBSET Rows(r),
         Cardinality(A) = Min({n, Cardinality(Rows(r))}),
         \A a \in A, b \in Rows(r) \ A : ~Ahead(r, b, a),
         NEW x \in Rows(r), x \notin SplitAt(r, n)
  PROVE  x \in A <=> Rank(r, Rows(r), x) < n
<1> DEFINE before == {p \in Rows(r) \X Rows(r) : Ahead(r, p[1], p[2])}
<1>1. \A a, b \in Rows(r) : <<a, b>> \in before <=> Ahead(r, a, b)
  OBVIOUS
<1>2. IsFiniteSet(Rows(r))
  BY RowsFact
<1> HIDE DEF before
<1>3. /\ \A a \in Rows(r) : <<a, a>> \notin before
      /\ \A a \in A, b \in Rows(r) \ A : <<b, a>> \notin before
  BY <1>1, AheadFact
<1>4. Prior(Rows(r), before, x) = {y \in Rows(r) : Ahead(r, y, x)}
  BY <1>1 DEF Prior
<1>5. NotAfter(Rows(r), before, x) = NotBehind(r, x)
  BY <1>1 DEF NotAfter, NotBehind
<1>6. Rank(r, Rows(r), x) = Cardinality(Prior(Rows(r), before, x))
  BY <1>4 DEF Rank
<1>7. Cardinality(Prior(Rows(r), before, x)) < n => Cardinality(NotAfter(Rows(r), before, x)) <= n
  BY <1>5, <1>6, UnsplitFact
<1>8. x \in A <=> Cardinality(Prior(Rows(r), before, x)) < n
  BY <1>2, <1>3, <1>7, FirstsRank
<1> QED BY <1>6, <1>8

\* How many of the first n rows there are.
LEMMA WithinIs ==
  ASSUME RowsInv, NEW r \in Readers, NEW n \in Nat
  PROVE  /\ Cardinality(Rows(r)) \in Nat /\ Within(r, n) \in Nat
         /\ Within(r, n) = IF n <= Cardinality(Rows(r)) THEN n ELSE Cardinality(Rows(r))
<1>1. Cardinality(Rows(r)) \in Nat
  BY RowsFact, FS_CardinalityType
<1>2. Within(r, n) = IF n <= Cardinality(Rows(r)) THEN n ELSE Cardinality(Rows(r))
  BY <1>1, MinIs DEF Within
<1> QED BY <1>1, <1>2

\* The edges of a page.
Edge(r) == Passed(r) + Query[r].limit
Split(r) == SplitAt(r, Passed(r)) \cup SplitAt(r, Edge(r))

\* Both edges are numbers, the first before the second.
LEMMA Edges ==
  ASSUME RowsInv, NEW r \in Readers
  PROVE  /\ Passed(r) \in Nat /\ Edge(r) \in Nat /\ Query[r].limit \in Nat \ {0}
         /\ Passed(r) <= Edge(r) /\ page[r] \in Nat \ {0}
<1>1. page[r] \in Nat \ {0} /\ Query[r].limit \in Nat \ {0}
  BY RequestAssumption DEF RowsInv, TypeOK
<1>2. Passed(r) \in Nat
  BY <1>1, Offsets DEF Passed
<1> QED BY <1>1, <1>2 DEF Edge

\* A page is made of the rows of the ranks that it stands for, as many as there are, and of
\* rows left to chance; and no more rows are behind it than it leaves.
LEMMA PageRank ==
  ASSUME RowsInv, NEW r \in Readers, NEW rows \in PageRows(r)
  PROVE  /\ rows \subseteq Rows(r)
         /\ \A x \in Rows(r) \ Split(r) :
               x \in rows <=> Rank(r, Rows(r), x) >= Passed(r) /\ Rank(r, Rows(r), x) < Edge(r)
         /\ Cardinality(rows) = Within(r, Edge(r)) - Within(r, Passed(r))
         /\ \A S \in SUBSET (Rows(r) \ Split(r)) :
               (\A x \in S : Rank(r, Rows(r), x) >= Edge(r)) =>
                  Cardinality(S) <= Cardinality(Rows(r)) - Within(r, Edge(r))
<1> DEFINE n == Passed(r)
           m == Edge(r)
           Fit(A, k) == /\ A \in SUBSET Rows(r) /\ Cardinality(A) = Min({k, Cardinality(Rows(r))})
                        /\ \A a \in A, b \in Rows(r) \ A : ~Ahead(r, b, a)
<1>1. n \in Nat /\ m \in Nat
  BY Edges
<1>2. \E A, B : Fit(A, n) /\ Fit(B, m) /\ A \subseteq B /\ rows = B \ A
  <2>1. n = Offset(page[r], Query[r].limit) /\ m = Offset(page[r], Query[r].limit) + Query[r].limit
    BY DEF Passed, Edge
  <2>2. CASE RouteOf[r] = "listEvents"
    <3>1. \A a, b : Ahead(r, a, b) <=> EventBefore(r, a, b)
      BY <2>2 DEF Ahead
    <3>2. rows \in Pages(Rows(r), page[r], Query[r].limit, LAMBDA a, b : EventBefore(r, a, b))
      BY <2>2 DEF PageRows
    <3> HIDE DEF n, m
    <3> QED BY <2>1, <3>1, <3>2 DEF Pages, Firsts, kSubset
  <2>3. CASE RouteOf[r] # "listEvents"
    <3>1. \A a, b : Ahead(r, a, b) <=> NewestFirst(a, b)
      BY <2>3 DEF Ahead
    <3>2. rows \in Pages(Rows(r), page[r], Query[r].limit, NewestFirst)
      BY <2>3 DEF PageRows
    <3> HIDE DEF n, m
    <3> QED BY <2>1, <3>1, <3>2 DEF Pages, Firsts, kSubset
  <2> QED BY <2>2, <2>3
<1>3. PICK A, B : Fit(A, n) /\ Fit(B, m) /\ A \subseteq B /\ rows = B \ A
  BY <1>2
<1>4. \A x \in Rows(r) : Rank(r, Rows(r), x) \in Nat
  BY RankFact
<1>5. \A x \in Rows(r) \ Split(r) : x \in A <=> Rank(r, Rows(r), x) < n
  BY <1>1, <1>3, FirstsFact DEF Split
<1>6. \A x \in Rows(r) \ Split(r) : x \in B <=> Rank(r, Rows(r), x) < m
  BY <1>1, <1>3, FirstsFact DEF Split
<1>7. /\ Cardinality(A) = Within(r, n) /\ Cardinality(B) = Within(r, m)
      /\ A \subseteq Rows(r) /\ B \subseteq Rows(r)
  BY <1>3 DEF Within
<1> HIDE DEF n, m
<1>8. \A x \in Rows(r) \ Split(r) :
         x \in rows <=> Rank(r, Rows(r), x) >= n /\ Rank(r, Rows(r), x) < m
  BY <1>1, <1>3, <1>4, <1>5, <1>6
<1>9. IsFiniteSet(Rows(r)) /\ IsFiniteSet(B) /\ IsFiniteSet(A)
  BY <1>7, RowsFact, FS_Subset
<1>10. Cardinality(rows) = Cardinality(B) - Cardinality(A)
  <2>1. B \cap A = A /\ rows = B \ A
    BY <1>3
  <2>2. Cardinality(B \ A) = Cardinality(B) - Cardinality(B \cap A)
    BY <1>9, FS_Difference
  <2> QED BY <2>1, <2>2
<1>11. ASSUME NEW S \in SUBSET (Rows(r) \ Split(r)), \A x \in S : Rank(r, Rows(r), x) >= m
       PROVE  Cardinality(S) <= Cardinality(Rows(r)) - Within(r, m)
  <2>1. S \subseteq Rows(r) \ B
    BY <1>1, <1>4, <1>6, <1>11
  <2>2. Rows(r) \cap B = B
    BY <1>7
  <2>3. /\ IsFiniteSet(Rows(r) \ B)
        /\ Cardinality(Rows(r) \ B) = Cardinality(Rows(r)) - Cardinality(B)
    BY <1>9, <2>2, FS_Difference
  <2>4. Cardinality(S) <= Cardinality(Rows(r) \ B)
    BY <2>1, <2>3, FS_Subset
  <2> QED BY <1>7, <2>3, <2>4
<1> QED BY <1>3, <1>7, <1>8, <1>10, <1>11 DEF n, m

\* Rows that are added push others back only.
LEMMA RankGrows ==
  ASSUME NEW r, NEW rows, NEW more, rows \subseteq more, IsFiniteSet(more), NEW x
  PROVE  /\ Rank(r, rows, x) \in Nat /\ Rank(r, more, x) \in Nat
         /\ Rank(r, rows, x) <= Rank(r, more, x)
<1> DEFINE P == {y \in rows : Ahead(r, y, x)}
           Q == {y \in more : Ahead(r, y, x)}
<1>1. P \subseteq Q /\ Q \subseteq more
  OBVIOUS
<1>2. Rank(r, rows, x) = Cardinality(P) /\ Rank(r, more, x) = Cardinality(Q)
  BY DEF Rank
<1> HIDE DEF P, Q
<1> QED BY <1>1, <1>2, FS_Subset, FS_CardinalityType

\* The part of the invariant that is about one reader.
ReaderShape ==
    /\ DOMAIN listed = Readers /\ DOMAIN counted = Readers /\ DOMAIN first = Readers
    /\ DOMAIN twice = Readers /\ DOMAIN tied = Readers /\ DOMAIN hist = Readers
    /\ DOMAIN late = Readers /\ DOMAIN seen = Readers \cup Getters
MissDone(r) ==
    Through(r) /\ "removed" \notin hist[r] =>
        Cardinality(first[r] \ (seen[r] \cup tied[r])) <= Cardinality(late[r])
PartDone(r) ==
    Through(r) /\ hist[r] = {} =>
        /\ seen[r] \ tied[r] = first[r] \ tied[r]
        /\ twice[r] \subseteq tied[r]
        /\ seen[r] = first[r] <=> twice[r] = {}
ReaderOK(r) ==
    /\ (counted[r] # NoRow => counted[r] \in Nat) /\ IsFiniteSet(late[r])
    /\ pc[r] = "Idle" => NotBegun(r)
    /\ pc[r] = "Queries" /\ "removed" \notin hist[r] => MissInv(r)
    /\ pc[r] = "Queries" /\ hist[r] = {} => PartInv(r)
    /\ MissDone(r) /\ PartDone(r)

\* The invariant of the readers, one reader at a time.
LEMMA ReadParts ==
  /\ ReadInv <=> ReaderShape /\ \A r \in Readers : ReaderOK(r)
  /\ ReaderShape' /\ (\A r \in Readers : ReaderOK(r)') => ReadInv'
<1>1. /\ PagesMissNothing <=> \A r \in Readers : MissDone(r)
      /\ PagesPartition <=> \A r \in Readers : PartDone(r)
  BY DEF PagesMissNothing, PagesPartition, MissDone, PartDone
<1>2. ReadInv <=> ReaderShape /\ \A r \in Readers : ReaderOK(r)
  <2>1. ReadInv => ReaderShape /\ \A r \in Readers : ReaderOK(r)
    BY <1>1 DEF ReadInv, ReaderShape, ReaderOK
  <2>2. ReaderShape /\ (\A r \in Readers : ReaderOK(r)) => ReadInv
    BY <1>1 DEF ReadInv, ReaderShape, ReaderOK
  <2> QED BY <2>1, <2>2
<1>3. (ReadInv <=> ReaderShape /\ \A r \in Readers : ReaderOK(r))'
  BY <1>2, PTL
<1> QED BY <1>2, <1>3

\* The lists are finite in the next state as well.
LEMMA NextFinite ==
  ASSUME NEW r \in Readers
  PROVE  RowsInv' => IsFiniteSet(Rows(r)')
<1>1. RowsInv => IsFiniteSet(Rows(r))
  BY RowsFact
<1>2. (RowsInv => IsFiniteSet(Rows(r)))'
  BY <1>1, PTL
<1> QED BY <1>2

\* What the others' commits do to a reader: only what its history says.
LEMMA Watched ==
  ASSUME RowsInv, RowsInv', NEW r \in Readers, ReaderOK(r),
         pc'[r] = pc[r], reply'[r] = reply[r], page'[r] = page[r], listed'[r] = listed[r],
         counted'[r] = counted[r], seen'[r] = seen[r], first'[r] = first[r], twice'[r] = twice[r],
         tied'[r] = tied[r],
         hist'[r] = IF pc[r] = "Queries" THEN hist[r] \cup Effects(r) ELSE hist[r],
         late'[r] = IF pc[r] = "Queries" THEN late[r] \cup Came(r) ELSE late[r]
  PROVE  ReaderOK(r)'
<1> DEFINE old == Rows(r)
           new == Rows(r)'
<1>1. IsFiniteSet(new)
  BY NextFinite
<1>2. /\ Passed(r)' = Passed(r) /\ (Through(r)' <=> Through(r))
      /\ pc[r] # "Queries" => (NotBegun(r)' <=> NotBegun(r))
  BY DEF Passed, Through, NotBegun
<1>3. /\ pc[r] = "Queries" /\ "removed" \notin hist'[r] => "removed" \notin hist[r] /\ old \subseteq new
      /\ pc[r] = "Queries" /\ hist'[r] = {} => hist[r] = {} /\ new = old
      /\ pc[r] # "Queries" => hist'[r] = hist[r] /\ late'[r] = late[r]
  BY DEF Effects
<1>4. pc[r] = "Queries" =>
         /\ counted[r] # NoRow /\ listed[r] = NoRow => late'[r] = late[r] \cup (new \ old)
         /\ listed[r] # NoRow => late'[r] = late[r]
  BY DEF Came
<1>5. IsFiniteSet(late[r]) /\ IsFiniteSet(late'[r])
  <2>1. IsFiniteSet(late[r])
    BY DEF ReaderOK
  <2>2. late'[r] = late[r] \/ late'[r] = late[r] \cup (new \ old)
    BY DEF Came
  <2> HIDE DEF old, new
  <2>3. IsFiniteSet(new \ old)
    BY <1>1, FS_Difference
  <2>4. IsFiniteSet(late[r] \cup (new \ old))
    BY <2>1, <2>3, FS_Union
  <2> QED BY <2>1, <2>2, <2>4
<1> HIDE DEF old, new
<1>6. ASSUME old \subseteq new, NEW x
      PROVE  /\ Rank(r, old, x) \in Nat /\ Rank(r, new, x) \in Nat
             /\ Rank(r, old, x) <= Rank(r, new, x)
  BY <1>1, <1>6, RankGrows
<1>7. Passed(r) \in Nat /\ Query[r].limit \in Nat
  BY Edges
<1>8. ASSUME pc[r] = "Queries", "removed" \notin hist'[r] PROVE MissInv(r)'
  <2>0. old \subseteq new /\ MissInv(r)
    BY <1>3, <1>8 DEF ReaderOK
  <2>1. first[r] \subseteq new
    BY <2>0 DEF MissInv, old
  <2>2. ASSUME NEW x \in first[r] \ (seen[r] \cup tied[r]) PROVE Rank(r, new, x) >= Passed(r)
    <3>1. Rank(r, old, x) >= Passed(r)
      BY <2>0 DEF MissInv, old
    <3> QED BY <1>6, <1>7, <2>0, <3>1
  <2>3. ASSUME listed[r] # NoRow, NEW x \in first[r] \ (seen[r] \cup listed[r] \cup tied[r])
        PROVE  Rank(r, new, x) >= Passed(r) + Query[r].limit
    <3>1. Rank(r, old, x) >= Passed(r) + Query[r].limit
      BY <2>0, <2>3 DEF MissInv, old
    <3> QED BY <1>6, <1>7, <2>0, <3>1
  <2>4. ASSUME counted[r] # NoRow, listed[r] = NoRow
        PROVE  Cardinality(new \ late'[r]) <= counted[r]
    <3>1. Cardinality(old \ late[r]) <= counted[r] /\ counted[r] \in Nat
      BY <2>0, <2>4 DEF MissInv, old, ReaderOK
    <3>2. new \ late'[r] \subseteq old \ late[r]
      BY <1>4, <1>8, <2>4
    <3>3. IsFiniteSet(old \ late[r])
      BY <1>1, <2>0, FS_Subset
    <3>4. /\ Cardinality(new \ late'[r]) <= Cardinality(old \ late[r])
          /\ Cardinality(new \ late'[r]) \in Nat /\ Cardinality(old \ late[r]) \in Nat
      BY <3>2, <3>3, FS_Subset, FS_CardinalityType
    <3> QED BY <3>1, <3>4
  <2>5. ASSUME counted[r] # NoRow, listed[r] # NoRow, counted[r] <= Passed(r) + Query[r].limit
        PROVE  Cardinality(first[r] \ (seen[r] \cup listed[r] \cup tied[r])) <= Cardinality(late'[r])
    <3>1. late'[r] = late[r]
      BY <1>4, <1>8, <2>5
    <3>2. Cardinality(first[r] \ (seen[r] \cup listed[r] \cup tied[r])) <= Cardinality(late[r])
      BY <2>0, <2>5 DEF MissInv
    <3> QED BY <3>1, <3>2
  <2>6. /\ Passed(r)' = Passed(r) /\ listed'[r] = listed[r] /\ counted'[r] = counted[r]
        /\ seen'[r] = seen[r] /\ first'[r] = first[r] /\ tied'[r] = tied[r] /\ new = Rows(r)'
    BY <1>2 DEF new
  <2> QED BY <2>1, <2>2, <2>3, <2>4, <2>5, <2>6 DEF MissInv
<1>9. ASSUME pc[r] = "Queries", hist'[r] = {} PROVE PartInv(r)'
  <2>1. new = old /\ PartInv(r)
    BY <1>3, <1>9 DEF ReaderOK
  <2> QED BY <1>2, <2>1 DEF PartInv, Within, old, new
<1>10. /\ counted'[r] # NoRow => counted'[r] \in Nat
       /\ pc'[r] = "Idle" => NotBegun(r)'
  BY <1>2 DEF ReaderOK
<1>11. MissDone(r)' /\ PartDone(r)'
  <2>1. Through(r) => pc[r] # "Queries"
    BY DEF Through
  <2>2. MissDone(r) /\ PartDone(r)
    BY DEF ReaderOK
  <2>3. MissDone(r)'
    BY <1>2, <1>3, <2>1, <2>2 DEF MissDone
  <2>4. PartDone(r)'
    BY <1>2, <1>3, <2>1, <2>2 DEF PartDone
  <2> QED BY <2>3, <2>4
<1> QED BY <1>5, <1>8, <1>9, <1>10, <1>11 DEF ReaderOK

\* A reader's own steps leave the rows alone.
LEMMA RowsStay ==
  ASSUME UNCHANGED tables, NEW r \in Readers
  PROVE  Rows(r)' = Rows(r)
BY DEF tables, Rows, ListedEvents, ListedBookings, ListedEntries

\* The first page starts at the top.
LEMMA OpenRead ==
  ASSUME RowsInv, ReaderShape, NEW r \in Readers, ReaderOK(r), Open(r)
  PROVE  ReaderOK(r)'
<1>0. /\ NotBegun(r) /\ pc[r] = "Idle" /\ pc \in [Requests -> PcValues] /\ r \in Requests
      /\ Rows(r)' = Rows(r) /\ reply \in [Requests -> Answers] /\ DOMAIN first = Readers
      /\ listed'[r] = listed[r] /\ counted'[r] = counted[r] /\ seen'[r] = seen[r]
      /\ twice'[r] = twice[r] /\ page'[r] = page[r] /\ hist'[r] = hist[r]
      /\ tied'[r] = tied[r] /\ late'[r] = late[r]
  <2>1. UNCHANGED <<tables, page, listed, counted, seen, twice, tied, hist, late>> /\ pc[r] = "Idle"
    BY DEF Open, watched
  <2>2. r \in Requests
    BY DEF Requests
  <2>3. pc \in [Requests -> PcValues] /\ reply \in [Requests -> Answers] /\ DOMAIN first = Readers
    BY DEF RowsInv, TypeOK, ReaderShape
  <2> QED BY <2>1, <2>2, <2>3, RowsStay DEF ReaderOK
<1>1. CASE pc' = [pc EXCEPT ![r] = "Queries"] /\ first' = [first EXCEPT ![r] = Rows(r)]
  <2>1. pc'[r] = "Queries" /\ first'[r] = Rows(r)
    BY <1>0, <1>1
  <2>2. /\ Passed(r)' = 0 /\ seen'[r] = {} /\ twice'[r] = {} /\ tied'[r] = {} /\ late'[r] = {}
        /\ listed'[r] = NoRow /\ counted'[r] = NoRow
    <3>1. Query[r].limit \in Nat /\ page'[r] = 1 /\ 1 \in Nat \ {0}
      BY <1>0, RequestAssumption DEF NotBegun
    <3>2. Offset(1, Query[r].limit) = 0
      BY <3>1, Offsets
    <3> QED BY <1>0, <3>1, <3>2 DEF NotBegun, Passed
  <2>3. \A x \in Rows(r) : Rank(r, Rows(r), x) \in Nat
    BY RankFact
  <2>4. MissInv(r)'
    BY <1>0, <2>1, <2>2, <2>3 DEF MissInv
  <2>5. PartInv(r)'
    <3>1. Within(r, Passed(r))' = 0
      <4>1. Within(r, 0) = 0
        BY WithinIs
      <4> QED BY <1>0, <2>2, <4>1 DEF Within
    <3>2. Cardinality({}) = 0
      BY FS_EmptySet
    <3> QED BY <1>0, <2>1, <2>2, <2>3, <3>1, <3>2 DEF PartInv
  <2> QED BY <2>1, <2>2, <2>4, <2>5, FS_EmptySet DEF ReaderOK, Through, MissDone, PartDone
<1>2. CASE Answer(r, Gate(RouteOf[r], HeadersOf[r])) /\ Gate(RouteOf[r], HeadersOf[r]) # "next"
  <2>1. pc'[r] = "Done" /\ reply'[r] # "OK"
    BY <1>0, <1>2 DEF Answer, Goto, Gate
  <2> QED BY <1>0, <2>1 DEF ReaderOK, NotBegun, Through, MissDone, PartDone
<1> QED BY <1>1, <1>2 DEF Open, Goto

\* The list of a page: the rows of its ranks, but for those left to chance at its edges.
LEMMA ListRead ==
  ASSUME RowsInv, ReaderShape, NEW r \in Readers, ReaderOK(r), ListQuery(r)
  PROVE  ReaderOK(r)'
<1>0. /\ pc[r] = "Queries" /\ listed[r] = NoRow /\ Rows(r)' = Rows(r) /\ page' = page
      /\ UNCHANGED <<pc, counted, seen, first, twice, reply, hist, late>>
      /\ DOMAIN listed = Readers /\ DOMAIN tied = Readers
  BY RowsStay DEF ListQuery, ReaderShape, watched
<1>1. PICK rows \in PageRows(r) : listed' = [listed EXCEPT ![r] = rows]
  BY DEF ListQuery
<1>2. listed'[r] = rows /\ tied'[r] = tied[r] \cup Split(r)
  BY <1>0, <1>1 DEF ListQuery, Split, Edge
<1>3. Passed(r)' = Passed(r) /\ ~(Through(r)') /\ pc'[r] # "Idle"
  BY <1>0 DEF Passed, Through
<1>4. /\ Passed(r) \in Nat /\ Edge(r) \in Nat /\ Passed(r) <= Edge(r)
      /\ Passed(r) + Query[r].limit = Edge(r)
      /\ IsFiniteSet(Rows(r)) /\ Cardinality(Rows(r)) \in Nat
      /\ \A x \in Rows(r) : Rank(r, Rows(r), x) \in Nat
  <2>1. IsFiniteSet(Rows(r)) /\ Cardinality(Rows(r)) \in Nat
    BY RowsFact, FS_CardinalityType
  <2> QED BY <2>1, Edges, RankFact DEF Edge
<1>5. /\ rows \subseteq Rows(r)
      /\ \A x \in Rows(r) \ Split(r) :
            x \in rows <=> Rank(r, Rows(r), x) >= Passed(r) /\ Rank(r, Rows(r), x) < Edge(r)
      /\ Cardinality(rows) = Within(r, Edge(r)) - Within(r, Passed(r))
  BY PageRank
<1>6. ASSUME "removed" \notin hist[r] PROVE MissInv(r)'
  <2> DEFINE S == first[r] \ (seen[r] \cup rows \cup tied'[r])
  <2>0. MissInv(r)
    BY <1>0, <1>6 DEF ReaderOK
  <2>1. /\ first[r] \subseteq Rows(r)
        /\ \A x \in first[r] \ (seen[r] \cup tied[r]) : Rank(r, Rows(r), x) >= Passed(r)
        /\ counted[r] # NoRow => Cardinality(Rows(r) \ late[r]) <= counted[r]
    BY <1>0, <2>0 DEF MissInv
  <2>2. S \subseteq Rows(r) \ Split(r) /\ \A x \in S : Rank(r, Rows(r), x) >= Edge(r)
    BY <1>2, <1>4, <1>5, <2>1
  <2>3. Cardinality(S) <= Cardinality(Rows(r)) - Within(r, Edge(r))
    BY <2>2, PageRank
  <2>4. /\ S \subseteq Rows(r)
        /\ \A x \in first[r] \ (seen[r] \cup tied'[r]) : Rank(r, Rows(r), x) >= Passed(r)
    BY <1>2, <2>1, <2>2
  <2> HIDE DEF S
  <2>5. ASSUME counted[r] # NoRow, counted[r] <= Edge(r)
        PROVE  Cardinality(S) <= Cardinality(late[r])
    <3>1. counted[r] \in Nat /\ IsFiniteSet(late[r])
      BY <2>5 DEF ReaderOK
    <3>2. /\ IsFiniteSet(Rows(r) \cap late[r]) /\ Cardinality(Rows(r) \cap late[r]) \in Nat
          /\ Cardinality(Rows(r) \cap late[r]) <= Cardinality(late[r]) /\ Cardinality(late[r]) \in Nat
      BY <3>1, FS_Subset, FS_CardinalityType
    <3>3. Cardinality(Rows(r) \ late[r]) = Cardinality(Rows(r)) - Cardinality(Rows(r) \cap late[r])
      BY <1>4, FS_Difference
    <3>4. Cardinality(Rows(r)) - counted[r] <= Cardinality(late[r])
      BY <1>4, <2>1, <2>5, <3>1, <3>2, <3>3
    <3>5. /\ IsFiniteSet(S) /\ Cardinality(S) \in Nat
          /\ Within(r, Edge(r)) = IF Edge(r) <= Cardinality(Rows(r)) THEN Edge(r) ELSE Cardinality(Rows(r))
      BY <1>4, <2>4, FS_Subset, FS_CardinalityType, WithinIs
    <3> QED BY <1>4, <2>3, <2>5, <3>1, <3>2, <3>4, <3>5
  <2>6. /\ Rows(r)' = Rows(r) /\ Passed(r)' = Passed(r) /\ listed'[r] = rows
        /\ counted'[r] = counted[r] /\ seen'[r] = seen[r] /\ first'[r] = first[r]
        /\ late'[r] = late[r]
    BY <1>0, <1>2, <1>3
  <2> QED BY <1>4, <2>1, <2>2, <2>4, <2>5, <2>6 DEF MissInv, S
<1>7. ASSUME hist[r] = {} PROVE PartInv(r)'
  <2>0. PartInv(r)
    BY <1>0, <1>7 DEF ReaderOK
  <2>1. /\ Within(r, Edge(r))' = Within(r, Edge(r)) /\ Within(r, Passed(r))' = Within(r, Passed(r))
        /\ Edge(r)' = Edge(r)
    BY <1>0, <1>3 DEF Within, Edge
  <2>2. /\ Rows(r)' = Rows(r) /\ Passed(r)' = Passed(r) /\ listed'[r] = rows
        /\ counted'[r] = counted[r] /\ seen'[r] = seen[r] /\ first'[r] = first[r]
        /\ twice'[r] = twice[r] /\ tied[r] \subseteq tied'[r] /\ Split(r) \subseteq tied'[r]
    BY <1>0, <1>2, <1>3
  <2> QED BY <1>5, <2>0, <2>1, <2>2 DEF PartInv, Edge
<1> QED BY <1>0, <1>3, <1>6, <1>7 DEF ReaderOK, MissDone, PartDone

\* The count of a page, which may be taken before the list or after.
LEMMA CountRead ==
  ASSUME RowsInv, ReaderShape, NEW r \in Readers, ReaderOK(r), CountQuery(r)
  PROVE  ReaderOK(r)'
<1>0. /\ pc[r] = "Queries" /\ Rows(r)' = Rows(r) /\ page' = page
      /\ UNCHANGED <<pc, listed, seen, first, twice, tied, reply, hist, late>>
      /\ counted'[r] = Cardinality(Rows(r)) /\ IsFiniteSet(late[r])
  BY RowsStay, RowsFact DEF CountQuery, ReaderShape, ReaderOK, watched
<1>1. Passed(r)' = Passed(r) /\ ~(Through(r)') /\ pc'[r] # "Idle"
  BY <1>0 DEF Passed, Through
<1>2. /\ Passed(r) \in Nat /\ Query[r].limit \in Nat
      /\ IsFiniteSet(Rows(r)) /\ Cardinality(Rows(r)) \in Nat
      /\ \A x \in Rows(r) : Rank(r, Rows(r), x) \in Nat /\ Rank(r, Rows(r), x) < Cardinality(Rows(r))
  <2>1. IsFiniteSet(Rows(r)) /\ Cardinality(Rows(r)) \in Nat
    BY RowsFact, FS_CardinalityType
  <2> QED BY <2>1, Edges, RankFact
<1>3. ASSUME "removed" \notin hist[r] PROVE MissInv(r)'
  <2> DEFINE S == first[r] \ (seen[r] \cup listed[r] \cup tied[r])
  <2>0. MissInv(r)
    BY <1>0, <1>3 DEF ReaderOK
  <2>1. Cardinality(Rows(r) \ late[r]) <= Cardinality(Rows(r))
    BY <1>2, FS_Subset
  <2>2. ASSUME listed[r] # NoRow, Cardinality(Rows(r)) <= Passed(r) + Query[r].limit
        PROVE  Cardinality(S) <= Cardinality(late[r])
    <3>1. S = {}
      BY <1>2, <2>0, <2>2 DEF MissInv
    <3> HIDE DEF S
    <3>2. Cardinality(S) = 0 /\ Cardinality(late[r]) \in Nat
      BY <1>0, <3>1, FS_EmptySet, FS_CardinalityType
    <3> QED BY <3>2
  <2>3. /\ listed'[r] = listed[r] /\ seen'[r] = seen[r] /\ first'[r] = first[r]
        /\ tied'[r] = tied[r] /\ late'[r] = late[r]
    BY <1>0
  <2> QED BY <1>0, <1>1, <2>0, <2>1, <2>2, <2>3 DEF MissInv, S
<1>4. ASSUME hist[r] = {} PROVE PartInv(r)'
  <2>0. PartInv(r)
    BY <1>0, <1>4 DEF ReaderOK
  <2> QED BY <1>0, <1>1, <2>0 DEF PartInv, Within
<1> QED BY <1>0, <1>1, <1>2, <1>3, <1>4 DEF ReaderOK, MissDone, PartDone

\* An answer: the next page starts where this one ends, or there is nothing after it.
LEMMA RespondRead ==
  ASSUME RowsInv, ReaderShape, NEW r \in Readers, ReaderOK(r), Respond(r)
  PROVE  ReaderOK(r)'
<1> DEFINE limit == Query[r].limit
<1>0. /\ pc[r] = "Queries" /\ listed[r] # NoRow /\ counted[r] # NoRow /\ Rows(r)' = Rows(r)
      /\ UNCHANGED <<first, tied, hist>>
      /\ seen'[r] = seen[r] \cup listed[r] /\ twice'[r] = twice[r] \cup (seen[r] \cap listed[r])
      /\ listed'[r] = NoRow /\ counted'[r] = NoRow /\ counted[r] \in Nat /\ IsFiniteSet(late[r])
  BY RowsStay DEF Respond, ReaderShape, ReaderOK
<1>1. /\ page[r] \in Nat \ {0} /\ limit \in Nat \ {0} /\ page \in [Readers -> Nat \ {0}]
      /\ pc \in [Requests -> PcValues] /\ r \in Requests /\ reply \in [Requests -> Answers]
      /\ DOMAIN late = Readers
  BY RequestAssumption DEF ReaderShape, RowsInv, TypeOK, Requests
<1>2. /\ Passed(r) \in Nat /\ Edge(r) \in Nat /\ Passed(r) + limit = Edge(r)
      /\ Offset(page[r] + 1, limit) = Edge(r)
  BY <1>1, Offsets, Edges DEF Passed, Edge
<1>3. "removed" \notin hist[r] => MissInv(r)
  BY <1>0 DEF ReaderOK
<1>4. ASSUME hist[r] = {}
      PROVE  /\ first[r] = Rows(r) /\ seen'[r] \subseteq Rows(r) /\ twice'[r] \subseteq tied[r]
             /\ \A x \in Rows(r) \ tied[r] : x \in seen'[r] <=> Rank(r, Rows(r), x) < Edge(r)
             /\ IF twice'[r] = {} THEN Cardinality(seen'[r]) = Within(r, Edge(r))
                                  ELSE Cardinality(seen'[r]) < Within(r, Edge(r))
             /\ counted[r] = Cardinality(Rows(r))
  <2>1. PartInv(r)
    BY <1>0, <1>4 DEF ReaderOK
  <2>2. \A x \in Rows(r) : Rank(r, Rows(r), x) \in Nat
    BY RankFact
  <2>3. /\ first[r] = Rows(r) /\ seen[r] \subseteq Rows(r) /\ twice[r] \subseteq tied[r]
        /\ listed[r] \subseteq Rows(r) /\ counted[r] = Cardinality(Rows(r))
        /\ \A x \in Rows(r) \ tied[r] : x \in seen[r] <=> Rank(r, Rows(r), x) < Passed(r)
        /\ \A x \in Rows(r) \ tied[r] :
              x \in listed[r] <=> Rank(r, Rows(r), x) >= Passed(r) /\ Rank(r, Rows(r), x) < Edge(r)
    BY <1>0, <1>2, <2>1 DEF PartInv
  <2>4. /\ Cardinality(listed[r]) = Within(r, Edge(r)) - Within(r, Passed(r))
        /\ IF twice[r] = {} THEN Cardinality(seen[r]) = Within(r, Passed(r))
                            ELSE Cardinality(seen[r]) < Within(r, Passed(r))
    BY <1>0, <1>2, <2>1 DEF PartInv
  <2>5. seen[r] \cap listed[r] \subseteq tied[r]
    BY <1>2, <2>2, <2>3
  <2>6. \A x \in Rows(r) \ tied[r] : x \in seen'[r] <=> Rank(r, Rows(r), x) < Edge(r)
    BY <1>0, <1>2, <2>2, <2>3, Edges
  <2>7. /\ IsFiniteSet(seen[r]) /\ IsFiniteSet(listed[r])
        /\ Cardinality(seen[r]) \in Nat /\ Cardinality(listed[r]) \in Nat
    BY <2>3, RowsFact, FS_Subset, FS_CardinalityType
  <2>8. /\ Cardinality(seen'[r]) = Cardinality(seen[r]) + Cardinality(listed[r])
                                     - Cardinality(seen[r] \cap listed[r])
        /\ IsFiniteSet(seen[r] \cap listed[r]) /\ Cardinality(seen[r] \cap listed[r]) \in Nat
        /\ Cardinality(seen[r] \cap listed[r]) = 0 <=> seen[r] \cap listed[r] = {}
    BY <1>0, <2>7, FS_Union, FS_Subset, FS_CardinalityType, FS_EmptySet
  <2>9. Within(r, Edge(r)) \in Nat /\ Within(r, Passed(r)) \in Nat
    BY <1>2, WithinIs
  <2>10. IF twice'[r] = {} THEN Cardinality(seen'[r]) = Within(r, Edge(r))
                           ELSE Cardinality(seen'[r]) < Within(r, Edge(r))
    <3>1. twice'[r] = {} <=> (twice[r] = {} /\ seen[r] \cap listed[r] = {})
      BY <1>0
    <3> QED BY <2>4, <2>7, <2>8, <2>9, <3>1
  <2> QED BY <1>0, <2>3, <2>5, <2>6, <2>10
<1>5. CASE /\ HasNext(page[r], counted[r], limit) /\ page' = [page EXCEPT ![r] = @ + 1]
           /\ late' = [late EXCEPT ![r] = {}] /\ UNCHANGED <<pc, reply>>
  <2>1. Passed(r)' = Edge(r) /\ late'[r] = {}
    <3>1. page'[r] = page[r] + 1 /\ late'[r] = {}
      BY <1>1, <1>5
    <3> QED BY <1>2, <3>1 DEF Passed
  <2>2. ASSUME "removed" \notin hist[r] PROVE MissInv(r)'
    <3>1. MissInv(r)
      BY <1>3, <2>2
    <3> QED BY <1>0, <1>2, <2>1, <3>1 DEF MissInv
  <2>3. ASSUME hist[r] = {} PROVE PartInv(r)'
    <3>1. Within(r, Passed(r))' = Within(r, Edge(r))
      BY <1>0, <2>1 DEF Within
    <3> QED BY <1>0, <1>4, <2>1, <2>3, <3>1 DEF PartInv
  <2> QED BY <1>0, <1>5, <2>1, <2>2, <2>3, FS_EmptySet DEF ReaderOK, Through, MissDone, PartDone
<1>6. CASE ~HasNext(page[r], counted[r], limit) /\ Answer(r, "OK") /\ UNCHANGED <<page, late>>
  <2>1. counted[r] <= Edge(r)
    BY <1>0, <1>1, <1>2, <1>6, LastPage DEF Passed
  <2>2. "removed" \notin hist[r] =>
            Cardinality(first[r] \ (seen'[r] \cup tied[r])) <= Cardinality(late[r])
    <3>1. first[r] \ (seen'[r] \cup tied[r]) = first[r] \ (seen[r] \cup listed[r] \cup tied[r])
      BY <1>0
    <3> QED BY <1>0, <1>2, <1>3, <2>1, <3>1 DEF MissInv
  <2>3. ASSUME hist[r] = {}
        PROVE  /\ seen'[r] \ tied[r] = first[r] \ tied[r] /\ twice'[r] \subseteq tied[r]
               /\ seen'[r] = first[r] <=> twice'[r] = {}
    <3>0. /\ IsFiniteSet(Rows(r)) /\ Cardinality(Rows(r)) \in Nat
          /\ \A x \in Rows(r) : Rank(r, Rows(r), x) \in Nat /\ Rank(r, Rows(r), x) < Cardinality(Rows(r))
      BY RowsFact, FS_CardinalityType, RankFact
    <3>1. Cardinality(Rows(r)) <= Edge(r)
      BY <1>4, <2>1, <2>3
    <3>2. \A x \in Rows(r) : Rank(r, Rows(r), x) < Edge(r)
      BY <1>2, <3>0, <3>1
    <3>3. seen'[r] \ tied[r] = first[r] \ tied[r]
      BY <1>4, <2>3, <3>2
    <3>4. Within(r, Edge(r)) = Cardinality(Rows(r))
      BY <1>2, <3>0, <3>1, WithinIs
    <3>5. Cardinality(seen'[r]) = Cardinality(Rows(r)) => seen'[r] = Rows(r)
      BY <1>4, <2>3, <3>0, FS_Subset
    <3>6. seen'[r] = Rows(r) <=> twice'[r] = {}
      <4>1. CASE twice'[r] = {}
        BY <1>4, <2>3, <3>4, <3>5, <4>1
      <4>2. CASE twice'[r] # {}
        <5>1. Cardinality(seen'[r]) < Cardinality(Rows(r))
          BY <1>4, <2>3, <3>4, <4>2
        <5>2. Cardinality(seen'[r]) # Cardinality(Rows(r))
          BY <3>0, <5>1
        <5> QED BY <4>2, <5>2
      <4> QED BY <4>1, <4>2
    <3> QED BY <1>4, <2>3, <3>3, <3>6
  <2>4. pc'[r] = "Done" /\ late'[r] = late[r]
    BY <1>1, <1>6 DEF Answer, Goto
  <2>5. MissDone(r)' /\ PartDone(r)'
    BY <1>0, <2>2, <2>3, <2>4 DEF MissDone, PartDone
  <2> QED BY <1>0, <2>4, <2>5 DEF ReaderOK
<1> QED BY <1>5, <1>6 DEF Respond

\* What a step of q leaves of a reader, while it may change the rows.
Untouched(r) ==
    /\ pc'[r] = pc[r] /\ reply'[r] = reply[r] /\ page'[r] = page[r]
    /\ listed'[r] = listed[r] /\ counted'[r] = counted[r] /\ seen'[r] = seen[r]
    /\ first'[r] = first[r] /\ twice'[r] = twice[r] /\ tied'[r] = tied[r]
    /\ (UNCHANGED tables /\ hist'[r] = hist[r] /\ late'[r] = late[r]) \/ Observe

\* The steps of the others leave a reader's pages as good as they were.
LEMMA OthersRead ==
  ASSUME RowsInv, RowsInv', NEW r \in Readers, ReaderOK(r), Untouched(r)
  PROVE  ReaderOK(r)'
<1>1. CASE UNCHANGED tables /\ hist'[r] = hist[r] /\ late'[r] = late[r]
  <2>1. Effects(r) = {} /\ Came(r) = {}
    BY <1>1, RowsStay DEF Effects, Came
  <2>2. /\ hist'[r] = IF pc[r] = "Queries" THEN hist[r] \cup Effects(r) ELSE hist[r]
        /\ late'[r] = IF pc[r] = "Queries" THEN late[r] \cup Came(r) ELSE late[r]
    BY <1>1, <2>1
  <2> QED BY <2>2, Watched DEF Untouched
<1>2. CASE Observe
  <2>1. /\ hist'[r] = IF pc[r] = "Queries" THEN hist[r] \cup Effects(r) ELSE hist[r]
        /\ late'[r] = IF pc[r] = "Queries" THEN late[r] \cup Came(r) ELSE late[r]
    BY <1>2 DEF Observe
  <2> QED BY <2>1, Watched DEF Untouched
<1> QED BY <1>1, <1>2 DEF Untouched

\* Writers, and the requests for one row, touch no reader.
LEMMA WritersRead ==
  ASSUME RowsInv, ReaderShape, NEW q \in Requests \ Readers,
         \/ q \in Writers /\ Begin(q)
         \/ q \in Creates /\ InsertEvent(q)
         \/ q \in Patches /\ (ReadEvent(q) \/ WriteEvent(q))
         \/ q \in Creates \cup Patches /\ (Commit(q) \/ WriteFault(q))
         \/ q \in Books /\ Sell(q)
         \/ q \in Cancels /\ CancelBooking(q)
         \/ q \in Getters /\ Get(q)
  PROVE  ReaderShape' /\ \A r \in Readers : Untouched(r)
<1>0. pc \in [Requests -> PcValues] /\ reply \in [Requests -> Answers]
  BY DEF RowsInv, TypeOK
<1>1. UNCHANGED <<page, listed, counted, first, twice, tied>>
  BY DEF Begin, InsertEvent, ReadEvent, WriteEvent, Commit, WriteFault, Sell, CancelBooking, Get,
         reading
<1>2. seen' = seen \/ (q \in Getters /\ \E rows : seen' = [seen EXCEPT ![q] = rows])
  BY DEF Begin, InsertEvent, ReadEvent, WriteEvent, Commit, WriteFault, Sell, CancelBooking, Get,
         GetRefused, GetMissing, GetHidden, GetShown, reading
<1>3. (UNCHANGED tables /\ hist' = hist /\ late' = late) \/ Observe
  BY DEF Begin, InsertEvent, ReadEvent, WriteEvent, Commit, WriteFault, Sell, CancelBooking, Get,
         watched
<1>4. /\ \E label : pc' = [pc EXCEPT ![q] = label]
      /\ reply' = reply \/ \E a : reply' = [reply EXCEPT ![q] = a]
  BY DEF Begin, InsertEvent, ReadEvent, WriteEvent, Commit, WriteFault, Sell, CancelBooking, Get,
         GetRefused, GetMissing, GetHidden, GetShown, Goto, Answer
<1>5. \A r \in Readers : pc'[r] = pc[r] /\ reply'[r] = reply[r] /\ seen'[r] = seen[r]
  BY <1>0, <1>2, <1>4 DEF ReaderShape
<1>6. ReaderShape'
  BY <1>1, <1>2, <1>3 DEF ReaderShape, Observe
<1> QED BY <1>1, <1>3, <1>5, <1>6 DEF Untouched

\* Nor do readers touch each other.
LEMMA ReadersRead ==
  ASSUME RowsInv, ReaderShape, NEW q \in Readers,
         Open(q) \/ ListQuery(q) \/ CountQuery(q) \/ Respond(q)
  PROVE  ReaderShape' /\ \A r \in Readers \ {q} : Untouched(r)
<1>0. pc \in [Requests -> PcValues] /\ reply \in [Requests -> Answers] /\ page \in [Readers -> Nat \ {0}]
  BY DEF RowsInv, TypeOK
<1>1. /\ pc' = pc \/ \E v : pc' = [pc EXCEPT ![q] = v]
      /\ reply' = reply \/ \E v : reply' = [reply EXCEPT ![q] = v]
      /\ page' = page \/ \E v : page' = [page EXCEPT ![q] = v]
      /\ UNCHANGED tables
  BY DEF Open, ListQuery, CountQuery, Respond, Goto, Answer
<1>2. /\ listed' = listed \/ \E v : listed' = [listed EXCEPT ![q] = v]
      /\ counted' = counted \/ \E v : counted' = [counted EXCEPT ![q] = v]
      /\ seen' = seen \/ \E v : seen' = [seen EXCEPT ![q] = v]
  BY DEF Open, ListQuery, CountQuery, Respond
<1>3. /\ first' = first \/ \E v : first' = [first EXCEPT ![q] = v]
      /\ twice' = twice \/ \E v : twice' = [twice EXCEPT ![q] = v]
      /\ tied' = tied \/ \E v : tied' = [tied EXCEPT ![q] = v]
      /\ late' = late \/ \E v : late' = [late EXCEPT ![q] = v]
      /\ hist' = hist
  BY DEF Open, ListQuery, CountQuery, Respond, watched
<1>4. ReaderShape'
  BY <1>2, <1>3 DEF ReaderShape
<1>5. ASSUME NEW r \in Readers \ {q} PROVE Untouched(r)
  <2>1. pc'[r] = pc[r] /\ reply'[r] = reply[r] /\ page'[r] = page[r]
    BY <1>0, <1>1
  <2>2. listed'[r] = listed[r] /\ counted'[r] = counted[r] /\ seen'[r] = seen[r]
    BY <1>2 DEF ReaderShape
  <2>3. /\ first'[r] = first[r] /\ twice'[r] = twice[r] /\ tied'[r] = tied[r]
        /\ hist'[r] = hist[r] /\ late'[r] = late[r]
    BY <1>3 DEF ReaderShape
  <2> QED BY <1>1, <2>1, <2>2, <2>3 DEF Untouched
<1> QED BY <1>4, <1>5

\* Every step keeps what the readers are promised.
LEMMA ReadStep == ASSUME RowsInv, RowsInv', ReadInv, [Next]_vars PROVE ReadInv'
<1>0. ReaderShape /\ \A r \in Readers : ReaderOK(r)
  BY ReadParts
<1>1. ASSUME ReaderShape', \A r \in Readers : Untouched(r) PROVE ReadInv'
  BY <1>0, <1>1, OthersRead, ReadParts
<1>2. CASE UNCHANGED vars \/ Finished
  <2>1. ReaderShape' /\ \A r \in Readers : Untouched(r)
    BY <1>0, <1>2 DEF Finished, vars, reading, watched, ReaderShape, Untouched
  <2> QED BY <1>1, <2>1
<1>3. ASSUME NEW q \in Requests,
             \/ q \in Writers /\ Begin(q)
             \/ q \in Creates /\ InsertEvent(q)
             \/ q \in Patches /\ (ReadEvent(q) \/ WriteEvent(q))
             \/ q \in Creates \cup Patches /\ (Commit(q) \/ WriteFault(q))
             \/ q \in Books /\ Sell(q)
             \/ q \in Cancels /\ CancelBooking(q)
             \/ q \in Getters /\ Get(q)
      PROVE  ReadInv'
  <2>1. q \notin Readers
    BY <1>3, RequestAssumption
  <2>2. ReaderShape' /\ \A r \in Readers : Untouched(r)
    BY <1>0, <1>3, <2>1, WritersRead
  <2> QED BY <1>1, <2>2
<1>4. ASSUME NEW q \in Readers, Open(q) \/ ListQuery(q) \/ CountQuery(q) \/ Respond(q)
      PROVE  ReadInv'
  <2>1. ReaderShape' /\ \A r \in Readers \ {q} : Untouched(r)
    BY <1>0, <1>4, ReadersRead
  <2>2. ReaderOK(q)'
    BY <1>0, <1>4, OpenRead, ListRead, CountRead, RespondRead
  <2>3. \A r \in Readers \ {q} : ReaderOK(r)'
    BY <1>0, <2>1, OthersRead
  <2> QED BY <2>1, <2>2, <2>3, ReadParts
<1>5. CASE Next
  BY <1>2, <1>3, <1>4, <1>5 DEF Next
<1> QED BY <1>2, <1>5

\* Readers begin with nothing seen.
LEMMA ReadInit == ASSUME Init PROVE ReadInv
<1>1. /\ page = [r \in Readers |-> 1] /\ listed = [r \in Readers |-> NoRow]
      /\ counted = [r \in Readers |-> NoRow] /\ seen = [r \in Readers \cup Getters |-> {}]
      /\ reply = [q \in Requests |-> "none"] /\ twice = [r \in Readers |-> {}]
      /\ first = [r \in Readers |-> {}] /\ hist = [r \in Readers |-> {}]
      /\ tied = [r \in Readers |-> {}] /\ late = [r \in Readers |-> {}]
      /\ \A r \in Readers : pc[r] \in {"Idle", "Done"}
  BY DEF Init
<1>2. ReaderShape
  BY <1>1 DEF ReaderShape
<1>3. ASSUME NEW r \in Readers PROVE ReaderOK(r)
  <2>1. /\ page[r] = 1 /\ listed[r] = NoRow /\ counted[r] = NoRow /\ seen[r] = {} /\ twice[r] = {}
        /\ tied[r] = {} /\ late[r] = {} /\ reply[r] = "none" /\ pc[r] # "Queries"
    BY <1>1
  <2> QED BY <2>1, FS_EmptySet DEF ReaderOK, NotBegun, Through, MissDone, PartDone
<1> QED BY <1>2, <1>3, ReadParts

\* In every reachable state what a reader was shown and what it may yet be shown cover the
\* rows it began with.
LEMMA AlwaysReadInv == Spec => []ReadInv
<1>1. Init => RowsInv /\ ReadInv
  BY RowsInit, ReadInit
<1>2. RowsInv /\ ReadInv /\ [Next]_vars => (RowsInv /\ ReadInv)'
  BY RowsStep, ReadStep
<1> QED BY <1>1, <1>2, PTL DEF Spec

\* Following has_next to the end shows the rows that were there at the beginning, for every
\* list, page size, order and filter, whatever is added in between: of the others there
\* are no more than rows that came after the last page's total was counted, and rows of
\* one stamp at the edge of a page.
THEOREM PagesNeverMiss == Spec => []PagesMissNothing
<1>1. ReadInv => PagesMissNothing
  BY DEF ReadInv
<1> QED BY <1>1, AlwaysReadInv, PTL

\* A list that nobody changes is cut into pages: each row is on one of them, but for rows
\* of one stamp at an edge, and a client that saw no row twice has seen them all.
THEOREM PagesAlwaysPartition == Spec => []PagesPartition
<1>1. ReadInv => PagesPartition
  BY DEF ReadInv
<1> QED BY <1>1, AlwaysReadInv, PTL

\* The inductive invariant of the back office: the rows, the transactions and their locks,
\* the trail, what was shown and what was logged, and the readers' way through the pages.
THEOREM AlwaysBackofficeInv == Spec => []BackofficeInv
<1>1. PermitInv /\ TrailInv /\ ReadInv => BackofficeInv
  BY DEF BackofficeInv
<1> QED BY <1>1, AlwaysPermitInv, AlwaysTrailInv, AlwaysReadInv, PTL
===============================================================================
