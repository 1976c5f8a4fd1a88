------------------------------- MODULE AuditLog -------------------------------
(***************************************************************************)
(* The queries on event_audit_log and booking_audit_log.  A query is its   *)
(* conditions, each on a column and a numbered parameter, and its          *)
(* parameters; an absent filter adds neither.                              *)
(***************************************************************************)
EXTENDS Integers, SequencesExt

CONSTANT None     \* an absent filter, and NULL in a column

Logs == {"event", "booking"}

Given(value) == value # None

\* One conjunct of a WHERE clause, when its filter is given.
Conjunct(column, op, value) ==
    IF Given(value) THEN <<[column |-> column, op |-> op, value |-> value]>> ELSE <<>>

BookingConjunct(log, f) == IF log = "booking" THEN Conjunct("booking", "=", f.booking) ELSE <<>>

Conjuncts(log, f) ==
    Conjunct("event", "=", f.event) \o BookingConjunct(log, f)
    \o Conjunct("outcome", "=", f.outcome)
    \o Conjunct("at", ">=", f.from) \o Conjunct("at", "<=", f.to)

\* buildWhereClause: the values become parameters, numbered from $1.
BuildWhereClause(log, f) ==
    LET c == Conjuncts(log, f) IN
    [conditions |-> [i \in DOMAIN c |-> [column |-> c[i].column, op |-> c[i].op, param |-> i]],
     params     |-> [i \in DOMAIN c |-> c[i].value]]

ShiftedOne(conditions, n) == [i \in DOMAIN conditions |-> [conditions[i] EXCEPT !.param = @ + n - 1]]
Shifted(conditions, n) == [i \in DOMAIN conditions |-> [conditions[i] EXCEPT !.param = @ + n]]

\* A comparison with NULL is not true.
Holds(condition, params, row) ==
    LET value == row[condition.column]
        param == params[condition.param] IN
    /\ value # None
    /\ CASE condition.op = "="  -> value = param
         [] condition.op = ">=" -> value >= param
         [] condition.op = "<=" -> value <= param

\* SELECT ... FROM one log WHERE conditions.
Select(rows, log, conditions, params) ==
    {row \in rows : row.log = log /\ \A i \in DOMAIN conditions : Holds(conditions[i], params, row)}

\* Without a type, a booking_id means the booking log alone.
EventLogOnly(f) == f.type = "event"
BookingLogOnly(f) == f.type # "event" /\ (f.type = "booking" \/ Given(f.booking))

SelectOne(rows, log, f) ==
    LET w == BuildWhereClause(log, f) IN Select(rows, log, w.conditions, w.params)

\* UNION ALL: the conditions on bookings use the parameters after those on events.
SelectBoth(rows, f) ==
    LET e == BuildWhereClause("event", f)
        b == BuildWhereClause("booking", f)
        params == e.params \o b.params IN
    Select(rows, "event", e.conditions, params)
    \cup Select(rows, "booking", Shifted(b.conditions, Len(e.params)), params)

\* buildCombinedAuditListQuery, before LIMIT and OFFSET.
Combined(rows, f) == IF EventLogOnly(f) THEN SelectOne(rows, "event", f)
                     ELSE IF BookingLogOnly(f) THEN SelectOne(rows, "booking", f)
                     ELSE SelectBoth(rows, f)

\* buildCombinedAuditCountQuery.
CombinedCount(rows, f) ==
    LET e == BuildWhereClause("event", f)
        b == BuildWhereClause("booking", f)
        params == e.params \o b.params IN
    IF EventLogOnly(f) THEN Cardinality(SelectOne(rows, "event", f))
    ELSE IF BookingLogOnly(f) THEN Cardinality(SelectOne(rows, "booking", f))
    ELSE Cardinality(Select(rows, "event", e.conditions, params))
         + Cardinality(Select(rows, "booking", Shifted(b.conditions, Len(e.params)), params))

\* The queries of EventAuditRepository and BookingAuditRepository, list and count, which
\* build their own clauses.
EventAudit(rows, f) ==
    {row \in rows : /\ row.log = "event"
                    /\ Given(f.event) => row.event = f.event
                    /\ Given(f.outcome) => row.outcome = f.outcome
                    /\ Given(f.from) => row.at >= f.from
                    /\ Given(f.to) => row.at <= f.to}
BookingAudit(rows, f) ==
    {row \in rows : /\ row.log = "booking"
                    /\ Given(f.event) => row.event = f.event
                    /\ Given(f.booking) => row.booking = f.booking
                    /\ Given(f.outcome) => row.outcome = f.outcome
                    /\ Given(f.from) => row.at >= f.from
                    /\ Given(f.to) => row.at <= f.to}

\* ORDER BY created_at DESC, on each of them.
NewestFirst(r, s) == r.at > s.at
=============================================================================
