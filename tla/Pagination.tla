------------------------------ MODULE Pagination ------------------------------
(***************************************************************************)
(* LIMIT/OFFSET pages of a query result, and the pagination block of the   *)
(* answers of listEvents, listBookings and listAuditLog.                   *)
(***************************************************************************)
EXTENDS Integers, FiniteSetsExt

OffsetOfNext(page, limit) == page * limit
Offset(page, limit) == (page - 1) * limit

\* Math.ceil(total / limit) || 1
TotalFloor(total, limit) == Max({1, total \div limit})
TotalPages(total, limit) == Max({1, (total + limit - 1) \div limit})

HasNext(page, total, limit) == page < TotalPages(total, limit)

\* The first n rows: any choice that leaves out nothing that comes before a chosen one.
Firsts(rows, n, Before(_, _)) ==
    {A \in kSubset(Min({n, Cardinality(rows)}), rows) :
        \A a \in A, b \in rows \ A : ~Before(b, a)}

\* What ORDER BY ... LIMIT ... OFFSET may answer; PostgreSQL breaks ties as it likes,
\* and not twice in the same way.
Pages(rows, page, limit, Before(_, _)) ==
    UNION {{B \ A : A \in {A \in Firsts(rows, Offset(page, limit), Before) : A \subseteq B}} :
           B \in Firsts(rows, Offset(page, limit) + limit, Before)}
=============================================================================
