----------------------------- MODULE TicketLedger -----------------------------
(***************************************************************************)
(* What the service promises to sell: seats of events, in single steps.    *)
(* There are no requests, locks, transactions or counters here; module     *)
(* Booking is shown to implement it.                                       *)
(***************************************************************************)
EXTENDS Integers, FiniteSetsExt

CONSTANTS Books, Events, EventOf, UserOf, Tickets, MaxPerBooking, MaxPerUser, NoRow

VARIABLES
    stock,   \* [Events -> [capacity, left, open] or NoRow]
    ticket   \* [Books -> {"none", "confirmed", "cancelled"}]

ledger == <<stock, ticket>>

Seats(S) == MapThenSumSet(LAMBDA b : Tickets[b], S)

SoldFor(e) == {b \in Books : ticket[b] = "confirmed" /\ EventOf[b] = e}
SoldTo(u, e) == {b \in Books : ticket[b] = "confirmed" /\ UserOf[b] = u /\ EventOf[b] = e}

Init == /\ ticket \in [Books -> {"none", "confirmed"}]
        /\ \A e \in Events : stock[e] # NoRow =>
              /\ stock[e].left >= 0
              /\ stock[e].capacity - stock[e].left = Seats(SoldFor(e))

\* A seat is sold while the event is open, has seats left, and the user may have more.
Sell(b) ==
    LET e == EventOf[b] IN
    /\ ticket[b] = "none"
    /\ stock[e] # NoRow /\ stock[e].open /\ stock[e].left >= Tickets[b]
    /\ Tickets[b] <= MaxPerBooking
    /\ Seats(SoldTo(UserOf[b], e)) + Tickets[b] <= MaxPerUser
    /\ stock' = [stock EXCEPT ![e].left = @ - Tickets[b]]
    /\ ticket' = [ticket EXCEPT ![b] = "confirmed"]

\* A booking is cancelled once, and its seats can be sold again.
Refund(b) ==
    /\ ticket[b] = "confirmed"
    /\ stock' = [stock EXCEPT ![EventOf[b]].left = @ + Tickets[b]]
    /\ ticket' = [ticket EXCEPT ![b] = "cancelled"]

\* An event is opened, closed or resized; what is sold stays sold.
Revise(e) ==
    /\ stock[e] # NoRow
    /\ \E row \in {stock'[e]} :
          /\ row.capacity - row.left = stock[e].capacity - stock[e].left
          /\ row.left >= 0 /\ row.open \in BOOLEAN
          /\ stock' = [stock EXCEPT ![e] = row]
    /\ UNCHANGED ticket

Next == \/ \E b \in Books : Sell(b) \/ Refund(b)
        \/ \E e \in Events : Revise(e)

Spec == Init /\ [][Next]_ledger
=============================================================================
