\* No faults: what interleaving alone can do.
CONSTANTS
    b0 = b0  b1 = b1  b2 = b2  b3 = b3  c1 = c1  c2 = c2  p1 = p1
    show = show  ann = ann  bob = bob
    Books = {b0, b1, b2, b3}
    Cancels = {c1, c2}
    Updates = {p1}
    Events = {show}
    Users = {ann, bob}
    EventOf <- MCEventOf
    UserOf <- MCUserOf
    Tickets <- MCTickets
    Target <- MCTarget
    ByAdmin = {c2}
    NewCapacity <- MCNewCapacity
    NewStatus <- MCNewStatus
    After <- MCAfter
    MaxPerBooking = 2
    MaxPerUser = 3
    Attempts = 3
    InitEvents <- MCInitEvents
    InitBooked = {b0}
    InitSpots <- MCInitSpots
    FaultKinds = {}
    MaxFaults = 0
    Nobody = Nobody
    NoRow = NoRow
    Missing = Missing
    Keep = Keep
SPECIFICATION Spec
INVARIANTS
    TypeOK
    NoOverbooking
    LedgerMatches
    UserLimit
    ReserveNeverRefuses
    NoErrorWithoutFault
    NobodyIsStuck
PROPERTIES
    SeatsMoveWithBookings
    ImplementsLedger
