\* Two faults of any kind, anywhere.
CONSTANTS
    b0 = b0  b1 = b1  b2 = b2  c1 = c1  p1 = p1
    show = show  ann = ann  bob = bob
    Books = {b0, b1, b2}
    Cancels = {c1}
    Updates = {p1}
    Events = {show}
    Users = {ann, bob}
    EventOf <- MCEventOf
    UserOf <- MCUserOf
    Tickets <- MCTickets
    Target <- MCTarget
    ByAdmin = {}
    NewCapacity <- MCNewCapacity
    NewStatus <- MCNewStatus
    After <- MCAfter
    MaxPerBooking = 2
    MaxPerUser = 2
    Attempts = 3
    InitEvents <- MCInitEvents
    InitBooked = {b0}
    InitSpots <- MCInitSpots
    FaultKinds = {"redis", "resend", "postgres", "deadlock", "audit", "commit", "crash", "flush"}
    MaxFaults = 2
    Nobody = Nobody
    NoRow = NoRow
    Missing = Missing
    Keep = Keep
SPECIFICATION Spec
INVARIANTS
    IInv
    LedgerInv
    AnswerInv
    AuditMatches
    RefusalChangesNothing
PROPERTIES
    ImplementsLedger
