\* Deadlock victims are retried until they give up.
CONSTANTS
    b1 = b1  b2 = b2  b3 = b3
    show = show  ann = ann  bob = bob
    Books = {b1, b2, b3}
    Cancels = {}
    Updates = {}
    Events = {show}
    Users = {ann, bob}
    EventOf <- MCEventOf
    UserOf <- MCUserOf
    Tickets <- MCTickets
    Target <- MCTarget
    ByAdmin = {}
    NewCapacity <- MCNewCapacity
    NewStatus <- MCNewStatus
    After <- MCAfter
    MaxPerBooking = 2
    MaxPerUser = 2
    Attempts = 3
    InitEvents <- MCInitEvents
    InitBooked = {}
    InitSpots <- MCInitSpots
    FaultKinds = {"deadlock"}
    MaxFaults = 3
    Nobody = Nobody
    NoRow = NoRow
    Missing = Missing
    Keep = Keep
SPECIFICATION FairSpec
INVARIANTS
    CounterHidesNoSeat
    DebtIsCovered
PROPERTIES
    Answered
