\* A request above the per-booking limit; no faults.
CONSTANTS
    b1 = b1  b2 = b2  show = show  ann = ann
    Books = {b1, b2}
    Cancels = {}
    Updates = {}
    Events = {show}
    Users = {ann}
    EventOf <- MCEventOf
    UserOf <- MCUserOf
    Tickets <- MCTickets
    Target <- MCTarget
    ByAdmin = {}
    NewCapacity <- MCNewCapacity
    NewStatus <- MCNewStatus
    After <- MCAfter
    MaxPerBooking = 6
    MaxPerUser = 15
    Attempts = 3
    InitEvents <- MCInitEvents
    InitBooked = {}
    InitSpots <- MCInitSpots
    FaultKinds = {}
    MaxFaults = 0
    Nobody = Nobody
    NoRow = NoRow
    Missing = Missing
    Keep = Keep
SPECIFICATION Spec
INVARIANT
    FailuresAreAudited
