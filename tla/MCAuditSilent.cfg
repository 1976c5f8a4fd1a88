\* The audit INSERT of a booking fails.
CONSTANTS
    b1 = b1  b2 = b2  show = show  ann = ann
    Books = {b1, b2}
    Cancels = {}
    Updates = {}
    Events = {show}
    Users = {ann}
    EventOf <- MCEventOf
    UserOf <- MCUserOf
    Tickets <- MCTickets
    Target <- MCTarget
    ByAdmin = {}
    NewCapacity <- MCNewCapacity
    NewStatus <- MCNewStatus
    After <- MCAfter
    MaxPerBooking = 6
    MaxPerUser = 15
    Attempts = 3
    InitEvents <- MCInitEvents
    InitBooked = {}
    InitSpots <- MCInitSpots
    FaultKinds = {"audit"}
    MaxFaults = 1
    Nobody = Nobody
    NoRow = NoRow
    Missing = Missing
    Keep = Keep
SPECIFICATION Spec
INVARIANT
    CompletedIsBooked
