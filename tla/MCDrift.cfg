\* Without any fault: the counter after two racing requests and a third one.
CONSTANTS
    b1 = b1  b2 = b2  b3 = b3
    show = show  ann = ann  bob = bob  cat = cat
    Books = {b1, b2, b3}
    Cancels = {}
    Updates = {}
    Events = {show}
    Users = {ann, bob, cat}
    EventOf <- MCEventOf
    UserOf <- MCUserOf
    Tickets <- MCTickets
    Target <- MCTarget
    ByAdmin = {}
    NewCapacity <- MCNewCapacity
    NewStatus <- MCNewStatus
    After <- MCAfter
    MaxPerBooking = 6
    MaxPerUser = 15
    Attempts = 3
    InitEvents <- MCInitEvents
    InitBooked = {}
    InitSpots <- MCInitSpots
    FaultKinds = {}
    MaxFaults = 0
    Nobody = Nobody
    NoRow = NoRow
    Missing = Missing
    Keep = Keep
SPECIFICATION Spec
INVARIANT
    NextRequestHeals
