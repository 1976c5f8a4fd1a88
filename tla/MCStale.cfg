\* A counter that is missing, too low or too high at the start.
CONSTANTS
    b1 = b1  b2 = b2  b3 = b3  b4 = b4
    show = show  gone = gone  ann = ann  bob = bob  cat = cat
    Books = {b1, b2, b3, b4}
    Cancels = {}
    Updates = {}
    Events = {show, gone}
    Users = {ann, bob, cat}
    EventOf <- MCEventOf
    UserOf <- MCUserOf
    Tickets <- MCTickets
    Target <- MCTarget
    ByAdmin = {}
    NewCapacity <- MCNewCapacity
    NewStatus <- MCNewStatus
    After <- MCAfter
    MaxPerBooking = 6
    MaxPerUser = 15
    Attempts = 3
    InitEvents <- MCInitEvents
    InitBooked = {}
    InitSpots <- MCInitSpots
    FaultKinds = {"flush", "resend"}
    MaxFaults = 1
    Nobody = Nobody
    NoRow = NoRow
    Missing = Missing
    Keep = Keep
SPECIFICATION Spec
INVARIANTS
    SoldOutIsJustified
    NoUnderbooking
