\* As many bookings as connections, of one event whose limits are not cached.
CONSTANTS
    show = show
    Books = {b1, b2}
    Probes = {}
    Events = {show}
    EventOf <- MCEventOf
    PoolMax = 2
    Ttl = 2
    InitTable <- MCInitTable
    Limits = {2, 3, 6}
    HardDefault = 6
    MaxTime = 1
    MaxChanges = 0
    MaxFaults = 0
    Default = Default
    NoRow = NoRow
    Nobody = Nobody
SPECIFICATION FairSpec
PROPERTIES
    PoolLimitsOnly
\* The starved pool is a stop.
CHECK_DEADLOCK FALSE
