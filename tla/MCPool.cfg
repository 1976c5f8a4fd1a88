\* Fewer transactions than connections; the probe can take the last one.
CONSTANTS
    show = show
    Books = {b1, b2}
    Probes = {p1}
    Events = {show}
    EventOf <- MCEventOf
    PoolMax = 3
    Ttl = 2
    InitTable <- MCInitTable
    Limits = {2, 3, 6}
    HardDefault = 6
    MaxTime = 3
    MaxChanges = 1
    MaxFaults = 1
    Default = Default
    NoRow = NoRow
    Nobody = Nobody
SPECIFICATION FairSpec
INVARIANTS
    LimitsAtMostTtlOld
    CacheComesFromTable
    PoolInv
PROPERTIES
    DefaultsHaveCause
    AnsweredWhileUp
    ShutdownEnds
\* A shutdown that catches a booking waiting for its second connection never ends.
CHECK_DEADLOCK FALSE
