\* Writers, readers and refusals, with one fault.
CONSTANTS
    c1 = c1  c2 = c2  p1 = p1  p2 = p2  b0 = b0  b1 = b1  x1 = x1  x2 = x2  r1 = r1  r2 = r2  r3 = r3  r4 = r4
    r5 = r5  r6 = r6  r7 = r7  r8 = r8  g1 = g1  g2 = g2  g3 = g3  g4 = g4  k1 = k1  k2 = k2  ann = ann  bob = bob  root = root
    Users = {ann, bob, root}
    Creates = {c1, c2}
    Patches = {p1, p2}
    Books = {b0, b1, k1, k2}
    Cancels = {x1, x2}
    Readers = {r1, r2, r3, r4, r5, r6, r7, r8}
    Getters = {g1, g2, g3, g4}
    RouteOf <- MCRouteOf
    HeadersOf <- MCHeadersOf
    Body <- MCBody
    EventOf <- MCEventOf
    Query <- MCQuery
    Traffic <- MCTraffic
    Ids = {1, 2, 3}
    Names = {1}
    Capacities = {1, 2, 3}
    InitEvents <- MCInitEvents
    InitBookings <- MCInitBookings
    InitLog <- MCInitLog
    InitNow = 4
    Filters <- MCFilters
    MaxFaults = 1
    Production = FALSE
    Nobody = Nobody
    None = None
    NoRow = NoRow
SPECIFICATION Spec
INVARIANTS
    TrailExplainsEvents
    FiltersAgree
    PagesMissNothing
    PagesPartition
    OnlyPermitted
    SeatsAreBookings
    BackofficeInv
