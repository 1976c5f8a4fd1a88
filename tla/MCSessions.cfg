\* Registrations and a login racing, or refreshes, a logout and a login; one fault.
CONSTANTS
    g1 = g1  g2 = g2  l1 = l1  l2 = l2  f1 = f1  f2 = f2  o1 = o1
    seed = seed  home = home  work = work
    Registers = {g1, g2}
    Logins = {l1, l2}
    Refreshes = {f1, f2}
    Logouts = {o1}
    Traffic <- MCTraffic
    Accounts = {seed}
    Seeded = {seed}
    Addresses = {home, work}
    AddressOf <- MCAddressOf
    Life = 1
    MaxTime = 2
    MaxFaults = 1
    Nobody = Nobody
    NoToken = NoToken
SPECIFICATION FairSpec
INVARIANTS
    IInv
    SessionsHaveOwners
    UnusedTokenLives
    RegistrationsAgree
    RefreshKeepsLogin
PROPERTIES
    NoReuse
    Answered
