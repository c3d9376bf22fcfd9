SPECIFICATION Spec
CONSTANTS
    c1 = c1
    c2 = c2
    chain = chain
    origin = origin
    Clients <- MCClients
    Nobody = Nobody
    IdentTypes = {chain, origin}
    ProcessChain = chain
    ScopeOf <- MCScopeOf
    NoScope = NoScope
    InitialDisk <- PlainDisk
    DefaultDenialTtl = 1
    Writes <- NoWrites
    Routes <- LockRoutes
    MaxTime = 1
    MaxRequests = 2
    MaxFaults = 0
    Capacity = 2
    GcInterval = 1
    MaxPasswordAttempts = 1
PROPERTIES
    SweepKeepsLiveAuthorizations
CHECK_DEADLOCK FALSE
