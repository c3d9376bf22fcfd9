SPECIFICATION MCSpec
CONSTANTS
    c1 = c1
    c2 = c2
    chain = chain
    origin = origin
    Clients <- MCClients
    Nobody = Nobody
    IdentTypes = {chain, origin}
    ProcessChain = chain
    ScopeOf <- MCScopeOf
    NoScope = NoScope
    InitialDisk <- AnyDisk
    DefaultDenialTtl = 1
    Writes <- AllWrites
    Routes <- WorkRoutes
    MaxTime = 1
    MaxRequests = 4
    MaxFaults = 1
    Capacity = 2
    GcInterval = 1
    MaxPasswordAttempts = 1
    Mixing = {"settings", "jobs"}
INVARIANTS
    TypeOK
    AuthorizedUnderCurrentType
    UnlocksUnderWay
PROPERTIES
    OnlyUnlocksRenew
    WorkPinsVault
CHECK_DEADLOCK FALSE
