SPECIFICATION FairSpec
CONSTANTS
    c1 = c1
    c2 = c2
    chain = chain
    origin = origin
    Clients <- MCClients
    Nobody = Nobody
    IdentTypes = {chain, origin}
    ProcessChain = chain
    ScopeOf <- MCScopeOf
    NoScope = NoScope
    InitialDisk <- PlainDisk
    DefaultDenialTtl = 1
    Writes <- NoWrites
    Routes <- JobRoutes
    MaxTime = 1
    MaxRequests = 2
    MaxFaults = 1
    Capacity = 2
    GcInterval = 1
    MaxPasswordAttempts = 1
PROPERTIES
    IdleVaultCloses
CHECK_DEADLOCK FALSE
