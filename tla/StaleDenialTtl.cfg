SPECIFICATION Spec
CONSTANTS
    c1 = c1
    c2 = c2
    chain = chain
    origin = origin
    Clients <- MCClients
    Nobody = Nobody
    IdentTypes = {chain, origin}
    ProcessChain = chain
    ScopeOf <- MCScopeOf
    NoScope = NoScope
    InitialDisk <- PlainDisk
    DefaultDenialTtl = 1
    Writes <- DenialWrites
    Routes <- SettingUnlockRoutes
    MaxTime = 1
    MaxRequests = 3
    MaxFaults = 0
    Capacity = 2
    GcInterval = 1
    MaxPasswordAttempts = 1
INVARIANTS
    DenialTtlInForce
CHECK_DEADLOCK FALSE
