SPECIFICATION MCSpec
CONSTANTS
    c1 = c1
    c2 = c2
    chain = chain
    origin = origin
    Clients <- MCClients
    Nobody = Nobody
    IdentTypes = {chain, origin}
    ProcessChain = chain
    ScopeOf <- MCScopeOf
    NoScope = NoScope
    InitialDisk <- PlainDisk
    DefaultDenialTtl = 1
    Writes <- NoWrites
    Routes <- GrantedRoutes
    MaxTime = 1
    MaxRequests = 3
    MaxFaults = 1
    Capacity = 1
    GcInterval = 1
    MaxPasswordAttempts = 2
    Mixing = {"dialogs", "denials"}
INVARIANTS
    AuthorizedVaultIsOpen
PROPERTIES
    KeepsPromise
    DenialsStand
CHECK_DEADLOCK FALSE
