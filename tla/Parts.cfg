SPECIFICATION MCSpec
CONSTANTS
    Capacity = 3
    Scopes = {s1, s2, s3, s4}
    Instants = {0, 1}
    Ttls = {1, 2}
    p1 = p1
    p2 = p2
    a1 = a1
    a2 = a2
    m = m
    c = c
    i1 = i1
    i2 = i2
    Requests = {p1, p2}
    Backends = {"gtk", "qt", "appkit", "none"}
    MaxAttempts = 3
    Calls = {"process", "bearer", "complete", "bare"}
    MaxPasswordAttempts = 3
    MaxDeaths = 2
    Agents = {a1, a2}
    Migrators = {m}
    Changers = {c}
    Creators = {i1, i2}
    Nobody = Nobody
    r1 = r1
    r2 = r2
    EmailOrder <- MCEmailOrder
    BadKeys = {"bad"}
    BadIds = {"x"}
    BadNames = {""}
    Trash = "trash"
    Internal = "etc"
    Personal = "personal"
    KeyItem = "fkey"
    PublicKeyItem = "pub"
    BadData = {}
    TrashRetention = 1
    VersionRetention = 1
    NameOrder <- MCNameOrder
    ConcealedData = {}
    TotpData = {}
    Callers = {r1, r2}
    Commands <- MCCommands
    Room = 1
    ReadersN = 2
    MaxPools = 2
    MaxCalls = 2
    Peer = 1
    InitPid = 4
    Tables <- MCTables
    Desktops <- MCDesktops
    MaxDepth = 3
    Contents <- MCContents
    RecordBytes = 2
    ChannelRoom = 1
    Environments <- MCEnvironments
    Shares <- MCShares
    Scripts <- MCScripts
    Blocks <- MCBlocks
    Peers <- MCPeers
    Platforms = {"macos", "desktop", "plain"}
    Duration <- MCDuration
    DenialTtl = 2
    MaxTime = 2
    Exported <- MCExported
    Streams <- MCStreams
    MaxManifest = 6
    MaxFile = 2
    Urls <- MCUrls
    MacBytes <- MCMacBytes
    Moments = {0, 29, 30, 60, 119}
    Listings <- MCListings
    Rows <- MCRows
    Vaults = {"k1", "k2"}
    Ids <- MCIds
    MaxSealed = 9
    Trees <- MCTrees
    Letters <- MCLetters
    Beginnings <- MCBeginnings
    MaxEntries = 3
    Orders <- MCOrders
    Entries <- MCEntries
    MinLength = 10
    MaxLength = 2
    Words = {"Apple", "Brick"}
    Symbols = {"!"}
    Upper = {"A", "B"}
    Lower = {"a", "b"}
    Digits = {"0", "1"}
    HexDigits = {"0", "1", "a"}
    MaxAnswers = 2
    w1 = w1
    w2 = w2
    g1 = g1
    g2 = g2
    Asks = {w1, w2}
    NoAsk = NoAsk
    Desks <- MCDesks
    Wanted <- MCWanted
    GenericNames <- MCGenericNames
    MaxTries = 2
    Runs = {g1, g2}
    NoRun = NoRun
    MaxStarts = 2
    MaxPolls = 2
    Pids = {1, 2, 3, 4}
    Kins <- MCKins
    Shell = 4
    MaxForks = 1
    Comms <- MCComms
    k1 = k1
    k2 = k2
    Lookers = {k1, k2}
    NotLocked = NotLocked
    AppIds = {"x", "y"}
    AppFiles <- MCAppFiles
    Menus <- MCMenus
    Wants <- MCWants
    CurrentDesktop = {"GNOME"}
    Cooldown = 1
    LastHour = 1
    MaxEdits = 1
INVARIANTS
    DialogSound
    RequestsAreMeant
    LockHolds
    VaultSurvives
    ReadsFollowWrites
    OriginsAgree
    WholeOrNothing
    SecretsLeave
    AnswersMatch
    GateHolds
    RoundTrip
    TokensAgree
    WordsAgree
    ArgumentsMeant
    WindowsHonest
    DaemonSound
    ReadingsHold
    CatalogHolds
PROPERTIES
    ImplementsTable
    WindowsAnswer
    CallEnds
CHECK_DEADLOCK FALSE
