CONSTANTS
    Trash = "trash"
    Internal = "internal"
    Personal = "personal"
    KeyItem = "fkey"
    PublicKeyItem = "pub"
    BadNames = {"bad"}
    f1 = f1
    q = q
    secret = secret
    BadData = {}
    TrashRetention = 1
    VersionRetention = 1
    NameOrder <- MCNameOrder
    ConcealedData = {secret}
    TotpData = {}
    DirNames = {"trash", "internal", "personal", "etc"}
    ItemNames = {"a", "b", "c"}
    Files = {f1}
    Creations <- MCCreations
    Updates <- MCUpdates
    PageLimit = 1
    MaxTime = 2
    MaxSetBack = 1
    MaxVersion = 3
    MaxDirs = 4
    MaxItems = 8
    Orders <- MCOrders
    TrashNames <- MCTrashNames
    PageSize = 1
    MaxFound = 2
    Reads <- MCReads
SPECIFICATION MCSpec
INVARIANTS RowsSound ReadsHold
PROPERTIES HistoryIsAppendOnly NothingIsLost CommandsEnd
CHECK_DEADLOCK FALSE
