CONSTANTS
    u = u
    j1 = j1
    j2 = j2
    m = m
    n = n
    x = x
    y = y
    Clients = {u}
    Jobs = {j1, j2}
    Names = {m, n}
    Contents = {x}
    StraySource = y
    Ids <- MCIds
    Archives <- MCArchives
    MaxDay = 1
    MaxUploads = 2
    MaxHarm = 1
SPECIFICATION MCSpec
INVARIANTS AttachedReadable NothingLeftOver GivenFilesStay
CHECK_DEADLOCK FALSE
PROPERTIES JobsEnd
