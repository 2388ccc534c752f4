SPECIFICATION MCSpec
CONSTANTS
    None = None
    Unknown = Unknown
    NoTitle = NoTitle
    Books <- MCBooks
    Identity <- MCIdentity
    TitleSimilarity <- MCTitleSimilarity
    NameSimilarity <- MCNameSimilarity
    SharedTokens <- MCSharedTokens
    MaxSources = 3
    MaxOwned = 2
    Items <- MCItems
    WorkOf <- MCWorkOf
    GroupOf <- MCGroupOf
    Requests = {c1, c2}
    MaxRows = 3
    Slots = {t1, t2}
    MaxLate = 1
    Servers = {"mine", "here", "there"}
    ServerOf <- MCServerOf
    Downloadable = {"mine", "here", "there"}
    Watches <- MCWatches
    WatchTarget <- MCWatchTarget
    WatchSeries <- MCWatchSeries
    MaxMoves = 1
    Ids = {s1, s2}
    Callers = {c1, c2}
    Absent = Absent
    Addresses = {a1, a2}
    Libraries = {l1}
    MaxUpstream = 1
    ours = ours
    theirs = theirs
    ItemIds <- MCItemIds
    ServerOfItem <- MCServerOfItem
    Target = "mine"
    Comparers = {c1, c2}
    NoRun = NoRun
    MaxRuns = 2
    MaxSwitches = 1
    MaxEntries = 1
SYMMETRY Symmetry
CHECK_DEADLOCK FALSE
INVARIANTS
    TypesOK
    SurplusBounded
    Accounted
    QueuedSafely
PROPERTIES
    OneTarget
    LibraryKept
    ServedCurrent
    Unowned
