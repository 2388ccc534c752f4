SPECIFICATION MCSpec
CONSTANTS
    interval = interval
    token = token
    v1 = v1
    v2 = v2
    Bad = Bad
    None = None
    Keys = {interval, token}
    Interval = interval
    SecretKeys = {token}
    Checked = {interval}
    Values = {v1, v2}
    Offered = {v1}
    Environment <- MCEnvironment
    Fallback <- MCFallback
    Secrets = {1, 2}
    Savers = {s1, s2}
    MaxFaults = 1
    Events = {e1, e2}
    Levels = {"chatter", "routine", "error"}
    Hosts = {h1, h2}
    Endpoints = {p1}
    MaxChanges = 1
    Nowhere = Nowhere
    Unknown = Unknown
    Books <- MCBooks
    Identity <- MCIdentity
    TitleSimilarity <- MCTitleSimilarity
    NameSimilarity <- MCNameSimilarity
    SharedTokens <- MCSharedTokens
    Records <- MCRecords
    Owned <- MCOwned
    ServerOf <- MCServerOf
    Downloadable = {"s1"}
    Size <- MCSize
    Files <- MCFiles
    Unset = Unset
    MaxMoves = 2
CHECK_DEADLOCK FALSE
INVARIANTS
    TypesOK
    UsedInForce
PROPERTIES
    SavedInForce
    
    Told
    PickKept
    SelectionAnswered
