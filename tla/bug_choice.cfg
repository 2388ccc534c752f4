SPECIFICATION ListSpec
CONSTANTS
    Unknown = Unknown
    Books <- MCBooks
    Identity <- MCIdentity
    TitleSimilarity <- MCTitleSimilarity
    NameSimilarity <- MCNameSimilarity
    SharedTokens <- MCSharedTokens
    Records <- MCRecords
    Owned <- MCOwned
    ServerOf <- MCServerOf
    Downloadable = {"s1"}
    Size <- MCSize
    Files <- MCFiles
    Unset = Unset
    MaxMoves = 2
CHECK_DEADLOCK FALSE
PROPERTY PickedOrNothing
