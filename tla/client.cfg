SPECIFICATION MCSpec
CONSTANTS
    Requests = {q1, q2}
    Kinds = {"json", "download", "itemDownload", "file", "upload"}
    MaxRetries = 1
    MaxTroubles = 1
    MaxExpiries = 1
    Accounts <- MCAccounts
    None = None
    Items <- MCItems
    MaxChanges = 2
    MaxAttempts = 3
    MaxItemSize = 4
    Absent = None
CHECK_DEADLOCK FALSE
INVARIANTS
    TypesOK
    OneLogin
    UploadWhole
    ListingRight
PROPERTIES
    SurvivesExpiry
    DownloadFinds
    Answered
    UploadEnds
    AnswerTold
    FetchedOnce
