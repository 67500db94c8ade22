SPECIFICATION Spec
CONSTANTS
    Logins = {1, 2}
    Bearers = {3}
    Refreshes = {4}
    Ids = {1}
    MaxAccounts = 2
    AccessLife = 1
    RefreshLife = 2
    MaxAuthTime = 2
    MaxPairs = 3
    MaxStarts = 1
    SecretConfigured = FALSE
    Attempts = {1, 2, 3}
    Capacity = 2
    Period = 3
    Unit = 2
    Timeout = 1
    MaxLimitTime = 7
    MaxChunks = 3
    Faults = {"send", "log"}
    PoolRequests = {"delete", "upload", "ready"}
    Kind <- KindOf
    PoolSize = 1
    MaxOverflow = 1
    MaxRestarts = 1
    Stallers = {"delete", "ready"}
    Timeouts = TRUE
    PageSize = 2
    MaxId = 5
INVARIANTS
    TypeOK
    RetryIsExact
    OneResponse
    StatusIsSent
    FailureLoggedOnce
    NoHoldAndWait
    NothingLeaks
    PagesExplained
PROPERTIES
    OnlyOwner
    TokensExpire
    ImplementsQuota
CHECK_DEADLOCK FALSE
