SPECIFICATION Spec
CONSTANTS
    t1 = t1
    t2 = t2
    Snapshot = "get_verified_market_snapshot"
    Threads <- MCThreads
    Messages <- MCMessages
    Configs <- MCConfigs
    Series <- MCSeries
    LookBack = 1
    MaxStale = 1
    max_retries = 1
    LastDay = 2
INVARIANTS
    NoLookAhead
    StalePricesAreNotShown
    OutagesAreNotFindings
    AnswersAreOfChosenVendors
PROPERTIES
    CallsEnd
