SPECIFICATION Spec
CONSTANTS
    t1 = t1
    t2 = t2
    yfinance = yfinance
    fmp = fmp
    None = None
    Metric = "estimates"
    Readers <- TwoReaders
    FALLBACK_POLICY <- Policy
    Capabilities <- BothProviders
    DayLength = 2
    TODAY_TTL = 1
    HISTORICAL_TTL = 2
    LastTick = 3
    MaxDelay = 1
INVARIANTS
    FallbackIsVisible
    VolatileDataExpires
    OnlyLiveTickersAreQuoted
SYMMETRY Threads
