CONSTANTS
    Tickers <- MCTickers
    Canonical <- MCCanonical
    Dates <- MCDates
    Confs <- MCConfs
    Bookings <- MCBookings
    Texts = {TRUE, FALSE}
    MaxRecur = 15
    MaxEntries = 1
    Hold = 1
    LastDay = 2
    MaxFaults = 1
    Crypto = {"btc-usd"}
    Depths = {1, 3}
    EnvRounds <- MCEnvRounds
SPECIFICATION CliSpec
INVARIANTS
    ProgressIsTruthful
    KeyFitsEndpoint
PROPERTIES
    ProgressOnlyAdvances
