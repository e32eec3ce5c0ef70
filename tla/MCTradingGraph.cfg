CONSTANTS
    Tickers <- MCTickers
    Canonical <- MCCanonical
    Dates <- MCDates
    Confs <- MCConfs
    Bookings <- MCBookings
    MaxRecur = 9
    Texts = {TRUE}
    MaxEntries = 1
    Hold = 1
    LastDay = 2
    MaxFaults = 2
SPECIFICATION Spec
INVARIANTS
    EveryoneIsHeard
    LogIsBacked
PROPERTIES
    ImplementsAgenda
    OutcomesAreFinal
    RunEnds
