SPECIFICATION HealthSpec
CONSTANTS
    a = a
    b = b
    p1 = p1
    tickA = tickA
    tickB = tickB
    None = None
    Dangling <- NoRunOf
    Keys <- TwoKeys
    Importers <- OneImporter
    CSVs <- HealthCSVs
    Books <- SomeBooks
    TickerOf <- Ticker
    Quotes <- HealthQuotes
    MaxStaleDays = 0
    LastDay = 1
    MaxImports = 2
    SameSecond = FALSE
INVARIANTS
    BookIsLastImport
    AuditStatesTheQuantity
    ArchiveReplaysHistory
    ReportIsAsFreshAsItSays
    ReportAnswersForTheExport
    CrossedStopIsReported
PROPERTIES
    StopsSurviveImports
CHECK_DEADLOCK FALSE
