SPECIFICATION Spec
CONSTANTS
    tech = tech
    macro = macro
    news = news
    bull = bull
    bear = bear
    trader = trader
    boss = boss
    r1 = r1
    Runs <- OneRun
    Analysts <- ThreeAnalysts
    Debate <- Debaters
    Downstream <- Chain
    Silent <- News
    Ceiling = 4
    MaxCost = 2
    LastDay = 1
INVARIANTS
    DebateReadsTheSoundReports
    EveryOutputIsPaidFor
    DoneRunIsWhole
    OvershootByASuperstep
PROPERTIES
    EveryRunEnds
CHECK_DEADLOCK FALSE
