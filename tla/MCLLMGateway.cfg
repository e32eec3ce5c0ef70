SPECIFICATION Spec
CONSTANTS
    c1 = c1
    c2 = c2
    c3 = c3
    unregistered = unregistered
    r1 = r1
    r2 = r2
    Callers <- FourCallers
    Tiered <- ThreeTiered
    Runs <- TwoRuns
    RunOf <- RunOfCaller
    Ceiling = 2
    MaxCost = 2
    LastDay = 1
INVARIANTS
    SpendIsBounded
    CommittedIsBounded
PROPERTIES
    ExhaustedDayStaysShut
    ImplementsBudget
