SPECIFICATION Spec
CONSTANTS
    c1 = c1
    c2 = c2
    unregistered = unregistered
    r1 = r1
    Callers <- ThreeCallers
    Tiered <- TwoCallers
    Runs <- OneRun
    RunOf <- RunOfThree
    Ceiling = 1
    MaxCost = 1
    LastDay = 1
    MaxCrashes = 2
    MaxTorn = 1
    MaxUnpriced = 1
INVARIANTS
    InvoiceIsBounded
    LedgerNeverOverstates
PROPERTIES
    ImplementsGateway
CHECK_DEADLOCK FALSE
SYMMETRY Symmetry
