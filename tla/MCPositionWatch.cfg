SPECIFICATION Spec
CONSTANTS
    None = None
    Writable <- ManyRules
    Prices <- SomePrices
    Cost = 100
    OpenedAt = 0
    NextEarnings = 1
    MaxRules = 2
    LastDay = 2
INVARIANTS
    OrderDoesNotMatter
PROPERTIES
    ExitDoesNotHeal
CHECK_DEADLOCK FALSE
