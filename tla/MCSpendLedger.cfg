SPECIFICATION LedgerSpec
CONSTANTS
    Writers = {w1, w2}
    Calls = {k1, k2, k3, k4}
    MaxCrashes = 2
INVARIANTS
    AckedLossBounded
    NothingInvented
PROPERTIES
    AckedRowsStay
CHECK_DEADLOCK FALSE
