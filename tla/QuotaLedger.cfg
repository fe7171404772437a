SPECIFICATION Spec
CONSTANTS
    Ids = {r1, r2, r3}
    Tokens = {1, 2}
    RequestLimit = 3
    RequestWindow = 2
    TokenLimit = 6
    Day = 3
    SafetyMargin = 25
    RealtimeReserve = 40
    MinExpiry = 1
    LiveLimits = {1, 3}
    MaxReset = 4
SYMMETRY Symmetry
INVARIANTS
    LedgerInv
    RetryIsEarliest
