SPECIFICATION ClientSpec
CONSTANTS
    Second = 1
    MaxDelay = 4
    MaxAdaptive = 2
    NoDelay = NoDelay
    Workers = {w1, w2}
    Kinds <- MCKinds
    Headers <- MCHeaders
    MaxRetries = 1
    Base = 1
    MaxCalls = 1
    None = None
    NoSession = NoSession
    MaxSessions = 3
    MaxOps = 3
    MaxFaults = 2
INVARIANTS
    RequestInv
PROPERTIES
    ConnectionSafe
    Paced
    CallEnds
CHECK_DEADLOCK FALSE
