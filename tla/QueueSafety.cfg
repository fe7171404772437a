SPECIFICATION Spec
CONSTANTS
    Domains = {d1, d2}
    Excluded = {}
    BatchSize = 2
    TriggerSize = 2
    MaxWait = 1
    MaxDelay = 1
    MaxEvents = 4
SYMMETRY Symmetry
INVARIANTS
    TypeOK
    ClaimKept
    NoDoubleWork
    NoOrphan
    LockedNotQueued
PROPERTY FollowsLifecycle
CHECK_DEADLOCK FALSE
