SPECIFICATION LiveSpec
CONSTANTS
    Domains = {d1, d2}
    Excluded = {}
    BatchSize = 2
    TriggerSize = 2
    MaxWait = 1
    MaxDelay = 1
    MaxEvents = 2
PROPERTIES
    ProcessingEnds
    QueuedServed
CHECK_DEADLOCK FALSE
