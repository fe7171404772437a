SPECIFICATION MCSpec
CONSTANTS
    None = None
    d1 = d1
    d2 = d2
    q1 = q1
    q2 = q2
    w1 = w1
    w2 = w2
    l1 = l1
    l2 = l2
    l3 = l3
    Domains = {d1, d2}
    Locked = {d2}
    Queries = {q1, q2}
    DomainOf <- MCDomainOf
    BatchSize = 1
    HistoryBatch = 1
    SecondTicks = 3
    Lookback = 2
    History = 3
    IdleAfter = 1
    Cooldown = 2
    Backfill = TRUE
    MaxTime = 5
    MaxScanFaults = 1
    Workers = {w1, w2}
    Lists <- MCLists
    LinesOf <- MCLinesOf
    Readable = {l1, l3}
    AuditBatch = 1
    DomainCap = 3
    ByteLimit = 10
    MaxRequests = 2
    MaxAuditFaults = 1
    SharedQueries = 1
    SharedDue = 0
    SharedTime = 4
    SharedFaults = 0
    SharedRequests = 1
INVARIANTS
    ScanInv
    AuditInv
PROPERTIES
    BackfillCovers
    IntakeProgress
CHECK_DEADLOCK FALSE
