SPECIFICATION Spec
CONSTANTS
    None = None
    t1 = t1
    t2 = t2
    i1 = i1
    i2 = i2
    i3 = i3
    u1 = u1
    u2 = u2
    Kinds = {"exact_domain", "regex_domain", "subscribed_list"}
    Threads = {t1, t2}
    Ids = {i1, i2, i3}
    Urls = {u1, u2}
    UrlOf <- MCUrlOf
    Tags = {"a", "b"}
    InitialTags = {"a"}
    GroupSets <- MCGroupSets
    NoGroups <- MCNoGroups
    Profiled = TRUE
    MaxChanges = 3
    MaxFaults = 1
SYMMETRY ThreadSymmetry
INVARIANTS
    AuditTrail
PROPERTIES
    UnracedRollbackIsExact
CHECK_DEADLOCK FALSE
