SPECIFICATION EvidenceSpec
CONSTANTS
    Fetchers = {f1, f2}
    Absent = Absent
    Empty = Empty
    MaxVersion = 3
    MaxCrashes = 1
    Runs = {r1, r2}
    Forced = {r2}
    Domains = {d1, d2}
    Sources = {s1}
    LocalDomains = {d1}
    Silent = {s1}
    Lockable = {d1}
    Retagged = {d1}
    Tags = {"strict", "lax"}
    Ceiling <- MCCeiling
    SourceHours <- MCSourceHours
    MaxAttempts = 2
    MaxNow = 1
    MaxEvents = 1
    Missing = Missing
    MaxPrompt = 2
    MaxMatches = 2
    MaxAnswers = 2
INVARIANTS
    CacheInv
    VerdictInv
PROPERTIES
    SecretStaysScrubbed
    EvidenceKept
    RunEnds
CHECK_DEADLOCK FALSE
