SPECIFICATION InstallationSpec
CONSTANTS
    Unset = Unset
    Nothing = Nothing
    New = New
    Old = Old
    Second = Second
    b0 = b0
    b1 = b1
    d1 = d1
    d2 = d2
    Procs = {New, Old, Second}
    BaselineVersion = 7
    LegacyVersion = 12
    CurrentDb = 13
    FirstVersions = {7, 12}
    Feeds <- MCFeeds
    Archives <- MCArchives
    OwnVersion = 1
    OwnBuild = b0
    Items = {"options", "instances"}
    PreservedNames = {"options", "database"}
    MaxPolls = 1
    Payloads <- MCPayloads
    Bundled <- MCBundled
    ProviderLimits <- MCProviderLimits
    Metrics = {"rpm", "tpd"}
    MaxFetches = 2
    None = None
    Nil = Nil
    Absent = Absent
    Corrupt = Corrupt
    Later = Later
    p1 = p1
    p2 = p2
    p3 = p3
    f1 = f1
    f2 = f2
    f3 = f3
    i1 = i1
    i2 = i2
    i3 = i3
    kPw = kPw
    kVapid = kVapid
    k1 = k1
    k2 = k2
    k3 = k3
    u1 = u1
    u2 = u2
    s1 = s1
    s2 = s2
    Secrets = {s1, s2}
    Keys = {kPw, kVapid, k1, k2, k3}
    FreshIds <- MCFreshIds
    NormalOf <- MCNormalOf
    DefaultTags <- MCDefaultTags
    DefaultOrder <- MCDefaultOrder
    DefaultKinds <- MCDefaultKinds
    CurrentVersion = 18
    RawFiles <- MCRawFiles
    RawRegistries <- MCRawRegistries
    SlotKey = kPw
    VapidKey = kVapid
    Instances = {i1, i2, i3}
    InstKey <- MCInstKey
    Urls = {u1, u2}
    NameOrder <- MCNameOrder
    NewProvider = p3
    MaxSaves = 2
    MaxFaults = 1
INVARIANTS
    MigrationInv
    UpdateInv
    
PROPERTIES
    RegistrySafe
    FilesKept
    OutageKeepsPasswords
    ScriptEnds
CHECK_DEADLOCK FALSE
