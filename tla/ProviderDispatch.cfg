CONSTANTS
    p1 = p1
    p2 = p2
    p3 = p3
    Providers = {p1, p2, p3}
    Members <- MCMembers
    FallbackRank <- MCFallbackRank
    VerificationRank <- MCVerificationRank
    Domains = {d1, d2}
    MaxBatch = 2
    Parallel = 2
    Modes = {"distribute", "fallback", "compare", "verify"}
    NoProvider = NoProvider
SPECIFICATION Spec
INVARIANTS
    DispatchInv
    UnverifiedIsReviewed
    AnswerNotLost
PROPERTIES
    Terminates
CHECK_DEADLOCK FALSE
