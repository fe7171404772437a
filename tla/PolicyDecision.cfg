SPECIFICATION Spec
CONSTANTS
    Tags <- TwoTags
    TagPolicy <- TwoTagPolicy
    Modes = {"hybrid", "auto"}
    RequireResearch = TRUE
    Services = {""}
    Roles = {"unknown"}
    SecurityRisks = {0}
    PrivacyRisks = {0}
    BreakageRisks = {20}
    Profiles <- MCProfiles
INVARIANTS
    ProtectedLeftAlone
PROPERTIES
    NeverFlips
