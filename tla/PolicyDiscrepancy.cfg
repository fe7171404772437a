SPECIFICATION Spec
CONSTANTS
    Tags <- TwoTags
    TagPolicy <- TwoTagPolicy
    Modes = {"hybrid"}
    RequireResearch = TRUE
    Services = {""}
    Roles = {"unknown"}
    SecurityRisks = {0}
    PrivacyRisks = {0}
    BreakageRisks = {20}
    Profiles <- NoProfiles
PROPERTY NoActionBeforeReview
