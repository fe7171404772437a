-------------------------- MODULE AutomationPolicy --------------------------
(***************************************************************************)
(* From a model's answer to an automatic Pi-hole action, for one domain    *)
(* that is analysed again and again: the answer is normalised (llm.py),    *)
(* enriched by the domain's compatibility profile, compared with the       *)
(* latest primary run (behavior_change.py), given the operator's manual    *)
(* tags and resolved against the tag policies (workers.py), and the run is *)
(* stored as the one the next analysis is compared with.                   *)
(*                                                                         *)
(* The steps of one analysis are taken by one thread and read nothing that *)
(* another writes but the manual tags, once: they are one action.  The     *)
(* write to Pi-hole and its races are in module ReviewActions.             *)
(***************************************************************************)
EXTENDS Integers, FiniteSets

CONSTANTS
    Tags,             \* the configured tags
    TagPolicy,        \* options.tag_policies
    Modes,            \* values options.automation_mode takes over time
    RequireResearch,  \* options.require_research_for_auto_action
    Services,         \* names of services; "" is none
    Roles,            \* the service roles a model may answer
    SecurityRisks, PrivacyRisks, BreakageRisks,  \* risks it may answer
    Profiles          \* compatibility profiles the domain may match

Policies == {"allow", "deny", "manual_review"}   \* the ones an answer may hold
Bands == {"review", "store", "auto"}   \* the three bands of the confidence
NoProfile == [name |-> "", role |-> "unknown", risk |-> 0]

ASSUME PolicyConstants ==
    /\ TagPolicy \in [Tags -> {"allow", "deny", "manual_review", "invalid"}]
    /\ Modes \subseteq {"manual", "hybrid", "auto"}
    /\ RequireResearch \in BOOLEAN
    /\ Roles \subseteq {"core", "shared", "optional", "unknown"}
    /\ SecurityRisks \cup PrivacyRisks \cup BreakageRisks \subseteq 0..100
    /\ \A p \in Profiles \ {NoProfile} : p.role \in {"core", "shared", "optional"} /\ p.risk \in 0..100

\* A classification as it is validated: the policy is one of the three,
\* the category is one of the tags.  Its review flag is set by the model, or
\* because the user queued the job (a manual_ source).
Answers == {c \in [policy : Policies, category : Tags, tags : SUBSET Tags,
                   service : Services, role : Roles,
                   security : SecurityRisks, privacy : PrivacyRisks, breakage : BreakageRisks,
                   band : Bands, review : BOOLEAN] :
              c.category \in c.tags}

\* What enrichment makes of it, and what is stored.
Stored == [policy : Policies, category : Tags, tags : SUBSET Tags,
           service : Services \cup {p.name : p \in Profiles},
           role : {"core", "shared", "optional", "unknown"},
           security : 0..100, privacy : 0..100, breakage : 0..100,
           band : Bands, review : BOOLEAN]

VARIABLES
    profile,  \* the domain's compatibility profile, or NoProfile
    manual,   \* the operator's tags; empty: no override
    run,      \* the latest primary run, or NoRun
    open      \* a discrepancy was found that nobody has reviewed yet

vars == <<profile, manual, run, open>>

NoRun == [c |-> [policy |-> "unknown", category |-> "", tags |-> {}, service |-> "",
                 role |-> "unknown", security |-> 0, privacy |-> 0, breakage |-> 0,
                 band |-> "review", review |-> FALSE],
          mode |-> "manual", action |-> "none"]

-----------------------------------------------------------------------------
\* _classification_from_payload: what the answer is held to.
Parsed(c) ==
    [c EXCEPT !.review = \/ @
                         \/ c.band = "review"
                         \/ c.role \in {"core", "shared"} /\ c.breakage >= 50]

\* _stronger_service_role
RoleOrder(r) == CASE r = "core" -> 3 [] r = "shared" -> 2 [] r = "optional" -> 1 [] OTHER -> 0
StrongerRole(current, other) == IF RoleOrder(other) > RoleOrder(current) THEN other ELSE current

\* Faulty variant: only the role of the profile is applied.
ProfiledByRole(c) ==
    IF profile = NoProfile THEN c
    ELSE [c EXCEPT !.role = StrongerRole(@, profile.role)]

\* apply_compatibility_profile, before the guard
Profiled(c) ==
    IF profile = NoProfile THEN c
    ELSE [c EXCEPT !.role = StrongerRole(@, profile.role),
                   !.breakage = IF profile.risk > @ THEN profile.risk ELSE @,
                   !.service = IF @ = "" THEN profile.name ELSE @,
                   !.review = @ \/ c.policy = "deny"]

Gap(a, b) == IF a > b THEN a - b ELSE b - a
Protected(role) == role \in {"core", "shared"}

\* _risk_signal
RiskScore(before, after, high, medium) ==
    IF Gap(before, after) >= high THEN 22
    ELSE IF Gap(before, after) >= medium THEN 10 ELSE 0

Decisive(old, new) == {old.policy, new.policy} = {"allow", "deny"}

\* The tags' share of the score: Jaccard overlap below 1/4 or below 3/5.
TagScore(old, new) ==
    LET common == Cardinality(old.tags \cap new.tags)
        all == Cardinality(old.tags \cup new.tags) IN
    IF old.tags = new.tags THEN 0
    ELSE IF 4 * common < all THEN 18
    ELSE IF 5 * common < 3 * all THEN 8 ELSE 0

\* The sum of the signals of _compare_snapshots; the cap at 100 is above
\* every threshold.
ChangeScore(old, new) ==
      (IF old.policy = new.policy THEN 0 ELSE IF Decisive(old, new) THEN 45 ELSE 22)
    + (IF old.service # "" /\ new.service # "" /\ old.service # new.service THEN 25 ELSE 0)
    + (IF old.role = new.role THEN 0
       ELSE IF Protected(old.role) # Protected(new.role) THEN 30 ELSE 12)
    + RiskScore(old.security, new.security, 25, 12)
    + RiskScore(old.privacy, new.privacy, 30, 15)
    + RiskScore(old.breakage, new.breakage, 30, 15)
    + (IF old.category = new.category THEN 0 ELSE 10)
    + TagScore(old, new)

\* Faulty variant: only the sum of the signals counts.
RequiresReviewByScore(old, new) == ChangeScore(old, new) >= 50

\* BehaviorChangeReport.requires_review
RequiresReview(old, new) ==
    \/ Decisive(old, new)
    \/ Protected(old.role) # Protected(new.role)
    \/ new.security - old.security >= 25
    \/ ChangeScore(old, new) >= 35

Discrepancy(c) == run # NoRun /\ RequiresReview(run.c, c)

\* apply_behavior_change_guard
Guarded(c) == [c EXCEPT !.review = @ \/ Discrepancy(c)]

\* apply_manual_tag_override
EffectiveTags(c) == IF manual = {} THEN c.tags ELSE manual

-----------------------------------------------------------------------------
\* resolve_automatic_decision: the action, or "none".  The code's early
\* returns all answer None and differ in the reason they give; an invalid
\* policy, a veto and a conflict of tags are the ways not to agree.
Resolve(c, mode, evidence) ==
    LET Agreed(p) == {TagPolicy[t] : t \in EffectiveTags(c)} = {p}
        Eligible(p) == /\ mode # "manual" /\ ~c.review /\ c.band = "auto"
                       /\ ~Protected(c.role) /\ c.breakage < 50
                       /\ Agreed(p)
                       /\ RequireResearch => evidence
                       /\ mode = "auto" \/ c.policy = p IN
    IF Eligible("allow") THEN "allow" ELSE IF Eligible("deny") THEN "deny" ELSE "none"

Init ==
    /\ profile \in Profiles
    /\ manual = {}
    /\ run = NoRun
    /\ open = FALSE

\* _handle_classification of a primary result.  The stored run keeps the
\* model's tags; the effective ones and the evidence only enter the decision.
Analyze(answer, mode, evidence) ==
    LET profiled == Profiled(Parsed(answer))
        c == Guarded(profiled) IN
    /\ run' = [c |-> c, mode |-> mode, action |-> Resolve(c, mode, evidence)]
    /\ open' = (open \/ Discrepancy(profiled))
    /\ UNCHANGED <<profile, manual>>

\* set_manual_tags; the empty set removes the override.
SetManualTags(S) ==
    /\ manual' = S
    /\ UNCHANGED <<profile, run, open>>

\* The user decides on the review of the domain (module ReviewActions).
Review ==
    /\ open
    /\ open' = FALSE
    /\ UNCHANGED <<profile, manual, run>>

Next ==
    \/ \E a \in Answers, mode \in Modes, evidence \in BOOLEAN : Analyze(a, mode, evidence)
    \/ \E S \in SUBSET Tags : SetManualTags(S)
    \/ Review

Spec == Init /\ [][Next]_vars

-----------------------------------------------------------------------------
\* Every variable keeps its type: enrichment stays within roles and risks.
TypeOK ==
    /\ profile \in Profiles /\ manual \subseteq Tags /\ open \in BOOLEAN
    /\ run # NoRun =>
         /\ run.c \in Stored /\ run.c.category \in run.c.tags /\ run.mode \in Modes
         /\ run.action \in {"none", "allow", "deny"}

\* docs/COMPATIBILITY_PROFILES.md: a domain of a profile that is core or
\* shared, or has a risk of 50 or more, is never acted on automatically, so
\* that the refusal at the Pi-hole boundary is never met; and whatever the
\* profile, a deny the model recommended is left to the user, also where the
\* tags call for a deny in mode auto ("Profiles in deny_requires_review mode
\* also convert a model-generated deny recommendation into manual review").
ProtectedLeftAlone ==
    (/\ profile # NoProfile /\ run # NoRun
     /\ profile.role # "optional" \/ profile.risk >= 50 \/ run.c.policy = "deny")
        => run.action = "none"

\* Two consecutive runs in hybrid mode never act in opposite ways: a decisive
\* change of the recommendation is caught before it is acted on.
NeverFlips ==
    [][(run.mode = "hybrid" /\ run'.mode = "hybrid" /\ run.action # "none")
         => run'.action \in {"none", run.action}]_vars

\* docs/HISTORICAL_BEHAVIOR_CHANGE.md: "The automatic policy layer therefore
\* cannot apply a Pi-hole change until the discrepancy has been reviewed."
NoActionBeforeReview ==
    [][(open /\ run' # run) => run'.action = "none"]_vars
=============================================================================
