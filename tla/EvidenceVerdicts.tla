-------------------------- MODULE EvidenceVerdicts --------------------------
(***************************************************************************)
(* What the built-in sources say of one domain and what becomes of it: the *)
(* findings a handler makes of an answer, their quality, the               *)
(* contradictions between them and the selection shown to the model        *)
(* (research_context).  An answer is reduced to what its verdict depends   *)
(* on; the texts of a finding are left out.  Confidences are in percent,   *)
(* scores in ten-thousandths.                                              *)
(***************************************************************************)
EXTENDS Integers, FiniteSets, FiniteSetsExt

CONSTANTS
    MaxPrompt,      \* _MAX_PROMPT_FINDINGS
    MaxMatches,     \* max_results of a source
    MaxAnswers      \* bound: sources that have answered

ASSUME VerdictAssumption == {MaxPrompt, MaxMatches, MaxAnswers} \subseteq Nat \ {0}

VARIABLES
    evidence,       \* findings of the domain
    answered        \* sources that have answered

verdictVars == <<evidence, answered>>

(* _SOURCE_BASE_SCORES, by the source kind that annotate_source_kind notes. *)
SourceScore ==
    [phishtank |-> 99, threatfox |-> 97, virustotal |-> 93, disconnect_tracking |-> 92,
     adguard_services |-> 90, rdap |-> 89, dns_records |-> 87, ripestat |-> 85,
     cloudflare_radar |-> 84, urlscan |-> 80, netcraft |-> 70, hagezi_tif_mini |-> 92,
     easyprivacy_trackingservers |-> 91, urlhaus |-> 99, crtsh |-> 94,
     google_safe_browsing |-> 99, compatibility_profile |-> 98, repository_lists |-> 65]

Fact(source, signal, verdict, conf, relevant) ==
    [source |-> source, n |-> 1, signal |-> signal, verdict |-> verdict, conf |-> conf,
     relevant |-> relevant, visible |-> TRUE]

(* negative_finding: stored, so that the source is not asked again, and     *)
(* hidden from the prompt.                                                  *)
Negative(source) ==
    {[Fact(source, "status", "no_match", 0, FALSE) EXCEPT !.visible = FALSE]}

(* A catalogue gives one finding per match, up to max_results; here alike. *)
Matches(f) == { {[f EXCEPT !.n = i] : i \in 1..m} : m \in 1..MaxMatches }

(* Sources that only describe: the one thing they say, or nothing. *)
DescribedBy(source, signal, verdict, conf) ==
    {Negative(source), {Fact(source, signal, verdict, conf, FALSE)}}

DnsRecords ==
    DescribedBy("dns_records", "infrastructure", "dns_context", 99)
        \union DescribedBy("dns_records", "infrastructure", "dns_context", 95)

Rdap == DescribedBy("rdap", "identity", "registration_context", 98)

Ripestat ==
    {Negative("ripestat")}
        \union Matches(Fact("ripestat", "infrastructure", "network_context", 98, FALSE))

Netcraft == DescribedBy("netcraft", "infrastructure", "site_context", 80)

Crtsh == DescribedBy("crtsh", "identity", "certificate_transparency_context", 94)

CloudflareRadar ==
    {Negative("cloudflare_radar")}
        \union {{Fact("cloudflare_radar", "popularity", v, 90, FALSE)} : v \in {"popular", "unranked"}}

AdguardServices ==
    {Negative("adguard_services")}
        \union Matches(Fact("adguard_services", "identity", "service_match", 92, FALSE))

(* Engines that call the domain malicious and suspicious. *)
VirustotalVerdict(malicious, suspicious) ==
    CASE malicious >= 3 -> Fact("virustotal", "security", "malicious", 90, TRUE)
      [] malicious < 3 /\ (malicious > 0 \/ suspicious > 0) ->
            Fact("virustotal", "security", "suspicious", 70, FALSE)
      [] OTHER -> Fact("virustotal", "security", "no_detection", 60, FALSE)

Virustotal ==
    {Negative("virustotal")}
        \union {{VirustotalVerdict(m, s)} : m \in {0, 1, 2, 3}, s \in {0, 1}}

(* Faulty variant: an unknown type passes through. *)
ThreatfoxTypeAsVerdict(type) ==
    CASE type = "botnet_cc" -> "command_and_control"
      [] type = "cc_skimming" -> "security_antifraud"
      [] OTHER -> type

(* _threatfox_verdict *)
ThreatfoxVerdict(type) ==
    CASE type = "botnet_cc" -> "command_and_control"
      [] type = "cc_skimming" -> "security_antifraud"
      [] OTHER -> "malware"

(* _safe_confidence: a level above 1 is in percent, at most 1 a share; one  *)
(* that is not a number, here -1, counts 75.                                *)
ThreatfoxConfidence(level) ==
    CASE level < 0 -> 75
      [] level \in 0..1 -> 100 * level
      [] OTHER -> IF level > 100 THEN 100 ELSE level

ThreatfoxFact(type, level) ==
    Fact("threatfox", "security", ThreatfoxVerdict(type), ThreatfoxConfidence(level), TRUE)

Threatfox ==
    {Negative("threatfox")}
        \union UNION {Matches(ThreatfoxFact(t, c)) :
                        t \in {"botnet_cc", "cc_skimming", "payload_delivery", "unknown"},
                        c \in {-1, 0, 1, 50, 120}}

(* Entries that are not objects leave no finding at all. *)
Urlscan ==
    {Negative("urlscan"), {}}
        \union Matches(Fact("urlscan", "behavior", "malicious_scan", 90, FALSE))
        \union Matches(Fact("urlscan", "behavior", "scan_context", 65, FALSE))

(* The states of the host's URLs, also none. *)
UrlhausVerdict(states) ==
    CASE "online" \in states -> Fact("urlhaus", "security", "malware", 99, TRUE)
      [] "online" \notin states /\ "unknown" \in states ->
            Fact("urlhaus", "security", "suspicious", 82, FALSE)
      [] OTHER -> Fact("urlhaus", "security", "historical_malware", 90, FALSE)

Urlhaus ==
    {Negative("urlhaus")}
        \union {{UrlhausVerdict(s)} : s \in SUBSET {"online", "unknown", "offline"}}

SafeBrowsingVerdict(threats) ==
    CASE "SOCIAL_ENGINEERING" \in threats -> "phishing"
      [] "SOCIAL_ENGINEERING" \notin threats /\ "MALWARE" \in threats -> "malware"
      [] threats = {"UNWANTED_SOFTWARE"} -> "suspicious"
      [] OTHER -> "malicious"

GoogleSafeBrowsing ==
    {Negative("google_safe_browsing")}
        \union {{Fact("google_safe_browsing", "security", SafeBrowsingVerdict(t), 99, TRUE)} :
                  t \in SUBSET {"SOCIAL_ENGINEERING", "MALWARE", "UNWANTED_SOFTWARE"}}

Phishtank ==
    {Negative("phishtank")} \union Matches(Fact("phishtank", "security", "phishing", 98, TRUE))

(* _disconnect_verdict; an unlisted category is its own verdict. *)
DisconnectVerdict(category) ==
    CASE category \in {"fingerprinting", "session_replay"} -> "cross_site_tracking"
      [] category = "email" -> "email_tracking"
      [] category = "social" -> "social_tracking"
      [] OTHER -> category

DisconnectTracking ==
    {Negative("disconnect_tracking")}
        \union UNION {Matches(Fact("disconnect_tracking", "privacy", DisconnectVerdict(c), 90, TRUE)) :
                        c \in {"advertising", "analytics", "fingerprinting", "session_replay",
                               "email", "social", "cryptomining", "content"}}

(* A security list and a privacy list; the first max_results matches. *)
RepositoryLists ==
    LET hagezi == Fact("hagezi_tif_mini", "security", "suspicious", 92, TRUE)
        easyprivacy == Fact("easyprivacy_trackingservers", "privacy", "tracker", 90, TRUE)
    IN {Negative("repository_lists")} \union Matches(hagezi) \union Matches(easyprivacy)
            \union {found \in {{hagezi, easyprivacy}} : MaxMatches > 1}

(* compatibility_finding *)
CompatibilityProfile ==
    {{}, {Fact("compatibility_profile", "function", "protected_service", 100, TRUE)}}

(* _PROVIDER_HANDLERS: what each source may answer; and the local profile. *)
Handlers ==
    [adguard_services |-> AdguardServices, dns_records |-> DnsRecords,
     disconnect_tracking |-> DisconnectTracking, rdap |-> Rdap, ripestat |-> Ripestat,
     netcraft |-> Netcraft, virustotal |-> Virustotal, threatfox |-> Threatfox,
     phishtank |-> Phishtank, urlscan |-> Urlscan, cloudflare_radar |-> CloudflareRadar,
     repository_lists |-> RepositoryLists, urlhaus |-> Urlhaus, crtsh |-> Crtsh,
     google_safe_browsing |-> GoogleSafeBrowsing, compatibility_profile |-> CompatibilityProfile]

-----------------------------------------------------------------------------
Stance(side, strength) == [side |-> side, strength |-> strength]

HarmfulVerdicts ==
    [malicious |-> 100, phishing |-> 100, malware |-> 100, command_and_control |-> 100,
     malicious_scan |-> 85, suspicious |-> 65]

SafeVerdicts == [benign |-> 100, safe |-> 100, clean |-> 90, trusted |-> 90]

TrackingVerdicts ==
    [advertising |-> 90, analytics |-> 85, cross_site_tracking |-> 100, email_tracking |-> 90,
     social_tracking |-> 80, tracker |-> 85]

NonTrackingVerdicts == [non_tracking |-> 90, privacy_safe |-> 100]

(* _VERDICT_STANCES: the side a verdict takes, if it takes one. *)
Stances(v) ==
    { Stance("harmful", HarmfulVerdicts[w]) : w \in DOMAIN HarmfulVerdicts \intersect {v} }
    \union { Stance("safe", SafeVerdicts[w]) : w \in DOMAIN SafeVerdicts \intersect {v} }
    \union { Stance("tracking", TrackingVerdicts[w]) : w \in DOMAIN TrackingVerdicts \intersect {v} }
    \union { Stance("non_tracking", NonTrackingVerdicts[w]) : w \in DOMAIN NonTrackingVerdicts \intersect {v} }

Dimension(side) == IF side \in {"harmful", "safe"} THEN "security" ELSE "privacy"

(* A finding counts for the dimension it signals; behaviour for both. *)
Candidates(found) ==
    UNION { {[by |-> f, side |-> s.side, strength |-> s.strength] :
                s \in {x \in Stances(f.verdict) : f.signal \in {Dimension(x.side), "behavior"}}}
            : f \in found }

Opposing == {{"harmful", "safe"}, {"tracking", "non_tracking"}}

(* score_finding, of fresh evidence. *)
Score(f) == 65 * SourceScore[f.source] + 35 * f.conf

Visible(found) == {f \in found : f.visible}

(* detect_contradictions: pairs of sources and verdicts on opposite sides. *)
Contradictions(found) ==
    { {<<p[1].by.source, p[1].by.verdict>>, <<p[2].by.source, p[2].by.verdict>>} :
        p \in {x \in Candidates(found) \X Candidates(found) : {x[1].side, x[2].side} \in Opposing} }

(* The order of the prompt: decisive evidence, then quality and confidence. *)
Before(f, g) ==
    \/ f.relevant /\ ~g.relevant
    \/ f.relevant = g.relevant /\ Score(f) > Score(g)
    \/ f.relevant = g.relevant /\ Score(f) = Score(g) /\ f.conf > g.conf

(* research_context: what may be shown, and the count the policy decides    *)
(* with; findings none of which is before the other come in the order they  *)
(* were retrieved, so any of them may be the one left out.                  *)
Shown(found) ==
    {chosen \in kSubset(Min({MaxPrompt, Cardinality(Visible(found))}), Visible(found)) :
        \A f \in Visible(found) \ chosen, g \in chosen : ~Before(f, g)}

DecisionCount(found) == Cardinality({f \in Visible(found) : f.relevant})

-----------------------------------------------------------------------------
VerdictInit == evidence = {} /\ answered = {}

(* A source answers and its findings join those of the domain. *)
Collect(source) ==
    /\ source \notin answered /\ Cardinality(answered) < MaxAnswers
    /\ \E found \in Handlers[source] : evidence' = evidence \union found
    /\ answered' = answered \union {source}

VerdictNext == \E source \in DOMAIN Handlers : Collect(source)

VerdictSafety == VerdictInit /\ [][VerdictNext]_verdictVars

VerdictTypeOK ==
    /\ answered \subseteq DOMAIN Handlers
    /\ \A f \in evidence : f.source \in DOMAIN SourceScore /\ f.conf \in 0..100
                            /\ Score(f) \in 0..10000

(* No finding, match or not, is evidence that a domain is safe: built-in    *)
(* sources do not contradict one another, and what a source did not detect  *)
(* neither weakens a detection nor counts for the policy.                   *)
MissingIsNeutral ==
    /\ Contradictions(Visible(evidence)) = {}
    /\ DecisionCount({f \in evidence : f.verdict \in {"no_match", "no_detection", "unranked"}}) = 0

(* Sources agree on what is decisive: a finding whose verdict is harm at    *)
(* full strength counts for the policy, whichever source it is from.        *)
FullStrengthIsDecisive ==
    \A f \in evidence :
        (\E s \in Stances(f.verdict) : s.side = "harmful" /\ s.strength = 100) => f.relevant

(* A security finding that counts for the policy is known to the            *)
(* contradiction detection as harmful, but for ThreatFox' card skimming.    *)
DecisiveIsHarmful ==
    \A f \in evidence :
        f.relevant /\ f.signal = "security" /\ f.verdict # "security_antifraud"
            => \E s \in Stances(f.verdict) : s.side = "harmful"

(* The selection for the prompt leaves no decisive finding out in favour of *)
(* one that is not, however strong the latter and whoever answered first.   *)
DecisiveIsShown ==
    \A shown \in Shown(evidence) : \A f \in Visible(evidence) \ shown :
        f.relevant => \A g \in shown : g.relevant

(* The places that judge a finding agree: the handler of its source, the   *)
(* contradiction detection, the count for the policy and the selection.    *)
VerdictInv ==
    /\ VerdictTypeOK /\ MissingIsNeutral /\ FullStrengthIsDecisive
    /\ DecisiveIsHarmful /\ DecisiveIsShown
=============================================================================
