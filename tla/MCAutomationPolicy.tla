------------------------- MODULE MCAutomationPolicy -------------------------
(***************************************************************************)
(* Small instances of AutomationPolicy for TLC.                            *)
(***************************************************************************)
EXTENDS AutomationPolicy, TLC

\* Two tags that call for opposite actions.
TwoTags == {"ads", "cdn"}
TwoTagPolicy == "ads" :> "deny" @@ "cdn" :> "allow"

\* No profile, a core service, an optional one of high risk and one of low
\* risk, of which only a recommended deny is left to the user.
MCProfiles == {NoProfile,
               [name |-> "p", role |-> "core", risk |-> 20],
               [name |-> "p", role |-> "optional", risk |-> 60],
               [name |-> "p", role |-> "optional", risk |-> 20]}

NoProfiles == {NoProfile}
=============================================================================
