----------------------------- MODULE MCEvidence -----------------------------
(***************************************************************************)
(* Three parts of the research for evidence that share no state: the files *)
(* of a catalogue, the runs that ask the sources, and what the answers     *)
(* amount to.  A behaviour shows one of them.                              *)
(***************************************************************************)
EXTENDS EvidenceCache, EvidenceResearch, EvidenceVerdicts, TLC

VARIABLE part

evidenceVars == <<cacheVars, resVars, verdictVars, part>>

MCCeiling == ("strict" :> 1) @@ ("lax" :> 3)

MCSourceHours == [s \in Sources |-> 2]

EvidenceInit ==
    /\ part \in {"cache", "research", "verdicts"}
    /\ CacheInit /\ ResInit /\ VerdictInit
    /\ part # "cache" => payload = Absent
    /\ part # "research" => stored = [t \in Tasks |-> Missing] /\ locked = {}
                            /\ tag = [d \in Domains |-> CHOOSE g \in Tags : TRUE]

EvidenceNext ==
    \/ part = "cache" /\ CacheNext /\ UNCHANGED <<resVars, verdictVars, part>>
    \/ part = "research" /\ ResNext /\ UNCHANGED <<cacheVars, verdictVars, part>>
    \/ part = "verdicts" /\ VerdictNext /\ UNCHANGED <<cacheVars, resVars, part>>

(* A run's thread and those of its executors run on, and every request of   *)
(* theirs has a timeout; nothing is assumed of the other parts.             *)
EvidenceFairness ==
    \A r \in Runs :
        /\ WF_resVars(part = "research" /\ RunStep(r))
        /\ WF_resVars(part = "research" /\ \E t \in Tasks : TaskStep(r, t))

EvidenceSpec == EvidenceInit /\ [][EvidenceNext]_evidenceVars /\ EvidenceFairness
=============================================================================
