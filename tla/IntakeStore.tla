---------------------------- MODULE IntakeStore ----------------------------
(* What the scanner and the list auditor share of the database: which      *)
(* domains are known, classified and waiting in the staging table.         *)
EXTENDS Naturals, Sequences, FiniteSets

CONSTANTS
    None,       \* absent value
    Domains,    \* domain names
    Locked      \* domains with an entry in domain_locks

ASSUME LockedAreDomains == Locked \subseteq Domains

VARIABLES
    known,      \* rows of the domains table
    classified, \* known domains with last_classified_at set
    due,        \* classified domains whose next_recheck_at has passed
    staged,     \* domains in the staging table
    scanOn,     \* option scans.enabled
    auditOn     \* option enabled of the list audit

store == <<known, classified, due, staged, scanOn, auditOn>>

StoreInit ==
    /\ known = {} /\ classified = {} /\ due = {} /\ staged = {}
    /\ scanOn \in BOOLEAN /\ auditOn \in BOOLEAN

(* queue_domains_needing_analysis: the ones of ds that are not protected   *)
(* and have no classification, or one that is due again.                   *)
NeedingAnalysis(ds) == (ds \ Locked) \ (classified \ due)

(* queue_due_rechecks *)
DueRechecks == due \ Locked

(* filter_unclassified_domains *)
FilterUnclassified(ds) == ds \ classified

(* A classifier finishes a staged domain. *)
Classify(d) ==
    /\ d \in staged
    /\ staged' = staged \ {d}
    /\ classified' = classified \cup {d}
    /\ known' = known \cup {d}
    /\ due' = due \ {d}
    /\ UNCHANGED <<scanOn, auditOn>>

(* The recheck interval of a classified domain passes. *)
BecomesDue(d) ==
    /\ d \in classified \ due
    /\ due' = due \cup {d}
    /\ UNCHANGED <<known, classified, staged, scanOn, auditOn>>

StoreTypeOK ==
    /\ known \subseteq Domains
    /\ classified \subseteq Domains
    /\ due \subseteq classified
    /\ staged \subseteq Domains
    /\ scanOn \in BOOLEAN /\ auditOn \in BOOLEAN
=============================================================================
