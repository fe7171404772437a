-------------------------- MODULE EvidenceResearch --------------------------
(***************************************************************************)
(* A research run (research.research_many) asks every evidence source that *)
(* has no fresh finding of a domain and stores what was found.  Several    *)
(* runs overlap: the classifier's, a forced refresh of a view.  Each run   *)
(* has one thread per source.  A finding is when it was retrieved and when *)
(* it expires; time counts hours.                                          *)
(***************************************************************************)
EXTENDS Integers, FiniteSets, FiniteSetsExt

CONSTANTS
    Runs,
    Forced,         \* runs with force=True
    Domains,
    Sources,        \* enabled ResearchProviderOptions
    LocalDomains,   \* domains with a compatibility profile
    Silent,         \* sources whose answer may hold no finding (urlscan)
    Lockable,       \* domains the user locks and unlocks during a behaviour
    Retagged,       \* domains whose tags change
    Tags,
    Ceiling,        \* hours a tag lets evidence live
    SourceHours,    \* refresh_interval_hours of a source
    MaxAttempts,    \* max_retries + 1
    MaxNow,         \* bound on time
    MaxEvents,      \* bound on cancellations and changes of locks and tags
    Missing

ASSUME ResearchAssumption ==
    /\ Forced \subseteq Runs /\ Silent \subseteq Sources
    /\ LocalDomains \union Lockable \union Retagged \subseteq Domains
    /\ Ceiling \in [Tags -> Nat \ {0}] /\ SourceHours \in [Sources -> Nat \ {0}]
    /\ MaxAttempts \in Nat \ {0} /\ MaxNow \in Nat /\ MaxEvents \in Nat
    /\ IsFiniteSet(Sources)

VARIABLES
    stored,     \* research_findings of each task, and the local ones
    localSaved,
    locked,     \* domain_locks
    tag,        \* effective tag of each domain
    now,
    events,
    run         \* the local state of every run

dbVars == <<stored, localSaved, locked, tag, now, events>>

resVars == <<stored, localSaved, locked, tag, now, events, run>>

Tasks == Domains \X Sources

Times == 0..(MaxNow + Max({SourceHours[s] : s \in Sources}))

Finding == [at : 0..MaxNow, expires : Times]

ASSUME MissingIsNoFinding == Missing \notin Finding

(* kept: a fresh finding is served instead. *)
TaskStates == {"none", "kept", "queued", "running", "got", "failed", "stopped"}

Active == {"queued", "running"}

Task == [st : TaskStates, attempt : 0..MaxAttempts, found : Finding \union {Missing}]

NoTask == [st |-> "none", attempt |-> 0, found |-> Missing]

Phases == {"idle", "reading", "asking", "stopping", "saving", "done", "aborted"}

RunType == [phase : Phases, unread : SUBSET Domains, blocked : SUBSET Domains,
            task : [Tasks -> Task], cancelled : BOOLEAN]

Started(r) == {t \in Tasks : run[r].task[t].st = "running"}

(* One type invariant; in it: a run asks a source one thing at a time. *)
ResTypeOK ==
    /\ stored \in [Tasks -> Finding \union {Missing}]
    /\ localSaved \subseteq LocalDomains
    /\ locked \subseteq Domains
    /\ tag \in [Domains -> Tags]
    /\ now \in 0..MaxNow /\ events \in 0..MaxEvents
    /\ run \in [Runs -> RunType]
    /\ \A r \in Runs, s \in Sources : Cardinality({t \in Started(r) : t[2] = s}) <= 1

-----------------------------------------------------------------------------
(* freshness_decision_for_finding: hours a finding of task t may live now. *)
EffectiveHours(t) == Min({SourceHours[t[2]], Ceiling[tag[t[1]]]})

EffectiveExpiry(t, f) == Min({f.expires, f.at + EffectiveHours(t)})

(* Faulty variant: the stored expiry alone decides. *)
FreshAsStored(t) == stored[t] # Missing /\ stored[t].expires > now

(* row_is_fresh decides with the tags of now, and the stored expiry. *)
Fresh(t) == stored[t] # Missing /\ EffectiveExpiry(t, stored[t]) > now

(* What a handler returns: it expires after the refresh interval. *)
Found(t) == [at |-> now, expires |-> now + SourceHours[t[2]]]

ResInit ==
    /\ \E f \in {Missing} \union [at : {0}, expires : {Max({SourceHours[s] : s \in Sources})}] :
        stored = [t \in Tasks |-> f]
    /\ localSaved = {}
    /\ locked \in SUBSET Lockable
    /\ tag \in [Domains -> Tags]
    /\ \A d \in Domains \ Retagged : tag[d] = CHOOSE g \in Tags : TRUE
    /\ now = 0
    /\ events = 0
    /\ run = [r \in Runs |->
                [phase |-> "idle", unread |-> Domains, blocked |-> {},
                 task |-> [t \in Tasks |-> NoTask], cancelled |-> FALSE]]

-----------------------------------------------------------------------------
BeginRun(r) ==
    /\ run[r].phase = "idle"
    /\ ~run[r].cancelled
    /\ run' = [run EXCEPT ![r].phase = "reading"]
    /\ UNCHANGED dbVars

(* The sources to ask about a domain, unless it is protected. *)
Wants(r, t) == t[1] \notin locked /\ (r \in Forced \/ ~Fresh(t))

(* The findings and the lock of one domain are read. *)
ReadDomain(r, d) ==
    /\ run[r].phase = "reading" /\ d \in run[r].unread
    /\ run' = [run EXCEPT ![r].unread = @ \ {d},
                          ![r].blocked = IF d \in locked THEN @ \union {d} ELSE @,
                          ![r].task = [t \in Tasks |->
                                IF t[1] # d THEN @[t]
                                ELSE [NoTask EXCEPT !.st = IF Wants(r, t) THEN "queued"
                                                           ELSE IF Fresh(t) THEN "kept" ELSE "none"]]]
    /\ UNCHANGED dbVars

(* What a run knows is forgotten with its end. *)
Ended(r, phase) ==
    [run EXCEPT ![r] = [@ EXCEPT !.phase = phase, !.task = [t \in Tasks |-> NoTask],
                                 !.blocked = {}, !.cancelled = FALSE]]

(* A forced refresh with a protected domain is refused as a whole. *)
Refuse(r) ==
    /\ run[r].phase = "reading" /\ run[r].unread = {}
    /\ r \in Forced /\ run[r].blocked # {}
    /\ run' = Ended(r, "aborted")
    /\ UNCHANGED dbVars

(* The local findings are stored, the rest is handed to the threads. *)
Submit(r) ==
    /\ run[r].phase = "reading" /\ run[r].unread = {}
    /\ ~(r \in Forced /\ run[r].blocked # {})
    /\ localSaved' = LocalDomains
    /\ run' = [run EXCEPT ![r].phase = "asking"]
    /\ UNCHANGED <<stored, locked, tag, now, events>>

Event == events < MaxEvents /\ events' = events + 1

Cancel(r) ==
    /\ run[r].phase \notin {"done", "aborted"} /\ ~run[r].cancelled
    /\ Event
    /\ run' = [run EXCEPT ![r].cancelled = TRUE]
    /\ UNCHANGED <<stored, localSaved, locked, tag, now>>

-----------------------------------------------------------------------------
(* The source's only thread (max_workers=1) takes the next task. *)
StartTask(r, t) ==
    /\ run[r].phase = "asking" /\ run[r].task[t].st = "queued"
    /\ \A u \in Started(r) : u[2] # t[2]
    /\ run' = [run EXCEPT ![r].task[t] = [@ EXCEPT !.st = "running", !.attempt = 1]]
    /\ UNCHANGED dbVars

EndTask(r, t, st, found) ==
    /\ run' = [run EXCEPT ![r].task[t] = [@ EXCEPT !.st = st, !.attempt = 0, !.found = found]]
    /\ UNCHANGED dbVars

(* An answer, of a match or of none, which is a finding too. *)
TaskAnswers(r, t) ==
    /\ run[r].task[t].st = "running"
    /\ \/ EndTask(r, t, "got", Found(t))
       \/ t[2] \in Silent /\ EndTask(r, t, "got", Missing)

(* Faulty variant: the attempt is not counted. *)
TaskRetriesForever(r, t) ==
    /\ run[r].task[t].st = "running"
    /\ run' = [run EXCEPT ![r].task[t].attempt = 3 - @]
    /\ UNCHANGED dbVars

(* A lost connection or a status worth a retry, after the source's delay. *)
TaskRetries(r, t) ==
    /\ run[r].task[t].st = "running" /\ run[r].task[t].attempt < MaxAttempts
    /\ ~run[r].cancelled
    /\ run' = [run EXCEPT ![r].task[t].attempt = @ + 1]
    /\ UNCHANGED dbVars

(* The last attempt, or an error that is not retried. *)
TaskFails(r, t) ==
    /\ run[r].task[t].st = "running"
    /\ EndTask(r, t, "failed", Missing)

(* raise_if_cancelled around an attempt. *)
TaskStops(r, t) ==
    /\ run[r].task[t].st = "running" /\ run[r].cancelled
    /\ EndTask(r, t, "stopped", Missing)

-----------------------------------------------------------------------------
(* The run sees the cancellation, itself or through a thread that stopped;  *)
(* cancel_pending withdraws what no thread has taken, and what was          *)
(* collected is dropped.                                                    *)
ObserveCancel(r) ==
    /\ run[r].cancelled /\ run[r].phase \in {"reading", "asking"}
    /\ run' = [run EXCEPT ![r].phase = "stopping",
                          ![r].task = [t \in Tasks |->
                                IF @[t].st = "running" THEN @[t] ELSE NoTask]]
    /\ UNCHANGED dbVars

(* executor.shutdown(wait=True); then the exception leaves the run. *)
StopEnds(r) ==
    /\ run[r].phase = "stopping" /\ Started(r) = {}
    /\ run' = Ended(r, "aborted")
    /\ UNCHANGED dbVars

(* Every future is done; a cancellation from now on is not seen. *)
LoopEnds(r) ==
    /\ run[r].phase = "asking"
    /\ \A t \in Tasks : run[r].task[t].st \notin Active \union {"stopped"}
    /\ run' = [run EXCEPT ![r].phase = "saving"]
    /\ UNCHANGED dbVars

(* apply_freshness_policies: stored with the tags of the moment. *)
Kept(t, f) == [f EXCEPT !.expires = EffectiveExpiry(t, f)]

(* save_research_findings, one transaction: the findings of a domain and a  *)
(* source that answered replace the stored ones.                            *)
Save(r) ==
    /\ run[r].phase = "saving"
    /\ stored' = [t \in Tasks |->
            LET f == run[r].task[t].found IN IF f # Missing THEN Kept(t, f) ELSE stored[t]]
    /\ run' = Ended(r, "done")
    /\ UNCHANGED <<localSaved, locked, tag, now, events>>

-----------------------------------------------------------------------------
ToggleLock(d) ==
    /\ Event
    /\ locked' = IF d \in locked THEN locked \ {d} ELSE locked \union {d}
    /\ UNCHANGED <<stored, localSaved, tag, now, run>>

Retag(d) ==
    /\ Event
    /\ \E g \in Tags \ {tag[d]} : tag' = [tag EXCEPT ![d] = g]
    /\ UNCHANGED <<stored, localSaved, locked, now, run>>

Hour ==
    /\ now < MaxNow
    /\ now' = now + 1
    /\ UNCHANGED <<stored, localSaved, locked, tag, events, run>>

RunStep(r) ==
    \/ BeginRun(r) \/ Refuse(r) \/ Submit(r) \/ ObserveCancel(r) \/ StopEnds(r)
    \/ LoopEnds(r) \/ Save(r)
    \/ \E d \in Domains : ReadDomain(r, d)

TaskStep(r, t) == StartTask(r, t) \/ TaskAnswers(r, t) \/ TaskRetries(r, t) \/ TaskFails(r, t) \/ TaskStops(r, t)

ResNext ==
    \/ \E r \in Runs : RunStep(r) \/ Cancel(r) \/ \E t \in Tasks : TaskStep(r, t)
    \/ \E d \in Lockable : ToggleLock(d)
    \/ \E d \in Retagged : Retag(d)
    \/ Hour

ResSafety == ResInit /\ [][ResNext]_resVars

-----------------------------------------------------------------------------
(* Evidence once stored is replaced but never lost: not by a source that    *)
(* fails in a refresh, nor by a run cancelled half way.                     *)
EvidenceRetained ==
    [][\A t \in Tasks : stored[t] # Missing => stored'[t] # Missing]_resVars

(* What a run serves from the database instead of asking is younger than    *)
(* the source's interval and than what the domain's tags of that moment     *)
(* allow, also when the domain was tagged after the finding was stored.     *)
ServedIsYoung ==
    [][\A r \in Runs, t \in Tasks :
        run[r].task[t].st # "kept" /\ run'[r].task[t].st = "kept"
            => now - stored[t].at < SourceHours[t[2]] /\ now - stored[t].at < Ceiling[tag[t[1]]]]_resVars

(* The stored evidence of a domain is not replaced by a run that found it   *)
(* protected, forced or not.                                                *)
ProtectedEvidenceKept ==
    [][\A r \in Runs, t \in Tasks :
        run[r].phase # "done" /\ run'[r].phase = "done" /\ t[1] \in run[r].blocked
            => stored'[t] = stored[t]]_resVars

(* A thread of a run asks a source only while the run waits for it: none is *)
(* left when the findings are saved, when the run is refused or over.       *)
NoThreadLeft ==
    \A r \in Runs : run[r].phase \notin {"asking", "stopping"} => Started(r) = {}

(* A run that began ends, with sources that fail and with cancellation.     *)
RunEnds ==
    \A r \in Runs : run[r].phase = "reading" ~> run[r].phase \in {"done", "aborted"}

(* Stored evidence is kept where it must be and served only while young,    *)
(* and no run leaves a thread behind.                                       *)
EvidenceKept ==
    [](ResTypeOK /\ NoThreadLeft) /\ EvidenceRetained /\ ServedIsYoung /\ ProtectedEvidenceKept
=============================================================================
