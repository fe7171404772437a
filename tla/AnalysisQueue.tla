--------------------------- MODULE AnalysisQueue ---------------------------
(***************************************************************************)
(* The durable analysis queue (table staging_domains of the SQLite         *)
(* database) and the two Classifier threads that serve it, one per pool.   *)
(*                                                                         *)
(* Every queue operation of database_core.py runs under _DB_LOCK in one    *)
(* SQLite transaction, so it is one action here.  A Classifier does not    *)
(* keep that lock between its calls: between any two of its steps a user,  *)
(* the scanner, a review decision or the other Classifier may change the   *)
(* very rows it has claimed.                                               *)
(*                                                                         *)
(* Time is relative.  A row keeps `waited', the seconds since created_at   *)
(* (capped at MaxWait, the largest age staging_ready asks about), and      *)
(* `delay', the seconds until available_at (0 when the row is available).  *)
(* Tick is the passing of one second.  Inside a batch the code goes        *)
(* through the domains in claim order; here the order is left open.        *)
(***************************************************************************)
EXTENDS Naturals, FiniteSets

CONSTANTS
    Domains,      \* domain names, after _normalize_domain
    Excluded,     \* those matching scans.excluded_domain_suffixes
    BatchSize,    \* llm.worker_batch_size
    TriggerSize,  \* scans.queue_trigger_size
    MaxWait,      \* scans.max_queue_wait_sec
    MaxDelay,     \* bound: the longest retry_at a provider asks for
    MaxEvents     \* bound: number of steps taken by users and faults

ASSUME QueueConstants ==
    /\ IsFiniteSet(Domains)
    /\ Excluded \subseteq Domains
    /\ BatchSize \in Nat \ {0}
    /\ TriggerSize \in Nat \ {0}
    /\ MaxWait \in Nat \ {0}
    /\ MaxDelay \in Nat \ {0}
    /\ MaxEvents \in Nat

Pools == {"realtime", "background"}

(***************************************************************************)
(* What the callers of staging_enqueue_detailed pass: users and the HTTP   *)
(* API through queue_domains_for_review, the scanner through               *)
(* queue_domains_needing_analysis and queue_due_rechecks.  The list        *)
(* auditor's request is a live_query request under another name.           *)
(***************************************************************************)
ManualRequest == [priority |-> 100, source |-> "manual_review", pool |-> "realtime"]
LiveQuery     == [priority |-> 0, source |-> "live_query", pool |-> "background"]
Recheck       == [priority |-> 10, source |-> "scheduled_recheck", pool |-> "background"]
Requests      == {ManualRequest, LiveQuery, Recheck}

Priorities == {0, 10, 100}
Sources    == {"none", "manual_review", "live_query", "scheduled_recheck"}

\* A row of staging_domains; state "none" stands for no row.
Rows == [state    : {"none", "queued", "processing", "failed"},
         attempts : Nat,
         priority : Priorities,
         source   : Sources,
         pool     : Pools,
         waited   : 0..MaxWait,
         delay    : 0..MaxDelay]

NoRow == [state |-> "none", attempts |-> 0, priority |-> 0, source |-> "none",
          pool |-> "background", waited |-> 0, delay |-> 0]

VARIABLES
    staging,     \* the queue table: a row per domain
    locked,      \* domains with a row in domain_locks
    enabled,     \* per pool: options.llm.enabled and pool.enabled
    pc,          \* per pool: where its Classifier thread is
    batch,       \* per pool: claimed domains not yet checked for a lock
    skip,        \* per pool: domains found locked, not yet acknowledged
    job,         \* per pool: unlocked_domains not yet acknowledged, deferred or failed
    outcome,     \* per pool: how dispatch ended, what it completed, when to retry
    token,       \* per pool: the active CancellationToken
    stop,        \* per pool: the thread's _stop_event
    events,      \* bound: user and fault steps taken so far
    torn         \* observation: claims whose row somebody else has changed

queueVars  == <<staging, locked>>
workerVars == <<pc, batch, skip, job, outcome, token>>
vars == <<staging, locked, enabled, pc, batch, skip, job, outcome, token,
          stop, events, torn>>

\* What a Classifier holds: claimed and not yet settled.
Held(p) == batch[p] \cup skip[p] \cup job[p]

\* How the try block of Classifier.run ended: the domains of the results
\* (completed), and the seconds until retry_at.
Outcomes == [kind : {"none", "result", "unavailable", "cancelled", "error"},
             completed : SUBSET Domains, retry : 0..MaxDelay]

NoOutcome == [kind |-> "none", completed |-> {}, retry |-> 0]

PCs == {"down", "start", "idle", "ready", "claimed", "abandon", "check",
        "dispatch", "settle", "stopped", "dead"}

-----------------------------------------------------------------------------
(***************************************************************************)
(* The queue operations, as functions of one row.                          *)
(***************************************************************************)

\* Faulty variant: a manual request requeues a row that is being processed.
EnqueueRowAlways(row, r) ==
    [state |-> "queued", attempts |-> 0,
     priority |-> IF r.priority >= row.priority THEN r.priority ELSE row.priority,
     source |-> r.source, pool |-> r.pool, waited |-> row.waited, delay |-> 0]

\* staging_enqueue_detailed on an existing or missing row.  A row being
\* processed keeps its old priority, source and pool: the request is
\* reported as already pending and leaves no trace.  A failed row keeps its
\* created_at and the higher of the two priorities, whatever pool it moves to.
EnqueueRow(row, r) ==
    LET raised == IF r.priority >= row.priority THEN r.priority ELSE row.priority IN
    CASE row.state = "processing" -> row
      [] row.state = "queued" ->
            [row EXCEPT !.priority = raised,
                        !.source = IF r.priority >= row.priority THEN r.source ELSE @,
                        !.pool = IF r.priority >= row.priority THEN r.pool ELSE @,
                        !.delay = 0]
      [] row.state \in {"none", "failed"} ->
            [state |-> "queued", attempts |-> 0, priority |-> raised, source |-> r.source,
             pool |-> r.pool, waited |-> row.waited, delay |-> 0]

\* staging_claim_items marks a row and counts the attempt.
ClaimRow(row) == [row EXCEPT !.state = "processing", !.attempts = @ + 1]

\* Faulty variant: the attempts of the row are not looked at.
FailRowAlways(row) ==
    IF row.state = "none" THEN row ELSE [row EXCEPT !.state = "failed", !.delay = 0]

\* staging_fail, which the Classifier always calls with max_attempts = 1.
\* An UPDATE on a missing row does nothing.
FailRow(row) ==
    IF row.state = "none" THEN row
    ELSE [row EXCEPT !.state = IF row.attempts >= 1 THEN "failed" ELSE "queued",
                     !.delay = 0]

\* Faulty variants: an upsert instead of an update, and one second too many.
DeferRowUpsert(row, retry) ==
    [row EXCEPT !.state = "queued", !.attempts = IF @ = 0 THEN 0 ELSE @ - 1,
                !.delay = IF retry >= 1 THEN retry ELSE 1]

DeferRowLate(row, retry) ==
    IF row.state = "none" THEN row
    ELSE [row EXCEPT !.state = "queued", !.attempts = IF @ = 0 THEN 0 ELSE @ - 1,
                     !.delay = retry + 1]

\* staging_defer: the attempt is given back, and the row is hidden for at
\* least a second.
DeferRow(row, retry) ==
    IF row.state = "none" THEN row
    ELSE [row EXCEPT !.state = "queued",
                     !.attempts = IF @ = 0 THEN 0 ELSE @ - 1,
                     !.delay = IF retry >= 1 THEN retry ELSE 1]

\* Faulty variant: only rows that had never been claimed before are requeued.
RequeueRowFresh(row, p) ==
    IF row.state = "processing" /\ row.pool = p /\ row.attempts = 0
    THEN [row EXCEPT !.state = "queued", !.delay = 0] ELSE row

\* staging_requeue_processing for the pool of the thread that starts.
RequeueRow(row, p) ==
    IF row.state = "processing" /\ row.pool = p
    THEN [row EXCEPT !.state = "queued", !.delay = 0]
    ELSE row

\* The rows a pool's Classifier could take now.
Available(p) == {d \in Domains : /\ staging[d].state = "queued"
                                 /\ staging[d].pool = p
                                 /\ staging[d].delay = 0}

\* Faulty variant: the longest waiting time is never looked at.
StagingReadyBySize(p) ==
    \/ \E d \in Available(p) : staging[d].priority >= 100
    \/ Available(p) # {} /\ Cardinality(Available(p)) >= TriggerSize

\* staging_ready
StagingReady(p) ==
    \/ \E d \in Available(p) : staging[d].priority >= 100
    \/ Available(p) # {} /\ Cardinality(Available(p)) >= TriggerSize
    \/ \E d \in Available(p) : staging[d].waited >= MaxWait

\* ORDER BY priority DESC, created_at: d may be claimed while e is left.
Before(d, e) ==
    \/ staging[d].priority > staging[e].priority
    \/ /\ staging[d].priority = staging[e].priority
       /\ staging[d].waited >= staging[e].waited

\* The possible results of the SELECT ... LIMIT of staging_claim_items.
ClaimSets(p) ==
    {S \in SUBSET Available(p) :
        /\ \/ Cardinality(S) = BatchSize
           \/ S = Available(p) /\ Cardinality(S) < BatchSize
        /\ \A d \in S, e \in Available(p) \ S : Before(d, e)}

\* Claims of other Classifiers that a change of the rows in D disturbs.
Tear(D, mine) ==
    torn' = [p \in Pools |-> IF p = mine THEN torn[p] \ D
                             ELSE torn[p] \cup (D \cap Held(p))]

-----------------------------------------------------------------------------
Init ==
    /\ staging = [d \in Domains |-> NoRow]
    /\ locked = {}
    /\ enabled = [p \in Pools |-> TRUE]
    /\ pc = [p \in Pools |-> "down"]
    /\ batch = [p \in Pools |-> {}]
    /\ skip = [p \in Pools |-> {}]
    /\ job = [p \in Pools |-> {}]
    /\ outcome = [p \in Pools |-> NoOutcome]
    /\ token = [p \in Pools |-> "none"]
    /\ stop = [p \in Pools |-> FALSE]
    /\ events = 0
    /\ torn = [p \in Pools |-> {}]

Goto(p, label) == pc' = [pc EXCEPT ![p] = label]

\* A step of a user or a fault, of which a behaviour has at most MaxEvents.
Event == events < MaxEvents /\ events' = events + 1

-----------------------------------------------------------------------------
(***************************************************************************)
(* Users, the scanner and the review decisions.                            *)
(***************************************************************************)

\* staging_enqueue_detailed: one transaction for a list of domains.
Enqueue(D, r) ==
    /\ Event
    /\ staging' = [d \in Domains |->
                     IF d \in D \ (Excluded \cup locked)
                     THEN EnqueueRow(staging[d], r) ELSE staging[d]]
    /\ UNCHANGED <<locked, enabled, workerVars, stop, torn>>

\* set_domain_lock writes the lock and deletes the queue row together.
SetDomainLock(d) ==
    /\ Event
    /\ locked' = locked \cup {d}
    /\ staging' = [staging EXCEPT ![d] = NoRow]
    /\ Tear({d}, "nobody")
    /\ UNCHANGED <<enabled, workerVars, stop>>

RemoveDomainLock(d) ==
    /\ d \in locked
    /\ Event
    /\ locked' = locked \ {d}
    /\ UNCHANGED <<staging, enabled, workerVars, stop, torn>>

\* staging_remove: a review decision or "Remove selected" of the review tab.
StagingRemove(D) ==
    /\ Event
    /\ staging' = [d \in Domains |-> IF d \in D THEN NoRow ELSE staging[d]]
    /\ Tear(D, "nobody")
    /\ UNCHANGED <<locked, enabled, workerVars, stop>>

\* cancel_classifier_jobs: only a job that has begun can be cancelled.
CancelJobs(P) ==
    /\ \E p \in P : token[p] = "live"
    /\ Event
    /\ token' = [p \in Pools |-> IF p \in P /\ token[p] = "live"
                                 THEN "cancelled" ELSE token[p]]
    /\ UNCHANGED <<queueVars, enabled, pc, batch, skip, job, outcome, stop, torn>>

\* The user switches LLM analysis, or one pool, off or on.
ToggleEnabled(p) ==
    /\ Event
    /\ enabled' = [enabled EXCEPT ![p] = ~@]
    /\ UNCHANGED <<queueVars, workerVars, stop, torn>>

-----------------------------------------------------------------------------
(***************************************************************************)
(* The process: start, orderly stop, and every way of ending.              *)
(***************************************************************************)

\* get_classifier starts a fresh thread per pool.
GetClassifier ==
    /\ \A p \in Pools : pc[p] = "down"
    /\ pc' = [p \in Pools |-> "start"]
    /\ stop' = [p \in Pools |-> FALSE]
    /\ UNCHANGED <<queueVars, enabled, batch, skip, job, outcome, token, events, torn>>

\* stop_workers sets every stop event; the tokens are linked to them.
StopWorkers ==
    /\ \E p \in Pools : pc[p] # "down" /\ ~stop[p]
    /\ Event
    /\ stop' = [p \in Pools |-> TRUE]
    /\ token' = [p \in Pools |-> IF token[p] = "live" THEN "cancelled" ELSE token[p]]
    /\ UNCHANGED <<queueVars, enabled, pc, batch, skip, job, outcome, torn>>

ThreadsGone ==
    /\ pc' = [p \in Pools |-> "down"]
    /\ batch' = [p \in Pools |-> {}]
    /\ skip' = [p \in Pools |-> {}]
    /\ job' = [p \in Pools |-> {}]
    /\ outcome' = [p \in Pools |-> NoOutcome]
    /\ token' = [p \in Pools |-> "none"]
    /\ torn' = [p \in Pools |-> {}]
    /\ UNCHANGED <<queueVars, enabled, stop>>

\* All threads have been joined and the process ends.
ProcessExit ==
    /\ \A p \in Pools : pc[p] \in {"stopped", "dead"}
    /\ ThreadsGone
    /\ UNCHANGED events

\* The process is killed, or exits after the five seconds stop_workers
\* waits: the threads are daemons and vanish wherever they are.
Crash ==
    /\ \E p \in Pools : pc[p] # "down"
    /\ Event
    /\ ThreadsGone

-----------------------------------------------------------------------------
(***************************************************************************)
(* Classifier.run                                                          *)
(***************************************************************************)

WorkerStart(p) ==
    /\ pc[p] = "start"
    /\ staging' = [d \in Domains |-> RequeueRow(staging[d], p)]
    /\ Goto(p, "idle")
    /\ UNCHANGED <<locked, enabled, batch, skip, job, outcome, token, stop, events, torn>>

\* The top of the loop: stop, or go on when the pool is enabled and ready.
LoopTop(p) ==
    /\ pc[p] = "idle"
    /\ \/ stop[p] /\ Goto(p, "stopped")
       \/ ~stop[p] /\ enabled[p] /\ StagingReady(p) /\ Goto(p, "ready")
    /\ UNCHANGED <<queueVars, enabled, batch, skip, job, outcome, token, stop, events, torn>>

\* staging_claim_items; the queue may have changed since staging_ready.
StagingClaim(p) ==
    /\ pc[p] = "ready"
    /\ \E S \in ClaimSets(p) :
         /\ staging' = [d \in Domains |-> IF d \in S THEN ClaimRow(staging[d])
                                          ELSE staging[d]]
         /\ batch' = [batch EXCEPT ![p] = S]
         /\ torn' = [q \in Pools |-> IF q = p THEN torn[q] \ S ELSE torn[q]]
         /\ Goto(p, IF S = {} THEN "idle" ELSE "claimed")
    /\ UNCHANGED <<locked, enabled, skip, job, outcome, token, stop, events>>

\* The stop event is tested once more before the batch is worked on.
AfterClaim(p) ==
    /\ pc[p] = "claimed"
    /\ Goto(p, IF stop[p] THEN "abandon" ELSE "check")
    /\ UNCHANGED <<queueVars, enabled, batch, skip, job, outcome, token, stop, events, torn>>

\* "Classifier stopped before processing": defer what was claimed, and end.
Abandon(p) ==
    /\ pc[p] = "abandon"
    /\ \/ \E d \in batch[p] :
            /\ staging' = [staging EXCEPT ![d] = DeferRow(@, 0)]
            /\ batch' = [batch EXCEPT ![p] = @ \ {d}]
            /\ Tear({d}, p)
            /\ UNCHANGED pc
       \/ /\ batch[p] = {}
          /\ Goto(p, "stopped")
          /\ UNCHANGED <<staging, batch, torn>>
    /\ UNCHANGED <<locked, enabled, skip, job, outcome, token, stop, events>>

\* get_domain_lock for one claimed domain.
CheckLock(p, d) ==
    /\ pc[p] = "check"
    /\ skip[p] = {}
    /\ d \in batch[p]
    /\ batch' = [batch EXCEPT ![p] = @ \ {d}]
    /\ \/ d \in locked /\ skip' = [skip EXCEPT ![p] = {d}] /\ UNCHANGED job
       \/ d \notin locked /\ job' = [job EXCEPT ![p] = @ \cup {d}] /\ UNCHANGED skip
    /\ UNCHANGED <<queueVars, enabled, pc, outcome, token, stop, events, torn>>

\* staging_ack of a domain that was locked a moment ago.
AckLocked(p) ==
    /\ pc[p] = "check"
    /\ \E d \in skip[p] :
         /\ staging' = [staging EXCEPT ![d] = NoRow]
         /\ skip' = [skip EXCEPT ![p] = @ \ {d}]
         /\ Tear({d}, p)
    /\ UNCHANGED <<locked, enabled, pc, batch, job, outcome, token, stop, events>>

\* _begin_job, unless every domain of the batch was locked.
BeginJob(p) ==
    /\ pc[p] = "check"
    /\ batch[p] = {} /\ skip[p] = {}
    /\ \/ job[p] = {} /\ Goto(p, "idle") /\ UNCHANGED token
       \/ /\ job[p] # {}
          /\ Goto(p, "dispatch")
          /\ token' = [token EXCEPT ![p] = IF stop[p] THEN "cancelled" ELSE "live"]
    /\ UNCHANGED <<queueVars, enabled, batch, skip, job, outcome, stop, events, torn>>

\* The dossiers, dispatch_analysis and _handle_dispatch_result end in one of
\* four ways.  OperationCancelledError needs a cancelled token, but a
\* cancelled job may just as well have finished first.  An error may come
\* after some results have been stored and applied.
Dispatch(p) ==
    /\ pc[p] = "dispatch"
    /\ \E o \in [kind : {"result", "unavailable"}, completed : SUBSET job[p], retry : 0..MaxDelay]
             \cup [kind : {"cancelled", "error"}, completed : {{}}, retry : {0}] :
         /\ o.kind = "cancelled" => token[p] = "cancelled"
         /\ o.kind = "unavailable" => o.completed = {}
         /\ outcome' = [outcome EXCEPT ![p] = o]
    /\ Goto(p, "settle")
    /\ UNCHANGED <<queueVars, enabled, batch, skip, job, token, stop, events, torn>>

\* What becomes of one domain: staging_ack, staging_defer or staging_fail.
SettledRow(p, d) ==
    LET o == outcome[p] row == staging[d] IN
    CASE o.kind = "result" /\ d \in o.completed -> NoRow
      [] o.kind = "cancelled" -> DeferRow(row, 0)
      [] o.kind \in {"result", "unavailable"} /\ d \notin o.completed /\ o.retry > 0 ->
            DeferRow(row, o.retry)
      [] OTHER -> FailRow(row)

Settle(p, d) ==
    /\ pc[p] = "settle"
    /\ d \in job[p]
    /\ staging' = [staging EXCEPT ![d] = SettledRow(p, d)]
    /\ job' = [job EXCEPT ![p] = @ \ {d}]
    /\ Tear({d}, p)
    /\ UNCHANGED <<locked, enabled, pc, batch, skip, outcome, token, stop, events>>

\* _finish_job; a cancelled job ends the thread when it was told to stop.
FinishJob(p) ==
    /\ pc[p] = "settle"
    /\ job[p] = {}
    /\ token' = [token EXCEPT ![p] = "none"]
    /\ outcome' = [outcome EXCEPT ![p] = NoOutcome]
    /\ Goto(p, IF outcome[p].kind = "cancelled" /\ stop[p] THEN "stopped" ELSE "idle")
    /\ UNCHANGED <<queueVars, enabled, batch, skip, job, stop, events, torn>>

\* An exception outside the try block, or in one of its handlers (the
\* options file or the database cannot be read or written), ends the thread.
\* Nothing restarts it in this process.
WorkerDies(p) ==
    /\ pc[p] \in {"start", "idle", "ready", "claimed", "abandon", "check", "settle"}
    /\ Event
    /\ Goto(p, "dead")
    /\ batch' = [batch EXCEPT ![p] = {}]
    /\ skip' = [skip EXCEPT ![p] = {}]
    /\ job' = [job EXCEPT ![p] = {}]
    /\ outcome' = [outcome EXCEPT ![p] = NoOutcome]
    /\ token' = [token EXCEPT ![p] = "none"]
    /\ torn' = [torn EXCEPT ![p] = {}]
    /\ UNCHANGED <<queueVars, enabled, stop>>

-----------------------------------------------------------------------------
\* One second passes.
Later(n) == IF n = 0 THEN 0 ELSE n - 1

Tick ==
    /\ staging' = [d \in Domains |->
                     IF staging[d].state = "none" THEN staging[d]
                     ELSE [staging[d] EXCEPT !.waited = IF @ < MaxWait THEN @ + 1 ELSE @,
                                             !.delay = Later(@)]]
    /\ outcome' = [p \in Pools |-> [outcome[p] EXCEPT !.retry = Later(@)]]
    /\ <<staging, outcome>>' # <<staging, outcome>>
    /\ UNCHANGED <<locked, enabled, pc, batch, skip, job, token, stop, events, torn>>

WorkerStep(p) ==
    \/ WorkerStart(p) \/ LoopTop(p) \/ StagingClaim(p) \/ AfterClaim(p) \/ Abandon(p)
    \/ \E d \in Domains : CheckLock(p, d)
    \/ AckLocked(p) \/ BeginJob(p) \/ Dispatch(p)
    \/ \E d \in Domains : Settle(p, d)
    \/ FinishJob(p)

Next ==
    \/ \E D \in SUBSET Domains \ {{}}, r \in Requests : Enqueue(D, r)
    \/ \E d \in Domains : SetDomainLock(d) \/ RemoveDomainLock(d)
    \/ \E D \in SUBSET Domains \ {{}} : StagingRemove(D)
    \/ \E P \in SUBSET Pools : CancelJobs(P)
    \/ \E p \in Pools : ToggleEnabled(p) \/ WorkerStep(p) \/ WorkerDies(p)
    \/ GetClassifier \/ StopWorkers \/ ProcessExit \/ Crash
    \/ Tick

Spec == Init /\ [][Next]_vars

(***************************************************************************)
(* Fairness: the threads are scheduled and their provider calls end (every *)
(* HTTP request has a timeout), seconds pass, an exiting process exits,    *)
(* and the application is started again.  Users and faults are free.       *)
(***************************************************************************)
Fairness ==
    /\ \A p \in Pools : WF_vars(WorkerStep(p))
    /\ WF_vars(Tick)
    /\ WF_vars(GetClassifier)
    /\ WF_vars(ProcessExit)

LiveSpec == Spec /\ Fairness

-----------------------------------------------------------------------------
(***************************************************************************)
(* Properties.                                                             *)
(***************************************************************************)

\* Every variable keeps its type; a claim can be torn only while it is held.
TypeOK ==
    /\ staging \in [Domains -> Rows]
    /\ locked \subseteq Domains
    /\ enabled \in [Pools -> BOOLEAN]
    /\ pc \in [Pools -> PCs]
    /\ batch \in [Pools -> SUBSET Domains]
    /\ skip \in [Pools -> SUBSET Domains]
    /\ job \in [Pools -> SUBSET Domains]
    /\ outcome \in [Pools -> Outcomes]
    /\ token \in [Pools -> {"none", "live", "cancelled"}]
    /\ stop \in [Pools -> BOOLEAN]
    /\ events \in 0..MaxEvents
    /\ torn \in [Pools -> SUBSET Domains]

\* As long as nobody deletes a row from under a Classifier, what it has
\* claimed stays its own: the row is still there, still processing, still in
\* the Classifier's pool, with its attempt counted (staging_enqueue_detailed
\* leaves processing rows alone, and the other pool's thread cannot take it).
ClaimKept ==
    \A p \in Pools : \A d \in Held(p) \ torn[p] :
        /\ staging[d].state = "processing"
        /\ staging[d].pool = p
        /\ staging[d].attempts >= 1

\* The two Classifiers analyse the same domain at the same time only after
\* the row of the first claim was deleted (a lock, a review decision) and the
\* domain was queued again: staging_claim_items alone never hands it to both.
NoDoubleWork ==
    \A d \in Held("realtime") \cap Held("background") :
        d \in torn["realtime"] \cup torn["background"]

\* No job is lost in state processing: the Classifier of its pool holds it,
\* or has yet to run staging_requeue_processing, or has died.
NoOrphan ==
    \A d \in Domains :
        staging[d].state = "processing" =>
            LET p == staging[d].pool IN
            d \in Held(p) \/ pc[p] \in {"down", "start", "dead"}

\* A locked domain has no queue row, whatever a Classifier that had claimed
\* it before the lock does to it afterwards (set_domain_lock deletes the row;
\* staging_fail and staging_defer must not bring it back).
LockedNotQueued == \A d \in locked : staging[d].state = "none"

\* A job that is only waiting for its turn never turns failed, and a
\* finished or failed one is never taken up again without being queued:
\* every queue row follows the life cycle JobLifecycle describes.
Lifecycle == INSTANCE JobLifecycle WITH Jobs <- Domains,
                                        job <- [d \in Domains |-> staging[d].state]
FollowsLifecycle == Lifecycle!Spec

\* No job stays in processing for ever, whatever is cancelled, stopped,
\* removed or killed, unless a Classifier thread has died of an exception.
ProcessingEnds ==
    \A d \in Domains :
        (staging[d].state = "processing")
            ~> (staging[d].state # "processing" \/ \E p \in Pools : pc[p] = "dead")

\* A queued job is taken up, removed or moved to the other pool in the end,
\* however short the queue is (max_queue_wait_sec) and however often
\* providers have deferred it, while its pool stays enabled and alive.
QueuedServed ==
    \A d \in Domains, p \in Pools :
        (staging[d].state = "queued" /\ staging[d].pool = p)
            ~> \/ ~(staging[d].state = "queued" /\ staging[d].pool = p)
               \/ ~enabled[p]
               \/ pc[p] = "dead"
=============================================================================
