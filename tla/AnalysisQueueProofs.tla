------------------------ MODULE AnalysisQueueProofs ------------------------
(***************************************************************************)
(* Proofs about AnalysisQueue, for any set of domains, any batch size and  *)
(* any number of user steps and faults.                                    *)
(***************************************************************************)
EXTENDS AnalysisQueue, TLAPS

-----------------------------------------------------------------------------
(***************************************************************************)
(* Lemmas about the row operators.                                         *)
(***************************************************************************)

\* A row a Classifier has acknowledged, deferred or failed is not processing;
\* a missing row stays missing, and a row claimed at most once before does
\* not wait with an attempt on its account.
Released(row, new) ==
    /\ new \in Rows
    /\ new.state # "processing"
    /\ row.state = "none" => new.state = "none"
    /\ row.attempts <= 1 => /\ new.attempts <= 1
                            /\ new.state = "queued" => new.attempts = 0
    /\ row.state = "queued" /\ row.attempts = 0 => new.state # "failed"

\* The initial row and the row of a deleted entry are rows.
LEMMA NoRowIsRow == NoRow \in Rows /\ \A row \in Rows : Released(row, NoRow)
BY QueueConstants DEF NoRow, Rows, Priorities, Sources, Pools, Released

\* staging_enqueue_detailed leaves a processing row alone and otherwise
\* leaves a queued row; it forgets the attempts of a new or a failed job.
LEMMA EnqueueRowFacts ==
    ASSUME NEW row \in Rows, NEW r \in Requests
    PROVE  LET new == EnqueueRow(row, r) IN
           /\ new \in Rows
           /\ row.state = "processing" => new = row
           /\ row.state # "processing" => new.state = "queued"
           /\ row.state = "queued" => new.attempts = row.attempts
           /\ row.state \in {"none", "failed"} => new.attempts = 0
<1>1. /\ r.priority \in Priorities /\ r.source \in Sources /\ r.pool \in Pools
  BY DEF Requests, ManualRequest, LiveQuery, Recheck, Priorities, Sources, Pools
<1> DEFINE pr == IF r.priority >= row.priority THEN r.priority ELSE row.priority
           so == IF r.priority >= row.priority THEN r.source ELSE row.source
           po == IF r.priority >= row.priority THEN r.pool ELSE row.pool
<1>2. /\ pr \in Priorities /\ so \in Sources /\ po \in Pools
      /\ 0 \in 0..MaxDelay
  BY <1>1, QueueConstants DEF Rows
<1>3. CASE row.state = "processing"
  BY <1>3 DEF EnqueueRow
<1>4. CASE row.state = "queued"
  <2>1. EnqueueRow(row, r) = [row EXCEPT !.priority = pr, !.source = so, !.pool = po,
                                         !.delay = 0]
    BY <1>4 DEF EnqueueRow
  <2> HIDE DEF pr, so, po
  <2> QED BY <2>1, <1>2, <1>4 DEF Rows
<1>5. CASE row.state \in {"none", "failed"}
  <2>1. EnqueueRow(row, r) = [state |-> "queued", attempts |-> 0, priority |-> pr,
                              source |-> r.source, pool |-> r.pool,
                              waited |-> row.waited, delay |-> 0]
    BY <1>5 DEF EnqueueRow
  <2> HIDE DEF pr
  <2> QED BY <2>1, <1>1, <1>2, <1>5 DEF Rows
<1> QED BY <1>3, <1>4, <1>5 DEF Rows

\* A claim marks the row and counts one more attempt.
LEMMA ClaimRowFacts ==
    ASSUME NEW row \in Rows
    PROVE  LET new == ClaimRow(row) IN
           /\ new \in Rows /\ new.state = "processing"
           /\ new.attempts = row.attempts + 1 /\ new.pool = row.pool
<1> DEFINE n == row.attempts + 1
<1>1. n \in Nat
  BY DEF Rows
<1>2. ClaimRow(row) = [row EXCEPT !.state = "processing", !.attempts = n]
  BY DEF ClaimRow
<1>3. n = row.attempts + 1
  OBVIOUS
<1> HIDE DEF n
<1> QED BY <1>1, <1>2, <1>3 DEF Rows

\* staging_fail releases a row.
LEMMA FailRowFacts ==
    ASSUME NEW row \in Rows
    PROVE  Released(row, FailRow(row))
<1> DEFINE st == IF row.attempts >= 1 THEN "failed" ELSE "queued"
<1>1. CASE row.state = "none"
  BY <1>1 DEF FailRow, Rows, Released
<1>2. CASE row.state # "none"
  <2>1. FailRow(row) = [row EXCEPT !.state = st, !.delay = 0]
    BY <1>2 DEF FailRow
  <2>2. /\ st \in {"failed", "queued"}
        /\ st = "queued" <=> row.attempts = 0
        /\ 0 \in 0..MaxDelay
    BY QueueConstants DEF Rows
  <2> HIDE DEF st
  <2> QED BY <2>1, <2>2, <1>2 DEF Rows, Released
<1> QED BY <1>1, <1>2

\* staging_defer releases a row, and never marks it failed.
LEMMA DeferRowFacts ==
    ASSUME NEW row \in Rows, NEW n \in 0..MaxDelay
    PROVE  Released(row, DeferRow(row, n))
<1> DEFINE at == IF row.attempts = 0 THEN 0 ELSE row.attempts - 1
           de == IF n >= 1 THEN n ELSE 1
<1>1. CASE row.state = "none"
  BY <1>1 DEF DeferRow, Rows, Released
<1>2. CASE row.state # "none"
  <2>1. DeferRow(row, n) = [row EXCEPT !.state = "queued", !.attempts = at, !.delay = de]
    BY <1>2 DEF DeferRow
  <2>2. /\ at \in Nat
        /\ row.attempts <= 1 => at = 0
        /\ de \in 0..MaxDelay
    BY QueueConstants DEF Rows
  <2> HIDE DEF at, de
  <2>3. DeferRow(row, n) \in Rows
    BY <2>1, <2>2 DEF Rows
  <2>4. DeferRow(row, n).state = "queued" /\ DeferRow(row, n).attempts = at
    BY <2>1 DEF Rows
  <2> QED BY <2>2, <2>3, <2>4, <1>2 DEF Released
<1> QED BY <1>1, <1>2

\* A starting Classifier turns its own pool's processing rows into queued ones.
LEMMA RequeueRowFacts ==
    ASSUME NEW row \in Rows, NEW p \in Pools
    PROVE  LET new == RequeueRow(row, p) IN
           /\ new \in Rows
           /\ new.pool = row.pool /\ new.attempts = row.attempts
           /\ ~(row.state = "processing" /\ row.pool = p) => new = row
           /\ row.state = "processing" /\ row.pool = p => new.state = "queued"
<1>1. 0 \in 0..MaxDelay
  BY QueueConstants
<1>2. CASE row.state = "processing" /\ row.pool = p
  <2>1. RequeueRow(row, p) = [row EXCEPT !.state = "queued", !.delay = 0]
    BY <1>2 DEF RequeueRow
  <2>2. RequeueRow(row, p) \in Rows
    BY <2>1, <1>1 DEF Rows
  <2>3. /\ RequeueRow(row, p).state = "queued"
        /\ RequeueRow(row, p).pool = row.pool
        /\ RequeueRow(row, p).attempts = row.attempts
    BY <2>1 DEF Rows
  <2> QED BY <2>2, <2>3, <1>2
<1>3. CASE ~(row.state = "processing" /\ row.pool = p)
  BY <1>3 DEF RequeueRow
<1> QED BY <1>2, <1>3

\* Whatever dispatch reported, settling a domain releases its row.
LEMMA SettledRowFacts ==
    ASSUME TypeOK, NEW p \in Pools, NEW d \in Domains
    PROVE  Released(staging[d], SettledRow(p, d))
<1>1. staging[d] \in Rows /\ outcome[p].retry \in 0..MaxDelay /\ 0 \in 0..MaxDelay
  BY QueueConstants DEF TypeOK, Outcomes
<1>2. SettledRow(p, d) \in {NoRow, FailRow(staging[d]), DeferRow(staging[d], 0),
                            DeferRow(staging[d], outcome[p].retry)}
  BY DEF SettledRow
<1> QED BY <1>1, <1>2, NoRowIsRow, FailRowFacts, DeferRowFacts

-----------------------------------------------------------------------------
(***************************************************************************)
(* The inductive invariant.                                                *)
(***************************************************************************)

\* Where a Classifier is says what it can hold; claims are torn only while
\* they are held; the two threads are started, and vanish, together.
Shape ==
    \A p \in Pools :
        /\ pc[p] \in {"down", "start", "idle", "ready", "stopped", "dead"} => Held(p) = {}
        /\ pc[p] \in {"claimed", "abandon"} => skip[p] = {} /\ job[p] = {}
        /\ pc[p] \in {"dispatch", "settle"} => batch[p] = {} /\ skip[p] = {}
        /\ batch[p] \cap skip[p] = {} /\ batch[p] \cap job[p] = {} /\ skip[p] \cap job[p] = {}
        /\ torn[p] \subseteq Held(p)
        /\ pc[p] = "down" => \A q \in Pools : pc[q] = "down"

\* The row found under a torn claim is younger than the claim: it has been
\* claimed at most once, and not before its Classifier's thread started.
TornFresh ==
    \A p \in Pools : \A d \in torn[p] :
        /\ staging[d].attempts <= 1
        /\ staging[d].state = "queued" => staging[d].attempts = 0
        /\ staging[d].state = "processing" => pc[staging[d].pool] # "start"

QueueInv == TypeOK /\ Shape /\ ClaimKept /\ TornFresh /\ NoOrphan /\ LockedNotQueued

\* A domain in both Classifiers' hands is torn for one of them: untorn, its
\* row would have to be in both pools.
LEMMA DoubleWork == ClaimKept => NoDoubleWork
BY DEF ClaimKept, NoDoubleWork, Pools

\* A second changes only the age and the delay of a row.
LEMMA TickRow ==
    ASSUME NEW row \in Rows
    PROVE  LET new == [row EXCEPT !.waited = IF @ < MaxWait THEN @ + 1 ELSE @,
                                  !.delay = Later(@)] IN
           /\ new \in Rows
           /\ new.state = row.state /\ new.attempts = row.attempts /\ new.pool = row.pool
<1> DEFINE wa == IF row.waited < MaxWait THEN row.waited + 1 ELSE row.waited
           de == Later(row.delay)
           new == [row EXCEPT !.waited = IF @ < MaxWait THEN @ + 1 ELSE @,
                              !.delay = Later(@)]
<1>1. wa \in 0..MaxWait /\ de \in 0..MaxDelay
  BY QueueConstants DEF Rows, Later
<1>2. new = [row EXCEPT !.waited = wa, !.delay = de]
  OBVIOUS
<1> HIDE DEF wa, de, new
<1>3. new \in Rows
  BY <1>1, <1>2 DEF Rows
<1>4. new.state = row.state /\ new.attempts = row.attempts /\ new.pool = row.pool
  BY <1>2 DEF Rows
<1> QED BY <1>3, <1>4 DEF new

\* The outcome of a job keeps its type while its retry time comes nearer.
LEMMA OutcomeFacts ==
    /\ NoOutcome \in Outcomes
    /\ \A o \in Outcomes : [o EXCEPT !.retry = Later(@)] \in Outcomes
<1>1. NoOutcome \in Outcomes
  BY QueueConstants DEF NoOutcome, Outcomes
<1>2. ASSUME NEW o \in Outcomes PROVE [o EXCEPT !.retry = Later(@)] \in Outcomes
  <2> DEFINE n == Later(o.retry)
  <2>1. n \in 0..MaxDelay
    BY QueueConstants DEF Outcomes, Later
  <2> HIDE DEF n
  <2>2. [o EXCEPT !.retry = n] \in Outcomes
    BY <2>1 DEF Outcomes
  <2> QED BY <2>2 DEF n
<1> QED BY <1>1, <1>2

\* The application starts with an empty queue and no thread.
LEMMA QueueInit == Init => QueueInv
<1> SUFFICES ASSUME Init PROVE QueueInv
  OBVIOUS
<1>1. TypeOK
  BY NoRowIsRow, OutcomeFacts, QueueConstants DEF Init, TypeOK, PCs
<1>2. Shape /\ ClaimKept /\ TornFresh
  BY DEF Init, Shape, ClaimKept, TornFresh, Held, Pools
<1>3. NoOrphan /\ LockedNotQueued
  BY DEF Init, NoOrphan, LockedNotQueued, NoRow
<1> QED BY <1>1, <1>2, <1>3 DEF QueueInv

-----------------------------------------------------------------------------
(***************************************************************************)
(* Type correctness.                                                       *)
(***************************************************************************)

\* Every step keeps the types.
LEMMA TypeStep == TypeOK /\ [Next]_vars => TypeOK'
<1> SUFFICES ASSUME TypeOK, [Next]_vars PROVE TypeOK'
  OBVIOUS
<1> USE DEF TypeOK
<1>z. 0 \in 0..MaxDelay /\ MaxEvents \in Nat
  BY QueueConstants
<1>0. CASE UNCHANGED vars
  BY <1>0 DEF vars
<1>e. ASSUME Event PROVE events' \in 0..MaxEvents
  BY <1>e, QueueConstants DEF Event
<1>t. ASSUME NEW D \in SUBSET Domains, NEW m, Tear(D, m) PROVE torn' \in [Pools -> SUBSET Domains]
  BY <1>t DEF Tear, Held
<1>1. ASSUME NEW D \in SUBSET Domains, NEW r \in Requests, Enqueue(D, r) PROVE TypeOK'
  <2>1. staging' \in [Domains -> Rows]
    BY <1>1, EnqueueRowFacts DEF Enqueue
  <2> QED BY <2>1, <1>1, <1>e DEF Enqueue, workerVars
<1>2. ASSUME NEW d \in Domains, SetDomainLock(d) PROVE TypeOK'
  BY <1>2, <1>e, <1>t, NoRowIsRow DEF SetDomainLock, workerVars
<1>3. ASSUME NEW d \in Domains, RemoveDomainLock(d) PROVE TypeOK'
  BY <1>3, <1>e DEF RemoveDomainLock, workerVars
<1>4. ASSUME NEW D \in SUBSET Domains, StagingRemove(D) PROVE TypeOK'
  BY <1>4, <1>e, <1>t, NoRowIsRow DEF StagingRemove, workerVars
<1>5. ASSUME NEW P \in SUBSET Pools, CancelJobs(P) PROVE TypeOK'
  BY <1>5, <1>e DEF CancelJobs, queueVars
<1>6. ASSUME NEW p \in Pools, ToggleEnabled(p) PROVE TypeOK'
  BY <1>6, <1>e DEF ToggleEnabled, queueVars, workerVars
<1>7. CASE GetClassifier
  BY <1>7 DEF GetClassifier, queueVars, PCs
<1>8. CASE StopWorkers
  BY <1>8, <1>e DEF StopWorkers, queueVars
<1>g. ASSUME ThreadsGone, events' \in 0..MaxEvents PROVE TypeOK'
  BY <1>g, OutcomeFacts DEF ThreadsGone, queueVars, PCs
<1>9. CASE ProcessExit
  BY <1>9, <1>g DEF ProcessExit
<1>10. CASE Crash
  BY <1>10, <1>g, <1>e DEF Crash
<1>11. CASE Tick
  <2>1. staging' \in [Domains -> Rows]
    BY <1>11, TickRow DEF Tick
  <2>2. outcome' \in [Pools -> Outcomes]
    BY <1>11, OutcomeFacts DEF Tick
  <2> QED BY <2>1, <2>2, <1>11 DEF Tick
<1>12. ASSUME NEW p \in Pools, WorkerStep(p) \/ WorkerDies(p) PROVE TypeOK'
  <2>1. CASE WorkerStart(p)
    <3>1. staging' \in [Domains -> Rows]
      BY <2>1, RequeueRowFacts DEF WorkerStart
    <3> QED BY <3>1, <2>1 DEF WorkerStart, Goto, PCs
  <2>2. CASE LoopTop(p)
    BY <2>2 DEF LoopTop, Goto, PCs, queueVars
  <2>3. CASE StagingClaim(p)
    <3>1. PICK S \in ClaimSets(p) :
            /\ staging' = [d \in Domains |-> IF d \in S THEN ClaimRow(staging[d])
                                             ELSE staging[d]]
            /\ batch' = [batch EXCEPT ![p] = S]
            /\ torn' = [q \in Pools |-> IF q = p THEN torn[q] \ S ELSE torn[q]]
            /\ Goto(p, IF S = {} THEN "idle" ELSE "claimed")
      BY <2>3 DEF StagingClaim
    <3>2. S \subseteq Domains
      BY DEF ClaimSets, Available
    <3>3. staging' \in [Domains -> Rows]
      BY <3>1, ClaimRowFacts
    <3> QED BY <3>1, <3>2, <3>3, <2>3 DEF StagingClaim, Goto, PCs
  <2>4. CASE AfterClaim(p)
    BY <2>4 DEF AfterClaim, Goto, PCs, queueVars
  <2>5. CASE Abandon(p)
    <3>1. CASE batch[p] = {} /\ Goto(p, "stopped") /\ UNCHANGED <<staging, batch, torn>>
      BY <3>1, <2>5 DEF Abandon, Goto, PCs
    <3>2. ASSUME NEW d \in batch[p],
                 staging' = [staging EXCEPT ![d] = DeferRow(@, 0)],
                 batch' = [batch EXCEPT ![p] = @ \ {d}], Tear({d}, p), UNCHANGED pc
          PROVE  TypeOK'
      <4>1. d \in Domains /\ DeferRow(staging[d], 0) \in Rows
        BY <3>2, <1>z, DeferRowFacts DEF Released
      <4> QED BY <4>1, <3>2, <2>5, <1>t DEF Abandon
    <3> QED BY <3>1, <3>2, <2>5 DEF Abandon
  <2>6. ASSUME NEW d \in Domains, CheckLock(p, d) PROVE TypeOK'
    BY <2>6 DEF CheckLock, queueVars
  <2>7. CASE AckLocked(p)
    <3>1. PICK d \in skip[p] : /\ staging' = [staging EXCEPT ![d] = NoRow]
                               /\ skip' = [skip EXCEPT ![p] = @ \ {d}]
                               /\ Tear({d}, p)
      BY <2>7 DEF AckLocked
    <3>2. d \in Domains
      OBVIOUS
    <3>3. staging' \in [Domains -> Rows] /\ skip' \in [Pools -> SUBSET Domains]
      BY <3>1, <3>2, NoRowIsRow
    <3>4. torn' \in [Pools -> SUBSET Domains]
      BY <3>1, <3>2, <1>t
    <3> QED BY <3>3, <3>4, <2>7 DEF AckLocked
  <2>8. CASE BeginJob(p)
    BY <2>8 DEF BeginJob, Goto, PCs, queueVars
  <2>9. CASE Dispatch(p)
    <3>1. outcome' \in [Pools -> Outcomes]
      BY <2>9, <1>z DEF Dispatch, Outcomes
    <3> QED BY <3>1, <2>9 DEF Dispatch, Goto, PCs, queueVars
  <2>10. ASSUME NEW d \in Domains, Settle(p, d) PROVE TypeOK'
    BY <2>10, <1>t, SettledRowFacts DEF Settle, Released
  <2>11. CASE FinishJob(p)
    BY <2>11, OutcomeFacts DEF FinishJob, Goto, PCs, queueVars
  <2>12. CASE WorkerDies(p)
    <3>1. events' \in 0..MaxEvents
      BY <2>12, <1>e DEF WorkerDies
    <3>2. pc' \in [Pools -> PCs] /\ outcome' \in [Pools -> Outcomes]
      BY <2>12, OutcomeFacts DEF WorkerDies, Goto, PCs
    <3> QED BY <3>1, <3>2, <2>12 DEF WorkerDies, queueVars
  <2> QED BY <1>12, <2>1, <2>2, <2>3, <2>4, <2>5, <2>6, <2>7, <2>8, <2>9, <2>10, <2>11, <2>12
          DEF WorkerStep
<1> QED BY <1>0, <1>1, <1>2, <1>3, <1>4, <1>5, <1>6, <1>7, <1>8, <1>9, <1>10, <1>11, <1>12
        DEF Next

\* The type invariant holds for every value of the constants.
THEOREM TypeCorrect == Spec => []TypeOK
<1>1. Init => TypeOK
  BY QueueInit DEF QueueInv
<1> QED BY <1>1, TypeStep, PTL DEF Spec

-----------------------------------------------------------------------------
(***************************************************************************)
(* The steps that matter: a Classifier lets go of one domain, by            *)
(* staging_ack, staging_defer or staging_fail, whoever's row it now is.    *)
(***************************************************************************)
Release(p, d) ==
    /\ d \in Held(p)
    /\ \E new : /\ Released(staging[d], new)
               /\ staging' = [staging EXCEPT ![d] = new]
    /\ Held(p)' = Held(p) \ {d}
    /\ \A q \in Pools \ {p} : Held(q)' = Held(q)
    /\ Tear({d}, p)
    /\ UNCHANGED <<locked, pc>>

\* Letting go of a domain spoils nobody else's claim but those marked torn,
\* leaves no orphan and brings no locked domain back into the queue.
LEMMA ReleaseKeeps ==
    ASSUME QueueInv, NEW p \in Pools, NEW d \in Domains, Release(p, d)
    PROVE  ClaimKept' /\ TornFresh' /\ NoOrphan' /\ LockedNotQueued'
<1> USE DEF QueueInv
<1>1. PICK new : Released(staging[d], new) /\ staging' = [staging EXCEPT ![d] = new]
  BY DEF Release
<1>2. /\ staging'[d] = new
      /\ \A e \in Domains \ {d} : staging'[e] = staging[e]
  BY <1>1 DEF TypeOK
<1>3. /\ Held(p)' = Held(p) \ {d} /\ d \in Held(p)
      /\ \A q \in Pools \ {p} : Held(q)' = Held(q)
      /\ torn'[p] = torn[p] \ {d}
      /\ \A q \in Pools \ {p} : torn'[q] = torn[q] \cup ({d} \cap Held(q))
      /\ locked' = locked /\ pc' = pc
  BY DEF Release, Tear
<1>4. \A q \in Pools : Held(q) \subseteq Domains /\ torn[q] \subseteq Held(q)
  BY DEF TypeOK, Held, Shape
<1>5. ClaimKept'
  BY <1>2, <1>3, <1>4 DEF ClaimKept
<1>6. TornFresh'
  <2> SUFFICES ASSUME NEW q \in Pools, NEW e \in torn'[q]
               PROVE  /\ staging'[e].attempts <= 1
                      /\ staging'[e].state = "queued" => staging'[e].attempts = 0
                      /\ staging'[e].state = "processing" => pc[staging'[e].pool] # "start"
    BY <1>3 DEF TornFresh
  <2>1. CASE e # d
    BY <2>1, <1>2, <1>3, <1>4 DEF TornFresh
  <2>2. CASE e = d
    <3>1. q # p /\ d \in Held(q)
      BY <2>2, <1>3, <1>4
    <3>2. d \in torn[p] \cup torn[q]
      BY <3>1, <1>3, <1>4 DEF ClaimKept
    <3>3. staging[d].attempts <= 1
      BY <3>2 DEF TornFresh
    <3> QED BY <3>3, <2>2, <1>1, <1>2 DEF Released
  <2> QED BY <2>1, <2>2
<1>7. NoOrphan'
  <2> SUFFICES ASSUME NEW e \in Domains, NEW q, staging'[e].state = "processing",
                      staging'[e].pool = q
               PROVE  e \in Held(q)' \/ pc'[q] \in {"down", "start", "dead"}
    BY DEF NoOrphan, Held
  <2>1. e # d
    BY <1>1, <1>2 DEF Released
  <2>2. staging[e].state = "processing" /\ staging[e].pool = q /\ q \in Pools
    BY <2>1, <1>2 DEF TypeOK, Rows
  <2>3. e \in Held(q) \/ pc[q] \in {"down", "start", "dead"}
    BY <2>2 DEF NoOrphan
  <2> QED BY <2>1, <2>2, <2>3, <1>3
<1>8. LockedNotQueued'
  BY <1>1, <1>2, <1>3 DEF LockedNotQueued, Released, TypeOK
<1> QED BY <1>5, <1>6, <1>7, <1>8

\* A step that touches neither queue nor claims keeps the queue invariants,
\* provided no thread (re)starts or leaves the states without a thread.
LEMMA QuietKeeps ==
    ASSUME QueueInv, UNCHANGED <<staging, torn>>, locked' \subseteq locked,
           \A q \in Pools : Held(q)' = Held(q),
           \A q \in Pools : /\ pc'[q] = "start" => pc[q] = "start"
                            /\ pc[q] \in {"down", "start", "dead"} => pc'[q] = pc[q]
    PROVE  ClaimKept' /\ TornFresh' /\ NoOrphan' /\ LockedNotQueued'
<1> USE DEF QueueInv
<1>0. \A d \in Domains : staging[d].pool \in Pools
  BY DEF TypeOK, Rows
<1>1. ClaimKept'
  BY DEF ClaimKept
<1>2. TornFresh'
  <2>1. \A q \in Pools : torn[q] \subseteq Domains
    BY DEF TypeOK
  <2> QED BY <1>0, <2>1 DEF TornFresh
<1>3. NoOrphan'
  <2> SUFFICES ASSUME NEW e \in Domains, NEW q, staging[e].state = "processing",
                      staging[e].pool = q
               PROVE  e \in Held(q)' \/ pc'[q] \in {"down", "start", "dead"}
    BY DEF NoOrphan, Held
  <2> QED BY <1>0 DEF NoOrphan
<1>4. LockedNotQueued'
  BY DEF LockedNotQueued
<1> QED BY <1>1, <1>2, <1>3, <1>4

\* Deleting rows from outside tears the claims on them and nothing else.
LEMMA DeleteKeeps ==
    ASSUME QueueInv, NEW D \in SUBSET Domains, Tear(D, "nobody"),
           staging' = [d \in Domains |-> IF d \in D THEN NoRow ELSE staging[d]],
           locked' \subseteq locked \cup D, UNCHANGED <<pc, batch, skip, job>>
    PROVE  ClaimKept' /\ TornFresh' /\ NoOrphan' /\ LockedNotQueued'
<1> USE DEF QueueInv
<1>1. /\ \A q \in Pools : torn'[q] = torn[q] \cup (D \cap Held(q))
      /\ \A q \in Pools : Held(q)' = Held(q) /\ Held(q) \subseteq Domains
      /\ \A q \in Pools : torn[q] \subseteq Domains
  BY DEF Tear, Pools, Held, TypeOK
<1>2. /\ \A d \in D : staging'[d] = NoRow
      /\ \A d \in Domains \ D : staging'[d] = staging[d]
      /\ NoRow.state = "none" /\ NoRow.attempts = 0
  BY DEF NoRow
<1>3. ClaimKept'
  BY <1>1, <1>2 DEF ClaimKept
<1>4. TornFresh'
  BY <1>1, <1>2 DEF TornFresh
<1>5. NoOrphan'
  <2> SUFFICES ASSUME NEW e \in Domains, NEW q, staging'[e].state = "processing",
                      staging'[e].pool = q
               PROVE  e \in Held(q)' \/ pc'[q] \in {"down", "start", "dead"}
    BY DEF NoOrphan, Held
  <2>1. staging'[e] = staging[e] /\ q \in Pools
    BY <1>2 DEF TypeOK, Rows
  <2> QED BY <2>1, <1>1 DEF NoOrphan
<1>6. LockedNotQueued'
  BY <1>2 DEF LockedNotQueued, TypeOK
<1> QED BY <1>3, <1>4, <1>5, <1>6

-----------------------------------------------------------------------------
\* A step keeps the relation between a thread's place and its claims.
LEMMA ShapeStep == QueueInv /\ [Next]_vars => Shape'
<1> SUFFICES ASSUME QueueInv, [Next]_vars PROVE Shape'
  OBVIOUS
<1> USE DEF QueueInv, TypeOK
<1>0. CASE UNCHANGED vars
  BY <1>0 DEF vars, Shape, Held
<1>t. ASSUME NEW D, Tear(D, "nobody") PROVE \A q \in Pools : torn'[q] = torn[q] \cup (D \cap Held(q))
  BY <1>t DEF Tear, Pools
<1>1. ASSUME NEW D \in SUBSET Domains, NEW r \in Requests, Enqueue(D, r) PROVE Shape'
  BY <1>1 DEF Enqueue, workerVars, Shape, Held
<1>2. ASSUME NEW d \in Domains, SetDomainLock(d) PROVE Shape'
  BY <1>2, <1>t DEF SetDomainLock, workerVars, Shape, Held
<1>3. ASSUME NEW d \in Domains, RemoveDomainLock(d) PROVE Shape'
  BY <1>3 DEF RemoveDomainLock, workerVars, Shape, Held
<1>4. ASSUME NEW D \in SUBSET Domains, StagingRemove(D) PROVE Shape'
  BY <1>4, <1>t DEF StagingRemove, workerVars, Shape, Held
<1>5. ASSUME NEW P \in SUBSET Pools, CancelJobs(P) PROVE Shape'
  BY <1>5 DEF CancelJobs, queueVars, Shape, Held
<1>6. ASSUME NEW p \in Pools, ToggleEnabled(p) PROVE Shape'
  BY <1>6 DEF ToggleEnabled, queueVars, workerVars, Shape, Held
<1>7. CASE GetClassifier
  BY <1>7 DEF GetClassifier, queueVars, Shape, Held
<1>8. CASE StopWorkers
  BY <1>8 DEF StopWorkers, queueVars, Shape, Held
<1>9. CASE ProcessExit \/ Crash
  BY <1>9 DEF ProcessExit, Crash, ThreadsGone, Shape, Held
<1>11. CASE Tick
  BY <1>11 DEF Tick, Shape, Held
<1>12. ASSUME NEW p \in Pools, WorkerStep(p) \/ WorkerDies(p) PROVE Shape'
  <2>t. ASSUME NEW D, Tear(D, p) PROVE /\ torn'[p] = torn[p] \ D
                                      /\ \A q \in Pools \ {p} : torn'[q] = torn[q] \cup (D \cap Held(q))
    BY <2>t DEF Tear
  <2>1. CASE WorkerStart(p)
    BY <2>1 DEF WorkerStart, Goto, Shape, Held
  <2>2. CASE LoopTop(p)
    BY <2>2 DEF LoopTop, Goto, Shape, Held
  <2>3. CASE StagingClaim(p)
    BY <2>3 DEF StagingClaim, Goto, Shape, Held
  <2>4. CASE AfterClaim(p)
    BY <2>4 DEF AfterClaim, Goto, Shape, Held
  <2>5. CASE Abandon(p)
    <3>1. CASE batch[p] = {} /\ Goto(p, "stopped") /\ UNCHANGED <<staging, batch, torn>>
      BY <3>1, <2>5 DEF Abandon, Goto, Shape, Held
    <3>2. CASE ~(batch[p] = {} /\ Goto(p, "stopped") /\ UNCHANGED <<staging, batch, torn>>)
      <4>1. PICK d \in batch[p] : /\ batch' = [batch EXCEPT ![p] = @ \ {d}]
                                  /\ Tear({d}, p)
                                  /\ UNCHANGED pc
        BY <3>2, <2>5 DEF Abandon
      <4>2. /\ batch'[p] = batch[p] \ {d}
            /\ \A q \in Pools \ {p} : batch'[q] = batch[q]
        BY <4>1
      <4> QED BY <4>1, <4>2, <2>5, <2>t DEF Abandon, Shape, Held
    <3> QED BY <3>1, <3>2
  <2>6. ASSUME NEW d \in Domains, CheckLock(p, d) PROVE Shape'
    BY <2>6 DEF CheckLock, queueVars, Shape, Held
  <2>7. CASE AckLocked(p)
    BY <2>7, <2>t DEF AckLocked, Shape, Held
  <2>8. CASE BeginJob(p)
    BY <2>8 DEF BeginJob, Goto, Shape, Held
  <2>9. CASE Dispatch(p)
    BY <2>9 DEF Dispatch, Goto, Shape, Held
  <2>10. ASSUME NEW d \in Domains, Settle(p, d) PROVE Shape'
    BY <2>10, <2>t DEF Settle, Shape, Held
  <2>11. CASE FinishJob(p)
    BY <2>11 DEF FinishJob, Goto, Shape, Held
  <2>12. CASE WorkerDies(p)
    BY <2>12 DEF WorkerDies, Goto, Shape, Held
  <2> QED BY <1>12, <2>1, <2>2, <2>3, <2>4, <2>5, <2>6, <2>7, <2>8, <2>9, <2>10, <2>11, <2>12
          DEF WorkerStep
<1> QED BY <1>0, <1>1, <1>2, <1>3, <1>4, <1>5, <1>6, <1>7, <1>8, <1>9, <1>11, <1>12
        DEF Next

-----------------------------------------------------------------------------
\* The queue invariants are preserved by every step.
LEMMA QueueStep == QueueInv /\ [Next]_vars => QueueInv'
<1> SUFFICES ASSUME QueueInv, [Next]_vars
             PROVE  ClaimKept' /\ TornFresh' /\ NoOrphan' /\ LockedNotQueued'
  BY TypeStep, ShapeStep DEF QueueInv
<1> DEFINE Goal == ClaimKept' /\ TornFresh' /\ NoOrphan' /\ LockedNotQueued'
<1> USE DEF QueueInv
<1>h. \A q \in Pools : /\ Held(q) \subseteq Domains /\ torn[q] \subseteq Held(q)
                       /\ pc[q] \in {"down", "start", "idle", "ready", "stopped", "dead"}
                            => Held(q) = {}
  BY DEF TypeOK, Held, Shape
<1>p. \A d \in Domains : staging[d] \in Rows /\ staging[d].pool \in Pools
  BY DEF TypeOK, Rows
<1>n. ASSUME \A e \in Domains, q \in Pools :
                staging'[e].state = "processing" /\ staging'[e].pool = q
                  => e \in Held(q)' \/ pc'[q] \in {"down", "start", "dead"},
             \A e \in Domains : staging'[e].pool \in Pools
      PROVE  NoOrphan'
  BY <1>n DEF NoOrphan, Held
<1>0. CASE UNCHANGED vars
  BY <1>0, QuietKeeps DEF vars, Held
<1>1. ASSUME NEW D \in SUBSET Domains, NEW r \in Requests, Enqueue(D, r) PROVE Goal
  <2>1. /\ \A q \in Pools : Held(q)' = Held(q) /\ torn'[q] = torn[q]
        /\ locked' = locked /\ pc' = pc
    BY <1>1 DEF Enqueue, workerVars, Held
  <2>2. \A d \in Domains : staging'[d] \in Rows
    BY <1>1, <1>p, EnqueueRowFacts DEF Enqueue
  <2>8. ASSUME NEW d \in Domains, staging'[d] # staging[d]
        PROVE  /\ d \notin locked
               /\ staging[d].state # "processing"
               /\ staging'[d].state = "queued"
               /\ staging[d].attempts = 0 \/ staging[d].state # "queued"
                    => staging'[d].attempts = 0
    <3>1. d \notin locked /\ staging'[d] = EnqueueRow(staging[d], r) /\ staging[d] \in Rows
      BY <2>8, <1>1, <1>p DEF Enqueue
    <3>2. staging[d].state \in {"none", "queued", "processing", "failed"}
      BY <3>1 DEF Rows
    <3> QED BY <2>8, <3>1, <3>2, EnqueueRowFacts
  <2>3. ClaimKept'
    BY <2>1, <2>8, <1>h DEF ClaimKept
  <2>7. \A d \in Domains : staging'[d].state = "processing" => staging'[d] = staging[d]
    BY <2>8
  <2>4. TornFresh'
    <3> SUFFICES ASSUME NEW q \in Pools, NEW d \in torn[q]
                 PROVE  /\ staging'[d].attempts <= 1
                        /\ staging'[d].state = "queued" => staging'[d].attempts = 0
                        /\ staging'[d].state = "processing" => pc[staging'[d].pool] # "start"
      BY <2>1 DEF TornFresh
    <3>1. d \in Domains /\ staging[d].attempts <= 1
          /\ (staging[d].state = "queued" => staging[d].attempts = 0)
      BY <1>h DEF TornFresh
    <3>2. CASE staging'[d] = staging[d]
      BY <3>2 DEF TornFresh
    <3>3. CASE staging'[d] # staging[d]
      <4>1. staging'[d].state = "queued" /\ staging'[d].attempts = 0
        BY <3>1, <3>3, <2>8
      <4> QED BY <4>1
    <3> QED BY <3>2, <3>3
  <2>5. NoOrphan'
    <3>1. \A d \in Domains : staging'[d].pool \in Pools
      BY <2>2 DEF Rows
    <3> QED BY <2>1, <2>7, <3>1, <1>n DEF NoOrphan
  <2>6. LockedNotQueued'
    BY <2>1, <2>8 DEF LockedNotQueued, TypeOK
  <2> QED BY <2>3, <2>4, <2>5, <2>6
<1>2. ASSUME NEW d \in Domains, SetDomainLock(d) PROVE Goal
  <2>1. staging' = [e \in Domains |-> IF e \in {d} THEN NoRow ELSE staging[e]]
    BY <1>2 DEF SetDomainLock, TypeOK
  <2>2. Tear({d}, "nobody") /\ locked' \subseteq locked \cup {d} /\ UNCHANGED <<pc, batch, skip, job>>
    BY <1>2 DEF SetDomainLock, workerVars
  <2> QED BY <2>1, <2>2, DeleteKeeps
<1>3. ASSUME NEW d \in Domains, RemoveDomainLock(d) PROVE Goal
  BY <1>3, QuietKeeps DEF RemoveDomainLock, workerVars, Held
<1>4. ASSUME NEW D \in SUBSET Domains, StagingRemove(D) PROVE Goal
  BY <1>4, DeleteKeeps DEF StagingRemove, workerVars
<1>5. ASSUME NEW P \in SUBSET Pools, CancelJobs(P) PROVE Goal
  BY <1>5, QuietKeeps DEF CancelJobs, queueVars, Held
<1>6. ASSUME NEW p \in Pools, ToggleEnabled(p) PROVE Goal
  BY <1>6, QuietKeeps DEF ToggleEnabled, queueVars, workerVars, Held
<1>7. CASE GetClassifier
  <2>1. /\ \A q \in Pools : Held(q)' = {} /\ torn'[q] = {} /\ pc'[q] = "start"
        /\ locked' = locked /\ staging' = staging
    BY <1>7, <1>h DEF GetClassifier, queueVars, Held
  <2> QED BY <2>1, <1>n, <1>p DEF ClaimKept, TornFresh, LockedNotQueued
<1>8. CASE StopWorkers
  BY <1>8, QuietKeeps DEF StopWorkers, queueVars, Held
<1>9. CASE ProcessExit \/ Crash
  <2>1. /\ \A q \in Pools : Held(q)' = {} /\ torn'[q] = {} /\ pc'[q] = "down"
        /\ locked' = locked /\ staging' = staging
    BY <1>9 DEF ProcessExit, Crash, ThreadsGone, queueVars, Held
  <2> QED BY <2>1, <1>n, <1>p DEF ClaimKept, TornFresh, LockedNotQueued
<1>11. CASE Tick
  <2>1. /\ \A q \in Pools : Held(q)' = Held(q) /\ torn'[q] = torn[q]
        /\ locked' = locked /\ pc' = pc
    BY <1>11 DEF Tick, Held
  <2>2. \A d \in Domains : /\ staging'[d].state = staging[d].state
                           /\ staging'[d].attempts = staging[d].attempts
                           /\ staging'[d].pool = staging[d].pool
    BY <1>11, <1>p, TickRow DEF Tick
  <2>3. ClaimKept' /\ TornFresh'
    BY <2>1, <2>2, <1>h DEF ClaimKept, TornFresh
  <2>4. NoOrphan'
    BY <2>1, <2>2, <1>n, <1>p DEF NoOrphan
  <2>5. LockedNotQueued'
    BY <2>1, <2>2 DEF LockedNotQueued, TypeOK
  <2> QED BY <2>3, <2>4, <2>5
<1>12. ASSUME NEW p \in Pools, WorkerStep(p) \/ WorkerDies(p) PROVE Goal
  <2>1. CASE WorkerStart(p)
    <3>1. /\ \A q \in Pools : Held(q)' = Held(q) /\ torn'[q] = torn[q]
          /\ locked' = locked /\ pc[p] = "start" /\ pc'[p] = "idle"
          /\ \A q \in Pools \ {p} : pc'[q] = pc[q]
      BY <2>1 DEF WorkerStart, Goto, Held, TypeOK
    <3>2. \A d \in Domains :
            /\ staging'[d] = RequeueRow(staging[d], p)
            /\ staging'[d].pool = staging[d].pool
            /\ staging'[d] = staging[d] \/ (/\ staging[d].state = "processing"
                                           /\ staging[d].pool = p)
            /\ staging'[d].state = "processing" => staging'[d] = staging[d] /\ staging[d].pool # p
      BY <2>1, <1>p, RequeueRowFacts DEF WorkerStart
    <3>3. Held(p) = {}
      BY <3>1, <1>h
    <3>4. ClaimKept'
      BY <3>1, <3>2, <3>3, <1>h DEF ClaimKept
    <3>5. TornFresh'
      <4> SUFFICES ASSUME NEW q \in Pools, NEW d \in torn[q]
                   PROVE  /\ staging'[d].attempts <= 1
                          /\ staging'[d].state = "queued" => staging'[d].attempts = 0
                          /\ staging'[d].state = "processing" => pc'[staging'[d].pool] # "start"
        BY <3>1 DEF TornFresh
      <4>1. d \in Domains /\ staging'[d] = staging[d]
        BY <3>1, <3>2, <1>h DEF TornFresh
      <4> QED BY <4>1, <3>1, <3>2, <1>p DEF TornFresh
    <3>6. NoOrphan'
      BY <3>1, <3>2, <1>n, <1>p DEF NoOrphan
    <3>7. LockedNotQueued'
      BY <3>1, <3>2 DEF LockedNotQueued, TypeOK
    <3> QED BY <3>4, <3>5, <3>6, <3>7
  <2>2. CASE LoopTop(p)
    BY <2>2, QuietKeeps DEF LoopTop, Goto, queueVars, Held, TypeOK
  <2>3. CASE StagingClaim(p)
    <3>1. PICK S \in ClaimSets(p) :
            /\ staging' = [d \in Domains |-> IF d \in S THEN ClaimRow(staging[d])
                                             ELSE staging[d]]
            /\ batch' = [batch EXCEPT ![p] = S]
            /\ torn' = [q \in Pools |-> IF q = p THEN torn[q] \ S ELSE torn[q]]
            /\ Goto(p, IF S = {} THEN "idle" ELSE "claimed")
      BY <2>3 DEF StagingClaim
    <3>2. S \subseteq Domains /\ \A d \in S : staging[d].state = "queued" /\ staging[d].pool = p
      BY DEF ClaimSets, Available
    <3>3. /\ Held(p) = {} /\ Held(p)' = S /\ torn'[p] = {} /\ locked' = locked
          /\ \A q \in Pools \ {p} : Held(q)' = Held(q) /\ torn'[q] = torn[q] /\ pc'[q] = pc[q]
          /\ pc[p] = "ready" /\ pc'[p] \in {"idle", "claimed"}
      BY <3>1, <2>3, <1>h DEF StagingClaim, Goto, Held, TypeOK
    <3>4. /\ \A d \in Domains \ S : staging'[d] = staging[d]
          /\ \A d \in S : /\ staging'[d].state = "processing" /\ staging'[d].pool = p
                           /\ staging'[d].attempts = staging[d].attempts + 1
      BY <3>1, <3>2, <1>p, ClaimRowFacts
    <3>5. ClaimKept'
      BY <3>2, <3>3, <3>4, <1>p, <1>h DEF ClaimKept, Rows
    <3>6. TornFresh'
      BY <3>2, <3>3, <3>4, <1>p, <1>h DEF TornFresh, Rows
    <3>7. NoOrphan'
      BY <3>2, <3>3, <3>4, <1>n, <1>p DEF NoOrphan
    <3>8. LockedNotQueued'
      BY <3>2, <3>3, <3>4 DEF LockedNotQueued, TypeOK
    <3> QED BY <3>5, <3>6, <3>7, <3>8
  <2>4. CASE AfterClaim(p)
    BY <2>4, QuietKeeps DEF AfterClaim, Goto, queueVars, Held, TypeOK
  <2>5. CASE Abandon(p)
    <3>1. CASE batch[p] = {} /\ Goto(p, "stopped") /\ UNCHANGED <<staging, batch, torn>>
      BY <3>1, <2>5, QuietKeeps DEF Abandon, Goto, Held, TypeOK
    <3>2. ASSUME NEW d \in batch[p],
                 staging' = [staging EXCEPT ![d] = DeferRow(@, 0)],
                 batch' = [batch EXCEPT ![p] = @ \ {d}], Tear({d}, p), UNCHANGED pc
          PROVE  Goal
      <4>1. d \in Domains /\ Released(staging[d], DeferRow(staging[d], 0))
        BY <3>2, QueueConstants, DeferRowFacts DEF TypeOK
      <4>2. /\ batch'[p] = batch[p] \ {d} /\ skip' = skip /\ job' = job /\ locked' = locked
            /\ \A q \in Pools \ {p} : batch'[q] = batch[q]
            /\ d \notin skip[p] /\ d \notin job[p]
        BY <3>2, <2>5 DEF Abandon, TypeOK, Shape
      <4>3. /\ d \in Held(p) /\ Held(p)' = Held(p) \ {d}
            /\ \A q \in Pools \ {p} : Held(q)' = Held(q)
        BY <4>2 DEF Held
      <4>4. Release(p, d)
        BY <4>1, <4>2, <4>3, <3>2 DEF Release
      <4> QED BY <4>1, <4>4, ReleaseKeeps
    <3> QED BY <3>1, <3>2, <2>5 DEF Abandon
  <2>6. ASSUME NEW d \in Domains, CheckLock(p, d) PROVE Goal
    <3>1. \A q \in Pools : Held(q)' = Held(q)
      BY <2>6 DEF CheckLock, Held, TypeOK
    <3> QED BY <3>1, <2>6, QuietKeeps DEF CheckLock, queueVars
  <2>7. CASE AckLocked(p)
    <3>1. PICK d \in skip[p] : /\ staging' = [staging EXCEPT ![d] = NoRow]
                               /\ skip' = [skip EXCEPT ![p] = @ \ {d}]
                               /\ Tear({d}, p)
      BY <2>7 DEF AckLocked
    <3>2. d \in Domains /\ Released(staging[d], NoRow)
      BY <1>p, NoRowIsRow DEF TypeOK
    <3>3. /\ skip'[p] = skip[p] \ {d} /\ batch' = batch /\ job' = job
          /\ locked' = locked /\ pc' = pc
          /\ \A q \in Pools \ {p} : skip'[q] = skip[q]
          /\ d \notin batch[p] /\ d \notin job[p]
      BY <3>1, <2>7 DEF AckLocked, TypeOK, Shape
    <3>4. /\ d \in Held(p) /\ Held(p)' = Held(p) \ {d}
          /\ \A q \in Pools \ {p} : Held(q)' = Held(q)
      BY <3>3 DEF Held
    <3>5. Release(p, d)
      BY <3>1, <3>2, <3>3, <3>4 DEF Release
    <3> QED BY <3>2, <3>5, ReleaseKeeps
  <2>8. CASE BeginJob(p)
    BY <2>8, QuietKeeps DEF BeginJob, Goto, queueVars, Held, TypeOK
  <2>9. CASE Dispatch(p)
    BY <2>9, QuietKeeps DEF Dispatch, Goto, queueVars, Held, TypeOK
  <2>10. ASSUME NEW d \in Domains, Settle(p, d) PROVE Goal
    <3>1. Released(staging[d], SettledRow(p, d))
      BY SettledRowFacts
    <3>2. Release(p, d)
      BY <3>1, <2>10 DEF Settle, Release, Held, TypeOK, Shape
    <3> QED BY <3>2, ReleaseKeeps
  <2>11. CASE FinishJob(p)
    BY <2>11, QuietKeeps DEF FinishJob, Goto, queueVars, Held, TypeOK
  <2>12. CASE WorkerDies(p)
    <3>1. /\ Held(p)' = {} /\ torn'[p] = {} /\ pc'[p] = "dead"
          /\ \A q \in Pools \ {p} : Held(q)' = Held(q) /\ torn'[q] = torn[q] /\ pc'[q] = pc[q]
          /\ locked' = locked /\ staging' = staging
      BY <2>12 DEF WorkerDies, Goto, queueVars, Held, TypeOK
    <3>2. ClaimKept' /\ LockedNotQueued'
      BY <3>1 DEF ClaimKept, LockedNotQueued
    <3>3. TornFresh'
      BY <3>1, <1>p, <1>h DEF TornFresh
    <3>4. NoOrphan'
      BY <3>1, <1>n, <1>p DEF NoOrphan
    <3> QED BY <3>2, <3>3, <3>4
  <2> QED BY <1>12, <2>1, <2>2, <2>3, <2>4, <2>5, <2>6, <2>7, <2>8, <2>9, <2>10, <2>11, <2>12
          DEF WorkerStep
<1> QED BY <1>0, <1>1, <1>2, <1>3, <1>4, <1>5, <1>6, <1>7, <1>8, <1>9, <1>11, <1>12
        DEF Next

-----------------------------------------------------------------------------
(***************************************************************************)
(* The theorems.                                                           *)
(***************************************************************************)
LEMMA QueueInvariant == Spec => []QueueInv
BY QueueInit, QueueStep, PTL DEF Spec

\* A claimed job stays with its Classifier unless its row is deleted from
\* outside: staging_enqueue_detailed, the other pool's thread, a restart and
\* time leave it alone.
THEOREM ClaimsAreKept == Spec => []ClaimKept
<1>1. QueueInv => ClaimKept
  BY DEF QueueInv
<1> QED BY <1>1, QueueInvariant, PTL

\* Both Classifiers work on one domain only after its row was deleted under
\* one of them.
THEOREM WorkIsExclusive == Spec => []NoDoubleWork
BY ClaimsAreKept, DoubleWork, PTL

\* No job is left in processing without a thread that holds it or a start
\* that will requeue it.
THEOREM NoJobIsOrphaned == Spec => []NoOrphan
<1>1. QueueInv => NoOrphan
  BY DEF QueueInv
<1> QED BY <1>1, QueueInvariant, PTL

\* A protected domain is never in the queue.
THEOREM LockedStaysOut == Spec => []LockedNotQueued
<1>1. QueueInv => LockedNotQueued
  BY DEF QueueInv
<1> QED BY <1>1, QueueInvariant, PTL

\* Every row's next state is one the life cycle allows.
LEMMA LifecycleStep ==
    ASSUME QueueInv, [Next]_vars, NEW d \in Domains
    PROVE  \/ staging'[d].state = staging[d].state
           \/ <<staging[d].state, staging'[d].state>> \in Lifecycle!Moves
<1> DEFINE Goal == \/ staging'[d].state = staging[d].state
                   \/ <<staging[d].state, staging'[d].state>> \in Lifecycle!Moves
<1> USE DEF QueueInv
<1>p. staging[d] \in Rows /\ staging[d].state \in {"none", "queued", "processing", "failed"}
  BY DEF TypeOK, Rows
<1>0. CASE staging' = staging
  BY <1>0
<1>d. ASSUME staging'[d].state = "none" PROVE Goal
  BY <1>d, <1>p DEF Lifecycle!Moves
<1>r. ASSUME NEW p \in Pools, NEW e \in Held(p), NEW new, Released(staging[e], new),
             staging' = [staging EXCEPT ![e] = new]
      PROVE  Goal
  <2>1. CASE e # d
    BY <2>1, <1>r DEF TypeOK
  <2>2. CASE e = d
    <3>1. staging'[d] = new
      BY <2>2, <1>r DEF TypeOK
    <3>2. staging[d].state = "queued" => staging[d].attempts = 0
      BY <2>2, <1>r DEF ClaimKept, TornFresh
    <3>3. new.state \in {"none", "queued", "failed"}
      BY <1>r DEF Released, Rows
    <3> QED BY <3>1, <3>2, <3>3, <2>2, <1>p, <1>r DEF Released, Lifecycle!Moves
  <2> QED BY <2>1, <2>2
<1>1. ASSUME NEW D \in SUBSET Domains, NEW r \in Requests, Enqueue(D, r) PROVE Goal
  <2>1. staging'[d] = staging[d] \/ staging'[d] = EnqueueRow(staging[d], r)
    BY <1>1 DEF Enqueue
  <2> QED BY <2>1, <1>p, EnqueueRowFacts DEF Lifecycle!Moves
<1>2. ASSUME NEW e \in Domains, SetDomainLock(e) PROVE Goal
  BY <1>2, <1>d DEF SetDomainLock, TypeOK, NoRow
<1>4. ASSUME NEW D \in SUBSET Domains, StagingRemove(D) PROVE Goal
  BY <1>4, <1>d DEF StagingRemove, NoRow
<1>5. CASE Tick
  BY <1>5, <1>p, TickRow DEF Tick
<1>6. ASSUME NEW p \in Pools, WorkerStart(p) PROVE Goal
  <2>1. staging'[d] = RequeueRow(staging[d], p)
    BY <1>6 DEF WorkerStart
  <2>2. \/ staging'[d] = staging[d]
        \/ staging[d].state = "processing" /\ staging'[d].state = "queued"
    BY <2>1, <1>p, RequeueRowFacts
  <2> QED BY <2>2 DEF Lifecycle!Moves
<1>7. ASSUME NEW p \in Pools, StagingClaim(p) PROVE Goal
  <2>1. \/ staging'[d] = staging[d]
        \/ staging[d].state = "queued" /\ staging'[d] = ClaimRow(staging[d])
    BY <1>7 DEF StagingClaim, ClaimSets, Available
  <2>2. \/ staging'[d] = staging[d]
        \/ staging[d].state = "queued" /\ staging'[d].state = "processing"
    BY <2>1, <1>p, ClaimRowFacts
  <2> QED BY <2>2 DEF Lifecycle!Moves
<1>8. ASSUME NEW p \in Pools, Abandon(p) PROVE Goal
  <2>1. CASE UNCHANGED staging
    BY <2>1, <1>0
  <2>2. ASSUME NEW e \in batch[p], staging' = [staging EXCEPT ![e] = DeferRow(@, 0)] PROVE Goal
    <3>1. e \in Held(p) /\ Released(staging[e], DeferRow(staging[e], 0))
      BY QueueConstants, DeferRowFacts DEF Held, TypeOK
    <3> QED BY <3>1, <2>2, <1>r
  <2> QED BY <2>1, <2>2, <1>8 DEF Abandon
<1>9. ASSUME NEW p \in Pools, AckLocked(p) PROVE Goal
  <2>1. PICK e \in skip[p] : staging' = [staging EXCEPT ![e] = NoRow]
    BY <1>9 DEF AckLocked
  <2> QED BY <2>1, <1>d DEF TypeOK, NoRow
<1>10. ASSUME NEW p \in Pools, NEW e \in Domains, Settle(p, e) PROVE Goal
  BY <1>10, <1>r, SettledRowFacts DEF Settle, Held
<1>11. ASSUME NEW p \in Pools,
              \/ LoopTop(p) \/ AfterClaim(p) \/ BeginJob(p) \/ Dispatch(p) \/ FinishJob(p)
              \/ WorkerDies(p) \/ ToggleEnabled(p) \/ \E e \in Domains : CheckLock(p, e)
       PROVE  staging' = staging
  BY <1>11 DEF LoopTop, AfterClaim, BeginJob, Dispatch, FinishJob, WorkerDies, ToggleEnabled,
               CheckLock, queueVars
<1>12. ASSUME \/ UNCHANGED vars \/ GetClassifier \/ StopWorkers \/ ProcessExit \/ Crash
              \/ \E e \in Domains : RemoveDomainLock(e)
              \/ \E P \in SUBSET Pools : CancelJobs(P)
       PROVE  staging' = staging
  BY <1>12 DEF vars, GetClassifier, StopWorkers, ProcessExit, Crash, ThreadsGone,
               RemoveDomainLock, CancelJobs, queueVars
<1> HIDE DEF Goal
<1> QED BY <1>0, <1>1, <1>2, <1>4, <1>5, <1>6, <1>7, <1>8, <1>9, <1>10, <1>11, <1>12
        DEF Next, WorkerStep, Goal

\* The queue and its two Classifiers implement the job life cycle: in
\* particular a job that merely waits is never marked failed, not even by a
\* Classifier that still believes it owns an older claim on the domain.
THEOREM ImplementsLifecycle == Spec => FollowsLifecycle
<1>1. Init => Lifecycle!Init
  BY DEF Init, Lifecycle!Init, NoRow
<1>2. QueueInv /\ QueueInv' /\ [Next]_vars => [Lifecycle!Next]_([d \in Domains |-> staging[d].state])
  <2> SUFFICES ASSUME QueueInv, QueueInv', [Next]_vars PROVE Lifecycle!Next
    OBVIOUS
  <2>1. \A d \in Domains : staging'[d].state \in Lifecycle!States
    BY DEF QueueInv, TypeOK, Rows, Lifecycle!States
  <2>2. \A d \in Domains : \/ staging'[d].state = staging[d].state
                          \/ <<staging[d].state, staging'[d].state>> \in Lifecycle!Moves
    BY LifecycleStep
  <2> QED BY <2>1, <2>2 DEF Lifecycle!Next
<1> QED BY <1>1, <1>2, QueueInvariant, PTL DEF Spec, FollowsLifecycle, Lifecycle!Spec
=============================================================================
