# Wormhole Observatory: TLA+ models, checks and proofs

Wormhole Observatory (`pihole_manager/`) watches the queries of a Pi-hole,
collects evidence on unknown domains, has language models classify them and,
where the configured policy permits, adds allow or deny rules. This directory
holds TLA+ models of the parts that decide what is analysed, what it may cost
and what is done to Pi-hole, TLC configurations that check them on small
instances, and proofs checked by TLAPS.

## 1. Inventory

| Component (source) | State | Operations | What makes it correct |
|---|---|---|---|
| Analysis queue (`database_core.py` 692-1071) | `staging_domains`: state, attempts, priority, source, pool, created and available times | enqueue, ready, claim, ack, fail, defer, requeue, remove | a job is worked on by one thread, is never lost, and waits as long as it was told to |
| Classifier threads (`workers.py`) | claimed batch, cancellation token, stop event | loop, lock check, dispatch, settle, start, stop, cancel | every claimed row is settled, also around cancellation, stop and crash |
| Domain protection (`database_features.py` 122-158) | `domain_locks` | set, remove | a protected domain is not analysed nor changed |
| Provider dispatch (`analysis_dispatcher.py`) | provider health, running calls, results, errors | distribute, fallback, compare, verify, split, cancel | one primary answer per domain, unverified answers are vetoed, the batch comes back |
| Quota ledger (`quota.py`) | `quota_reservations`, `runtime_quota_state` | reserve, complete, cancel, expire, observe headers | no window is overrun, the realtime reserve stays, retries come at the right time |
| Automation policy (`workers.py` 432-653, `behavior_change.py`, `compatibility_profiles.py`, `llm.py`) | last primary run, manual tags, profile | normalise, enrich, compare, resolve | only safe, agreed, undisputed actions are automatic |
| Review decisions (`application/review_decisions.py`, `database_review.py`, `review_preferences.py`) | review row, tasks, preference, Pi-hole rules | allow, deny, ignore, postpone, never ask | Pi-hole and the review row agree, whatever fails in between |
| Scanner and backfill (`workers.py` 60-190) | cursors in memory and in `app_state` | scan, backfill, recheck | every query is counted, and once; the backfill ends and leaves no gap |
| List audit (`list_audit*.py`, `list_rule_parser.py`) | completion time, threads | cycle, request now, stop | one auditor, complete cycles, due audits happen |
| Rules, groups, audit log, rollback (`pihole_service.py`, `pihole_rules.py`, `pihole_audit.py`) | Pi-hole, `pihole_audit_log` | add, edit, group, remove, roll back | the log explains what Pi-hole holds; a rollback restores exactly what its entry replaced |
| Configuration, instances, credentials (`config.py`, `pihole_instances.py`, `credentials.py`, Settings tab) | three files and the keyring | load, migrate, validate, edit, save | what is saved is read back; no holder of old options destroys secrets or choices |
| Pi-hole API client (`pihole6api/`) | session, health | request, renew, close | a change is applied once, no session is left behind |
| Provider HTTP (`provider_api.py`, `http_retry.py`, `llm.py`) | adaptive rate state, reservation | slot, reserve, send, retry, fall back | delays asked for are kept, reservations are settled, requests are bounded |
| Research and evidence (`research*.py`, `evidence_*.py`) | catalogue files, `research_findings`, run threads | download, look up, age, store, select | stored evidence is neither lost nor served too old; what is decisive is seen |
| Provider registry (`provider_registry.py`) | two cached files | refresh, resolve limits | only a signed, not older registry is used |
| Updater and migrations (`updater.py`, `database_migrations.py`) | program directory, backup, schema version | select, download, replace, confirm, roll back, migrate | the new version runs or the old one is back with its data |
| HTTP API, PWA, GUI widgets, notifications, scripts | - | call the services above | - |

The components share one process. The scanner, two Classifiers (realtime and
background), the list auditor, research executors, the registry thread, the HTTP
API's handler threads, four executor threads of the views and the GUI thread
meet in the SQLite database, whose every function runs under `_DB_LOCK` in its
own transaction, in the configuration files, each with its own lock, and in
Pi-hole, which takes part in no transaction. What is hard here is therefore what
happens *between* two such calls: rows that are removed or protected while they
are analysed, decisions and audit rows spread over Pi-hole and several tables,
saves of options loaded long ago, two files that belong together, cancellations
and deaths between two calls, provider health, rate and quota shared by pools,
and retry times that pass while one looks at them. `PROJECT.json` lists these
hazards one by one, each at its line.

## 2. Modules

| Module | Models | Extended or used by |
|---|---|---|
| `JobLifecycle` | abstract life cycle of a queue job | `AnalysisQueue` (refinement) |
| `AnalysisQueue` | queue table and the two Classifier threads | `MCAnalysisQueue`, `AnalysisQueueProofs` |
| `ProviderDispatch` | one batch through an analysis pool | `MCProviderDispatch`, `ProviderDispatchProofs` |
| `QuotaLedger` | reservations and live limits of one account | `MCQuotaLedger`, `QuotaLedgerProofs` |
| `AutomationPolicy` | repeated analyses of one domain, up to the action | `MCAutomationPolicy`, `IntakeAndPolicyProofs` |
| `ReviewActions` | carrying out automatic actions and review decisions for one domain | `MCReviewActions`, `ReviewActionsProofs` |
| `PiHoleChanges` | changes of one rule on several Pi-holes, audit log and rollback | `MCPiHoleChanges`, `PiHoleChangesProofs` |
| `IntakeStore` | what scanner and list auditor share of the database | `QueryScanner`, `ListAudit` |
| `QueryScanner` | scan cycle and history backfill | `DomainIntake` |
| `ListAudit` | auditor threads and their cycles | `DomainIntake` |
| `DomainIntake` | scanner, list auditor and classifier over one database | `MCDomainIntake`, `IntakeAndPolicyProofs` |
| `RequestRate` | pacing and backoff of one provider | `ProviderRequests` |
| `ProviderRequests` | calls of several threads to one provider | `MCRequests`, `RequestsProofs` |
| `PiHoleConnection` | one connection of the API client | `MCRequests`, `RequestsProofs` |
| `EvidenceCache` | the two files of a cached catalogue | `MCEvidence`, `RequestsProofs` |
| `EvidenceResearch` | overlapping research runs | `MCEvidence`, `RequestsProofs` |
| `EvidenceVerdicts` | findings of the built-in sources and what they amount to | `MCEvidence`, `RequestsProofs` |
| `Credentials` | secrets in the keyring or in a file | `SettingsStore` |
| `OptionsFormat` | migration and validation of `options.json` | `SettingsStore` |
| `SettingsStore` | the configuration files and their readers and writers | `MCInstallation`, `InstallationProofs` |
| `SchemaMigrations` | start-up of processes on one database | `AppUpdate` |
| `AppUpdate` | selection, download and installation of an update | `MCInstallation`, `InstallationProofs` |
| `ProviderRegistry` | refresh of the signed registry | `MCInstallation`, `InstallationProofs` |

The `map` of `PROJECT.json` gives the source lines of every definition.
Definitions whose comment begins with "Faulty variant" are single mistakes the
properties are tried against; no specification uses them.

**AnalysisQueue.** `staging[d]` is the row of a domain, with the seconds it has
waited and the seconds until it is available; the row functions (`EnqueueRow`,
`ClaimRow`, `FailRow`, `DeferRow`, `RequeueRow`) are the UPDATE statements. A
Classifier's `pc` follows `Classifier.run`: start with its requeue, the readiness
test, the claim, the look at the locks one by one, the dispatch, whose outcome is
open (`Dispatch`), and the settling of each domain. Users enqueue, protect,
remove, cancel, switch pools off, stop and exit; a process may crash and a thread
may die of an exception outside its `try`. `torn` is an observation: claims whose
row was changed by somebody else. `Tick` is one second.

**ProviderDispatch** refines the inside of that `Dispatch` step: which providers
are candidates, the calls with their batches, the cut of a batch the quota
refuses, partial answers, cooldowns shared with the other pools, the four modes,
and the settling of rows by `errors`, `ahead` (failures whose retry time is still
to come) and results. Domains are answered in sets, clock times are kept as "lies
ahead" or "has passed", and a verifier's answer as the set of domains it contradicts.

**QuotaLedger.** One rolling request limit and one daily token limit with the
safety margin and the realtime reserve; header limits with a reset; ages instead
of clock times. Shares are compared by exact integer arithmetic where the code
uses floats.

**AutomationPolicy.** An analysis is one action: `Parsed`, `Profiled`, `Guarded`
(discrepancy with the last run), `EffectiveTags` and `Resolve` are the functions
of the code in their order. Confidence is reduced to the three bands that
thresholds make, risks to representative values on both sides of each limit.

**ReviewActions.** Every transaction and every Pi-hole call is a step. A
frontend goes through read, add, delete, mark, unstage, close, prefer; the
classifier through lock, tasks, write, save, ack. Several frontends (the four
threads of the window's executor, the handlers of the HTTP API) decide at once;
`contested` remembers that the opposite decision was under way in another one.
Pi-hole calls may fail, and the process may die at any step and start again with
its stores as they are.

**PiHoleChanges.** A change is capture, call, row; a rollback is check, capture and
compare, call, mark. Each step asks again for the client and the options, so
the active instance may change in between; threads are those of the views'
executor. One rule is modelled (rules with different keys do not meet): a tag for
comment and enabled flag, a set of groups, and `None` for an absent rule and for
the groups a snapshot leaves out. `raced` and `unlogged` are observations.

**QueryScanner, ListAudit, DomainIntake.** A tick is the millisecond by which cursors move. The
Pi-hole answers a page with its newest rows, so a full page crowds older rows
out; `skipped` remembers them. The auditor has several thread slots because
`stop_list_auditor` forgets a thread that may still run. Lists are sequences of
lines in the five forms the parser tells apart; what a cycle still has to stage is
a set of line positions, up to the cap on domains and the size limit. The steps of
a backfill (record, queue, save the place, save the completion) are actions of their
own. `DomainIntake` puts both beside the classifier that takes domains from the
queue; each of the two may be switched on or off.

**RequestRate, ProviderRequests, PiHoleConnection.** Only the time *left* until
`next_request_at` is kept, which makes the pacing finite for any running time. A
call goes through slot, reservation, send, answer, and through the output modes
of its API style. `asked` is what is left of the longest delay of up to `MaxDelay`
(five minutes) an answer asked for, uncut, and `capped` what is left of the five
minutes the code keeps of a longer one. A connection's operations are serialised by
its lock, so the server is what interleaves: sessions end, answers get lost,
requests are refused, a login is answered by something that is no JSON object.
Connections without a password, TLS failures and invalid configurations share
the path of a refused request.

**EvidenceCache, EvidenceResearch, EvidenceVerdicts.** A catalogue is a version; its
two files are written one after the other. A research run has a phase, a state for
each pair of domain and source, and the domains it found protected; a finding is
when it was retrieved and when it expires, in hours. `EvidenceVerdicts` gives for
each of the built-in sources the findings it may make, with the verdict, stance,
confidence and relevance the code computes; texts, links and licences are left out.

**Credentials, OptionsFormat, SettingsStore.** The Settings tab holds the options
of its start and saves them whole; other views and the registry thread load,
change and save. A save stores secrets first and replaces the file afterwards.
A save of the instances has four steps, each of which a crash may follow: the
passwords (`StoreInstanceSecrets`), the registry (`ReplaceRegistry`), the secrets of
removed instances (`DeleteRemoved`), then the options. The registry may be missing,
unreadable or of a later schema. Ids and push keys are generated, each time
possibly another. `insts` and `instPw` are what the page holds, `regPlain` which
passwords stand in the file. `OptionsFormat` keeps the settings that depend on one
another. `chosen`, `secret`, `steady`, `damaged`, `raced`, `torn`, `cut` and
`dropped` are observations.

**SchemaMigrations, AppUpdate, ProviderRegistry.** The script's commands are steps
that may fail, those of the rollback too, which the script does not look at
(`NotRestored`). It waits for the end of the application (`ParentExits`), however
long that takes. The new process migrates the database while the script polls for
its marker, and goes on for a while after the signal of `KillNew`, for which nobody
waits; a second process may be started by the user. `told`, `botched` and
`outlived` are observations. The data lies in the
program directory or outside. Only the shell script is modelled. A registry
payload is its version, limits and signer, and a signature the payload it was
made for.

## 3. Runs

| Run | Instance | Shows |
|---|---|---|
| `queue_safety` | 2 domains, 2 pools, batch 2, 4 user or fault steps | claims are kept, work is exclusive, no orphan, protected domains stay out, the life cycle is followed |
| `queue_liveness` | 2 domains, 2 user or fault steps | `processing` ends and every queued job is taken up |
| `dispatch` | 2 domains; 2 providers in distribute and compare mode, 3 in fallback and verify mode | one primary answer per domain, no overlap, veto of unverified answers, no lost answers, termination |
| `quota_ledger` | 3 reservations, windows of 2 and 3 seconds, resets up to a second after the expiry of a reservation | windows, reserve, retry time and header amounts |
| `requests` | 2 threads with one call each and 2 attempts per mode; 3 operations, 3 sessions and 2 faults of a connection | delays asked for and the base interval are kept, reservations settled, requests bounded, calls end; changes applied once, no session left, refusals and losses reported |
| `policy_decision` | 2 tags with opposite policies, 4 profiles, hybrid and auto mode | protected services are left alone, hybrid runs do not flip |
| `policy_discrepancy` (violation) | hybrid mode, no profile | an unreviewed discrepancy becomes the next baseline |
| `review_decisions` | 2 frontends beside each other, one beside the classifier, locks, failures, crash, simulation on and off | an uncontested decision has its rule at the mark, rules survive all but contested ones, pending actions are visible, simulation changes nothing |
| `pihole_changes` | 2 threads, 3 instances of 2 Pi-holes, 3 changes or rollbacks, 1 fault, each kind of rule | the log explains the Pi-holes, rollback rows and marks go together, an unraced rollback is exact and always has a state to restore |
| `domain_intake` | 2 queries in 5 ticks with pages of one row, 1 fault; 3 lists, 2 auditor threads, 2 requests, 1 fault; both together with 1 query | queries counted once and not passed over, the backfill covers its window and ends, one auditor, complete cycles, due audits happen |
| `evidence` | 2 fetchers, 3 versions, 1 crash; a plain and a forced run over 2 domains, 1 event, 1 hour; the findings of any 2 sources | cache files consistent, evidence kept and young, protected evidence untouched, runs end without threads; verdicts used consistently |
| `installation` | 3 old files, 4 registries, 3 instances, 2 saves, 1 fault; 3 feeds, 4 archives, 3 processes; 2 refreshes of 4 registries | settings, secrets and keys survive, outages cost no password, updates install or keep the old program's data, migrations apply once, the registry stays trusted |

Most checked properties are conjunctions of named parts, which the modules state
and explain one by one:

| Property | Parts besides the type invariant |
|---|---|
| `DispatchInv` | `PrimaryOnce`, `NoOverlap` |
| `LedgerInv` | `WindowRespected`, `ReserveKept`, `RemainingKept` |
| `ReviewInv`, `RulesKept` | `DecidedRuleExists`, `PendingIsVisible`; `RuleSurvives`, `SimulationLeavesRules` |
| `AuditTrail` | `PreviousStateKnown`, `LogExplains`, `RollbackTrail` |
| `ScanInv` | `CountedOnce`, `CursorBehind` |
| `AuditInv`, `IntakeProgress` | `OneAuditor`, `CycleStagesAll`; `EventuallyCounted`, `BackfillEnds`, `AuditHappens` |
| `RequestInv`, `Paced` | `ReservationsSettled`, `RequestBudget`; `SlotAfterDelay`, `SlotsSpaced` |
| `ConnectionSafe` | `AppliedOnce`, `NoSessionLeft`, `FailureIsReported`, `ClosedIsSilent` |
| `CacheInv`, `EvidenceKept` | `ValidatorsBehindPayload`; `NoThreadLeft`, `EvidenceRetained`, `ServedIsYoung`, `ProtectedEvidenceKept` |
| `VerdictInv` | `MissingIsNeutral`, `FullStrengthIsDecisive`, `DecisiveIsHarmful`, `DecisiveIsShown` |
| `MigrationInv`, `UpdateInv` | `SchemaComplete`, `MigratedOnce`; `DataSurvives`, `RollbackUsable`, `InstalledIsSelected`, `OneVersionRuns`, `SuccessIsConfirmed` |
| `SettingsInv`, `FilesKept` | `WrittenIsStable`, `PoolsRunnable`, `SecretKept`, `SimulationKept`, `NoOrphanSecrets`; `ActiveAgrees`, `NewerKept`, `PushKeyStable` |
| `RegistrySafe` | `RegistryTrusted`, `RegistryNotLost`, `CapsRespected`, `NoRegistryDowngrade` |

The violation run states what a document of the repository says; `findings` quotes
the line and describes what the code does instead. The parts of `requests`,
`evidence` and `installation` share no state in the program as modelled, so each
behaviour shows one of them (`part`), chosen at the start; this is a union of state
spaces, not a restriction.

**Bounds and why they are enough.** Two domains let one be torn while the other
is kept, let a batch be refused as a whole and be cut, and make the batch
threshold matter; there are exactly two pools. `MaxEvents` of the queue counts only
steps of users and faults, and every race listed needs at most three of them
(enqueue, delete, enqueue again); the proofs remove this bound. Delays are bounded
by `MaxDelay`, resets by `MaxReset`. In the quota ledger three reservations overrun
a limit of three less its margin. Two conflicting tags are the smallest case in
which tags disagree, and the policy's proofs hold for any. In fallback mode
three providers are the least with a partial answer, a failure and a rescue.
Three changes of a rule are the least for a change, a rollback of it and a third
that races them; two of three instances share a URL, so that the registry does not
always name one. One frontend races the classifier; two frontends race each other with
an empty queue and no task or preference, none of which a decision reads (`Aside`,
`Told` in `MCReviewActions`). The proofs remove these bounds. Where scanner
and auditor are both switched on they meet only in the sets of known and staged
domains, so there the bounds are smaller (`SharedQueries` and the like). Resets of
four seconds lie beyond the expiry (three), so that a reservation may expire while
a header is in force. Two instances in the registry and a third id are the least to
remove one and add one. Pages of one row make every page full. Two attempts show every
transition between attempts, and a delay of four ticks outlasts both the adaptive
interval (two) and the base (one). For evidence one hour and one event suffice
because after it a finding is too old under the strict ceiling (1 hour) and not
under the lax one (3 hours) or the source's interval (2 hours); two answers are
the least that can contradict or crowd each other out of a prompt of
two. Two saves are a save over a save of another holder, and the registry thread
meets one edit of the options or the save of an edited instance (`OneRacingEdit`,
`InstancesAside`); a second process is started where the rollback's commands
succeeded (`SecondAside`). The proofs know neither bound. `MaxPolls` one still lets
the new version confirm before, at and after the last look.

**Deadlock** is checked for the ledger, the policy and the review models. It is
switched off where the steps of users and faults are bounded or the work ends;
there the liveness properties say that nothing stops too early.

**Fairness.** Queue: the Classifier threads are scheduled and their provider calls
return (each HTTP request has a timeout), seconds pass, an exiting process
exits and the application is started again. Dispatch: the worker thread runs,
and each call takes its steps. Intake: the scanner and auditor threads go on with
their loops. Requests: a thread that can go on does, its request is answered or
times out, its wait for the quota ends with `quota_wait_timeout_sec`, time passes;
that the ledger grants a reservation is not assumed. Evidence: the thread of a run and those of its executors
run on. Installation: the script, once the application has ended, and the processes
it started run on. Users,
faults, other pools, servers and the clock of retries are never forced.

## 4. Proofs

`AnalysisQueueProofs` proves for every set of domains, batch size, threshold and
bound:

- `TypeCorrect`, `ClaimsAreKept`, `WorkIsExclusive`, `NoJobIsOrphaned`,
  `LockedStaysOut`;
- `ImplementsLifecycle`: the queue implements `JobLifecycle`.

The inductive invariant `QueueInv` adds to the properties `Shape` (what a thread
may hold at each place of its loop, for instance nothing when idle) and
`TornFresh` (an observation about a claim never outlives it). They are needed
because a property of held domains is kept by settling only if settled domains
leave `Held`, and by a new claim only if nothing old is marked. Lemmas on the row
functions say which may create, release or claim a row; each action then falls in
one of three cases, steps that release rows (`ReleaseKeeps`), steps that leave
rows alone (`QuietKeeps`) and steps that delete them (`DeleteKeeps`), or is
treated by itself. The assumption is `QueueConstants`: finite domains, positive
sizes.

`IntakeAndPolicyProofs` proves, of the policy, `ProtectedServicesAreLeftAlone`
and `HybridNeverFlips` for any tags, policies,
profiles, risks and modes allowed by `PolicyConstants`. The strengthening is
`Agrees`: an action of a hybrid run is that of its stored recommendation. Without
it, a flip of the action would not show as a flip of the recommendation, which is
what the discrepancy check compares.

Of the intake it proves, for any query log, page sizes, windows, lists, batch size,
failures and restarts:

- `ScannerIsExact`: a query is counted at most once more than cycles failed, or
  processes ended, after counting a page; the cursor passes none that was not
  counted but those a full page crowded out, those older than the first look back
  and those of the instant at which it already stood;
- `BackfillIsComplete`: a finished backfill has made every domain of its window
  known, apart from queries that share a millisecond;
- `AuditsAreComplete`: at most one auditor has not been told to stop, and a cycle
  that ran to its end has staged every eligible domain of the lists it could read.

For the scanner, `ScanIInv` adds where cursors may stand (`ClockOK`,
`CursorsReached`: a cursor that is not in the past was put there by a counted
row), what the page in hand is to the cursor (`PageAhead`, `NothingBetween`), and
that rows ahead of the cursor were counted only by repeated cycles
(`CountedAhead`); `CountedOnce` alone does not survive a page that is recorded but
whose cursor is not saved. For the backfill, `FillIInv` says that everything above
the place where it resumes is known, and that a page leaves a query out only if it
is full of younger ones. For the auditor, `AuditIInv` says that what is owed has
been paid or is among the lines still to do. Assumptions: `LockedAreDomains`,
`QueryDomains`, `PageSizes`, `Windows`, `ScanBounds`, `ListNames`, `ListLines`,
`BatchIsPositive`, `AuditBounds`, `NoneIsNoWorker`.

`ProviderDispatchProofs` proves `DispatchIsSafe`, `VerificationIsSound` and
`AnswersAreKept` for any domains, providers, ranks, batch size and threads.
`PrimaryOnce` is not inductive: that two answers do not meet follows from who was
*asked* for what, which differs from mode to mode. `DispatchIInv` therefore says
that a call answers only what it was asked (`CallOK`), that distribution splits
the domains (`Shares`), that a fallback candidate is asked only for what is
`remaining`, which no earlier result holds, one candidate at a time (`Chain`), and
that verification involves a primary and a verifier (`Pair`); `Confirmed` and
`Kept` hold at the hand-over to the worker what the two properties say of the
settled rows. Every step of a call has one of a few shapes (`Moves`), so the
invariant is proved for the shape once. The assumption `PoolAssumption`: finitely many
providers with distinct ranks.

`QuotaLedgerProofs` proves the windows for any set of reservation ids, an infinite
one too, which makes the number of requests unbounded:

- `WindowsAreKept`: window and realtime reserve, whatever headers say;
- `LedgerIsKept`: also the amount a header said was left, whenever it resets, for
  the requests that were answered or are younger than the expiry;
- `RetryIsExact`: the retry time is the earliest one.

Admission counts reserved and completed rows, the properties every request that
was sent; `ExpiredIsOld` closes the gap (an expired row has outlived every window)
and `FreshLeft` counts the rows made since a header was read, apart from those that
expired before they were answered: these the code no longer counts, and section 5
says what that admits. For `RetryIsExact` the
retry delay is shown to be the age at which a row leaves the window, by a minimal
counterexample over naturals instead of induction. Assumption
`QuotaConstants`; limits that headers may set are finitely many, so that there is
a largest.

`RequestsProofs` proves `RequestsAreSettled` and `SlotsArePaced` of the provider
calls, for any number of threads, calls and delays, and `ConnectionIsSafe` of the
Pi-hole connection, for any number of operations, sessions and faults. Pacing
needs `GapCovers`: the time left until the next slot is at least every delay asked
for, the five minutes of a longer one and the rest of the interval. The budget needs `WithinBudget`, which counts
the requests of the modes already left, the attempts of the present one and the
request in flight. For the connection, `Progress` says that an operation under
way has not been applied and that a closed connection has no session, and
`FailureBound` that an operation adds at most two failures. Assumptions:
`RateAssumption`, `RequestConstants` (an interval not longer than the largest
delay, finitely many delays per answer) and `ConnConstants`.

`ReviewActionsProofs` proves, for any number of frontends, `PendingStaysVisible` and
`SimulationIsHarmless` (from `StoreIInv`: a job that writes acts and is not
simulated), `DecisionsAreSound` and `RulesAreKept`. The invariant `RuleIInv` of the
last two adds that an uncontested decision which has read or added its rule still
has it while it goes on, and that of two opposite decisions under way both are
contested. Section 5 says what contested decisions do to each other.

`PiHoleChangesProofs` proves `AuditTrailIsKept` and `RollbacksAreExact` for any
threads, instances, rules, changes and faults. `LogExplains` says nothing while a
call has no row yet; `Explained` says it for these moments as well, with the
thread that is about to write the row. `RowOK` (an addition has no previous state,
an entry that may be undone has one unless it is an addition) makes the rollback row
tell what the rollback restored, and `ThreadOK` follows a rollback from its
checks to its call: unless raced it is on its entry's Pi-hole, which holds what
the entry left, or the entry is a deletion, where a failed read looks like the
absent rule and the call itself is the comparison. Assumptions: those named in the
module, among them that `None` is no rule.

`RequestsProofs` also proves `CacheSafe` and `ScrubbedForGood` of the downloaded
catalogues, for any threads, versions and ends of the process. `CacheIInv` extends "the validators are not
ahead of the payload" to what threads hold: what they read earlier
(`ReadersBehind`) and what they are about to write (`WritersAhead`). Assumption
`CacheConstants`. Of the evidence it proves

- `EvidenceIsKept`, for any number of overlapping runs, domains, sources and
  retries: a run never leaves a stored finding missing, serves without asking only
  what is fresh, changes nothing of a domain it found protected, and leaves no
  thread behind. `ResIInv` says of each run that it asks a source one thing at a
  time and only while it waits, and holds no finding of a protected domain
  (assumptions `ResearchAssumption`, `MissingIsNoFinding`);
- `VerdictsAgree`, for any prompt size and number of answers: the places that
  judge a finding agree on it. `VerdictIInv` says that every finding a built-in
  source makes is `Sound`: no source reports one of the reassuring verdicts, silence is
  never relevant, harm at full strength always is (assumption `VerdictAssumption`).
  The selection of findings for the prompt is stated by position, so it needs no
  induction.

`InstallationProofs` proves, for any schema versions, release lists, archives and
number of polls:

- `MigrationsAreComplete`: the recorded version is that of the schema and no
  migration was applied twice, whichever processes start, die, or go on while the
  script puts the old database back;
- `UpdateIsSafe`: after a failed or a successful update the user's data is there,
  or in the backup when the rollback failed as well; a rollback that succeeded
  leaves a program that can use them; a version beside the restored one was told to
  end; what is installed is what was offered, and success is reported only after
  the last migration of the new version;

and, for any payloads, signatures and provider limits, `RegistryIsSafe` of the
signed registry. The schema rests on `GoodDb` (nothing missing below the version,
nothing in the history above it) together with `ReadIsFresh`: a transaction that
can still be upgraded to a write has read the version the database has, because
every write and every restored database ends the freshness of all other reads.
`SchemaComplete` and `MigratedOnce` alone are not inductive: they do not say where
the processes that are about to write stand. Every step of a process has the same
shape (`Progress`), so the update needs it only once. `UpdateIsSafe` adds what was
offered (`OfferInv`), which process may run in which step of the script
(`ProcessInv`), where the data and the backup are (`DataInv`), and that a process of
the new program has not read a version above the database's until the old one is
restored (`ConfirmInv`). How the release is selected from the list does not
matter to it, only that it was found to be newer. Assumptions: `VersionsOrdered`
(7 < 12 < 13 in the code), `ThreeProcesses`, `UpdatedFromLegacy` (the program
updated from has no later schema than the legacy one), `DatabasePreserved` (the
database is in `_PRESERVED_NAMES`), `PollBound`, `BundledIsGenuine`,
`PayloadsAreRegistries` and `LimitsAreNaturals`. For the registry, `RegIInv` says
that between the two files of a refresh the first one holds a verified payload
that is not older than the accepted one.

Of the settings it proves `SettingsAreKept`, `SettingsFilesAreKept` and
`PasswordsOutliveOutages`, for any layouts, files, registries, providers, instances,
secrets, saves and faults. `OptionsFormat`
states what a filter leaves by positions (`Picked`) rather than by recursion. Two
lemmas on it carry the rest: `MigrateCorrects` and `ValidateCorrects` show that what comes
out has nothing left to correct (`Normal`) and that such options are left alone,
whatever was in the file. `SettingsIInv` then consists of `Shape` (the file and
each holder of options have options of that kind), `SimIInv`, `SecretIInv` and
`UrlIInv` (the simulation mode, the secret and the URL wherever they are held: in the tab, in
a view, in a half-finished save, in the background thread, which may be older than
the file), `BackendIInv` (while the backend is steady, a keyring that does not
answer is empty, and with one that does the file has no plaintext), `InstanceIInv`,
`HeldIInv` and `PushIInv`. Each of them is needed because a save writes what its holder has,
not what the file has. `LoadQuiet` shows that after the start a load changes
neither file nor keyring, which makes loads harmless to all of them. For
`PasswordsOutliveOutages`, `HeldIInv` says that a stored password the page does not
hold could not be read, so that `credentials.py:74` refuses to delete it, or was
emptied by the user: only the page reads these keys, and it does so once. Assumptions:
`VersionIsPositive`, `NilIsNoValue`, `ChoicesAreText`, `TagsAreNormal` (normalising
twice changes nothing more), `DefaultLayouts`, `KeysAreDistinct`,
`ValuesAreDistinct`, `RegistriesAreKnown` (a registry that can be read has instances
with distinct ids, one of them active) and `ProvidersAreKnown`.

Every inductive invariant was checked by TLC on the instance of its run before it
was proved. `IntakeSafety`, `CacheSpec`, `ResSafety`, `VerdictSafety`, `ReqSpec`,
`ConnSpec`, `UpdSpec`, `RegSpec` and `SetSafety` are the specifications of the components alone, without fairness; the runs `evidence`,
`requests` and `installation` show the same steps side by side with others that
share no variable.

Every safety property the passing runs check is thus stated by a theorem. Only
model-checked are the liveness properties, which rest on fairness and are out of
the prover's reach: `ProcessingEnds` and `QueuedServed` of the queue, `Terminates`
of the dispatch, `IntakeProgress` of scanner and auditor, `CallEnds` of the provider
calls, `RunEnds` of the research runs and `ScriptEnds` of the updater. Nor is
it proved which release `Selected` picks from a list.

## 5. Divergences and races without a property

The code does otherwise than a document says; no run states these:

- `staging_enqueue_detailed` sets `available_at = 0` on every queued row
  (`database_core.py:772`), so a live query ends the deferral a quota error had set.
  `docs/ARCHITECTURE.md:101`: "Quota-delayed jobs have an `available_at` time and are
  not repeatedly reclaimed before that time."
- A failed manual job keeps its priority when the scanner queues the domain again
  (`database_core.py:793`), and the automatic job passes the threshold
  `README.md:39` describes.
- `complete_quota` stores the tokens an answer used without a limit, so background
  work may use tokens of the realtime reserve (`README.md:48`: "Background work cannot
  consume the configured realtime reserve").
- In verify mode a quota refusal of the primary provider reaches the worker as an
  unknown exception and the rows fail (`analysis_dispatcher.py:484`), where
  `README.md:48` promises that they are made available at the reset time.
- A decision reads both rules before it changes either (`review_decisions.py:114`);
  a rule the classifier adds in between stays beside the decided one
  (`docs/REVIEW_DECISIONS.md:7`).
- `_PRESERVED_NAMES` (`updater.py:34`) leaves out `pihole_instances.json` and
  `push_notifications.json`, which an update of an installation with its data in
  the program directory therefore loses (`docs/ARCHITECTURE.md:197`: "preserves
  runtime data").
- `retry_delay_from_headers` cuts what the server asks for at five minutes
  (`http_retry.py:22,42`), where `README.md:41` says without a limit that requests
  honor Retry-After.
- A login answered 200 with a body that is no JSON object raises after ONLINE was
  recorded and without `_record_auth_error` (`connection.py:320`): the connection is
  shown as online although no operation succeeds.
- With a keyring that comes back after a secret was saved as plaintext, the older
  value of the keyring wins (`credentials.py:112`; `docs/ARCHITECTURE.md:185`).

Races that contradict no document:

- simultaneous Allow and Deny of two frontends may delete each other's rule: both
  read, both add, both delete. `RuleSurvives` and `DecidedRuleExists` except
  decisions whose opposite was under way at the same time (`contested`), no others;
- a protection set between the check and the Pi-hole call does not stop the call,
  and a rollback does not look at protections at all;
- a change between the comparison and the call of a rollback is overwritten, and
  an audit row names the instance that is active when the row is written;
- a review task may be opened just after "never ask" was chosen (it is hidden
  when tasks are listed);
- in fallback mode a permanent failure of a later provider drops the answers of
  earlier ones;
- another pool's success removes the retry time of a failure that is about to be
  recorded, and a retry time may pass before the row is settled: the row fails;
- a list audit requested while a cycle runs is forgotten when that cycle ends;
- queries in the millisecond of the last counted one, or beyond a full page, are
  passed over;
- the registry thread loads, changes and saves options without holding the lock
  throughout: a save in between is lost, and the URL of an instance made active in
  between is put back (`raced`);
- a crash between the steps of a save of the instances, or a registry that cannot be
  read and is begun anew, leaves secrets of instances nobody knows in the keyring
  (`cut`); so does the removal of an instance whose secret could not be read;
- whether a deletion of a secret is refused depends on the *last* read of its key in
  the process (`credentials.py:74`): for the secrets of `options.json`, which every
  thread reads, a read after the outage lifts the refusal, and the Settings tab, which
  loaded no secret during the outage, deletes the stored one with its next save;
- a save of the push page while the keyring is away finds no key and generates one;
- a slot granted before a Retry-After arrives is used; an exception
  `_request_with_retries` does not handle leaves its reservation to expire;
- a reservation expires after the longest window or five minutes (`quota.py:164`),
  while the amount a header leaves is in force until its reset, up to a week later
  (`quota.py:420`): a request that is still under way then drops out of the
  count, and one more is admitted than the provider said was left. `RemainingKept`
  counts the answered requests and those younger than the expiry, with resets
  before and after it;
- the update script ignores whether `rm` and `mv` of its rollback succeeded and
  reports `rolled_back` in any case (`updater.py:593`); the data are then in the
  backup directory (`botched`). It sends SIGTERM and does not wait
  (`updater.py:623`): a new version that goes on may migrate the restored database
  (`outlived`). And it waits without limit for an application that does not end
  (`updater.py:585`). The backup directory has a fixed name; what an earlier update
  left there is assumed to be gone;
- an older research run may overwrite newer findings, and two processes share the
  catalogue files without a lock.

## 6. Not modelled, and the plan

Not modelled on purpose: widgets and layout, message texts, prompts, JSON repair,
HTTP routing, the extraction of texts from research answers, citations and
licences, the service graph and rule conflict views, golden data sets, presets,
the PowerShell variant of the installer and the build scripts. In the modelled
parts: unit limits and user-capped profiles of the quota, model benchmarks,
several accounts, settings that are only clamped by themselves, and the
batch-wide failure of result handling together with Pi-hole (needs
`AnalysisQueue` and `ReviewActions` composed).

What is left: to compose `AnalysisQueue` and `ReviewActions`, so that a failure
of result handling for a whole batch meets the Pi-hole calls of its rows, and to
prove the present theorems of the composition; to drop `contested` once decisions
exclude each other; and to model the parts listed as not
modelled whose state is more than a view of another one's (the service graph and
the rule conflicts).
