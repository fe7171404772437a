---------------------------- MODULE ProviderDispatch ----------------------------
(***************************************************************************)
(* One batch of claimed domains on its way through an analysis pool:       *)
(* dispatch_analysis picks the pool's healthy providers, runs them in the  *)
(* pool's mode (distribute, fallback, compare, verify), and the classifier *)
(* worker settles each domain in the queue by what came back.              *)
(*                                                                         *)
(* A provider call runs in a thread of its own in distribute and compare   *)
(* mode and in the dispatcher's thread otherwise. The operator may cancel  *)
(* the job at any time, and the provider_health table is shared with the   *)
(* other pools, whose calls start and clear cooldowns meanwhile.           *)
(*                                                                         *)
(* Clock times are kept as the facts the code computes from them: which    *)
(* providers are cooling down now, and which failures name a retry time    *)
(* that still lies ahead. What a provider answers is kept as the set of    *)
(* domains it classified and, for a verifier, the set on which it          *)
(* contradicts the primary.                                                *)
(***************************************************************************)
EXTENDS Naturals, FiniteSets

CONSTANTS
    Providers,          \* the configured providers
    Members,            \* [Modes -> SUBSET Providers]: enabled memberships of the pool of a mode
    FallbackRank,       \* [Providers -> Nat]: position in _fallback_order
    VerificationRank,   \* [Providers -> Nat]: position in _verification_order
    Domains,            \* the claimed batch
    MaxBatch,           \* domains per provider request
    Parallel,           \* pool.max_parallel_requests
    Modes,              \* the pool modes examined
    NoProvider          \* no verifier has been picked

(* Assumed of the parameters: both orders are total (ties are broken by    *)
(* name), a batch is not empty, and at least one request may run.          *)
ASSUME PoolAssumption ==
    /\ IsFiniteSet(Providers) /\ NoProvider \notin Providers
    /\ FallbackRank \in [Providers -> Nat]
    /\ VerificationRank \in [Providers -> Nat]
    /\ \A p, q \in Providers :
          \/ p = q
          \/ FallbackRank[p] # FallbackRank[q] /\ VerificationRank[p] # VerificationRank[q]
    /\ IsFiniteSet(Domains) /\ Domains # {}
    /\ MaxBatch \in Nat \ {0} /\ Parallel \in Nat \ {0}
    /\ Members \in [Modes -> (SUBSET Providers) \ {{}}]
    /\ Modes \subseteq {"distribute", "fallback", "compare", "verify"}

VARIABLES
    mode,       \* pool.mode
    phase,      \* where the dispatcher is
    cand,       \* the candidates picked when the batch began
    cooling,    \* provider_health: cooldown_until lies ahead
    cancel,     \* the job's cancellation token
    remaining,  \* fallback: remaining_domains
    verifier,   \* verify: the provider asked to verify
    toVerify,   \* verify: verify_domains
    calls,      \* _execute_provider, one invocation at most per provider
    results,    \* the providers whose result was appended to results
    errors,     \* the providers with an entry in errors
    ahead,      \* the providers whose failure has a retry time that lies ahead
    differs,    \* the domains on which the verifier contradicts the primary
    review,     \* the domains marked needs_review by the dispatcher
    outcome     \* what the worker did with each queue row

vars == <<mode, phase, cand, cooling, cancel, remaining, verifier, toVerify,
          calls, results, errors, ahead, differs, review, outcome>>

Phases == {"begin", "cooled", "collect", "fallback", "primary", "verify",
           "stopping", "cancelled", "raised", "settle", "done"}

Causes == {"none", "quota", "rate", "transient", "permanent", "cancelled"}

Outcomes == {"none", "classified", "compared", "deferred", "failed"}

(* A call: its progress, the domains asked for, the batches still to send, *)
(* the domains answered and, at its end, what stopped it.                  *)
Call == [pc : {"idle", "queued", "starting", "running", "ended", "dropped"},
         asked : SUBSET Domains,
         todo : SUBSET (SUBSET Domains),
         got : SUBSET Domains,
         cause : Causes]

NoCall == [pc |-> "idle", asked |-> {}, todo |-> {}, got |-> {}, cause |-> "none"]

TypeOK ==
    /\ mode \in Modes /\ phase \in Phases
    /\ cand \subseteq Providers /\ cooling \subseteq Providers /\ cancel \in BOOLEAN
    /\ remaining \subseteq Domains /\ toVerify \subseteq Domains
    /\ verifier \in Providers \cup {NoProvider}
    /\ calls \in [Providers -> Call]
    /\ results \subseteq Providers /\ errors \subseteq Providers /\ ahead \subseteq Providers
    /\ differs \subseteq Domains /\ review \subseteq Domains
    /\ outcome \in [Domains -> Outcomes]

---------------------------------------------------------------------------
(* Helpers.                                                                *)

(* The first of a nonempty set of providers in an order.                   *)
First(rank, S) == CHOOSE p \in S : \A q \in S : rank[p] <= rank[q]

(* The ways _provider_batches can cut a set of domains: the size limit and *)
(* the context estimate decide which, so any cut within the limit.         *)
Batches(D) ==
    {P \in SUBSET ((SUBSET D) \ {{}}) :
        /\ UNION P = D
        /\ \A b, c \in P : b = c \/ b \cap c = {}
        /\ \A b \in P : Cardinality(b) <= MaxBatch}

(* The two halves a refused batch is cut into at its midpoint.             *)
Halves(b) ==
    {h \in SUBSET (SUBSET b) :
        \E c \in SUBSET b : /\ Cardinality(c) = Cardinality(b) \div 2
                            /\ h = {c, b \ c}}

(* _is_fallback_eligible: the causes another provider may make good.       *)
Eligible(cause) == cause \in {"quota", "rate", "transient"}

(* What a new invocation of _execute_provider looks like.                  *)
Asking(D, pc) == [NoCall EXCEPT !.pc = pc, !.asked = D]

Ended(p) == calls[p].pc = "ended"

(* The domains of the batches a call did not get through.                  *)
Unanswered(p) == calls[p].asked \ calls[p].got

\* Faulty variant: a partial result is dropped with its error.
AppendedWhole(p) == IF calls[p].cause = "none" THEN results \cup {p} ELSE results

(* results.append: a result or the partial result behind an error.         *)
Appended(p) == IF calls[p].got # {} THEN results \cup {p} ELSE results

\* Faulty variant: the domains already answered are asked for again.
StillMissingAll(p) == IF calls[p].cause = "none" THEN {} ELSE remaining

(* remaining_domains after a candidate of the fallback order came back.    *)
StillMissing(p) == IF calls[p].got = {} THEN remaining ELSE Unanswered(p)

(* The answers _requires_verification may pick: risks, action and sample   *)
(* depend on the classification alone, so any of the answered domains.     *)
VerifyDomains(p) == SUBSET calls[p].got

\* Faulty variant: the domains the verifier left out pass.
DoubtfulContradicted(p) == calls[p].got \cap differs

(* What the verifier did not answer and what it contradicts.               *)
Doubtful(p) == (toVerify \ calls[p].got) \cup (calls[p].got \cap differs)

(* _provider_error records retry_at as the later of the time named by the  *)
(* exception and the provider's cooldown as it stands when the error is    *)
(* recorded. A quota error's own time was noted when it was raised.        *)
RecordError(p) ==
    /\ errors' = errors \cup {p}
    /\ ahead' = IF p \in cooling \/ calls[p].cause = "rate"
                THEN ahead \cup {p} ELSE ahead

(* The results whose classifications are primary.                          *)
PrimaryResults == IF mode = "compare" THEN {} ELSE results \ {verifier}

Classified == UNION {calls[p].got : p \in PrimaryResults}

Completed == UNION {calls[p].got : p \in results}

---------------------------------------------------------------------------
Init ==
    /\ mode \in Modes /\ phase = "begin"
    /\ cooling \in SUBSET Members[mode] /\ cancel = FALSE
    /\ cand = {} /\ remaining = {} /\ verifier = NoProvider /\ toVerify = {}
    /\ calls = [p \in Providers |-> NoCall]
    /\ results = {} /\ errors = {} /\ ahead = {} /\ differs = {} /\ review = {}
    /\ outcome = [d \in Domains |-> "none"]

(* dispatch_analysis checks the token, drops the candidates that are       *)
(* cooling down and submits or starts the first calls. Distribution hashes *)
(* every domain to one candidate.                                          *)
Begin ==
    /\ phase = "begin" /\ ~cancel
    /\ cand' = Members[mode] \ cooling
    /\ \/ /\ cand' = {}
          /\ phase' = "cooled"
          /\ UNCHANGED <<calls, remaining>>
       \/ /\ cand' # {} /\ mode = "distribute"
          /\ \E f \in [Domains -> cand'] :
                calls' = [p \in Providers |->
                            IF \E d \in Domains : f[d] = p
                            THEN Asking({d \in Domains : f[d] = p}, "queued")
                            ELSE NoCall]
          /\ phase' = "collect" /\ UNCHANGED remaining
       \/ /\ cand' # {} /\ mode = "compare"
          /\ calls' = [p \in Providers |->
                         IF p \in cand' THEN Asking(Domains, "queued") ELSE NoCall]
          /\ phase' = "collect" /\ UNCHANGED remaining
       \/ /\ cand' # {} /\ mode = "fallback"
          /\ phase' = "fallback" /\ remaining' = Domains /\ UNCHANGED calls
       \/ /\ cand' # {} /\ mode = "verify"
          /\ calls' = [calls EXCEPT ![First(FallbackRank, cand')] = Asking(Domains, "starting")]
          /\ phase' = "primary" /\ UNCHANGED remaining
    /\ UNCHANGED <<mode, cooling, cancel, verifier, toVerify, results, errors, ahead,
                   differs, review, outcome>>

(* No candidate: with a cooldown still ahead on the second look the batch  *)
(* is unavailable until the first of them ends, otherwise the pool has no  *)
(* usable provider.                                                        *)
Cooled ==
    /\ phase = "cooled"
    /\ \/ \E p \in cooling : phase' = "settle" /\ errors' = {p} /\ ahead' = {p}
       \/ cooling = {} /\ phase' = "raised" /\ UNCHANGED <<errors, ahead>>
    /\ UNCHANGED <<mode, cand, cooling, cancel, remaining, verifier, toVerify, calls,
                   results, differs, review, outcome>>

---------------------------------------------------------------------------
(* _execute_provider, in the thread of the call.                           *)

(* The pool's executor takes a submitted call when a thread is free.       *)
TakeCall(p) ==
    /\ calls[p].pc = "queued"
    /\ Cardinality({q \in Providers : calls[q].pc \in {"starting", "running"}}) < Parallel
    /\ calls' = [calls EXCEPT ![p].pc = "starting"]
    /\ UNCHANGED <<mode, phase, cand, cooling, cancel, remaining, verifier, toVerify,
                   results, errors, ahead, differs, review, outcome>>

(* The domains are cut into batches; a dossier that exceeds the provider's *)
(* context raises before the block that records provider health.           *)
Prepare(p) ==
    /\ calls[p].pc = "starting" /\ ~cancel
    /\ \/ \E P \in Batches(calls[p].asked) :
             calls' = [calls EXCEPT ![p].pc = "running", ![p].todo = P]
       \/ calls' = [calls EXCEPT ![p].pc = "ended", ![p].cause = "permanent"]
    /\ UNCHANGED <<mode, phase, cand, cooling, cancel, remaining, verifier, toVerify,
                   results, errors, ahead, differs, review, outcome>>

(* A batch is answered for every one of its domains (the parser refuses an *)
(* answer that omits one) and the token is not set when it returns.        *)
Answer(p) ==
    /\ calls[p].pc = "running" /\ ~cancel
    /\ \E b \in calls[p].todo :
          /\ calls' = [calls EXCEPT ![p].todo = @ \ {b}, ![p].got = @ \cup b]
          /\ \E D \in SUBSET b :
                differs' = IF p = verifier THEN differs \cup D ELSE differs
    /\ UNCHANGED <<mode, phase, cand, cooling, cancel, remaining, verifier, toVerify,
                   results, errors, ahead, review, outcome>>

(* The quota refuses a batch: it is cut in two, or ends the call when one  *)
(* domain alone is refused. The quota error leaves provider health alone.  *)
QuotaRefused(p) ==
    /\ calls[p].pc = "running"
    /\ \E b \in calls[p].todo :
          \/ /\ Cardinality(b) > 1
             /\ \E h \in Halves(b) : calls' = [calls EXCEPT ![p].todo = (@ \ {b}) \cup h]
             /\ UNCHANGED ahead
          \/ /\ Cardinality(b) <= 1
             /\ calls' = [calls EXCEPT ![p].pc = "ended", ![p].cause = "quota"]
             /\ ahead' = ahead \cup {p}
    /\ UNCHANGED <<mode, phase, cand, cooling, cancel, remaining, verifier, toVerify,
                   results, errors, differs, review, outcome>>

(* Any other failure of a batch starts a cooldown of the provider. A rate  *)
(* limit names its own retry time as well.                                 *)
Fails(p) ==
    /\ calls[p].pc = "running" /\ calls[p].todo # {}
    /\ \E c \in {"rate", "transient", "permanent"} :
          calls' = [calls EXCEPT ![p].pc = "ended", ![p].cause = c]
    /\ cooling' = cooling \cup {p}
    /\ UNCHANGED <<mode, phase, cand, cancel, remaining, verifier, toVerify,
                   results, errors, ahead, differs, review, outcome>>

(* The last batch is through: provider_health_success clears the cooldown. *)
Succeeds(p) ==
    /\ calls[p].pc = "running" /\ calls[p].todo = {}
    /\ calls' = [calls EXCEPT ![p].pc = "ended"]
    /\ cooling' = cooling \ {p}
    /\ UNCHANGED <<mode, phase, cand, cancel, remaining, verifier, toVerify,
                   results, errors, ahead, differs, review, outcome>>

(* The call sees the token before or after a request, or while it waits.   *)
CallCancelled(p) ==
    /\ cancel
    /\ \/ calls[p].pc = "starting"
       \/ calls[p].pc = "running" /\ calls[p].todo # {}
    /\ calls' = [calls EXCEPT ![p].pc = "ended", ![p].cause = "cancelled"]
    /\ UNCHANGED <<mode, phase, cand, cooling, cancel, remaining, verifier, toVerify,
                   results, errors, ahead, differs, review, outcome>>

---------------------------------------------------------------------------
(* The dispatcher's thread.                                                *)

(* _dispatch_distribute and _dispatch_compare take completed futures in    *)
(* any order; a partial result is kept together with the error behind it.  *)
Collect(p) ==
    /\ phase = "collect" /\ Ended(p) /\ p \notin results \cup errors
    /\ calls[p].cause # "cancelled"
    /\ results' = Appended(p)
    /\ IF calls[p].cause = "none" THEN UNCHANGED <<errors, ahead>> ELSE RecordError(p)
    /\ UNCHANGED <<mode, phase, cand, cooling, cancel, remaining, verifier, toVerify,
                   calls, differs, review, outcome>>

(* Every future has been collected.                                        *)
CollectEnds ==
    /\ phase = "collect"
    /\ \A p \in Providers : calls[p].pc = "idle" \/ p \in results \cup errors
    /\ phase' = "settle"
    /\ UNCHANGED <<mode, cand, cooling, cancel, remaining, verifier, toVerify, calls,
                   results, errors, ahead, differs, review, outcome>>

(* _dispatch_fallback asks the next candidate for what is still missing.   *)
FallbackNext ==
    /\ phase = "fallback" /\ ~cancel /\ remaining # {}
    /\ \A p \in Providers : calls[p].pc \in {"idle", "ended"}
    /\ \A p \in Providers : Ended(p) => p \in results \cup errors
    /\ LET untried == {p \in cand : calls[p].pc = "idle"}
       IN /\ untried # {}
          /\ calls' = [calls EXCEPT ![First(FallbackRank, untried)] =
                                        Asking(remaining, "starting")]
    /\ UNCHANGED <<mode, phase, cand, cooling, cancel, remaining, verifier, toVerify,
                   results, errors, ahead, differs, review, outcome>>

(* A candidate of the fallback order came back. A complete answer leaves   *)
(* nothing to do. A partial one is kept and ends the loop when its cause   *)
(* is not eligible. A failure without any answer that is not eligible is   *)
(* raised, whatever earlier candidates had answered.                       *)
FallbackReturns(p) ==
    /\ phase = "fallback" /\ Ended(p) /\ p \notin results \cup errors
    /\ calls[p].cause # "cancelled"
    /\ remaining' = StillMissing(p)
    /\ results' = Appended(p)
    /\ IF calls[p].cause = "none" THEN UNCHANGED <<errors, ahead>> ELSE RecordError(p)
    /\ phase' = IF calls[p].cause = "none" \/ Eligible(calls[p].cause) THEN "fallback"
                ELSE IF calls[p].got = {} THEN "raised" ELSE "settle"
    /\ UNCHANGED <<mode, cand, cooling, cancel, verifier, toVerify, calls, differs,
                   review, outcome>>

\* Faulty variant: the loop runs on when the candidates are exhausted.
FallbackEndsAnswered ==
    /\ phase = "fallback" /\ remaining = {} /\ phase' = "settle"
    /\ UNCHANGED <<mode, cand, cooling, cancel, remaining, verifier, toVerify, calls,
                   results, errors, ahead, differs, review, outcome>>

(* Nothing remains, or nobody is left to ask.                              *)
FallbackEnds ==
    /\ phase = "fallback"
    /\ \A p \in cand : Ended(p) => p \in results \cup errors
    /\ \A p \in cand : calls[p].pc \in {"idle", "ended"}
    /\ \/ \A p \in cand : Ended(p)
       \/ remaining = {} /\ ~cancel
    /\ phase' = "settle"
    /\ UNCHANGED <<mode, cand, cooling, cancel, remaining, verifier, toVerify, calls,
                   results, errors, ahead, differs, review, outcome>>

(* _dispatch_verify: the primary's failure without any answer is raised as *)
(* it is. The answers that need verification (risk, automatic action or    *)
(* sample) go to the first other candidate in verification order; without  *)
(* one they are marked for review.                                         *)
PrimaryReturns(p) ==
    /\ phase = "primary" /\ Ended(p) /\ calls[p].cause # "cancelled"
    /\ \/ /\ calls[p].got = {}
          /\ phase' = "raised"
          /\ UNCHANGED <<results, errors, ahead, toVerify, verifier, review, calls>>
       \/ /\ calls[p].got # {}
          /\ results' = {p}
          /\ IF calls[p].cause = "none" THEN UNCHANGED <<errors, ahead>> ELSE RecordError(p)
          /\ \E V \in VerifyDomains(p) :
                /\ toVerify' = V
                /\ LET others == cand \ {p}
                   IN IF V # {} /\ others # {}
                      THEN /\ verifier' = First(VerificationRank, others)
                           /\ calls' = [calls EXCEPT ![verifier'] = Asking(V, "starting")]
                           /\ phase' = "verify" /\ UNCHANGED review
                      ELSE /\ review' = V
                           /\ phase' = "settle" /\ UNCHANGED <<verifier, calls>>
    /\ UNCHANGED <<mode, cand, cooling, cancel, remaining, differs, outcome>>

(* The verifier came back: the doubtful domains are marked for review. A   *)
(* partial answer is kept as a second result.                              *)
VerifierReturns ==
    /\ phase = "verify" /\ Ended(verifier) /\ calls[verifier].cause # "cancelled"
    /\ results' = Appended(verifier)
    /\ IF calls[verifier].cause = "none" THEN UNCHANGED <<errors, ahead>>
                                         ELSE RecordError(verifier)
    /\ review' = Doubtful(verifier)
    /\ phase' = "settle"
    /\ UNCHANGED <<mode, cand, cooling, cancel, remaining, verifier, toVerify, calls,
                   differs, outcome>>

(* OperationCancelledError: from the dispatcher's own checks of the token  *)
(* or out of a call. Submitted calls that no thread has taken are dropped. *)
ObserveCancel ==
    /\ cancel
    /\ \/ phase = "begin"
       \/ /\ phase = "collect"
          /\ \E p \in cand : calls[p].pc # "idle" /\ p \notin results \cup errors
       \/ /\ phase = "fallback"
          /\ \A p \in cand : calls[p].pc \in {"idle", "ended"}
          /\ \E p \in cand : calls[p].pc = "idle"
          /\ \A p \in cand : Ended(p) => p \in results \cup errors
       \/ /\ phase \in {"fallback", "primary", "verify"}
          /\ \E p \in cand : calls[p].cause = "cancelled"
    /\ calls' = [p \in Providers |->
                   IF calls[p].pc = "queued" THEN [calls[p] EXCEPT !.pc = "dropped"]
                   ELSE calls[p]]
    /\ phase' = "stopping"
    /\ UNCHANGED <<mode, cand, cooling, cancel, remaining, verifier, toVerify, results,
                   errors, ahead, differs, review, outcome>>

(* executor.shutdown(wait=True): the running calls end before the worker   *)
(* gets the job back.                                                      *)
ShutdownEnds ==
    /\ phase = "stopping"
    /\ \A p \in Providers : calls[p].pc \notin {"starting", "running"}
    /\ phase' = "cancelled"
    /\ UNCHANGED <<mode, cand, cooling, cancel, remaining, verifier, toVerify, calls,
                   results, errors, ahead, differs, review, outcome>>

---------------------------------------------------------------------------
(* The classifier worker settles one queue row after the other. After a    *)
(* result, or when no provider answered (AnalysisUnavailableError), a row  *)
(* without classification waits if some error's retry time still lies      *)
(* ahead and is given up otherwise. A cancelled batch is deferred, a batch *)
(* that raised anything else is given up.                                  *)
Settled(d) ==
    CASE phase = "cancelled" -> "deferred"
      [] phase = "raised"    -> "failed"
      [] phase = "settle"    ->
            IF d \in Classified THEN "classified"
            ELSE IF d \in Completed THEN "compared"
            ELSE IF errors \cap ahead # {} THEN "deferred" ELSE "failed"

Settle(d) ==
    /\ phase \in {"settle", "cancelled", "raised"} /\ outcome[d] = "none"
    /\ outcome' = [outcome EXCEPT ![d] = Settled(d)]
    /\ phase' = IF \A e \in Domains : outcome'[e] # "none" THEN "done" ELSE phase
    /\ UNCHANGED <<mode, cand, cooling, cancel, remaining, verifier, toVerify, calls,
                   results, errors, ahead, differs, review>>

---------------------------------------------------------------------------
(* The environment: the operator, the clock and the other pools.           *)

(* cancel_active_job of the worker sets the token.                         *)
Cancel ==
    /\ phase # "done" /\ ~cancel
    /\ cancel' = TRUE
    /\ UNCHANGED <<mode, phase, cand, cooling, remaining, verifier, toVerify, calls,
                   results, errors, ahead, differs, review, outcome>>

(* A cooldown runs out, and with it the retry time an error took from it.  *)
CoolingEnds(p) ==
    /\ phase # "done" /\ p \in cooling
    /\ cooling' = cooling \ {p}
    /\ ahead' = IF calls[p].cause \in {"quota", "rate"} THEN ahead ELSE ahead \ {p}
    /\ UNCHANGED <<mode, phase, cand, cancel, remaining, verifier, toVerify, calls,
                   results, errors, differs, review, outcome>>

(* A retry time passes (another pool may have extended the cooldown since).*)
RetryPasses(p) ==
    /\ phase # "done" /\ p \in ahead
    /\ ahead' = ahead \ {p}
    /\ UNCHANGED <<mode, phase, cand, cooling, cancel, remaining, verifier, toVerify,
                   calls, results, errors, differs, review, outcome>>

(* A call of another pool to the same provider succeeds or fails.          *)
OtherPool(p) ==
    /\ phase # "done" /\ p \in Members[mode]
    /\ cooling' = (IF p \in cooling THEN cooling \ {p} ELSE cooling \cup {p})
    /\ UNCHANGED <<mode, phase, cand, cancel, remaining, verifier, toVerify, calls,
                   results, errors, ahead, differs, review, outcome>>

---------------------------------------------------------------------------
CallStep(p) ==
    TakeCall(p) \/ Prepare(p) \/ Answer(p) \/ QuotaRefused(p) \/ Fails(p)
        \/ Succeeds(p) \/ CallCancelled(p)

Dispatcher ==
    \/ Begin \/ Cooled \/ CollectEnds \/ FallbackNext \/ FallbackEnds
    \/ VerifierReturns \/ ObserveCancel \/ ShutdownEnds
    \/ \E p \in Providers : Collect(p) \/ FallbackReturns(p) \/ PrimaryReturns(p)
    \/ \E d \in Domains : Settle(d)

Environment ==
    \/ Cancel
    \/ \E p \in Providers : CoolingEnds(p) \/ RetryPasses(p) \/ OtherPool(p)

Next == (\E p \in Providers : CallStep(p)) \/ Dispatcher \/ Environment

(* The worker thread and the threads of the executor are scheduled, and a  *)
(* request ends: it is answered, refused or stopped by its HTTP timeout.   *)
Fairness == WF_vars(Dispatcher) /\ \A p \in Providers : WF_vars(CallStep(p))

Spec == Init /\ [][Next]_vars /\ Fairness

---------------------------------------------------------------------------
(* Properties.                                                             *)

(* No domain has two primary classifications: distribution asks one        *)
(* provider for it, and a fallback provider is asked only for what the     *)
(* earlier ones left (_handle_dispatch_result would apply both otherwise). *)
PrimaryOnce ==
    \A p, q \in PrimaryResults : p # q => calls[p].got \cap calls[q].got = {}

(* No provider request of the batch is under way when the worker settles   *)
(* the rows, so a requeued domain never overlaps the request of the job it *)
(* came from (executor.shutdown(wait=True) in every dispatch mode).        *)
NoOverlap ==
    phase \in {"settle", "cancelled", "raised", "done"} =>
        \A p \in Providers : calls[p].pc \notin {"queued", "starting", "running"}

(* In verify mode a classification that needed verification and is stored  *)
(* without a review mark was confirmed by a provider other than the one    *)
(* that made it (_dispatch_verify, _mark_verification_unavailable).        *)
UnverifiedIsReviewed ==
    mode = "verify" =>
        \A d \in toVerify \ review : outcome[d] = "classified" =>
            \E p, q \in results : /\ p # q /\ verifier = q
                                  /\ d \in calls[p].got \cap calls[q].got /\ d \notin differs

(* Outside fallback mode an answer that was paid for is never thrown away  *)
(* by the failure of another batch or provider: a domain some provider     *)
(* answered is not given up.                                               *)
AnswerNotLost ==
    mode # "fallback" =>
        \A d \in Domains : outcome[d] = "failed" =>
            \A p \in Providers : d \notin calls[p].got

(* The worker gets every batch back and settles every row, whatever the    *)
(* providers, the other pools and the operator do.                         *)
Terminates == <>(phase = "done")

(* A domain gets one primary classification, and no request of a batch is  *)
(* left running when its rows are settled.                                 *)
DispatchInv == TypeOK /\ PrimaryOnce /\ NoOverlap
=============================================================================
