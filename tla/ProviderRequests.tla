-------------------------- MODULE ProviderRequests --------------------------
(***************************************************************************)
(* Requests of the analysis threads to one LLM provider: the output modes  *)
(* a classification tries (llm.py), and per mode the attempts of           *)
(* provider_api._request_with_retries with their slot, their quota         *)
(* reservation and the shared adaptive backoff.  The ledger itself is      *)
(* QuotaLedger; here a reservation is granted or refused.  What a message  *)
(* says is left out, except whether its answer can be read.                *)
(***************************************************************************)
EXTENDS RequestRate, Sequences, FiniteSets

CONSTANTS
    Workers,        \* analysis threads that use the provider
    Kinds,          \* calls they make: [style, output, pooled]
    Headers,        \* sets of delay headers an answer may carry
    MaxRetries,     \* options.llm.max_retries
    Base,           \* options.llm.min_request_interval_sec
    MaxCalls,       \* bound: calls of one worker
    None            \* a worker without a call

VARIABLES
    rate,           \* _RATE_STATES of the provider
    step,           \* where each worker is
    call,           \* the call of each worker: kind, mode, attempt, and how many
                    \* requests it sent and answers it could not use
    held,           \* reservation of the running attempt
    cancelled,      \* the worker's cancellation token
    lost,           \* history: the call ended by an error nobody handles
    uncounted,      \* history: an answered request the ledger does not count
    asked,          \* history: ticks left of the longest delay asked for, of
                    \* those of MaxDelay and less
    capped,         \* history: ticks left of the MaxDelay a longer one is cut to
    since,          \* history: ticks since the last slot, up to Base
    calls           \* calls made

reqVars == <<rate, step, call, held, cancelled, lost, uncounted, asked, capped, since, calls>>

Attempts == Larger(1, MaxRetries + 1)

(* A call in progress. *)
Calls == [kind : Kinds, mode : Nat, attempt : Nat, sent : Nat, unused : Nat]

ASSUME RequestConstants ==
    /\ MaxRetries \in Int /\ Base \in 0..MaxDelay
    /\ \A k \in Kinds : k.pooled \in BOOLEAN
    /\ \A hs \in Headers :
        IsFiniteSet(hs) /\ hs \subseteq [kind : {"duration", "epoch"}, ticks : Int]
    /\ None \notin Calls

(* _RETRYABLE_STATUS_CODES *)
Retryable == {408, 429, 500, 502, 503, 504}

(* Statuses of answers: two that are retried, two that are not. *)
Statuses == {429, 503, 400, 401}

Bodies == SUBSET {"text", "refusal", "valid"}

(* _structured_modes, and prompt_only for the Anthropic messages API *)
Modes(kind) ==
    IF kind.style = "anthropic_messages" THEN <<"prompt_only">>
    ELSE IF kind.output = "auto" THEN <<"json_schema", "json_object", "prompt_only">>
    ELSE IF kind.output \in {"json_schema", "json_object"} THEN <<kind.output>>
    ELSE <<"prompt_only">>

(* _can_try_output_mode_fallback, for an HTTP error *)
CanFallback(status) == status \in {400, 404, 415, 422}

ReqTypeOK ==
    /\ rate \in Rates
    /\ step \in [Workers -> {"idle", "slot", "quota", "send", "flight", "read"}]
    /\ \A w \in Workers :
        call[w] # None => /\ call[w].kind \in Kinds
                          /\ call[w].mode \in 1..Len(Modes(call[w].kind))
                          /\ call[w].attempt \in 0..(Attempts - 1)
    /\ \A w \in Workers : (step[w] = "idle") = (call[w] = None)
    /\ held \in [Workers -> BOOLEAN]
    /\ lost \in [Workers -> BOOLEAN]
    /\ asked \in 0..MaxDelay /\ capped \in 0..MaxDelay
    /\ since \in 0..Base

ReqInit ==
    /\ rate = FreshRate
    /\ step = [w \in Workers |-> "idle"]
    /\ call = [w \in Workers |-> None]
    /\ held = [w \in Workers |-> FALSE]
    /\ cancelled = [w \in Workers |-> FALSE]
    /\ lost = [w \in Workers |-> FALSE]
    /\ uncounted = FALSE
    /\ asked = 0 /\ capped = 0
    /\ since = Base
    /\ calls = [w \in Workers |-> 0]

-----------------------------------------------------------------------------
(* classify_domains and classify_domains_with_metadata: only the latter     *)
(* carries a request context, and with it a quota.                          *)
Start(w, kind) ==
    /\ step[w] = "idle"
    /\ calls[w] < MaxCalls
    /\ calls' = [calls EXCEPT ![w] = @ + 1]
    /\ call' = [call EXCEPT ![w] = [kind |-> kind, mode |-> 1, attempt |-> 0,
                                         sent |-> 0, unused |-> 0]]
    /\ step' = [step EXCEPT ![w] = "slot"]
    /\ cancelled' = [cancelled EXCEPT ![w] = FALSE]
    /\ held' = [held EXCEPT ![w] = FALSE]
    /\ lost' = [lost EXCEPT ![w] = FALSE]
    /\ UNCHANGED <<rate, uncounted, asked, capped, since>>

StartDirect(w) == \E k \in Kinds : ~k.pooled /\ Start(w, k)

StartPooled(w) == \E k \in Kinds : k.pooled /\ Start(w, k)

CancelCall(w) ==
    /\ step[w] # "idle"
    /\ ~cancelled[w]
    /\ cancelled' = [cancelled EXCEPT ![w] = TRUE]
    /\ UNCHANGED <<rate, step, call, held, lost, uncounted, asked, capped, since, calls>>

(* The call of w ends, with its result or an exception. *)
Ends(w) ==
    /\ step' = [step EXCEPT ![w] = "idle"]
    /\ call' = [call EXCEPT ![w] = None]

(* The next round of the loop over the attempts. *)
NextAttempt(w) ==
    /\ step' = [step EXCEPT ![w] = "slot"]
    /\ call' = [call EXCEPT ![w].attempt = @ + 1]

(* The next round of the loop over the modes, or the end of the call. *)
NextMode(w, fallback, unused) ==
    IF fallback /\ call[w].mode < Len(Modes(call[w].kind))
    THEN /\ step' = [step EXCEPT ![w] = "slot"]
         /\ call' = [call EXCEPT ![w].mode = @ + 1, ![w].attempt = 0,
                                 ![w].unused = @ + unused]
    ELSE Ends(w)

(* raise_if_cancelled at the head of a round, in the waits for the slot and *)
(* for the quota, and before the request, where the reservation is given    *)
(* back.                                                                    *)
StopCancelled(w) ==
    /\ step[w] \in {"slot", "quota", "send"}
    /\ cancelled[w]
    /\ held' = [held EXCEPT ![w] = FALSE]
    /\ Ends(w)
    /\ UNCHANGED <<rate, cancelled, lost, uncounted, asked, capped, since, calls>>

(* _wait_for_request_slot; the token is not read when no wait is needed. *)
TakeSlot(w) ==
    /\ step[w] = "slot"
    /\ rate.gap = 0
    /\ rate' = SlotTaken(rate, Base)
    /\ since' = 0
    /\ step' = [step EXCEPT ![w] = IF call[w].kind.pooled THEN "quota" ELSE "send"]
    /\ UNCHANGED <<call, held, cancelled, lost, uncounted, asked, capped, calls>>

(* wait_for_quota: the reservation, ... *)
ReserveQuota(w) ==
    /\ step[w] = "quota"
    /\ held' = [held EXCEPT ![w] = TRUE]
    /\ step' = [step EXCEPT ![w] = "send"]
    /\ UNCHANGED <<rate, call, cancelled, lost, uncounted, asked, capped, since, calls>>

(* Faulty variant: the wait for the quota has no deadline. *)
QuotaNeverTimesOut(w) == step[w] = "quota" /\ UNCHANGED reqVars

(* ... or QuotaUnavailableError after quota_wait_timeout_sec, which no      *)
(* handler of the modes catches.                                            *)
QuotaTimesOut(w) ==
    /\ step[w] = "quota"
    /\ Ends(w)
    /\ UNCHANGED <<rate, held, cancelled, lost, uncounted, asked, capped, since, calls>>

Send(w) ==
    /\ step[w] = "send"
    /\ ~cancelled[w]
    /\ call' = [call EXCEPT ![w].sent = @ + 1]
    /\ step' = [step EXCEPT ![w] = "flight"]
    /\ UNCHANGED <<rate, held, cancelled, lost, uncounted, asked, capped, since, calls>>

(* What the server asked for, in full: the longest of its delays. *)
AskedFor(headers) ==
    IF headers = {} THEN 0
    ELSE CHOOSE d \in {h.ticks : h \in headers} : \A h \in headers : h.ticks <= d

(* A delay for everyone who uses the provider. *)
Delayed(headers, attempt) ==
    LET delay == AskedFor(headers) IN
    /\ rate' = BackedOff(rate, Base, FailureDelay(headers, attempt))
    /\ asked' = IF delay <= MaxDelay THEN Larger(asked, delay) ELSE asked
    /\ capped' = IF delay <= MaxDelay THEN capped ELSE MaxDelay

(* After a connection error: the token, then the backoff.  requests' error  *)
(* allows no other mode.                                                    *)
AfterLoss(w) ==
    /\ IF cancelled[w] THEN Ends(w) /\ UNCHANGED <<rate, asked, capped>>
       ELSE /\ Delayed({}, call[w].attempt)
            /\ IF call[w].attempt + 1 < Attempts THEN NextAttempt(w)
               ELSE NextMode(w, FALSE, 0)
    /\ UNCHANGED <<cancelled, lost, uncounted, since, calls>>

(* Faulty variant: the reservation of a failed connection is kept. *)
LosesConnectionHolding(w) == step[w] = "flight" /\ AfterLoss(w) /\ UNCHANGED held

(* A connection error or a timeout: cancel_quota first. *)
LosesConnection(w) ==
    /\ step[w] = "flight"
    /\ held' = [held EXCEPT ![w] = FALSE]
    /\ AfterLoss(w)

(* Another failure of the library (a broken body, too many redirects): no   *)
(* handler, the reservation stays until the ledger lets it expire.          *)
OtherFailure(w) ==
    /\ step[w] = "flight"
    /\ lost' = [lost EXCEPT ![w] = TRUE]
    /\ Ends(w)
    /\ UNCHANGED <<rate, held, cancelled, uncounted, asked, capped, since, calls>>

(* complete_quota *)
Settled(w) ==
    /\ held' = [held EXCEPT ![w] = FALSE]
    /\ uncounted' = (uncounted \/ (call[w].kind.pooled /\ ~held[w]))

(* A retryable status: counted, the backoff, then the token. *)
ShouldWait(w, status, headers) ==
    /\ step[w] = "flight"
    /\ Settled(w)
    /\ Delayed(headers, call[w].attempt)
    /\ IF cancelled[w] THEN Ends(w)
       ELSE IF call[w].attempt + 1 < Attempts THEN NextAttempt(w)
       ELSE NextMode(w, CanFallback(status), 0)
    /\ UNCHANGED <<cancelled, lost, since, calls>>

(* Any other error status: counted, no attempt more. *)
Rejected(w, status) ==
    /\ step[w] = "flight"
    /\ Settled(w)
    /\ NextMode(w, CanFallback(status), 1)
    /\ UNCHANGED <<rate, cancelled, lost, asked, capped, since, calls>>

(* A good answer: counted; a cancelled call drops it, else the interval of  *)
(* the provider shrinks.                                                    *)
Answered(w) ==
    /\ step[w] = "flight"
    /\ Settled(w)
    /\ IF cancelled[w] THEN Ends(w) /\ UNCHANGED rate
       ELSE /\ rate' = Eased(rate, Base)
            /\ step' = [step EXCEPT ![w] = "read"]
            /\ UNCHANGED call
    /\ UNCHANGED <<cancelled, lost, asked, capped, since, calls>>

(* The text of an answer, per API: a body has a text, a refusal, and is     *)
(* valid when its text is the JSON that was asked for.                      *)
ResponsesText(body) == "text" \in body
ChatText(body) == "text" \in body /\ "refusal" \notin body
AnthropicText(body) == "text" \in body

(* request_provider *)
HasText(style, body) ==
    CASE style = "openai_responses_web_search" -> ResponsesText(body)
      [] style = "anthropic_messages" -> AnthropicText(body)
      [] OTHER -> ChatText(body)

(* parse_batch_classifications: every domain asked for once, no other, and  *)
(* every result of the right types.                                         *)
Parses(style, body) == HasText(style, body) /\ "valid" \in body

Readable(w) ==
    /\ step[w] = "read"
    /\ \E body \in Bodies : Parses(call[w].kind.style, body)
    /\ Ends(w)
    /\ UNCHANGED <<rate, held, cancelled, lost, uncounted, asked, capped, since, calls>>

Unreadable(w) ==
    /\ step[w] = "read"
    /\ \E body \in Bodies : ~Parses(call[w].kind.style, body)
    /\ NextMode(w, TRUE, 1)
    /\ UNCHANGED <<rate, held, cancelled, lost, uncounted, asked, capped, since, calls>>

(* Time passes. *)
ReqTick ==
    /\ rate.gap > 0 \/ asked > 0 \/ capped > 0 \/ since < Base
    /\ rate' = Later(rate)
    /\ asked' = Larger(0, asked - 1)
    /\ capped' = Larger(0, capped - 1)
    /\ since' = Smaller(Base, since + 1)
    /\ UNCHANGED <<step, call, held, cancelled, lost, uncounted, calls>>

-----------------------------------------------------------------------------
Reply(w) ==
    \/ LosesConnection(w) \/ OtherFailure(w) \/ Answered(w)
    \/ \E s \in Statuses \cap Retryable, h \in Headers : ShouldWait(w, s, h)
    \/ \E s \in Statuses \ Retryable : Rejected(w, s)

(* What a worker comes to by itself; a grant of the ledger is not its own   *)
(* doing, the end of the wait for it is.                                    *)
OwnStep(w) ==
    \/ StopCancelled(w) \/ TakeSlot(w) \/ QuotaTimesOut(w)
    \/ Send(w) \/ Reply(w) \/ Readable(w) \/ Unreadable(w)

WorkerStep(w) == OwnStep(w) \/ ReserveQuota(w)

ReqNext ==
    \/ \E w \in Workers : StartDirect(w) \/ StartPooled(w) \/ CancelCall(w) \/ WorkerStep(w)
    \/ ReqTick

-----------------------------------------------------------------------------
(* README.md: the requests honor Retry-After.  No attempt gets its slot     *)
(* before every delay of up to five minutes an answer asked for is over in  *)
(* full, whichever thread the answer went to and whatever shorter delay     *)
(* came later; of a longer delay http_retry.py keeps the five minutes, and  *)
(* no slot is given within them.                                            *)
SlotAfterDelay ==
    [][\A w \in Workers : step[w] = "slot" /\ step'[w] \in {"quota", "send"}
                             => asked = 0 /\ capped = 0]_reqVars

(* Two slots are at least min_request_interval_sec apart, for all threads   *)
(* together (_RATE_LOCK).                                                   *)
SlotsSpaced ==
    [][\A w \in Workers : step[w] = "slot" /\ step'[w] \in {"quota", "send"} => since = Base]_reqVars

(* Every attempt with a reservation settles it, however it ends: a call     *)
(* that is over holds none, and the ledger counts exactly the requests the  *)
(* provider answered.  Only an error _request_with_retries does not handle  *)
(* leaves one behind.                                                       *)
ReservationsSettled ==
    \A w \in Workers :
        /\ held[w] => step[w] \in {"send", "flight"} \/ lost[w]
        /\ ~uncounted

(* A call sends at most max_retries + 1 requests, and as many again only    *)
(* for an answer that was rejected or could not be read: README.md, "a      *)
(* rate-limited request never triggers additional structured-output         *)
(* fallback calls".                                                         *)
RequestBudget ==
    \A w \in Workers : call[w] # None => call[w].sent <= Attempts * (1 + call[w].unused)

(* Every call ends, whatever the provider answers and although the ledger   *)
(* may never grant it a reservation.                                        *)
CallEnds == \A w \in Workers : step[w] # "idle" ~> step[w] = "idle"

(* However a call ends, its reservations are settled and its requests      *)
(* stay within the budget.                                                 *)
RequestInv == ReqTypeOK /\ ReservationsSettled /\ RequestBudget

(* The slots of all threads keep the delays asked for, up to the longest   *)
(* one the client accepts, and the interval.                               *)
Paced == SlotAfterDelay /\ SlotsSpaced
=============================================================================
