---------------------------- MODULE RequestRate ----------------------------
(***************************************************************************)
(* Spacing of the requests to one provider: the state provider_api.py and  *)
(* research_common.py each keep per provider, and the delays http_retry.py *)
(* reads from response headers.  Time is counted in ticks and only as the  *)
(* time left until next_request_at, so the state stays finite however long *)
(* the program runs.  Halves are rounded down to ticks.                    *)
(***************************************************************************)
EXTENDS Integers

CONSTANTS
    Second,         \* ticks of a second
    MaxDelay,       \* longest delay taken from an answer (300 s)
    MaxAdaptive,    \* longest adaptive interval (60 s)
    NoDelay         \* no header of the answer names a delay

ASSUME RateAssumption ==
    /\ {Second, MaxDelay, MaxAdaptive} \subseteq Nat \ {0}
    /\ MaxAdaptive <= MaxDelay
    /\ NoDelay \notin Int

Larger(a, b) == IF a >= b THEN a ELSE b
Smaller(a, b) == IF a <= b THEN a ELSE b

(* _ProviderRateState: what is left until next_request_at, and the interval *)
(* that grows with failures.                                                *)
Rates == [gap : 0..MaxDelay, adaptive : 0..MaxDelay]

FreshRate == [gap |-> 0, adaptive |-> 0]

(* Headers: a duration, or a point in time so many ticks ahead.  A number   *)
(* not more than a second ahead of the clock is taken for a duration, and   *)
(* a point in time is then longer than any delay.                           *)
HeaderDelay(h) ==
    IF h.kind = "duration" \/ h.ticks > Second THEN h.ticks ELSE MaxDelay

(* retry_delay_from_headers: the longest, within 0 and the maximum. *)
RetryDelay(headers) ==
    IF headers = {} THEN NoDelay
    ELSE LET ds == {HeaderDelay(h) : h \in headers}
         IN  Smaller(MaxDelay, Larger(0, CHOOSE d \in ds : \A e \in ds : e <= d))

AttemptDelay(attempt) == Smaller(MaxDelay, Larger(Second, Second * 2^attempt))

(* _register_response_failure and _register_transient_failure: the delay of *)
(* the answer, else one that doubles with the attempts.                     *)
FailureDelay(headers, attempt) ==
    IF RetryDelay(headers) = NoDelay THEN AttemptDelay(attempt) ELSE RetryDelay(headers)

(* _wait_for_request_slot, when no time is left. *)
SlotTaken(rate, base) == [rate EXCEPT !.gap = Larger(base, rate.adaptive)]

(* Faulty variant: the last failure alone sets the next request. *)
BackedOffAnew(rate, base, delay) ==
    LET grown == IF rate.adaptive # 0 THEN 2 * rate.adaptive ELSE Larger(Second, base)
        next  == Smaller(MaxAdaptive, Larger(base, grown))
    IN  [gap |-> Larger(delay, next), adaptive |-> next]

(* _increase_backoff *)
BackedOff(rate, base, delay) ==
    LET grown == IF rate.adaptive # 0 THEN 2 * rate.adaptive ELSE Larger(Second, base)
        next  == Smaller(MaxAdaptive, Larger(base, grown))
    IN  [gap |-> Larger(rate.gap, Larger(delay, next)), adaptive |-> next]

(* _register_success *)
Eased(rate, base) == [rate EXCEPT !.adaptive = Larger(base, rate.adaptive \div 2)]

Later(rate) == [rate EXCEPT !.gap = Larger(0, rate.gap - 1)]
=============================================================================
