---------------------------- MODULE QuotaLedger ----------------------------
(***************************************************************************)
(* The quota ledger (quota.py): reservations of one provider account in    *)
(* the table quota_reservations, the live limits read from response        *)
(* headers in runtime_quota_state, and the HTTP attempts of provider_api   *)
(* that reserve before a request and complete or cancel after it.          *)
(*                                                                         *)
(* Two limits of the account are modelled, one of each reset policy: a     *)
(* rolling limit on requests and a limit on tokens per UTC day.  Amounts   *)
(* are compared without division: cap = amount * (100 - margin) *          *)
(* (100 - reserve) / 10000.                                                *)
(*                                                                         *)
(* Time is relative: a row has an age in seconds, and knows whether it was *)
(* created today and whether it was created after the last observation of  *)
(* the live limit.  reserve_quota is one BEGIN IMMEDIATE transaction.      *)
(***************************************************************************)
EXTENDS Naturals, FiniteSets, FiniteSetsExt

CONSTANTS
    Ids,            \* reservation ids
    Tokens,         \* token counts of an estimate or of a response
    RequestLimit, RequestWindow,   \* requests per rolling window
    TokenLimit, Day,               \* tokens per UTC day of Day seconds
    SafetyMargin,   \* profile.safety_margin_percent, at most 50
    RealtimeReserve,\* llm.realtime_quota_reserve_percent, at most 90
    MinExpiry,      \* the 300 seconds a reservation lives at least
    LiveLimits,     \* request limits a response header may announce
    MaxReset        \* bound: the latest reset a header announces, in seconds

ASSUME QuotaConstants ==
    /\ Tokens \subseteq Nat \ {0}
    /\ {RequestLimit, RequestWindow, TokenLimit, Day, MinExpiry} \subseteq Nat \ {0}
    /\ SafetyMargin \in 0..50 /\ RealtimeReserve \in 0..90
    /\ LiveLimits \subseteq Nat \ {0} /\ IsFiniteSet(LiveLimits)
    /\ MaxReset \in Nat

Pools == {"realtime", "background"}

LongestWindow == IF RequestWindow > Day THEN RequestWindow ELSE Day

\* Faulty variant: the shorter of the two instead of the longer.
ExpiryShortest == IF MinExpiry < LongestWindow THEN MinExpiry ELSE LongestWindow

\* expires_at = created_at + max(300, maximum_window)
Expiry == IF MinExpiry > LongestWindow THEN MinExpiry ELSE LongestWindow

\* A reservation; "expired" is a cancelled row whose request may still run.
Rows == [state : {"none", "reserved", "completed", "expired"},
         pool  : Pools,
         tokens : Tokens \cup {0},
         age   : 0..Expiry,
         today : BOOLEAN,
         unseen : BOOLEAN]   \* created_at > observed_at of the live state

NoRow == [state |-> "none", pool |-> "background", tokens |-> 0, age |-> 0,
          today |-> FALSE, unseen |-> FALSE]

NoLive == [limit |-> 0, remaining |-> 0, reset |-> 0]

VARIABLES
    rows,      \* the table quota_reservations, without its cancelled rows
    live,      \* runtime_quota_state for requests; reset = 0: not in force
    midnight   \* seconds until the next UTC day

vars == <<rows, live, midnight>>

Init ==
    /\ rows = [i \in Ids |-> NoRow]
    /\ live = NoLive
    /\ midnight = Day

-----------------------------------------------------------------------------
\* Rows that reserve_quota counts: state IN ('reserved', 'completed').
Counted(r) == {i \in Ids : r[i].state \in {"reserved", "completed"}}

\* Those of a limit's window.  The rolling window is open at its old end.
Rolling(r, t) == {i \in Counted(r) : r[i].age + t < RequestWindow}
Today(r, t)   == {i \in Counted(r) : r[i].today /\ t < midnight}

TokensOf(r, S) == MapThenSumSet(LAMBDA i : r[i].tokens, S)

\* The pool's share of a limit, times 10000 (_limit_retry_at).
Share(amount, pool) ==
    amount * (100 - SafetyMargin) *
        (IF pool = "background" THEN 100 - RealtimeReserve ELSE 100)

\* _limits_with_live_state: a header replaces the configured amount until
\* it resets.  t is the number of seconds from now.
RequestAmount(t) == IF live.reset > t THEN live.limit ELSE RequestLimit

Fits(used, amount, pool) == used * 10000 <= Share(amount, pool)

\* Whether reserve_quota would admit a request of n tokens t seconds from
\* now, should nothing else happen until then.
Admitted(r, pool, n, t) ==
    /\ Fits(Cardinality(Rolling(r, t)) + 1, RequestAmount(t), pool)
    /\ Fits(TokensOf(r, Today(r, t)) + n, TokenLimit, pool)
    /\ live.reset > t =>
         1 + Cardinality({i \in Counted(r) : r[i].unseen}) <= live.remaining

\* Faulty variant: the newest row is dropped first.
RequestRetryNewest(r, pool) ==
    IF Fits(Cardinality(Rolling(r, 0)) + 1, RequestAmount(0), pool) THEN 0
    ELSE IF ~Fits(1, RequestAmount(0), pool) THEN RequestWindow
    ELSE RequestWindow - Min({r[i].age : i \in Rolling(r, 0)})

\* _retry_at_for_limit: drop the oldest rows until the request fits; the
\* last row dropped says when.  A request that never fits waits a window.
RequestRetry(r, pool) ==
    LET W == Rolling(r, 0)
        Younger(a) == {i \in W : r[i].age < a} IN
    IF ~Fits(1, RequestAmount(0), pool) THEN RequestWindow
    ELSE IF Fits(Cardinality(W) + 1, RequestAmount(0), pool) THEN 0
    ELSE RequestWindow - Max({a \in {r[i].age : i \in W} :
                                Fits(Cardinality(Younger(a)) + 1, RequestAmount(0), pool)})

TokenRetry(r, pool, n) ==
    IF Fits(TokensOf(r, Today(r, 0)) + n, TokenLimit, pool) THEN 0 ELSE midnight

\* _live_limit_retry_at
LiveRetry(r) ==
    IF live.reset > 0 /\ 1 + Cardinality({i \in Counted(r) : r[i].unseen}) > live.remaining
    THEN live.reset ELSE 0

\* The seconds until retry_at; 0 admits the reservation.
RetryDelay(r, pool, n) == Max({RequestRetry(r, pool), TokenRetry(r, pool, n), LiveRetry(r)})

\* reserve_quota first cancels every reservation past its expires_at.
Expired(r) == [i \in Ids |-> IF r[i].state = "reserved" /\ r[i].age >= Expiry
                             THEN [r[i] EXCEPT !.state = "expired"] ELSE r[i]]

-----------------------------------------------------------------------------
\* A refused attempt changes nothing: the transaction is rolled back.
Reserve(i, pool, n) ==
    /\ rows[i].state = "none"
    /\ RetryDelay(Expired(rows), pool, n) = 0
    /\ rows' = [Expired(rows) EXCEPT ![i] =
                  [state |-> "reserved", pool |-> pool, tokens |-> n, age |-> 0,
                   today |-> TRUE, unseen |-> TRUE]]
    /\ UNCHANGED <<live, midnight>>

\* UPDATE ... WHERE state = 'reserved': a reservation that has expired in
\* the meantime stays cancelled.
Completed(row, n) ==
    IF row.state = "reserved" THEN [row EXCEPT !.state = "completed", !.tokens = n] ELSE row

\* _save_runtime_state replaces what was known of the limit; a state whose
\* reset_at has come is never read again.
Observed(l, left, w) ==
    IF w = 0 THEN NoLive ELSE [limit |-> l, remaining |-> left, reset |-> w]

\* complete_quota: the response tells the tokens really used, and its
\* headers may tell the limit, what is left of it and when it resets.
Complete(i, n) ==
    /\ rows[i].state \in {"reserved", "expired"}
    /\ \/ /\ rows' = [rows EXCEPT ![i] = Completed(@, n)]
          /\ UNCHANGED live
       \/ \E l \in LiveLimits : \E left \in 0..l, w \in 0..MaxReset :
            /\ live' = Observed(l, left, w)
            /\ rows' = [j \in Ids |->
                          [IF j = i THEN Completed(rows[j], n) ELSE rows[j]
                             EXCEPT !.unseen = FALSE]]
    /\ UNCHANGED midnight

\* cancel_quota, after a cancellation or a connection failure.
Cancel(i) ==
    /\ rows[i].state \in {"reserved", "expired"}
    /\ rows' = [rows EXCEPT ![i] = NoRow]
    /\ UNCHANGED <<live, midnight>>

\* Rows that no limit will look at again are forgotten.
Forgotten(row, reset) ==
    /\ row.state \in {"completed", "expired"}
    /\ row.age >= RequestWindow /\ ~row.today
    /\ row.unseen => reset = 0

Later(n) == IF n = 0 THEN 0 ELSE n - 1

\* floor(now / 86400) * 86400 + 86400 - now
NextMidnight == IF midnight = 1 THEN Day ELSE midnight - 1

Tick ==
    /\ midnight' = NextMidnight
    /\ live' = IF live.reset <= 1 THEN NoLive ELSE [live EXCEPT !.reset = @ - 1]
    /\ rows' = [i \in Ids |->
                  LET older == [rows[i] EXCEPT !.age = IF @ < Expiry THEN @ + 1 ELSE @,
                                               !.today = @ /\ midnight # 1]
                  IN  IF rows[i].state = "none" \/ Forgotten(older, Later(live.reset))
                      THEN NoRow ELSE older]

Next ==
    \/ \E i \in Ids, pool \in Pools, n \in Tokens : Reserve(i, pool, n)
    \/ \E i \in Ids, n \in Tokens : Complete(i, n)
    \/ \E i \in Ids : Cancel(i)
    \/ Tick

Spec == Init /\ [][Next]_vars

-----------------------------------------------------------------------------
\* Every variable keeps its type.
TypeOK ==
    /\ rows \in [Ids -> Rows]
    /\ live \in [limit : {0} \cup LiveLimits, remaining : Nat, reset : 0..MaxReset]
    /\ midnight \in 1..Day

\* Requests that were sent, as far as the client knows, within the window.
Sent(pool) == {i \in Ids : /\ rows[i].state # "none"
                           /\ rows[i].pool \in pool
                           /\ rows[i].age < RequestWindow}

\* However reservations, completions, expiries and header changes interleave,
\* the requests of no window exceed the largest limit that was in force, its
\* safety margin taken off: a reservation that expires is out of every window.
WindowRespected ==
    Fits(Cardinality(Sent(Pools)), Max({RequestLimit} \cup LiveLimits), "realtime")

\* While an observed limit is in force, the requests sent since it was observed
\* stay within what the provider said was left, whatever the configured limit
\* would allow and however many clients reserve at once: all of them that were
\* answered or are younger than Expiry.  A request that is older and still
\* runs is given up for lost and no longer counted, although a header may
\* announce a reset a week ahead.
RemainingKept ==
    live.reset > 0 =>
        Cardinality({i \in Ids : /\ rows[i].state # "none" /\ rows[i].unseen
                                 /\ rows[i].state = "completed" \/ rows[i].age < Expiry})
            <= live.remaining

\* Background work leaves the realtime reserve alone, for requests: those of
\* the background pool in any window stay within the part of the limit that is
\* not reserved, although admissions look at the window as it was at the time
\* and at the rows of both pools together.
ReserveKept ==
    Cardinality(Sent({"background"})) * 10000
        <= Max({RequestLimit} \cup LiveLimits) * (100 - SafetyMargin) * (100 - RealtimeReserve)

\* A refused attempt is told the earliest moment at which it would be
\* admitted, not one second less and not one more, when it fits at all and
\* no header is in force (_retry_at_for_limit and its window boundaries).
RetryIsEarliest ==
    \A pool \in Pools, n \in Tokens :
        (live.reset = 0 /\ Fits(1, RequestLimit, pool) /\ Fits(n, TokenLimit, pool)) =>
            LET r == Expired(rows) d == RetryDelay(r, pool, n) IN
            /\ Admitted(r, pool, n, d)
            /\ \A t \in 0..d : Admitted(r, pool, n, t) => t = d

\* The ledger keeps every limit at once: the windows, the request reserve of
\* realtime work, and what a header said is left.
LedgerInv == TypeOK /\ WindowRespected /\ ReserveKept /\ RemainingKept
=============================================================================
