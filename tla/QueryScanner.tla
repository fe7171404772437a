---------------------------- MODULE QueryScanner ----------------------------
(***************************************************************************)
(* The scanner thread (workers.py): it polls the query log of the Pi-hole  *)
(* from a cursor kept in memory and in the state table, counts the         *)
(* queries, stages their domains, and reads older pages of the log while   *)
(* nothing new arrives.  One tick of time is the 0.001 s by which the      *)
(* cursors step; the Pi-hole answers a page with its newest rows.          *)
(***************************************************************************)
EXTENDS IntakeStore, Integers, FiniteSetsExt

CONSTANTS
    Queries,        \* identifiers of query log rows
    DomainOf,       \* domain of each query
    BatchSize,      \* scans.batch_size
    HistoryBatch,   \* scans.history_batch_size
    SecondTicks,    \* ticks of a second: the request cursor is whole seconds
    Lookback,       \* scans.initial_lookback_sec
    History,        \* scans.history_lookback_days
    IdleAfter,      \* scans.history_idle_after_sec
    Cooldown,       \* ticks between two complete backfills
    Backfill,       \* scans.history_backfill_enabled
    MaxTime,        \* bound: ticks
    MaxScanFaults   \* bound: failures and restarts

ASSUME QueryDomains == DomainOf \in [Queries -> Domains]
ASSUME PageSizes == BatchSize \in Nat \ {0} /\ HistoryBatch \in Nat \ {0} /\ SecondTicks \in Nat \ {0}
ASSUME Windows == Lookback \in Nat \ {0} /\ History \in Nat /\ Lookback <= History
ASSUME ScanBounds == MaxTime \in Nat /\ History <= MaxTime /\ MaxScanFaults \in Nat

VARIABLES
    now,        \* wall clock; it also stands for the monotonic clock
    time,       \* time of each query in the Pi-hole's log, None before it is asked
    spc,        \* step of the scan cycle
    from,       \* Scanner._from_ts
    savedFrom,  \* state scanner_from_ts, None when unset
    page,       \* rows fetched in this cycle
    liveAt,     \* Scanner._last_live_activity
    until,      \* state history_backfill_until_ts, None when unset
    doneAt,     \* state history_backfill_completed_at
    count,      \* how often each query entered query_observations
    recounts,   \* history: cycles that failed after counting their page
    skipped,    \* history: queries a full page or the step of the cursor passed over
    asOf,       \* instant the backfill step under way began
    top,        \* history: newest instant of the backfill under way
    sfaults     \* failures and restarts so far

scanVars == <<now, time, spc, from, savedFrom, page, liveAt, until, doneAt,
              count, recounts, skipped, asOf, top, sfaults>>

ScanInit ==
    /\ now = History
    /\ time \in [Queries -> 0..now \cup {None}]
    /\ spc = "top" /\ from = now - Lookback /\ savedFrom = None /\ page = {}
    /\ liveAt = now /\ until = None /\ doneAt = 0
    /\ count = [q \in Queries |-> 0] /\ recounts = 0
    /\ skipped = {q \in Queries : time[q] # None /\ time[q] <= from}
    /\ asOf = 0 /\ top = 0 /\ sfaults = 0

Logged == {q \in Queries : time[q] # None}

ScanFault == sfaults < MaxScanFaults /\ sfaults' = sfaults + 1

-----------------------------------------------------------------------------
(* The n newest rows among qs; rows of one instant come in any order. *)
Newest(qs, n) ==
    IF Cardinality(qs) <= n THEN {qs}
    ELSE {p \in kSubset(n, qs) : \A a \in p, b \in qs \ p : time[a] >= time[b]}

(* fetch_query_page with the length and the interval of the request. *)
Page(n, lo, hi) == Newest({q \in Logged : lo <= time[q] /\ time[q] <= hi}, n)

(* Faulty variant: the start of the request is rounded up. *)
RequestFromUp == ((from + SecondTicks - 1) \div SecondTicks) * SecondTicks

(* The start of the request, cut down to whole seconds. *)
RequestFrom == (from \div SecondTicks) * SecondTicks

NewRows(rows) == {q \in rows : time[q] > from}

(* A query passes the Pi-hole. *)
Ask(q) ==
    /\ time[q] = None
    /\ time' = [time EXCEPT ![q] = now]
    /\ UNCHANGED <<now, spc, from, savedFrom, page, liveAt, until, doneAt, count,
                   recounts, skipped, asOf, top, sfaults>>
    /\ UNCHANGED store

(* Connection test and fetch. *)
ScanFetch ==
    /\ spc = "top"
    /\ scanOn
    /\ \E rows \in Page(BatchSize, RequestFrom, now) :
        /\ page' = NewRows(rows)
        /\ skipped' = IF rows = {} THEN skipped
                      ELSE skipped \cup ({q \in Logged : from < time[q]} \ rows)
    /\ spc' = "fetched"
    /\ UNCHANGED <<now, time, from, savedFrom, liveAt, until, doneAt, count,
                   recounts, asOf, top, sfaults>>
    /\ UNCHANGED store

(* record_query_observations: one transaction. *)
ScanRecord ==
    /\ spc = "fetched"
    /\ count' = [q \in Queries |-> IF q \in page THEN count[q] + 1 ELSE count[q]]
    /\ known' = known \cup {DomainOf[q] : q \in page}
    /\ spc' = "recorded"
    /\ UNCHANGED <<now, time, from, savedFrom, page, liveAt, until, doneAt,
                   recounts, skipped, asOf, top, sfaults, classified, due, staged, scanOn, auditOn>>

ScanQueue ==
    /\ spc = "recorded"
    /\ staged' = staged \cup NeedingAnalysis({DomainOf[q] : q \in page})
    /\ spc' = "queued"
    /\ UNCHANGED <<now, time, from, savedFrom, page, liveAt, until, doneAt, count,
                   recounts, skipped, asOf, top, sfaults, known, classified, due, scanOn, auditOn>>

(* Faulty variant: the cursor moves to the time of the poll. *)
CursorAtPoll(p) == now

(* The cursor steps over the newest row. *)
CursorAfter(p) == Max({from} \cup {time[q] + 1 : q \in p})

BackfillDue ==
    /\ Backfill
    /\ page = {}
    /\ now - liveAt >= IdleAfter
    /\ now - doneAt >= Cooldown \/ doneAt = 0

(* A cycle with rows, or with nothing to do: the cursor moves in memory    *)
(* first and is saved after.                                               *)
ScanAdvance ==
    /\ spc = "queued"
    /\ ~BackfillDue
    /\ spc' = "recheck"
    /\ page' = {}
    /\ from' = IF page = {} THEN from ELSE CursorAfter(page)
    /\ savedFrom' = IF page = {} THEN savedFrom ELSE from'
    /\ liveAt' = IF page = {} THEN liveAt ELSE now
    /\ UNCHANGED <<now, time, until, doneAt, count, recounts, skipped, asOf, top, sfaults>>
    /\ UNCHANGED store

(* The end of every cycle. *)
ScanRecheck ==
    /\ spc = "recheck"
    /\ staged' = staged \cup DueRechecks
    /\ spc' = "top"
    /\ UNCHANGED <<now, time, from, savedFrom, page, liveAt, until, doneAt, count,
                   recounts, skipped, asOf, top, sfaults, known, classified, due, scanOn, auditOn>>

(* Instant the next page of the backfill ends with: the saved one while it *)
(* lies in the window, otherwise now.                                      *)
Resume == IF until # None /\ until > now - History /\ until <= now THEN until ELSE now

(* A backfill reads one page per idle cycle. *)
BackfillFetch ==
    /\ spc = "queued"
    /\ BackfillDue
    /\ page' \in Page(HistoryBatch, now - History, Resume)
    /\ asOf' = now
    /\ top' = IF Resume = now THEN now ELSE top
    /\ spc' = "backfill"
    /\ UNCHANGED <<now, time, from, savedFrom, liveAt, until, doneAt, count,
                   recounts, skipped, sfaults>>
    /\ UNCHANGED store

OldestOf(p) == Min({time[q] : q \in p})

(* Faulty variant: the next page ends a whole second below. *)
BelowPageSecond(p) == OldestOf(p) - SecondTicks

(* The next page ends below the oldest row of this one. *)
BelowPage(p) == OldestOf(p) - 1

(* No row, a row at the start of the window, or a page that is not full. *)
LastPage(p) ==
    \/ p = {}
    \/ BelowPage(p) <= asOf - History
    \/ Cardinality(p) < HistoryBatch

(* record_discovered_domains: one transaction, skipped for an empty page. *)
BackfillRecord ==
    /\ spc = "backfill" /\ page # {}
    /\ known' = known \cup {DomainOf[q] : q \in page}
    /\ spc' = "discovered"
    /\ UNCHANGED <<now, time, from, savedFrom, page, liveAt, until, doneAt, count,
                   recounts, skipped, asOf, top, sfaults, classified, due, staged, scanOn, auditOn>>

BackfillQueue ==
    /\ spc = "discovered"
    /\ staged' = staged \cup NeedingAnalysis({DomainOf[q] : q \in page})
    /\ spc' = "enqueued"
    /\ UNCHANGED <<now, time, from, savedFrom, page, liveAt, until, doneAt, count,
                   recounts, skipped, asOf, top, sfaults, known, classified, due, scanOn, auditOn>>

(* The cursor is saved after the domains, the end of the backfill after it. *)
BackfillMove ==
    /\ spc = "enqueued"
    /\ until' = BelowPage(page)
    /\ spc' = IF LastPage(page) THEN "filled" ELSE "recheck"
    /\ page' = {}
    /\ UNCHANGED <<now, time, from, savedFrom, liveAt, doneAt, count, recounts, skipped,
                   asOf, top, sfaults>>
    /\ UNCHANGED store

BackfillComplete ==
    /\ spc = "filled" \/ (spc = "backfill" /\ page = {})
    /\ doneAt' = asOf
    /\ spc' = "completed"
    /\ UNCHANGED <<now, time, from, savedFrom, page, liveAt, until, count, recounts, skipped,
                   asOf, top, sfaults>>
    /\ UNCHANGED store

(* The next backfill begins anew, after a time without live queries. *)
BackfillReset ==
    /\ spc = "completed"
    /\ until' = asOf /\ liveAt' = now
    /\ spc' = "recheck"
    /\ UNCHANGED <<now, time, from, savedFrom, page, doneAt, count, recounts, skipped,
                   asOf, top, sfaults>>
    /\ UNCHANGED store

(* An exception in a cycle: the page is dropped, the cursor stays; between *)
(* the assignment and set_state only the saved cursor stays behind.        *)
ScanFails ==
    /\ ScanFault
    /\ spc # "top"
    /\ spc' = "top"
    /\ page' = {}
    /\ \/ UNCHANGED from
       \/ spc = "queued" /\ page # {} /\ from' = CursorAfter(page)
    /\ recounts' = IF spc \in {"recorded", "queued"} /\ page # {} /\ from' = from
                   THEN recounts + 1 ELSE recounts
    /\ UNCHANGED <<now, time, savedFrom, liveAt, until, doneAt, count, skipped, asOf, top>>
    /\ UNCHANGED store

(* The process restarts: the cursor is the saved one unless it is absent   *)
(* or lies in the future.                                                  *)
ScanRestart ==
    /\ ScanFault
    /\ spc' = "top"
    /\ page' = {}
    /\ from' = IF savedFrom # None /\ savedFrom > 0 /\ savedFrom <= now + 1
               THEN savedFrom ELSE now - Lookback
    /\ recounts' = IF \E q \in Logged : count[q] > 0 /\ time[q] > from'
                   THEN recounts + 1 ELSE recounts
    /\ liveAt' = now
    /\ skipped' = skipped \cup {q \in Logged : time[q] <= from' /\ count[q] = 0}
    /\ UNCHANGED <<now, time, savedFrom, until, doneAt, count, asOf, top>>
    /\ UNCHANGED store

Tick ==
    /\ now < MaxTime
    /\ now' = now + 1
    /\ UNCHANGED <<time, spc, from, savedFrom, page, liveAt, until, doneAt, count,
                   recounts, skipped, asOf, top, sfaults>>
    /\ UNCHANGED store

ScanStep ==
    \/ ScanFetch \/ ScanRecord \/ ScanQueue \/ ScanAdvance \/ ScanRecheck
    \/ BackfillFetch \/ BackfillRecord \/ BackfillQueue \/ BackfillMove
    \/ BackfillComplete \/ BackfillReset

ScanNext ==
    \/ ScanStep \/ ScanFails \/ ScanRestart \/ Tick
    \/ \E q \in Queries : Ask(q)

(* The scanner thread keeps running its cycle. *)
ScanFairness == WF_scanVars(ScanStep)

-----------------------------------------------------------------------------
ScanTypeOK ==
    /\ now \in 0..MaxTime
    /\ time \in [Queries -> 0..MaxTime \cup {None}]
    /\ spc \in {"top", "fetched", "recorded", "queued", "backfill", "discovered", "enqueued",
               "filled", "completed", "recheck"}
    /\ from \in 0..(MaxTime + 1) /\ savedFrom \in 0..(MaxTime + 1) \cup {None}
    /\ page \subseteq Logged
    /\ liveAt \in 0..MaxTime /\ doneAt \in 0..MaxTime
    /\ until \in Int \cup {None} /\ top \in 0..MaxTime /\ asOf \in 0..MaxTime
    /\ count \in [Queries -> Nat]
    /\ recounts \in Nat /\ skipped \subseteq Queries /\ sfaults \in 0..MaxScanFaults

(* A query is counted once, and again only for a cycle that failed or a    *)
(* process that ended between counting a page and saving the cursor.       *)
CountedOnce == \A q \in Queries : count[q] <= 1 + recounts

(* A query in the instant of a counted one, or in the next: the cursor     *)
(* stands there already.                                                   *)
Tied(q) == time[q] # None /\ \E r \in Logged : count[r] > 0 /\ time[q] - time[r] \in {0, 1}

(* The cursor passes no query that was not counted, except one that a full *)
(* page crowded out, one older than the first look back, or one that came  *)
(* in the instant the cursor already stood at.                             *)
CursorBehind ==
    spc = "top" =>
        \A q \in Logged \ skipped : time[q] <= from => count[q] > 0 \/ Tied(q)

(* A complete backfill has made every domain of its window known, except   *)
(* one whose query shares the instant of the oldest row of a full page.    *)
BackfillCovers ==
    [][doneAt' # doneAt =>
        \A q \in Logged :
            (/\ asOf - History < time[q] /\ time[q] < top
             /\ \A r \in Logged \ {q} : time[r] # time[q])
            => DomainOf[q] \in known']_<<scanVars, store>>

(* Every query the cursor has not stepped over is counted in the end. *)
EventuallyCounted ==
    \A q \in Queries :
        (scanOn /\ time[q] # None) ~> (count[q] > 0 \/ q \in skipped \/ Tied(q))

(* A backfill comes to its end unless live queries interrupt it: its pages *)
(* move strictly towards the start of the window.                          *)
BackfillEnds == (spc = "backfill") ~> (doneAt > 0 \/ now - liveAt < IdleAfter)

(* The scanner counts every query it may and none twice.                   *)
ScanInv == StoreTypeOK /\ ScanTypeOK /\ CountedOnce /\ CursorBehind
=============================================================================
