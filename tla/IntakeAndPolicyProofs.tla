----------------------- MODULE IntakeAndPolicyProofs -----------------------
(***************************************************************************)
(* The two ends of a domain's way through the program.  How it gets in:    *)
(* the scanner, the backfill and the list auditor over one database, for   *)
(* any query log, page sizes, windows, lists, batch size, failures and     *)
(* restarts.  And what may be done to it without asking: the automation    *)
(* policy, for any tags, profiles, services and answers.  Each part has    *)
(* its own inductive invariant; they share no state.                       *)
(***************************************************************************)
EXTENDS AutomationPolicy, DomainIntake, FiniteSetTheorems, WellFoundedInduction,
        NaturalsInduction, TLAPS

-----------------------------------------------------------------------------
(* The cursor of the scanner and what it has counted. *)

Holding == {"fetched", "recorded", "queued"}   \* steps that hold a page of new rows

(* Clocks and cursors: nothing lies further ahead than a tick. *)
ClockOK ==
    /\ History <= now
    /\ \A q \in Logged : time[q] <= now
    /\ from <= now + 1
    /\ savedFrom # None => savedFrom <= now + 1
    /\ until # None => until <= now
    /\ liveAt <= now /\ doneAt <= now /\ asOf <= now /\ top <= asOf

(* A cursor that is not in the past was put there by a counted row. *)
Reached(c) == c < now \/ \E r \in Logged : count[r] > 0 /\ time[r] = c - 1

CursorsReached == Reached(from) /\ (savedFrom # None => Reached(savedFrom))

PageAhead ==
    /\ spc \in Holding => \A q \in page : time[q] > from
    /\ spc \in {"recorded", "queued"} => \A q \in page : count[q] > 0

(* The rows ahead of the cursor that are not in the page came after it. *)
NothingBetween ==
    spc \in Holding =>
        \A r \in page, q \in (Logged \ skipped) \ page : time[q] > from => time[r] <= time[q]

CountedAhead ==
    \A q \in Logged :
        time[q] > from /\ ~(spc \in {"recorded", "queued"} /\ q \in page) => count[q] <= recounts

UnaskedUncounted == \A q \in Queries \ Logged : count[q] = 0

Behind == \A q \in Logged \ skipped : time[q] <= from => count[q] > 0 \/ Tied(q)

ScanIInv ==
    /\ ScanTypeOK /\ ClockOK /\ CursorsReached /\ PageAhead /\ NothingBetween
    /\ CountedAhead /\ UnaskedUncounted /\ CountedOnce /\ Behind

-----------------------------------------------------------------------------
(* What the pages of a backfill have covered. *)

Alone(q) == \A r \in Logged \ {q} : time[r] # time[q]

KnownAbove(t) ==
    \A q \in Logged : (Alone(q) /\ t < time[q] /\ time[q] < top) => DomainOf[q] \in known

(* Where the page under way was resumed. *)
Resumed == IF until # None /\ until > asOf - History /\ until <= asOf THEN until ELSE asOf

LeftOut(q) ==
    q \notin page /\ asOf - History <= time[q] /\ time[q] <= Resumed /\ time[q] < asOf

Filling == {"backfill", "discovered", "enqueued"}   \* steps that hold a page of the backfill

(* The page begins below what is known, and leaves out only older rows. *)
PageReaches ==
    /\ KnownAbove(Resumed)
    /\ \A q \in Logged : LeftOut(q) => /\ Cardinality(page) = HistoryBatch
                                       /\ \A r \in page : time[q] <= time[r]

PageKnown == page # {} /\ \A r \in page : DomainOf[r] \in known

WindowKnown == KnownAbove(asOf - History)

FillIInv ==
    /\ (until # None /\ until > now - History) => KnownAbove(until)
    /\ spc \in Filling => PageReaches
    /\ spc \in {"discovered", "enqueued"} => PageKnown
    /\ spc \in {"filled", "completed"} => WindowKnown

-----------------------------------------------------------------------------
(* The list auditor. *)

LinesToDo == \A w \in Workers : wpc[w] = "batch" =>
    at[w] \in 1..Len(Lists) /\ todo[w] \subseteq FirstLines(Reading(w))

CyclePays ==
    \A w \in Workers :
        /\ wpc[w] = "list" => at[w] \in 1..(Len(Lists) + 1) /\ owed[w] = paid[w]
        /\ wpc[w] = "batch" => owed[w] = paid[w] \cup DomainsAt(Reading(w), todo[w])

AuditIInv ==
    /\ AuditTypeOK /\ LinesToDo /\ CyclePays
    /\ \A w \in Workers : Alive(w) /\ ~stopped[w] => ref = w

(* Every line kept for a batch names a domain. *)
LEMMA LinesNameDomains ==
    ASSUME NEW lines, NEW ps \in SUBSET FirstLines(lines)
    PROVE  DomainsAt(lines, ps) \subseteq Domains
BY DEF DomainsAt, FirstLines, DomainFromListRule, ValidatedDomain

(* A line is in the batch or in the rest, whatever the size of a batch. *)
LEMMA BatchAndRest ==
    ASSUME NEW l \in DOMAIN LinesOf, NEW ps \in SUBSET FirstLines(LinesOf[l])
    PROVE  /\ IsFiniteSet(ps)
           /\ DomainsAt(LinesOf[l], ps) =
                DomainsAt(LinesOf[l], {i \in ps : Place(i, ps) <= AuditBatch})
                    \cup DomainsAt(LinesOf[l], RestAfter(ps))
<1>1. ps \subseteq 1..Len(LinesOf[l])
  BY ListLines DEF FirstLines
<1>2. IsFiniteSet(ps)
  <2>1. IsFiniteSet(1..Len(LinesOf[l]))
    BY ListLines, FS_Interval
  <2> QED
    BY <1>1, <2>1, FS_Subset
<1>3. \A i \in ps : Place(i, ps) \in Nat
  <2> TAKE i \in ps
  <2>1. IsFiniteSet({j \in ps : j <= i})
    BY <1>2, FS_Subset
  <2> QED
    BY <2>1, FS_CardinalityType DEF Place
<1>4. AuditBatch \in Nat
  BY BatchIsPositive
<1>5. ps = {i \in ps : Place(i, ps) <= AuditBatch} \cup RestAfter(ps)
  BY <1>3, <1>4 DEF RestAfter
<1>6. \A A, B : DomainsAt(LinesOf[l], A \cup B) = DomainsAt(LinesOf[l], A) \cup DomainsAt(LinesOf[l], B)
  BY DEF DomainsAt
<1> QED
  BY <1>2, <1>5, <1>6

(* No thread runs at the start. *)
LEMMA AuditStarts == AuditInit => AuditIInv
<1> SUFFICES ASSUME AuditInit PROVE AuditIInv
  OBVIOUS
<1>1. Len(Lists) \in Nat
  BY ListNames
<1>2. AuditTypeOK
  BY <1>1, AuditBounds DEF AuditInit, AuditTypeOK
<1> QED
  BY <1>2 DEF AuditInit, AuditIInv, LinesToDo, CyclePays, Alive

(* What concerns one thread depends on its own part of the state. *)
ThreadOK(w) ==
    /\ wpc[w] = "batch" => at[w] \in 1..Len(Lists) /\ todo[w] \subseteq FirstLines(Reading(w))
    /\ wpc[w] = "list" => at[w] \in 1..(Len(Lists) + 1) /\ owed[w] = paid[w]
    /\ wpc[w] = "batch" => owed[w] = paid[w] \cup DomainsAt(Reading(w), todo[w])
    /\ Alive(w) /\ ~stopped[w] => ref = w

(* The invariant, thread by thread. *)
LEMMA ThreadByThread == AuditIInv <=> AuditTypeOK /\ \A w \in Workers : ThreadOK(w)
BY DEF AuditIInv, ThreadOK, LinesToDo, CyclePays

(* The steps of a thread leave the other threads as they are. *)
LEMMA OtherThreads ==
    ASSUME NEW w \in Workers, NEW v \in Workers, v # w, AuditTypeOK, ThreadOK(v), ref' = ref,
           wpc'[v] = wpc[v], stopped'[v] = stopped[v], at'[v] = at[v], todo'[v] = todo[v],
           owed'[v] = owed[v], paid'[v] = paid[v]
    PROVE  ThreadOK(v)'
BY DEF ThreadOK, Reading, Alive

(* A step of a thread's loop. *)
LEMMA ThreadSteps ==
    ASSUME AuditIInv, NEW w \in Workers, AuditStep(w)
    PROVE  AuditIInv'
<1>1. AuditTypeOK /\ (\A v \in Workers : ThreadOK(v)) /\ Len(Lists) \in Nat
  BY ThreadByThread, ListNames
<1>2. AuditTypeOK' /\ ThreadOK(w)' /\ \A v \in Workers \ {w} : ThreadOK(v)'
  <2>1. CASE Top(w)
    <3>u. wpc[w] = "top" /\ UNCHANGED <<ref, stopped, wake, todo, completed, requests, afaults>>
      BY <2>1 DEF Top
    <3>0. \/ wpc' = [wpc EXCEPT ![w] = "dead"] /\ at' = at /\ owed' = owed /\ paid' = paid
          \/ wpc' = [wpc EXCEPT ![w] = "idle"] /\ at' = at /\ owed' = owed /\ paid' = paid
          \/ /\ wpc' = [wpc EXCEPT ![w] = "list"]
             /\ at' = [at EXCEPT ![w] = 1]
             /\ owed' = [owed EXCEPT ![w] = {}]
             /\ paid' = [paid EXCEPT ![w] = {}]
      BY <2>1, Zenon DEF Top
    <3>1. AuditTypeOK'
      <4>1. 1 \in 0..(Len(Lists) + 1) /\ {} \in SUBSET Domains
        BY <1>1
      <4>2. at' \in [Workers -> 0..(Len(Lists) + 1)]
        BY <1>1, <3>0, <4>1 DEF AuditTypeOK
      <4>3. owed' \in [Workers -> SUBSET Domains] /\ paid' \in [Workers -> SUBSET Domains]
        BY <1>1, <3>0, <4>1 DEF AuditTypeOK
      <4>4. wpc' \in [Workers -> {"none", "top", "idle", "list", "batch", "dead"}]
        BY <1>1, <3>0 DEF AuditTypeOK
      <4> QED
        BY <1>1, <3>u, <4>2, <4>3, <4>4 DEF AuditTypeOK
    <3>2. ThreadOK(w)'
      <4>1. Alive(w) /\ stopped'[w] = stopped[w] /\ ref' = ref
        BY <3>u DEF Alive
      <4>2. ~stopped[w] => ref = w
        BY <1>1, <4>1 DEF ThreadOK
      <4>3. CASE wpc' = [wpc EXCEPT ![w] = "list"] /\ at' = [at EXCEPT ![w] = 1]
                 /\ owed' = [owed EXCEPT ![w] = {}] /\ paid' = [paid EXCEPT ![w] = {}]
        <5>1. wpc'[w] = "list" /\ at'[w] = 1 /\ owed'[w] = paid'[w]
          BY <1>1, <4>3 DEF AuditTypeOK
        <5> QED
          BY <1>1, <4>1, <4>2, <5>1 DEF ThreadOK
      <4>4. CASE wpc' = [wpc EXCEPT ![w] = "dead"] \/ wpc' = [wpc EXCEPT ![w] = "idle"]
        <5>1. wpc'[w] \in {"dead", "idle"}
          BY <1>1, <4>4 DEF AuditTypeOK
        <5> QED
          BY <4>1, <4>2, <5>1 DEF ThreadOK
      <4> QED
        BY <3>0, <4>3, <4>4
    <3>3. \A v \in Workers \ {w} : ThreadOK(v)'
      BY <1>1, <2>1, OtherThreads DEF Top, AuditTypeOK
    <3> QED
      BY <3>1, <3>2, <3>3
  <2>2. CASE IdleEnds(w)
    <3>1. AuditTypeOK'
      BY <1>1, <2>2 DEF IdleEnds, AuditTypeOK
    <3>2. ThreadOK(w)'
      BY <1>1, <2>2 DEF IdleEnds, AuditTypeOK, ThreadOK, Alive
    <3>3. \A v \in Workers \ {w} : ThreadOK(v)'
      BY <1>1, <2>2, OtherThreads DEF IdleEnds, AuditTypeOK
    <3> QED
      BY <3>1, <3>2, <3>3
  <2>3. CASE ReadList(w)
    <3> DEFINE eligible == {i \in ExtractDomains(Reading(w)) :
                        DomainFromListRule(Reading(w)[i]) \in FilterUnclassified(Domains)}
    <3>1. at[w] \in 1..Len(Lists)
      BY <1>1, <2>3 DEF ReadList, ThreadOK
    <3>2. Lists[at[w]] \in DOMAIN LinesOf
      BY <3>1, ListNames
    <3>3. eligible \subseteq FirstLines(Reading(w))
      BY DEF ExtractDomains
    <3>4. FirstLines(Reading(w)) \subseteq Nat
      BY <3>2, ListLines DEF FirstLines, Reading
    <3>5. DomainsAt(Reading(w), eligible) \subseteq Domains
      BY <3>3, LinesNameDomains
    <3> HIDE DEF eligible
    <3>0. \/ wpc' = [wpc EXCEPT ![w] = "dead"] /\ UNCHANGED <<at, todo, owed>>
          \/ at' = [at EXCEPT ![w] = @ + 1] /\ UNCHANGED <<wpc, todo, owed>>
          \/ /\ todo' = [todo EXCEPT ![w] = eligible]
             /\ owed' = [owed EXCEPT ![w] = @ \cup DomainsAt(Reading(w), eligible)]
             /\ wpc' = [wpc EXCEPT ![w] = "batch"]
             /\ UNCHANGED at
      BY <2>3 DEF ReadList, eligible
    <3>u. wpc[w] = "list" /\ UNCHANGED <<ref, stopped, wake, completed, paid, requests, afaults>>
      BY <2>3 DEF ReadList
    <3>6. AuditTypeOK'
      <4>1. at[w] + 1 \in 0..(Len(Lists) + 1) /\ eligible \in SUBSET Nat
            /\ owed[w] \cup DomainsAt(Reading(w), eligible) \in SUBSET Domains
        BY <1>1, <3>1, <3>3, <3>4, <3>5 DEF AuditTypeOK
      <4>2. at' \in [Workers -> 0..(Len(Lists) + 1)]
        BY <1>1, <3>0, <4>1 DEF AuditTypeOK
      <4>3. todo' \in [Workers -> SUBSET Nat] /\ owed' \in [Workers -> SUBSET Domains]
        BY <1>1, <3>0, <4>1 DEF AuditTypeOK
      <4>4. wpc' \in [Workers -> {"none", "top", "idle", "list", "batch", "dead"}]
        BY <1>1, <3>0 DEF AuditTypeOK
      <4> QED
        BY <1>1, <3>u, <4>2, <4>3, <4>4 DEF AuditTypeOK
    <3>7. ThreadOK(w)'
      <4>1. owed[w] = paid[w] /\ (~stopped[w] => ref = w)
        BY <1>1, <3>u DEF ThreadOK, Alive
      <4>2. CASE wpc' = [wpc EXCEPT ![w] = "dead"] /\ UNCHANGED <<at, todo, owed>>
        BY <1>1, <3>u, <4>2 DEF ThreadOK, Alive, AuditTypeOK
      <4>3. CASE at' = [at EXCEPT ![w] = @ + 1] /\ UNCHANGED <<wpc, todo, owed>>
        BY <1>1, <3>u, <3>1, <4>1, <4>3 DEF ThreadOK, Alive, AuditTypeOK
      <4>4. CASE /\ todo' = [todo EXCEPT ![w] = eligible]
                 /\ owed' = [owed EXCEPT ![w] = @ \cup DomainsAt(Reading(w), eligible)]
                 /\ wpc' = [wpc EXCEPT ![w] = "batch"]
                 /\ UNCHANGED at
        <5>1. todo'[w] = eligible /\ owed'[w] = owed[w] \cup DomainsAt(Reading(w), eligible)
              /\ wpc'[w] = "batch" /\ at'[w] = at[w] /\ Reading(w)' = Reading(w)
          BY <1>1, <4>4 DEF AuditTypeOK, Reading
        <5> QED
          BY <3>1, <3>3, <3>u, <4>1, <5>1 DEF ThreadOK
      <4> QED
        BY <3>0, <4>2, <4>3, <4>4
    <3>8. \A v \in Workers \ {w} : ThreadOK(v)'
      BY <1>1, <2>3, OtherThreads DEF ReadList, AuditTypeOK
    <3> QED
      BY <3>6, <3>7, <3>8
  <2>4. CASE EnqueueBatch(w)
    <3> DEFINE batch == DomainsAt(Reading(w), {i \in todo[w] : Place(i, todo[w]) <= AuditBatch})
    <3>1. at[w] \in 1..Len(Lists) /\ todo[w] \subseteq FirstLines(Reading(w))
          /\ owed[w] = paid[w] \cup DomainsAt(Reading(w), todo[w])
      BY <1>1, <2>4 DEF EnqueueBatch, ThreadOK
    <3>2. Lists[at[w]] \in DOMAIN LinesOf
      BY <3>1, ListNames
    <3>3. batch \subseteq Domains
      BY <3>1, LinesNameDomains
    <3>4. DomainsAt(Reading(w), todo[w]) = batch \cup DomainsAt(Reading(w), RestAfter(todo[w]))
      BY <3>1, <3>2, BatchAndRest DEF Reading
    <3>5. RestAfter(todo[w]) \subseteq todo[w]
      BY DEF RestAfter
    <3> HIDE DEF batch
    <3>6. AuditTypeOK'
      BY <1>1, <2>4, <3>3, <3>5 DEF EnqueueBatch, AuditTypeOK, batch
    <3>7. ThreadOK(w)'
      BY <1>1, <2>4, <3>1, <3>4, <3>5 DEF EnqueueBatch, AuditTypeOK, ThreadOK, Alive, Reading, batch
    <3>8. \A v \in Workers \ {w} : ThreadOK(v)'
      BY <1>1, <2>4, OtherThreads DEF EnqueueBatch, AuditTypeOK
    <3> QED
      BY <3>6, <3>7, <3>8
  <2>5. CASE ListDone(w)
    <3>1. at[w] \in 1..Len(Lists)
      BY <1>1, <2>5 DEF ListDone, ThreadOK
    <3>2. AuditTypeOK'
      BY <1>1, <2>5, <3>1 DEF ListDone, AuditTypeOK
    <3>3. DomainsAt(Reading(w), {}) = {}
      BY DEF DomainsAt
    <3>4. ThreadOK(w)'
      <4>1. wpc[w] = "batch" /\ todo[w] = {} /\ wpc'[w] = "list" /\ at'[w] = at[w] + 1
            /\ UNCHANGED <<ref, stopped, owed, paid>>
        BY <1>1, <2>5 DEF ListDone, AuditTypeOK
      <4>2. owed[w] = paid[w] /\ (~stopped[w] => ref = w)
        BY <1>1, <3>3, <4>1 DEF ThreadOK, Alive
      <4> QED
        BY <1>1, <3>1, <4>1, <4>2 DEF ThreadOK
    <3>5. \A v \in Workers \ {w} : ThreadOK(v)'
      BY <1>1, <2>5, OtherThreads DEF ListDone, AuditTypeOK
    <3> QED
      BY <3>2, <3>4, <3>5
  <2>6. CASE CycleDone(w)
    <3>1. AuditTypeOK'
      BY <1>1, <2>6 DEF CycleDone, CompletedNow, AuditTypeOK
    <3>2. ThreadOK(w)'
      BY <1>1, <2>6 DEF CycleDone, AuditTypeOK, ThreadOK, Alive
    <3>3. \A v \in Workers \ {w} : ThreadOK(v)'
      BY <1>1, <2>6, OtherThreads DEF CycleDone, AuditTypeOK
    <3> QED
      BY <3>1, <3>2, <3>3
  <2> QED
    BY <2>1, <2>2, <2>3, <2>4, <2>5, <2>6 DEF AuditStep
<1> QED
  BY <1>2 DEF AuditIInv, ThreadOK, LinesToDo, CyclePays

(* A cycle that is given up leaves its thread at the top of its loop. *)
LEMMA CycleGivesUp ==
    ASSUME AuditIInv, NEW w \in Workers, CycleFails(w)
    PROVE  AuditIInv'
<1>1. AuditTypeOK /\ (\A v \in Workers : ThreadOK(v)) /\ Len(Lists) \in Nat
  BY ThreadByThread, ListNames
<1>2. AuditTypeOK'
  BY <1>1, AuditBounds DEF CycleFails, AuditFault, AuditTypeOK
<1>3. ThreadOK(w)'
  BY <1>1 DEF CycleFails, AuditFault, AuditTypeOK, ThreadOK, Alive
<1>4. \A v \in Workers \ {w} : ThreadOK(v)'
  BY <1>1, OtherThreads DEF CycleFails, AuditFault, AuditTypeOK
<1> QED
  BY <1>2, <1>3, <1>4 DEF AuditIInv, ThreadOK, LinesToDo, CyclePays

(* get_list_auditor starts a thread only when the last one it knows has    *)
(* ended or was told to stop.                                              *)
LEMMA AuditorStarted ==
    ASSUME AuditIInv, GetAuditor, UNCHANGED <<owed, paid, afaults>>,
           requests' \in 0..MaxRequests, completed' \in {"never", "recent", "old"}
    PROVE  AuditIInv'
<1>1. AuditTypeOK /\ (\A v \in Workers : ThreadOK(v)) /\ Len(Lists) \in Nat
  BY ThreadByThread, ListNames
<1>2. CASE ref # None /\ Alive(ref)
  <2>1. wake' = [wake EXCEPT ![ref] = TRUE] /\ UNCHANGED <<ref, wpc, stopped, at, todo>>
    BY <1>2 DEF GetAuditor
  <2>2. AuditTypeOK'
    BY <1>1, <2>1 DEF AuditTypeOK
  <2>3. \A v \in Workers : ThreadOK(v)'
    BY <1>1, <2>1 DEF ThreadOK, Alive, Reading
  <2> QED
    BY <2>2, <2>3 DEF AuditIInv, ThreadOK, LinesToDo, CyclePays
<1>3. CASE ~(ref # None /\ Alive(ref))
  <2>1. PICK w \in Workers : ~Alive(w) /\ Start(w)
    BY <1>3 DEF GetAuditor
  <2>2. AuditTypeOK'
    BY <1>1, <2>1 DEF AuditTypeOK, Start
  <2>3. \A v \in Workers : Alive(v) => stopped[v]
    BY <1>1, <1>3, NoneIsNoWorker DEF ThreadOK
  <2>4. ASSUME NEW v \in Workers PROVE ThreadOK(v)'
    <3>1. CASE v = w
      BY <1>1, <2>1, <3>1 DEF AuditTypeOK, Start, ThreadOK
    <3>2. CASE v # w
      <4>1. wpc'[v] = wpc[v] /\ stopped'[v] = stopped[v] /\ at'[v] = at[v] /\ todo'[v] = todo[v]
        BY <1>1, <2>1, <3>2 DEF AuditTypeOK, Start
      <4>2. Alive(v)' => stopped'[v]
        BY <2>3, <4>1 DEF Alive
      <4>3. ThreadOK(v)
        BY <1>1
      <4> QED
        BY <4>1, <4>2, <4>3 DEF ThreadOK, Reading
    <3> QED
      BY <3>1, <3>2
  <2> QED
    BY <2>2, <2>4 DEF AuditIInv, ThreadOK, LinesToDo, CyclePays
<1> QED
  BY <1>2, <1>3

(* The auditor's invariant is kept by what it does and what is done to it. *)
LEMMA AuditKept == AuditIInv /\ AuditNext => AuditIInv'
<1> SUFFICES ASSUME AuditIInv, AuditNext PROVE AuditIInv'
  OBVIOUS
<1>1. AuditTypeOK
  BY DEF AuditIInv
<1>2. CASE \E w \in Workers : AuditStep(w) \/ CycleFails(w)
  BY <1>2, ThreadSteps, CycleGivesUp
<1>3. CASE RequestAuditNow
  <2>1. requests' \in 0..MaxRequests
    BY <1>1, <1>3, AuditBounds DEF RequestAuditNow, AuditTypeOK
  <2> QED
    BY <1>3, <2>1, AuditorStarted DEF RequestAuditNow
<1>4. CASE SaveAuditOptions
  <2>1. requests' \in 0..MaxRequests /\ completed' \in {"never", "recent", "old"}
    BY <1>1, <1>4, AuditBounds DEF SaveAuditOptions, AuditTypeOK
  <2> QED
    BY <1>4, <2>1, AuditorStarted DEF SaveAuditOptions
<1>5. CASE StopAuditor
  <2>1. AuditTypeOK'
    BY <1>1, <1>5, AuditBounds DEF StopAuditor, AuditFault, AuditTypeOK
  <2>2. \A v \in Workers : Alive(v)' => stopped'[v]
    BY <1>1, <1>5 DEF StopAuditor, AuditTypeOK, AuditIInv, Alive
  <2> QED
    BY <1>5, <2>1, <2>2 DEF StopAuditor, AuditIInv, LinesToDo, CyclePays, Reading
<1>6. CASE IntervalPasses
  BY <1>1, <1>6 DEF IntervalPasses, AuditTypeOK, AuditIInv, LinesToDo, CyclePays, Reading, Alive
<1> QED
  BY <1>2, <1>3, <1>4, <1>5, <1>6 DEF AuditNext

(* Steps that do not touch the auditor keep its invariant. *)
LEMMA AuditUntouched == AuditIInv /\ UNCHANGED auditVars => AuditIInv'
BY DEF AuditIInv, auditVars, AuditTypeOK, LinesToDo, CyclePays, Reading, Alive

(* What an auditor writes to the database are domains. *)
LEMMA AuditStoreKept ==
    ASSUME StoreTypeOK, AuditIInv, AuditNext
    PROVE  StoreTypeOK' /\ known \subseteq known' /\ UNCHANGED classified
<1>1. CASE \E w \in Workers : EnqueueBatch(w)
  <2>1. PICK w \in Workers : EnqueueBatch(w)
    BY <1>1
  <2> DEFINE batch == DomainsAt(Reading(w), {i \in todo[w] : Place(i, todo[w]) <= AuditBatch})
  <2>2. todo[w] \subseteq FirstLines(Reading(w))
    BY <2>1 DEF AuditIInv, LinesToDo, EnqueueBatch
  <2>3. batch \subseteq Domains
    BY <2>2, LinesNameDomains
  <2>4. /\ known' = known \/ known' = known \cup batch
        /\ staged' = staged \/ staged' = staged \cup (batch \ Locked)
        /\ UNCHANGED <<classified, due, scanOn, auditOn>>
    BY <2>1 DEF EnqueueBatch
  <2> HIDE DEF batch
  <2> QED
    BY <2>3, <2>4 DEF StoreTypeOK
<1>2. CASE UNCHANGED store
  BY <1>2 DEF store, StoreTypeOK
<1> QED
  BY <1>1, <1>2 DEF AuditNext, AuditStep, Top, IdleEnds, ReadList, ListDone, CycleDone,
     CycleFails, RequestAuditNow, SaveAuditOptions, StopAuditor, IntervalPasses

-----------------------------------------------------------------------------
(* Numbers, pages and cursors. *)

(* A nonempty set of naturals has a least element. *)
LEMMA LeastOfNaturals ==
    ASSUME NEW S \in SUBSET Nat, S # {}
    PROVE  \E x \in S : \A y \in S : x <= y
<1> DEFINE Less == OpToRel(<, Nat)
<1> HIDE DEF Less
<1>1. IsWellFoundedOn(Less, Nat)
  BY NatLessThanWellFounded DEF Less
<1>2. PICK x \in S : \A y \in S : ~(<<y, x>> \in Less)
  BY <1>1, WFMin
<1>3. \A m, n \in Nat : m < n => <<m, n>> \in Less
  BY Zenon DEF OpToRel, Less
<1>4. \A y \in S : ~(y < x)
  BY <1>2, <1>3, Zenon
<1> QED
  BY <1>4

(* A set of naturals up to a bound has a largest element. *)
LEMMA LargestOfNaturals ==
    ASSUME NEW S \in SUBSET Nat, S # {}, NEW n \in Nat, \A x \in S : x <= n
    PROVE  Max(S) \in S /\ \A y \in S : y <= Max(S)
<1> DEFINE Gaps == {n - x : x \in S}
<1>1. \A x \in S : n - x \in Nat
  OBVIOUS
<1>2. PICK g \in Gaps : \A e \in Gaps : g <= e
  BY <1>1, LeastOfNaturals
<1>3. PICK x \in S : g = n - x
  OBVIOUS
<1>4. ASSUME NEW y \in S PROVE x >= y
  <2>1. n - x <= n - y
    BY <1>2, <1>3
  <2>2. x \in Nat /\ y \in Nat
    OBVIOUS
  <2> HIDE DEF Gaps
  <2> QED
    BY <2>1, <2>2
<1> QED
  BY <1>4 DEF Max

(* The rows of a page, and what a page that is not everything leaves out. *)
LEMMA PageRows ==
    ASSUME NEW n, NEW lo, NEW hi, NEW p \in Page(n, lo, hi)
    PROVE  /\ \A q \in p : q \in Logged /\ lo <= time[q] /\ time[q] <= hi
           /\ \A q \in Logged \ p : (lo <= time[q] /\ time[q] <= hi)
                => Cardinality(p) = n /\ \A r \in p : time[r] >= time[q]
<1> DEFINE window == {q \in Logged : lo <= time[q] /\ time[q] <= hi}
<1>1. \/ p = window
      \/ /\ p \in SUBSET window /\ Cardinality(p) = n
         /\ \A a \in p, b \in window \ p : time[a] >= time[b]
  BY DEF Page, Newest, kSubset
<1> QED
  BY <1>1

(* The cursor moves over every row of the page, to a tick after the newest. *)
LEMMA CursorMoves ==
    ASSUME ScanTypeOK, ClockOK, page # {}, \A q \in page : time[q] > from
    PROVE  /\ CursorAfter(page) \in Nat /\ CursorAfter(page) <= now + 1
           /\ \A q \in page : time[q] < CursorAfter(page)
           /\ from < CursorAfter(page)
           /\ \E r \in page : CursorAfter(page) = time[r] + 1
<1> DEFINE S == {from} \cup {time[q] + 1 : q \in page}
<1>1. now \in Nat /\ from \in Nat /\ page \subseteq Logged /\ \A q \in page : time[q] \in Nat /\ time[q] <= now
  BY ScanBounds DEF ScanTypeOK, ClockOK, Logged
<1>2. S \in SUBSET Nat /\ S # {} /\ (\A x \in S : x <= now + 1) /\ now + 1 \in Nat
  BY <1>1 DEF ClockOK
<1>3. Max(S) \in S /\ \A y \in S : y <= Max(S)
  BY <1>2, LargestOfNaturals
<1>4. CursorAfter(page) = Max(S)
  BY DEF CursorAfter
<1> HIDE DEF S
<1>5. \A q \in page : time[q] + 1 \in S
  BY DEF S
<1> DEFINE m == Max(S)
<1>m. m \in S /\ m \in Nat /\ \A y \in S : y <= m
  BY <1>2, <1>3
<1> HIDE DEF m
<1>6. \A q \in page : time[q] < m /\ from < m
  <2> TAKE q \in page
  <2>1. time[q] + 1 <= m
    BY <1>5, <1>m
  <2> QED
    BY <1>1, <1>m, <2>1
<1>7. m # from
  BY <1>1, <1>6
<1>8. \E r \in page : m = time[r] + 1
  BY <1>7, <1>m DEF S
<1> QED
  BY <1>2, <1>4, <1>6, <1>8, <1>m DEF m

-----------------------------------------------------------------------------
(* The scanner's invariant. *)

(* The log and what has been counted only grow. *)
Grown ==
    /\ now <= now' /\ now' \in Nat
    /\ \A q \in Logged : q \in Logged' /\ time'[q] = time[q] /\ count[q] <= count'[q]

(* A cursor that was reached stays reached. *)
LEMMA StaysReached ==
    ASSUME ScanTypeOK, Grown, count' \in [Queries -> Nat], NEW c \in Nat, Reached(c)
    PROVE  Reached(c)'
<1>1. now \in Nat
  BY DEF ScanTypeOK
<1>2. CASE c < now
  BY <1>1, <1>2 DEF Reached, Grown
<1>3. CASE \E r \in Logged : count[r] > 0 /\ time[r] = c - 1
  <2>1. PICK r \in Logged : count[r] > 0 /\ time[r] = c - 1
    BY <1>3
  <2>2. r \in Logged' /\ time'[r] = c - 1 /\ count'[r] > 0
    <3>1. count[r] \in Nat /\ count'[r] \in Nat
      BY DEF ScanTypeOK, Logged
    <3> QED
      BY <2>1, <3>1 DEF Grown
  <2> QED
    BY <2>2 DEF Reached
<1> QED
  BY <1>2, <1>3 DEF Reached

(* A query that is tied to a counted one stays tied. *)
LEMMA StaysTied ==
    ASSUME ScanTypeOK, Grown, count' \in [Queries -> Nat], NEW q \in Logged, Tied(q)
    PROVE  Tied(q)'
<1>1. PICK r \in Logged : count[r] > 0 /\ time[q] - time[r] \in {0, 1}
  BY DEF Tied
<1>2. count[r] \in Nat /\ count'[r] \in Nat
  BY DEF ScanTypeOK, Logged
<1>3. r \in Logged' /\ time'[r] = time[r] /\ count'[r] > 0 /\ q \in Logged' /\ time'[q] = time[q]
  BY <1>1, <1>2 DEF Grown
<1> QED
  BY <1>1, <1>3 DEF Tied, Logged

(* A fresh program has counted nothing and skips what is too old. *)
LEMMA ScanStarts == ScanInit => ScanIInv
<1> SUFFICES ASSUME ScanInit PROVE ScanIInv
  OBVIOUS
<1>1. /\ now = History /\ time \in [Queries -> 0..now \cup {None}] /\ spc = "top"
      /\ from = now - Lookback /\ savedFrom = None /\ page = {} /\ liveAt = now /\ until = None
      /\ doneAt = 0 /\ count = [q \in Queries |-> 0] /\ recounts = 0
      /\ skipped = {q \in Queries : time[q] # None /\ time[q] <= from}
      /\ asOf = 0 /\ top = 0 /\ sfaults = 0
  BY DEF ScanInit
<1>2. History \in Nat /\ Lookback \in Nat /\ Lookback > 0 /\ Lookback <= History /\ MaxTime \in Nat
      /\ History <= MaxTime /\ MaxScanFaults \in Nat
  BY Windows, ScanBounds
<1>3. \A q \in Logged : q \in Queries /\ time[q] \in 0..now
  BY <1>1 DEF Logged
<1>4. ScanTypeOK
  <2>1. time \in [Queries -> 0..MaxTime \cup {None}]
    BY <1>1, <1>2
  <2>2. count \in [Queries -> Nat]
    BY <1>1
  <2> QED
    BY <1>1, <1>2, <2>1, <2>2 DEF ScanTypeOK
<1>5. ClockOK
  BY <1>1, <1>2, <1>3 DEF ClockOK
<1>6. CursorsReached
  BY <1>1, <1>2 DEF CursorsReached, Reached
<1>7. PageAhead /\ NothingBetween
  BY <1>1 DEF PageAhead, NothingBetween
<1>8. CountedAhead /\ UnaskedUncounted /\ CountedOnce
  BY <1>1 DEF CountedAhead, UnaskedUncounted, CountedOnce, Logged
<1>9. Behind
  BY <1>1 DEF Behind, Logged
<1> QED
  BY <1>4, <1>5, <1>6, <1>7, <1>8, <1>9 DEF ScanIInv

(* A new row of the log is the newest, and lies ahead of the cursor or in   *)
(* an instant the cursor has already reached.                               *)
LEMMA AskKept ==
    ASSUME ScanIInv, NEW q \in Queries, Ask(q)
    PROVE  ScanIInv'
<1>1. /\ time[q] = None /\ time' = [time EXCEPT ![q] = now]
      /\ UNCHANGED <<now, spc, from, savedFrom, page, liveAt, until, doneAt, count,
                     recounts, skipped, asOf, top, sfaults>>
  BY DEF Ask
<1>2. ScanTypeOK /\ ClockOK /\ CursorsReached /\ PageAhead /\ NothingBetween
      /\ CountedAhead /\ UnaskedUncounted /\ CountedOnce /\ Behind
  BY DEF ScanIInv
<1>3. q \notin Logged /\ count[q] = 0 /\ now \in 0..MaxTime /\ MaxTime \in Nat /\ from \in Nat
  BY <1>1, <1>2, ScanBounds DEF Logged, ScanTypeOK, UnaskedUncounted
<1>4. /\ \A r \in Logged : r \in Logged' /\ time'[r] = time[r]
      /\ time'[q] = now
      /\ \A r \in Logged' : r \in Logged \/ r = q
      /\ Logged' \subseteq Queries
  BY <1>1, <1>2, <1>3 DEF Logged, ScanTypeOK
<1>5. ScanTypeOK'
  <2>1. time' \in [Queries -> 0..MaxTime \cup {None}]
    BY <1>1, <1>2, <1>3 DEF ScanTypeOK
  <2>2. page' \subseteq Logged'
    BY <1>1, <1>2, <1>4 DEF ScanTypeOK
  <2> QED
    BY <1>1, <1>2, <2>1, <2>2 DEF ScanTypeOK
<1>6. Grown
  BY <1>1, <1>2, <1>3, <1>4 DEF Grown, ScanTypeOK
<1>7. ClockOK'
  BY <1>1, <1>2, <1>3, <1>4 DEF ClockOK
<1>8. CursorsReached'
  <2>1. Reached(from)'
    BY <1>1, <1>2, <1>3, <1>5, <1>6, StaysReached DEF CursorsReached, ScanTypeOK
  <2>2. savedFrom' # None => Reached(savedFrom)'
    BY <1>1, <1>2, <1>3, <1>5, <1>6, StaysReached DEF CursorsReached, ScanTypeOK
  <2> QED
    BY <2>1, <2>2 DEF CursorsReached
<1>9. PageAhead'
  BY <1>1, <1>2, <1>4 DEF PageAhead, ScanTypeOK
<1>10. NothingBetween'
  BY <1>1, <1>2, <1>3, <1>4 DEF NothingBetween, ScanTypeOK, ClockOK
<1>11. CountedAhead' /\ CountedOnce'
  BY <1>1, <1>2, <1>3, <1>4 DEF CountedAhead, CountedOnce, ScanTypeOK
<1>12. UnaskedUncounted'
  BY <1>1, <1>2, <1>3, <1>4 DEF UnaskedUncounted, ScanTypeOK
<1>13. Behind'
  <2>1. ASSUME NEW r \in Logged' \ skipped', time'[r] <= from' PROVE count'[r] > 0 \/ Tied(r)'
    <3>1. CASE r \in Logged
      BY <1>1, <1>2, <1>4, <1>5, <1>6, <2>1, <3>1, StaysTied DEF Behind, ScanTypeOK
    <3>2. CASE r = q
      <4>1. PICK x \in Logged : count[x] > 0 /\ time[x] = from - 1
        BY <1>1, <1>2, <1>3, <1>4, <2>1, <3>2 DEF CursorsReached, Reached
      <4>2. time'[r] = now /\ time'[x] = from - 1 /\ x \in Logged' /\ count'[x] > 0
        BY <1>1, <1>4, <3>2, <4>1
      <4>3. now <= from /\ from <= now + 1
        BY <1>1, <1>2, <1>4, <2>1, <3>2 DEF ClockOK
      <4>4. time'[r] - time'[x] \in {0, 1}
        BY <1>3, <4>2, <4>3
      <4> QED
        BY <2>1, <4>2, <4>4 DEF Tied, Logged
    <3> QED
      BY <1>4, <2>1, <3>1, <3>2
  <2> QED
    BY <2>1 DEF Behind
<1> QED
  BY <1>5, <1>7, <1>8, <1>9, <1>10, <1>11, <1>12, <1>13 DEF ScanIInv
(* A step that leaves the log, the counts and the cursors alone keeps what  *)
(* is known of them, whatever becomes of the page.                          *)
LEMMA QuietStep ==
    ASSUME ScanIInv, ScanTypeOK', ClockOK', now <= now',
           UNCHANGED <<time, count, from, savedFrom, skipped>>, recounts <= recounts',
           \/ UNCHANGED <<page, spc>>
           \/ /\ spc' \notin Holding
              /\ page = {} \/ spc \notin {"recorded", "queued"} \/ recounts' = recounts + 1
           \/ spc = "recorded" /\ spc' = "queued" /\ page' = page
    PROVE  ScanIInv'
<1>1. ScanTypeOK /\ ClockOK /\ CursorsReached /\ PageAhead /\ NothingBetween
      /\ CountedAhead /\ UnaskedUncounted /\ CountedOnce /\ Behind
  BY DEF ScanIInv
<1>2. Logged' = Logged /\ Logged \subseteq Queries /\ count \in [Queries -> Nat]
      /\ recounts \in Nat /\ recounts' \in Nat
  BY <1>1 DEF Logged, ScanTypeOK
<1>3. Grown
  BY <1>2 DEF Grown, ScanTypeOK
<1>4. CursorsReached'
  BY <1>1, <1>3, StaysReached DEF CursorsReached, ScanTypeOK
<1>5. PageAhead'
  BY <1>1 DEF PageAhead, Holding
<1>6. NothingBetween'
  BY <1>1, <1>2 DEF NothingBetween, Holding
<1>7. CountedOnce' /\ UnaskedUncounted'
  BY <1>1, <1>2 DEF CountedOnce, UnaskedUncounted
<1>8. CountedAhead'
  <2>1. ASSUME NEW q \in Logged, time[q] > from, ~(spc' \in {"recorded", "queued"} /\ q \in page')
        PROVE  count[q] <= recounts'
    <3>1. CASE spc \in {"recorded", "queued"} /\ q \in page
      <4>1. recounts' = recounts + 1
        BY <2>1, <3>1
      <4>2. count[q] <= 1 + recounts
        BY <1>1, <1>2 DEF CountedOnce
      <4> QED
        BY <1>2, <4>1, <4>2
    <3>2. CASE ~(spc \in {"recorded", "queued"} /\ q \in page)
      <4>1. count[q] <= recounts
        BY <1>1, <2>1, <3>2 DEF CountedAhead
      <4> QED
        BY <1>2, <4>1
    <3> QED
      BY <3>1, <3>2
  <2> QED
    BY <1>2, <2>1 DEF CountedAhead
<1>9. Behind'
  BY <1>1, <1>2 DEF Behind, Tied, Logged
<1> QED
  BY <1>4, <1>5, <1>6, <1>7, <1>8, <1>9 DEF ScanIInv

(* The clock advances. *)
LEMMA TickKept == ScanIInv /\ Tick => ScanIInv'
<1> SUFFICES ASSUME ScanIInv, Tick PROVE ScanIInv'
  OBVIOUS
<1>1. /\ now < MaxTime /\ now' = now + 1
      /\ UNCHANGED <<time, spc, from, savedFrom, page, liveAt, until, doneAt, count,
                     recounts, skipped, asOf, top, sfaults>>
  BY DEF Tick
<1>2. ScanTypeOK /\ ClockOK /\ Logged' = Logged
  BY <1>1 DEF ScanIInv, Logged
<1>3. ScanTypeOK'
  BY <1>1, <1>2, ScanBounds DEF ScanTypeOK
<1>4. ClockOK'
  <2>1. now \in Nat /\ (\A q \in Logged : time[q] \in Nat) /\ from \in Nat /\ History \in Nat
        /\ (savedFrom # None => savedFrom \in Nat) /\ (until # None => until \in Int)
        /\ liveAt \in Nat /\ doneAt \in Nat /\ asOf \in Nat
    BY <1>2, Windows DEF ScanTypeOK, Logged
  <2> QED
    BY <1>1, <1>2, <2>1 DEF ClockOK
<1>5. now <= now' /\ recounts <= recounts'
  BY <1>1, <1>2 DEF ScanTypeOK
<1> QED
  BY <1>1, <1>3, <1>4, <1>5, QuietStep

(* A page is fetched: what lies ahead of the cursor is in it or skipped. *)
LEMMA FetchKept == ScanIInv /\ ScanFetch => ScanIInv'
<1> SUFFICES ASSUME ScanIInv, ScanFetch PROVE ScanIInv'
  OBVIOUS
<1>1. PICK rows \in Page(BatchSize, RequestFrom, now) :
        /\ page' = NewRows(rows)
        /\ skipped' = IF rows = {} THEN skipped
                      ELSE skipped \cup ({q \in Logged : from < time[q]} \ rows)
  BY DEF ScanFetch
<1>2. /\ spc = "top" /\ spc' = "fetched"
      /\ UNCHANGED <<now, time, from, savedFrom, liveAt, until, doneAt, count,
                     recounts, asOf, top, sfaults>>
  BY DEF ScanFetch
<1>3. ScanTypeOK /\ ClockOK /\ CursorsReached /\ PageAhead /\ NothingBetween
      /\ CountedAhead /\ UnaskedUncounted /\ CountedOnce /\ Behind
  BY DEF ScanIInv
<1>4. Logged' = Logged /\ rows \subseteq Logged /\ page' \subseteq rows
      /\ (\A q \in page' : time[q] > from)
      /\ (\A q \in rows : time[q] > from => q \in page')
  BY <1>1, <1>2, PageRows DEF Logged, NewRows
<1>5. skipped \subseteq skipped' /\ skipped' \subseteq Queries
      /\ \A r \in page', q \in Logged \ skipped' : time[q] > from => q \in page'
  BY <1>1, <1>3, <1>4 DEF ScanTypeOK, Logged
<1>6. ScanTypeOK'
  BY <1>2, <1>3, <1>4, <1>5 DEF ScanTypeOK
<1>7. ClockOK'
  BY <1>2, <1>3, <1>4 DEF ClockOK
<1>8. CursorsReached'
  BY <1>2, <1>3, <1>4 DEF CursorsReached, Reached
<1>9. PageAhead' /\ NothingBetween'
  BY <1>2, <1>4, <1>5 DEF PageAhead, NothingBetween
<1>10. CountedAhead' /\ UnaskedUncounted' /\ CountedOnce'
  BY <1>2, <1>3, <1>4 DEF CountedAhead, UnaskedUncounted, CountedOnce
<1>11. Behind'
  BY <1>2, <1>3, <1>4, <1>5 DEF Behind, Tied
<1> QED
  BY <1>6, <1>7, <1>8, <1>9, <1>10, <1>11 DEF ScanIInv

(* The page is counted: no row of it was counted more often than cycles     *)
(* have failed.                                                             *)
LEMMA RecordKept == ScanIInv /\ ScanRecord => ScanIInv'
<1> SUFFICES ASSUME ScanIInv, ScanRecord PROVE ScanIInv'
  OBVIOUS
<1>1. /\ spc = "fetched" /\ spc' = "recorded"
      /\ count' = [q \in Queries |-> IF q \in page THEN count[q] + 1 ELSE count[q]]
      /\ UNCHANGED <<now, time, from, savedFrom, page, liveAt, until, doneAt,
                     recounts, skipped, asOf, top, sfaults>>
  BY DEF ScanRecord
<1>2. ScanTypeOK /\ ClockOK /\ CursorsReached /\ PageAhead /\ NothingBetween
      /\ CountedAhead /\ UnaskedUncounted /\ CountedOnce /\ Behind
  BY DEF ScanIInv
<1>3. Logged' = Logged /\ page \subseteq Logged /\ Logged \subseteq Queries /\ recounts \in Nat
      /\ \A q \in Queries : count[q] \in Nat
  BY <1>1, <1>2 DEF Logged, ScanTypeOK
<1>4. \A q \in Queries : /\ count'[q] \in Nat /\ count[q] <= count'[q]
                         /\ q \in page => count'[q] = count[q] + 1
                         /\ q \notin page => count'[q] = count[q]
  BY <1>1, <1>3
<1>5. ScanTypeOK'
  <2>1. count' \in [Queries -> Nat]
    BY <1>1, <1>3
  <2> QED
    BY <1>1, <1>2, <1>3, <2>1 DEF ScanTypeOK
<1>6. Grown
  BY <1>1, <1>2, <1>3, <1>4 DEF Grown, ScanTypeOK
<1>7. ClockOK'
  BY <1>1, <1>2, <1>3 DEF ClockOK
<1>8. CursorsReached'
  BY <1>1, <1>2, <1>5, <1>6, StaysReached DEF CursorsReached, ScanTypeOK
<1>9. PageAhead' /\ NothingBetween'
  BY <1>1, <1>2, <1>3, <1>4 DEF PageAhead, NothingBetween, Holding
<1>10. CountedAhead' /\ UnaskedUncounted'
  BY <1>1, <1>2, <1>3, <1>4 DEF CountedAhead, UnaskedUncounted
<1>11. CountedOnce'
  <2>1. ASSUME NEW q \in Queries PROVE count'[q] <= 1 + recounts
    <3>1. CASE q \in page
      <4>1. count[q] <= recounts
        BY <1>1, <1>2, <1>3, <3>1 DEF CountedAhead, PageAhead, Holding
      <4> QED
        BY <1>3, <1>4, <3>1, <4>1
    <3>2. CASE q \notin page
      BY <1>2, <1>4, <3>2 DEF CountedOnce
    <3> QED
      BY <3>1, <3>2
  <2> QED
    BY <1>1, <2>1 DEF CountedOnce
<1>12. Behind'
  <2>1. ASSUME NEW q \in Logged \ skipped, time[q] <= from PROVE count'[q] > 0 \/ Tied(q)'
    <3>1. CASE count[q] > 0
      BY <1>3, <1>4, <3>1
    <3>2. CASE Tied(q)
      BY <1>2, <1>5, <1>6, <3>2, StaysTied DEF ScanTypeOK
    <3> QED
      BY <1>2, <2>1, <3>1, <3>2 DEF Behind
  <2> QED
    BY <1>1, <1>3, <2>1 DEF Behind
<1> QED
  BY <1>5, <1>7, <1>8, <1>9, <1>10, <1>11, <1>12 DEF ScanIInv

(* The domains of the page are staged. *)
LEMMA QueueKept == ScanIInv /\ ScanQueue => ScanIInv'
<1> SUFFICES ASSUME ScanIInv, ScanQueue PROVE ScanIInv'
  OBVIOUS
<1>1. /\ spc = "recorded" /\ spc' = "queued"
      /\ UNCHANGED <<now, time, from, savedFrom, page, liveAt, until, doneAt, count,
                     recounts, skipped, asOf, top, sfaults>>
  BY DEF ScanQueue
<1>2. ScanTypeOK' /\ ClockOK'
  BY <1>1 DEF ScanIInv, ScanTypeOK, ClockOK, Logged
<1>3. now <= now' /\ recounts <= recounts'
  BY <1>1 DEF ScanIInv, ScanTypeOK
<1> QED
  BY <1>1, <1>2, <1>3, QuietStep
(* The cursor moves to a tick after the newest row of a counted page: what  *)
(* it passes was counted, is skipped, or shares that instant.               *)
LEMMA CursorMoveKept ==
    ASSUME ScanIInv, spc = "queued", page # {}, from' = CursorAfter(page), spc' \in {"top", "recheck"},
           page' = {}, savedFrom' \in {savedFrom, from'}, liveAt' \in {liveAt, now},
           recounts' \in Nat, recounts <= recounts', sfaults' \in 0..MaxScanFaults,
           UNCHANGED <<now, time, until, doneAt, count, skipped, asOf, top>>
    PROVE  ScanIInv'
<1>2. ScanTypeOK /\ ClockOK /\ CursorsReached /\ PageAhead /\ NothingBetween
      /\ CountedAhead /\ UnaskedUncounted /\ CountedOnce /\ Behind
  BY DEF ScanIInv
<1>3. Logged' = Logged /\ page \subseteq Logged /\ Logged \subseteq Queries /\ recounts \in Nat
      /\ (\A q \in Queries : count[q] \in Nat) /\ (\A q \in Logged : time[q] \in Nat)
      /\ now \in Nat /\ from \in Nat
  BY <1>2 DEF Logged, ScanTypeOK
<1>4. /\ from' \in Nat /\ from' <= now + 1 /\ from < from'
      /\ \A q \in page : time[q] < from' /\ count[q] > 0 /\ from < time[q]
  BY <1>2, CursorMoves DEF PageAhead, Holding
<1>5. PICK r \in page : from' = time[r] + 1
  BY <1>2, CursorMoves DEF PageAhead, Holding
<1>6. ScanTypeOK'
  <2>1. from' \in 0..(MaxTime + 1)
    BY <1>2, <1>4, ScanBounds DEF ScanTypeOK
  <2> QED
    BY <1>2, <1>3, <2>1 DEF ScanTypeOK
<1>7. ClockOK'
  BY <1>2, <1>3, <1>4 DEF ClockOK
<1>8. CursorsReached'
  <2>1. Reached(from)'
    BY <1>3, <1>4, <1>5 DEF Reached
  <2>2. savedFrom # None => Reached(savedFrom)
    BY <1>2 DEF CursorsReached
  <2>3. savedFrom' # None => Reached(savedFrom)'
    BY <1>3, <2>1, <2>2 DEF Reached
  <2> QED
    BY <2>1, <2>3 DEF CursorsReached
<1>9. PageAhead' /\ NothingBetween'
  BY DEF PageAhead, NothingBetween, Holding
<1>10. CountedAhead'
  <2>1. ASSUME NEW q \in Logged, time[q] > from' PROVE count[q] <= recounts'
    <3>1. q \notin page /\ time[q] > from
      BY <1>3, <1>4, <2>1
    <3>2. count[q] <= recounts
      BY <1>2, <3>1 DEF CountedAhead
    <3> QED
      BY <1>3, <3>2
  <2> QED
    BY <1>3, <2>1 DEF CountedAhead
<1>11. UnaskedUncounted' /\ CountedOnce'
  BY <1>2, <1>3 DEF UnaskedUncounted, CountedOnce
<1>12. Behind'
  <2>1. ASSUME NEW q \in Logged \ skipped, time[q] <= from' PROVE count[q] > 0 \/ Tied(q)
    <3>1. CASE time[q] <= from
      BY <1>2, <3>1 DEF Behind
    <3>2. CASE q \in page
      BY <1>4, <3>2
    <3>3. CASE time[q] > from /\ q \notin page
      <4>1. time[r] <= time[q]
        BY <1>2, <3>3 DEF NothingBetween, Holding
      <4>2. time[q] - time[r] \in {0, 1}
        BY <1>3, <1>5, <2>1, <4>1
      <4> QED
        BY <1>3, <1>4, <4>2 DEF Tied, Logged
    <3> QED
      BY <1>3, <3>1, <3>2, <3>3
  <2>2. \A q : Tied(q)' <=> Tied(q)
    BY <1>3 DEF Tied
  <2> QED
    BY <1>3, <2>1, <2>2 DEF Behind
<1> QED
  BY <1>6, <1>7, <1>8, <1>9, <1>10, <1>11, <1>12 DEF ScanIInv

(* The end of a cycle. *)
LEMMA AdvanceKept == ScanIInv /\ ScanAdvance => ScanIInv'
<1> SUFFICES ASSUME ScanIInv, ScanAdvance PROVE ScanIInv'
  OBVIOUS
<1>1. /\ spc = "queued" /\ spc' = "recheck" /\ page' = {}
      /\ from' = IF page = {} THEN from ELSE CursorAfter(page)
      /\ savedFrom' = IF page = {} THEN savedFrom ELSE from'
      /\ liveAt' = IF page = {} THEN liveAt ELSE now
      /\ UNCHANGED <<now, time, until, doneAt, count, recounts, skipped, asOf, top, sfaults>>
  BY DEF ScanAdvance
<1>2. ScanTypeOK
  BY DEF ScanIInv
<1>3. CASE page = {}
  <2>1. ScanTypeOK' /\ ClockOK' /\ now <= now' /\ recounts <= recounts'
    BY <1>1, <1>3 DEF ScanIInv, ScanTypeOK, ClockOK, Logged
  <2> QED
    BY <1>1, <1>3, <2>1, QuietStep DEF Holding
<1>4. CASE page # {}
  BY <1>1, <1>2, <1>4, CursorMoveKept DEF ScanTypeOK
<1> QED
  BY <1>3, <1>4

(* The cycle ends. *)
LEMMA RecheckKept == ScanIInv /\ ScanRecheck => ScanIInv'
<1> SUFFICES ASSUME ScanIInv, ScanRecheck PROVE ScanIInv'
  OBVIOUS
<1>1. /\ spc = "recheck" /\ spc' = "top"
      /\ UNCHANGED <<now, time, from, savedFrom, page, liveAt, until, doneAt, count,
                     recounts, skipped, asOf, top, sfaults>>
  BY DEF ScanRecheck
<1>2. ScanTypeOK' /\ ClockOK' /\ now <= now' /\ recounts <= recounts'
  BY <1>1 DEF ScanIInv, ScanTypeOK, ClockOK, Logged
<1> QED
  BY <1>1, <1>2, QuietStep DEF Holding

(* A page of the backfill. *)
LEMMA BackfillFetchKept == ScanIInv /\ BackfillFetch => ScanIInv'
<1> SUFFICES ASSUME ScanIInv, BackfillFetch PROVE ScanIInv'
  OBVIOUS
<1>1. /\ spc = "queued" /\ spc' = "backfill" /\ page = {}
      /\ page' \in Page(HistoryBatch, now - History, Resume)
      /\ asOf' = now /\ top' = IF Resume = now THEN now ELSE top
      /\ UNCHANGED <<now, time, from, savedFrom, liveAt, until, doneAt, count,
                     recounts, skipped, sfaults>>
  BY DEF BackfillFetch, BackfillDue
<1>2. ScanTypeOK /\ ClockOK
  BY DEF ScanIInv
<1>3. Logged' = Logged /\ page' \subseteq Logged
  BY <1>1, PageRows DEF Logged
<1>4. ScanTypeOK'
  BY <1>1, <1>2, <1>3 DEF ScanTypeOK
<1>5. ClockOK'
  BY <1>1, <1>2, <1>3 DEF ClockOK, ScanTypeOK
<1>6. now <= now' /\ recounts <= recounts'
  BY <1>1, <1>2 DEF ScanTypeOK
<1> QED
  BY <1>1, <1>4, <1>5, <1>6, QuietStep DEF Holding

(* The oldest row of a page. *)
LEMMA OldestRow ==
    ASSUME ScanTypeOK, page # {}
    PROVE  OldestOf(page) \in Nat /\ (\E r \in page : OldestOf(page) = time[r])
           /\ \A q \in page : OldestOf(page) <= time[q]
<1> DEFINE S == {time[q] : q \in page}
<1>1. S \in SUBSET Nat /\ S # {}
  BY DEF ScanTypeOK, Logged
<1>2. PICK x \in S : \A y \in S : x <= y
  BY <1>1, LeastOfNaturals
<1>3. Min(S) \in S /\ \A y \in S : Min(S) <= y
  BY <1>2 DEF Min
<1> QED
  BY <1>1, <1>3 DEF OldestOf

(* The steps after a page of the backfill move no cursor of the scanner. *)
LEMMA BackfillKept ==
    ScanIInv /\ FillIInv /\
                (\/ BackfillRecord \/ BackfillQueue \/ BackfillMove
                 \/ BackfillComplete \/ BackfillReset) => ScanIInv'
<1> SUFFICES ASSUME ScanIInv, FillIInv,
                    \/ BackfillRecord \/ BackfillQueue \/ BackfillMove
                    \/ BackfillComplete \/ BackfillReset
             PROVE  ScanIInv'
  OBVIOUS
<1>1. /\ spc \in {"backfill", "discovered", "enqueued", "filled", "completed"}
      /\ spc' \in {"discovered", "enqueued", "filled", "completed", "recheck"}
      /\ page' \in {page, {}}
      /\ until' \in {until, asOf} \/ (BackfillMove /\ until' = BelowPage(page))
      /\ doneAt' \in {doneAt, asOf} /\ liveAt' \in {liveAt, now}
      /\ UNCHANGED <<now, time, from, savedFrom, count, recounts, skipped, asOf, top, sfaults>>
  BY DEF BackfillRecord, BackfillQueue, BackfillMove, BackfillComplete, BackfillReset
<1>2. ScanTypeOK /\ ClockOK /\ Logged' = Logged
  BY <1>1 DEF ScanIInv, Logged
<1>3. BackfillMove => BelowPage(page) \in Int /\ BelowPage(page) <= now
  <2> SUFFICES ASSUME BackfillMove PROVE BelowPage(page) \in Int /\ BelowPage(page) <= now
    OBVIOUS
  <2>1. page # {}
    BY DEF BackfillMove, FillIInv, PageKnown
  <2>2. PICK r \in page : OldestOf(page) = time[r]
    BY <1>2, <2>1, OldestRow
  <2>3. OldestOf(page) \in Nat /\ OldestOf(page) <= now /\ now \in Nat
    BY <1>2, <2>1, <2>2, OldestRow DEF ScanTypeOK, ClockOK
  <2> QED
    BY <2>3 DEF BelowPage
<1>4. (until' # None => until' \in Int /\ until' <= now) /\ until' \in Int \cup {None}
  BY <1>1, <1>2, <1>3 DEF ScanTypeOK, ClockOK
<1>5. ScanTypeOK'
  BY <1>1, <1>2, <1>4 DEF ScanTypeOK
<1>6. ClockOK'
  <2>1. liveAt' <= now /\ doneAt' <= now
    BY <1>1, <1>2 DEF ClockOK, ScanTypeOK
  <2> QED
    BY <1>1, <1>2, <1>4, <2>1 DEF ClockOK
<1>7. now <= now' /\ recounts <= recounts' /\ spc' \notin Holding
  BY <1>1, <1>2 DEF ScanTypeOK, Holding
<1> QED
  BY <1>1, <1>5, <1>6, <1>7, QuietStep

(* A cycle fails, before or after it has moved the cursor in memory. *)
LEMMA FailKept == ScanIInv /\ ScanFails => ScanIInv'
<1> SUFFICES ASSUME ScanIInv, ScanFails PROVE ScanIInv'
  OBVIOUS
<1>1. /\ sfaults < MaxScanFaults /\ sfaults' = sfaults + 1
      /\ spc # "top" /\ spc' = "top" /\ page' = {}
      /\ from' = from \/ (spc = "queued" /\ page # {} /\ from' = CursorAfter(page))
      /\ recounts' = IF spc \in {"recorded", "queued"} /\ page # {} /\ from' = from
                     THEN recounts + 1 ELSE recounts
      /\ UNCHANGED <<now, time, savedFrom, liveAt, until, doneAt, count, skipped, asOf, top>>
  BY DEF ScanFails, ScanFault
<1>2. ScanTypeOK /\ ClockOK /\ recounts \in Nat
  BY DEF ScanIInv, ScanTypeOK
<1>3. sfaults' \in 0..MaxScanFaults /\ recounts' \in Nat /\ recounts <= recounts' /\ now <= now'
  BY <1>1, <1>2, ScanBounds DEF ScanTypeOK
<1>4. CASE from' = from
  <2>1. ScanTypeOK' /\ ClockOK'
    BY <1>1, <1>2, <1>3, <1>4 DEF ScanTypeOK, ClockOK, Logged
  <2>2. spc \notin {"recorded", "queued"} \/ page = {} \/ recounts' = recounts + 1
    BY <1>1, <1>2, <1>4 DEF ScanTypeOK
  <2> QED
    BY <1>1, <1>3, <1>4, <2>1, <2>2, QuietStep DEF Holding
<1>5. CASE spc = "queued" /\ page # {} /\ from' = CursorAfter(page)
  BY <1>1, <1>3, <1>5, CursorMoveKept
<1> QED
  BY <1>1, <1>4, <1>5

(* A restart: the cursor is the saved one, or looks back again.  What it    *)
(* steps back over may be counted again, and is noted as such.              *)
LEMMA RestartKept == ScanIInv /\ ScanRestart => ScanIInv'
<1> SUFFICES ASSUME ScanIInv, ScanRestart PROVE ScanIInv'
  OBVIOUS
<1>1. /\ sfaults < MaxScanFaults /\ sfaults' = sfaults + 1
      /\ spc' = "top" /\ page' = {}
      /\ from' = IF savedFrom # None /\ savedFrom > 0 /\ savedFrom <= now + 1
                 THEN savedFrom ELSE now - Lookback
      /\ recounts' = IF \E q \in Logged : count[q] > 0 /\ time[q] > from'
                     THEN recounts + 1 ELSE recounts
      /\ liveAt' = now
      /\ skipped' = skipped \cup {q \in Logged : time[q] <= from' /\ count[q] = 0}
      /\ UNCHANGED <<now, time, savedFrom, until, doneAt, count, asOf, top>>
  BY DEF ScanRestart, ScanFault
<1>2. ScanTypeOK /\ ClockOK /\ CursorsReached /\ CountedAhead /\ UnaskedUncounted /\ CountedOnce
  BY DEF ScanIInv
<1>3. Logged' = Logged /\ Logged \subseteq Queries /\ recounts \in Nat
      /\ (\A q \in Queries : count[q] \in Nat)
      /\ now \in 0..MaxTime /\ MaxTime \in Nat /\ Lookback \in Nat /\ Lookback > 0
      /\ History \in Nat /\ Lookback <= History /\ History <= now
  BY <1>1, <1>2, Windows, ScanBounds DEF Logged, ScanTypeOK, ClockOK
<1>4. from' \in 0..(MaxTime + 1) /\ from' <= now + 1 /\ Reached(from)'
  <2>1. CASE savedFrom # None /\ savedFrom > 0 /\ savedFrom <= now + 1
    BY <1>1, <1>2, <1>3, <2>1 DEF ScanTypeOK, CursorsReached, Reached
  <2>2. CASE ~(savedFrom # None /\ savedFrom > 0 /\ savedFrom <= now + 1)
    BY <1>1, <1>3, <2>2 DEF Reached
  <2> QED
    BY <2>1, <2>2
<1>5. ScanTypeOK'
  BY <1>1, <1>2, <1>3, <1>4, ScanBounds DEF ScanTypeOK
<1>6. ClockOK'
  BY <1>1, <1>2, <1>3, <1>4 DEF ClockOK
<1>7. CursorsReached'
  BY <1>1, <1>2, <1>3, <1>4 DEF CursorsReached, Reached
<1>8. PageAhead' /\ NothingBetween'
  BY <1>1 DEF PageAhead, NothingBetween, Holding
<1>9. CountedAhead'
  <2>1. ASSUME NEW q \in Logged, time[q] > from' PROVE count[q] <= recounts'
    <3>1. count[q] <= 1 + recounts /\ count[q] \in Nat
      BY <1>2, <1>3 DEF CountedOnce
    <3> QED
      BY <1>1, <1>3, <2>1, <3>1
  <2> QED
    BY <1>1, <1>3, <2>1 DEF CountedAhead
<1>10. UnaskedUncounted' /\ CountedOnce'
  BY <1>1, <1>2, <1>3 DEF UnaskedUncounted, CountedOnce
<1>11. Behind'
  BY <1>1, <1>3 DEF Behind
<1> QED
  BY <1>5, <1>6, <1>7, <1>8, <1>9, <1>10, <1>11 DEF ScanIInv

(* Whatever the scanner does, and whatever happens to it. *)
LEMMA ScanKept == ScanIInv /\ FillIInv /\ ScanNext => ScanIInv'
BY AskKept, TickKept, FetchKept, RecordKept, QueueKept, AdvanceKept, RecheckKept,
   BackfillFetchKept, BackfillKept, FailKept, RestartKept DEF ScanNext, ScanStep

(* Steps that do not touch the scanner keep its invariant. *)
LEMMA ScanUntouched == ScanIInv /\ UNCHANGED scanVars => ScanIInv'
BY DEF ScanIInv, scanVars, ScanTypeOK, ClockOK, CursorsReached, Reached, PageAhead, NothingBetween,
   CountedAhead, UnaskedUncounted, CountedOnce, Behind, Tied, Logged
-----------------------------------------------------------------------------
(* What the backfill has covered. *)

(* Steps that leave the log and the backfill alone. *)
LEMMA FillUntouched ==
    ASSUME ScanIInv, FillIInv, now \in Nat, now' \in Nat, now <= now', known \subseteq known',
           UNCHANGED <<time, until, top>>,
           spc' \in Filling \cup {"filled", "completed"} => UNCHANGED <<spc, page, asOf>>
    PROVE  FillIInv'
<1>1. Logged' = Logged /\ (until # None => until \in Int) /\ History \in Nat
  BY Windows DEF Logged, ScanIInv, ScanTypeOK
<1>2. \A t : KnownAbove(t) => KnownAbove(t)'
  BY <1>1 DEF KnownAbove, Alone
<1>3. (until' # None /\ until' > now' - History) => until # None /\ until > now - History
  BY <1>1
<1>4. spc' \in Filling => Resumed' = Resumed /\ \A q : LeftOut(q)' <=> LeftOut(q)
  BY DEF Resumed, LeftOut
<1>5. (until' # None /\ until' > now' - History) => KnownAbove(until)'
  BY <1>2, <1>3 DEF FillIInv
<1>6. ASSUME spc' \in Filling PROVE PageReaches'
  <2>1. PageReaches
    BY <1>6 DEF FillIInv
  <2>2. KnownAbove(Resumed)'
    BY <1>2, <1>4, <1>6, <2>1 DEF KnownAbove, PageReaches
  <2> QED
    BY <1>1, <1>4, <1>6, <2>1, <2>2 DEF PageReaches
<1>7. spc' \in {"discovered", "enqueued"} => PageKnown'
  BY DEF FillIInv, PageKnown, Filling
<1>8. ASSUME spc' \in {"filled", "completed"} PROVE WindowKnown'
  <2>1. WindowKnown /\ asOf' = asOf
    BY <1>8 DEF FillIInv
  <2> QED
    BY <1>2, <2>1 DEF WindowKnown, KnownAbove
<1> QED
  BY <1>5, <1>6, <1>7, <1>8 DEF FillIInv

(* A new row of the log is newer than every row the backfill is about. *)
LEMMA FillAsk ==
    ASSUME ScanIInv, FillIInv, NEW q \in Queries, Ask(q)
    PROVE  FillIInv'
<1>1. /\ time[q] = None /\ time' = [time EXCEPT ![q] = now]
      /\ UNCHANGED <<now, spc, page, until, asOf, top>> /\ known' = known
  BY DEF Ask, store
<1>2. ScanTypeOK /\ ClockOK
  BY DEF ScanIInv
<1>3. now \in Nat /\ asOf \in Nat /\ top \in Nat /\ top <= asOf /\ asOf <= now /\ page \subseteq Logged
  BY <1>2 DEF ScanTypeOK, ClockOK
<1>4. /\ \A r \in Logged : r \in Logged' /\ time'[r] = time[r] /\ r # q
      /\ time'[q] = now
      /\ \A r \in Logged' : r \in Logged \/ r = q
  BY <1>1, <1>2 DEF Logged, ScanTypeOK
<1>5. \A t : KnownAbove(t) => KnownAbove(t)'
  <2> SUFFICES ASSUME NEW t, KnownAbove(t), NEW r \in Logged', Alone(r)', t < time'[r], time'[r] < top
               PROVE  DomainOf[r] \in known
    BY <1>1 DEF KnownAbove
  <2>1. r # q
    BY <1>3, <1>4
  <2>2. r \in Logged /\ time'[r] = time[r]
    BY <1>4, <2>1
  <2>3. Alone(r)
    BY <1>4, <2>2 DEF Alone
  <2> QED
    BY <2>2, <2>3 DEF KnownAbove
<1>6. Resumed' = Resumed
  BY <1>1 DEF Resumed
<1>7. (until' # None /\ until' > now' - History) => KnownAbove(until)'
  BY <1>1, <1>5 DEF FillIInv
<1>8. ASSUME spc' \in Filling PROVE PageReaches'
  <2>1. KnownAbove(Resumed) /\ \A r \in Logged : LeftOut(r) =>
            Cardinality(page) = HistoryBatch /\ \A x \in page : time[r] <= time[x]
    BY <1>1, <1>8 DEF FillIInv, PageReaches
  <2>2. KnownAbove(Resumed)'
    BY <1>5, <1>6, <2>1 DEF KnownAbove
  <2>3. ASSUME NEW r \in Logged', LeftOut(r)' PROVE r \in Logged /\ LeftOut(r) /\ time'[r] = time[r]
    <3>1. r # q
      BY <1>1, <1>3, <1>4, <2>3 DEF LeftOut
    <3> QED
      BY <1>1, <1>4, <1>6, <2>3, <3>1 DEF LeftOut
  <2>4. \A x \in page : time'[x] = time[x]
    BY <1>3, <1>4
  <2> QED
    BY <1>1, <2>1, <2>2, <2>3, <2>4 DEF PageReaches
<1>9. spc' \in {"discovered", "enqueued"} => PageKnown'
  BY <1>1 DEF FillIInv, PageKnown
<1>10. ASSUME spc' \in {"filled", "completed"} PROVE WindowKnown'
  <2>1. WindowKnown /\ asOf' = asOf
    BY <1>1, <1>10 DEF FillIInv
  <2> QED
    BY <1>5, <2>1 DEF WindowKnown, KnownAbove
<1> QED
  BY <1>7, <1>8, <1>9, <1>10 DEF FillIInv

(* A page is fetched below the saved instant, or from now on if that one    *)
(* has left the window.                                                     *)
LEMMA FillFetch ==
    ASSUME ScanIInv, FillIInv, BackfillFetch
    PROVE  FillIInv'
<1>1. /\ spc' = "backfill"
      /\ page' \in Page(HistoryBatch, now - History, Resume)
      /\ asOf' = now /\ top' = IF Resume = now THEN now ELSE top
      /\ UNCHANGED <<now, time, until>> /\ known' = known
  BY DEF BackfillFetch, store
<1>2. ScanTypeOK /\ ClockOK
  BY DEF ScanIInv
<1>3. Logged' = Logged /\ now \in Nat /\ top \in Nat /\ History \in Nat /\ HistoryBatch \in Nat
      /\ (until # None => until \in Int /\ until <= now) /\ \A q \in Logged : time[q] \in Nat
  BY <1>1, <1>2, Windows, PageSizes DEF Logged, ScanTypeOK, ClockOK
<1>4. Resumed' = Resume
  BY <1>1 DEF Resumed, Resume
<1>5. KnownAbove(Resume)'
  <2>1. CASE Resume = now
    <3>1. Resume' = now /\ top' = now
      BY <1>1, <2>1 DEF Resume
    <3> QED
      BY <1>1, <1>3, <3>1 DEF KnownAbove
  <2>2. CASE Resume # now
    <3>1. until # None /\ until > now - History /\ Resume = until
      BY <2>2 DEF Resume
    <3>2. KnownAbove(until)
      BY <3>1 DEF FillIInv
    <3>3. KnownAbove(until)'
      BY <1>1, <1>3, <2>2, <3>2 DEF KnownAbove, Alone
    <3>4. Resume' = until'
      BY <1>1, <3>1 DEF Resume
    <3> QED
      BY <3>3, <3>4 DEF KnownAbove
  <2> QED
    BY <2>1, <2>2
<1>6. (until' # None /\ until' > now' - History) => KnownAbove(until)'
  <2> SUFFICES ASSUME until # None, until > now - History PROVE KnownAbove(until)'
    BY <1>1
  <2>1. Resume = until
    BY <1>3 DEF Resume
  <2>2. Resume' = until'
    BY <1>1, <2>1 DEF Resume
  <2> QED
    BY <1>5, <2>2 DEF KnownAbove
<1>7. \A q \in Logged' : LeftOut(q)' => /\ Cardinality(page') = HistoryBatch
                                        /\ \A r \in page' : time'[q] <= time'[r]
  <2> SUFFICES ASSUME NEW q \in Logged', LeftOut(q)'
               PROVE  Cardinality(page') = HistoryBatch /\ \A r \in page' : time'[q] <= time'[r]
    OBVIOUS
  <2>1. q \in Logged \ page' /\ now - History <= time[q] /\ time[q] <= Resume
    BY <1>1, <1>3, <1>4 DEF LeftOut
  <2>2. Cardinality(page') = HistoryBatch /\ \A r \in page' : time[r] >= time[q]
    BY <1>1, <2>1, PageRows
  <2>3. \A r \in page' : r \in Logged
    BY <1>1, PageRows
  <2> QED
    BY <1>1, <1>3, <2>1, <2>2, <2>3
<1>8. KnownAbove(Resumed)'
  <2>1. Resume' = Resume
    BY <1>1 DEF Resume
  <2> QED
    BY <1>4, <1>5, <2>1 DEF KnownAbove
<1> QED
  BY <1>1, <1>6, <1>7, <1>8 DEF FillIInv, PageReaches

(* A row of the window that stands alone in its instant is known once the   *)
(* domains of the page are, unless it lies below the page, and then the     *)
(* page was not the last.                                                   *)
LEMMA PageCovers ==
    ASSUME ScanIInv, PageReaches, \A r \in page : DomainOf[r] \in known, NEW q \in Logged,
           Alone(q), asOf - History < time[q], time[q] < top
    PROVE  DomainOf[q] \in known \/ (~LastPage(page) /\ time[q] <= BelowPage(page))
<1>2. ScanTypeOK /\ ClockOK
  BY DEF ScanIInv
<1>3. asOf \in Nat /\ top \in Nat /\ top <= asOf /\ History \in Nat /\ HistoryBatch \in Nat \ {0}
      /\ time[q] \in Nat /\ page \subseteq Logged
  BY <1>2, Windows, PageSizes DEF ScanTypeOK, ClockOK, Logged
<1>4. Resumed \in Int
  BY <1>2, <1>3 DEF Resumed, ScanTypeOK
<1>5. KnownAbove(Resumed) /\ (LeftOut(q) => /\ Cardinality(page) = HistoryBatch
                                            /\ \A r \in page : time[q] <= time[r])
  BY DEF PageReaches
<1>6. CASE q \in page
  BY <1>6
<1>7. CASE Resumed < time[q]
  BY <1>5, <1>7 DEF KnownAbove
<1>8. CASE q \notin page /\ time[q] <= Resumed
  <2>1. LeftOut(q)
    BY <1>3, <1>8 DEF LeftOut
  <2>2. Cardinality(page) = HistoryBatch /\ \A r \in page : time[q] <= time[r]
    BY <1>5, <2>1
  <2>3. page # {}
    BY <1>3, <2>2, FS_EmptySet
  <2>4. PICK r \in page : OldestOf(page) = time[r]
    BY <1>2, <2>3, OldestRow
  <2>5. time[q] # time[r] /\ time[r] \in Nat /\ time[q] <= time[r]
    BY <1>2, <1>3, <1>8, <2>2, <2>4 DEF Alone, ScanTypeOK, Logged
  <2>6. time[q] <= BelowPage(page) /\ BelowPage(page) \in Int
    BY <1>3, <2>4, <2>5 DEF BelowPage
  <2>7. ~(BelowPage(page) <= asOf - History)
    BY <1>3, <2>6
  <2>8. ~(Cardinality(page) < HistoryBatch)
    BY <1>3, <2>2
  <2> QED
    BY <2>3, <2>6, <2>7, <2>8 DEF LastPage
<1> QED
  BY <1>3, <1>4, <1>6, <1>7, <1>8

(* The domains of the page are made known and staged. *)
LEMMA FillStore ==
    ASSUME ScanIInv, FillIInv, BackfillRecord \/ BackfillQueue
    PROVE  FillIInv'
<1>1. /\ spc \in Filling /\ spc' \in {"discovered", "enqueued"}
      /\ UNCHANGED <<now, time, page, until, asOf, top>> /\ known \subseteq known'
  BY DEF BackfillRecord, BackfillQueue, Filling
<1>2. Logged' = Logged
  BY <1>1 DEF Logged
<1>3. \A t : KnownAbove(t) => KnownAbove(t)'
  BY <1>1, <1>2 DEF KnownAbove, Alone
<1>4. Resumed' = Resumed /\ \A q : LeftOut(q)' <=> LeftOut(q)
  BY <1>1 DEF Resumed, LeftOut
<1>5. (until' # None /\ until' > now' - History) => KnownAbove(until)'
  BY <1>1, <1>3 DEF FillIInv
<1>6. PageReaches'
  <2>1. PageReaches
    BY <1>1 DEF FillIInv
  <2>2. KnownAbove(Resumed)'
    BY <1>3, <1>4, <2>1 DEF KnownAbove, PageReaches
  <2> QED
    BY <1>1, <1>2, <1>4, <2>1, <2>2 DEF PageReaches
<1>7. PageKnown'
  BY DEF BackfillRecord, BackfillQueue, FillIInv, PageKnown
<1> QED
  BY <1>1, <1>5, <1>6, <1>7 DEF FillIInv

(* The cursor goes below the page. *)
LEMMA FillMove ==
    ASSUME ScanIInv, FillIInv, BackfillMove
    PROVE  FillIInv'
<1>1. /\ spc = "enqueued" /\ spc' = IF LastPage(page) THEN "filled" ELSE "recheck"
      /\ until' = BelowPage(page) /\ UNCHANGED <<now, time, asOf, top>> /\ known' = known
  BY DEF BackfillMove, store
<1>2. ScanTypeOK /\ ClockOK /\ PageReaches /\ PageKnown
  BY <1>1 DEF ScanIInv, FillIInv, Filling
<1>3. Logged' = Logged /\ asOf \in Nat /\ now \in Nat /\ asOf <= now /\ History \in Nat
      /\ \A q \in Logged : time[q] \in Nat
  BY <1>1, <1>2, Windows DEF Logged, ScanTypeOK, ClockOK
<1>4. BelowPage(page) \in Int
  BY <1>2, OldestRow DEF BelowPage, PageKnown
<1>5. (until' # None /\ until' > now' - History) => KnownAbove(until)'
  <2> SUFFICES ASSUME BelowPage(page) > now - History, NEW q \in Logged, Alone(q),
                      BelowPage(page) < time[q], time[q] < top
               PROVE  DomainOf[q] \in known
    BY <1>1, <1>3 DEF KnownAbove, Alone
  <2>1. asOf - History < time[q] /\ ~(time[q] <= BelowPage(page))
    BY <1>3, <1>4
  <2> QED
    BY <1>2, <2>1, PageCovers DEF PageKnown
<1>6. LastPage(page) => WindowKnown'
  <2> SUFFICES ASSUME LastPage(page), NEW q \in Logged, Alone(q), asOf - History < time[q],
                      time[q] < top
               PROVE  DomainOf[q] \in known
    BY <1>1, <1>3 DEF WindowKnown, KnownAbove, Alone
  <2> QED
    BY <1>2, PageCovers DEF PageKnown
<1> QED
  BY <1>1, <1>5, <1>6 DEF FillIInv, Filling

(* The backfill is complete, and the next one begins anew. *)
LEMMA FillEnds ==
    ASSUME ScanIInv, FillIInv, BackfillComplete \/ BackfillReset
    PROVE  FillIInv'
<1>1. ScanTypeOK /\ ClockOK
  BY DEF ScanIInv
<1>2. UNCHANGED <<now, time, asOf, top>> /\ known' = known /\ Logged' = Logged
  BY DEF BackfillComplete, BackfillReset, store, Logged
<1>3. \A t : KnownAbove(t) => KnownAbove(t)'
  BY <1>2 DEF KnownAbove, Alone
<1>4. CASE BackfillComplete
  <2>1. /\ spc' = "completed" /\ until' = until
        /\ spc = "filled" \/ (spc = "backfill" /\ page = {})
    BY <1>4 DEF BackfillComplete
  <2>2. WindowKnown
    <3>1. CASE spc = "filled"
      BY <3>1 DEF FillIInv
    <3>2. CASE spc = "backfill" /\ page = {}
      <4>1. PageReaches /\ LastPage(page)
        BY <3>2 DEF FillIInv, Filling, LastPage
      <4> QED
        BY <3>2, <4>1, PageCovers DEF WindowKnown, KnownAbove
    <3> QED
      BY <2>1, <3>1, <3>2
  <2>3. WindowKnown'
    BY <1>2, <1>3, <2>2 DEF WindowKnown, KnownAbove
  <2>4. (until' # None /\ until' > now' - History) => KnownAbove(until)'
    BY <1>2, <1>3, <2>1 DEF FillIInv, KnownAbove
  <2> QED
    BY <2>1, <2>3, <2>4 DEF FillIInv, Filling
<1>5. CASE BackfillReset
  <2>1. spc' = "recheck" /\ until' = asOf
    BY <1>5 DEF BackfillReset
  <2>2. asOf \in Nat /\ top \in Nat /\ top <= asOf /\ \A q \in Logged : time[q] \in Nat
    BY <1>1 DEF ScanTypeOK, ClockOK, Logged
  <2>3. KnownAbove(until)'
    BY <1>2, <2>1, <2>2 DEF KnownAbove
  <2> QED
    BY <2>1, <2>3 DEF FillIInv, Filling
<1> QED
  BY <1>4, <1>5

-----------------------------------------------------------------------------
(* The scanner, the auditor and the classifier together. *)

IntakeIInv == StoreTypeOK /\ ScanIInv /\ FillIInv /\ AuditIInv

(* What the scanner writes to the database are domains. *)
LEMMA ScanStoreKept ==
    ASSUME StoreTypeOK, ScanIInv, ScanNext
    PROVE  StoreTypeOK' /\ known \subseteq known'
<1>1. page \subseteq Queries /\ {DomainOf[q] : q \in page} \subseteq Domains
  BY QueryDomains DEF ScanIInv, ScanTypeOK, Logged
<1>2. NeedingAnalysis({DomainOf[q] : q \in page}) \subseteq Domains /\ DueRechecks \subseteq Domains
  BY <1>1 DEF NeedingAnalysis, DueRechecks, StoreTypeOK
<1>3. CASE UNCHANGED store
  BY <1>3 DEF store, StoreTypeOK
<1>4. CASE ScanRecord
  BY <1>1, <1>4 DEF ScanRecord, StoreTypeOK
<1>5. CASE ScanQueue
  BY <1>2, <1>5 DEF ScanQueue, StoreTypeOK
<1>6. CASE ScanRecheck
  BY <1>2, <1>6 DEF ScanRecheck, StoreTypeOK
<1>7. CASE BackfillRecord
  BY <1>1, <1>7 DEF BackfillRecord, StoreTypeOK
<1>8. CASE BackfillQueue
  BY <1>2, <1>8 DEF BackfillQueue, StoreTypeOK
<1> QED
  BY <1>3, <1>4, <1>5, <1>6, <1>7, <1>8 DEF ScanNext, ScanStep, ScanFetch, ScanAdvance,
     BackfillFetch, BackfillMove, BackfillComplete, BackfillReset, ScanFails, ScanRestart, Tick, Ask

(* The backfill's part of the invariant, over the scanner's steps. *)
LEMMA FillKept ==
    ASSUME StoreTypeOK, ScanIInv, FillIInv, ScanNext
    PROVE  FillIInv'
<1>1. known \subseteq known'
  BY ScanStoreKept
<1>2. ScanTypeOK /\ ScanTypeOK'
  BY ScanKept DEF ScanIInv
<1>3. CASE \E q \in Queries : Ask(q)
  BY <1>3, FillAsk
<1>4. CASE BackfillFetch
  BY <1>4, FillFetch
<1>5. CASE BackfillRecord \/ BackfillQueue \/ BackfillMove \/ BackfillComplete \/ BackfillReset
  BY <1>5, FillStore, FillMove, FillEnds
<1>6. CASE \/ ScanFetch \/ ScanRecord \/ ScanQueue \/ ScanAdvance \/ ScanRecheck
           \/ ScanFails \/ ScanRestart \/ Tick
  <2>1. now \in Nat /\ now' \in Nat /\ now <= now'
    BY <1>2, <1>6 DEF ScanTypeOK, ScanFetch, ScanRecord, ScanQueue, ScanAdvance, ScanRecheck,
       ScanFails, ScanRestart, Tick
  <2>2. /\ UNCHANGED <<time, until, top>>
        /\ spc' \in Filling \cup {"filled", "completed"} => UNCHANGED <<spc, page, asOf>>
    BY <1>6 DEF ScanFetch, ScanRecord, ScanQueue, ScanAdvance, ScanRecheck, ScanFails, ScanRestart,
       Tick, Filling
  <2> QED
    BY <1>1, <2>1, <2>2, FillUntouched
<1> QED
  BY <1>3, <1>4, <1>5, <1>6 DEF ScanNext, ScanStep

(* Every step of the scanner, the auditor and the classifier keeps the     *)
(* invariant of all three.                                                 *)
LEMMA IntakeStep == IntakeIInv /\ [IntakeNext]_intakeVars => IntakeIInv'
<1> SUFFICES ASSUME IntakeIInv, [IntakeNext]_intakeVars PROVE IntakeIInv'
  OBVIOUS
<1>1. StoreTypeOK /\ ScanIInv /\ FillIInv /\ AuditIInv /\ now \in Nat
  BY DEF IntakeIInv, ScanIInv, ScanTypeOK
<1>2. CASE ScanNext /\ UNCHANGED auditVars
  BY <1>1, <1>2, ScanKept, ScanStoreKept, FillKept, AuditUntouched DEF IntakeIInv
<1>3. ASSUME UNCHANGED scanVars, known \subseteq known' PROVE ScanIInv' /\ FillIInv'
  <2>1. UNCHANGED <<now, time, until, top, spc, page, asOf>>
    BY <1>3 DEF scanVars
  <2> QED
    BY <1>1, <1>3, <2>1, ScanUntouched, FillUntouched
<1>4. CASE AuditNext /\ UNCHANGED scanVars
  <2>1. StoreTypeOK' /\ known \subseteq known'
    BY <1>1, <1>4, AuditStoreKept
  <2>2. AuditIInv'
    BY <1>1, <1>4, AuditKept
  <2> QED
    BY <1>3, <1>4, <2>1, <2>2 DEF IntakeIInv
<1>5. CASE Classifier
  <2>1. StoreTypeOK' /\ known \subseteq known'
    BY <1>1, <1>5 DEF Classifier, Classify, BecomesDue, StoreTypeOK
  <2>2. UNCHANGED scanVars /\ UNCHANGED auditVars
    BY <1>5 DEF Classifier
  <2> QED
    BY <1>1, <1>3, <2>1, <2>2, AuditUntouched DEF IntakeIInv
<1>6. CASE UNCHANGED intakeVars
  <2>1. UNCHANGED scanVars /\ UNCHANGED auditVars /\ UNCHANGED store
    BY <1>6 DEF intakeVars
  <2>2. StoreTypeOK' /\ known \subseteq known'
    BY <1>1, <2>1 DEF store, StoreTypeOK
  <2> QED
    BY <1>1, <1>3, <2>1, <2>2, AuditUntouched DEF IntakeIInv
<1> QED
  BY <1>2, <1>4, <1>5, <1>6 DEF IntakeNext

(* It holds at the start. *)
LEMMA IntakeStarts == IntakeInit => IntakeIInv
<1> SUFFICES ASSUME IntakeInit PROVE IntakeIInv
  OBVIOUS
<1>1. StoreTypeOK
  BY DEF IntakeInit, StoreInit, StoreTypeOK
<1>2. FillIInv
  BY DEF IntakeInit, ScanInit, FillIInv, Filling
<1> QED
  BY <1>1, <1>2, ScanStarts, AuditStarts DEF IntakeInit, IntakeIInv

(* It holds throughout. *)
LEMMA IntakeAlways == IntakeSafety => []IntakeIInv
BY IntakeStarts, IntakeStep, PTL DEF IntakeSafety

(* The scanner counts a query at most once more than cycles failed or      *)
(* processes ended after counting it, and its cursor passes no query it    *)
(* has not counted but those a full page crowded out, those older than the *)
(* first look back and those of the instant it already stood at: for any   *)
(* log, page sizes, windows, failures and restarts, beside the auditor and *)
(* the classifier (Scanner._run, Scanner.__init__).                        *)
THEOREM ScannerIsExact == IntakeSafety => []ScanInv
<1>1. IntakeIInv => ScanInv
  BY DEF IntakeIInv, ScanIInv, ScanInv, CursorBehind, Behind
<1> QED
  BY <1>1, IntakeAlways, PTL

(* At most one auditor thread has not been told to stop, and a cycle that  *)
(* ran through has enqueued every eligible domain of every list it read:   *)
(* for any lists, batch size and cap (get_list_auditor, stop_list_auditor, *)
(* run_list_audit_cycle).                                                  *)
THEOREM AuditsAreComplete == IntakeSafety => []AuditInv
<1>1. IntakeIInv => AuditInv
  <2> SUFFICES ASSUME IntakeIInv PROVE AuditInv
    OBVIOUS
  <2>1. OneAuditor
    BY DEF IntakeIInv, AuditIInv, OneAuditor
  <2>2. CycleStagesAll
    BY DEF IntakeIInv, AuditIInv, CyclePays, CycleStagesAll
  <2> QED
    BY <2>1, <2>2 DEF IntakeIInv, AuditIInv, AuditInv
<1> QED
  BY <1>1, IntakeAlways, PTL

(* A backfill that is marked complete has made every domain of its window  *)
(* known whose query is alone in its instant, over any number of pages,    *)
(* failures, restarts and expired windows (_run_history_backfill).         *)
THEOREM BackfillIsComplete == IntakeSafety => BackfillCovers
<1> DEFINE Covered == \A q \in Logged :
            (/\ asOf - History < time[q] /\ time[q] < top
             /\ \A r \in Logged \ {q} : time[r] # time[q])
            => DomainOf[q] \in known'
<1>1. IntakeIInv /\ [IntakeNext]_intakeVars => [doneAt' # doneAt => Covered]_<<scanVars, store>>
  <2> SUFFICES ASSUME IntakeIInv, [IntakeNext]_intakeVars, doneAt' # doneAt PROVE Covered
    OBVIOUS
  <2>1. BackfillComplete
    BY DEF intakeVars, IntakeNext, scanVars, Classifier, ScanNext, ScanStep, ScanFetch, ScanRecord,
       ScanQueue, ScanAdvance, ScanRecheck, BackfillFetch, BackfillRecord, BackfillQueue,
       BackfillMove, BackfillReset, ScanFails, ScanRestart, Tick, Ask
  <2>2. WindowKnown'
    BY <2>1, FillEnds DEF IntakeIInv, FillIInv, BackfillComplete
  <2>3. UNCHANGED <<time, asOf, top>> /\ Logged' = Logged
    BY <2>1 DEF BackfillComplete, Logged
  <2> QED
    BY <2>2, <2>3 DEF WindowKnown, KnownAbove, Alone
<1> QED
  BY <1>1, IntakeAlways, PTL DEF IntakeSafety, BackfillCovers

-----------------------------------------------------------------------------
(* The automation policy. *)

\* A validated answer is a classification that can be stored.
LEMMA AnswersAreStored ==
    ASSUME NEW a \in Answers PROVE a \in Stored /\ a.category \in a.tags
BY PolicyConstants DEF Answers, Stored

\* Changing whether a classification needs a review changes nothing else.
LEMMA ReviewOnly ==
    ASSUME NEW c \in Stored, NEW b \in BOOLEAN
    PROVE  /\ [c EXCEPT !.review = b] \in Stored
           /\ [c EXCEPT !.review = b].review = b
           /\ [c EXCEPT !.review = b].policy = c.policy
           /\ [c EXCEPT !.review = b].role = c.role
           /\ [c EXCEPT !.review = b].breakage = c.breakage
           /\ [c EXCEPT !.review = b].category = c.category
           /\ [c EXCEPT !.review = b].tags = c.tags
BY DEF Stored

\* The profile keeps the recommendation and the tags of the model, and lifts
\* role and risk to its own at least.
LEMMA ProfiledFacts ==
    ASSUME profile \in Profiles, NEW c \in Stored
    PROVE  /\ Profiled(c) \in Stored
           /\ Profiled(c).policy = c.policy
           /\ Profiled(c).category = c.category
           /\ Profiled(c).tags = c.tags
           /\ profile # NoProfile =>
                /\ Profiled(c).breakage >= profile.risk
                /\ Protected(profile.role) => Protected(Profiled(c).role)
                /\ c.policy = "deny" => Profiled(c).review
<1>1. CASE profile = NoProfile
  BY <1>1 DEF Profiled
<1>2. CASE profile # NoProfile
  <2> DEFINE role == StrongerRole(c.role, profile.role)
             risk == IF profile.risk > c.breakage THEN profile.risk ELSE c.breakage
             service == IF c.service = "" THEN profile.name ELSE c.service
             review == c.review \/ c.policy = "deny"
  <2>1. profile.role \in {"core", "shared", "optional"} /\ profile.risk \in 0..100
    BY <1>2, PolicyConstants
  <2>2. role \in {"core", "shared", "optional", "unknown"}
    BY <2>1 DEF StrongerRole, Stored
  <2>3. risk \in 0..100 /\ risk >= profile.risk
    BY <2>1 DEF Stored
  <2>4. service \in Services \cup {p.name : p \in Profiles}
    BY DEF Stored
  <2>5. review \in BOOLEAN
    BY DEF Stored
  <2>6. Protected(profile.role) => Protected(role)
    BY <2>1 DEF Protected, StrongerRole, RoleOrder, Stored
  <2>7. Profiled(c) = [c EXCEPT !.role = role, !.breakage = risk, !.service = service,
                                !.review = review]
    BY <1>2 DEF Profiled
  <2> HIDE DEF role, risk, service, review
  <2>8. Profiled(c) \in Stored
    BY <2>2, <2>3, <2>4, <2>5, <2>7 DEF Stored
  <2>9. /\ Profiled(c).role = role /\ Profiled(c).breakage = risk
        /\ Profiled(c).policy = c.policy /\ Profiled(c).category = c.category
        /\ Profiled(c).tags = c.tags /\ Profiled(c).review = review
    BY <2>7 DEF Stored
  <2>10. c.policy = "deny" => review
    BY DEF review
  <2> QED BY <1>2, <2>3, <2>6, <2>8, <2>9, <2>10
<1> QED BY <1>1, <1>2

-----------------------------------------------------------------------------
\* What Resolve promises, as far as the properties look at it: an action is
\* only taken on an unreviewed, harmless result, and in hybrid mode it is the
\* one the model recommended.
LEMMA ResolveFacts ==
    ASSUME NEW c, NEW m, NEW e
    PROVE  /\ Resolve(c, m, e) \in {"none", "allow", "deny"}
           /\ Resolve(c, m, e) # "none" =>
                /\ ~c.review /\ ~Protected(c.role) /\ c.breakage < 50
                /\ m = "auto" \/ c.policy = Resolve(c, m, e)
BY DEF Resolve

\* The recommendation of a run that acted in hybrid mode is its action.
Agrees == (run.mode = "hybrid" /\ run.action # "none") => run.c.policy = run.action

\* The inductive invariant.
PolicyInv == TypeOK /\ ProtectedLeftAlone /\ Agrees

\* What an analysis stores, as far as the properties look at it.
LEMMA AnalyzeFacts ==
    ASSUME TypeOK, NEW a \in Answers, NEW m \in Modes, NEW e \in BOOLEAN, Analyze(a, m, e)
    PROVE  \E p \in Stored, c \in Stored :
             /\ run' = [c |-> c, mode |-> m, action |-> Resolve(c, m, e)]
             /\ open' = (open \/ Discrepancy(p))
             /\ c = Guarded(p)
             /\ c.review = (p.review \/ Discrepancy(p))
             /\ c.policy = p.policy /\ c.tags = p.tags
             /\ c.category \in c.tags
             /\ profile # NoProfile =>
                  /\ c.breakage >= profile.risk
                  /\ Protected(profile.role) => Protected(c.role)
                  /\ c.policy = "deny" => c.review
             /\ UNCHANGED <<profile, manual>>
<1> DEFINE parsed == Parsed(a)
           p == Profiled(parsed)
           c == Guarded(p)
<1>1. parsed \in Stored /\ parsed.category \in parsed.tags
  <2> DEFINE b == a.review \/ a.band = "review" \/ (a.role \in {"core", "shared"} /\ a.breakage >= 50)
  <2>1. b \in BOOLEAN
    OBVIOUS
  <2>2. parsed = [a EXCEPT !.review = b]
    BY DEF Parsed
  <2> QED BY <2>1, <2>2, AnswersAreStored, ReviewOnly
<1> HIDE DEF parsed
<1>3. /\ p \in Stored /\ p.category \in p.tags
      /\ profile # NoProfile => /\ p.breakage >= profile.risk
                                /\ Protected(profile.role) => Protected(p.role)
                                /\ p.policy = "deny" => p.review
  BY <1>1, ProfiledFacts DEF TypeOK
<1>4. Discrepancy(p) \in BOOLEAN
  BY DEF Discrepancy, RequiresReview
<1>5. c = [p EXCEPT !.review = p.review \/ Discrepancy(p)]
  BY DEF Guarded
<1>6. /\ c \in Stored /\ c.review = (p.review \/ Discrepancy(p))
      /\ c.policy = p.policy /\ c.tags = p.tags /\ c.category = p.category
      /\ c.role = p.role /\ c.breakage = p.breakage
  <2> HIDE DEF p, c
  <2>1. (p.review \/ Discrepancy(p)) \in BOOLEAN
    OBVIOUS
  <2> QED BY <1>3, <1>5, <2>1, ReviewOnly
<1>7. /\ run' = [c |-> c, mode |-> m, action |-> Resolve(c, m, e)]
      /\ open' = (open \/ Discrepancy(p))
      /\ UNCHANGED <<profile, manual>>
  BY DEF Analyze, parsed
<1>8. c = Guarded(p)
  OBVIOUS
<1> HIDE DEF p, c
<1> QED BY <1>3, <1>6, <1>7, <1>8

\* Every step keeps the inductive invariant.
LEMMA Preserved == PolicyInv /\ [Next]_vars => PolicyInv'
<1> SUFFICES ASSUME PolicyInv, [Next]_vars PROVE PolicyInv'
  OBVIOUS
<1> USE DEF PolicyInv
<1>1. ASSUME NEW a \in Answers, NEW m \in Modes, NEW e \in BOOLEAN, Analyze(a, m, e)
      PROVE  PolicyInv'
  <2>1. PICK p \in Stored, c \in Stored :
             /\ run' = [c |-> c, mode |-> m, action |-> Resolve(c, m, e)]
             /\ open' = (open \/ Discrepancy(p))
             /\ c.category \in c.tags
             /\ profile # NoProfile =>
                  /\ c.breakage >= profile.risk
                  /\ Protected(profile.role) => Protected(c.role)
                  /\ c.policy = "deny" => c.review
             /\ UNCHANGED <<profile, manual>>
    BY <1>1, AnalyzeFacts
  <2>2. /\ run'.c = c /\ run'.mode = m /\ run'.action = Resolve(c, m, e)
    BY <2>1
  <2>4. TypeOK'
    <3>1. open' \in BOOLEAN
      BY <2>1 DEF TypeOK
    <3> QED BY <2>1, <2>2, <3>1, ResolveFacts DEF TypeOK
  <2>6. ProtectedLeftAlone'
    <3>1. profile \in Profiles /\ profile' = profile
      BY <2>1 DEF TypeOK
    <3>2. ASSUME profile # NoProfile,
                 profile.role # "optional" \/ profile.risk >= 50 \/ c.policy = "deny"
          PROVE  Resolve(c, m, e) = "none"
      <4>1. profile.role \in {"core", "shared", "optional"} /\ profile.risk \in 0..100
        BY <3>1, <3>2, PolicyConstants
      <4>2. Protected(c.role) \/ c.breakage >= 50 \/ c.review
        BY <2>1, <3>2, <4>1 DEF Protected, Stored
      <4> QED BY <4>2, ResolveFacts DEF Stored
    <3> QED BY <2>1, <2>2, <3>1, <3>2 DEF ProtectedLeftAlone
  <2>7. Agrees'
    BY <2>2, ResolveFacts DEF Agrees
  <2> QED BY <2>4, <2>6, <2>7
<1>2. ASSUME NEW S \in SUBSET Tags, SetManualTags(S) PROVE PolicyInv'
  BY <1>2 DEF SetManualTags, TypeOK, ProtectedLeftAlone, Agrees
<1>3. CASE Review
  BY <1>3 DEF Review, TypeOK, ProtectedLeftAlone, Agrees
<1>4. CASE UNCHANGED vars
  BY <1>4 DEF vars, TypeOK, ProtectedLeftAlone, Agrees
<1> QED BY <1>1, <1>2, <1>3, <1>4 DEF Next

\* The inductive invariant holds in every reachable state.
LEMMA Always == Spec => []PolicyInv
<1>1. Init => PolicyInv
  <2>1. NoRun.action = "none" /\ NoRun.mode = "manual"
    BY DEF NoRun
  <2> QED
    BY <2>1 DEF Init, PolicyInv, TypeOK, ProtectedLeftAlone, Agrees
<1> QED BY <1>1, Preserved, PTL DEF Spec

\* A domain of a protected service is never acted on automatically, and a deny
\* the model recommends for a domain of any profile is left to the user.
THEOREM ProtectedServicesAreLeftAlone == Spec => []ProtectedLeftAlone
<1>1. PolicyInv => ProtectedLeftAlone
  BY DEF PolicyInv
<1> QED BY <1>1, Always, PTL

\* In hybrid mode consecutive runs never act in opposite ways.
THEOREM HybridNeverFlips == Spec => NeverFlips
<1>1. ASSUME PolicyInv, Next, run' # run, run.mode = "hybrid", run'.mode = "hybrid",
             run.action # "none"
      PROVE  run'.action \in {"none", run.action}
  <2>1. PICK a \in Answers, m \in Modes, e \in BOOLEAN : Analyze(a, m, e)
    BY <1>1 DEF Next, SetManualTags, Review, vars
  <2>2. PICK p \in Stored, c \in Stored :
             /\ run' = [c |-> c, mode |-> m, action |-> Resolve(c, m, e)]
             /\ c.review = (p.review \/ Discrepancy(p))
             /\ c.policy = p.policy
    BY <1>1, <2>1, AnalyzeFacts DEF PolicyInv
  <2>4. m = "hybrid" /\ run # NoRun
    <3>1. run'.mode = m
      BY <2>2
    <3>2. NoRun.mode = "manual"
      BY DEF NoRun
    <3> QED BY <1>1, <3>1, <3>2
  <2>3. CASE Resolve(c, m, e) # "none"
    <3>1. c.policy = Resolve(c, m, e) /\ ~c.review /\ Resolve(c, m, e) \in {"allow", "deny"}
      BY <2>3, <2>4, ResolveFacts
    <3>2. ~Discrepancy(p)
      BY <2>2, <3>1
    <3>3. {run.c.policy, p.policy} # {"allow", "deny"}
      BY <2>4, <3>2 DEF Discrepancy, RequiresReview, Decisive
    <3>4. run.c.policy = run.action /\ run.action \in {"allow", "deny"}
      BY <1>1, <2>4 DEF PolicyInv, TypeOK, Agrees
    <3>5. p.policy \in {"allow", "deny"}
      BY <2>2, <3>1
    <3>6. p.policy = run.c.policy
      BY <3>3, <3>4, <3>5
    <3> QED BY <2>2, <3>1, <3>4, <3>6
  <2> QED BY <2>2, <2>3
<1>2. PolicyInv /\ [Next]_vars
        => [(run.mode = "hybrid" /\ run'.mode = "hybrid" /\ run.action # "none")
              => run'.action \in {"none", run.action}]_vars
  BY <1>1
<1> QED BY <1>2, Always, PTL DEF Spec, NeverFlips
=============================================================================
