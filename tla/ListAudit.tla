----------------------------- MODULE ListAudit -----------------------------
(***************************************************************************)
(* The list auditor (list_audit.py, list_audit_worker.py): a thread that   *)
(* periodically reads the enabled subscribed lists, and stages the domains *)
(* that are not classified yet in rate-limited batches.                    *)
(*                                                                         *)
(* stop_list_auditor forgets the thread after a bounded join, so an old    *)
(* thread may still run when get_list_auditor starts the next one: the     *)
(* model has several thread slots, each with its own stop event.           *)
(***************************************************************************)
EXTENDS IntakeStore, FiniteSetsExt

CONSTANTS
    Workers,        \* slots of auditor threads
    Lists,          \* addresses of enabled lists, in the order of the Pi-hole
    LinesOf,        \* lines of each list
    Readable,       \* lists that can be downloaded
    AuditBatch,     \* batch_size
    DomainCap,      \* max_domains_per_list
    ByteLimit,      \* _MAX_DOWNLOAD_BYTES
    MaxRequests,    \* bound: saves and audits requested
    MaxAuditFaults  \* bound: failed cycles, stops of the auditor

ASSUME ListNames == Lists \in Seq(DOMAIN LinesOf)
ASSUME ListLines ==
    \A l \in DOMAIN LinesOf : Len(LinesOf[l]) \in Nat /\ DOMAIN LinesOf[l] = 1..Len(LinesOf[l])
ASSUME BatchIsPositive == AuditBatch \in Nat \ {0} /\ DomainCap \in Nat \ {0}
ASSUME AuditBounds == MaxRequests \in Nat /\ MaxAuditFaults \in Nat
ASSUME NoneIsNoWorker == None \notin Workers

VARIABLES
    ref,        \* _WORKER: the slot of the current thread, or None
    wpc,        \* step of each thread
    stopped,    \* _stop_event of each thread
    wake,       \* _wake_event of each thread
    at,         \* list being read by each thread
    todo,       \* lines of that list whose domains are still to be enqueued
    completed,  \* state list_audit_completed_at: never, recent or old
    owed,       \* history: eligible domains of the lists read in a cycle
    paid,       \* history: domains enqueued in a cycle
    requests,   \* saves and requests so far
    afaults     \* failures and stops so far

auditVars == <<ref, wpc, stopped, wake, at, todo, completed, owed, paid,
               requests, afaults>>

AuditInit ==
    /\ ref = None
    /\ wpc = [w \in Workers |-> "none"]
    /\ stopped = [w \in Workers |-> FALSE]
    /\ wake = [w \in Workers |-> FALSE]
    /\ at = [w \in Workers |-> 0]
    /\ todo = [w \in Workers |-> {}]
    /\ completed = "never"
    /\ owed = [w \in Workers |-> {}]
    /\ paid = [w \in Workers |-> {}]
    /\ requests = 0 /\ afaults = 0

AuditFault == afaults < MaxAuditFaults /\ afaults' = afaults + 1

-----------------------------------------------------------------------------
(* A line of a list is a form, a name and a size: a comment or exception   *)
(* line, an ||name^ rule, a hosts line, a plain name, or anything else.    *)

(* A name that passes validation. *)
ValidatedDomain(name) == IF name \in Domains THEN name ELSE None

DomainFromListRule(line) ==
    IF line.form \in {"adblock", "hosts", "plain"} THEN ValidatedDomain(line.name) ELSE None

(* The lines whose domain no earlier line names. *)
FirstLines(lines) ==
    {i \in DOMAIN lines :
        /\ DomainFromListRule(lines[i]) # None
        /\ \A j \in 1..(i - 1) : DomainFromListRule(lines[j]) # DomainFromListRule(lines[i])}

(* How many lines of ps a reader has met with line i. *)
Place(i, ps) == Cardinality({j \in ps : j <= i})

(* Bytes of the download up to line i and its line end. *)
Consumed(lines, i) == MapThenSumSet(LAMBDA j : lines[j].size + 1, 1..i)

(* The domains of the lines, once each, in order, not more than the cap    *)
(* and none of a line that passes the size limit, each by its line; a list *)
(* that reaches either counts as truncated.                                *)
ExtractDomains(lines) ==
    {i \in FirstLines(lines) : /\ Place(i, FirstLines(lines)) <= DomainCap
                               /\ Consumed(lines, i) <= ByteLimit}

DomainsAt(lines, ps) == {DomainFromListRule(lines[i]) : i \in ps}

(* The lines of the list a thread is reading. *)
Reading(w) == LinesOf[Lists[at[w]]]

Alive(w) == wpc[w] \notin {"none", "dead"}

(* get_list_auditor: the current thread while it lives, otherwise a new    *)
(* one in a free slot.                                                     *)
Start(w) ==
    /\ wpc' = [wpc EXCEPT ![w] = "top"]
    /\ stopped' = [stopped EXCEPT ![w] = FALSE]
    /\ wake' = [wake EXCEPT ![w] = TRUE]
    /\ ref' = w
    /\ todo' = [todo EXCEPT ![w] = {}]
    /\ at' = [at EXCEPT ![w] = 0]

GetAuditor ==
    IF ref # None /\ Alive(ref)
    THEN /\ wake' = [wake EXCEPT ![ref] = TRUE]
         /\ UNCHANGED <<ref, wpc, stopped, at, todo>>
    ELSE \E w \in Workers : ~Alive(w) /\ Start(w)

(* "Run now": the settings are saved, the completion is cleared, the       *)
(* thread is started or woken.                                             *)
RequestAuditNow ==
    /\ auditOn
    /\ requests < MaxRequests
    /\ requests' = requests + 1
    /\ completed' = "never"
    /\ GetAuditor
    /\ UNCHANGED <<owed, paid, afaults>>
    /\ UNCHANGED store

(* "Save": the thread is started or woken. *)
SaveAuditOptions ==
    /\ auditOn
    /\ requests < MaxRequests
    /\ requests' = requests + 1
    /\ GetAuditor
    /\ UNCHANGED <<completed, owed, paid, afaults>>
    /\ UNCHANGED store

(* stop_list_auditor: the thread is told to stop and forgotten, whether it *)
(* has ended within the join or not.                                       *)
StopAuditor ==
    /\ AuditFault
    /\ ref # None
    /\ stopped' = [stopped EXCEPT ![ref] = TRUE]
    /\ ref' = None
    /\ UNCHANGED <<wpc, wake, at, todo, completed, owed, paid, requests>>
    /\ UNCHANGED store

-----------------------------------------------------------------------------
(* Top of the thread's loop. *)
Top(w) ==
    /\ wpc[w] = "top"
    /\ \/ /\ stopped[w]
          /\ wpc' = [wpc EXCEPT ![w] = "dead"]
          /\ UNCHANGED <<at, owed, paid>>
       \/ /\ ~stopped[w]
          /\ completed = "recent"
          /\ wpc' = [wpc EXCEPT ![w] = "idle"]
          /\ UNCHANGED <<at, owed, paid>>
       \/ /\ ~stopped[w]
          /\ completed # "recent"
          /\ wpc' = [wpc EXCEPT ![w] = "list"]
          /\ at' = [at EXCEPT ![w] = 1]
          /\ owed' = [owed EXCEPT ![w] = {}]
          /\ paid' = [paid EXCEPT ![w] = {}]
    /\ UNCHANGED <<ref, stopped, wake, todo, completed, requests, afaults>>
    /\ UNCHANGED store

(* _idle_wait ends by a wake-up, a stop or its time. *)
IdleEnds(w) ==
    /\ wpc[w] = "idle"
    /\ stopped[w] \/ wake[w] \/ completed # "recent"
    /\ wpc' = [wpc EXCEPT ![w] = "top"]
    /\ wake' = [wake EXCEPT ![w] = wake[w] /\ stopped[w]]
    /\ UNCHANGED <<ref, stopped, at, todo, completed, owed, paid, requests, afaults>>
    /\ UNCHANGED store

(* The next list of the cycle: the stop event is polled, a list that       *)
(* cannot be read is counted and left out, the domains of one that can are *)
(* filtered at once.                                                       *)
ReadList(w) ==
    LET eligible == {i \in ExtractDomains(Reading(w)) :
                        DomainFromListRule(Reading(w)[i]) \in FilterUnclassified(Domains)}
    IN  /\ wpc[w] = "list"
        /\ at[w] <= Len(Lists)
        /\ \/ /\ stopped[w]
              /\ wpc' = [wpc EXCEPT ![w] = "dead"]
              /\ UNCHANGED <<at, todo, owed>>
           \/ /\ ~stopped[w]
              /\ Lists[at[w]] \notin Readable
              /\ at' = [at EXCEPT ![w] = @ + 1]
              /\ UNCHANGED <<wpc, todo, owed>>
           \/ /\ ~stopped[w]
              /\ Lists[at[w]] \in Readable
              /\ todo' = [todo EXCEPT ![w] = eligible]
              /\ owed' = [owed EXCEPT ![w] = @ \cup DomainsAt(Reading(w), eligible)]
              /\ wpc' = [wpc EXCEPT ![w] = "batch"]
              /\ UNCHANGED at
        /\ UNCHANGED <<ref, stopped, wake, completed, paid, requests, afaults>>
        /\ UNCHANGED store

(* Faulty variant: the rest begins one domain too late. *)
RestAfterGap(ps) == {i \in ps : Place(i, ps) > AuditBatch + 1}

RestAfter(ps) == {i \in ps : Place(i, ps) > AuditBatch}

(* One batch: the stop event is polled before it and during the pause that *)
(* precedes every batch but the first.                                     *)
EnqueueBatch(w) ==
    LET batch == DomainsAt(Reading(w), {i \in todo[w] : Place(i, todo[w]) <= AuditBatch})
    IN  /\ wpc[w] = "batch"
        /\ todo[w] # {}
        /\ \/ /\ stopped[w]
              /\ wpc' = [wpc EXCEPT ![w] = "dead"]
              /\ UNCHANGED <<todo, paid, staged, known>>
           \/ /\ ~stopped[w]
              /\ staged' = staged \cup (batch \ Locked)
              /\ known' = known \cup batch
              /\ paid' = [paid EXCEPT ![w] = @ \cup batch]
              /\ todo' = [todo EXCEPT ![w] = RestAfter(todo[w])]
              /\ UNCHANGED wpc
        /\ UNCHANGED <<ref, stopped, wake, at, completed, owed, requests, afaults,
                       classified, due, scanOn, auditOn>>

ListDone(w) ==
    /\ wpc[w] = "batch"
    /\ todo[w] = {}
    /\ wpc' = [wpc EXCEPT ![w] = "list"]
    /\ at' = [at EXCEPT ![w] = @ + 1]
    /\ UNCHANGED <<ref, stopped, wake, todo, completed, owed, paid, requests, afaults>>
    /\ UNCHANGED store

CompletedNow == "recent"

(* The cycle ran through: its completion is recorded. *)
CycleDone(w) ==
    /\ wpc[w] = "list"
    /\ at[w] > Len(Lists)
    /\ completed' = CompletedNow
    /\ wpc' = [wpc EXCEPT ![w] = "top"]
    /\ UNCHANGED <<ref, stopped, wake, at, todo, owed, paid, requests, afaults>>
    /\ UNCHANGED store

(* The Pi-hole or the database raises: the cycle is given up. *)
CycleFails(w) ==
    /\ AuditFault
    /\ wpc[w] \in {"list", "batch"}
    /\ wpc' = [wpc EXCEPT ![w] = "top"]
    /\ todo' = [todo EXCEPT ![w] = {}]
    /\ UNCHANGED <<ref, stopped, wake, at, completed, owed, paid, requests>>
    /\ UNCHANGED store

(* The audit interval passes. *)
IntervalPasses ==
    /\ auditOn
    /\ completed = "recent"
    /\ completed' = "old"
    /\ UNCHANGED <<ref, wpc, stopped, wake, at, todo, owed, paid, requests, afaults>>
    /\ UNCHANGED store

AuditStep(w) ==
    Top(w) \/ IdleEnds(w) \/ ReadList(w) \/ EnqueueBatch(w) \/ ListDone(w) \/ CycleDone(w)

AuditNext ==
    \/ \E w \in Workers : AuditStep(w) \/ CycleFails(w)
    \/ RequestAuditNow \/ SaveAuditOptions \/ StopAuditor \/ IntervalPasses

(* Every thread keeps running. *)
AuditFairness == \A w \in Workers : WF_auditVars(AuditStep(w))

-----------------------------------------------------------------------------
AuditTypeOK ==
    /\ ref \in Workers \cup {None}
    /\ wpc \in [Workers -> {"none", "top", "idle", "list", "batch", "dead"}]
    /\ stopped \in [Workers -> BOOLEAN] /\ wake \in [Workers -> BOOLEAN]
    /\ at \in [Workers -> 0..(Len(Lists) + 1)]
    /\ todo \in [Workers -> SUBSET Nat]
    /\ completed \in {"never", "recent", "old"}
    /\ owed \in [Workers -> SUBSET Domains] /\ paid \in [Workers -> SUBSET Domains]
    /\ requests \in 0..MaxRequests /\ afaults \in 0..MaxAuditFaults

(* At most one auditor thread has not been told to stop, although stopping *)
(* does not wait for the old thread to end.                                *)
OneAuditor ==
    \A v, w \in Workers : (Alive(v) /\ Alive(w) /\ ~stopped[v] /\ ~stopped[w]) => v = w

(* A cycle that ran to its end has staged every eligible domain of every   *)
(* list it could read, whatever the batch size leaves over.                *)
CycleStagesAll ==
    \A w \in Workers : (wpc[w] = "list" /\ at[w] > Len(Lists)) => owed[w] = paid[w]

(* While the auditor is not stopped, a due audit is carried out. *)
AuditHappens ==
    \A w \in Workers :
        (wpc[w] = "top" /\ completed # "recent") ~> (completed = "recent" \/ stopped[w])

(* One auditor works, and the cycles it completes are complete.            *)
AuditInv == AuditTypeOK /\ OneAuditor /\ CycleStagesAll
=============================================================================
