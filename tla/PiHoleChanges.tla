--------------------------- MODULE PiHoleChanges ---------------------------
(***************************************************************************)
(* Changes of one Pi-hole rule (an exact domain, a regex domain or a       *)
(* subscribed list) made by concurrent threads of the application, the     *)
(* audit log they write, and the rollback of an audit entry                *)
(* (pihole_service.py, pihole_rules.py, pihole_audit.py).                  *)
(*                                                                         *)
(* A change is three separate steps: capture the old state, call the       *)
(* Pi-hole, write the audit row.  A rollback is four: read the entry and   *)
(* check the active instance, capture and compare the resource, call the   *)
(* Pi-hole, mark the entry and write the rollback row.  Nothing holds a    *)
(* lock across these steps: every step asks get_client() and               *)
(* load_options() again, so the active instance may change between them,   *)
(* and the four workers of the UI executor may interleave.                 *)
(*                                                                         *)
(* Rules with different keys never interact, so one rule is modelled; its  *)
(* kind is chosen by Init.  A rule is a tag (its comment and enabled flag) *)
(* and a set of groups; None is an absent rule, and also the groups that   *)
(* an audit snapshot leaves out.                                           *)
(***************************************************************************)
EXTENDS Naturals, Sequences, FiniteSets

CONSTANTS
    None,           \* absent rule, absent snapshot, absent groups, absent id
    Kinds,          \* kinds of rule among exact_domain, regex_domain, subscribed_list
    Threads,        \* UI executor workers and HTTP handlers
    Ids,            \* instances of pihole_instances.json
    Urls,           \* base urls, one Pi-hole each
    UrlOf,          \* base url of each instance of the registry
    Tags,           \* comment and enabled flag of a rule
    InitialTags,    \* those of rules that exist before the application starts
    GroupSets,      \* non-empty group assignments a user chooses
    NoGroups,       \* what a Pi-hole assigns to a rule sent without groups
    Profiled,       \* the domain matches a protected compatibility profile
    MaxChanges,     \* bound: changes and rollbacks started
    MaxFaults       \* bound: failed reads, lost answers, lost audit rows, crashes,
                    \* switches of the active instance or of the protection

ASSUME SupportedKinds == Kinds \subseteq {"exact_domain", "regex_domain", "subscribed_list"}
ASSUME RegistryUrls == UrlOf \in [Ids -> Urls]
ASSUME SomeTags == InitialTags \subseteq Tags
ASSUME ChosenGroups == GroupSets \subseteq (SUBSET Nat) \ {{}} /\ NoGroups \in SUBSET Nat
ASSUME NoneIsNoValue == None \notin Tags \cup Ids \cup Urls
ASSUME BoundsAreNat == MaxChanges \in Nat /\ MaxFaults \in Nat

VARIABLES
    kind,       \* resource_kind of the rule
    site,       \* the rule as each Pi-hole stores it
    origin,     \* history: the rule as each Pi-hole stored it at first
    url,        \* base_url of the saved options: the active Pi-hole
    active,     \* active_instance_id of the instance registry
    lock,       \* list the exact domain is protected in, or None
    rows,       \* the rule as the open rule view shows it
    log,        \* pihole_audit_log, oldest row first
    thread,     \* what each thread is doing
    started,    \* changes and rollbacks started
    faults,     \* faults and switches that happened
    unlogged    \* history: a Pi-hole holds a change no audit row tells of

vars == <<kind, site, origin, url, active, lock, rows, log, thread, started, faults, unlogged>>

Operations == {"add", "update", "delete"}

Groups == GroupSets \cup {{}, NoGroups, None}
Rule == [tag : Tags, groups : Groups]
Snapshot == Rule \cup {None}

ASSUME NoneIsNoRule == None \notin Rule

Idle == [pc |-> "idle", op |-> "add", new |-> None, before |-> None,
         entry |-> 0, raced |-> FALSE]

ThreadState ==
    [pc : {"idle", "capture", "send", "record", "rb_capture", "rb_send", "rb_mark"},
     op : Operations, new : Snapshot, before : Snapshot, entry : Nat, raced : BOOLEAN]

Row == [id : Ids \cup {None}, url : Urls, op : Operations \cup {"rollback"},
        before : Snapshot, after : Snapshot, reversible : BOOLEAN,
        rolledBack : BOOLEAN, error : BOOLEAN, related : Nat]

(* The default group the Pi-hole gives a rule that names none. *)
Stored(s) ==
    IF s = None THEN None
    ELSE [s EXCEPT !.groups = IF s.groups \in {None, {}} THEN NoGroups ELSE @]

Init ==
    /\ kind \in Kinds
    /\ site \in [Urls -> {None} \cup {[tag |-> t, groups |-> NoGroups] : t \in InitialTags}]
    /\ origin = site
    /\ active \in Ids
    /\ url = UrlOf[active]
    /\ lock = None
    /\ rows = None
    /\ log = <<>>
    /\ thread = [t \in Threads |-> Idle]
    /\ started = 0
    /\ faults = 0
    /\ unlogged = FALSE

-----------------------------------------------------------------------------
(* The instance an audit row or a rollback check is attributed to: the     *)
(* registry entry with the active url, the configured one first.           *)
Context ==
    LET matches == {i \in Ids : UrlOf[i] = url}
    IN  [id  |-> IF active \in matches THEN active
                 ELSE IF Cardinality(matches) = 1 THEN CHOOSE i \in matches : TRUE
                 ELSE None,
         url |-> url]

(* Faulty variant: a snapshot that could not be read matches anything. *)
LenientMatches(current, expected) ==
    current = None \/ (expected # None /\ current.tag = expected.tag
                       /\ (expected.groups # None => current.groups = expected.groups))

(* Fields the entry leaves out (None) are not compared. *)
SnapshotMatches(current, expected) ==
    IF current = None \/ expected = None THEN current = expected
    ELSE /\ current.tag = expected.tag
         /\ expected.groups # None => current.groups = expected.groups

(* An audit row: a change can be undone when it is an addition or when its *)
(* previous state was captured.                                            *)
NewRow(op, before, after) ==
    [id |-> Context.id, url |-> Context.url, op |-> op, before |-> before,
     after |-> after,
     reversible |-> op = "add" \/ before # None,
     rolledBack |-> FALSE, error |-> FALSE, related |-> 0]

Fault == faults < MaxFaults /\ faults' = faults + 1

(* Everyone between its check and its call, other than t, now acts on a    *)
(* state it has not seen.                                                  *)
OthersRaced(t, next) ==
    [u \in Threads |-> IF u = t THEN next
                       ELSE IF thread[u].pc = "rb_send"
                            THEN [thread[u] EXCEPT !.raced = TRUE]
                            ELSE thread[u]]

-----------------------------------------------------------------------------
(* Starting a change.                                                      *)
Begin(t, op, pc, new) ==
    /\ thread[t].pc = "idle"
    /\ started < MaxChanges
    /\ started' = started + 1
    /\ thread' = [thread EXCEPT ![t] = [Idle EXCEPT !.pc = pc, !.op = op, !.new = new]]
    /\ UNCHANGED <<kind, origin, site, url, active, lock, rows, log, faults, unlogged>>

(* The user confirms an override for a domain of a protected profile, or   *)
(* the block is abandoned.                                                 *)
ConfirmProtectedDenies(override) == override = Profiled

(* add_exact_domain of a deny rule: the protection and the profile are     *)
(* read before the call, the rule goes out without groups.                 *)
AddExact(t, tag) ==
    /\ lock \in {None, "deny"}
    /\ \E override \in BOOLEAN :
        /\ ConfirmProtectedDenies(override)
        /\ Profiled => override
    /\ Begin(t, "add", "send", [tag |-> tag, groups |-> None])

(* delete_exact_domain: refused for a rule protected in its own list. *)
DeleteExact(t) ==
    /\ lock # "deny"
    /\ Begin(t, "delete", "capture", None)

(* The rule views of regex rules and subscribed lists: a rule is added     *)
(* without groups, which are normalised to none; an update of comment or   *)
(* enabled flag takes the groups from the row shown.                       *)
AddManaged(t, tag) == Begin(t, "add", "send", [tag |-> tag, groups |-> {}])

UpdateRow(t, tag) ==
    rows # None /\ Begin(t, "update", "capture", [tag |-> tag, groups |-> rows.groups])

DeleteManaged(t) == rows # None /\ Begin(t, "delete", "capture", None)

(* Groups of a shown row: comment and enabled flag come from the row. *)
AssignGroups(t, groups) ==
    rows # None /\ Begin(t, "update", "capture", [tag |-> rows.tag, groups |-> groups])

(* The mutations of each kind of rule. *)
RegexChange(t) ==
    /\ kind = "regex_domain"
    /\ \/ \E tag \in Tags : AddManaged(t, tag) \/ UpdateRow(t, tag)
       \/ \E groups \in GroupSets : AssignGroups(t, groups)
       \/ DeleteManaged(t)

ListChange(t) ==
    /\ kind = "subscribed_list"
    /\ \/ \E tag \in Tags : AddManaged(t, tag) \/ UpdateRow(t, tag)
       \/ \E groups \in GroupSets : AssignGroups(t, groups)
       \/ DeleteManaged(t)

ExactChange(t) ==
    /\ kind = "exact_domain"
    /\ \/ \E tag \in Tags : AddExact(t, tag)
       \/ \E groups \in GroupSets : AssignGroups(t, groups)
       \/ DeleteExact(t)

(* The previous state, read for the audit row; an unreadable one is None. *)
Capture(t) ==
    /\ thread[t].pc = "capture"
    /\ \/ /\ thread' = [thread EXCEPT ![t].pc = "send", ![t].before = site[url]]
          /\ UNCHANGED faults
       \/ /\ Fault
          /\ thread' = [thread EXCEPT ![t].pc = "send", ![t].before = None]
    /\ UNCHANGED <<kind, origin, site, url, active, lock, rows, log, started, unlogged>>

(* The Pi-hole refuses to add an existing rule and to delete an absent     *)
(* one; an update creates or replaces.                                     *)
Accepts(op, current) ==
    CASE op = "add" -> current = None
      [] op = "update" -> TRUE
      [] op = "delete" -> current # None

(* The call of a change; an error is raised to the caller and nothing is   *)
(* recorded, also when only the answer was lost.                           *)
Send(t) ==
    /\ thread[t].pc = "send"
    /\ \/ /\ Accepts(thread[t].op, site[url])
          /\ site' = [site EXCEPT ![url] = Stored(thread[t].new)]
          /\ thread' = OthersRaced(t, [thread[t] EXCEPT !.pc = "record"])
          /\ UNCHANGED <<faults, unlogged>>
       \/ /\ Fault
          /\ Accepts(thread[t].op, site[url])
          /\ site' = [site EXCEPT ![url] = Stored(thread[t].new)]
          /\ thread' = OthersRaced(t, Idle)
          /\ unlogged' = TRUE
       \/ /\ ~Accepts(thread[t].op, site[url])
          /\ thread' = [thread EXCEPT ![t] = Idle]
          /\ UNCHANGED <<site, faults, unlogged>>
    /\ UNCHANGED <<kind, origin, url, active, lock, rows, log, started>>

(* record_pihole_change: a row that cannot be written is only logged. *)
Record(t) ==
    /\ thread[t].pc = "record"
    /\ thread' = [thread EXCEPT ![t] = Idle]
    /\ \/ /\ log' = Append(log, NewRow(thread[t].op, thread[t].before, thread[t].new))
          /\ UNCHANGED <<faults, unlogged>>
       \/ /\ Fault
          /\ unlogged' = TRUE
          /\ UNCHANGED log
    /\ UNCHANGED <<kind, origin, site, url, active, lock, rows, started>>

-----------------------------------------------------------------------------
(* Rollback.                                                               *)
Available(e) == e.reversible /\ e.op \in Operations /\ ~e.rolledBack

SameInstance(e) ==
    /\ e.id # None /\ Context.id # None => e.id = Context.id
    /\ e.url = Context.url

(* rollback_pihole_audit up to the instance check. *)
RollbackBegin(t, n) ==
    /\ thread[t].pc = "idle"
    /\ started < MaxChanges
    /\ started' = started + 1
    /\ Available(log[n])
    /\ SameInstance(log[n])
    /\ thread' = [thread EXCEPT ![t] = [Idle EXCEPT !.pc = "rb_capture", !.entry = n]]
    /\ UNCHANGED <<kind, origin, site, url, active, lock, rows, log, faults, unlogged>>

Expected(e) == IF e.op = "delete" THEN None ELSE e.after

(* Capture the resource and compare it with the entry. *)
RollbackCheck(t) ==
    /\ thread[t].pc = "rb_capture"
    /\ \E current \in {site[url], None} :
        /\ IF current = site[url] THEN UNCHANGED faults ELSE Fault
        /\ thread' = [thread EXCEPT ![t] =
              IF SnapshotMatches(current, Expected(log[thread[t].entry]))
              THEN [@ EXCEPT !.pc = "rb_send"]
              ELSE Idle]
    /\ UNCHANGED <<kind, origin, site, url, active, lock, rows, log, started, unlogged>>

(* The call that undoes an operation, and what it leaves. *)
Undo(op) == CASE op = "add" -> "delete" [] op = "update" -> "update" [] op = "delete" -> "add"

(* Faulty variant: the groups of the previous state are not sent. *)
RestoredWithoutGroups(e) ==
    IF e.op = "add" THEN None ELSE Stored([e.before EXCEPT !.groups = None])

Restored(e) == IF e.op = "add" THEN None ELSE Stored(e.before)

(* _apply_rollback on the instance that is active now; an error is noted   *)
(* on the entry, also when only the answer was lost.                       *)
RollbackSend(t) ==
    LET e == log[thread[t].entry]
        failed == log' = [log EXCEPT ![thread[t].entry].error = TRUE]
    IN  /\ thread[t].pc = "rb_send"
        /\ \/ /\ e.op = "add" \/ e.before # None
              /\ Accepts(Undo(e.op), site[url])
              /\ site' = [site EXCEPT ![url] = Restored(e)]
              /\ \/ /\ thread' = OthersRaced(t, [thread[t] EXCEPT !.pc = "rb_mark"])
                    /\ UNCHANGED <<log, faults, unlogged>>
                 \/ /\ Fault
                    /\ failed
                    /\ thread' = OthersRaced(t, Idle)
                    /\ unlogged' = TRUE
           \/ /\ (e.op # "add" /\ e.before = None) \/ ~Accepts(Undo(e.op), site[url])
              /\ failed
              /\ thread' = [thread EXCEPT ![t] = Idle]
              /\ UNCHANGED <<site, faults, unlogged>>
        /\ UNCHANGED <<kind, origin, url, active, lock, rows, started>>

(* One transaction marks the entry and adds the rollback row. *)
Marked(n) ==
    Append([log EXCEPT ![n].rolledBack = TRUE, ![n].error = FALSE],
           [log[n] EXCEPT !.op = "rollback", !.before = log[n].after,
                          !.after = log[n].before, !.reversible = FALSE,
                          !.rolledBack = FALSE, !.error = FALSE, !.related = n])

RollbackMark(t) ==
    /\ thread[t].pc = "rb_mark"
    /\ thread' = [thread EXCEPT ![t] = Idle]
    /\ \/ /\ log' = Marked(thread[t].entry)
          /\ UNCHANGED <<faults, unlogged>>
       \/ /\ Fault
          /\ unlogged' = TRUE
          /\ UNCHANGED log
    /\ UNCHANGED <<kind, origin, site, url, active, lock, rows, started>>

-----------------------------------------------------------------------------
(* Surroundings.                                                           *)

(* The rule view fetches the rule of the active instance. *)
ViewLoad ==
    /\ rows # site[url]
    /\ rows' = site[url]
    /\ UNCHANGED <<kind, origin, site, url, active, lock, log, thread, started, faults, unlogged>>

(* A rollback under way has checked what no longer holds. *)
Unsettled == [t \in Threads |-> IF thread[t].pc \in {"rb_capture", "rb_send"}
                                THEN [thread[t] EXCEPT !.raced = TRUE]
                                ELSE thread[t]]

(* The settings tab saves the registry first ... *)
SaveRegistry(i) ==
    /\ Fault
    /\ active # i
    /\ UrlOf[active] = url
    /\ active' = i
    /\ UNCHANGED <<kind, origin, site, url, lock, rows, log, thread, started, unlogged>>

(* ... and then the options, which name the active Pi-hole. *)
SaveOptions ==
    /\ url # UrlOf[active]
    /\ url' = UrlOf[active]
    /\ thread' = Unsettled
    /\ UNCHANGED <<kind, origin, site, active, lock, rows, log, started, faults, unlogged>>

(* The user protects the domain in its list, or removes the protection. *)
ToggleLock ==
    /\ Fault
    /\ kind = "exact_domain"
    /\ lock' = IF lock = None THEN "deny" ELSE None
    /\ thread' = Unsettled
    /\ UNCHANGED <<kind, origin, site, url, active, rows, log, started, unlogged>>

(* The process ends between two steps: threads are gone, the log stays. *)
Crash ==
    /\ Fault
    /\ \E t \in Threads : thread[t].pc # "idle"
    /\ unlogged' = (unlogged \/ \E t \in Threads : thread[t].pc \in {"record", "rb_mark"})
    /\ thread' = [t \in Threads |-> Idle]
    /\ rows' = None
    /\ UNCHANGED <<kind, origin, site, url, active, lock, log, started>>

Thread(t) ==
    \/ ExactChange(t) \/ RegexChange(t) \/ ListChange(t)
    \/ Capture(t) \/ Send(t) \/ Record(t)
    \/ \E n \in DOMAIN log : RollbackBegin(t, n)
    \/ RollbackCheck(t) \/ RollbackSend(t) \/ RollbackMark(t)

Next ==
    \/ \E t \in Threads : Thread(t)
    \/ \E i \in Ids : SaveRegistry(i)
    \/ ViewLoad \/ SaveOptions \/ ToggleLock \/ Crash

Spec == Init /\ [][Next]_vars

-----------------------------------------------------------------------------
TypeOK ==
    /\ kind \in Kinds
    /\ site \in [Urls -> Snapshot] /\ origin \in [Urls -> Snapshot]
    /\ url \in Urls
    /\ active \in Ids
    /\ lock \in {None, "deny"}
    /\ rows \in Snapshot
    /\ log \in Seq(Row)
    /\ thread \in [Threads -> ThreadState]
    /\ \A t \in Threads : thread[t].pc \in {"rb_capture", "rb_send", "rb_mark"}
                             => thread[t].entry \in DOMAIN log
    /\ started \in 0..MaxChanges
    /\ faults \in 0..MaxFaults
    /\ unlogged \in BOOLEAN

(* A rollback that got past the comparison always has a previous state to  *)
(* restore: the entries offered for rollback and the ones _apply_rollback  *)
(* refuses for lack of one are disjoint.                                   *)
PreviousStateKnown ==
    \A t \in Threads : thread[t].pc = "rb_send" =>
        LET e == log[thread[t].entry] IN e.op = "add" \/ e.before # None

(* What a Pi-hole holds is explained by the audit log whenever no change   *)
(* is between its call and its row: the state is the initial one or the    *)
(* outcome of a logged change or rollback, unless a row was lost.  The row *)
(* may carry another instance: the attribution is read after the call.     *)
LogExplains ==
    (~unlogged /\ \A t \in Threads : thread[t].pc \notin {"record", "rb_mark"}) =>
        \A u \in Urls :
            \/ site[u] = origin[u]
            \/ \E n \in DOMAIN log : site[u] = Stored(log[n].after)

(* An entry is marked rolled back together with the row that tells of it,  *)
(* and a rollback row always follows and names a marked, reversible entry. *)
RollbackTrail ==
    /\ \A n \in DOMAIN log : log[n].rolledBack =>
          \E m \in (n + 1)..Len(log) : log[m].op = "rollback" /\ log[m].related = n
    /\ \A m \in DOMAIN log : log[m].op = "rollback" =>
          /\ log[m].related \in 1..(m - 1)
          /\ log[log[m].related].rolledBack /\ log[log[m].related].reversible

(* A rollback no one interfered with since its checks touches only the *)
(* Pi-hole its entry names, replaces exactly the state the entry recorded  *)
(* (whatever the groups when the entry left them out), and restores the    *)
(* captured one: also when the comparison read nothing because the fetch   *)
(* failed.                                                                 *)
UnracedRollbackIsExact ==
    [][\A t \in Threads :
        (thread[t].pc = "rb_send" /\ thread'[t].pc = "rb_mark" /\ ~thread[t].raced) =>
            LET e == log[thread[t].entry]
            IN  /\ SnapshotMatches(site[e.url], Expected(e))
                /\ site' = [site EXCEPT ![e.url] = Restored(e)]]_vars

(* The audit log can be relied on: it explains what the Pi-holes hold, its *)
(* marks and rollback rows belong together, and what it offers for rollback*)
(* can be restored.                                                        *)
AuditTrail == TypeOK /\ PreviousStateKnown /\ LogExplains /\ RollbackTrail
=============================================================================
