---------------------------- MODULE ReviewActions ----------------------------
(***************************************************************************)
(* What happens to the exact Pi-hole rules, the review row, the review     *)
(* tasks and the review preference of one domain: a Classifier thread      *)
(* carries out an automatic decision (workers.py, _handle_classification), *)
(* frontends carry out the user's review decisions                         *)
(* (application/review_decisions.py), and the user protects and releases   *)
(* the domain.  Every database transaction and every call of Pi-hole is a  *)
(* step of its own: the three stores share no transaction.                 *)
(*                                                                         *)
(* All of these operations address one domain, so one is modelled.  The    *)
(* outcomes of an analysis are those of module AutomationPolicy, reduced   *)
(* to what the carrying out looks at.                                      *)
(***************************************************************************)
EXTENDS Naturals, FiniteSets

CONSTANTS
    Frontends,    \* threads that may execute a review decision
    SimulationModes   \* values llm.simulation_mode takes over time

ASSUME ReviewConstants == SimulationModes \subseteq BOOLEAN

Lists == {"allow", "deny"}
Other(t) == IF t = "allow" THEN "deny" ELSE "allow"
Sources == {"policy", "conflict", "simulation", "llm"}   \* of review tasks
Decisions == Lists \cup {"ignore", "postpone", "never_ask"}

\* The decision, and which tasks and flags the classification asks for.
Outcomes == {o \in [action : Lists \cup {"none"}, policy : BOOLEAN, llm : BOOLEAN,
                    needs : BOOLEAN] :
               /\ o.needs => o.llm
               /\ o.action # "none" => ~o.policy /\ ~o.needs}

VARIABLES
    profiled, \* whether the domain matches a compatibility profile
    rules,    \* the exact rules of the domain in Pi-hole
    lock,     \* the list it is protected in, or "none"
    review,   \* its review row: whether its action is pending, and its flag
    open,     \* whether it has open review tasks
    pref,     \* its review preference
    staged,   \* whether it waits or is being worked on in the analysis queue
    job,      \* what the classifier is doing
    deciding  \* what each frontend is doing; history: whether its decision
              \* was contested, another frontend taking the opposite one

stores == <<profiled, review, open, pref, staged>>
vars == <<profiled, rules, lock, review, open, pref, staged, job, deciding>>

NoReview == [exists |-> FALSE, status |-> "none", needs |-> FALSE]
NoOutcome == [action |-> "none", policy |-> FALSE, llm |-> FALSE, needs |-> FALSE]
NoJob == [pc |-> "idle", o |-> NoOutcome, sim |-> FALSE, conflict |-> FALSE, checked |-> FALSE]
NotDeciding == [pc |-> "idle", d |-> "ignore", desired |-> FALSE, opposite |-> FALSE,
                contested |-> FALSE]

Init ==
    /\ profiled \in BOOLEAN /\ rules \in SUBSET Lists
    /\ lock = "none" /\ review = NoReview /\ open = FALSE /\ pref = "none"
    /\ staged = FALSE /\ job = NoJob
    /\ deciding = [u \in Frontends |-> NotDeciding]

-----------------------------------------------------------------------------
(* The classifier.                                                         *)

\* The lock the classifier reads is only looked at in this comparison.
Conflicting(action) == action # "none" /\ lock # "none" /\ lock # action
Acting(j) == j.o.action # "none" /\ ~j.conflict

Stages == <<"policy", "conflict", "simulation", "write", "llm", "save">>

Needed(s, j) ==
    CASE s = "policy" -> j.o.policy
      [] s = "conflict" -> j.conflict
      [] s = "simulation" -> Acting(j) /\ j.sim
      [] s = "write" -> Acting(j) /\ ~j.sim
      [] s = "llm" -> j.o.llm
      [] OTHER -> TRUE

\* The job at its first needed stage after the i-th.
Advanced(j, i) ==
    LET later == {k \in DOMAIN Stages : k > i /\ Needed(Stages[k], j)}
        next == CHOOSE k \in later : \A l \in later : k <= l IN
    [j EXCEPT !.pc = Stages[next], !.checked = FALSE]

StageOf(j) == CHOOSE k \in DOMAIN Stages : Stages[k] = j.pc

\* The scanner or the user queues the domain; protected ones are left out.
Enqueue ==
    /\ ~staged /\ lock = "none" /\ staged' = TRUE
    /\ UNCHANGED <<profiled, rules, lock, review, open, pref, job, deciding>>

\* The job is claimed, the domain analysed and the policy resolved.
Classify(o, sim) ==
    /\ job.pc = "idle" /\ staged /\ lock = "none"
    /\ job' = [NoJob EXCEPT !.pc = "lock", !.o = o, !.sim = sim]
    /\ UNCHANGED <<profiled, rules, lock, review, open, pref, staged, deciding>>

ReadLock ==
    /\ job.pc = "lock"
    /\ job' = Advanced([job EXCEPT !.conflict = Conflicting(job.o.action)], 0)
    /\ UNCHANGED <<profiled, rules, lock, review, open, pref, staged, deciding>>

\* create_review_task: the preference is read from its own database first.
CheckPreference ==
    /\ job.pc \in Sources /\ ~job.checked
    /\ job' = IF pref # "none" THEN Advanced(job, StageOf(job)) ELSE [job EXCEPT !.checked = TRUE]
    /\ UNCHANGED <<profiled, rules, lock, review, open, pref, staged, deciding>>

CreateTask ==
    /\ job.pc \in Sources /\ job.checked
    /\ open' = TRUE
    /\ job' = Advanced(job, StageOf(job))
    /\ UNCHANGED <<profiled, rules, lock, review, pref, staged, deciding>>

\* The checks of add_exact_domain before it calls Pi-hole.
MayAdd(t) == lock \in {"none", t} /\ ~(t = "deny" /\ profiled)

\* An exception of the job: the batch fails.
Failed == job' = NoJob /\ staged' = FALSE

CheckWrite ==
    /\ job.pc = "write"
    /\ \/ MayAdd(job.o.action) /\ job' = [job EXCEPT !.pc = "send"] /\ UNCHANGED staged
       \/ ~MayAdd(job.o.action) /\ Failed
    /\ UNCHANGED <<profiled, rules, lock, review, open, pref, deciding>>

\* The call of Pi-hole; when it fails, the rule may or may not be there.
SendWrite ==
    /\ job.pc = "send"
    /\ \/ /\ rules' = rules \cup {job.o.action}
          /\ job' = Advanced(job, 4) /\ UNCHANGED staged
       \/ /\ rules' \in {rules, rules \cup {job.o.action}}
          /\ Failed
    /\ UNCHANGED <<profiled, lock, review, open, pref, deciding>>

\* review_save_classification
Saved(j) ==
    [exists |-> TRUE,
     status |-> IF ~Acting(j) THEN "none" ELSE IF j.sim THEN "simulated" ELSE "applied",
     needs |-> j.o.needs \/ (Acting(j) /\ j.sim)]

Save ==
    /\ job.pc = "save"
    /\ review' = Saved(job)
    /\ job' = [NoJob EXCEPT !.pc = "ack"]
    /\ UNCHANGED <<profiled, rules, lock, open, pref, staged, deciding>>

Ack ==
    /\ job.pc = "ack"
    /\ staged' = FALSE /\ job' = NoJob
    /\ UNCHANGED <<profiled, rules, lock, review, open, pref, deciding>>

-----------------------------------------------------------------------------
(* A review decision.                                                      *)

At(u, pc) == deciding[u].pc = pc
Goto(u, pc) == deciding' = [deciding EXCEPT ![u].pc = pc]
Stop(u) == deciding' = [deciding EXCEPT ![u] = NotDeciding]

\* The steps of a list decision that come before the stores.
OnRules == {"desired", "opposite", "add", "adding", "delete", "deleting", "mark"}

\* The frontends that are carrying out the opposite of list decision d.
Against(d) ==
    {v \in Frontends : d \in Lists /\ deciding[v].pc \in OnRules /\ deciding[v].d = Other(d)}

\* Where a decision starts; ignore, postpone and never_ask begin with the queue.
\* Nothing keeps two frontends from deciding on the domain at once.
Decide(u, d) ==
    /\ At(u, "idle")
    /\ deciding' = [v \in Frontends |->
                      IF v = u
                      THEN [NotDeciding EXCEPT !.d = d, !.contested = (Against(d) # {}),
                                               !.pc = IF d \in Lists THEN "desired" ELSE "unstage"]
                      ELSE [deciding[v] EXCEPT !.contested = @ \/ v \in Against(d)]]
    /\ UNCHANGED <<rules, lock, stores, job>>

ReadDesired(u) ==
    /\ At(u, "desired")
    /\ deciding' = [deciding EXCEPT ![u].pc = "opposite", ![u].desired = (deciding[u].d \in rules)]
    /\ UNCHANGED <<rules, lock, stores, job>>

\* Faulty variant: the opposite rule is removed before the desired is added.
PlanDeleteFirst(u, opposite) ==
    IF opposite THEN "delete" ELSE IF deciding[u].desired THEN "mark" ELSE "add"

\* What follows the two readings.
Plan(u, opposite) ==
    IF ~deciding[u].desired THEN "add" ELSE IF opposite THEN "delete" ELSE "mark"

\* The readings are kept as long as they are looked at.
ReadOpposite(u) ==
    /\ At(u, "opposite")
    /\ LET there == Other(deciding[u].d) \in rules
           plan == Plan(u, there) IN
       deciding' = [deciding EXCEPT ![u].pc = plan, ![u].desired = FALSE,
                                    ![u].opposite = there /\ plan = "add"]
    /\ UNCHANGED <<rules, lock, stores, job>>

\* add_exact_domain refuses: the decision is a conflict, nothing was changed.
CheckAdd(u) ==
    /\ At(u, "add")
    /\ IF MayAdd(deciding[u].d) THEN Goto(u, "adding") ELSE Stop(u)
    /\ UNCHANGED <<rules, lock, stores, job>>

AddRule(u) ==
    /\ At(u, "adding")
    /\ \/ /\ rules' = rules \cup {deciding[u].d}
          /\ deciding' = [deciding EXCEPT ![u].pc = IF deciding[u].opposite THEN "delete" ELSE "mark",
                                          ![u].opposite = FALSE]
       \/ /\ rules' \in {rules, rules \cup {deciding[u].d}}
          /\ Stop(u)
    /\ UNCHANGED <<lock, stores, job>>

\* delete_exact_domain refuses a protected entry.
CheckDelete(u) ==
    /\ At(u, "delete")
    /\ IF lock = Other(deciding[u].d) THEN Stop(u) ELSE Goto(u, "deleting")
    /\ UNCHANGED <<rules, lock, stores, job>>

DeleteRule(u) ==
    /\ At(u, "deleting")
    /\ \/ /\ rules' = rules \ {Other(deciding[u].d)}
          /\ Goto(u, "mark")
       \/ /\ rules' \in {rules, rules \ {Other(deciding[u].d)}}
          /\ Stop(u)
    /\ UNCHANGED <<lock, stores, job>>

\* mark_action_applied
Mark(u) ==
    /\ At(u, "mark")
    /\ review' = IF review.exists
                 THEN [review EXCEPT !.status = "applied", !.needs = FALSE]
                 ELSE review
    /\ open' = FALSE
    /\ deciding' = [deciding EXCEPT ![u] = [NotDeciding EXCEPT !.pc = "unstage", !.d = deciding[u].d]]
    /\ UNCHANGED <<profiled, rules, lock, pref, staged, job>>

Unstage(u) ==
    /\ At(u, "unstage")
    /\ staged' = FALSE
    /\ Goto(u, CASE deciding[u].d \in Lists -> "prefer"
                 [] deciding[u].d = "ignore" -> "resolve"
                 [] OTHER -> "close")
    /\ UNCHANGED <<profiled, rules, lock, review, open, pref, job>>

\* Faulty variant: the pending action stays pending.
ResolvedOpen(row) == [row EXCEPT !.needs = FALSE]

Resolved(row) ==
    [row EXCEPT !.needs = FALSE, !.status = IF @ = "simulated" THEN "dismissed" ELSE @]

\* review_resolve
ResolveReview(u) ==
    /\ At(u, "resolve")
    /\ review' = Resolved(review)
    /\ open' = FALSE
    /\ Goto(u, "prefer")
    /\ UNCHANGED <<profiled, rules, lock, pref, staged, job>>

\* _resolve_open_review_tasks
CloseTasks(u) ==
    /\ At(u, "close")
    /\ open' = FALSE
    /\ Goto(u, "prefer")
    /\ UNCHANGED <<profiled, rules, lock, review, pref, staged, job>>

\* What a decision leaves as preference.
Preferred(d) == IF d \in {"postpone", "never_ask"} THEN d ELSE "none"

\* set_review_preference; a list decision or ignore lifts what was preferred.
Prefer(u) ==
    /\ At(u, "prefer")
    /\ pref' = Preferred(deciding[u].d)
    /\ Stop(u)
    /\ UNCHANGED <<profiled, rules, lock, review, open, staged, job>>

\* postponed_until has come.
Reappear ==
    /\ pref = "postpone" /\ pref' = "none"
    /\ UNCHANGED <<profiled, rules, lock, review, open, staged, job, deciding>>

-----------------------------------------------------------------------------
\* set_domain_lock on an entry the user sees in a list
SetLock(t) ==
    /\ t \in rules /\ lock' = t /\ staged' = FALSE
    /\ UNCHANGED <<profiled, rules, review, open, pref, job, deciding>>

RemoveLock ==
    /\ lock # "none" /\ lock' = "none"
    /\ UNCHANGED <<profiled, rules, review, open, pref, staged, job, deciding>>

\* The process dies and is started again: its threads are gone, its stores are not.
Crash ==
    /\ job' = NoJob
    /\ deciding' = [u \in Frontends |-> NotDeciding]
    /\ UNCHANGED <<rules, lock, stores>>

Classifier ==
    \/ \E o \in Outcomes, sim \in SimulationModes : Classify(o, sim)
    \/ ReadLock \/ CheckPreference \/ CreateTask \/ CheckWrite \/ SendWrite \/ Save \/ Ack

Frontend(u) ==
    \/ \E d \in Decisions : Decide(u, d)
    \/ ReadDesired(u) \/ ReadOpposite(u) \/ CheckAdd(u) \/ AddRule(u)
    \/ CheckDelete(u) \/ DeleteRule(u) \/ Mark(u) \/ Unstage(u)
    \/ ResolveReview(u) \/ CloseTasks(u) \/ Prefer(u)

Next ==
    \/ Enqueue \/ Classifier \/ Reappear \/ RemoveLock \/ Crash
    \/ \E u \in Frontends : Frontend(u)
    \/ \E t \in Lists : SetLock(t)

Spec == Init /\ [][Next]_vars

-----------------------------------------------------------------------------
\* Every variable keeps its type.
TypeOK ==
    /\ profiled \in BOOLEAN /\ rules \subseteq Lists /\ lock \in Lists \cup {"none"}
    /\ review \in [exists : BOOLEAN, status : {"none", "simulated", "applied", "dismissed"},
                   needs : BOOLEAN]
    /\ open \in BOOLEAN /\ staged \in BOOLEAN
    /\ pref \in {"none", "postpone", "never_ask"}
    /\ job \in [pc : {"idle", "lock", "policy", "conflict", "simulation", "write", "send",
                      "llm", "save", "ack"},
                o : Outcomes, sim : BOOLEAN, conflict : BOOLEAN, checked : BOOLEAN]
    /\ deciding \in [Frontends -> [pc : {"idle", "desired", "opposite", "add", "adding", "delete",
                                         "deleting", "mark", "unstage", "resolve", "close", "prefer"},
                                   d : Decisions, desired : BOOLEAN, opposite : BOOLEAN,
                                   contested : BOOLEAN]]

\* Whatever fails, whenever the process dies and however many frontends decide,
\* a domain that had a rule is only left without one by a frontend whose
\* decision was contested: the desired rule is there before the opposite is
\* removed, and only the opposite decision removes it.
RuleSurvives ==
    [][(rules # {} /\ rules' = {}) =>
         \E u \in Frontends : At(u, "deleting") /\ deciding[u].contested]_vars

\* When a decision nobody contested is marked as applied its rule is in
\* Pi-hole, whatever the classifier, the locks, other frontends, failed calls
\* and earlier attempts did meanwhile.
DecidedRuleExists ==
    \A u \in Frontends : At(u, "mark") /\ ~deciding[u].contested => deciding[u].d \in rules

\* docs/ARCHITECTURE.md: simulation mode "creates a reviewable pending action
\* without calling the Pi-hole API": while it is on, rules change by the
\* user's decisions only.
SimulationLeavesRules ==
    [][(job.sim /\ rules' # rules) =>
         \E u \in Frontends : At(u, "adding") \/ At(u, "deleting")]_vars

\* A simulated action that was neither applied nor dismissed stays visible in
\* the review queue, however analyses and decisions interleave.
PendingIsVisible == review.status = "simulated" => review.needs

\* Whatever decisions and an analysis do to each other, an uncontested decision
\* marked as applied has its rule and a pending action is visible.
ReviewInv == TypeOK /\ DecidedRuleExists /\ PendingIsVisible

\* No step of an uncontested decision leaves a domain without the rule it had,
\* and no step of a simulated analysis changes one.
RulesKept == RuleSurvives /\ SimulationLeavesRules
=============================================================================
