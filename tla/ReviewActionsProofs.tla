------------------------ MODULE ReviewActionsProofs ------------------------
(***************************************************************************)
(* Proofs about ReviewActions, for every outcome of an analysis, any       *)
(* number of frontends, any failed call and any end of the process.  That  *)
(* decisions keep the rules of the domain is said of those that no other   *)
(* frontend contested.                                                     *)
(***************************************************************************)
EXTENDS ReviewActions, TLAPS

Rows == [exists : BOOLEAN, status : {"none", "simulated", "applied", "dismissed"},
         needs : BOOLEAN]

Jobs == [pc : {"idle", "lock", "policy", "conflict", "simulation", "write", "send",
               "llm", "save", "ack"},
         o : Outcomes, sim : BOOLEAN, conflict : BOOLEAN, checked : BOOLEAN]

Steps == {"idle", "desired", "opposite", "add", "adding", "delete", "deleting", "mark",
          "unstage", "resolve", "close", "prefer"}

Deciders == [pc : Steps, d : Decisions, desired : BOOLEAN, opposite : BOOLEAN,
             contested : BOOLEAN]

(* A job that writes to Pi-hole acts, and not in simulation mode. *)
WritesForReal(j) == j.pc \in {"write", "send"} => Acting(j) /\ ~j.sim

(* The steps that touch Pi-hole belong to a decision for a list. *)
ForAList(r) ==
    r.pc \in OnRules => r.d \in Lists

(* The inductive invariant of the stores. *)
StoreIInv ==
    /\ TypeOK /\ PendingIsVisible /\ WritesForReal(job)
    /\ \A u \in Frontends : ForAList(deciding[u])

(* The rule a decision has read or added, when nobody contests it. *)
HasRule(r, rs) ==
    ~r.contested =>
        /\ r.pc = "opposite" /\ r.desired => r.d \in rs
        /\ r.pc \in {"delete", "deleting", "mark"} => r.d \in rs

(* Opposite decisions under way at once contest each other. *)
Contest(q, r) == q.pc \in OnRules /\ r.pc \in OnRules /\ q.d = Other(r.d) => q.contested

Contests == \A u, v \in Frontends : Contest(deciding[u], deciding[v])

(* The inductive invariant of the rules. *)
RuleIInv == StoreIInv /\ Contests /\ \A u \in Frontends : HasRule(deciding[u], rules)

-----------------------------------------------------------------------------
(* The types of the stores, of the job and of the decisions. *)
LEMMA TypeParts ==
    TypeOK <=> /\ profiled \in BOOLEAN /\ rules \subseteq Lists /\ lock \in Lists \cup {"none"}
               /\ open \in BOOLEAN /\ staged \in BOOLEAN
               /\ pref \in {"none", "postpone", "never_ask"}
               /\ review \in Rows /\ job \in Jobs /\ deciding \in [Frontends -> Deciders]
BY DEF TypeOK, Rows, Jobs, Deciders, Steps

(* The values a job and a decision start from. *)
LEMMA Starts == NoOutcome \in Outcomes /\ NoJob \in Jobs /\ NotDeciding \in Deciders
<1>1. NoOutcome \in Outcomes
  BY DEF NoOutcome, Outcomes
<1>2. NoJob \in Jobs
  BY <1>1 DEF NoJob, Jobs
<1>3. NotDeciding \in Deciders
  BY DEF NotDeciding, Deciders, Steps, Decisions
<1> QED
  BY <1>1, <1>2, <1>3

(* A job goes on to the first stage it needs: one it does need, since every *)
(* job is saved in the end.                                                 *)
LEMMA AdvancedFacts ==
    ASSUME NEW j \in Jobs, NEW i \in 0..5
    PROVE  Advanced(j, i) \in Jobs /\ WritesForReal(Advanced(j, i))
<1> DEFINE later == {k \in DOMAIN Stages : k > i /\ Needed(Stages[k], j)}
           next == CHOOSE k \in later : \A l \in later : k <= l
           a == [j EXCEPT !.pc = Stages[next], !.checked = FALSE]
<1>1. DOMAIN Stages = 1..6 /\ Stages[6] = "save" /\ Stages[4] = "write"
  BY DEF Stages
<1>2. 6 \in later
  BY <1>1 DEF Needed
<1>3. \E k \in later : \A l \in later : k <= l
  <2>1. later \subseteq 1..6
    BY <1>1
  <2> HIDE DEF later
  <2>2. CASE 1 \in later
    BY <2>1, <2>2
  <2>3. CASE 1 \notin later /\ 2 \in later
    BY <2>1, <2>3
  <2>4. CASE 1 \notin later /\ 2 \notin later /\ 3 \in later
    BY <2>1, <2>4
  <2>5. CASE {1, 2, 3} \cap later = {} /\ 4 \in later
    BY <2>1, <2>5
  <2>6. CASE {1, 2, 3, 4} \cap later = {} /\ 5 \in later
    BY <2>1, <2>6
  <2>7. CASE {1, 2, 3, 4, 5} \cap later = {}
    BY <1>2, <2>1, <2>7
  <2> QED
    BY <2>2, <2>3, <2>4, <2>5, <2>6, <2>7
<1>4. next \in later
  BY <1>3
<1> HIDE DEF next
<1>5. next \in 1..6 /\ Needed(Stages[next], j)
  BY <1>1, <1>4
<1>6. Stages[next] \in {"policy", "conflict", "simulation", "write", "llm", "save"}
  BY <1>5 DEF Stages
<1>7. Advanced(j, i) = a
  BY DEF Advanced, next
<1>8. a \in Jobs /\ a.pc = Stages[next] /\ a.o = j.o /\ a.sim = j.sim /\ a.conflict = j.conflict
  <2> DEFINE pc == Stages[next]
  <2>1. pc \in {"policy", "conflict", "simulation", "write", "llm", "save"}
    BY <1>6
  <2> HIDE DEF pc
  <2>2. [j EXCEPT !.pc = pc, !.checked = FALSE] \in Jobs
    BY <2>1 DEF Jobs
  <2>3. LET b == [j EXCEPT !.pc = pc, !.checked = FALSE] IN
          b.pc = pc /\ b.o = j.o /\ b.sim = j.sim /\ b.conflict = j.conflict
    BY DEF Jobs
  <2> QED
    BY <2>2, <2>3 DEF pc
<1> HIDE DEF a
<1>9. WritesForReal(a)
  BY <1>5, <1>6, <1>8 DEF WritesForReal, Needed, Acting
<1> QED
  BY <1>7, <1>8, <1>9

(* The stage of a review task. *)
LEMMA TaskStage ==
    ASSUME NEW j \in Jobs, j.pc \in Sources
    PROVE  StageOf(j) \in 0..5
<1>1. DOMAIN Stages = 1..6
  BY DEF Stages
<1>2. \E k \in 1..6 : Stages[k] = j.pc
  BY DEF Stages, Sources
<1>3. StageOf(j) \in 1..6 /\ Stages[StageOf(j)] = j.pc
  BY <1>1, <1>2 DEF StageOf
<1>4. StageOf(j) # 6
  BY <1>3 DEF Stages, Sources
<1> QED
  BY <1>3, <1>4

-----------------------------------------------------------------------------
(* The classifier and the queue. *)

(* Steps that change the job, the queue row, the tasks or the rules, and    *)
(* leave the review row and the decisions alone.                            *)
LEMMA JobKeeps ==
    ASSUME StoreIInv, job' \in Jobs, WritesForReal(job'), rules' \subseteq Lists,
           open' \in BOOLEAN, staged' \in BOOLEAN,
           UNCHANGED <<profiled, lock, review, pref, deciding>>
    PROVE  StoreIInv'
<1>1. TypeOK'
  BY TypeParts DEF StoreIInv, TypeOK, Jobs
<1>2. PendingIsVisible' /\ \A u \in Frontends : ForAList(deciding'[u])
  BY DEF StoreIInv, PendingIsVisible
<1> QED
  BY <1>1, <1>2 DEF StoreIInv

(* An idle or acknowledged job writes nothing. *)
LEMMA JobStarts ==
    /\ WritesForReal(NoJob)
    /\ \A o \in Outcomes, sim \in BOOLEAN :
         [NoJob EXCEPT !.pc = "lock", !.o = o, !.sim = sim] \in Jobs
    /\ \A o \in Outcomes, sim \in BOOLEAN :
         WritesForReal([NoJob EXCEPT !.pc = "lock", !.o = o, !.sim = sim])
    /\ [NoJob EXCEPT !.pc = "ack"] \in Jobs /\ WritesForReal([NoJob EXCEPT !.pc = "ack"])
<1>1. WritesForReal(NoJob)
  BY DEF WritesForReal, NoJob
<1>2. ASSUME NEW o \in Outcomes, NEW sim \in BOOLEAN
      PROVE  /\ [NoJob EXCEPT !.pc = "lock", !.o = o, !.sim = sim] \in Jobs
             /\ WritesForReal([NoJob EXCEPT !.pc = "lock", !.o = o, !.sim = sim])
  <2> DEFINE r == [NoJob EXCEPT !.pc = "lock", !.o = o, !.sim = sim]
  <2>1. r \in Jobs
    BY Starts DEF Jobs
  <2>2. r.pc = "lock"
    BY Starts DEF Jobs
  <2> HIDE DEF r
  <2>3. WritesForReal(r)
    BY <2>2 DEF WritesForReal
  <2> QED
    BY <2>1, <2>3 DEF r
<1>3. [NoJob EXCEPT !.pc = "ack"] \in Jobs /\ WritesForReal([NoJob EXCEPT !.pc = "ack"])
  <2> DEFINE r == [NoJob EXCEPT !.pc = "ack"]
  <2>1. r \in Jobs /\ r.pc = "ack"
    BY Starts DEF Jobs
  <2> HIDE DEF r
  <2>2. WritesForReal(r)
    BY <2>1 DEF WritesForReal
  <2> QED
    BY <2>1, <2>2 DEF r
<1> QED
  BY <1>1, <1>2, <1>3

(* Every step of the classifier keeps the invariant of the stores. *)
LEMMA ClassifierKeeps ==
    ASSUME StoreIInv, Classifier
    PROVE  StoreIInv'
<1>1. job \in Jobs /\ rules \subseteq Lists /\ open \in BOOLEAN /\ staged \in BOOLEAN
  BY TypeParts DEF StoreIInv
<1>2. WritesForReal(job)
  BY DEF StoreIInv
<1>3. ASSUME NEW o \in Outcomes, NEW sim \in SimulationModes, Classify(o, sim) PROVE StoreIInv'
  BY <1>1, <1>3, JobKeeps, JobStarts, ReviewConstants DEF Classify
<1>4. CASE ReadLock
  <2> DEFINE c == Conflicting(job.o.action)
             j == [job EXCEPT !.conflict = c]
  <2>1. c \in BOOLEAN
    BY DEF Conflicting
  <2> HIDE DEF c
  <2>2. j \in Jobs
    BY <1>1, <2>1 DEF Jobs
  <2> HIDE DEF j
  <2>3. job' = Advanced(j, 0) /\ UNCHANGED <<profiled, rules, lock, review, open, pref, staged, deciding>>
    BY <1>4 DEF ReadLock, j, c
  <2> QED
    BY <1>1, <2>2, <2>3, AdvancedFacts, JobKeeps
<1>5. CASE CheckPreference
  <2>1. UNCHANGED <<profiled, rules, lock, review, open, pref, staged, deciding>>
    BY <1>5 DEF CheckPreference
  <2>2. CASE pref # "none"
    BY <1>1, <1>5, <2>1, <2>2, TaskStage, AdvancedFacts, JobKeeps DEF CheckPreference
  <2>3. CASE pref = "none"
    <3>1. job' = [job EXCEPT !.checked = TRUE] /\ job.pc \in Sources
      BY <1>5, <2>3 DEF CheckPreference
    <3>2. job' \in Jobs /\ job'.pc = job.pc
      BY <1>1, <3>1 DEF Jobs
    <3>3. WritesForReal(job')
      BY <3>1, <3>2 DEF Sources, WritesForReal
    <3> QED
      BY <1>1, <2>1, <3>2, <3>3, JobKeeps
  <2> QED
    BY <2>2, <2>3
<1>6. CASE CreateTask
  BY <1>1, <1>6, TaskStage, AdvancedFacts, JobKeeps DEF CreateTask
<1>7. CASE CheckWrite
  <2>1. CASE job' = [job EXCEPT !.pc = "send"] /\ staged' = staged
    <3>1. job.pc = "write" /\ Acting(job) /\ ~job.sim
      BY <1>2, <1>7 DEF CheckWrite, WritesForReal
    <3>2. job' \in Jobs /\ job'.o = job.o /\ job'.sim = job.sim /\ job'.conflict = job.conflict
      BY <1>1, <2>1 DEF Jobs
    <3>3. WritesForReal(job')
      BY <3>1, <3>2 DEF WritesForReal, Acting
    <3> QED
      BY <1>1, <1>7, <2>1, <3>2, <3>3, JobKeeps DEF CheckWrite
  <2>2. CASE Failed
    BY <1>1, <1>7, <2>2, Starts, JobStarts, JobKeeps DEF CheckWrite, Failed
  <2> QED
    BY <1>7, <2>1, <2>2 DEF CheckWrite
<1>8. CASE SendWrite
  <2>1. rules' \subseteq Lists
    <3>1. job.o.action \in Lists
      BY <1>1, <1>2, <1>8 DEF SendWrite, WritesForReal, Acting, Jobs, Outcomes
    <3> QED
      BY <1>1, <1>8, <3>1 DEF SendWrite
  <2>2. CASE job' = Advanced(job, 4) /\ staged' = staged
    BY <1>1, <1>8, <2>1, <2>2, AdvancedFacts, JobKeeps DEF SendWrite
  <2>3. CASE Failed
    BY <1>1, <1>8, <2>1, <2>3, Starts, JobStarts, JobKeeps DEF SendWrite, Failed
  <2> QED
    BY <1>8, <2>2, <2>3 DEF SendWrite
<1>9. CASE Save
  <2>1. Saved(job) \in Rows /\ (Saved(job).status = "simulated" => Saved(job).needs)
    <3> DEFINE status == IF ~Acting(job) THEN "none" ELSE IF job.sim THEN "simulated" ELSE "applied"
               needs == job.o.needs \/ (Acting(job) /\ job.sim)
    <3>2. status \in {"none", "simulated", "applied", "dismissed"} /\ needs \in BOOLEAN
      BY <1>1 DEF Jobs, Outcomes
    <3>3. status = "simulated" => needs
      OBVIOUS
    <3>4. Saved(job) = [exists |-> TRUE, status |-> status, needs |-> needs]
      BY DEF Saved
    <3> HIDE DEF status, needs
    <3> QED
      BY <3>2, <3>3, <3>4 DEF Rows
  <2>2. job' \in Jobs /\ WritesForReal(job') /\ review' = Saved(job)
    BY <1>9, JobStarts DEF Save
  <2>3. TypeOK'
    BY <1>9, <2>1, <2>2, TypeParts DEF Save, StoreIInv, TypeOK, Rows, Jobs
  <2>4. PendingIsVisible'
    BY <2>1, <2>2 DEF PendingIsVisible
  <2> QED
    BY <1>9, <2>2, <2>3, <2>4 DEF Save, StoreIInv
<1>10. CASE Ack
  BY <1>1, <1>10, Starts, JobStarts, JobKeeps DEF Ack
<1> QED
  BY <1>3, <1>4, <1>5, <1>6, <1>7, <1>8, <1>9, <1>10 DEF Classifier

(* The classifier only ever adds a rule, and none in simulation mode. *)
LEMMA ClassifierAdds ==
    ASSUME StoreIInv, Classifier
    PROVE  rules \subseteq rules' /\ (rules' # rules => ~job.sim)
BY DEF Classifier, Classify, ReadLock, CheckPreference, CreateTask, CheckWrite, SendWrite,
       Save, Ack, StoreIInv, WritesForReal

-----------------------------------------------------------------------------
(* The decisions. *)

(* The frontend u goes on as r, which keeps the rule it read or added. *)
GoesOn(u, r) ==
    /\ r \in Deciders /\ ForAList(r)
    /\ deciding' = [deciding EXCEPT ![u] = r]
    /\ HasRule(deciding[u], rules) => HasRule(r, rules')
    /\ r.pc \in OnRules => /\ deciding[u].pc \in OnRules
                           /\ r.d = deciding[u].d /\ r.contested = deciding[u].contested

(* Another step of the same decision. *)
LEMMA StepFacts ==
    ASSUME NEW q \in Deciders, NEW pc \in Steps
    PROVE  /\ [q EXCEPT !.pc = pc] \in Deciders /\ [q EXCEPT !.pc = pc].pc = pc
           /\ [q EXCEPT !.pc = pc].d = q.d /\ [q EXCEPT !.pc = pc].desired = q.desired
           /\ [q EXCEPT !.pc = pc].opposite = q.opposite
           /\ [q EXCEPT !.pc = pc].contested = q.contested
BY DEF Deciders

(* A decision that goes to its next step still has the rule it relies on. *)
LEMMA GotoGoesOn ==
    ASSUME deciding \in [Frontends -> Deciders], NEW u \in Frontends, NEW pc \in Steps,
           Goto(u, pc),
           deciding[u].d \in Lists \/ pc \in {"idle", "unstage", "resolve", "close", "prefer"},
           pc \in OnRules => deciding[u].pc \in OnRules /\ pc # "opposite",
           HasRule(deciding[u], rules) /\ ~deciding[u].contested /\ pc \in {"delete", "deleting", "mark"}
             => deciding[u].d \in rules'
    PROVE  \E r \in Deciders : GoesOn(u, r)
<1> DEFINE r == [deciding[u] EXCEPT !.pc = pc]
<1>1. deciding' = [deciding EXCEPT ![u] = r]
  BY DEF Goto
<1>2. /\ r \in Deciders /\ r.pc = pc /\ r.d = deciding[u].d /\ r.desired = deciding[u].desired
      /\ r.contested = deciding[u].contested
  BY StepFacts
<1> HIDE DEF r
<1>3. ForAList(r)
  BY <1>2 DEF ForAList, OnRules
<1>4. HasRule(deciding[u], rules) => HasRule(r, rules')
  BY <1>2 DEF HasRule, OnRules
<1> QED
  BY <1>1, <1>2, <1>3, <1>4 DEF GoesOn

(* A decision that ends relies on no rule. *)
LEMMA StopGoesOn ==
    ASSUME NEW u \in Frontends, Stop(u)
    PROVE  \E r \in Deciders : GoesOn(u, r)
<1>1. ForAList(NotDeciding) /\ HasRule(NotDeciding, rules') /\ NotDeciding.pc \notin OnRules
  BY DEF NotDeciding, ForAList, HasRule, OnRules
<1> QED
  BY <1>1, Starts DEF Stop, GoesOn

(* The start of a decision changes no rule; it is contested by the opposite *)
(* decisions under way, and contests them.                                  *)
LEMMA DecideKeeps ==
    ASSUME StoreIInv, NEW u \in Frontends, \E d \in Decisions : Decide(u, d)
    PROVE  /\ deciding' \in [Frontends -> Deciders] /\ rules' = rules
           /\ \A v \in Frontends : ForAList(deciding'[v])
           /\ \A v \in Frontends : HasRule(deciding[v], rules) => HasRule(deciding'[v], rules')
           /\ Contests => Contests'
<1>0. PICK d \in Decisions : Decide(u, d)
  OBVIOUS
<1> DEFINE A == Against(d)
           pc == IF d \in Lists THEN "desired" ELSE "unstage"
           against == (A # {})
           mine == [NotDeciding EXCEPT !.d = d, !.contested = against, !.pc = pc]
           theirs(v) == [deciding[v] EXCEPT !.contested = @ \/ v \in A]
<1>1. deciding \in [Frontends -> Deciders] /\ \A v \in Frontends : ForAList(deciding[v])
  BY TypeParts DEF StoreIInv
<1>2. /\ deciding' = [v \in Frontends |-> IF v = u THEN mine ELSE theirs(v)]
      /\ rules' = rules /\ deciding[u].pc = "idle"
  BY <1>0 DEF Decide, At
<1>3. pc \in Steps /\ (pc \in OnRules => d \in Lists) /\ pc \in {"desired", "unstage"}
  BY DEF Steps, OnRules
<1>4. mine \in Deciders /\ mine.pc = pc /\ mine.d = d /\ mine.contested = against
  <2>1. against \in BOOLEAN
    OBVIOUS
  <2> HIDE DEF pc, against
  <2> QED
    BY <1>3, <2>1, Starts DEF Deciders
<1>5. ASSUME NEW v \in Frontends
      PROVE  /\ theirs(v) \in Deciders /\ theirs(v).pc = deciding[v].pc /\ theirs(v).d = deciding[v].d
             /\ theirs(v).desired = deciding[v].desired
             /\ theirs(v).contested = (deciding[v].contested \/ v \in A)
  <2> DEFINE c == deciding[v].contested \/ v \in A
  <2>1. c \in BOOLEAN
    OBVIOUS
  <2>2. theirs(v) = [deciding[v] EXCEPT !.contested = c]
    BY <1>1 DEF Deciders
  <2> HIDE DEF c, theirs
  <2> QED
    BY <1>1, <2>1, <2>2 DEF Deciders, c
<1> HIDE DEF mine, theirs, pc
<1>6. deciding' \in [Frontends -> Deciders]
  BY <1>2, <1>4, <1>5
<1>7. ASSUME NEW v \in Frontends
      PROVE  ForAList(deciding'[v]) /\ (HasRule(deciding[v], rules) => HasRule(deciding'[v], rules'))
  <2>1. CASE v = u
    BY <1>2, <1>3, <1>4, <2>1 DEF ForAList, HasRule
  <2>2. CASE v # u
    BY <1>1, <1>2, <1>5, <2>2 DEF ForAList, HasRule
  <2> QED
    BY <2>1, <2>2
<1>8. ASSUME Contests PROVE Contests'
  <2> SUFFICES ASSUME NEW v \in Frontends, NEW w \in Frontends,
                      deciding'[v].pc \in OnRules, deciding'[w].pc \in OnRules,
                      deciding'[v].d = Other(deciding'[w].d)
               PROVE  deciding'[v].contested
    BY DEF Contests, Contest
  <2>0. ASSUME NEW t \in Lists PROVE Other(t) # t /\ Other(Other(t)) = t
    BY DEF Lists, Other
  <2>1. CASE v = u /\ w = u
    BY <1>2, <1>3, <1>4, <2>0, <2>1
  <2>2. CASE v = u /\ w # u
    <3>1. deciding[w].pc \in OnRules /\ d = Other(deciding[w].d) /\ d \in Lists
          /\ deciding[w].d \in Lists
      BY <1>1, <1>2, <1>3, <1>4, <1>5, <2>2 DEF ForAList
    <3>2. w \in A
      BY <2>0, <3>1 DEF Against
    <3> QED
      BY <1>2, <1>4, <2>2, <3>2
  <2>3. CASE v # u /\ w = u
    <3>1. deciding[v].pc \in OnRules /\ deciding[v].d = Other(d) /\ d \in Lists
      BY <1>2, <1>3, <1>4, <1>5, <2>3
    <3>2. v \in A
      BY <3>1 DEF Against
    <3> QED
      BY <1>2, <1>5, <2>3, <3>2
  <2>4. CASE v # u /\ w # u
    BY <1>2, <1>5, <1>8, <2>4 DEF Contests, Contest
  <2> QED
    BY <2>1, <2>2, <2>3, <2>4
<1> QED
  BY <1>2, <1>6, <1>7, <1>8

(* What a later step of a decision does to the decision and to the rules. *)
LEMMA FrontendStep ==
    ASSUME StoreIInv, NEW u \in Frontends, Frontend(u), ~\E d \in Decisions : Decide(u, d)
    PROVE  /\ \E r \in Deciders : GoesOn(u, r)
           /\ \/ rules' = rules
              \/ /\ At(u, "adding") /\ deciding[u].d \in Lists
                 /\ rules' = rules \cup {deciding[u].d}
              \/ /\ At(u, "deleting") /\ deciding[u].d \in Lists
                 /\ rules' = rules \ {Other(deciding[u].d)}
<1> DEFINE q == deciding[u]
           Goal == \E r \in Deciders : GoesOn(u, r)
           RulesStep == \/ rules' = rules
                        \/ At(u, "adding") /\ q.d \in Lists /\ rules' = rules \cup {q.d}
                        \/ At(u, "deleting") /\ q.d \in Lists /\ rules' = rules \ {Other(q.d)}
<1>1. deciding \in [Frontends -> Deciders] /\ q \in Deciders /\ ForAList(q)
  BY TypeParts DEF StoreIInv
<1>3. CASE ReadDesired(u)
  <2> DEFINE seen == (q.d \in rules)
             r == [q EXCEPT !.pc = "opposite", !.desired = seen]
  <2>1. seen \in BOOLEAN /\ (seen <=> q.d \in rules)
    OBVIOUS
  <2>2. deciding' = [deciding EXCEPT ![u] = r] /\ rules' = rules /\ q.pc = "desired"
    BY <1>1, <1>3 DEF ReadDesired, At
  <2> HIDE DEF seen
  <2>3. r \in Deciders
    BY <1>1, <2>1 DEF Deciders, Steps
  <2>4. r.pc = "opposite" /\ r.d = q.d /\ r.desired = seen /\ r.contested = q.contested
    BY <1>1, <2>1 DEF Deciders
  <2> HIDE DEF r
  <2>5. ForAList(r) /\ HasRule(r, rules')
    BY <1>1, <2>1, <2>2, <2>4 DEF ForAList, HasRule, OnRules
  <2> QED
    BY <2>2, <2>3, <2>4, <2>5 DEF GoesOn, OnRules
<1>4. CASE ReadOpposite(u)
  <2> DEFINE there == (Other(q.d) \in rules)
             pc == Plan(u, there)
             kept == there /\ pc = "add"
             r == [q EXCEPT !.pc = pc, !.desired = FALSE, !.opposite = kept]
  <2>1. kept \in BOOLEAN
    OBVIOUS
  <2>2. deciding' = [deciding EXCEPT ![u] = r] /\ rules' = rules /\ q.pc = "opposite"
    BY <1>1, <1>4 DEF ReadOpposite, At
  <2>3. pc \in {"add", "delete", "mark"} /\ (pc # "add" => q.desired)
    BY DEF Plan
  <2> HIDE DEF there, pc, kept
  <2>4. r \in Deciders
    BY <1>1, <2>1, <2>3 DEF Deciders, Steps
  <2>5. r.pc = pc /\ r.d = q.d /\ r.contested = q.contested
    BY <1>1, <2>1, <2>3 DEF Deciders
  <2> HIDE DEF r
  <2>6. ForAList(r) /\ (HasRule(q, rules) => HasRule(r, rules'))
    BY <1>1, <2>2, <2>3, <2>5 DEF ForAList, HasRule, OnRules
  <2> QED
    BY <2>2, <2>4, <2>5, <2>6 DEF GoesOn, OnRules
<1>5. CASE CheckAdd(u)
  <2>1. q.d \in Lists /\ rules' = rules
    BY <1>1, <1>5 DEF CheckAdd, At, ForAList, OnRules
  <2>2. CASE Goto(u, "adding")
    BY <1>1, <1>5, <2>1, <2>2, GotoGoesOn DEF Steps, OnRules, CheckAdd, At
  <2> QED
    BY <1>5, <2>1, <2>2, StopGoesOn DEF CheckAdd
<1>6. CASE AddRule(u)
  <2>1. q.d \in Lists /\ At(u, "adding")
    BY <1>1, <1>6 DEF AddRule, At, ForAList, OnRules
  <2>2. RulesStep
    BY <1>6, <2>1 DEF AddRule
  <2>3. CASE ~Stop(u)
    <3> DEFINE pc == IF q.opposite THEN "delete" ELSE "mark"
               r == [q EXCEPT !.pc = pc, !.opposite = FALSE]
    <3>1. rules' = rules \cup {q.d} /\ deciding' = [deciding EXCEPT ![u] = r]
      BY <1>1, <1>6, <2>3 DEF AddRule
    <3>2. pc \in {"delete", "mark"}
      OBVIOUS
    <3> HIDE DEF pc
    <3>3. r \in Deciders /\ r.pc = pc /\ r.d = q.d /\ r.contested = q.contested
      BY <1>1, <3>2 DEF Deciders, Steps
    <3> HIDE DEF r
    <3>4. ForAList(r) /\ HasRule(r, rules')
      BY <2>1, <3>1, <3>2, <3>3 DEF ForAList, HasRule
    <3> QED
      BY <2>1, <2>2, <3>1, <3>3, <3>4 DEF GoesOn, OnRules, At
  <2> QED
    BY <2>2, <2>3, StopGoesOn
<1>7. CASE CheckDelete(u)
  <2>1. q.d \in Lists /\ rules' = rules /\ q.pc = "delete"
    BY <1>1, <1>7 DEF CheckDelete, At, ForAList, OnRules
  <2>2. CASE Goto(u, "deleting")
    BY <1>1, <2>1, <2>2, GotoGoesOn DEF Steps, HasRule, OnRules
  <2> QED
    BY <1>7, <2>1, <2>2, StopGoesOn DEF CheckDelete
<1>8. CASE DeleteRule(u)
  <2>1. q.d \in Lists /\ At(u, "deleting")
    BY <1>1, <1>8 DEF DeleteRule, At, ForAList, OnRules
  <2>2. RulesStep
    BY <1>8, <2>1 DEF DeleteRule
  <2>3. CASE rules' = rules \ {Other(q.d)} /\ Goto(u, "mark")
    <3>1. HasRule(q, rules) /\ ~q.contested => q.d \in rules'
      BY <2>1, <2>3 DEF HasRule, At, Other, Lists
    <3> QED
      BY <1>1, <2>1, <2>3, <3>1, GotoGoesOn DEF Steps, OnRules, At
  <2> QED
    BY <1>8, <2>2, <2>3, StopGoesOn DEF DeleteRule
<1>9. CASE Mark(u)
  <2> DEFINE r == [NotDeciding EXCEPT !.pc = "unstage", !.d = q.d]
  <2>1. deciding' = [deciding EXCEPT ![u] = r] /\ rules' = rules
    BY <1>9 DEF Mark
  <2>2. q.d \in Decisions
    BY <1>1 DEF Deciders
  <2>3. r \in Deciders
    BY <2>2, Starts DEF Deciders, Steps
  <2>4. r.pc = "unstage"
    BY Starts DEF Deciders
  <2> HIDE DEF r
  <2>5. ForAList(r) /\ HasRule(r, rules')
    BY <2>4 DEF ForAList, HasRule, OnRules
  <2> QED
    BY <2>1, <2>3, <2>4, <2>5 DEF GoesOn, OnRules
<1>10. CASE Unstage(u)
  <2> DEFINE pc == CASE q.d \in Lists -> "prefer"
                     [] q.d = "ignore" -> "resolve"
                     [] OTHER -> "close"
  <2>1. pc \in {"prefer", "resolve", "close"}
    BY DEF Lists
  <2>2. Goto(u, pc) /\ rules' = rules
    BY <1>10 DEF Unstage
  <2> HIDE DEF pc
  <2> QED
    BY <1>1, <2>1, <2>2, GotoGoesOn DEF Steps, OnRules
<1>11. CASE ResolveReview(u) \/ CloseTasks(u)
  <2>1. Goto(u, "prefer") /\ rules' = rules
    BY <1>11 DEF ResolveReview, CloseTasks
  <2> QED
    BY <1>1, <2>1, GotoGoesOn DEF Steps, OnRules
<1>12. CASE Prefer(u)
  BY <1>12, StopGoesOn DEF Prefer
<1> QED
  BY <1>3, <1>4, <1>5, <1>6, <1>7, <1>8, <1>9, <1>10, <1>11, <1>12 DEF Frontend

(* A row that is marked or resolved stays a row, and shows what is pending. *)
LEMMA RowFacts ==
    ASSUME NEW row \in Rows, row.status = "simulated" => row.needs
    PROVE  /\ Resolved(row) \in Rows /\ Resolved(row).status # "simulated"
           /\ \A d \in Lists :
                LET marked == [row EXCEPT !.status = "applied", !.needs = FALSE]
                IN  marked \in Rows /\ marked.status = "applied"
<1>1. Resolved(row) \in Rows /\ Resolved(row).status # "simulated"
  <2> DEFINE st == IF row.status = "simulated" THEN "dismissed" ELSE row.status
             r == [row EXCEPT !.needs = FALSE, !.status = st]
  <2>1. st \in {"none", "applied", "dismissed"}
    BY DEF Rows
  <2>2. Resolved(row) = r
    BY DEF Resolved, Rows
  <2> HIDE DEF st
  <2>3. r \in Rows
    BY <2>1 DEF Rows
  <2>4. r.status = st
    BY <2>1 DEF Rows
  <2> HIDE DEF r
  <2> QED
    BY <2>1, <2>2, <2>3, <2>4
<1>2. ASSUME NEW d \in Lists
      PROVE  LET marked == [row EXCEPT !.status = "applied", !.needs = FALSE]
             IN  marked \in Rows /\ marked.status = "applied"
  <2> DEFINE r == [row EXCEPT !.status = "applied", !.needs = FALSE]
  <2>1. r \in Rows
    BY DEF Rows
  <2>2. r.status = "applied"
    BY DEF Rows
  <2> QED
    BY <2>1, <2>2
<1> QED
  BY <1>1, <1>2

(* Every step of a decision keeps the invariant of the stores. *)
LEMMA FrontendKeeps ==
    ASSUME StoreIInv, NEW u \in Frontends, Frontend(u)
    PROVE  StoreIInv'
<1>1. CASE \E d \in Decisions : Decide(u, d)
  <2>0. PICK d \in Decisions : Decide(u, d)
    BY <1>1
  <2>1. deciding' \in [Frontends -> Deciders] /\ \A v \in Frontends : ForAList(deciding'[v])
    BY <1>1, DecideKeeps
  <2>2. UNCHANGED <<rules, lock, job, profiled, review, open, pref, staged>>
    BY <2>0 DEF Decide, stores
  <2>3. TypeOK'
    BY <2>1, <2>2, TypeParts DEF StoreIInv, TypeOK, Rows, Jobs, Deciders, Steps
  <2>4. PendingIsVisible' /\ WritesForReal(job)'
    BY <2>2 DEF StoreIInv, PendingIsVisible, WritesForReal, Acting
  <2> QED
    BY <2>1, <2>3, <2>4 DEF StoreIInv
<1> SUFFICES ASSUME ~\E d \in Decisions : Decide(u, d) PROVE StoreIInv'
  BY <1>1
<1>0. PICK r \in Deciders : GoesOn(u, r)
  BY FrontendStep
<1>2. /\ profiled \in BOOLEAN /\ rules \subseteq Lists /\ lock \in Lists \cup {"none"}
      /\ open \in BOOLEAN /\ staged \in BOOLEAN /\ pref \in {"none", "postpone", "never_ask"}
      /\ review \in Rows /\ job \in Jobs /\ deciding \in [Frontends -> Deciders]
  BY TypeParts DEF StoreIInv
<1>3. /\ deciding' \in [Frontends -> Deciders]
      /\ \A v \in Frontends : ForAList(deciding'[v])
  BY <1>0, <1>2 DEF GoesOn, StoreIInv
<1>4. UNCHANGED <<profiled, lock, job>>
  BY DEF Frontend, Decide, ReadDesired, ReadOpposite, CheckAdd, AddRule, CheckDelete,
         DeleteRule, Mark, Unstage, ResolveReview, CloseTasks, Prefer, stores
<1>5. rules' \subseteq Lists
  BY <1>2, FrontendStep
<1>6. open' \in BOOLEAN /\ staged' \in BOOLEAN
  BY <1>2 DEF Frontend, Decide, ReadDesired, ReadOpposite, CheckAdd, AddRule, CheckDelete,
         DeleteRule, Mark, Unstage, ResolveReview, CloseTasks, Prefer, stores
<1>7. pref' \in {"none", "postpone", "never_ask"}
  BY <1>2 DEF Frontend, Decide, ReadDesired, ReadOpposite, CheckAdd, AddRule, CheckDelete,
         DeleteRule, Mark, Unstage, ResolveReview, CloseTasks, Prefer, Preferred, stores
<1>8. review' \in Rows /\ (review'.status = "simulated" => review'.needs)
  <2>1. review \in Rows /\ (review.status = "simulated" => review.needs)
    BY <1>2 DEF StoreIInv, PendingIsVisible
  <2>2. CASE review' = review
    BY <2>1, <2>2
  <2>3. CASE Mark(u)
    <3>1. deciding[u].d \in Lists
      BY <2>3 DEF Mark, At, StoreIInv, ForAList, OnRules
    <3> QED
      BY <2>1, <2>3, <3>1, RowFacts DEF Mark
  <2>4. CASE ResolveReview(u)
    BY <2>1, <2>4, RowFacts DEF ResolveReview
  <2> QED
    BY <2>2, <2>3, <2>4 DEF Frontend, Decide, ReadDesired, ReadOpposite, CheckAdd, AddRule,
       CheckDelete, DeleteRule, Unstage, CloseTasks, Prefer, stores
<1>9. TypeOK'
  BY <1>2, <1>3, <1>4, <1>5, <1>6, <1>7, <1>8 DEF TypeOK, Rows, Jobs, Deciders, Steps
<1>10. PendingIsVisible' /\ WritesForReal(job)'
  BY <1>4, <1>8 DEF PendingIsVisible, StoreIInv, WritesForReal, Acting
<1> QED
  BY <1>3, <1>9, <1>10 DEF StoreIInv

(* The queue, protections, preferences and the end of the process. *)
LEMMA RestKeeps ==
    ASSUME StoreIInv,
           Enqueue \/ Reappear \/ RemoveLock \/ Crash \/ (\E t \in Lists : SetLock(t))
    PROVE  StoreIInv' /\ rules' = rules
<1>1. /\ rules' = rules /\ UNCHANGED <<profiled, review, open>>
      /\ lock' \in Lists \cup {"none"} /\ staged' \in BOOLEAN
      /\ pref' \in {"none", "postpone", "never_ask"}
  BY DEF Enqueue, Reappear, RemoveLock, Crash, SetLock, stores, StoreIInv, TypeOK
<1>2. (job' = job /\ deciding' = deciding)
      \/ (job' = NoJob /\ deciding' = [u \in Frontends |-> NotDeciding])
  BY DEF Enqueue, Reappear, RemoveLock, Crash, SetLock
<1>3. ForAList(NotDeciding) /\ WritesForReal(NoJob)
  BY JobStarts DEF ForAList, NotDeciding, OnRules
<1>4. /\ job' \in Jobs /\ WritesForReal(job') /\ deciding' \in [Frontends -> Deciders]
      /\ \A u \in Frontends : ForAList(deciding'[u])
  BY <1>2, <1>3, Starts, TypeParts DEF StoreIInv
<1>5. TypeOK'
  BY <1>1, <1>4, TypeParts DEF StoreIInv, TypeOK, Rows, Jobs, Deciders, Steps
<1>6. PendingIsVisible'
  BY <1>1 DEF StoreIInv, PendingIsVisible
<1> QED
  BY <1>1, <1>4, <1>5, <1>6 DEF StoreIInv

-----------------------------------------------------------------------------
(* Any number of frontends satisfies the invariant of the stores. *)
LEMMA StoreInductive == Spec => []StoreIInv
<1>1. Init => StoreIInv
  <2> SUFFICES ASSUME Init PROVE StoreIInv
    OBVIOUS
  <2>1. review \in Rows /\ review.status = "none"
    BY DEF Init, NoReview, Rows
  <2>2. TypeOK
    <3>1. job \in Jobs /\ deciding \in [Frontends -> Deciders]
      BY Starts DEF Init
    <3> QED
      BY <2>1, <3>1, TypeParts DEF Init
  <2>3. PendingIsVisible /\ WritesForReal(job)
    BY <2>1, JobStarts DEF Init, PendingIsVisible
  <2>4. \A u \in Frontends : ForAList(deciding[u])
    BY DEF Init, ForAList, NotDeciding, OnRules
  <2> QED
    BY <2>2, <2>3, <2>4 DEF StoreIInv
<1>2. StoreIInv /\ [Next]_vars => StoreIInv'
  <2> SUFFICES ASSUME StoreIInv, [Next]_vars PROVE StoreIInv'
    OBVIOUS
  <2>1. CASE UNCHANGED vars
    BY <2>1 DEF vars, StoreIInv, TypeOK, PendingIsVisible, WritesForReal, Acting
  <2> QED
    BY <2>1, ClassifierKeeps, FrontendKeeps, RestKeeps DEF Next
<1> QED
  BY <1>1, <1>2, PTL DEF Spec

(* review_save_classification, mark_action_applied and review_resolve, run  *)
(* by the classifier and any number of frontends: a simulated action that   *)
(* was neither applied nor dismissed stays marked for review.               *)
THEOREM PendingStaysVisible == Spec => []PendingIsVisible
<1>1. StoreIInv => PendingIsVisible
  BY DEF StoreIInv
<1> QED
  BY <1>1, StoreInductive, PTL

(* While simulation mode is on, a rule of Pi-hole changes only by the call  *)
(* of a frontend that executes a decision, with any number of frontends.    *)
THEOREM SimulationIsHarmless == Spec => SimulationLeavesRules
<1>1. StoreIInv /\ [Next]_vars =>
        [(job.sim /\ rules' # rules) =>
           \E u \in Frontends : At(u, "adding") \/ At(u, "deleting")]_vars
  <2> SUFFICES ASSUME StoreIInv, Next, job.sim, rules' # rules
               PROVE  \E u \in Frontends : At(u, "adding") \/ At(u, "deleting")
    BY DEF vars
  <2> QED
    BY ClassifierAdds, DecideKeeps, FrontendStep, RestKeeps DEF Next
<1> QED
  BY <1>1, StoreInductive, PTL DEF Spec, SimulationLeavesRules

-----------------------------------------------------------------------------
(* The rule an uncontested decision read or added stays until the decision  *)
(* is marked: the classifier only adds rules, the decision removes only the *)
(* opposite one, and whoever would remove this one contests it.             *)
LEMMA RuleStepKeeps ==
    ASSUME RuleIInv, [Next]_vars
    PROVE  /\ Contests' /\ \A u \in Frontends : HasRule(deciding'[u], rules')
           /\ (rules # {} /\ rules' = {}) =>
                \E u \in Frontends : At(u, "deleting") /\ deciding[u].contested
<1> DEFINE Kept == /\ Contests' /\ \A u \in Frontends : HasRule(deciding'[u], rules')
                   /\ (rules # {} /\ rules' = {}) =>
                        \E u \in Frontends : At(u, "deleting") /\ deciding[u].contested
<1>1. StoreIInv /\ Contests /\ (\A u \in Frontends : HasRule(deciding[u], rules))
      /\ deciding \in [Frontends -> Deciders] /\ \A u \in Frontends : ForAList(deciding[u])
  BY TypeParts DEF RuleIInv, StoreIInv
<1>2. CASE UNCHANGED vars
  BY <1>1, <1>2 DEF vars, Contests, Contest
<1>3. CASE Classifier
  <2>1. deciding' = deciding /\ rules \subseteq rules'
    BY <1>1, <1>3, ClassifierAdds DEF Classifier, Classify, ReadLock, CheckPreference, CreateTask,
       CheckWrite, SendWrite, Save, Ack
  <2> QED
    BY <1>1, <2>1 DEF HasRule, Contests, Contest
<1>4. ASSUME NEW u \in Frontends, Frontend(u) PROVE Kept
  <2>1. CASE \E d \in Decisions : Decide(u, d)
    BY <1>1, <2>1, DecideKeeps
  <2>2. CASE ~\E d \in Decisions : Decide(u, d)
    <3>1. PICK r \in Deciders : GoesOn(u, r)
      BY <1>1, <1>4, <2>2, FrontendStep
    <3>2. deciding'[u] = r /\ \A v \in Frontends : v # u => deciding'[v] = deciding[v]
      BY <1>1, <3>1 DEF GoesOn
    <3>3. Contests'
      BY <1>1, <3>1, <3>2 DEF Contests, Contest, GoesOn
    <3>4. HasRule(deciding'[u], rules')
      BY <1>1, <3>1, <3>2 DEF GoesOn
    <3>5. CASE rules \subseteq rules'
      BY <1>1, <3>2, <3>3, <3>4, <3>5 DEF HasRule
    <3>6. CASE At(u, "deleting") /\ deciding[u].d \in Lists
               /\ rules' = rules \ {Other(deciding[u].d)}
      <4>1. ASSUME NEW v \in Frontends, v # u PROVE HasRule(deciding'[v], rules')
        <5>1. CASE deciding[v].pc \in OnRules /\ deciding[v].d = Other(deciding[u].d)
          <6>1. deciding[v].contested
            BY <1>1, <3>6, <5>1 DEF Contests, Contest, At, OnRules
          <6> QED
            BY <3>2, <4>1, <6>1 DEF HasRule
        <5>2. CASE deciding[v].pc \in OnRules /\ deciding[v].d # Other(deciding[u].d)
          BY <1>1, <3>2, <3>6, <4>1, <5>2 DEF HasRule
        <5>3. CASE deciding[v].pc \notin OnRules
          BY <3>2, <4>1, <5>3 DEF HasRule, OnRules
        <5> QED
          BY <5>1, <5>2, <5>3
      <4>2. ~deciding[u].contested => rules' # {}
        BY <1>1, <3>6 DEF HasRule, At, Other, Lists
      <4> QED
        BY <3>3, <3>4, <3>6, <4>1, <4>2
    <3> QED
      BY <1>1, <1>4, <2>2, <3>5, <3>6, FrontendStep
  <2> QED
    BY <2>1, <2>2
<1>5. CASE Enqueue \/ Reappear \/ RemoveLock \/ Crash \/ (\E t \in Lists : SetLock(t))
  <2>1. rules' = rules
    BY <1>1, <1>5, RestKeeps
  <2>2. deciding' = deciding \/ deciding' = [u \in Frontends |-> NotDeciding]
    BY <1>5 DEF Enqueue, Reappear, RemoveLock, Crash, SetLock
  <2>3. HasRule(NotDeciding, rules) /\ NotDeciding.pc \notin OnRules
    BY DEF HasRule, NotDeciding, OnRules
  <2> QED
    BY <1>1, <2>1, <2>2, <2>3 DEF Contests, Contest
<1> QED
  BY <1>2, <1>3, <1>4, <1>5 DEF Next

(* The rule an uncontested decision relies on stays until its end. *)
LEMMA RuleInductive == Spec => []RuleIInv
<1>1. Init => Contests /\ \A u \in Frontends : HasRule(deciding[u], rules)
  BY DEF Init, NotDeciding, HasRule, Contests, Contest, OnRules
<1>2. StoreIInv' /\ RuleIInv /\ [Next]_vars => RuleIInv'
  BY RuleStepKeeps DEF RuleIInv
<1>3. Init /\ StoreIInv => RuleIInv
  BY <1>1 DEF RuleIInv
<1> QED
  BY <1>2, <1>3, StoreInductive, PTL DEF Spec

(* execute_review_decision against the classifier, other frontends,         *)
(* protections, failed calls and ends of the process: a decision nobody     *)
(* contested that is marked as applied has its rule in Pi-hole, and what is *)
(* pending is visible.                                                      *)
THEOREM DecisionsAreSound == Spec => []ReviewInv
<1>1. RuleIInv => ReviewInv
  BY DEF RuleIInv, StoreIInv, ReviewInv, DecidedRuleExists, HasRule, At
<1> QED
  BY <1>1, RuleInductive, PTL

(* A domain that has a rule loses its last one only to a decision another   *)
(* frontend contested, wherever a decision stops, and simulated analyses    *)
(* change no rule.                                                          *)
THEOREM RulesAreKept == Spec => RulesKept
<1>1. RuleIInv /\ [Next]_vars =>
        [(rules # {} /\ rules' = {}) =>
           \E u \in Frontends : At(u, "deleting") /\ deciding[u].contested]_vars
  BY RuleStepKeeps
<1> QED
  BY <1>1, RuleInductive, SimulationIsHarmless, PTL DEF Spec, RulesKept, RuleSurvives
=============================================================================
