------------------------- MODULE PiHoleChangesProofs -------------------------
(***************************************************************************)
(* Proofs about PiHoleChanges, for any threads, instances and Pi-holes,    *)
(* any rules and any number of changes and faults.                         *)
(***************************************************************************)
EXTENDS PiHoleChanges, SequenceTheorems, FiniteSetTheorems, TLAPS

Pcs == {"idle", "capture", "send", "record", "rb_capture", "rb_send", "rb_mark"}

(* What a thread q has in hand, given the log l, the Pi-holes s and the     *)
(* active one v: an addition has captured no previous state, what is added  *)
(* or updated is a rule, and a rollback works on an entry that may be       *)
(* undone.  One that nobody has raced is on the entry's Pi-hole and found   *)
(* there what the entry left; a deletion is compared by the call itself.    *)
ThreadOK(q, l, s, v) ==
    /\ q \in ThreadState
    /\ q.op = "add" => q.before = None /\ q.pc # "capture"
    /\ q.pc \in {"capture", "send", "record"} /\ q.op # "delete" => q.new # None
    /\ q.pc \in {"rb_capture", "rb_send", "rb_mark"} =>
          q.entry \in DOMAIN l /\ l[q.entry].reversible
    /\ q.pc \in {"rb_capture", "rb_send"} /\ ~q.raced => l[q.entry].url = v
    /\ q.pc = "rb_send" /\ ~q.raced =>
          \/ SnapshotMatches(s[v], Expected(l[q.entry]))
          \/ l[q.entry].op = "delete"

(* An entry that may be undone tells what to restore, and an addition       *)
(* restores nothing.                                                        *)
RowOK(e) ==
    /\ e.reversible => e.op \in Operations /\ (e.op = "add" \/ e.before # None)
    /\ e.op = "add" => e.before = None
    /\ e.op \in {"add", "update"} => e.after # None

(* The state of a Pi-hole is explained by the log or by a call whose row is *)
(* still to be written.                                                     *)
Explained(u) ==
    \/ unlogged
    \/ site[u] = origin[u]
    \/ \E n \in DOMAIN log : site[u] = Stored(log[n].after)
    \/ \E t \in Threads : thread[t].pc = "record" /\ site[u] = Stored(thread[t].new)
    \/ \E t \in Threads : thread[t].pc = "rb_mark"
                          /\ site[u] = Stored(log[thread[t].entry].before)

ThreadsOK == \A t \in Threads : ThreadOK(thread[t], log, site, url)
RowsOK == \A n \in DOMAIN log : RowOK(log[n])
AllExplained == \A u \in Urls : Explained(u)

(* The inductive invariant. *)
AuditIInv == TypeOK /\ ThreadsOK /\ RowsOK /\ RollbackTrail /\ AllExplained

-----------------------------------------------------------------------------
(* The thread's and the rule's values.                                      *)

(* What a Pi-hole stores of a rule is a rule. *)
LEMMA StoredIsSnapshot ==
    ASSUME NEW s \in Snapshot
    PROVE  Stored(s) \in Snapshot
<1>1. CASE s = None
  BY <1>1 DEF Stored, Snapshot
<1>2. CASE s # None
  <2>1. s \in Rule
    BY <1>2 DEF Snapshot
  <2>2. NoGroups \in Groups
    BY DEF Groups
  <2> DEFINE g == IF s.groups \in {None, {}} THEN NoGroups ELSE s.groups
  <2>3. g \in Groups
    BY <2>1, <2>2 DEF Rule
  <2>4. Stored(s) = [s EXCEPT !.groups = g]
    BY <1>2 DEF Stored
  <2> HIDE DEF g
  <2> QED
    BY <2>1, <2>3, <2>4 DEF Snapshot, Rule
<1> QED
  BY <1>1, <1>2

(* A thread that does nothing has nothing in hand. *)
LEMMA IdleIsOK ==
    ASSUME NEW l, NEW s, NEW v
    PROVE  ThreadOK(Idle, l, s, v) /\ Idle.pc = "idle"
<1>1. Idle \in ThreadState
  BY DEF Idle, ThreadState, Operations, Snapshot
<1> QED
  BY <1>1 DEF Idle, ThreadOK

(* A thread that goes to its next step. *)
LEMMA NextPc ==
    ASSUME NEW q \in ThreadState, NEW pc \in Pcs
    PROVE  /\ [q EXCEPT !.pc = pc] \in ThreadState
           /\ [q EXCEPT !.pc = pc].pc = pc /\ [q EXCEPT !.pc = pc].op = q.op
           /\ [q EXCEPT !.pc = pc].new = q.new /\ [q EXCEPT !.pc = pc].before = q.before
           /\ [q EXCEPT !.pc = pc].entry = q.entry /\ [q EXCEPT !.pc = pc].raced = q.raced
BY DEF ThreadState, Pcs

(* A thread that was raced has the same in hand as before. *)
LEMMA RacedThread ==
    ASSUME NEW q, NEW l, NEW s, NEW v, NEW s2, NEW v2, ThreadOK(q, l, s, v)
    PROVE  /\ ThreadOK([q EXCEPT !.raced = TRUE], l, s2, v2)
           /\ [q EXCEPT !.raced = TRUE].pc = q.pc /\ [q EXCEPT !.raced = TRUE].new = q.new
           /\ [q EXCEPT !.raced = TRUE].entry = q.entry
<1> DEFINE r == [q EXCEPT !.raced = TRUE]
<1>1. q \in ThreadState
  BY DEF ThreadOK
<1>2. r \in ThreadState
  BY <1>1 DEF ThreadState
<1>3. /\ r.pc = q.pc /\ r.op = q.op /\ r.new = q.new /\ r.before = q.before
      /\ r.entry = q.entry /\ r.raced = TRUE
  BY <1>1 DEF ThreadState
<1> HIDE DEF r
<1>4. ThreadOK(r, l, s2, v2)
  BY <1>2, <1>3 DEF ThreadOK
<1> QED
  BY <1>3, <1>4 DEF r

-----------------------------------------------------------------------------
(* The log.                                                                 *)

(* The log m tells of every row of l what l does, and may mark some. *)
Tells(l, m) ==
    /\ DOMAIN l \subseteq DOMAIN m
    /\ \A n \in DOMAIN l :
          /\ m[n].op = l[n].op /\ m[n].url = l[n].url /\ m[n].related = l[n].related
          /\ m[n].before = l[n].before /\ m[n].after = l[n].after
          /\ m[n].reversible = l[n].reversible
          /\ l[n].rolledBack => m[n].rolledBack

(* What a thread relies on stays when the log only goes on. *)
LEMMA ThreadFollowsLog ==
    ASSUME NEW q, NEW l, NEW m, NEW s, NEW v, ThreadOK(q, l, s, v), Tells(l, m)
    PROVE  ThreadOK(q, m, s, v)
<1>1. ASSUME q.pc \in {"rb_capture", "rb_send", "rb_mark"}
      PROVE  /\ q.entry \in DOMAIN l /\ q.entry \in DOMAIN m
             /\ m[q.entry].reversible = l[q.entry].reversible
             /\ m[q.entry].url = l[q.entry].url /\ m[q.entry].op = l[q.entry].op
             /\ Expected(m[q.entry]) = Expected(l[q.entry])
  BY <1>1 DEF ThreadOK, Tells, Expected
<1> QED
  BY <1>1 DEF ThreadOK

(* The fields of a row. *)
LEMMA RowFields ==
    ASSUME NEW r \in Row
    PROVE  /\ r.id \in Ids \cup {None} /\ r.url \in Urls /\ r.op \in Operations \cup {"rollback"}
           /\ r.before \in Snapshot /\ r.after \in Snapshot /\ r.reversible \in BOOLEAN
           /\ r.rolledBack \in BOOLEAN /\ r.error \in BOOLEAN /\ r.related \in Nat
BY DEF Row

(* A row with its error noted. *)
LEMMA RowWithError ==
    ASSUME NEW r \in Row
    PROVE  LET e == [r EXCEPT !.error = TRUE]
           IN  /\ e \in Row
               /\ e.op = r.op /\ e.url = r.url /\ e.related = r.related /\ e.before = r.before
               /\ e.after = r.after /\ e.reversible = r.reversible
               /\ e.rolledBack = r.rolledBack
BY DEF Row

(* A row that is marked. *)
LEMMA RowMarked ==
    ASSUME NEW r \in Row
    PROVE  LET e == [[r EXCEPT !.rolledBack = TRUE] EXCEPT !.error = FALSE]
           IN  /\ e \in Row
               /\ e.op = r.op /\ e.url = r.url /\ e.related = r.related /\ e.before = r.before
               /\ e.after = r.after /\ e.reversible = r.reversible
               /\ e.rolledBack = TRUE
BY DEF Row

(* An error noted on an entry changes nothing it tells. *)
LEMMA ErrorNoted ==
    ASSUME NEW l \in Seq(Row), NEW n \in DOMAIN l, NEW m, m = [l EXCEPT ![n].error = TRUE]
    PROVE  /\ m \in Seq(Row) /\ DOMAIN m = DOMAIN l /\ Len(m) = Len(l) /\ Tells(l, m)
           /\ \A k \in DOMAIN l : m[k].rolledBack = l[k].rolledBack
<1>1. l[n] \in Row /\ DOMAIN l = 1..Len(l)
  BY ElementOfSeq
<1> DEFINE r == [l[n] EXCEPT !.error = TRUE]
<1>2. m = [l EXCEPT ![n] = r]
  OBVIOUS
<1>3. /\ r \in Row
      /\ r.op = l[n].op /\ r.url = l[n].url /\ r.related = l[n].related /\ r.before = l[n].before
      /\ r.after = l[n].after /\ r.reversible = l[n].reversible
      /\ r.rolledBack = l[n].rolledBack
  BY <1>1, RowWithError
<1> HIDE DEF r
<1>4. n \in 1..Len(l)
  BY <1>1
<1>5. /\ m \in Seq(Row) /\ Len(m) = Len(l)
      /\ \A k \in 1..Len(l) : m[k] = IF k = n THEN r ELSE l[k]
  BY ONLY <1>2, <1>3, <1>4, l \in Seq(Row), ExceptSeq
<1>6. DOMAIN m = DOMAIN l /\ \A k \in DOMAIN l : m[k] = IF k = n THEN r ELSE l[k]
  BY <1>1, <1>5
<1> QED
  BY <1>3, <1>5, <1>6 DEF Tells

(* A row added at the end. *)
LEMMA Appended ==
    ASSUME NEW l \in Seq(Row), NEW r \in Row, NEW m, m = Append(l, r)
    PROVE  /\ m \in Seq(Row) /\ Len(m) = Len(l) + 1 /\ DOMAIN m = DOMAIN l \cup {Len(l) + 1}
           /\ m[Len(l) + 1] = r /\ \A k \in DOMAIN l : m[k] = l[k]
           /\ Tells(l, m)
<1>1. /\ m \in Seq(Row) /\ Len(m) = Len(l) + 1 /\ m[Len(l) + 1] = r
      /\ \A k \in 1..Len(l) : m[k] = l[k]
  BY AppendProperties
<1>2. DOMAIN m = 1..Len(m) /\ DOMAIN l = 1..Len(l) /\ Len(l) \in Nat
  BY <1>1
<1>3. DOMAIN m = DOMAIN l \cup {Len(l) + 1}
  BY <1>1, <1>2
<1> QED
  BY <1>1, <1>2, <1>3 DEF Tells

(* The rollback row of an entry. *)
RollbackRow(n) ==
    [log[n] EXCEPT !.op = "rollback", !.before = log[n].after, !.after = log[n].before,
                   !.reversible = FALSE, !.rolledBack = FALSE, !.error = FALSE, !.related = n]

(* It tells the way back, and is never undone itself. *)
LEMMA RollbackRowFields ==
    ASSUME log \in Seq(Row), NEW n \in DOMAIN log
    PROVE  /\ RollbackRow(n) \in Row
           /\ RollbackRow(n).op = "rollback" /\ RollbackRow(n).after = log[n].before
           /\ RollbackRow(n).reversible = FALSE /\ RollbackRow(n).rolledBack = FALSE
           /\ RollbackRow(n).related = n
<1>1. log[n] \in Row /\ n \in Nat
  BY ElementOfSeq
<1> DEFINE b == log[n].before
           a == log[n].after
           r == [log[n] EXCEPT !.op = "rollback", !.before = a, !.after = b, !.reversible = FALSE,
                               !.rolledBack = FALSE, !.error = FALSE, !.related = n]
<1>2. b \in Snapshot /\ a \in Snapshot
  BY <1>1, RowFields
<1> HIDE DEF a, b
<1>3. r \in Row
  BY <1>1, <1>2 DEF Row
<1>4. /\ r.op = "rollback" /\ r.after = b /\ r.reversible = FALSE /\ r.rolledBack = FALSE
      /\ r.related = n
  BY <1>1 DEF Row
<1>5. RollbackRow(n) = r
  BY DEF RollbackRow, a, b
<1> HIDE DEF r
<1> QED
  BY <1>3, <1>4, <1>5 DEF b

(* The transaction of a rollback marks its entry and adds that row. *)
LEMMA MarkedLog ==
    ASSUME log \in Seq(Row), NEW n \in DOMAIN log, NEW m, m = Marked(n)
    PROVE  /\ m \in Seq(Row) /\ Len(m) = Len(log) + 1
           /\ DOMAIN m = DOMAIN log \cup {Len(log) + 1}
           /\ m[Len(log) + 1] = RollbackRow(n) /\ Tells(log, m)
           /\ m[n].rolledBack
           /\ \A k \in DOMAIN log \ {n} : m[k].rolledBack = log[k].rolledBack
<1> DEFINE e == [[log[n] EXCEPT !.rolledBack = TRUE] EXCEPT !.error = FALSE]
           l == [log EXCEPT ![n].rolledBack = TRUE, ![n].error = FALSE]
<1>1. log[n] \in Row /\ DOMAIN log = 1..Len(log) /\ n \in 1..Len(log)
  BY ElementOfSeq
<1>2. /\ e \in Row
      /\ e.op = log[n].op /\ e.url = log[n].url /\ e.related = log[n].related
      /\ e.before = log[n].before /\ e.after = log[n].after
      /\ e.reversible = log[n].reversible /\ e.rolledBack = TRUE
  BY <1>1, RowMarked
<1>3. l = [log EXCEPT ![n] = e]
  OBVIOUS
<1>4. m = Append(l, RollbackRow(n))
  BY DEF Marked, RollbackRow
<1> HIDE DEF e, l
<1>5. /\ l \in Seq(Row) /\ Len(l) = Len(log)
      /\ \A k \in 1..Len(log) : l[k] = IF k = n THEN e ELSE log[k]
  BY ONLY <1>1, <1>2, <1>3, log \in Seq(Row), ExceptSeq
<1>6. DOMAIN l = DOMAIN log /\ Len(l) = Len(log)
  BY <1>1, <1>5
<1>7. /\ m \in Seq(Row) /\ Len(m) = Len(l) + 1 /\ DOMAIN m = DOMAIN l \cup {Len(l) + 1}
      /\ m[Len(l) + 1] = RollbackRow(n) /\ \A k \in DOMAIN l : m[k] = l[k]
  <2>1. RollbackRow(n) \in Row
    BY RollbackRowFields
  <2> QED
    BY ONLY <1>4, <1>5, <2>1, Appended
<1>8. \A k \in DOMAIN log : m[k] = IF k = n THEN e ELSE log[k]
  BY <1>1, <1>5, <1>6, <1>7
<1>9. /\ DOMAIN m = DOMAIN log \cup {Len(log) + 1} /\ Len(m) = Len(log) + 1
      /\ m[Len(log) + 1] = RollbackRow(n)
  BY <1>6, <1>7
<1>10. Tells(log, m)
  BY <1>2, <1>8, <1>9 DEF Tells
<1> QED
  BY <1>2, <1>7, <1>8, <1>9, <1>10

-----------------------------------------------------------------------------
(* Marks and rollback rows belong together.                                 *)

(* A log whose marks and length stay keeps the trail. *)
LEMMA TrailStays ==
    ASSUME RollbackTrail, Tells(log, log'), Len(log') = Len(log), DOMAIN log' = DOMAIN log,
           \A k \in DOMAIN log : log'[k].rolledBack = log[k].rolledBack,
           log \in Seq(Row)
    PROVE  RollbackTrail'
<1>1. DOMAIN log = 1..Len(log) /\ Len(log) \in Nat
  OBVIOUS
<1>2. \A n \in DOMAIN log : \A m \in (n + 1)..Len(log) : m \in DOMAIN log
  BY <1>1
<1>3. \A n \in DOMAIN log' : log'[n].rolledBack =>
          \E m \in (n + 1)..Len(log') : log'[m].op = "rollback" /\ log'[m].related = n
  BY <1>2 DEF RollbackTrail, Tells
<1>4. \A m \in DOMAIN log : \A k \in 1..(m - 1) : k \in DOMAIN log
  BY <1>1
<1>5. \A m \in DOMAIN log' : log'[m].op = "rollback" =>
          /\ log'[m].related \in 1..(m - 1)
          /\ log'[log'[m].related].rolledBack /\ log'[log'[m].related].reversible
  BY <1>4 DEF RollbackTrail, Tells
<1> QED
  BY <1>3, <1>5 DEF RollbackTrail

(* So does a log to which a row is added, where the row is that of a marked *)
(* entry or is neither marked nor a rollback, and where no other mark is    *)
(* new.                                                                     *)
LEMMA TrailGrows ==
    ASSUME RollbackTrail, log \in Seq(Row), Tells(log, log'),
           Len(log') = Len(log) + 1, DOMAIN log' = DOMAIN log \cup {Len(log) + 1},
           ~log'[Len(log) + 1].rolledBack,
           log'[Len(log) + 1].op = "rollback" =>
              /\ log'[Len(log) + 1].related \in DOMAIN log
              /\ log'[log'[Len(log) + 1].related].rolledBack
              /\ log[log'[Len(log) + 1].related].reversible,
           \A k \in DOMAIN log : log'[k].rolledBack =>
              \/ log[k].rolledBack
              \/ log'[Len(log) + 1].op = "rollback" /\ log'[Len(log) + 1].related = k
    PROVE  RollbackTrail'
<1> DEFINE last == Len(log) + 1
<1>1. DOMAIN log = 1..Len(log) /\ Len(log) \in Nat
  OBVIOUS
<1>2. ASSUME NEW n \in DOMAIN log', log'[n].rolledBack
      PROVE  \E m \in (n + 1)..Len(log') : log'[m].op = "rollback" /\ log'[m].related = n
  <2>1. n \in DOMAIN log
    BY <1>2
  <2>2. CASE log[n].rolledBack
    <3>1. PICK m \in (n + 1)..Len(log) : log[m].op = "rollback" /\ log[m].related = n
      BY <2>1, <2>2 DEF RollbackTrail
    <3>2. m \in DOMAIN log /\ m \in (n + 1)..Len(log')
      BY <1>1, <2>1
    <3> QED
      BY <3>1, <3>2 DEF Tells
  <2>3. CASE log'[last].op = "rollback" /\ log'[last].related = n
    <3>1. last \in (n + 1)..Len(log')
      BY <1>1, <2>1
    <3> QED
      BY <2>3, <3>1
  <2> QED
    BY <1>2, <2>1, <2>2, <2>3
<1>3. ASSUME NEW m \in DOMAIN log', log'[m].op = "rollback"
      PROVE  /\ log'[m].related \in 1..(m - 1)
             /\ log'[log'[m].related].rolledBack /\ log'[log'[m].related].reversible
  <2>1. CASE m \in DOMAIN log
    <3>1. /\ log[m].related \in 1..(m - 1)
          /\ log[log[m].related].rolledBack /\ log[log[m].related].reversible
          /\ log'[m].related = log[m].related
      BY <1>3, <2>1 DEF RollbackTrail, Tells
    <3>2. log[m].related \in DOMAIN log
      BY <1>1, <2>1, <3>1
    <3> QED
      BY <3>1, <3>2 DEF Tells
  <2>2. CASE m = last
    <3>1. /\ log'[m].related \in DOMAIN log /\ log'[log'[m].related].rolledBack
          /\ log[log'[m].related].reversible
      BY <1>3, <2>2
    <3>2. log'[m].related \in 1..(m - 1)
      BY <1>1, <2>2, <3>1
    <3> QED
      BY <3>1, <3>2 DEF Tells
  <2> QED
    BY <2>1, <2>2
<1> QED
  BY <1>2, <1>3 DEF RollbackTrail

-----------------------------------------------------------------------------
(* Steps.                                                                   *)

(* What every step leaves of the surroundings. *)
Still ==
    /\ kind' \in Kinds /\ url' \in Urls /\ active' \in Ids /\ lock' \in {None, "deny"}
    /\ rows' \in Snapshot /\ origin' = origin
    /\ started' \in 0..MaxChanges /\ faults' \in 0..MaxFaults /\ unlogged' \in BOOLEAN

(* The type invariant of the log and the threads follows from the rest. *)
LEMMA TypesFollow ==
    ASSUME TypeOK, Still, site' \in [Urls -> Snapshot], log' \in Seq(Row),
           thread' = [t \in Threads |-> thread'[t]], ThreadsOK'
    PROVE  TypeOK'
BY DEF TypeOK, Still, ThreadsOK, ThreadOK

(* A fault is counted. *)
LEMMA FaultCounts ==
    ASSUME TypeOK, Fault \/ UNCHANGED faults
    PROVE  faults' \in 0..MaxFaults
BY BoundsAreNat DEF TypeOK, Fault

(* Only the record of one thread changes, and it has no row to write. *)
LEMMA ThreadMoves ==
    ASSUME AuditIInv, NEW t \in Threads, NEW q, thread' = [thread EXCEPT ![t] = q],
           ThreadOK(q, log, site, url), thread[t].pc \notin {"record", "rb_mark"},
           UNCHANGED <<site, url, log, unlogged>>, Still
    PROVE  AuditIInv'
<1> USE DEF AuditIInv
<1>1. thread \in [Threads -> ThreadState]
  BY DEF TypeOK
<1>2. \A u \in Threads : thread'[u] = IF u = t THEN q ELSE thread[u]
  BY <1>1
<1>3. ThreadsOK'
  BY <1>2 DEF ThreadsOK
<1>4. RowsOK'
  BY DEF RowsOK
<1>5. RollbackTrail'
  BY DEF RollbackTrail
<1>6. AllExplained'
  <2> SUFFICES ASSUME NEW u \in Urls PROVE Explained(u)'
    BY DEF AllExplained
  <2>1. Explained(u)
    BY DEF AllExplained
  <2> QED
    BY <1>2, <2>1 DEF Explained, Still
<1>7. TypeOK'
  <2>1. thread' = [u \in Threads |-> thread'[u]]
    BY <1>1
  <2>2. site' \in [Urls -> Snapshot] /\ log' \in Seq(Row)
    BY DEF TypeOK
  <2> QED
    BY <1>3, <2>1, <2>2, TypesFollow
<1> QED
  BY <1>3, <1>4, <1>5, <1>6, <1>7

(* What a call of t that leaves q for it does to the others. *)
LEMMA OthersAreRaced ==
    ASSUME thread \in [Threads -> ThreadState], NEW t \in Threads, NEW q,
           thread' = OthersRaced(t, q)
    PROVE  /\ thread' = [u \in Threads |-> thread'[u]]
           /\ thread'[t] = q
           /\ \A u \in Threads \ {t} :
                 thread'[u] = IF thread[u].pc = "rb_send" THEN [thread[u] EXCEPT !.raced = TRUE]
                              ELSE thread[u]
BY DEF OthersRaced

(* A call that reached the Pi-hole: its row is still to be written, or it   *)
(* is known that none will be.                                              *)
LEMMA CallKeeps ==
    ASSUME AuditIInv, NEW t \in Threads, NEW q, NEW x \in Snapshot,
           site' = [site EXCEPT ![url] = Stored(x)],
           thread' = OthersRaced(t, q), thread[t].pc \notin {"record", "rb_mark"},
           ThreadOK(q, log, site, url), q.pc # "rb_send",
           log' \in Seq(Row), DOMAIN log' = DOMAIN log, Len(log') = Len(log), Tells(log, log'),
           \A k \in DOMAIN log : log'[k].rolledBack = log[k].rolledBack,
           url' = url, Still,
           \/ unlogged'
           \/ /\ unlogged' = unlogged
              /\ \/ q.pc = "record" /\ q.new = x
                 \/ q.pc = "rb_mark" /\ log[q.entry].before = x
    PROVE  AuditIInv'
<1> USE DEF AuditIInv
<1>1. thread \in [Threads -> ThreadState] /\ log \in Seq(Row) /\ site \in [Urls -> Snapshot]
      /\ url \in Urls
  BY DEF TypeOK
<1>2. /\ thread' = [u \in Threads |-> thread'[u]] /\ thread'[t] = q
      /\ \A u \in Threads \ {t} :
            thread'[u] = IF thread[u].pc = "rb_send" THEN [thread[u] EXCEPT !.raced = TRUE]
                         ELSE thread[u]
  BY <1>1, OthersAreRaced
<1>3. ASSUME NEW u \in Threads \ {t}
      PROVE  /\ ThreadOK(thread'[u], log, site', url)
             /\ thread'[u].pc = thread[u].pc /\ thread'[u].new = thread[u].new
             /\ thread'[u].entry = thread[u].entry
  <2>1. ThreadOK(thread[u], log, site, url)
    BY DEF ThreadsOK
  <2>2. CASE thread[u].pc = "rb_send"
    <3>1. thread'[u] = [thread[u] EXCEPT !.raced = TRUE]
      BY <1>2, <2>2
    <3> QED
      BY <2>1, <3>1, RacedThread
  <2>3. CASE thread[u].pc # "rb_send"
    <3>1. thread'[u] = thread[u]
      BY <1>2, <2>3
    <3> QED
      BY <2>1, <2>3, <3>1 DEF ThreadOK
  <2> QED
    BY <2>2, <2>3
<1>4. ThreadOK(q, log, site', url)
  BY DEF ThreadOK
<1>5. ThreadsOK'
  <2> SUFFICES ASSUME NEW u \in Threads PROVE ThreadOK(thread'[u], log', site', url')
    BY DEF ThreadsOK
  <2>1. ThreadOK(thread'[u], log, site', url)
    BY <1>2, <1>3, <1>4
  <2> QED
    BY <2>1, ThreadFollowsLog
<1>6. RowsOK'
  BY DEF RowsOK, RowOK, Tells
<1>7. RollbackTrail'
  BY <1>1, TrailStays
<1>8. AllExplained'
  <2> SUFFICES ASSUME NEW u \in Urls, ~unlogged' PROVE Explained(u)'
    BY DEF AllExplained, Explained
  <2>1. unlogged' = unlogged /\ origin' = origin
    BY DEF Still
  <2>2. CASE u = url
    <3>1. site'[u] = Stored(x)
      BY <1>1, <2>2
    <3>2. CASE q.pc = "record" /\ q.new = x
      BY <1>2, <3>1, <3>2 DEF Explained
    <3>3. CASE q.pc = "rb_mark" /\ log[q.entry].before = x
      <4>1. q.entry \in DOMAIN log
        BY <3>3 DEF ThreadOK
      <4>2. log'[q.entry].before = x
        BY <3>3, <4>1 DEF Tells
      <4> QED
        BY <1>2, <3>1, <3>3, <4>2 DEF Explained
    <3> QED
      BY <3>2, <3>3
  <2>3. CASE u # url
    <3>1. site'[u] = site[u]
      BY <1>1, <2>3
    <3>2. Explained(u)
      BY DEF AllExplained
    <3>3. CASE \E n \in DOMAIN log : site[u] = Stored(log[n].after)
      BY <3>1, <3>3 DEF Explained, Tells
    <3>4. CASE \E v \in Threads : thread[v].pc = "record" /\ site[u] = Stored(thread[v].new)
      <4>1. PICK v \in Threads : thread[v].pc = "record" /\ site[u] = Stored(thread[v].new)
        BY <3>4
      <4>2. thread'[v].pc = "record" /\ thread'[v].new = thread[v].new
        BY <1>3, <4>1
      <4> QED
        BY <3>1, <4>1, <4>2 DEF Explained
    <3>5. CASE \E v \in Threads : thread[v].pc = "rb_mark"
                                  /\ site[u] = Stored(log[thread[v].entry].before)
      <4>1. PICK v \in Threads : thread[v].pc = "rb_mark"
                                 /\ site[u] = Stored(log[thread[v].entry].before)
        BY <3>5
      <4>2. thread'[v].pc = "rb_mark" /\ thread'[v].entry = thread[v].entry
        BY <1>3, <4>1
      <4>3. thread[v].entry \in DOMAIN log
        BY <4>1 DEF ThreadsOK, ThreadOK
      <4>4. log'[thread[v].entry].before = log[thread[v].entry].before
        BY <4>3 DEF Tells
      <4> QED
        BY <3>1, <4>1, <4>2, <4>4 DEF Explained
    <3> QED
      BY <2>1, <3>1, <3>2, <3>3, <3>4, <3>5 DEF Explained
  <2> QED
    BY <2>2, <2>3
<1>9. TypeOK'
  <2>1. site' \in [Urls -> Snapshot]
    BY <1>1, StoredIsSnapshot
  <2> QED
    BY <1>2, <1>5, <2>1, TypesFollow
<1> QED
  BY <1>5, <1>6, <1>7, <1>8, <1>9

(* A thread ends: without a row to write, or with one that is lost. *)
LEMMA ThreadStops ==
    ASSUME AuditIInv, NEW t \in Threads, thread' = [thread EXCEPT ![t] = Idle],
           UNCHANGED <<site, url>>, Still,
           log' \in Seq(Row), DOMAIN log' = DOMAIN log, Len(log') = Len(log), Tells(log, log'),
           \A k \in DOMAIN log : log'[k].rolledBack = log[k].rolledBack,
           unlogged' \/ (unlogged' = unlogged /\ thread[t].pc \notin {"record", "rb_mark"})
    PROVE  AuditIInv'
<1> USE DEF AuditIInv
<1>1. thread \in [Threads -> ThreadState] /\ log \in Seq(Row) /\ site' \in [Urls -> Snapshot]
  BY DEF TypeOK
<1>2. \A u \in Threads : thread'[u] = IF u = t THEN Idle ELSE thread[u]
  BY <1>1
<1>3. ThreadsOK'
  <2> SUFFICES ASSUME NEW u \in Threads PROVE ThreadOK(thread'[u], log', site', url')
    BY DEF ThreadsOK
  <2>1. ThreadOK(thread'[u], log, site, url)
    BY <1>2, IdleIsOK DEF ThreadsOK
  <2> QED
    BY <2>1, ThreadFollowsLog
<1>4. RowsOK'
  BY DEF RowsOK, RowOK, Tells
<1>5. RollbackTrail'
  BY <1>1, TrailStays
<1>6. AllExplained'
  <2> SUFFICES ASSUME NEW u \in Urls, ~unlogged' PROVE Explained(u)'
    BY DEF AllExplained, Explained
  <2>1. unlogged' = unlogged /\ thread[t].pc \notin {"record", "rb_mark"} /\ origin' = origin
    BY DEF Still
  <2>2. Explained(u)
    BY DEF AllExplained
  <2>3. \A v \in Threads : thread[v].pc = "rb_mark" => thread[v].entry \in DOMAIN log
    BY DEF ThreadsOK, ThreadOK
  <2>4. CASE \E v \in Threads : thread[v].pc = "rb_mark"
                                /\ site[u] = Stored(log[thread[v].entry].before)
    <3>1. PICK v \in Threads : thread[v].pc = "rb_mark"
                               /\ site[u] = Stored(log[thread[v].entry].before)
      BY <2>4
    <3>2. log'[thread[v].entry].before = log[thread[v].entry].before /\ thread'[v] = thread[v]
      BY <1>2, <2>1, <2>3, <3>1 DEF Tells
    <3> QED
      BY <3>1, <3>2 DEF Explained
  <2>5. CASE \E n \in DOMAIN log : site[u] = Stored(log[n].after)
    BY <2>5 DEF Explained, Tells
  <2> QED
    BY <1>2, <2>1, <2>2, <2>4, <2>5 DEF Explained
<1>7. TypeOK'
  <2>1. thread' = [u \in Threads |-> thread'[u]]
    BY <1>1
  <2> QED
    BY <1>1, <1>3, <2>1, TypesFollow
<1> QED
  BY <1>3, <1>4, <1>5, <1>6, <1>7

(* A thread writes the row of its call. *)
LEMMA RowWritten ==
    ASSUME AuditIInv, NEW t \in Threads, thread' = [thread EXCEPT ![t] = Idle],
           UNCHANGED <<site, url, unlogged>>, Still,
           log' \in Seq(Row), DOMAIN log' = DOMAIN log \cup {Len(log) + 1}, Tells(log, log'),
           RowOK(log'[Len(log) + 1]), RollbackTrail',
           \/ thread[t].pc = "record" /\ log'[Len(log) + 1].after = thread[t].new
           \/ thread[t].pc = "rb_mark"
              /\ log'[Len(log) + 1].after = log[thread[t].entry].before
    PROVE  AuditIInv'
<1> USE DEF AuditIInv
<1>1. thread \in [Threads -> ThreadState] /\ log \in Seq(Row) /\ site' \in [Urls -> Snapshot]
  BY DEF TypeOK
<1>2. \A u \in Threads : thread'[u] = IF u = t THEN Idle ELSE thread[u]
  BY <1>1
<1>3. ThreadsOK'
  <2> SUFFICES ASSUME NEW u \in Threads PROVE ThreadOK(thread'[u], log', site', url')
    BY DEF ThreadsOK
  <2>1. ThreadOK(thread'[u], log, site, url)
    BY <1>2, IdleIsOK DEF ThreadsOK
  <2> QED
    BY <2>1, ThreadFollowsLog
<1>4. RowsOK'
  BY DEF RowsOK, RowOK, Tells
<1>5. AllExplained'
  <2> SUFFICES ASSUME NEW u \in Urls, ~unlogged' PROVE Explained(u)'
    BY DEF AllExplained, Explained
  <2>1. unlogged' = unlogged /\ origin' = origin /\ site' = site
    BY DEF Still
  <2>2. Explained(u)
    BY DEF AllExplained
  <2>3. CASE \E n \in DOMAIN log : site[u] = Stored(log[n].after)
    BY <2>3 DEF Explained, Tells
  <2>4. CASE \E v \in Threads : thread[v].pc = "record" /\ site[u] = Stored(thread[v].new)
    <3>1. PICK v \in Threads : thread[v].pc = "record" /\ site[u] = Stored(thread[v].new)
      BY <2>4
    <3>2. CASE v = t
      <4>1. site'[u] = Stored(log'[Len(log) + 1].after)
        BY <2>1, <3>1, <3>2
      <4> QED
        BY <4>1 DEF Explained
    <3>3. CASE v # t
      BY <1>2, <2>1, <3>1, <3>3 DEF Explained
    <3> QED
      BY <3>2, <3>3
  <2>5. CASE \E v \in Threads : thread[v].pc = "rb_mark"
                                /\ site[u] = Stored(log[thread[v].entry].before)
    <3>1. PICK v \in Threads : thread[v].pc = "rb_mark"
                               /\ site[u] = Stored(log[thread[v].entry].before)
      BY <2>5
    <3>2. CASE v = t
      <4>1. site'[u] = Stored(log'[Len(log) + 1].after)
        BY <2>1, <3>1, <3>2
      <4> QED
        BY <4>1 DEF Explained
    <3>3. CASE v # t
      <4>1. thread[v].entry \in DOMAIN log
        BY <3>1 DEF ThreadsOK, ThreadOK
      <4>2. log'[thread[v].entry].before = log[thread[v].entry].before /\ thread'[v] = thread[v]
        BY <1>2, <3>3, <4>1 DEF Tells
      <4> QED
        BY <2>1, <3>1, <4>2 DEF Explained
    <3> QED
      BY <3>2, <3>3
  <2> QED
    BY <2>1, <2>2, <2>3, <2>4, <2>5 DEF Explained
<1>6. TypeOK'
  <2>1. thread' = [u \in Threads |-> thread'[u]]
    BY <1>1
  <2> QED
    BY <1>1, <1>3, <2>1, TypesFollow
<1> QED
  BY <1>3, <1>4, <1>5, <1>6

(* The active Pi-hole or the protection changes: rollbacks under way no     *)
(* longer count on what they checked.                                       *)
LEMMA UnsettledKeeps ==
    ASSUME AuditIInv, thread' = Unsettled, UNCHANGED <<site, log, unlogged>>, Still
    PROVE  AuditIInv'
<1> USE DEF AuditIInv
<1>1. thread \in [Threads -> ThreadState] /\ log' \in Seq(Row) /\ site' \in [Urls -> Snapshot]
  BY DEF TypeOK
<1>2. ASSUME NEW u \in Threads
      PROVE  /\ ThreadOK(thread'[u], log', site', url')
             /\ thread'[u].pc = thread[u].pc /\ thread'[u].new = thread[u].new
             /\ thread'[u].entry = thread[u].entry
  <2>1. ThreadOK(thread[u], log, site, url)
    BY DEF ThreadsOK
  <2>2. CASE thread[u].pc \in {"rb_capture", "rb_send"}
    <3>1. thread'[u] = [thread[u] EXCEPT !.raced = TRUE]
      BY <2>2 DEF Unsettled
    <3> QED
      BY <2>1, <3>1, RacedThread
  <2>3. CASE thread[u].pc \notin {"rb_capture", "rb_send"}
    <3>1. thread'[u] = thread[u]
      BY <2>3 DEF Unsettled
    <3> QED
      BY <2>1, <2>3, <3>1 DEF ThreadOK
  <2> QED
    BY <2>2, <2>3
<1>3. ThreadsOK'
  BY <1>2 DEF ThreadsOK
<1>4. RowsOK'
  BY DEF RowsOK
<1>5. RollbackTrail'
  BY DEF RollbackTrail
<1>6. AllExplained'
  <2> SUFFICES ASSUME NEW u \in Urls PROVE Explained(u)'
    BY DEF AllExplained
  <2>1. Explained(u)
    BY DEF AllExplained
  <2> QED
    BY <1>2, <2>1 DEF Explained, Still
<1>7. TypeOK'
  <2>1. thread' = [u \in Threads |-> thread'[u]]
    BY DEF Unsettled
  <2> QED
    BY <1>1, <1>3, <2>1, TypesFollow
<1> QED
  BY <1>3, <1>4, <1>5, <1>6, <1>7

-----------------------------------------------------------------------------
(* The actions.                                                             *)

(* A change starts: an addition goes to its call, the others capture first. *)
LEMMA BeginKeeps ==
    ASSUME AuditIInv, NEW t \in Threads, NEW op \in Operations, NEW pc \in {"capture", "send"},
           NEW new \in Snapshot, Begin(t, op, pc, new),
           op = "add" <=> pc = "send", op # "delete" => new # None
    PROVE  AuditIInv'
<1> DEFINE q == [Idle EXCEPT !.pc = pc, !.op = op, !.new = new]
<1>1. /\ q \in ThreadState
      /\ q.pc = pc /\ q.op = op /\ q.new = new /\ q.before = None /\ q.raced = FALSE
  BY DEF Idle, ThreadState, Snapshot, Operations
<1>2. thread' = [thread EXCEPT ![t] = q] /\ thread[t].pc = "idle"
  BY DEF Begin
<1> HIDE DEF q
<1>3. ThreadOK(q, log, site, url)
  BY <1>1 DEF ThreadOK
<1>4. Still
  BY BoundsAreNat DEF Begin, Still, AuditIInv, TypeOK
<1>5. UNCHANGED <<site, url, log, unlogged>>
  BY DEF Begin
<1> QED
  BY <1>2, <1>3, <1>4, <1>5, ThreadMoves

(* A rule as a user states it is a rule, and not the absent one. *)
LEMMA StatedRule ==
    ASSUME NEW tag \in Tags, NEW groups \in Groups
    PROVE  /\ [tag |-> tag, groups |-> groups] \in Snapshot
           /\ [tag |-> tag, groups |-> groups] # None
BY NoneIsNoRule DEF Snapshot, Rule

(* The mutations of the three kinds of rule start such changes. *)
LEMMA ChangeKeeps ==
    ASSUME AuditIInv, NEW t \in Threads, ExactChange(t) \/ RegexChange(t) \/ ListChange(t)
    PROVE  AuditIInv'
<1>1. /\ None \in Groups /\ {} \in Groups /\ GroupSets \subseteq Groups /\ None \in Snapshot
      /\ {"add", "update", "delete"} = Operations
  BY DEF Groups, Snapshot, Operations
<1>2. rows # None => rows.tag \in Tags /\ rows.groups \in Groups
  BY DEF AuditIInv, TypeOK, Snapshot, Rule
<1>3. ASSUME NEW tag \in Tags, AddExact(t, tag) \/ AddManaged(t, tag)
      PROVE  AuditIInv'
  <2>1. PICK g \in Groups : Begin(t, "add", "send", [tag |-> tag, groups |-> g])
    BY <1>1, <1>3 DEF AddExact, AddManaged
  <2> QED
    BY <1>1, <2>1, StatedRule, BeginKeeps
<1>4. ASSUME NEW tag \in Tags, UpdateRow(t, tag)
      PROVE  AuditIInv'
  BY <1>1, <1>2, <1>4, StatedRule, BeginKeeps DEF UpdateRow
<1>5. ASSUME NEW groups \in GroupSets, AssignGroups(t, groups)
      PROVE  AuditIInv'
  BY <1>1, <1>2, <1>5, StatedRule, BeginKeeps DEF AssignGroups
<1>6. ASSUME DeleteExact(t) \/ DeleteManaged(t)
      PROVE  AuditIInv'
  BY <1>1, <1>6, BeginKeeps DEF DeleteExact, DeleteManaged
<1> QED
  BY <1>3, <1>4, <1>5, <1>6 DEF ExactChange, RegexChange, ListChange

(* capture_pihole_rule. *)
LEMMA CaptureKeeps ==
    ASSUME AuditIInv, NEW t \in Threads, Capture(t)
    PROVE  AuditIInv'
<1>1. /\ thread \in [Threads -> ThreadState] /\ site[url] \in Snapshot /\ None \in Snapshot
      /\ ThreadOK(thread[t], log, site, url) /\ thread[t].pc = "capture"
  BY DEF AuditIInv, TypeOK, ThreadsOK, Capture, Snapshot
<1>2. PICK b \in Snapshot : thread' = [thread EXCEPT ![t].pc = "send", ![t].before = b]
  BY <1>1 DEF Capture
<1> DEFINE q == [[thread[t] EXCEPT !.pc = "send"] EXCEPT !.before = b]
<1>3. thread' = [thread EXCEPT ![t] = q]
  BY <1>1, <1>2
<1>4. /\ q \in ThreadState /\ q.pc = "send" /\ q.op = thread[t].op /\ q.new = thread[t].new
  BY <1>1 DEF ThreadState
<1> HIDE DEF q
<1>5. ThreadOK(q, log, site, url)
  BY <1>1, <1>4 DEF ThreadOK
<1>6. Still /\ UNCHANGED <<site, url, log, unlogged>>
  BY FaultCounts DEF Capture, Still, AuditIInv, TypeOK
<1> QED
  BY <1>1, <1>3, <1>5, <1>6, ThreadMoves

(* A log that does not change tells what it did. *)
LEMMA SameLog ==
    ASSUME log' = log
    PROVE  /\ DOMAIN log' = DOMAIN log /\ Len(log') = Len(log) /\ Tells(log, log')
           /\ \A k \in DOMAIN log : log'[k].rolledBack = log[k].rolledBack
BY DEF Tells

(* The call of a change. *)
LEMMA SendKeeps ==
    ASSUME AuditIInv, NEW t \in Threads, Send(t)
    PROVE  AuditIInv'
<1>1. /\ thread[t] \in ThreadState /\ thread[t].new \in Snapshot /\ log \in Seq(Row)
      /\ ThreadOK(thread[t], log, site, url) /\ thread[t].pc = "send"
  BY DEF AuditIInv, TypeOK, ThreadsOK, Send, ThreadState
<1>2. /\ DOMAIN log' = DOMAIN log /\ Len(log') = Len(log) /\ Tells(log, log')
      /\ \A k \in DOMAIN log : log'[k].rolledBack = log[k].rolledBack
      /\ url' = url /\ log' = log
  BY SameLog DEF Send
<1>3. Still
  BY FaultCounts DEF Send, Still, AuditIInv, TypeOK
<1> DEFINE q == [thread[t] EXCEPT !.pc = "record"]
<1>4. ThreadOK(q, log, site, url) /\ q.pc = "record" /\ q.new = thread[t].new
  <2>1. "record" \in Pcs
    BY DEF Pcs
  <2>2. /\ q \in ThreadState /\ q.pc = "record" /\ q.op = thread[t].op
        /\ q.new = thread[t].new /\ q.before = thread[t].before
    BY <1>1, <2>1, NextPc
  <2> HIDE DEF q
  <2> QED
    BY <1>1, <2>2 DEF ThreadOK
<1>5. CASE /\ site' = [site EXCEPT ![url] = Stored(thread[t].new)]
           /\ thread' = OthersRaced(t, q) /\ unlogged' = unlogged
  <2> HIDE DEF q
  <2> QED
    BY <1>1, <1>2, <1>3, <1>4, <1>5, CallKeeps
<1>6. CASE /\ site' = [site EXCEPT ![url] = Stored(thread[t].new)]
           /\ thread' = OthersRaced(t, Idle) /\ unlogged' = TRUE
  <2>1. ThreadOK(Idle, log, site, url) /\ Idle.pc # "rb_send"
    BY IdleIsOK
  <2> QED
    BY <1>1, <1>2, <1>3, <1>6, <2>1, CallKeeps
<1>7. CASE thread' = [thread EXCEPT ![t] = Idle] /\ UNCHANGED <<site, unlogged>>
  BY <1>1, <1>2, <1>3, <1>7, IdleIsOK, ThreadMoves
<1> QED
  BY <1>5, <1>6, <1>7 DEF Send

(* The instance a row is attributed to. *)
LEMMA ContextIsKnown ==
    ASSUME url \in Urls
    PROVE  Context.id \in Ids \cup {None} /\ Context.url \in Urls
<1> DEFINE matches == {i \in Ids : UrlOf[i] = url}
<1>1. Cardinality(matches) = 1 => matches # {}
  BY FS_EmptySet
<1>2. Cardinality(matches) = 1 => (CHOOSE i \in matches : TRUE) \in matches
  BY <1>1
<1>3. matches \subseteq Ids
  OBVIOUS
<1> QED
  BY <1>2, <1>3 DEF Context

(* record_pihole_change. *)
LEMMA RecordKeeps ==
    ASSUME AuditIInv, NEW t \in Threads, Record(t)
    PROVE  AuditIInv'
<1>1. /\ thread[t] \in ThreadState /\ thread[t].new \in Snapshot /\ log \in Seq(Row)
      /\ thread[t].before \in Snapshot /\ thread[t].op \in Operations
      /\ ThreadOK(thread[t], log, site, url) /\ thread[t].pc = "record" /\ url \in Urls
  BY DEF AuditIInv, TypeOK, ThreadsOK, Record, ThreadState
<1>2. Still /\ thread' = [thread EXCEPT ![t] = Idle] /\ UNCHANGED <<site, url>>
  BY FaultCounts DEF Record, Still, AuditIInv, TypeOK
<1>3. CASE log' = Append(log, NewRow(thread[t].op, thread[t].before, thread[t].new))
           /\ UNCHANGED unlogged
  <2> DEFINE op == thread[t].op
             before == thread[t].before
             after == thread[t].new
             cid == Context.id
             cur == Context.url
             r == NewRow(op, before, after)
  <2>1. cid \in Ids \cup {None} /\ cur \in Urls
    BY <1>1, ContextIsKnown
  <2>2. r = [id |-> cid, url |-> cur, op |-> op, before |-> before, after |-> after,
             reversible |-> op = "add" \/ before # None, rolledBack |-> FALSE,
             error |-> FALSE, related |-> 0]
    BY DEF NewRow
  <2>3. op \in Operations /\ before \in Snapshot /\ after \in Snapshot
    BY <1>1
  <2>4. op = "add" => before = None
    BY <1>1 DEF ThreadOK
  <2>5. op \in {"add", "update"} => after # None
    BY <1>1 DEF ThreadOK
  <2>6. log' = Append(log, r)
    BY <1>3
  <2> HIDE DEF op, before, after, cid, cur, r
  <2>7. /\ r \in Row
        /\ r.op = op /\ r.before = before /\ r.after = after /\ r.rolledBack = FALSE
        /\ r.reversible = (op = "add" \/ before # None)
    BY <2>1, <2>2, <2>3 DEF Row
  <2>8. RowOK(r) /\ r.op # "rollback"
    BY <2>3, <2>4, <2>5, <2>7 DEF RowOK, Operations
  <2>9. /\ log' \in Seq(Row) /\ Len(log') = Len(log) + 1
        /\ DOMAIN log' = DOMAIN log \cup {Len(log) + 1}
        /\ log'[Len(log) + 1] = r /\ \A k \in DOMAIN log : log'[k] = log[k]
        /\ Tells(log, log')
    <3>1. log \in Seq(Row) /\ r \in Row
      BY <1>1, <2>7
    <3>2. /\ log' \in Seq(Row) /\ Len(log') = Len(log) + 1
          /\ DOMAIN log' = DOMAIN log \cup {Len(log) + 1}
      BY ONLY <3>1, <2>6, Appended
    <3>3. log'[Len(log) + 1] = r /\ \A k \in DOMAIN log : log'[k] = log[k]
      BY ONLY <3>1, <2>6, Appended
    <3>4. Tells(log, log')
      BY ONLY <3>1, <2>6, Appended
    <3> QED
      BY <3>2, <3>3, <3>4
  <2>10. RollbackTrail'
    BY <1>1, <2>7, <2>8, <2>9, TrailGrows DEF AuditIInv
  <2>11. log'[Len(log) + 1].after = thread[t].new
    BY <2>7, <2>9 DEF after
  <2> QED
    BY <1>1, <1>2, <1>3, <2>8, <2>9, <2>10, <2>11, RowWritten
<1>4. CASE unlogged' = TRUE /\ log' = log
  BY <1>1, <1>2, <1>4, SameLog, ThreadStops
<1> QED
  BY <1>3, <1>4 DEF Record

(* rollback_pihole_audit: an entry that may be undone, of this Pi-hole. *)
LEMMA RollbackBeginKeeps ==
    ASSUME AuditIInv, NEW t \in Threads, NEW n \in DOMAIN log, RollbackBegin(t, n)
    PROVE  AuditIInv'
<1> DEFINE q == [Idle EXCEPT !.pc = "rb_capture", !.entry = n]
<1>1. log \in Seq(Row) /\ n \in Nat /\ thread[t].pc = "idle"
  BY DEF AuditIInv, TypeOK, RollbackBegin
<1>2. /\ q \in ThreadState /\ q.pc = "rb_capture" /\ q.op = "add" /\ q.before = None
      /\ q.entry = n /\ q.raced = FALSE
  BY <1>1 DEF Idle, ThreadState, Snapshot, Operations
<1>3. thread' = [thread EXCEPT ![t] = q]
  BY DEF RollbackBegin
<1> HIDE DEF q
<1>4. log[n].reversible /\ log[n].url = url
  BY DEF RollbackBegin, Available, SameInstance, Context
<1>5. ThreadOK(q, log, site, url)
  BY <1>2, <1>4 DEF ThreadOK
<1>6. Still /\ UNCHANGED <<site, url, log, unlogged>>
  BY BoundsAreNat DEF RollbackBegin, Still, AuditIInv, TypeOK
<1> QED
  BY <1>1, <1>3, <1>5, <1>6, ThreadMoves

(* The comparison.  A read that failed looks like an absent rule, which     *)
(* only a deletion expects.                                                 *)
LEMMA RollbackCheckKeeps ==
    ASSUME AuditIInv, NEW t \in Threads, RollbackCheck(t)
    PROVE  AuditIInv'
<1>1. /\ ThreadOK(thread[t], log, site, url) /\ thread[t].pc = "rb_capture"
      /\ thread[t] \in ThreadState /\ thread \in [Threads -> ThreadState]
  BY DEF AuditIInv, ThreadsOK, RollbackCheck, TypeOK
<1> DEFINE e == log[thread[t].entry]
           q == [thread[t] EXCEPT !.pc = "rb_send"]
<1>2. Still /\ UNCHANGED <<site, url, log, unlogged>>
  BY FaultCounts DEF RollbackCheck, Still, AuditIInv, TypeOK
<1>3. PICK current \in {site[url], None} :
          thread' = [thread EXCEPT ![t] =
              IF SnapshotMatches(current, Expected(e)) THEN [@ EXCEPT !.pc = "rb_send"] ELSE Idle]
  BY DEF RollbackCheck
<1>4. CASE SnapshotMatches(current, Expected(e))
  <2>1. thread' = [thread EXCEPT ![t] = q]
    BY <1>1, <1>3, <1>4
  <2>2. /\ q \in ThreadState /\ q.pc = "rb_send" /\ q.op = thread[t].op
        /\ q.before = thread[t].before /\ q.entry = thread[t].entry
        /\ q.raced = thread[t].raced
    <3>1. "rb_send" \in Pcs
      BY DEF Pcs
    <3> QED
      BY <1>1, <3>1, NextPc
  <2>3. thread[t].entry \in DOMAIN log /\ e.reversible /\ RowOK(e)
    BY <1>1 DEF ThreadOK, AuditIInv, RowsOK
  <2>4. SnapshotMatches(site[url], Expected(e)) \/ e.op = "delete"
    <3>1. CASE current = site[url]
      BY <1>4, <3>1
    <3>2. CASE current = None
      <4>1. Expected(e) = None
        BY <1>4, <3>2 DEF SnapshotMatches
      <4>2. e.op \in Operations
        BY <2>3 DEF RowOK
      <4> QED
        BY <2>3, <4>1, <4>2 DEF Expected, RowOK, Operations
    <3> QED
      BY <3>1, <3>2
  <2> HIDE DEF q
  <2>5. ThreadOK(q, log, site, url)
    BY <1>1, <2>2, <2>3, <2>4 DEF ThreadOK
  <2> QED
    BY <1>1, <1>2, <2>1, <2>5, ThreadMoves
<1>5. CASE ~SnapshotMatches(current, Expected(e))
  <2>1. thread' = [thread EXCEPT ![t] = Idle]
    BY <1>3, <1>5
  <2> QED
    BY <1>1, <1>2, <2>1, IdleIsOK, ThreadMoves
<1> QED
  BY <1>4, <1>5

(* What an entry that may be undone restores is its previous state. *)
LEMMA RestoresPrevious ==
    ASSUME NEW e, RowOK(e), e.reversible
    PROVE  Restored(e) = Stored(e.before)
BY DEF Restored, RowOK, Stored

(* _apply_rollback. *)
LEMMA RollbackSendKeeps ==
    ASSUME AuditIInv, NEW t \in Threads, RollbackSend(t)
    PROVE  AuditIInv'
<1> DEFINE n == thread[t].entry
           q == [thread[t] EXCEPT !.pc = "rb_mark"]
<1>1. /\ thread[t] \in ThreadState /\ log \in Seq(Row)
      /\ ThreadOK(thread[t], log, site, url) /\ thread[t].pc = "rb_send"
  BY DEF AuditIInv, TypeOK, ThreadsOK, RollbackSend
<1>2. n \in DOMAIN log /\ log[n] \in Row /\ log[n].reversible /\ RowOK(log[n])
  <2>1. n \in DOMAIN log /\ log[n].reversible
    BY <1>1 DEF ThreadOK
  <2>2. log[n] \in Row
    BY <1>1, <2>1, ElementOfSeq
  <2> QED
    BY <2>1, <2>2 DEF AuditIInv, RowsOK
<1>3. Restored(log[n]) = Stored(log[n].before) /\ log[n].before \in Snapshot
  BY <1>2, RestoresPrevious, RowFields
<1>4. Still /\ url' = url
  BY FaultCounts DEF RollbackSend, Still, AuditIInv, TypeOK
<1>5. ASSUME log' = [log EXCEPT ![n].error = TRUE]
      PROVE  /\ log' \in Seq(Row) /\ DOMAIN log' = DOMAIN log /\ Len(log') = Len(log)
             /\ Tells(log, log')
             /\ \A k \in DOMAIN log : log'[k].rolledBack = log[k].rolledBack
  <2> HIDE DEF n
  <2>1. log' \in Seq(Row) /\ DOMAIN log' = DOMAIN log /\ Len(log') = Len(log)
    <3>1. log' \in Seq(Row)
      BY <1>1, <1>2, <1>5, ErrorNoted
    <3>2. DOMAIN log' = DOMAIN log
      BY <1>1, <1>2, <1>5, ErrorNoted
    <3>3. Len(log') = Len(log)
      BY <1>1, <1>2, <1>5, ErrorNoted
    <3> QED
      BY <3>1, <3>2, <3>3
  <2>2. Tells(log, log')
    BY <1>1, <1>2, <1>5, ErrorNoted
  <2>3. \A k \in DOMAIN log : log'[k].rolledBack = log[k].rolledBack
    BY <1>1, <1>2, <1>5, ErrorNoted
  <2> QED
    BY <2>1, <2>2, <2>3
<1>6. ThreadOK(q, log, site, url) /\ q.pc = "rb_mark" /\ q.entry = n
  <2>1. "rb_mark" \in Pcs
    BY DEF Pcs
  <2>2. /\ q \in ThreadState /\ q.pc = "rb_mark" /\ q.op = thread[t].op
        /\ q.before = thread[t].before /\ q.entry = thread[t].entry
    BY <1>1, <2>1, NextPc
  <2> HIDE DEF q
  <2> QED
    BY <1>1, <2>2 DEF ThreadOK
<1> HIDE DEF q
<1>7. CASE /\ site' = [site EXCEPT ![url] = Restored(log[n])]
           /\ thread' = OthersRaced(t, q) /\ UNCHANGED <<log, unlogged>>
  <2>1. site' = [site EXCEPT ![url] = Stored(log[n].before)] /\ log[q.entry].before = log[n].before
    BY <1>3, <1>6, <1>7
  <2> QED
    BY <1>1, <1>3, <1>4, <1>6, <1>7, <2>1, SameLog, CallKeeps
<1>8. CASE /\ site' = [site EXCEPT ![url] = Restored(log[n])]
           /\ thread' = OthersRaced(t, Idle) /\ unlogged' = TRUE
           /\ log' = [log EXCEPT ![n].error = TRUE]
  <2>1. site' = [site EXCEPT ![url] = Stored(log[n].before)]
    BY <1>3, <1>8
  <2>2. ThreadOK(Idle, log, site, url) /\ Idle.pc # "rb_send"
    BY IdleIsOK
  <2> HIDE DEF n
  <2> QED
    BY <1>1, <1>3, <1>4, <1>5, <1>8, <2>1, <2>2, CallKeeps
<1>9. CASE /\ log' = [log EXCEPT ![n].error = TRUE]
           /\ thread' = [thread EXCEPT ![t] = Idle]
           /\ UNCHANGED <<site, unlogged>>
  BY <1>1, <1>4, <1>5, <1>9, ThreadStops
<1> QED
  BY <1>7, <1>8, <1>9 DEF RollbackSend, q

(* The transaction at the end of a rollback. *)
LEMMA RollbackMarkKeeps ==
    ASSUME AuditIInv, NEW t \in Threads, RollbackMark(t)
    PROVE  AuditIInv'
<1> DEFINE n == thread[t].entry
<1>1. log \in Seq(Row) /\ thread[t].pc = "rb_mark" /\ n \in DOMAIN log /\ log[n].reversible
  BY DEF AuditIInv, TypeOK, ThreadsOK, ThreadOK, RollbackMark
<1>2. Still /\ thread' = [thread EXCEPT ![t] = Idle] /\ UNCHANGED <<site, url>>
  BY FaultCounts DEF RollbackMark, Still, AuditIInv, TypeOK
<1>3. CASE log' = Marked(n) /\ UNCHANGED unlogged
  <2> DEFINE r == RollbackRow(n)
  <2>1. /\ r.op = "rollback" /\ r.after = log[n].before /\ r.reversible = FALSE
        /\ r.rolledBack = FALSE /\ r.related = n
    BY <1>1, RollbackRowFields
  <2>2. /\ log' \in Seq(Row) /\ Len(log') = Len(log) + 1
        /\ DOMAIN log' = DOMAIN log \cup {Len(log) + 1}
        /\ log'[Len(log) + 1] = r /\ Tells(log, log')
        /\ log'[n].rolledBack
        /\ \A k \in DOMAIN log \ {n} : log'[k].rolledBack = log[k].rolledBack
    <3> HIDE DEF n, r
    <3>1. /\ log' \in Seq(Row) /\ Len(log') = Len(log) + 1
          /\ DOMAIN log' = DOMAIN log \cup {Len(log) + 1}
      BY <1>1, <1>3, MarkedLog
    <3>2. log'[Len(log) + 1] = r
      BY <1>1, <1>3, MarkedLog DEF r
    <3>3. Tells(log, log')
      BY <1>1, <1>3, MarkedLog
    <3>4. log'[n].rolledBack
      BY <1>1, <1>3, MarkedLog
    <3>5. \A k \in DOMAIN log \ {n} : log'[k].rolledBack = log[k].rolledBack
      BY <1>1, <1>3, MarkedLog
    <3> QED
      BY <3>1, <3>2, <3>3, <3>4, <3>5
  <2> HIDE DEF r, n
  <2>3. RowOK(r)
    BY <2>1 DEF RowOK
  <2>4. RollbackTrail'
    BY <1>1, <2>1, <2>2, TrailGrows DEF AuditIInv
  <2>5. log'[Len(log) + 1].after = log[n].before
    BY <2>1, <2>2
  <2> QED
    BY <1>1, <1>2, <1>3, <2>2, <2>3, <2>4, <2>5, RowWritten DEF n
<1>4. CASE unlogged' = TRUE /\ log' = log
  BY <1>1, <1>2, <1>4, SameLog, ThreadStops
<1> QED
  BY <1>3, <1>4 DEF RollbackMark

(* The surroundings. *)
LEMMA SurroundingsKeep ==
    ASSUME AuditIInv, ViewLoad \/ SaveOptions \/ ToggleLock \/ \E i \in Ids : SaveRegistry(i)
    PROVE  AuditIInv'
<1>1. site[url] \in Snapshot
  BY DEF AuditIInv, TypeOK
<1>2. UrlOf[active] \in Urls
  BY RegistryUrls DEF AuditIInv, TypeOK
<1>3. CASE ViewLoad \/ \E i \in Ids : SaveRegistry(i)
  <2>1. UNCHANGED <<site, url, log, thread, unlogged, origin, kind, lock, started>>
    BY <1>3 DEF ViewLoad, SaveRegistry
  <2>2. faults' \in 0..MaxFaults
    BY <1>3, FaultCounts DEF ViewLoad, SaveRegistry, AuditIInv
  <2>3. rows' \in Snapshot /\ active' \in Ids
    BY <1>1, <1>3 DEF ViewLoad, SaveRegistry, AuditIInv, TypeOK
  <2>4. TypeOK'
    BY <2>1, <2>2, <2>3 DEF AuditIInv, TypeOK
  <2>5. ThreadsOK' /\ RowsOK' /\ RollbackTrail'
    BY <2>1 DEF AuditIInv, ThreadsOK, RowsOK, RollbackTrail
  <2>6. AllExplained'
    BY <2>1 DEF AuditIInv, AllExplained, Explained
  <2> QED
    BY <2>4, <2>5, <2>6 DEF AuditIInv
<1>4. CASE SaveOptions
  <2>1. Still
    BY <1>2, <1>4 DEF SaveOptions, Still, AuditIInv, TypeOK
  <2> QED
    BY <1>4, <2>1, UnsettledKeeps DEF SaveOptions
<1>5. CASE ToggleLock
  <2>1. Still
    BY <1>5, FaultCounts DEF ToggleLock, Still, AuditIInv, TypeOK
  <2> QED
    BY <1>5, <2>1, UnsettledKeeps DEF ToggleLock
<1> QED
  BY <1>3, <1>4, <1>5

(* After a crash no row is on its way: the ones that were are known to be   *)
(* missing.                                                                 *)
LEMMA CrashKeeps ==
    ASSUME AuditIInv, Crash
    PROVE  AuditIInv'
<1>1. /\ UNCHANGED <<site, url, log>> /\ thread' = [t \in Threads |-> Idle]
      /\ unlogged' = (unlogged \/ \E t \in Threads : thread[t].pc \in {"record", "rb_mark"})
  BY DEF Crash
<1>2. Still /\ site' \in [Urls -> Snapshot] /\ log' \in Seq(Row)
  BY FaultCounts DEF Crash, Still, AuditIInv, TypeOK, Snapshot
<1>3. ThreadsOK'
  <2> SUFFICES ASSUME NEW t \in Threads PROVE ThreadOK(thread'[t], log', site', url')
    BY DEF ThreadsOK
  <2>1. thread'[t] = Idle
    BY <1>1
  <2> QED
    BY <2>1, IdleIsOK
<1>4. RowsOK' /\ RollbackTrail'
  BY <1>1 DEF AuditIInv, RowsOK, RollbackTrail
<1>5. AllExplained'
  <2> SUFFICES ASSUME NEW u \in Urls, ~unlogged' PROVE Explained(u)'
    BY DEF AllExplained, Explained
  <2>1. ~unlogged /\ \A t \in Threads : thread[t].pc \notin {"record", "rb_mark"}
    BY <1>1
  <2> QED
    BY <1>1, <1>2, <2>1 DEF AuditIInv, AllExplained, Explained, Still
<1>6. TypeOK'
  <2>1. thread' = [t \in Threads |-> thread'[t]]
    BY <1>1
  <2> QED
    BY <1>2, <1>3, <2>1, TypesFollow DEF AuditIInv
<1> QED
  BY <1>3, <1>4, <1>5, <1>6 DEF AuditIInv

(* The invariant holds at the start and is kept by every step. *)
LEMMA AuditInductive == Spec => []AuditIInv
<1>1. Init => AuditIInv
  <2> SUFFICES ASSUME Init PROVE AuditIInv
    OBVIOUS
  <2>1. \A r \in InitialTags : [tag |-> r, groups |-> NoGroups] \in Snapshot
    BY SomeTags DEF Snapshot, Rule, Groups
  <2>2. site \in [Urls -> Snapshot] /\ origin = site
    BY <2>1 DEF Init, Snapshot
  <2>3. thread \in [Threads -> ThreadState] /\ \A t \in Threads : thread[t] = Idle
    BY IdleIsOK DEF Init, ThreadOK
  <2>4. ThreadsOK
    BY <2>3, IdleIsOK DEF ThreadsOK
  <2>5. log \in Seq(Row) /\ DOMAIN log = {}
    BY DEF Init
  <2>6. TypeOK
    <3>1. kind \in Kinds /\ active \in Ids /\ url \in Urls
      BY RegistryUrls DEF Init
    <3>2. lock \in {None, "deny"} /\ rows \in Snapshot /\ unlogged \in BOOLEAN
      BY DEF Init, Snapshot
    <3>3. started \in 0..MaxChanges /\ faults \in 0..MaxFaults
      BY BoundsAreNat DEF Init
    <3>4. \A t \in Threads : thread[t].pc \in {"rb_capture", "rb_send", "rb_mark"}
                               => thread[t].entry \in DOMAIN log
      BY <2>4 DEF ThreadsOK, ThreadOK
    <3> QED
      BY <2>2, <2>3, <2>5, <3>1, <3>2, <3>3, <3>4 DEF TypeOK
  <2>7. RowsOK /\ RollbackTrail
    BY <2>5 DEF RowsOK, RollbackTrail
  <2>8. AllExplained
    BY <2>2 DEF AllExplained, Explained
  <2> QED
    BY <2>4, <2>6, <2>7, <2>8 DEF AuditIInv
<1>2. AuditIInv /\ [Next]_vars => AuditIInv'
  <2> SUFFICES ASSUME AuditIInv, [Next]_vars PROVE AuditIInv'
    OBVIOUS
  <2>1. CASE \E t \in Threads : Thread(t)
    <3>1. PICK t \in Threads : Thread(t)
      BY <2>1
    <3> QED
      BY <3>1, ChangeKeeps, CaptureKeeps, SendKeeps, RecordKeeps, RollbackBeginKeeps,
         RollbackCheckKeeps, RollbackSendKeeps, RollbackMarkKeeps DEF Thread
  <2>2. CASE ViewLoad \/ SaveOptions \/ ToggleLock \/ \E i \in Ids : SaveRegistry(i)
    BY <2>2, SurroundingsKeep
  <2>3. CASE Crash
    BY <2>3, CrashKeeps
  <2>4. CASE UNCHANGED vars
    <3>1. TypeOK' /\ ThreadsOK' /\ RowsOK' /\ RollbackTrail'
      BY <2>4 DEF vars, AuditIInv, TypeOK, ThreadsOK, RowsOK, RollbackTrail
    <3>2. AllExplained'
      BY <2>4 DEF vars, AuditIInv, AllExplained, Explained
    <3> QED
      BY <3>1, <3>2 DEF AuditIInv
  <2> QED
    BY <2>1, <2>2, <2>3, <2>4 DEF Next
<1> QED
  BY <1>1, <1>2, PTL DEF Spec

(* The audit log explains what the Pi-holes hold, its marks and rollback    *)
(* rows belong together, and what it offers for rollback can be restored    *)
(* (pihole_audit.py), whatever the threads, faults and crashes in between.  *)
THEOREM AuditTrailIsKept == Spec => []AuditTrail
<1>1. AuditIInv => AuditTrail
  <2> SUFFICES ASSUME AuditIInv PROVE AuditTrail
    OBVIOUS
  <2>1. PreviousStateKnown
    <3> SUFFICES ASSUME NEW t \in Threads, thread[t].pc = "rb_send"
                 PROVE  log[thread[t].entry].op = "add" \/ log[thread[t].entry].before # None
      BY DEF PreviousStateKnown
    <3>1. thread[t].entry \in DOMAIN log /\ log[thread[t].entry].reversible
      BY DEF AuditIInv, ThreadsOK, ThreadOK
    <3> QED
      BY <3>1 DEF AuditIInv, RowsOK, RowOK
  <2>2. LogExplains
    BY DEF AuditIInv, AllExplained, Explained, LogExplains
  <2> QED
    BY <2>1, <2>2 DEF AuditIInv, AuditTrail
<1> QED
  BY <1>1, AuditInductive, PTL

(* The only step that takes a thread from its comparison to its mark is its *)
(* own call.                                                                *)
LEMMA OnlyItsCall ==
    ASSUME AuditIInv, Next, NEW t \in Threads, thread[t].pc = "rb_send",
           thread'[t].pc = "rb_mark"
    PROVE  RollbackSend(t)
<1>1. thread \in [Threads -> ThreadState]
  BY DEF AuditIInv, TypeOK
<1>2. Idle.pc = "idle"
  BY DEF Idle
<1>3. \A u \in Threads : [thread[u] EXCEPT !.raced = TRUE].pc = thread[u].pc
  BY <1>1 DEF ThreadState
<1>4. ASSUME NEW u \in Threads, u # t, Thread(u)
      PROVE  FALSE
  <2>1. ASSUME NEW q, thread' = OthersRaced(u, q)
        PROVE  FALSE
    BY <1>1, <1>3, <1>4, <2>1, OthersAreRaced
  <2>2. ASSUME NEW q, thread' = [thread EXCEPT ![u] = q]
        PROVE  FALSE
    BY <1>1, <1>4, <2>2
  <2>3. ASSUME ExactChange(u) \/ RegexChange(u) \/ ListChange(u)
        PROVE  FALSE
    BY <2>2, <2>3 DEF ExactChange, RegexChange, ListChange, AddExact, AddManaged, UpdateRow,
                      AssignGroups, DeleteExact, DeleteManaged, Begin
  <2>4. ASSUME Capture(u)
        PROVE  FALSE
    BY <1>1, <1>4, <2>4 DEF Capture
  <2>5. ASSUME Send(u) \/ RollbackSend(u)
        PROVE  FALSE
    BY <2>1, <2>2, <2>5 DEF Send, RollbackSend
  <2>6. ASSUME Record(u) \/ RollbackMark(u) \/ RollbackCheck(u)
               \/ \E n \in DOMAIN log : RollbackBegin(u, n)
        PROVE  FALSE
    BY <1>1, <1>4, <2>6 DEF Record, RollbackMark, RollbackCheck, RollbackBegin
  <2> QED
    BY <1>4, <2>3, <2>4, <2>5, <2>6 DEF Thread
<1>5. ASSUME Thread(t)
      PROVE  RollbackSend(t)
  BY <1>5 DEF Thread, ExactChange, RegexChange, ListChange, AddExact, AddManaged, UpdateRow,
              AssignGroups, DeleteExact, DeleteManaged, Begin, Capture, Send, Record,
              RollbackBegin, RollbackCheck, RollbackMark
<1>6. ASSUME ViewLoad \/ SaveOptions \/ ToggleLock \/ Crash \/ \E i \in Ids : SaveRegistry(i)
      PROVE  FALSE
  <2>1. thread'[t] = thread[t] \/ thread'[t] = Idle \/ thread'[t] = [thread[t] EXCEPT !.raced = TRUE]
    BY <1>1, <1>6 DEF ViewLoad, SaveOptions, ToggleLock, Crash, SaveRegistry, Unsettled
  <2> QED
    BY <1>2, <1>3, <2>1
<1> QED
  BY <1>4, <1>5, <1>6 DEF Next

(* A rollback nobody interfered with since its checks touches only its      *)
(* entry's Pi-hole, replaces what the entry recorded and restores what was  *)
(* there before (rollback_pihole_audit, _apply_rollback).                   *)
THEOREM RollbacksAreExact == Spec => UnracedRollbackIsExact
<1> DEFINE Exact(t) ==
      (thread[t].pc = "rb_send" /\ thread'[t].pc = "rb_mark" /\ ~thread[t].raced) =>
          LET e == log[thread[t].entry]
          IN  /\ SnapshotMatches(site[e.url], Expected(e))
              /\ site' = [site EXCEPT ![e.url] = Restored(e)]
<1>1. ASSUME AuditIInv, Next, NEW t \in Threads
      PROVE  Exact(t)
  <2> SUFFICES ASSUME thread[t].pc = "rb_send", thread'[t].pc = "rb_mark", ~thread[t].raced
               PROVE  LET e == log[thread[t].entry]
                      IN  /\ SnapshotMatches(site[e.url], Expected(e))
                          /\ site' = [site EXCEPT ![e.url] = Restored(e)]
    OBVIOUS
  <2> DEFINE e == log[thread[t].entry]
  <2>1. RollbackSend(t)
    BY <1>1, OnlyItsCall
  <2>2. /\ thread \in [Threads -> ThreadState]
        /\ e.url = url /\ thread[t].entry \in DOMAIN log /\ e.reversible
        /\ SnapshotMatches(site[url], Expected(e)) \/ e.op = "delete"
    BY <1>1 DEF AuditIInv, ThreadsOK, ThreadOK, TypeOK
  <2>3. Idle.pc = "idle"
    BY DEF Idle
  <2>4. Accepts(Undo(e.op), site[url]) /\ site' = [site EXCEPT ![url] = Restored(e)]
    BY <2>1, <2>2, <2>3 DEF RollbackSend, OthersRaced
  <2>5. ASSUME e.op = "delete"
        PROVE  SnapshotMatches(site[url], Expected(e))
    <3>1. site[url] = None
      BY <2>4, <2>5 DEF Accepts, Undo
    <3> QED
      BY <2>5, <3>1 DEF SnapshotMatches, Expected
  <2> QED
    BY <2>2, <2>4, <2>5
<1>2. AuditIInv /\ [Next]_vars => [\A t \in Threads : Exact(t)]_vars
  BY <1>1
<1> QED
  BY <1>2, AuditInductive, PTL DEF Spec, UnracedRollbackIsExact

=============================================================================
