------------------------- MODULE InstallationProofs -------------------------
(***************************************************************************)
(* The update of the program and the migration of its database, the        *)
(* registry of provider limits, and the configuration files, for any       *)
(* versions, release lists, archives, number of polls, payloads, provider  *)
(* limits, files, secrets, instances and providers.                        *)
(***************************************************************************)
EXTENDS AppUpdate, ProviderRegistry, SettingsStore, SequenceTheorems, FiniteSetTheorems,
        WellFoundedInduction, TLAPS

-----------------------------------------------------------------------------
(* The registry of provider limits. *)

RegistryFrom(r) == r \in Payloads /\ r.genuine /\ r.ver >= Bundled.ver

RegIInv ==
    /\ server \in [payload : Payloads, sig : Payloads]
    /\ got \in Payloads \cup {Nothing}
    /\ cache \in Payloads \cup {Nothing}
    /\ halfStored \in BOOLEAN
    /\ fetch \in {"idle", "registry", "both", "first"}
    /\ fetch # "idle" => got \in Payloads
    /\ RegistryFrom(accepted)
    /\ fetch = "first" => cache = got /\ Verified(got, gotSig) /\ got.ver >= Bundled.ver
                          /\ (halfStored \/ got.ver >= accepted.ver)
    /\ (fetch # "first" /\ ~halfStored) => InUse = accepted
    /\ profile # Nothing =>
         /\ profile.for \in ProviderLimits
         /\ RegistryFrom(profile.from)
         /\ profile.limits = Resolved(profile.for, profile.from)

(* What load_provider_registry returns is signed and not older than the    *)
(* bundled registry, whatever the two files of the cache hold.             *)
LEMMA InUseIsTrusted ==
    ASSUME cache \in Payloads \cup {Nothing}
    PROVE  RegistryFrom(InUse)
BY BundledIsGenuine, PayloadsAreRegistries DEF InUse, RegistryFrom, Verified

(* The first registry in use is the bundled one. *)
LEMMA RegIInvInit == RegInit => RegIInv
<1>. SUFFICES ASSUME RegInit PROVE RegIInv
  OBVIOUS
<1>1. RegistryFrom(Bundled)
  BY BundledIsGenuine, PayloadsAreRegistries DEF RegistryFrom
<1>2. InUse = Bundled
  BY DEF RegInit, InUse
<1>3. server \in [payload : Payloads, sig : Payloads]
  BY BundledIsGenuine DEF RegInit
<1>. QED
  BY <1>1, <1>2, <1>3 DEF RegInit, RegIInv

(* Every step of a refresh, also one cut off between its two files, keeps  *)
(* the registry in use the one accepted last.                              *)
LEMMA RegIInvNext == RegIInv /\ [RegNext]_regVars => RegIInv'
<1>. SUFFICES ASSUME RegIInv, [RegNext]_regVars PROVE RegIInv'
  OBVIOUS
<1>. USE DEF RegIInv
<1>u. RegistryFrom(InUse)
  BY InUseIsTrusted
<1>1. CASE PublishPayload
  BY <1>1 DEF PublishPayload, InUse, RegistryFrom, Verified, Resolved, RegistryLimits
<1>2. CASE PublishSignature
  BY <1>2 DEF PublishSignature, InUse, RegistryFrom, Verified, Resolved, RegistryLimits
<1>3. CASE FetchRegistry
  BY <1>3 DEF FetchRegistry, InUse, RegistryFrom, Verified
<1>4. CASE FetchSignature
  BY <1>4 DEF FetchSignature, InUse, RegistryFrom, Verified
<1>5. CASE AcceptRegistry
  <2>1. CASE Acceptable(got, gotSig)
    BY <1>5, <2>1, <1>u, PayloadsAreRegistries, BundledIsGenuine
       DEF AcceptRegistry, Acceptable, InUse, RegistryFrom, Verified
  <2>2. CASE ~Acceptable(got, gotSig)
    BY <1>5, <2>2 DEF AcceptRegistry, InUse, RegistryFrom, Verified
  <2>. QED  BY <2>1, <2>2
<1>6. CASE WriteSignature
  BY <1>6, PayloadsAreRegistries, BundledIsGenuine
     DEF WriteSignature, InUse, RegistryFrom, Verified
<1>7. CASE Restart
  BY <1>7 DEF Restart, InUse, RegistryFrom, Verified
<1>8. CASE ResolveLimits
  BY <1>8, <1>u DEF ResolveLimits, InUse, RegistryFrom, Verified
<1>9. CASE UNCHANGED regVars
  BY <1>9 DEF regVars, InUse, RegistryFrom, Verified
<1>. QED
  BY <1>1, <1>2, <1>3, <1>4, <1>5, <1>6, <1>7, <1>8, <1>9 DEF RegNext

(* A limit of two is at most each of the two that is set. *)
LEMMA CappedIsBelowBoth ==
    ASSUME NEW a \in Nat, NEW b \in Nat
    PROVE  /\ a > 0 => Capped(a, b) \in 1..a
           /\ b > 0 => Capped(a, b) \in 1..b
BY DEF Capped

(* The limits of resolve_provider_limit_profile with a cap respect the     *)
(* registry and the user.                                                  *)
LEMMA RegistryCaps == RegIInv => CapsRespected
<1>. SUFFICES ASSUME RegIInv, profile # Nothing, profile.for.mode = "auto_cap", NEW m \in Metrics
              PROVE  /\ profile.for.limits[m] > 0 => profile.limits[m] \in 1..profile.for.limits[m]
                     /\ RegistryLimits(profile.for, profile.from)[m] > 0 =>
                          profile.limits[m] \in 1..RegistryLimits(profile.for, profile.from)[m]
  BY DEF CapsRespected
<1>1. /\ profile.for \in ProviderLimits
      /\ profile.from \in Payloads
      /\ profile.limits = Resolved(profile.for, profile.from)
  BY DEF RegIInv, RegistryFrom
<1>2. profile.for.limits[m] \in Nat
  BY <1>1, LimitsAreNaturals
<1>3. RegistryLimits(profile.for, profile.from)[m] \in Nat
  BY <1>1, PayloadsAreRegistries DEF RegistryLimits, NoLimits
<1>4. profile.limits[m] = Capped(RegistryLimits(profile.for, profile.from)[m], profile.for.limits[m])
  BY <1>1 DEF Resolved
<1>. QED
  BY <1>2, <1>3, <1>4, CappedIsBelowBoth

(* The registry in use is signed, not older than the bundled one and the   *)
(* one accepted last; a refresh never steps back to an older one.          *)
THEOREM RegistryIsSafe == RegSpec => RegistrySafe
<1>1. RegIInv => RegistryTrusted /\ RegistryNotLost
  BY DEF RegIInv, RegistryTrusted, RegistryNotLost, RegistryFrom
<1>2. RegIInv /\ RegIInv' /\ [RegNext]_regVars => [accepted'.ver >= accepted.ver \/ halfStored]_regVars
  <2>. SUFFICES ASSUME RegIInv, RegNext
                PROVE  accepted'.ver >= accepted.ver \/ halfStored
    OBVIOUS
  <2>1. accepted.ver \in Nat
    BY PayloadsAreRegistries DEF RegIInv, RegistryFrom
  <2>2. CASE WriteSignature
    BY <2>2 DEF WriteSignature, RegIInv
  <2>3. CASE accepted' = accepted
    BY <2>1, <2>3
  <2>. QED
    BY <2>2, <2>3 DEF RegNext, PublishPayload, PublishSignature, FetchRegistry, FetchSignature,
                      AcceptRegistry, Restart, ResolveLimits
<1>. QED
  BY <1>1, <1>2, RegIInvInit, RegIInvNext, RegistryCaps, PTL
     DEF RegSpec, RegistrySafe, NoRegistryDowngrade

-----------------------------------------------------------------------------
(* The database and the processes that migrate it. *)

Databases ==
    [ver : 0..CurrentDb, tables : BOOLEAN, applied : SUBSET ((BaselineVersion + 1)..CurrentDb),
     history : Seq(Nat), rows : {"none", "user"}, commits : Nat]

(* A database as the migrations leave it: nothing is missing below its     *)
(* version, nothing was applied above it, and its history has no           *)
(* migration twice.                                                        *)
GoodDb(d) ==
    /\ d \in Databases
    /\ d.ver >= BaselineVersion => d.tables /\ d.applied = (BaselineVersion + 1)..d.ver
    /\ d.ver < BaselineVersion => d.applied = {}
    /\ \A i \in DOMAIN d.history : d.history[i] <= d.ver
    /\ \A i, j \in DOMAIN d.history : d.history[i] = d.history[j] => i = j

Steps == {"off", "read", "core", "commit", "apply", "ui", "run", "failed"}

Processes == [at : Steps, supports : {0, LegacyVersion, CurrentDb}, seen : 0..CurrentDb, snap : Nat]

(* A transaction that read the version and can still be upgraded to a      *)
(* write has read the version the database has; the numbered migrations    *)
(* start where the legacy ones end.                                        *)
ReadIsFresh(p) ==
    /\ proc[p].at = "commit" =>
         /\ proc[p].seen <= LegacyVersion
         /\ proc[p].snap <= db.commits
         /\ proc[p].snap = db.commits => proc[p].seen = db.ver
    /\ proc[p].at = "apply" => proc[p].seen >= LegacyVersion

ProcsInv ==
    /\ GoodDb(db)
    /\ proc \in [Procs -> Processes]
    /\ \A p \in Procs : ReadIsFresh(p)

(* A database that does not exist yet is one without migrations. *)
LEMMA NoDbIsGood == GoodDb(NoDb)
<1>1. NoDb \in Databases
  BY VersionsOrdered DEF NoDb, Databases
<1>. QED
  BY <1>1, VersionsOrdered DEF NoDb, GoodDb

(* The legacy transaction from the version the database has completes it   *)
(* up to LegacyVersion.                                                    *)
LEMMA LegacyMigrationIsGood ==
    ASSUME NEW d, GoodDb(d), d.ver <= LegacyVersion,
           NEW e, e = [LegacyMigrated(CreateTables(d), d.ver) EXCEPT !.commits = @ + 1]
    PROVE  /\ GoodDb(e)
           /\ e.ver = LegacyVersion /\ e.rows = d.rows /\ e.commits = d.commits + 1
<1>. DEFINE from == IF d.ver > BaselineVersion THEN d.ver ELSE BaselineVersion
            app  == d.applied \cup ((from + 1)..LegacyVersion)
<1>1. d \in Databases
  BY DEF GoodDb
<1>2. app = (BaselineVersion + 1)..LegacyVersion
  <2>1. d.ver \in Nat
    BY <1>1, VersionsOrdered DEF Databases
  <2>2. CASE d.ver >= BaselineVersion
    <3>1. d.applied = (BaselineVersion + 1)..d.ver
      BY <2>2 DEF GoodDb
    <3>2. from = d.ver
      BY <2>1, <2>2, VersionsOrdered
    <3>. QED  BY <2>1, <2>2, <3>1, <3>2, VersionsOrdered
  <2>3. CASE d.ver < BaselineVersion
    BY <2>1, <2>3, VersionsOrdered DEF GoodDb
  <2>. QED  BY <2>1, <2>2, <2>3, VersionsOrdered
<1>. HIDE DEF app
<1>3. e = [d EXCEPT !.tables = TRUE, !.ver = LegacyVersion, !.applied = app, !.commits = d.commits + 1]
  BY <1>1 DEF LegacyMigrated, CreateTables, Databases, app
<1>4. /\ e.ver = LegacyVersion /\ e.rows = d.rows /\ e.commits = d.commits + 1
      /\ e.tables = TRUE /\ e.applied = app /\ e.history = d.history
  BY <1>1, <1>3 DEF Databases
<1>5. /\ app \in SUBSET ((BaselineVersion + 1)..CurrentDb)
      /\ LegacyVersion \in 0..CurrentDb /\ d.commits + 1 \in Nat
  BY <1>1, <1>2, VersionsOrdered DEF Databases
<1>6. e \in Databases
  BY <1>1, <1>3, <1>5 DEF Databases
<1>7. \A i \in DOMAIN d.history : d.history[i] <= LegacyVersion
  <2>. SUFFICES ASSUME NEW i \in DOMAIN d.history PROVE d.history[i] <= LegacyVersion
    OBVIOUS
  <2>1. d.history[i] \in Nat /\ d.ver \in Nat
    BY <1>1, VersionsOrdered DEF Databases
  <2>. QED  BY <2>1, VersionsOrdered DEF GoodDb
<1>. QED
  BY <1>2, <1>4, <1>6, <1>7, VersionsOrdered DEF GoodDb

(* One numbered migration adds its version, to the history too. *)
LEMMA NumberedMigrationIsGood ==
    ASSUME NEW d, GoodDb(d), NEW v \in Nat, v <= CurrentDb, d.ver = v - 1, LegacyVersion <= d.ver,
           NEW e, e = [d EXCEPT !.ver = v, !.applied = d.applied \cup {v},
                                !.history = Append(d.history, v), !.commits = d.commits + 1]
    PROVE  /\ GoodDb(e)
           /\ e.ver = v /\ e.rows = d.rows /\ e.commits = d.commits + 1
<1>. DEFINE app == d.applied \cup {v}
            hist2 == Append(d.history, v)
<1>1. d \in Databases
  BY DEF GoodDb
<1>2. app = (BaselineVersion + 1)..v
  BY VersionsOrdered DEF GoodDb
<1>3. /\ hist2 \in Seq(Nat)
      /\ DOMAIN hist2 = 1..(Len(d.history) + 1) /\ DOMAIN d.history = 1..Len(d.history)
      /\ hist2[Len(d.history) + 1] = v
      /\ \A i \in 1..Len(d.history) : hist2[i] = d.history[i] /\ d.history[i] \in Nat
      /\ Len(d.history) \in Nat
  BY <1>1 DEF Databases
<1>. HIDE DEF app, hist2
<1>4. e = [d EXCEPT !.ver = v, !.applied = app, !.history = hist2, !.commits = d.commits + 1]
  BY DEF app, hist2
<1>5. /\ e.ver = v /\ e.rows = d.rows /\ e.commits = d.commits + 1
      /\ e.tables = d.tables /\ e.applied = app /\ e.history = hist2
  BY <1>1, <1>4 DEF Databases
<1>6. /\ app \in SUBSET ((BaselineVersion + 1)..CurrentDb)
      /\ v \in 0..CurrentDb /\ d.commits + 1 \in Nat
  BY <1>1, <1>2, VersionsOrdered DEF Databases
<1>7. e \in Databases
  BY <1>1, <1>3, <1>4, <1>6 DEF Databases
<1>8. \A i \in DOMAIN hist2 : hist2[i] <= v
  BY <1>3 DEF GoodDb
<1>9. \A i, j \in DOMAIN hist2 : hist2[i] = hist2[j] => i = j
  <2>1. \A i \in 1..Len(d.history) : d.history[i] < v
    BY <1>3 DEF GoodDb
  <2>. SUFFICES ASSUME NEW i \in 1..(Len(d.history) + 1), NEW j \in 1..(Len(d.history) + 1),
                       hist2[i] = hist2[j]
                PROVE  i = j
    BY <1>3
  <2>2. \A k \in 1..(Len(d.history) + 1) : k \in 1..Len(d.history) \/ k = Len(d.history) + 1
    BY <1>3
  <2>3. CASE i \in 1..Len(d.history) /\ j \in 1..Len(d.history)
    BY <1>3, <2>3 DEF GoodDb
  <2>4. CASE i = Len(d.history) + 1 /\ j \in 1..Len(d.history)
    BY <1>3, <2>1, <2>4
  <2>5. CASE j = Len(d.history) + 1 /\ i \in 1..Len(d.history)
    BY <1>3, <2>1, <2>5
  <2>. QED  BY <2>2, <2>3, <2>4, <2>5
<1>10. d.tables
  BY VersionsOrdered DEF GoodDb
<1>. QED
  BY <1>2, <1>5, <1>7, <1>8, <1>9, <1>10, VersionsOrdered DEF GoodDb

-----------------------------------------------------------------------------
(* The update. *)

(* A process of the new program that migrates has not read a version above *)
(* the one of the database; once it shows its window there is none left.   *)
Migrating(p) ==
    proc[p].supports = CurrentDb =>
        /\ proc[p].at \in {"commit", "apply"} => proc[p].seen <= db.ver
        /\ proc[p].at \in {"ui", "run"} => db.ver = CurrentDb

(* A process of the old program knows the legacy part only. *)
LegacyOnly(p) ==
    proc[p].supports = LegacyVersion => proc[p].at \in {"core", "commit", "ui", "run", "failed"}

Waiting == {"off", "wait", "moved", "preserve", "start", "exited"}

UpdTypes ==
    /\ step \in {"idle", "checked", "downloaded", "prepared", "closing", "closed"}
    /\ script \in Waiting \cup {"poll", "kill", "rollback", "confirmed", "done"}
    /\ status \in {"none", "success", "rolled_back"}
    /\ files \subseteq Items /\ polls \in 0..MaxPolls
    /\ marker \in BOOLEAN /\ inside \in BOOLEAN /\ botched \in BOOLEAN

(* What was offered and prepared. *)
OfferInv ==
    /\ step # "idle" => Available(release)
    /\ step \in {"prepared", "closing", "closed"} => ManifestMatches(stage, release)
    /\ script # "off" => step \in {"closing", "closed"}
    /\ script \notin {"off", "wait"} => step = "closed"
    /\ inst = Unset \/ inst = Own
         \/ (step = "closed" /\ inst = [ver |-> stage.ver, build |-> stage.build])

(* Which processes run in which step of the script. *)
ProcessInv ==
    /\ script \in Waiting => marker = FALSE /\ \A p \in Procs : proc[p].at = "off"
    /\ \A q \in Procs \ {New, Old, Second} : proc[q].at = "off"
    /\ status # "none" => script = "done"
    /\ script \in {"poll", "kill", "confirmed"} => proc[New].at # "off"
    /\ proc[New].at # "off" => proc[New].supports = CurrentDb
    /\ proc[Old].at # "off" =>
         status = "rolled_back" /\ (~botched => proc[Old].supports = LegacyVersion)
    /\ LegacyOnly(Old)
    /\ (script = "rollback" \/ status = "rolled_back") => proc[New].at \in {"off", "failed"} \/ told
    /\ botched => status = "rolled_back"

(* What the backup and the database hold. *)
DataInv ==
    /\ script \in {"off", "wait"} => inst = Own /\ db.ver <= LegacyVersion /\ files = Items
    /\ script \in {"moved", "preserve", "start", "poll", "kill", "rollback", "confirmed"} =>
         /\ backup.prog = Own
         /\ inside => /\ GoodDb(backup.db) /\ backup.db.ver <= LegacyVersion
                      /\ backup.db.rows = "user" /\ backup.files = Items
    /\ (inside => script \notin {"moved", "preserve", "rollback"} /\ ~botched) => db.rows = "user"
    /\ (botched /\ inside) => backup.db.rows = "user" /\ backup.files = Items
    /\ (status = "rolled_back" /\ ~botched) =>
         /\ inst = Own
         /\ (inside /\ proc[Second].at = "off" /\ ~outlived) =>
              db.ver <= LegacyVersion /\ files = Items

(* Until the old program is restored, what the new one confirmed holds. *)
ConfirmInv ==
    /\ status # "rolled_back" => Migrating(New) /\ (marker => db.ver = CurrentDb)
    /\ script = "confirmed" => db.ver = CurrentDb
    /\ status = "success" => db.ver = CurrentDb /\ backup = Unset

UpdIInv == ProcsInv /\ UpdTypes /\ OfferInv /\ ProcessInv /\ DataInv /\ ConfirmInv

(* What a step of a process does, whichever it is: it keeps the database   *)
(* whole, never takes its version back, and is alone in changing its own   *)
(* state.                                                                  *)
Progress(p) ==
    /\ ProcsInv'
    /\ db'.ver >= db.ver /\ db'.rows = db.rows
    /\ proc[p].at \notin {"off", "failed"} /\ proc'[p].at # "off"
    /\ proc'[p].supports = proc[p].supports
    /\ \A q \in Procs \ {p} : proc'[q] = proc[q]
    /\ Migrating(p) => Migrating(p)'
    /\ LegacyOnly(p) =>
         /\ LegacyOnly(p)'
         /\ (proc[p].supports = LegacyVersion /\ db.ver <= LegacyVersion) => db'.ver <= LegacyVersion

(* Process p is at the given step with the given fields, the others are    *)
(* as they were.                                                           *)
Updated(m, p, at, seen, snap) ==
    /\ m \in [Procs -> Processes]
    /\ m[p].at = at /\ m[p].supports = proc[p].supports
    /\ m[p].seen = seen /\ m[p].snap = snap
    /\ \A q \in Procs \ {p} : m[q] = proc[q]

(* The updates of a process name some of its fields and keep the others. *)
LEMMA ProcessUpdate ==
    ASSUME proc \in [Procs -> Processes], NEW p \in Procs,
           NEW at \in Steps, NEW seen \in 0..CurrentDb, NEW snap \in Nat, NEW m
    PROVE  /\ m = [proc EXCEPT ![p].at = at] => Updated(m, p, at, proc[p].seen, proc[p].snap)
           /\ m = [proc EXCEPT ![p].seen = seen] => Updated(m, p, proc[p].at, seen, proc[p].snap)
           /\ m = [proc EXCEPT ![p].at = at, ![p].seen = seen] =>
                Updated(m, p, at, seen, proc[p].snap)
           /\ m = [proc EXCEPT ![p].at = at, ![p].seen = seen, ![p].snap = snap] =>
                Updated(m, p, at, seen, snap)
<1>1. ASSUME m = [proc EXCEPT ![p].at = at] PROVE Updated(m, p, at, proc[p].seen, proc[p].snap)
  BY <1>1 DEF Processes, Updated
<1>2. ASSUME m = [proc EXCEPT ![p].seen = seen] PROVE Updated(m, p, proc[p].at, seen, proc[p].snap)
  BY <1>2 DEF Processes, Updated
<1>3. ASSUME m = [proc EXCEPT ![p].at = at, ![p].seen = seen]
      PROVE  Updated(m, p, at, seen, proc[p].snap)
  BY <1>3 DEF Processes, Updated
<1>4. ASSUME m = [proc EXCEPT ![p].at = at, ![p].seen = seen, ![p].snap = snap]
      PROVE  Updated(m, p, at, seen, snap)
  BY <1>4 DEF Processes, Updated
<1>. QED
  BY <1>1, <1>2, <1>3, <1>4

(* A write ends the freshness of what every other process has read. *)
LEMMA OthersStayFresh ==
    ASSUME ProcsInv, NEW p \in Procs, proc' \in [Procs -> Processes],
           \A q \in Procs \ {p} : proc'[q] = proc[q],
           GoodDb(db'), db' = db \/ db'.commits = db.commits + 1, ReadIsFresh(p)'
    PROVE  ProcsInv'
<1>. SUFFICES ASSUME NEW q \in Procs PROVE ReadIsFresh(q)'
  BY DEF ProcsInv
<1>1. CASE q = p
  BY <1>1
<1>2. CASE q # p
  <2>1. ReadIsFresh(q) /\ proc'[q] = proc[q] /\ proc[q].snap \in Nat
    BY <1>2 DEF ProcsInv, Processes
  <2>2. db.commits \in Nat
    BY DEF ProcsInv, GoodDb, Databases
  <2>. QED  BY <2>1, <2>2 DEF ReadIsFresh
<1>. QED  BY <1>1, <1>2

(* Every step of a process is such a step. *)
LEMMA ProcessProgress ==
    ASSUME ProcsInv, NEW p \in Procs, StartUpStep(p) \/ Dies(p)
    PROVE  Progress(p)
<1>1. /\ proc \in [Procs -> Processes] /\ GoodDb(db) /\ db \in Databases /\ ReadIsFresh(p)
  BY DEF ProcsInv, GoodDb
<1>2. /\ db.ver \in 0..CurrentDb /\ db.commits \in Nat
      /\ proc[p].at \in Steps /\ proc[p].supports \in {0, LegacyVersion, CurrentDb}
      /\ proc[p].seen \in 0..CurrentDb /\ proc[p].snap \in Nat
  BY <1>1 DEF Databases, Processes
<1>3. ASSUME NEW at \in Steps, proc' = [proc EXCEPT ![p].at = at], UNCHANGED db,
             proc[p].at \notin {"off", "failed"}, at \in {"failed", "ui", "run"},
             at = "ui" => proc[p].at = "apply" /\ proc[p].seen + 1 > CurrentDb,
             at = "run" => proc[p].at = "ui"
      PROVE  Progress(p)
  <2>1. Updated(proc', p, at, proc[p].seen, proc[p].snap)
    BY <1>1, <1>2, <1>3, ProcessUpdate
  <2>2. ReadIsFresh(p)'
    BY <1>3, <2>1 DEF Updated, ReadIsFresh
  <2>3. ProcsInv'
    BY <1>1, <1>3, <2>1, <2>2, OthersStayFresh DEF Updated
  <2>. QED
    BY <1>2, <1>3, <2>1, <2>3, VersionsOrdered
       DEF Progress, Updated, Migrating, LegacyOnly
<1>4. CASE Dies(p)
  BY <1>3, <1>4 DEF Dies, At, Steps
<1>5. CASE BuildUi(p)
  BY <1>3, <1>5 DEF BuildUi, At, Steps
<1>6. CASE ReadVersion(p)
  <2>. DEFINE at == IF db.ver > proc[p].supports THEN "failed"
                    ELSE IF db.ver <= LegacyVersion THEN "core" ELSE "apply"
  <2>1. Updated(proc', p, at, db.ver, proc[p].snap)
    BY <1>1, <1>2, <1>6, ProcessUpdate DEF ReadVersion, Steps
  <2>2. ReadIsFresh(p)'
    BY <1>2, <1>6, <2>1, VersionsOrdered DEF ReadVersion, Updated, ReadIsFresh
  <2>3. ProcsInv'
    BY <1>1, <1>6, <2>1, <2>2, OthersStayFresh DEF ReadVersion, Updated
  <2>. QED
    BY <1>2, <1>6, <2>1, <2>3, VersionsOrdered
       DEF ReadVersion, Progress, Updated, Migrating, LegacyOnly
<1>7. CASE CoreBegin(p)
  <2>. DEFINE at == IF db.ver > LegacyVersion THEN "failed" ELSE "commit"
  <2>1. Updated(proc', p, at, db.ver, db.commits)
    BY <1>1, <1>2, <1>7, ProcessUpdate DEF CoreBegin, Steps
  <2>2. ReadIsFresh(p)'
    BY <1>2, <1>7, <2>1, VersionsOrdered DEF CoreBegin, Updated, ReadIsFresh
  <2>3. ProcsInv'
    BY <1>1, <1>7, <2>1, <2>2, OthersStayFresh DEF CoreBegin, Updated
  <2>. QED
    BY <1>2, <1>7, <2>1, <2>3, VersionsOrdered
       DEF CoreBegin, Progress, Updated, Migrating, LegacyOnly
<1>8. CASE CoreCommit(p)
  <2>. DEFINE next == IF proc[p].supports > LegacyVersion THEN "apply" ELSE "ui"
  <2>1. CASE /\ proc[p].seen = LegacyVersion
             /\ proc' = [proc EXCEPT ![p].at = next, ![p].seen = LegacyVersion]
             /\ UNCHANGED db
    <3>1. Updated(proc', p, next, LegacyVersion, proc[p].snap)
      BY <1>1, <1>2, <2>1, ProcessUpdate, VersionsOrdered DEF Steps
    <3>2. ReadIsFresh(p)'
      BY <1>2, <3>1, VersionsOrdered DEF Updated, ReadIsFresh
    <3>3. ProcsInv'
      BY <1>1, <2>1, <3>1, <3>2, OthersStayFresh DEF Updated
    <3>. QED
      BY <1>2, <1>8, <2>1, <3>1, <3>3, VersionsOrdered
         DEF CoreCommit, Progress, Updated, Migrating, LegacyOnly
  <2>2. CASE /\ Upgrades(p)
             /\ db' = [LegacyMigrated(CreateTables(db), proc[p].seen) EXCEPT !.commits = @ + 1]
             /\ proc' = [proc EXCEPT ![p].at = next, ![p].seen = LegacyVersion]
    <3>t. /\ proc \in [Procs -> Processes] /\ next \in Steps /\ LegacyVersion \in 0..CurrentDb
          /\ proc' = [proc EXCEPT ![p].at = next, ![p].seen = LegacyVersion]
      BY <1>1, <2>2, VersionsOrdered DEF Steps
    <3>1. Updated(proc', p, next, LegacyVersion, proc[p].snap)
      <4>. HIDE DEF next
      <4>. QED  BY <3>t, <1>2, ProcessUpdate
    <3>2. ReadIsFresh(p)'
      BY <1>2, <3>1, VersionsOrdered DEF Updated, ReadIsFresh
    <3>3. proc[p].seen = db.ver /\ db.ver <= LegacyVersion
      BY <1>1, <1>8, <2>2 DEF CoreCommit, Upgrades, ReadIsFresh
    <3>4. /\ GoodDb(db')
          /\ db'.ver = LegacyVersion /\ db'.rows = db.rows /\ db'.commits = db.commits + 1
      BY <1>1, <2>2, <3>3, LegacyMigrationIsGood
    <3>5. ProcsInv'
      BY <3>1, <3>2, <3>4, OthersStayFresh DEF Updated
    <3>. QED
      BY <1>2, <1>8, <3>1, <3>3, <3>4, <3>5, VersionsOrdered
         DEF CoreCommit, Progress, Updated, Migrating, LegacyOnly
  <2>3. CASE proc' = At(p, "failed") /\ UNCHANGED db
    BY <1>3, <1>8, <2>3 DEF CoreCommit, At, Steps
  <2>. QED  BY <1>8, <2>1, <2>2, <2>3 DEF CoreCommit
<1>9. CASE ApplyMigration(p)
  <2>. DEFINE v == proc[p].seen + 1
  <2>1. CASE v > CurrentDb /\ proc' = At(p, "ui") /\ UNCHANGED db
    BY <1>3, <1>9, <2>1 DEF ApplyMigration, At, Steps
  <2>2. CASE /\ v <= CurrentDb /\ Migration(p, v) = "skip"
             /\ proc' = [proc EXCEPT ![p].seen = v]
             /\ UNCHANGED db
    <3>t. /\ proc \in [Procs -> Processes] /\ v \in 0..CurrentDb
          /\ proc' = [proc EXCEPT ![p].seen = v]
      BY <1>1, <1>2, <2>2, VersionsOrdered
    <3>1. Updated(proc', p, proc[p].at, v, proc[p].snap)
      <4>. HIDE DEF v
      <4>. QED  BY <3>t, <1>2, ProcessUpdate
    <3>2. ReadIsFresh(p)'
      BY <1>1, <1>2, <1>9, <3>1, VersionsOrdered DEF ApplyMigration, Updated, ReadIsFresh
    <3>3. ProcsInv'
      BY <1>1, <2>2, <3>1, <3>2, OthersStayFresh DEF Updated
    <3>. QED
      BY <1>2, <1>9, <2>2, <3>1, <3>3, VersionsOrdered
         DEF ApplyMigration, Migration, Progress, Updated, Migrating, LegacyOnly
  <2>3. CASE /\ v <= CurrentDb /\ Migration(p, v) = "apply"
             /\ db' = [db EXCEPT !.ver = v, !.applied = @ \cup {v},
                                 !.history = Append(@, v), !.commits = @ + 1]
             /\ proc' = [proc EXCEPT ![p].seen = v]
    <3>t. /\ proc \in [Procs -> Processes] /\ v \in 0..CurrentDb
          /\ proc' = [proc EXCEPT ![p].seen = v]
      BY <1>1, <1>2, <2>3, VersionsOrdered
    <3>1. Updated(proc', p, proc[p].at, v, proc[p].snap)
      <4>. HIDE DEF v
      <4>. QED  BY <3>t, <1>2, ProcessUpdate
    <3>2. ReadIsFresh(p)'
      BY <1>1, <1>2, <1>9, <3>1, VersionsOrdered DEF ApplyMigration, Updated, ReadIsFresh
    <3>3. db.ver = v - 1 /\ LegacyVersion <= db.ver /\ v \in Nat
      BY <1>1, <1>2, <1>9, <2>3, VersionsOrdered DEF ApplyMigration, Migration, ReadIsFresh
    <3>4. /\ GoodDb(db')
          /\ db'.ver = v /\ db'.rows = db.rows /\ db'.commits = db.commits + 1
      <4>1. /\ GoodDb(db) /\ v <= CurrentDb
            /\ db' = [db EXCEPT !.ver = v, !.applied = db.applied \cup {v},
                                !.history = Append(db.history, v), !.commits = db.commits + 1]
        BY <1>1, <2>3
      <4>. HIDE DEF v
      <4>2. \A e : e = [db EXCEPT !.ver = v, !.applied = db.applied \cup {v},
                                  !.history = Append(db.history, v), !.commits = db.commits + 1]
                  => /\ GoodDb(e)
                     /\ e.ver = v /\ e.rows = db.rows /\ e.commits = db.commits + 1
        BY <3>3, <4>1, NumberedMigrationIsGood
      <4>. QED  BY <4>1, <4>2
    <3>5. ProcsInv'
      BY <3>1, <3>2, <3>4, OthersStayFresh DEF Updated
    <3>. QED
      BY <1>2, <1>9, <3>1, <3>3, <3>4, <3>5, VersionsOrdered
         DEF ApplyMigration, Progress, Updated, Migrating, LegacyOnly
  <2>4. CASE proc' = At(p, "failed") /\ UNCHANGED db
    BY <1>3, <1>9, <2>4 DEF ApplyMigration, At, Steps
  <2>. QED  BY <1>9, <2>1, <2>2, <2>3, <2>4 DEF ApplyMigration
<1>. QED
  BY <1>4, <1>5, <1>6, <1>7, <1>8, <1>9 DEF StartUpStep

(* A process that starts reads the version first, or begins with the       *)
(* legacy part.                                                            *)
LEMMA StartedProcess ==
    /\ Started(CurrentDb) \in Processes
    /\ Started(CurrentDb).at = "read" /\ Started(CurrentDb).supports = CurrentDb
    /\ Started(LegacyVersion) \in Processes
    /\ Started(LegacyVersion).at = "core" /\ Started(LegacyVersion).supports = LegacyVersion
BY VersionsOrdered DEF Started, Processes, Steps

(* Starting a process touches no transaction of another. *)
LEMMA StartKeeps ==
    ASSUME ProcsInv, NEW p \in Procs, NEW s \in {LegacyVersion, CurrentDb},
           proc' = [proc EXCEPT ![p] = Started(s)], UNCHANGED db
    PROVE  /\ ProcsInv' /\ proc'[p] = Started(s)
           /\ \A q \in Procs \ {p} : proc'[q] = proc[q]
<1>1. proc \in [Procs -> Processes] /\ GoodDb(db)
  BY DEF ProcsInv
<1>2. /\ proc' \in [Procs -> Processes] /\ proc'[p] = Started(s)
      /\ \A q \in Procs \ {p} : proc'[q] = proc[q]
  BY <1>1, StartedProcess
<1>3. ReadIsFresh(p)'
  BY <1>2, StartedProcess DEF ReadIsFresh
<1>4. ProcsInv'
  BY <1>1, <1>2, <1>3, OthersStayFresh
<1>. QED  BY <1>2, <1>4

(* The program of the user, before the update. *)
LEMMA UpdIInvInit == UpdInit => UpdIInv
<1>. SUFFICES ASSUME UpdInit PROVE UpdIInv
  OBVIOUS
<1>1. PICK v \in FirstVersions :
        db = [NoDb EXCEPT !.ver = v, !.tables = TRUE, !.applied = (BaselineVersion + 1)..v,
                          !.rows = "user"]
  BY DEF UpdInit
<1>2. v \in Nat /\ v <= LegacyVersion
  BY UpdatedFromLegacy, VersionsOrdered
<1>3. db = [ver |-> v, tables |-> TRUE, applied |-> (BaselineVersion + 1)..v, history |-> <<>>,
            rows |-> "user", commits |-> 0]
  BY <1>1 DEF NoDb
<1>4. db \in Databases
  BY <1>2, <1>3, VersionsOrdered DEF Databases
<1>5. GoodDb(db) /\ db.ver <= LegacyVersion /\ db.rows = "user"
  BY <1>2, <1>3, <1>4, VersionsOrdered DEF GoodDb
<1>6. Off \in Processes /\ Off.at = "off" /\ Off.supports = 0
  BY VersionsOrdered DEF Off, Processes, Steps
<1>7. proc \in [Procs -> Processes] /\ \A p \in Procs : proc[p] = Off
  BY <1>6 DEF UpdInit
<1>8. ProcsInv
  BY <1>5, <1>6, <1>7 DEF ProcsInv, ReadIsFresh
<1>i. /\ step = "idle" /\ inst = Own /\ files = Items /\ inside \in BOOLEAN
      /\ script = "off" /\ marker = FALSE /\ polls = 0 /\ status = "none" /\ botched = FALSE
  BY DEF UpdInit
<1>9. UpdTypes
  <2>1. polls \in 0..MaxPolls /\ files \subseteq Items
    BY <1>i, PollBound
  <2>2. marker \in BOOLEAN /\ inside \in BOOLEAN /\ botched \in BOOLEAN
    BY <1>i
  <2>. QED  BY <1>i, <2>1, <2>2, Zenon DEF UpdTypes, Waiting
<1>10. OfferInv
  BY DEF UpdInit, OfferInv
<1>11. ProcessInv
  BY <1>i, <1>6, <1>7, ThreeProcesses, VersionsOrdered DEF ProcessInv, LegacyOnly, Waiting
<1>12. DataInv
  BY <1>5, <1>i DEF DataInv
<1>13. ConfirmInv
  BY <1>6, <1>7, ThreeProcesses, VersionsOrdered DEF UpdInit, ConfirmInv, Migrating
<1>. QED
  BY <1>8, <1>9, <1>10, <1>11, <1>12, <1>13 DEF UpdIInv

(* The check, the download and the preparation decide what is installed    *)
(* before the script starts, and change nothing else.                      *)
LEMMA OfferStepKeeps ==
    ASSUME UpdIInv,
           CheckForUpdate \/ DownloadUpdate \/ PrepareInstall \/ CloseForInstall \/ ParentExits
    PROVE  UpdIInv'
<1>. USE DEF UpdIInv
<1>1. UNCHANGED <<db, proc, inst, files, backup, inside, marker, polls, status, told, botched, outlived>>
  BY DEF CheckForUpdate, DownloadUpdate, PrepareInstall, CloseForInstall, ParentExits, disk, updHistory
<1>2. UNCHANGED script \/ (script = "off" /\ script' = "wait")
  BY DEF CheckForUpdate, DownloadUpdate, PrepareInstall, CloseForInstall, ParentExits, OfferInv
<1>3. ProcsInv'
  BY <1>1 DEF ProcsInv, ReadIsFresh, GoodDb
<1>4. UpdTypes'
  BY <1>1, <1>2 DEF UpdTypes, Waiting, CheckForUpdate, DownloadUpdate, PrepareInstall, CloseForInstall,
     ParentExits
<1>5. OfferInv'
  <2>0. inst = Unset \/ inst = Own
    BY DEF OfferInv, CheckForUpdate, DownloadUpdate, PrepareInstall, CloseForInstall, ParentExits
  <2>1. CASE CheckForUpdate
    BY <1>1, <2>0, <2>1 DEF CheckForUpdate, OfferInv
  <2>2. CASE DownloadUpdate
    BY <1>1, <2>0, <2>2 DEF DownloadUpdate, OfferInv
  <2>3. CASE PrepareInstall
    BY <1>1, <2>0, <2>3 DEF PrepareInstall, OfferInv
  <2>4. CASE CloseForInstall
    BY <1>1, <2>0, <2>4 DEF CloseForInstall, OfferInv
  <2>5. CASE ParentExits
    BY <1>1, <2>0, <2>5 DEF ParentExits, OfferInv
  <2>. QED  BY <2>1, <2>2, <2>3, <2>4, <2>5
<1>6. ProcessInv'
  BY <1>1, <1>2 DEF ProcessInv, Waiting, LegacyOnly
<1>7. DataInv'
  BY <1>1, <1>2 DEF DataInv
<1>8. ConfirmInv'
  BY <1>1, <1>2 DEF ConfirmInv, Migrating
<1>. QED
  BY <1>3, <1>4, <1>5, <1>6, <1>7, <1>8

(* rm -rf backup; mv install backup: what is moved away is the old program *)
(* with its data.                                                          *)
LEMMA MoveInstallKeeps == ASSUME UpdIInv, MoveInstall PROVE UpdIInv'
<1>. USE DEF UpdIInv
<1>1. /\ script = "wait" /\ step = "closed" /\ script' \in {"moved", "exited"}
      /\ UNCHANGED <<proc, marker, polls, status, inside, step, release, stage, told, botched, outlived>>
  BY DEF MoveInstall, ScriptTo, guiVars
<1>2. \A p \in Procs : proc[p].at = "off"
  BY <1>1 DEF ProcessInv, Waiting
<1>d. /\ GoodDb(db) /\ db.ver <= LegacyVersion /\ db.rows = "user" /\ inst = Own /\ files = Items
      /\ status = "none" /\ marker = FALSE /\ inside \in BOOLEAN /\ botched = FALSE
  <2>1. status = "none" /\ marker = FALSE /\ inside \in BOOLEAN /\ botched = FALSE
    BY <1>1 DEF ProcessInv, UpdTypes, Waiting
  <2>. QED  BY <1>1, <2>1 DEF ProcsInv, DataInv
<1>3. /\ db' \in {db, NoDb} /\ files' \in {files, {}}
      /\ inst' \in {inst, Unset}
  BY DEF MoveInstall
<1>4. ProcsInv'
  BY <1>1, <1>2, <1>3, <1>d, NoDbIsGood DEF ProcsInv, ReadIsFresh
<1>5. UpdTypes'
  BY <1>1, <1>3 DEF UpdTypes, Waiting
<1>6. OfferInv'
  BY <1>1, <1>3, <1>d DEF OfferInv
<1>7. ProcessInv'
  BY <1>1, <1>2, <1>d, ThreeProcesses DEF ProcessInv, Waiting, LegacyOnly
<1>8. DataInv'
  <2>1. CASE script' = "moved"
    <3>1. /\ backup' = [prog |-> inst, db |-> IF inside THEN db ELSE NoDb,
                        files |-> IF inside THEN files ELSE {}]
          /\ db' = IF inside THEN NoDb ELSE db
      BY <2>1 DEF MoveInstall, ScriptTo
    <3>2. backup'.prog = Own /\ (inside => backup'.db = db /\ backup'.files = Items)
      BY <3>1, <1>d
    <3>. QED  BY <1>1, <1>d, <2>1, <3>1, <3>2 DEF DataInv
  <2>2. CASE script' = "exited"
    <3>1. UNCHANGED db
      BY <2>2 DEF MoveInstall, ScriptTo
    <3>. QED  BY <1>1, <1>d, <2>2, <3>1 DEF DataInv
  <2>. QED  BY <1>1, <2>1, <2>2
<1>9. ConfirmInv'
  BY <1>1, <1>2, <1>d, ThreeProcesses DEF ConfirmInv, Migrating
<1>. QED
  BY <1>4, <1>5, <1>6, <1>7, <1>8, <1>9

(* mv stage install || rollback *)
LEMMA MoveStageKeeps == ASSUME UpdIInv, MoveStage PROVE UpdIInv'
<1>. USE DEF UpdIInv
<1>1. /\ script = "moved" /\ script' \in {"preserve", "rollback"}
      /\ UNCHANGED <<db, proc, files, backup, marker, polls, status, inside, step, release, stage,
                     told, botched, outlived>>
      /\ inst' = inst \/ inst' = [ver |-> stage.ver, build |-> stage.build]
  BY DEF MoveStage, ScriptTo, guiVars
<1>2. /\ \A p \in Procs : proc[p].at = "off"
      /\ marker = FALSE /\ status = "none" /\ step = "closed"
  BY <1>1 DEF ProcessInv, OfferInv, UpdTypes, Waiting
<1>4. ProcsInv'
  BY <1>1 DEF ProcsInv, ReadIsFresh, GoodDb
<1>5. UpdTypes'
  BY <1>1 DEF UpdTypes, Waiting
<1>6. OfferInv'
  BY <1>1, <1>2 DEF OfferInv
<1>7. ProcessInv'
  BY <1>1, <1>2, ThreeProcesses DEF ProcessInv, Waiting, LegacyOnly
<1>8. DataInv'
  BY <1>1, <1>2 DEF DataInv
<1>9. ConfirmInv'
  BY <1>1, <1>2 DEF ConfirmInv, Migrating
<1>. QED
  BY <1>4, <1>5, <1>6, <1>7, <1>8, <1>9

(* The database is among what is copied back into the new program.         *)
LEMMA PreserveItemsKeeps == ASSUME UpdIInv, PreserveItems PROVE UpdIInv'
<1>. USE DEF UpdIInv
<1>1. /\ script = "preserve" /\ script' \in {"start", "rollback"}
      /\ UNCHANGED <<proc, inst, backup, marker, polls, status, inside, step, release, stage,
                     told, botched, outlived>>
  BY DEF PreserveItems, ScriptTo, guiVars
<1>2. /\ \A p \in Procs : proc[p].at = "off"
      /\ marker = FALSE /\ status = "none" /\ step = "closed" /\ inside \in BOOLEAN
  BY <1>1 DEF ProcessInv, OfferInv, UpdTypes, Waiting
<1>3. /\ backup.prog = Own
      /\ inside => /\ GoodDb(backup.db) /\ backup.db.ver <= LegacyVersion
                   /\ backup.db.rows = "user" /\ backup.files = Items
      /\ ~inside => db.rows = "user"
  BY <1>1 DEF DataInv
<1>d. \/ /\ script' = "start"
         /\ files' = IF inside THEN backup.files \cap Preserved ELSE files
         /\ db' = IF inside THEN backup.db ELSE db
      \/ /\ script' = "rollback" /\ UNCHANGED <<files, db>>
  BY DatabasePreserved DEF PreserveItems, Preserved, ScriptTo
<1>g. GoodDb(db) /\ GoodDb(db')
  <2>1. GoodDb(db)
    BY DEF ProcsInv
  <2>2. db' = db \/ (inside /\ db' = backup.db)
    BY <1>d
  <2>. QED  BY <1>3, <2>1, <2>2
<1>4. ProcsInv'
  BY <1>1, <1>2, <1>g DEF ProcsInv, ReadIsFresh
<1>5. UpdTypes'
  BY <1>1, <1>3, <1>d DEF UpdTypes, Waiting
<1>6. OfferInv'
  BY <1>1, <1>2 DEF OfferInv
<1>7. ProcessInv'
  BY <1>1, <1>2, ThreeProcesses DEF ProcessInv, Waiting, LegacyOnly
<1>8. DataInv'
  BY <1>1, <1>2, <1>3, <1>d DEF DataInv
<1>9. ConfirmInv'
  BY <1>1, <1>2, ThreeProcesses DEF ConfirmInv, Migrating
<1>. QED
  BY <1>4, <1>5, <1>6, <1>7, <1>8, <1>9

(* The new program is started.                                             *)
LEMMA StartNewKeeps == ASSUME UpdIInv, StartNew PROVE UpdIInv'
<1>. USE DEF UpdIInv
<1>1. /\ script = "start" /\ script' = "poll"
      /\ proc' = [proc EXCEPT ![New] = Started(CurrentDb)]
      /\ UNCHANGED <<db, inst, files, backup, marker, polls, status, inside, step, release, stage,
                     told, botched, outlived>>
  BY DEF StartNew, ScriptTo, guiVars, disk
<1>2. /\ \A p \in Procs : proc[p].at = "off"
      /\ marker = FALSE /\ status = "none" /\ step = "closed"
  BY <1>1 DEF ProcessInv, OfferInv, UpdTypes, Waiting
<1>3. New \in Procs /\ Old \in Procs \ {New} /\ Second \in Procs \ {New}
  BY ThreeProcesses
<1>4. /\ ProcsInv' /\ proc'[New] = Started(CurrentDb)
      /\ \A q \in Procs \ {New} : proc'[q] = proc[q]
  BY <1>1, <1>3, StartKeeps
<1>5. UpdTypes'
  BY <1>1 DEF UpdTypes, Waiting
<1>6. OfferInv'
  BY <1>1, <1>2 DEF OfferInv
<1>7. ProcessInv'
  BY <1>1, <1>2, <1>3, <1>4, StartedProcess DEF ProcessInv, Waiting, LegacyOnly
<1>8. DataInv'
  BY <1>1, <1>2 DEF DataInv
<1>9. ConfirmInv'
  BY <1>1, <1>2, <1>4, StartedProcess DEF ConfirmInv, Migrating
<1>. QED
  BY <1>4, <1>5, <1>6, <1>7, <1>8, <1>9

(* A poll leaves for success only with the marker.                         *)
LEMMA PollKeeps == ASSUME UpdIInv, Poll PROVE UpdIInv'
<1>. USE DEF UpdIInv
<1>1. /\ script = "poll" /\ script' \in {"poll", "kill", "confirmed"}
      /\ script' = "confirmed" => marker = TRUE
      /\ UNCHANGED <<db, proc, inst, files, backup, marker, status, inside, step, release, stage,
                     told, botched, outlived>>
      /\ polls' = polls \/ (polls' = polls + 1 /\ polls # MaxPolls)
  <2>1. marker \in BOOLEAN
    BY DEF UpdTypes
  <2>. QED  BY <2>1 DEF Poll, PollStep, ScriptTo, guiVars, disk
<1>2. status = "none" /\ step = "closed"
  BY <1>1 DEF ProcessInv, OfferInv, UpdTypes
<1>4. ProcsInv'
  BY <1>1 DEF ProcsInv, ReadIsFresh, GoodDb
<1>5. UpdTypes'
  BY <1>1, PollBound DEF UpdTypes, Waiting
<1>6. OfferInv'
  BY <1>1, <1>2 DEF OfferInv
<1>7. ProcessInv'
  BY <1>1, <1>2 DEF ProcessInv, Waiting, LegacyOnly
<1>8. DataInv'
  BY <1>1, <1>2 DEF DataInv
<1>9. ConfirmInv'
  BY <1>1, <1>2 DEF ConfirmInv, Migrating
<1>. QED
  BY <1>4, <1>5, <1>6, <1>7, <1>8, <1>9

(* The new process is told to end before the old program is restored.      *)
LEMMA KillNewKeeps == ASSUME UpdIInv, KillNew PROVE UpdIInv'
<1>. USE DEF UpdIInv
<1>1. /\ script = "kill" /\ script' = "rollback" /\ told' = TRUE
      /\ UNCHANGED <<db, proc, inst, files, backup, marker, polls, status, inside, step, release, stage,
                     botched, outlived>>
  BY DEF KillNew, ScriptTo, guiVars, disk
<1>2. status = "none" /\ step = "closed"
  BY <1>1 DEF ProcessInv, OfferInv, UpdTypes
<1>7. ProcsInv'
  BY <1>1 DEF ProcsInv, ReadIsFresh, GoodDb
<1>8. UpdTypes'
  BY <1>1 DEF UpdTypes, Waiting
<1>9. OfferInv'
  BY <1>1, <1>2 DEF OfferInv
<1>12. ProcessInv'
  BY <1>1, <1>2 DEF ProcessInv, Waiting, LegacyOnly
<1>13. DataInv'
  BY <1>1, <1>2 DEF DataInv
<1>14. ConfirmInv'
  BY <1>1, <1>2 DEF ConfirmInv, Migrating
<1>. QED
  BY <1>7, <1>8, <1>9, <1>12, <1>13, <1>14

(* rm -rf install; mv backup install: a process that still runs cannot     *)
(* upgrade what it read of the database that is gone; when one of the      *)
(* commands failed the backup is still there.                              *)
LEMMA RollbackKeeps == ASSUME UpdIInv, Rollback PROVE UpdIInv'
<1>. USE DEF UpdIInv
<1>. DEFINE started == IF inst' = Own THEN LegacyVersion ELSE CurrentDb
<1>1. /\ script = "rollback" /\ script' = "done" /\ status' = "rolled_back"
      /\ Restored \/ \E prog \in {inst, Unset}, data \in BOOLEAN : NotRestored(prog, data)
      /\ proc' = IF inst' = Unset THEN proc ELSE [proc EXCEPT ![Old] = Started(started)]
      /\ UNCHANGED <<marker, polls, inside, step, release, stage, told, outlived>>
  BY DEF Rollback, ScriptTo, guiVars
<1>2. /\ step = "closed" /\ inside \in BOOLEAN /\ files \subseteq Items /\ botched = FALSE
      /\ proc[New].at \in {"off", "failed"} \/ told
      /\ proc[New].at # "off" => proc[New].supports = CurrentDb
      /\ proc[Old].at = "off"
  <2>1. status = "none"
    BY <1>1 DEF ProcessInv, UpdTypes
  <2>. QED  BY <1>1, <2>1 DEF ProcessInv, OfferInv, UpdTypes
<1>3. Old \in Procs /\ New \in Procs \ {Old} /\ Second \in Procs \ {Old}
  BY ThreeProcesses
<1>4. /\ backup.prog = Own
      /\ inside => /\ GoodDb(backup.db) /\ backup.db.ver <= LegacyVersion
                   /\ backup.db.rows = "user" /\ backup.files = Items
      /\ ~inside => db.rows = "user"
  BY <1>1 DEF DataInv
<1>5. GoodDb(db) /\ proc \in [Procs -> Processes] /\ db.commits \in Nat
  BY DEF ProcsInv, GoodDb, Databases
(* What lies where the program was, and where its data were. *)
<1>6. /\ GoodDb(db') /\ (db' = db \/ db'.commits = db.commits + 1)
      /\ files' \subseteq Items /\ botched' \in BOOLEAN
      /\ ~inside => db'.rows = "user"
      /\ botched' => inst' \in {inst, Unset} /\ backup' = backup
      /\ ~botched' => /\ inst' = Own /\ db'.rows = "user"
                      /\ inside => db'.ver <= LegacyVersion /\ files' = Items
  <2>1. CASE Restored
    <3>1. /\ inst' = Own /\ botched' = FALSE
          /\ db' = IF inside THEN [backup.db EXCEPT !.commits = db.commits + 1] ELSE db
          /\ files' = IF inside THEN backup.files ELSE files
      BY <1>2, <1>4, <2>1 DEF Restored
    <3>2. CASE inside
      <4>1. backup.db \in Databases /\ db' = [backup.db EXCEPT !.commits = db.commits + 1]
        BY <1>4, <3>1, <3>2 DEF GoodDb
      <4>2. db' \in Databases
        <5>1. db.commits + 1 \in Nat
          BY <1>5
        <5>. QED  BY <4>1, <5>1 DEF Databases
      <4>3. /\ db'.ver = backup.db.ver /\ db'.rows = backup.db.rows /\ db'.tables = backup.db.tables
            /\ db'.applied = backup.db.applied /\ db'.history = backup.db.history
            /\ db'.commits = db.commits + 1
        BY <1>5, <4>1 DEF Databases
      <4>4. GoodDb(db') /\ db'.ver <= LegacyVersion /\ db'.rows = "user"
        BY <1>4, <3>2, <4>2, <4>3 DEF GoodDb
      <4>. QED  BY <1>4, <3>1, <3>2, <4>3, <4>4
    <3>3. CASE ~inside
      BY <1>2, <1>4, <1>5, <3>1, <3>3
    <3>. QED  BY <3>2, <3>3
  <2>2. CASE \E prog \in {inst, Unset}, data \in BOOLEAN : NotRestored(prog, data)
    <3>1. PICK prog \in {inst, Unset}, data \in BOOLEAN : NotRestored(prog, data)
      BY <2>2
    <3>2. /\ inst' \in {inst, Unset} /\ backup' = backup /\ botched' = TRUE
          /\ files' = files \/ files' = {}
          /\ db' = db \/ (inside /\ db' = [NoDb EXCEPT !.commits = db.commits + 1])
      BY <3>1 DEF NotRestored
    <3>3. ASSUME db' = [NoDb EXCEPT !.commits = db.commits + 1]
          PROVE  GoodDb(db') /\ db'.commits = db.commits + 1
      <4>0. GoodDb(NoDb) /\ NoDb \in Databases
        BY NoDbIsGood DEF GoodDb
      <4>1. db' \in Databases
        BY <1>5, <3>3, <4>0 DEF Databases
      <4>2. /\ db'.ver = NoDb.ver /\ db'.rows = NoDb.rows /\ db'.tables = NoDb.tables
            /\ db'.applied = NoDb.applied /\ db'.history = NoDb.history
            /\ db'.commits = db.commits + 1
        BY <1>5, <3>3, <4>0 DEF Databases
      <4>. QED  BY <4>0, <4>1, <4>2 DEF GoodDb
    <3>4. GoodDb(db') /\ (db' = db \/ db'.commits = db.commits + 1) /\ (~inside => db' = db)
      BY <1>5, <3>2, <3>3
    <3>. QED  BY <1>2, <1>4, <3>2, <3>4
  <2>. QED  BY <1>1, <2>1, <2>2
<1>7. /\ proc' \in [Procs -> Processes]
      /\ \A q \in Procs \ {Old} : proc'[q] = proc[q]
      /\ proc'[Old] = proc[Old] \/ (inst' # Unset /\ proc'[Old] = Started(started))
  BY <1>1, <1>3, <1>5, StartedProcess
<1>8. /\ ReadIsFresh(Old)' /\ LegacyOnly(Old)'
      /\ ~botched' => proc'[Old].at = "off" \/ proc'[Old].supports = LegacyVersion
  <2>1. CASE proc'[Old] = proc[Old]
    <3>1. ReadIsFresh(Old)'
      BY <1>2, <2>1 DEF ReadIsFresh
    <3>2. LegacyOnly(Old)'
      BY <1>2, <2>1 DEF LegacyOnly, ProcessInv
    <3>. QED  BY <1>2, <2>1, <3>1, <3>2
  <2>2. CASE inst' # Unset /\ proc'[Old] = Started(started)
    <3>1. ReadIsFresh(Old)'
      BY <2>2, StartedProcess DEF ReadIsFresh
    <3>2. LegacyOnly(Old)'
      BY <2>2, StartedProcess, VersionsOrdered DEF LegacyOnly
    <3>3. ~botched' => proc'[Old].supports = LegacyVersion
      BY <1>6, <2>2, StartedProcess
    <3>. QED  BY <3>1, <3>2, <3>3
  <2>. QED  BY <1>7, <2>1, <2>2
<1>. HIDE DEF started
<1>10. ProcsInv'
  BY <1>3, <1>6, <1>7, <1>8, OthersStayFresh
<1>11. UpdTypes'
  BY <1>1, <1>6 DEF UpdTypes, Waiting
<1>12. OfferInv'
  BY <1>1, <1>2, <1>6 DEF OfferInv
<1>13. ProcessInv'
  BY <1>1, <1>2, <1>3, <1>7, <1>8 DEF ProcessInv, Waiting
<1>14. DataInv'
  BY <1>1, <1>2, <1>4, <1>6 DEF DataInv
<1>15. ConfirmInv'
  BY <1>1 DEF ConfirmInv
<1>. QED
  BY <1>10, <1>11, <1>12, <1>13, <1>14, <1>15

(* The update succeeded: the backup is deleted.                            *)
LEMMA ConfirmKeeps == ASSUME UpdIInv, Confirm PROVE UpdIInv'
<1>. USE DEF UpdIInv
<1>1. /\ script = "confirmed" /\ script' = "done" /\ status' = "success"
      /\ backup' = Unset /\ marker' = FALSE
      /\ UNCHANGED <<db, proc, inst, files, polls, inside, step, release, stage, told, botched, outlived>>
  BY DEF Confirm, ScriptTo, guiVars
<1>2. status = "none" /\ ~botched /\ step = "closed" /\ db.ver = CurrentDb
  BY <1>1 DEF ProcessInv, OfferInv, UpdTypes, ConfirmInv
<1>4. ProcsInv'
  BY <1>1 DEF ProcsInv, ReadIsFresh, GoodDb
<1>5. UpdTypes'
  BY <1>1 DEF UpdTypes, Waiting
<1>6. OfferInv'
  BY <1>1, <1>2 DEF OfferInv
<1>7. ProcessInv'
  BY <1>1, <1>2 DEF ProcessInv, Waiting, LegacyOnly
<1>8. DataInv'
  BY <1>1, <1>2 DEF DataInv
<1>9. ConfirmInv'
  BY <1>1, <1>2 DEF ConfirmInv, Migrating
<1>. QED
  BY <1>4, <1>5, <1>6, <1>7, <1>8, <1>9

(* The processes that migrate, and their end.                              *)
LEMMA ProcessStepKeeps ==
    ASSUME UpdIInv, NEW p \in Procs, AppSteps(p) \/ AppDies(p)
    PROVE  UpdIInv'
<1>. USE DEF UpdIInv
<1>1. Progress(p)
  BY ProcessProgress DEF AppSteps, AppDies
<1>2. /\ UNCHANGED <<inst, files, backup, marker, polls, status, inside, step, release, stage, script,
                     told, botched>>
      /\ outlived => outlived'
      /\ (p = New /\ status = "rolled_back") => outlived' \/ UNCHANGED db
  <2>1. CASE AppSteps(p)
    BY <2>1 DEF AppSteps, Others, guiVars, disk
  <2>2. CASE AppDies(p)
    <3>1. UNCHANGED <<inst, files, backup, marker, polls, status, inside, step, release, stage, script,
                      told, botched, outlived, db>>
      BY <2>2 DEF AppDies, Dies, Others, guiVars, disk
    <3>. QED  BY <3>1
  <2>. QED  BY <2>1, <2>2
<1>3. /\ ProcsInv' /\ db'.ver >= db.ver /\ db'.rows = db.rows
      /\ proc[p].at \notin {"off", "failed"} /\ proc'[p].at # "off"
      /\ proc'[p].supports = proc[p].supports
      /\ \A q \in Procs \ {p} : proc'[q] = proc[q]
      /\ Migrating(p) => Migrating(p)'
      /\ LegacyOnly(p) =>
           /\ LegacyOnly(p)'
           /\ (proc[p].supports = LegacyVersion /\ db.ver <= LegacyVersion) => db'.ver <= LegacyVersion
  BY <1>1 DEF Progress
<1>4. db.ver \in 0..CurrentDb /\ db'.ver \in 0..CurrentDb
  BY <1>3 DEF ProcsInv, GoodDb, Databases
<1>5. script \notin Waiting
  BY <1>3 DEF ProcessInv
<1>6. UpdTypes'
  BY <1>2 DEF UpdTypes
<1>7. OfferInv'
  BY <1>2 DEF OfferInv
<1>8. ProcessInv'
  <2>1. New \in Procs /\ Old \in Procs
    BY ThreeProcesses
  <2>2. /\ proc[New].at # "off" => proc[New].supports = CurrentDb
        /\ proc[Old].at # "off" =>
             status = "rolled_back" /\ (~botched => proc[Old].supports = LegacyVersion)
        /\ LegacyOnly(Old)
        /\ (script = "rollback" \/ status = "rolled_back") => proc[New].at \in {"off", "failed"} \/ told
        /\ status # "none" => script = "done"
        /\ botched => status = "rolled_back"
    BY DEF ProcessInv
  <2>3. LegacyOnly(Old)'
    <3>1. CASE p = Old
      BY <1>3, <2>2, <3>1
    <3>2. CASE p # Old
      BY <1>3, <2>1, <2>2, <3>2 DEF LegacyOnly
    <3>. QED  BY <3>1, <3>2
  <2>4. proc'[New].at # "off" => proc'[New].supports = CurrentDb
    BY <1>3, <2>1, <2>2
  <2>5. proc'[Old].at # "off" =>
          status = "rolled_back" /\ (~botched => proc'[Old].supports = LegacyVersion)
    BY <1>3, <2>1, <2>2
  <2>6. (script = "rollback" \/ status = "rolled_back") => proc'[New].at \in {"off", "failed"} \/ told
    BY <1>3, <2>1, <2>2
  <2>7. script \in {"poll", "kill", "confirmed"} => proc'[New].at # "off"
    BY <1>3, <2>1 DEF ProcessInv
  <2>8. \A q \in Procs \ {New, Old, Second} : proc'[q].at = "off"
    BY <1>3 DEF ProcessInv
  <2>. QED  BY <1>2, <1>5, <2>2, <2>3, <2>4, <2>5, <2>6, <2>7, <2>8 DEF ProcessInv
<1>9. DataInv'
  <2>1. (status = "rolled_back" /\ ~botched /\ inside /\ proc'[Second].at = "off" /\ ~outlived') =>
          db'.ver <= LegacyVersion
    <3>. SUFFICES ASSUME status = "rolled_back", ~botched, inside, proc'[Second].at = "off", ~outlived'
                  PROVE  db'.ver <= LegacyVersion
      OBVIOUS
    <3>1. Second \in Procs /\ New \in Procs /\ Old \in Procs
      BY ThreeProcesses
    <3>2. p # Second /\ proc[Second].at = "off"
      BY <1>3, <3>1
    <3>4. db.ver <= LegacyVersion
      BY <1>2, <3>2 DEF DataInv
    <3>3. CASE p = New
      BY <1>2, <3>3, <3>4
    <3>5. CASE p = Old
      BY <1>3, <3>4, <3>5 DEF ProcessInv
    <3>6. p \in {New, Old, Second}
      BY <1>3 DEF ProcessInv
    <3>. QED  BY <3>2, <3>3, <3>5, <3>6
  <2>2. proc'[Second].at = "off" => proc[Second].at = "off"
    BY <1>3, ThreeProcesses
  <2>3. script \notin {"off", "wait"}
    BY <1>5 DEF Waiting
  <2>. QED  BY <1>2, <1>3, <2>1, <2>2, <2>3 DEF DataInv
<1>10. ConfirmInv'
  <2>1. status # "rolled_back" => Migrating(New)'
    <3>. SUFFICES ASSUME status # "rolled_back" PROVE Migrating(New)'
      OBVIOUS
    <3>1. Migrating(New)
      BY DEF ConfirmInv
    <3>2. CASE p = New
      BY <1>3, <3>1, <3>2
    <3>3. CASE p # New
      <4>1. proc'[New] = proc[New] /\ proc[New].seen \in 0..CurrentDb
        BY <1>3, <3>3, ThreeProcesses DEF ProcsInv, Processes
      <4>. QED  BY <1>3, <1>4, <3>1, <4>1 DEF Migrating
    <3>. QED  BY <3>2, <3>3
  <2>2. db.ver = CurrentDb => db'.ver = CurrentDb
    BY <1>3, <1>4
  <2>. QED  BY <1>2, <2>1, <2>2 DEF ConfirmInv
<1>. QED
  BY <1>3, <1>6, <1>7, <1>8, <1>9, <1>10

(* The marker is written only after the window of the new program, and so  *)
(* after its last migration.                                               *)
LEMMA MarkStartedKeeps == ASSUME UpdIInv, MarkStarted PROVE UpdIInv'
<1>. USE DEF UpdIInv
<1>1. /\ proc[New].at = "run" /\ marker' = TRUE
      /\ UNCHANGED <<db, proc, inst, files, backup, polls, status, inside, step, release, stage, script,
                     told, botched, outlived>>
  BY DEF MarkStarted, Others, guiVars, disk
<1>2. proc[New].supports = CurrentDb /\ script \notin Waiting
  BY <1>1, ThreeProcesses DEF ProcessInv
<1>3. status # "rolled_back" => db.ver = CurrentDb
  BY <1>1, <1>2 DEF ConfirmInv, Migrating
<1>4. ProcsInv'
  BY <1>1 DEF ProcsInv, ReadIsFresh, GoodDb
<1>5. UpdTypes'
  BY <1>1 DEF UpdTypes
<1>6. OfferInv'
  BY <1>1 DEF OfferInv
<1>7. ProcessInv'
  BY <1>1, <1>2 DEF ProcessInv, LegacyOnly
<1>8. DataInv'
  BY <1>1 DEF DataInv
<1>9. ConfirmInv'
  BY <1>1, <1>3 DEF ConfirmInv, Migrating
<1>. QED
  BY <1>4, <1>5, <1>6, <1>7, <1>8, <1>9

(* A second start of the new program, by the user.                         *)
LEMMA StartSecondKeeps == ASSUME UpdIInv, StartSecond PROVE UpdIInv'
<1>. USE DEF UpdIInv
<1>1. /\ script \in {"poll", "done"} /\ inst # Own
      /\ proc' = [proc EXCEPT ![Second] = Started(CurrentDb)]
      /\ UNCHANGED <<db, inst, files, backup, marker, polls, status, inside, step, release, stage, script,
                     told, botched, outlived>>
  BY DEF StartSecond, Others, guiVars, disk
<1>2. Second \in Procs /\ New \in Procs \ {Second} /\ Old \in Procs \ {Second}
  BY ThreeProcesses
<1>3. ~(status = "rolled_back" /\ ~botched)
  BY <1>1 DEF DataInv
<1>4. /\ ProcsInv' /\ proc'[Second] = Started(CurrentDb)
      /\ \A q \in Procs \ {Second} : proc'[q] = proc[q]
  BY <1>1, <1>2, StartKeeps
<1>5. UpdTypes'
  BY <1>1 DEF UpdTypes
<1>6. OfferInv'
  BY <1>1 DEF OfferInv
<1>7. ProcessInv'
  BY <1>1, <1>2, <1>4 DEF ProcessInv, Waiting, LegacyOnly
<1>8. DataInv'
  BY <1>1, <1>3 DEF DataInv
<1>9. ConfirmInv'
  BY <1>1, <1>2, <1>4 DEF ConfirmInv, Migrating
<1>. QED
  BY <1>4, <1>5, <1>6, <1>7, <1>8, <1>9

(* Every step of the application, the script and the processes keeps the   *)
(* invariant.                                                              *)
LEMMA UpdIInvNext == UpdIInv /\ [UpdNext]_updVars => UpdIInv'
<1>. SUFFICES ASSUME UpdIInv, [UpdNext]_updVars PROVE UpdIInv'
  OBVIOUS
<1>1. CASE CheckForUpdate \/ DownloadUpdate \/ PrepareInstall \/ CloseForInstall \/ ParentExits
  BY <1>1, OfferStepKeeps
<1>2. CASE ScriptNext
  BY <1>2, MoveInstallKeeps, MoveStageKeeps, PreserveItemsKeeps, StartNewKeeps, PollKeeps,
     KillNewKeeps, RollbackKeeps, ConfirmKeeps DEF ScriptNext
<1>3. CASE (\E p \in Procs : AppSteps(p)) \/ (\E p \in Procs : AppDies(p))
  BY <1>3, ProcessStepKeeps
<1>4. CASE MarkStarted
  BY <1>4, MarkStartedKeeps
<1>5. CASE StartSecond
  BY <1>5, StartSecondKeeps
<1>6. CASE UNCHANGED updVars
  <2>1. UNCHANGED <<db, proc, step, release, stage, inst, files, backup, inside, script, marker,
                    polls, status, told, botched, outlived>>
    BY <1>6 DEF updVars, updHistory
  <2>2. ProcsInv'
    BY <2>1 DEF UpdIInv, ProcsInv, ReadIsFresh, GoodDb
  <2>3. UpdTypes' /\ OfferInv'
    BY <2>1 DEF UpdIInv, UpdTypes, OfferInv
  <2>4. ProcessInv' /\ DataInv'
    BY <2>1 DEF UpdIInv, ProcessInv, LegacyOnly, DataInv
  <2>5. ConfirmInv'
    BY <2>1 DEF UpdIInv, ConfirmInv, Migrating
  <2>. QED  BY <2>2, <2>3, <2>4, <2>5 DEF UpdIInv
<1>. QED
  BY <1>1, <1>2, <1>3, <1>4, <1>5, <1>6 DEF UpdNext

(* The invariant gives a complete schema and migrations applied once. *)
LEMMA IInvMigration == UpdIInv => MigrationInv
<1>. SUFFICES ASSUME UpdIInv PROVE MigrationInv
  OBVIOUS
<1>1. GoodDb(db) /\ db \in Databases /\ proc \in [Procs -> Processes]
  BY DEF UpdIInv, ProcsInv, GoodDb
<1>2. DbTypeOK
  BY <1>1, VersionsOrdered DEF DbTypeOK, Databases, Processes, Steps
<1>3. SchemaComplete /\ MigratedOnce
  BY <1>1 DEF SchemaComplete, MigratedOnce, GoodDb
<1>. QED
  BY <1>2, <1>3 DEF MigrationInv

(* The invariant gives what an update promises. *)
LEMMA IInvUpdate == UpdIInv => UpdateInv
<1>. SUFFICES ASSUME UpdIInv PROVE UpdateInv
  OBVIOUS
<1>1. UpdTypeOK
  BY IInvMigration DEF UpdIInv, MigrationInv, UpdTypeOK, UpdTypes, Waiting
<1>2. DataSurvives
  BY DEF UpdIInv, DataInv, DataSurvives
<1>3. RollbackUsable
  BY DEF UpdIInv, DataInv, RollbackUsable
<1>4. InstalledIsSelected
  <2>. SUFFICES ASSUME inst # Unset, inst # Own
                PROVE  IF release.dev THEN inst.build \in {release.build, Unset}
                       ELSE inst.ver = release.ver /\ inst.ver > OwnVersion
    BY DEF InstalledIsSelected
  <2>1. /\ inst = [ver |-> stage.ver, build |-> stage.build]
        /\ Available(release) /\ ManifestMatches(stage, release)
    BY DEF UpdIInv, OfferInv
  <2>. QED  BY <2>1 DEF Available, ManifestMatches
<1>5. OneVersionRuns
  BY DEF UpdIInv, ProcessInv, OneVersionRuns
<1>6. SuccessIsConfirmed
  BY DEF UpdIInv, ConfirmInv, SuccessIsConfirmed
<1>. QED
  BY <1>1, <1>2, <1>3, <1>4, <1>5, <1>6 DEF UpdateInv

(* Processes that start together, one of them possibly killed or restored  *)
(* over by the script, apply every migration, and once: the version of the *)
(* database is the one of its schema.                                      *)
THEOREM MigrationsAreComplete == UpdSpec => []MigrationInv
BY UpdIInvInit, UpdIInvNext, IInvMigration, PTL DEF UpdSpec

(* Wherever an update fails, a command of its rollback included, the       *)
(* user's data are kept; a rollback whose commands succeeded restores a    *)
(* program that can use them, beside which only a version told to end      *)
(* runs; what is installed is what was offered; success is reported only   *)
(* after the last migration of the new version.                            *)
THEOREM UpdateIsSafe == UpdSpec => []UpdateInv
BY UpdIInvInit, UpdIInvNext, IInvUpdate, PTL DEF UpdSpec

-----------------------------------------------------------------------------
(* Picking elements of a sequence.                                         *)

(* The positions of P are numbered in their order, without a gap. *)
LEMMA RanksAreNumbers ==
    ASSUME NEW m \in Nat, NEW P \in SUBSET (1..m)
    PROVE  LET rank == [k \in P |-> Cardinality({j \in P : j <= k})]
           IN  /\ IsFiniteSet(P) /\ Cardinality(P) \in Nat
               /\ rank \in Injection(P, 1..Cardinality(P))
               /\ rank \in Surjection(P, 1..Cardinality(P))
<1> DEFINE upto(k) == {j \in P : j <= k}
           rank == [k \in P |-> Cardinality(upto(k))]
           size == Cardinality(P)
<1>1. IsFiniteSet(1..m)
  BY FS_Interval
<1>2. IsFiniteSet(P) /\ size \in Nat
  BY <1>1, FS_Subset, FS_CardinalityType
<1>3. \A k \in P : IsFiniteSet(upto(k)) /\ Cardinality(upto(k)) \in Nat /\ Cardinality(upto(k)) <= size
  <2> TAKE k \in P
  <2>1. upto(k) \in SUBSET P
    OBVIOUS
  <2> HIDE DEF upto
  <2> QED
    BY <1>2, <2>1, FS_Subset, FS_CardinalityType
<1>4. \A k \in P : Cardinality(upto(k)) # 0
  <2> TAKE k \in P
  <2>1. k \in upto(k)
    OBVIOUS
  <2> HIDE DEF upto
  <2> QED
    BY <1>3, <2>1, FS_EmptySet
<1>5. ASSUME NEW k \in P, NEW l \in P, k < l PROVE Cardinality(upto(k)) # Cardinality(upto(l))
  <2>1. \A j \in P : j \in Int /\ (j <= k => j <= l) /\ l <= l /\ ~(l <= k)
    BY <1>5
  <2>3. upto(k) \in SUBSET upto(l) /\ l \in upto(l) /\ l \notin upto(k)
    BY <2>1
  <2>2. upto(k) # upto(l)
    BY <2>3
  <2> HIDE DEF upto
  <2> QED
    BY <1>3, <2>2, <2>3, FS_Subset
<1>6. \A k, l \in P : Cardinality(upto(k)) = Cardinality(upto(l)) => k = l
  <2> TAKE k \in P, l \in P
  <2>1. k < l \/ l < k \/ k = l
    OBVIOUS
  <2> HIDE DEF upto
  <2> QED
    BY <1>5, <2>1
<1> HIDE DEF upto
<1>7. \A k \in P : rank[k] \in 1..size /\ rank[k] = Cardinality(upto(k))
  BY <1>2, <1>3, <1>4
<1>8. rank \in [P -> 1..size]
  BY <1>7
<1>9. rank \in Injection(P, 1..size)
  BY <1>6, <1>7, <1>8 DEF Injection, IsInjective
<1>10. IsFiniteSet(1..size) /\ Cardinality(1..size) = size
  BY <1>2, FS_Interval
<1> HIDE DEF rank
<1>11. rank \in Surjection(P, 1..size)
  BY <1>9, <1>10, FS_Injection
<1> QED
  BY <1>2, <1>9, <1>11 DEF rank, upto

(* The places in s of what is picked: each position of P once. *)
Places(s, P, m) ==
    {place \in [1..Cardinality(P) -> P] :
        /\ \A n \in 1..Cardinality(P) : Picked(s, P)[n] = s[place[n]]
        /\ \A i, n \in 1..Cardinality(P) : place[i] = place[n] => i = n
        /\ \A k \in P : \E n \in 1..Cardinality(P) : place[n] = k
        /\ P = 1..m => \A n \in 1..m : place[n] = n}

(* Picked lists the elements at the positions of P once each. *)
LEMMA PickedPlaces ==
    ASSUME NEW m \in Nat, NEW P \in SUBSET (1..m), NEW s
    PROVE  /\ IsFiniteSet(P) /\ Cardinality(P) \in Nat
           /\ Places(s, P, m) # {}
<1> DEFINE rank == [k \in P |-> Cardinality({j \in P : j <= k})]
           size == Cardinality(P)
           at(n) == CHOOSE k \in P : Cardinality({j \in P : j <= k}) = n
           place == [n \in 1..size |-> at(n)]
<1>1. IsFiniteSet(P) /\ size \in Nat /\ rank \in Injection(P, 1..size) /\ rank \in Surjection(P, 1..size)
  BY RanksAreNumbers
<1>2. \A k \in P : rank[k] = Cardinality({j \in P : j <= k})
  OBVIOUS
<1>3. \A n \in 1..size : \E k \in P : Cardinality({j \in P : j <= k}) = n
  <2> TAKE n \in 1..size
  <2>1. PICK k \in P : rank[k] = n
    BY <1>1, Zenon DEF Surjection
  <2> QED
    BY <1>2, <2>1, Zenon
<1>4. \A n \in 1..size : at(n) \in P /\ Cardinality({j \in P : j <= at(n)}) = n
  <2> TAKE n \in 1..size
  <2> QED
    BY <1>3, Zenon
<1>5. \A n \in 1..size : rank[at(n)] = n
  BY <1>2, <1>4, Zenon
<1>6. \A n \in 1..size : Picked(s, P)[n] = s[at(n)]
  BY Zenon DEF Picked
<1>7. P = 1..m => \A n \in 1..m : n \in 1..size /\ at(n) = n
  <2> SUFFICES ASSUME P = 1..m, NEW n \in 1..m PROVE n \in 1..size /\ at(n) = n
    OBVIOUS
  <2>1. {j \in P : j <= n} = 1..n
    OBVIOUS
  <2>2. Cardinality(1..n) = n
    BY FS_Interval
  <2>3. rank[n] = n
    BY <1>2, <2>1, <2>2, Zenon
  <2>4. n \in 1..size
    BY <1>1, <2>3 DEF Injection, IsInjective
  <2>5. rank[at(n)] = rank[n] /\ at(n) \in P
    BY <1>4, <1>5, <2>3, <2>4, Zenon
  <2> QED
    BY <1>1, <2>4, <2>5 DEF Injection, IsInjective
<1> HIDE DEF at
<1>8. place \in [1..size -> P]
  BY <1>4
<1>9. \A n \in 1..size : place[n] = at(n)
  OBVIOUS
<1>10. \A k \in P : rank[k] \in 1..size /\ place[rank[k]] = k
  <2> TAKE k \in P
  <2>1. rank[k] \in 1..size
    BY <1>1 DEF Injection, IsInjective
  <2>2. rank[at(rank[k])] = rank[k] /\ at(rank[k]) \in P
    BY <1>4, <1>5, <2>1, Zenon
  <2>3. at(rank[k]) = k
    BY <1>1, <2>2, Zenon DEF Injection, IsInjective
  <2> QED
    BY <1>9, <2>1, <2>3
<1> HIDE DEF rank, place
<1>11. \A i, n \in 1..size : place[i] = place[n] => i = n
  BY <1>5, <1>9, Zenon
<1>12. \A n \in 1..size : Picked(s, P)[n] = s[place[n]]
  BY <1>6, <1>9, Zenon
<1>13. P = 1..m => \A n \in 1..m : place[n] = n
  BY <1>7, <1>9, Zenon
<1>14. \A k \in P : \E n \in 1..size : place[n] = k
  BY <1>10, Zenon
<1>15. place \in Places(s, P, m)
  BY <1>8, <1>11, <1>12, <1>13, <1>14 DEF Places
<1> QED
  BY <1>1, <1>15

(* A set of natural numbers has a least element. *)
LEMMA LeastNatural ==
    ASSUME NEW S \in SUBSET Nat, S # {}
    PROVE  \E x \in S : \A y \in S : x <= y
<1> DEFINE R == OpToRel(<, Nat)
<1> HIDE DEF R
<1>1. IsWellFoundedOn(R, Nat)
  BY NatLessThanWellFounded DEF R
<1>2. \E x \in S : \A y \in S : ~(<<y, x>> \in R)
  BY <1>1, WFMin
<1>3. \A x, y \in Nat : y < x => <<y, x>> \in R
  BY Zenon DEF OpToRel, R
<1>4. PICK x \in S : \A y \in S : ~(<<y, x>> \in R)
  BY <1>2
<1>5. ASSUME NEW y \in S PROVE ~(y < x)
  BY <1>3, <1>4, Zenon
<1>6. \A y \in S : x <= y
  BY <1>5
<1> QED
  BY <1>6

(* The elements of what is picked. *)
LEMMA PickedElements ==
    ASSUME NEW S, NEW s \in Seq(S), NEW P \in SUBSET DOMAIN s
    PROVE  /\ Picked(s, P) \in Seq(S)
           /\ ToSet(Picked(s, P)) = {s[i] : i \in P}
           /\ P = DOMAIN s => Picked(s, P) = s
           /\ P = {} => Picked(s, P) = <<>>
           /\ P # {} => Picked(s, P) # <<>>
           /\ (\A i, j \in P : s[i] = s[j] => i = j) => Distinct(Picked(s, P))
<1> DEFINE m == Len(s)
           size == Cardinality(P)
           t == Picked(s, P)
<1>1. m \in Nat /\ DOMAIN s = 1..m /\ P \in SUBSET (1..m) /\ \A i \in 1..m : s[i] \in S
  OBVIOUS
<1> HIDE DEF m
<1>2. IsFiniteSet(P) /\ size \in Nat /\ Places(s, P, m) # {}
  BY <1>1, PickedPlaces
<1>3. PICK place \in [1..size -> P] :
                /\ \A n \in 1..size : t[n] = s[place[n]]
                /\ \A i, n \in 1..size : place[i] = place[n] => i = n
                /\ \A k \in P : \E n \in 1..size : place[n] = k
                /\ P = 1..m => \A n \in 1..m : place[n] = n
  BY <1>2, Zenon DEF Places
<1>4. DOMAIN t = 1..size /\ t = [n \in 1..size |-> t[n]]
  BY DEF Picked
<1>5. \A n \in 1..size : t[n] \in S /\ place[n] \in P
  BY <1>1, <1>3
<1> HIDE DEF t, size
<1>6. t \in Seq(S) /\ Len(t) = size
  <2>1. t \in [1..size -> S]
    BY <1>4, <1>5
  <2> QED
    BY <1>2, <2>1
<1>7. ToSet(t) = {s[i] : i \in P}
  <2>1. ASSUME NEW x \in ToSet(t) PROVE x \in {s[i] : i \in P}
    BY <1>3, <1>4, <1>5 DEF ToSet
  <2>2. ASSUME NEW i \in P PROVE s[i] \in ToSet(t)
    <3>1. PICK n \in 1..size : place[n] = i
      BY <1>3, Zenon
    <3> QED
      BY <1>3, <1>4, <3>1 DEF ToSet
  <2> QED
    BY <2>1, <2>2
<1>8. ASSUME P = DOMAIN s PROVE t = s
  <2>1. Cardinality(1..m) = m
    BY <1>1, FS_Interval
  <2>2. size = m
    BY <1>1, <1>8, <2>1 DEF size
  <2>3. \A n \in 1..m : t[n] = s[n]
    BY <1>1, <1>3, <1>8, <2>2
  <2> QED
    BY <1>1, <1>4, <2>2, <2>3
<1>9. ASSUME P = {} PROVE t = <<>>
  <2>1. size = 0
    BY <1>9, FS_EmptySet DEF size
  <2> QED
    BY <1>6, <2>1
<1>10. ASSUME P # {} PROVE t # <<>>
  <2>1. size # 0
    BY <1>2, <1>10, FS_EmptySet DEF size
  <2> QED
    BY <1>6, <2>1
<1>11. ASSUME \A i, j \in P : s[i] = s[j] => i = j PROVE Distinct(t)
  BY <1>3, <1>4, <1>5, <1>11 DEF Distinct
<1> QED
  BY <1>6, <1>7, <1>8, <1>9, <1>10, <1>11 DEF t

(* The elements of a sequence, by position. *)
LEMMA ElementsAt ==
    ASSUME NEW S, NEW s \in Seq(S)
    PROVE  /\ ToSet(s) \in SUBSET S
           /\ \A i \in DOMAIN s : s[i] \in ToSet(s)
           /\ \A x \in ToSet(s) : \E i \in DOMAIN s : s[i] = x
           /\ s = <<>> <=> ToSet(s) = {}
           /\ s = <<>> <=> Len(s) = 0
           /\ Len(s) \in Nat /\ DOMAIN s = 1..Len(s)
<1>1. \A i \in 1..Len(s) : s[i] \in S
  OBVIOUS
<1>2. s # <<>> => Len(s) # 0
  OBVIOUS
<1>3. Len(s) # 0 => 1 \in DOMAIN s
  OBVIOUS
<1>4. s = <<>> => DOMAIN s = {}
  OBVIOUS
<1> QED
  BY <1>1, <1>2, <1>3, <1>4 DEF ToSet

(* A filter keeps what it is for and leaves a sequence alone of which it   *)
(* has nothing to drop.                                                    *)
LEMMA ThoseKeep ==
    ASSUME NEW S, NEW s \in Seq(S), NEW V
    PROVE  /\ Those(s, V) \in Seq(S)
           /\ ToSet(Those(s, V)) = ToSet(s) \cap V
           /\ Distinct(s) => Distinct(Those(s, V))
           /\ ToSet(s) \subseteq V => Those(s, V) = s
<1> DEFINE P == {i \in DOMAIN s : s[i] \in V}
<1>1. P \in SUBSET DOMAIN s
  OBVIOUS
<1>2. {s[i] : i \in P} = ToSet(s) \cap V
  BY DEF ToSet
<1>3. Distinct(s) => \A i, j \in P : s[i] = s[j] => i = j
  BY DEF Distinct
<1>4. ToSet(s) \subseteq V => P = DOMAIN s
  BY DEF ToSet
<1>5. Those(s, V) = Picked(s, P)
  BY DEF Those
<1> HIDE DEF P
<1> QED
  BY <1>1, <1>2, <1>3, <1>4, <1>5, PickedElements

(* Leaving out values keeps the rest, in order. *)
LEMMA WithoutKeeps ==
    ASSUME NEW S, NEW s \in Seq(S), NEW V
    PROVE  /\ Without(s, V) \in Seq(S)
           /\ ToSet(Without(s, V)) = ToSet(s) \ V
           /\ Distinct(s) => Distinct(Without(s, V))
           /\ ToSet(s) \subseteq V => Without(s, V) = <<>>
<1> DEFINE P == {i \in DOMAIN s : s[i] \notin V}
<1>1. P \in SUBSET DOMAIN s
  OBVIOUS
<1>2. {s[i] : i \in P} = ToSet(s) \ V
  BY DEF ToSet
<1>3. Distinct(s) => \A i, j \in P : s[i] = s[j] => i = j
  BY DEF Distinct
<1>4. ToSet(s) \subseteq V => P = {}
  BY DEF ToSet
<1>5. Without(s, V) = Picked(s, P)
  BY DEF Without
<1> HIDE DEF P
<1> QED
  BY <1>1, <1>2, <1>3, <1>4, <1>5, PickedElements

(* Once keeps the first of equal elements. *)
LEMMA OnceKeeps ==
    ASSUME NEW S, NEW s \in Seq(S)
    PROVE  /\ Once(s) \in Seq(S)
           /\ ToSet(Once(s)) = ToSet(s) \ {Nil}
           /\ Distinct(Once(s))
           /\ (Distinct(s) /\ Nil \notin ToSet(s)) => Once(s) = s
<1> DEFINE P == {i \in DOMAIN s : s[i] # Nil /\ \A j \in 1..(i - 1) : s[j] # s[i]}
<1>1. P \in SUBSET DOMAIN s /\ Len(s) \in Nat /\ DOMAIN s = 1..Len(s)
  OBVIOUS
<1>2. {s[i] : i \in P} = ToSet(s) \ {Nil}
  <2>1. \A i \in P : s[i] \in ToSet(s) \ {Nil}
    BY DEF ToSet
  <2>2. ASSUME NEW x \in ToSet(s) \ {Nil} PROVE \E i \in P : s[i] = x
    <3> DEFINE Q == {i \in DOMAIN s : s[i] = x}
    <3>1. Q \in SUBSET Nat /\ Q # {}
      BY <1>1, <2>2 DEF ToSet
    <3>2. PICK i \in Q : \A j \in Q : i <= j
      BY <3>1, LeastNatural
    <3>3. i \in 1..Len(s) /\ \A j \in 1..(i - 1) : j \in 1..Len(s) /\ ~(i <= j)
      BY <1>1, <3>2
    <3>4. i \in P
      BY <1>1, <2>2, <3>2, <3>3
    <3> QED
      BY <3>2, <3>4
  <2> QED
    BY <2>1, <2>2
<1>3. \A i, j \in P : s[i] = s[j] => i = j
  <2> TAKE i \in P, j \in P
  <2>1. i \in 1..Len(s) /\ j \in 1..Len(s)
    BY <1>1
  <2>2. i < j => i \in 1..(j - 1)
    BY <1>1, <2>1
  <2>3. j < i => j \in 1..(i - 1)
    BY <1>1, <2>1
  <2>4. i < j \/ j < i \/ i = j
    BY <1>1, <2>1
  <2> QED
    BY <2>2, <2>3, <2>4
<1>4. (Distinct(s) /\ Nil \notin ToSet(s)) => P = DOMAIN s
  <2> SUFFICES ASSUME Distinct(s), Nil \notin ToSet(s), NEW i \in DOMAIN s PROVE i \in P
    OBVIOUS
  <2>1. s[i] # Nil
    BY DEF ToSet
  <2>2. \A j \in 1..(i - 1) : j \in DOMAIN s /\ j # i
    BY <1>1
  <2> QED
    BY <2>1, <2>2 DEF Distinct
<1>5. Once(s) = Picked(s, P)
  BY DEF Once
<1> HIDE DEF P
<1> QED
  BY <1>1, <1>2, <1>3, <1>4, <1>5, PickedElements

(* Two sequences one after the other. *)
LEMMA JoinedKeep ==
    ASSUME NEW S, NEW s \in Seq(S), NEW t \in Seq(S)
    PROVE  /\ s \o t \in Seq(S)
           /\ ToSet(s \o t) = ToSet(s) \cup ToSet(t)
           /\ (Distinct(s) /\ Distinct(t) /\ ToSet(s) \cap ToSet(t) = {}) => Distinct(s \o t)
           /\ s \o <<>> = s
<1>1. /\ DOMAIN (s \o t) = 1..(Len(s) + Len(t)) /\ Len(s) \in Nat /\ Len(t) \in Nat
      /\ \A i \in 1..Len(s) : (s \o t)[i] = s[i]
      /\ \A i \in 1..Len(t) : (s \o t)[Len(s) + i] = t[i]
      /\ DOMAIN s = 1..Len(s) /\ DOMAIN t = 1..Len(t)
  OBVIOUS
<1>2. \A n \in 1..(Len(s) + Len(t)) :
         \/ n \in 1..Len(s) /\ (s \o t)[n] = s[n]
         \/ n - Len(s) \in 1..Len(t) /\ n \notin 1..Len(s) /\ (s \o t)[n] = t[n - Len(s)]
  BY <1>1
<1>3. ToSet(s \o t) = ToSet(s) \cup ToSet(t)
  <2>1. \A n \in DOMAIN (s \o t) : (s \o t)[n] \in ToSet(s) \cup ToSet(t)
    BY <1>1, <1>2 DEF ToSet
  <2>2. \A i \in DOMAIN s : s[i] \in ToSet(s \o t)
    <3> TAKE i \in DOMAIN s
    <3>1. i \in DOMAIN (s \o t) /\ (s \o t)[i] = s[i]
      BY <1>1
    <3> QED
      BY <3>1 DEF ToSet
  <2>3. \A i \in DOMAIN t : t[i] \in ToSet(s \o t)
    <3> TAKE i \in DOMAIN t
    <3>1. Len(s) + i \in DOMAIN (s \o t) /\ (s \o t)[Len(s) + i] = t[i]
      BY <1>1
    <3> QED
      BY <3>1 DEF ToSet
  <2> QED
    BY <2>1, <2>2, <2>3 DEF ToSet
<1>4. ASSUME Distinct(s), Distinct(t), ToSet(s) \cap ToSet(t) = {} PROVE Distinct(s \o t)
  <2>1. \A i \in DOMAIN s, j \in DOMAIN t : s[i] # t[j]
    BY <1>4 DEF ToSet
  <2> SUFFICES ASSUME NEW i \in 1..(Len(s) + Len(t)), NEW j \in 1..(Len(s) + Len(t)),
                      (s \o t)[i] = (s \o t)[j]
               PROVE  i = j
    BY <1>1 DEF Distinct
  <2>2. CASE i \in 1..Len(s) /\ j \in 1..Len(s)
    BY <1>1, <1>4, <2>2 DEF Distinct
  <2>3. CASE i \notin 1..Len(s) /\ j \notin 1..Len(s)
    <3>1. i - Len(s) \in DOMAIN t /\ j - Len(s) \in DOMAIN t /\ t[i - Len(s)] = t[j - Len(s)]
      BY <1>1, <1>2, <2>3
    <3>2. i - Len(s) = j - Len(s)
      BY <1>4, <3>1 DEF Distinct
    <3> QED
      BY <1>1, <3>2
  <2>4. CASE i \in 1..Len(s) /\ j \notin 1..Len(s)
    BY <1>1, <1>2, <2>1, <2>4
  <2>5. CASE i \notin 1..Len(s) /\ j \in 1..Len(s)
    BY <1>1, <1>2, <2>1, <2>5
  <2> QED
    BY <2>2, <2>3, <2>4, <2>5
<1> QED
  BY <1>3, <1>4

-----------------------------------------------------------------------------
(* Migration and validation of the options.                                *)

Word == Secrets \cup {None}

Fields == {"version", "port", "channel", "batch", "perRequest", "auto", "review", "tags",
           "policies", "order", "providers", "active", "pools", "kinds", "legacyOff",
           "sim", "url", "pw"}

(* q is o but for the fields of F. *)
SameBut(q, o, F) == \A f \in Fields \ F : q[f] = o[f]

(* Options as a thread holds them: migrated, no provider is there twice. *)
Held(o) ==
    /\ o \in Options /\ ~o.legacyOff
    /\ Distinct(o.providers) /\ Nil \notin ToSet(o.providers)

Within(lo, hi, v) == v \in Int /\ lo <= v /\ v <= hi

NumbersNormal(o) ==
    /\ Within(1, MaxPort, o.port)
    /\ o.batch \in Int /\ 1 <= o.batch /\ Within(1, o.batch, o.perRequest)
    /\ Within(0, 100, o.auto) /\ Within(0, o.auto, o.review)

OnePerTag(policies) == \A p, q \in ToSet(policies) : p.tag = q.tag => p = q

TagsNormal(o) ==
    /\ o.tags # <<>> /\ Distinct(o.tags) /\ \A t \in ToSet(o.tags) : NormalOf[t] = t
    /\ Distinct(o.policies) /\ OnePerTag(o.policies)
    /\ \A p \in ToSet(o.policies) : NormalOf[p.tag] = p.tag
    /\ ToSet(o.tags) \subseteq {p.tag : p \in ToSet(o.policies)}

LayoutNormal(o) ==
    /\ Distinct(o.order) /\ ToSet(o.order) = ToSet(DefaultOrder)
    /\ KindsOf(o.kinds) = KindsOf(DefaultKinds)

ProvidersNormal(o) ==
    /\ o.providers # <<>> /\ Distinct(o.providers) /\ Nil \notin ToSet(o.providers)
    /\ o.active \in 0..(Len(o.providers) - 1)

Modes == {"distribute", "fallback", "compare", "verify"}

PoolNormal(pool, name, ids) ==
    /\ pool.pool = name /\ pool.mode \in Modes
    /\ pool.members # <<>> /\ Distinct(pool.members) /\ ToSet(pool.members) \subseteq ids

PoolsNormal(o) ==
    /\ Len(o.pools) = 2
    /\ PoolNormal(o.pools[1], "realtime", ToSet(o.providers))
    /\ PoolNormal(o.pools[2], "background", ToSet(o.providers))

(* Options nothing is left to correct of. *)
Normal(o) ==
    /\ o \in Options /\ o.version = CurrentVersion /\ ~o.legacyOff
    /\ o.channel \in {"stable", "prerelease"}
    /\ NumbersNormal(o) /\ TagsNormal(o) /\ LayoutNormal(o) /\ ProvidersNormal(o) /\ PoolsNormal(o)

(* A number of the options, or the default, is an integer. *)
LEMMA AsIntIsInt ==
    ASSUME NEW v \in Number, NEW d \in Int
    PROVE  AsInt(v, d) \in Int /\ (v \in Int => AsInt(v, d) = v)
BY NilIsNoValue DEF AsInt, Number

(* A clamped number is in its range, and one in its range is left alone. *)
LEMMA BetweenClamps ==
    ASSUME NEW lo \in Int, NEW hi \in Int, lo <= hi, NEW v \in Int
    PROVE  Within(lo, hi, Between(lo, hi, v)) /\ (Within(lo, hi, v) => Between(lo, hi, v) = v)
BY DEF Within, Between

(* Ports. *)
LEMMA Ports == MaxPort \in Int /\ 1 <= MaxPort /\ DefaultPort \in Int
BY SMT DEF MaxPort, DefaultPort

(* Numbers are clamped. *)
LEMMA ServicesNormal ==
    ASSUME NEW o \in Options
    PROVE  LET q == ValidateServices(o)
           IN  /\ q \in Options /\ SameBut(q, o, {"port"}) /\ Within(1, MaxPort, q.port)
               /\ Within(1, MaxPort, o.port) => q = o
<1> DEFINE i == AsInt(o.port, DefaultPort)
           v == Between(1, MaxPort, i)
           q == [o EXCEPT !.port = v]
<1>1. o.port \in Number
  BY DEF Options
<1>2. i \in Int /\ (o.port \in Int => i = o.port)
  BY <1>1, AsIntIsInt, Ports
<1> HIDE DEF i
<1>3. Within(1, MaxPort, v) /\ (Within(1, MaxPort, i) => v = i)
  BY <1>2, Ports, BetweenClamps
<1> HIDE DEF v
<1>4. v \in Number
  BY <1>3 DEF Number, Within
<1>5. q \in Options /\ q.port = v
  BY <1>4 DEF Options
<1>6. SameBut(q, o, {"port"})
  BY DEF Options, SameBut, Fields
<1>7. Within(1, MaxPort, o.port) => v = o.port
  BY <1>2, <1>3 DEF Within
<1>9. v = o.port => q = o
  BY DEF Options
<1>8. q = ValidateServices(o)
  BY DEF ValidateServices, v, i
<1> HIDE DEF q
<1> QED
  BY <1>3, <1>5, <1>6, <1>7, <1>8, <1>9

(* A batch has a domain at least, a request no more than its batch. *)
LEMMA BatchesNormal ==
    ASSUME NEW o \in Options
    PROVE  LET q == ValidateBatches(o)
           IN  /\ q \in Options /\ SameBut(q, o, {"batch", "perRequest"})
               /\ q.batch \in Int /\ 1 <= q.batch /\ Within(1, q.batch, q.perRequest)
               /\ (o.batch \in Int /\ 1 <= o.batch /\ Within(1, o.batch, o.perRequest)) => q = o
<1> DEFINE i == AsInt(o.batch, 25)
           j == AsInt(o.perRequest, 10)
           b == AtLeast(1, i)
           c == IF AtLeast(1, j) > b THEN b ELSE AtLeast(1, j)
           q == [o EXCEPT !.batch = b, !.perRequest = c]
<1>1. o.batch \in Number /\ o.perRequest \in Number
  BY DEF Options
<1>2. /\ i \in Int /\ (o.batch \in Int => i = o.batch)
      /\ j \in Int /\ (o.perRequest \in Int => j = o.perRequest)
  BY <1>1, AsIntIsInt
<1> HIDE DEF i, j
<1>3. b \in Int /\ 1 <= b /\ (1 <= i => b = i)
  BY <1>2 DEF AtLeast
<1>4. Within(1, b, c) /\ (Within(1, b, j) => c = j)
  BY <1>2, <1>3 DEF AtLeast, Within
<1>5. q = ValidateBatches(o)
  BY DEF ValidateBatches, i, j
<1> HIDE DEF b, c
<1>6. b \in Number /\ c \in Number
  BY <1>3, <1>4 DEF Number, Within
<1>7. q \in Options /\ q.batch = b /\ q.perRequest = c
  BY <1>6 DEF Options
<1>8. SameBut(q, o, {"batch", "perRequest"})
  BY DEF Options, SameBut, Fields
<1>9. (b = o.batch /\ c = o.perRequest) => q = o
  BY DEF Options
<1>10. (o.batch \in Int /\ 1 <= o.batch /\ Within(1, o.batch, o.perRequest))
          => b = o.batch /\ c = o.perRequest
  BY <1>2, <1>3, <1>4 DEF Within
<1> HIDE DEF q
<1> QED
  BY <1>3, <1>4, <1>5, <1>7, <1>8, <1>9, <1>10

(* Confidences are percentages, and a review threshold is no higher than   *)
(* the automatic one.                                                      *)
LEMMA ThresholdsNormal ==
    ASSUME NEW o \in Options
    PROVE  LET q == ValidateThresholds(o)
           IN  /\ q \in Options /\ SameBut(q, o, {"auto", "review"})
               /\ Within(0, 100, q.auto) /\ Within(0, q.auto, q.review)
               /\ (Within(0, 100, o.auto) /\ Within(0, o.auto, o.review)) => q = o
<1> DEFINE i == AsInt(o.auto, 95)
           j == AsInt(o.review, 75)
           a == Between(0, 100, i)
           w == Between(0, 100, j)
           b == IF w > a THEN a ELSE w
           q == [o EXCEPT !.auto = a, !.review = b]
<1>1. o.auto \in Number /\ o.review \in Number
  BY DEF Options
<1>2. /\ i \in Int /\ (o.auto \in Int => i = o.auto)
      /\ j \in Int /\ (o.review \in Int => j = o.review)
  BY <1>1, AsIntIsInt
<1> HIDE DEF i, j
<1>3. /\ Within(0, 100, a) /\ (Within(0, 100, i) => a = i)
      /\ Within(0, 100, w) /\ (Within(0, 100, j) => w = j)
  BY <1>2, BetweenClamps
<1>5. q = ValidateThresholds(o)
  BY DEF ValidateThresholds, i, j
<1> HIDE DEF a, w
<1>4. Within(0, a, b) /\ (w <= a => b = w)
  BY <1>3 DEF Within
<1> HIDE DEF b
<1>6. a \in Number /\ b \in Number
  BY <1>3, <1>4 DEF Number, Within
<1>7. q \in Options /\ q.auto = a /\ q.review = b
  BY <1>6 DEF Options
<1>8. SameBut(q, o, {"auto", "review"})
  BY DEF Options, SameBut, Fields
<1>9. (a = o.auto /\ b = o.review) => q = o
  BY DEF Options
<1>10. (Within(0, 100, o.auto) /\ Within(0, o.auto, o.review)) => a = o.auto /\ b = o.review
  BY <1>2, <1>3, <1>4 DEF Within
<1> HIDE DEF q
<1> QED
  BY <1>3, <1>4, <1>5, <1>7, <1>8, <1>9, <1>10

(* The release channel is one of the two. *)
LEMMA ChoicesNormal ==
    ASSUME NEW o \in Options
    PROVE  LET q == ValidateChoices(o)
           IN  /\ q \in Options /\ SameBut(q, o, {"channel"})
               /\ q.channel \in {"stable", "prerelease"}
               /\ o.channel \in {"stable", "prerelease"} => q = o
<1> DEFINE c == IF o.channel = "development" THEN "prerelease"
                ELSE IF o.channel \in {"stable", "prerelease"} THEN o.channel ELSE "stable"
           q == [o EXCEPT !.channel = c]
<1>1. q = ValidateChoices(o)
  BY DEF ValidateChoices
<1>2. c \in {"stable", "prerelease"} /\ (o.channel \in {"stable", "prerelease"} => c = o.channel)
  OBVIOUS
<1> HIDE DEF c
<1>3. c \in STRING
  BY <1>2, ChoicesAreText
<1>4. q \in Options /\ q.channel = c
  BY <1>3 DEF Options
<1>5. SameBut(q, o, {"channel"})
  BY DEF Options, SameBut, Fields
<1>6. c = o.channel => q = o
  BY DEF Options
<1> HIDE DEF q
<1> QED
  BY <1>1, <1>2, <1>4, <1>5, <1>6

(* A table has the known columns once each. *)
LEMMA TablesNormal ==
    ASSUME NEW o \in Options
    PROVE  LET q == ValidateTables(o)
           IN  /\ q \in Options /\ SameBut(q, o, {"order"})
               /\ Distinct(q.order) /\ ToSet(q.order) = ToSet(DefaultOrder)
               /\ (Distinct(o.order) /\ ToSet(o.order) = ToSet(DefaultOrder)) => q = o
<1> DEFINE D == ToSet(DefaultOrder)
           s == Those(o.order, D)
           kept == Once(s)
           rest == Without(DefaultOrder, ToSet(kept))
           t == kept \o rest
           q == [o EXCEPT !.order = t]
<1>1. q = ValidateTables(o)
  BY DEF ValidateTables
<1>2. o.order \in Seq(STRING)
  BY DEF Options
<1>3. DefaultOrder \in Seq(STRING) /\ Distinct(DefaultOrder)
  BY DefaultLayouts
<1>4. s \in Seq(STRING) /\ ToSet(s) = ToSet(o.order) \cap D /\ (Distinct(o.order) => Distinct(s))
      /\ (ToSet(o.order) \subseteq D => s = o.order)
  BY <1>2, ThoseKeep
<1>5. Nil \notin ToSet(s)
  BY <1>4, NilIsNoValue, ElementsAt
<1> HIDE DEF s
<1>6. kept \in Seq(STRING) /\ ToSet(kept) = ToSet(s) /\ Distinct(kept) /\ (Distinct(s) => kept = s)
  BY <1>4, <1>5, OnceKeeps
<1> HIDE DEF kept
<1>7. rest \in Seq(STRING) /\ ToSet(rest) = D \ ToSet(kept) /\ Distinct(rest)
      /\ (D \subseteq ToSet(kept) => rest = <<>>)
  BY <1>3, WithoutKeeps
<1> HIDE DEF rest
<1>8. t \in Seq(STRING) /\ ToSet(t) = ToSet(kept) \cup ToSet(rest) /\ Distinct(t) /\ kept \o <<>> = kept
  BY <1>6, <1>7, JoinedKeep
<1>9. ASSUME Distinct(o.order), ToSet(o.order) = D PROVE t = o.order
  BY <1>4, <1>6, <1>7, <1>8, <1>9
<1> HIDE DEF t
<1>10. ToSet(t) = D
  BY <1>4, <1>6, <1>7, <1>8
<1>11. q \in Options /\ q.order = t
  BY <1>8 DEF Options
<1>12. SameBut(q, o, {"order"})
  BY DEF Options, SameBut, Fields
<1>13. t = o.order => q = o
  BY DEF Options
<1> HIDE DEF q
<1> QED
  BY <1>1, <1>8, <1>9, <1>10, <1>11, <1>12, <1>13

(* The generated ids replace what is missing or there twice. *)
LEMMA UniqueLeavesDistinct ==
    ASSUME NEW ids \in Seq(ProviderIds \cup {Nil}), Distinct(ids), Nil \notin ToSet(ids)
    PROVE  UniqueIds(ids) = ids
<1>1. /\ Len(ids) \in Nat /\ DOMAIN ids = 1..Len(ids) /\ ids = [i \in 1..Len(ids) |-> ids[i]]
      /\ \A i \in DOMAIN ids : ids[i] \in ToSet(ids)
  BY ElementsAt
<1>2. \A i \in DOMAIN ids : ids[i] # Nil /\ \A j \in 1..(i - 1) : ids[j] # ids[i]
  <2> TAKE i \in DOMAIN ids
  <2>1. \A j \in 1..(i - 1) : j \in DOMAIN ids /\ j # i
    BY <1>1
  <2> QED
    BY <1>1, <2>1 DEF Distinct
<1>3. UniqueIds(ids) = [i \in DOMAIN ids |-> ids[i]]
  BY <1>2 DEF UniqueIds
<1> QED
  BY <1>1, <1>3

(* There is a provider, each has an id of its own and one of them is       *)
(* active.                                                                 *)
LEMMA ProvidersBecomeNormal ==
    ASSUME NEW o \in Options, Distinct(o.providers), Nil \notin ToSet(o.providers)
    PROVE  LET q == ValidateProviders(o)
           IN  /\ q \in Options /\ SameBut(q, o, {"providers", "active"})
               /\ ProvidersNormal(q)
               /\ o.providers # <<>> => q.providers = o.providers
               /\ ProvidersNormal(o) => q = o
<1> DEFINE ids == IF o.providers = <<>> THEN <<FreshIds[1]>> ELSE UniqueIds(o.providers)
           i == AsInt(o.active, 0)
           last == Len(ids) - 1
           a == Between(0, last, i)
           q == [o EXCEPT !.providers = ids, !.active = a]
<1>1. q = ValidateProviders(o)
  BY DEF ValidateProviders
<1>2. o.providers \in Seq(ProviderIds \cup {Nil}) /\ o.active \in Number
  BY DEF Options
<1>3. o.providers # <<>> => ids = o.providers
  BY <1>2, UniqueLeavesDistinct
<1>4. FreshIds[1] \in ProviderIds /\ FreshIds[1] # Nil
  <2>1. FreshIds \in Seq(ProviderIds) /\ FreshIds # <<>>
    BY ProvidersAreKnown
  <2> QED
    BY <2>1, ProvidersAreKnown
<1>5. /\ ids \in Seq(ProviderIds \cup {Nil}) /\ ids # <<>> /\ Distinct(ids) /\ Nil \notin ToSet(ids)
      /\ Len(ids) \in Nat /\ Len(ids) >= 1
  <2>1. CASE o.providers = <<>>
    BY <1>4, <2>1 DEF Distinct, ToSet
  <2>2. CASE o.providers # <<>>
    BY <1>2, <1>3, <2>2
  <2> QED
    BY <2>1, <2>2
<1>6. i \in Int /\ (o.active \in Int => i = o.active)
  BY <1>2, AsIntIsInt
<1> HIDE DEF ids, i
<1>7. last \in Int /\ 0 <= last
  BY <1>5
<1>8. Within(0, last, a) /\ (Within(0, last, i) => a = i)
  BY <1>6, <1>7, BetweenClamps
<1> HIDE DEF a
<1>9. a \in Number /\ a \in 0..last
  BY <1>7, <1>8 DEF Number, Within
<1>10. q \in Options /\ q.providers = ids /\ q.active = a
  BY <1>5, <1>9 DEF Options
<1>11. SameBut(q, o, {"providers", "active"})
  BY DEF Options, SameBut, Fields
<1>12. (ids = o.providers /\ a = o.active) => q = o
  BY DEF Options
<1>13. ProvidersNormal(o) => ids = o.providers /\ a = o.active
  BY <1>3, <1>6, <1>8 DEF ProvidersNormal, Within
<1> HIDE DEF q
<1>14. ProvidersNormal(q)
  BY <1>5, <1>9, <1>10 DEF ProvidersNormal
<1> QED
  BY <1>1, <1>3, <1>10, <1>11, <1>12, <1>13, <1>14

(* The kinds of a sequence are those of its elements. *)
LEMMA KindsOfElements ==
    ASSUME NEW s \in Seq(Kind)
    PROVE  KindsOf(s) = {x.kind : x \in ToSet(s)}
<1>1. /\ \A i \in DOMAIN s : s[i] \in ToSet(s)
      /\ \A x \in ToSet(s) : \E i \in DOMAIN s : s[i] = x
  BY ElementsAt
<1> QED
  BY <1>1 DEF KindsOf

(* After the migration every kind of evidence source is there. *)
LEMMA KindsMigrate ==
    ASSUME NEW kinds \in Seq(Kind), NEW off \in BOOLEAN
    PROVE  LET t == MigrateKinds(kinds, off)
           IN  /\ t \in Seq(Kind) /\ KindsOf(t) = KindsOf(DefaultKinds)
               /\ (~off /\ KindsOf(kinds) = KindsOf(DefaultKinds)) => t = kinds
<1> DEFINE D == KindsOf(DefaultKinds)
           P == {i \in DOMAIN kinds : kinds[i].kind \in D}
           sup == Picked(kinds, P)
           kept == [i \in DOMAIN sup |-> [sup[i] EXCEPT !.on = @ /\ ~off]]
           R == {i \in DOMAIN DefaultKinds : DefaultKinds[i].kind \notin KindsOf(kept)}
           rest == Picked(DefaultKinds, R)
           t == kept \o rest
<1>1. t = MigrateKinds(kinds, off)
  BY DEF MigrateKinds
<1>2. DefaultKinds \in Seq(Kind)
  BY DefaultLayouts
<1>3. P \in SUBSET DOMAIN kinds /\ R \in SUBSET DOMAIN DefaultKinds
  OBVIOUS
<1>4. /\ sup \in Seq(Kind) /\ ToSet(sup) = {kinds[i] : i \in P} /\ (P = DOMAIN kinds => sup = kinds)
      /\ Len(sup) \in Nat /\ DOMAIN sup = 1..Len(sup) /\ \A i \in DOMAIN sup : sup[i] \in Kind
  <2>1. sup \in Seq(Kind) /\ ToSet(sup) = {kinds[i] : i \in P} /\ (P = DOMAIN kinds => sup = kinds)
    BY <1>3, PickedElements
  <2> HIDE DEF sup
  <2> QED
    BY <2>1
<1>5. \A i \in DOMAIN sup : sup[i].kind \in D
  <2>1. \A i \in DOMAIN sup : sup[i] \in {kinds[j] : j \in P}
    BY <1>4, ElementsAt
  <2> HIDE DEF sup
  <2> QED
    BY <2>1
<1> HIDE DEF sup
<1>6. \A i \in DOMAIN sup : kept[i] \in Kind /\ kept[i].kind = sup[i].kind /\ (~off => kept[i] = sup[i])
  BY <1>4 DEF Kind
<1>7. DOMAIN kept = DOMAIN sup
  OBVIOUS
<1>8. kept \in Seq(Kind) /\ (~off => kept = sup)
  <2>1. kept \in [1..Len(sup) -> Kind]
    BY <1>4, <1>6
  <2>2. sup = [i \in DOMAIN sup |-> sup[i]] /\ kept = [i \in DOMAIN sup |-> kept[i]]
    BY <1>4
  <2>3. kept \in Seq(Kind)
    BY <1>4, <2>1
  <2> HIDE DEF kept
  <2>4. ~off => kept = sup
    BY <1>6, <2>2
  <2> QED
    BY <2>3, <2>4
<1>9. KindsOf(kept) \in SUBSET D
  BY <1>5, <1>6, <1>7 DEF KindsOf
<1> HIDE DEF kept
<1>10. rest \in Seq(Kind) /\ ToSet(rest) = {DefaultKinds[i] : i \in R} /\ (R = {} => rest = <<>>)
  BY <1>2, <1>3, PickedElements
<1> HIDE DEF rest
<1>11. KindsOf(rest) = D \ KindsOf(kept)
  <2>1. KindsOf(rest) = {x.kind : x \in {DefaultKinds[i] : i \in R}}
    BY <1>10, KindsOfElements
  <2> QED
    BY <2>1 DEF KindsOf
<1>12. t \in Seq(Kind) /\ ToSet(t) = ToSet(kept) \cup ToSet(rest) /\ kept \o <<>> = kept
  BY <1>8, <1>10, JoinedKeep
<1>15. ASSUME ~off, KindsOf(kinds) = D PROVE t = kinds
  <2>1. P = DOMAIN kinds
    BY <1>15 DEF KindsOf
  <2>2. kept = kinds
    BY <1>4, <1>8, <1>15, <2>1
  <2>3. R = {}
    BY <1>15, <2>2 DEF KindsOf
  <2> QED
    BY <1>10, <1>12, <2>2, <2>3
<1> HIDE DEF t
<1>13. KindsOf(t) = KindsOf(kept) \cup KindsOf(rest)
  BY <1>8, <1>10, <1>12, KindsOfElements
<1> QED
  BY <1>1, <1>9, <1>11, <1>12, <1>13, <1>15

(* Every kind of evidence source is there. *)
LEMMA KindsBecomeNormal ==
    ASSUME NEW o \in Options
    PROVE  LET q == ValidateKinds(o)
           IN  /\ q \in Options /\ SameBut(q, o, {"kinds"})
               /\ KindsOf(q.kinds) = KindsOf(DefaultKinds)
               /\ KindsOf(o.kinds) = KindsOf(DefaultKinds) => q = o
<1> DEFINE t == MigrateKinds(o.kinds, FALSE)
           q == [o EXCEPT !.kinds = t]
<1>1. q = ValidateKinds(o)
  BY DEF ValidateKinds
<1>2. o.kinds \in Seq(Kind)
  BY DEF Options
<1>3. t \in Seq(Kind) /\ KindsOf(t) = KindsOf(DefaultKinds)
      /\ (KindsOf(o.kinds) = KindsOf(DefaultKinds) => t = o.kinds)
  BY <1>2, KindsMigrate
<1> HIDE DEF t
<1>4. q \in Options /\ q.kinds = t
  BY <1>3 DEF Options
<1>5. SameBut(q, o, {"kinds"})
  BY DEF Options, SameBut, Fields
<1>6. t = o.kinds => q = o
  BY DEF Options
<1> HIDE DEF q
<1> QED
  BY <1>1, <1>3, <1>4, <1>5, <1>6

(* The first and the last of some positions. *)
LEMMA MinIsLeast ==
    ASSUME NEW m \in Nat, NEW S \in SUBSET (1..m), S # {}
    PROVE  Min(S) \in S /\ \A y \in S : Min(S) <= y
<1>1. S \in SUBSET Nat
  OBVIOUS
<1>2. \E x \in S : \A y \in S : x <= y
  BY <1>1, LeastNatural
<1> QED
  BY <1>2, Zenon DEF Min

(* The greatest position of a set of positions is one of them. *)
LEMMA MaxIsGreatest ==
    ASSUME NEW m \in Nat, NEW S \in SUBSET (1..m), S # {}
    PROVE  Max(S) \in S
<1> DEFINE T == {t \in Nat : m - t \in S}
<1>1. \A x \in S : x \in 1..m /\ m - x \in Nat /\ m - (m - x) = x
  OBVIOUS
<1>2. T \in SUBSET Nat /\ \A x \in S : m - x \in T
  BY <1>1
<1>3. T # {}
  BY <1>2
<1> HIDE DEF T
<1>4. PICK t \in T : \A y \in T : t <= y
  BY <1>2, <1>3, LeastNatural
<1>6. t \in Nat /\ m - t \in S
  BY DEF T
<1>7. \A y \in S : t <= m - y
  BY <1>2, <1>4
<1>8. \A y \in S : m - t >= y
  BY <1>1, <1>6, <1>7
<1>5. \E z \in S : \A y \in S : z >= y
  BY <1>6, <1>8
<1> QED
  BY <1>5, Zenon DEF Max

(* Tags are normalised and named once. *)
LEMMA TagNames ==
    ASSUME NEW tags \in Seq(Spellings)
    PROVE  LET named == Once([i \in DOMAIN tags |-> NormalOf[tags[i]]])
               q == IF named = <<>> THEN <<"unknown">> ELSE named
           IN  /\ q \in Seq(Spellings) /\ q # <<>> /\ Distinct(q)
               /\ \A t \in ToSet(q) : NormalOf[t] = t
               /\ (tags # <<>> /\ Distinct(tags) /\ \A t \in ToSet(tags) : NormalOf[t] = t) => q = tags
<1> DEFINE nt == [i \in DOMAIN tags |-> NormalOf[tags[i]]]
           named == Once(nt)
           q == IF named = <<>> THEN <<"unknown">> ELSE named
<1>1. /\ NormalOf \in [Spellings -> Spellings]
      /\ \A t \in Spellings : NormalOf[NormalOf[t]] = NormalOf[t]
      /\ "unknown" \in Spellings /\ NormalOf["unknown"] = "unknown"
  BY TagsAreNormal
<1>2. Len(tags) \in Nat /\ DOMAIN tags = 1..Len(tags) /\ \A i \in DOMAIN tags : tags[i] \in Spellings
  OBVIOUS
<1>3. nt \in [1..Len(tags) -> Spellings] /\ DOMAIN nt = DOMAIN tags
  BY <1>1, <1>2
<1>4. nt \in Seq(Spellings)
  BY <1>2, <1>3
<1>5. \A t \in ToSet(nt) : t \in Spellings /\ NormalOf[t] = t
  BY <1>1, <1>2 DEF ToSet
<1>6. Nil \notin ToSet(nt)
  BY <1>5, NilIsNoValue
<1>7. (\A t \in ToSet(tags) : NormalOf[t] = t) => nt = tags
  <2>1. tags = [i \in DOMAIN tags |-> tags[i]]
    OBVIOUS
  <2> QED
    BY <2>1 DEF ToSet
<1> HIDE DEF nt
<1>8. named \in Seq(Spellings) /\ ToSet(named) = ToSet(nt) /\ Distinct(named)
      /\ (Distinct(nt) => named = nt)
  <2>1. /\ named \in Seq(Spellings) /\ ToSet(named) = ToSet(nt) \ {Nil} /\ Distinct(named)
        /\ (Distinct(nt) /\ Nil \notin ToSet(nt)) => named = nt
    BY <1>4, OnceKeeps
  <2> QED
    BY <1>6, <2>1
<1> HIDE DEF named
<1>9. <<"unknown">> \in Seq(Spellings) /\ <<"unknown">> # <<>> /\ Distinct(<<"unknown">>)
      /\ \A t \in ToSet(<<"unknown">>) : NormalOf[t] = t
  BY <1>1 DEF Distinct, ToSet
<1>10. q \in Seq(Spellings) /\ q # <<>> /\ Distinct(q) /\ \A t \in ToSet(q) : NormalOf[t] = t
  BY <1>5, <1>8, <1>9
<1>11. (tags # <<>> /\ Distinct(tags) /\ \A t \in ToSet(tags) : NormalOf[t] = t) => q = tags
  BY <1>7, <1>8
<1> QED
  BY <1>10, <1>11 DEF named, nt

(* The policies of normalised tags: one per tag, none for a tag missing. *)
Stated(policies) ==
    [i \in DOMAIN policies |->
        [tag |-> NormalOf[policies[i].tag],
         policy |-> policies[Max({j \in DOMAIN policies :
                                    NormalOf[policies[j].tag] = NormalOf[policies[i].tag]})].policy]]

(* The policy of a tag is the last one stated under any of its spellings. *)
LEMMA StatedPolicies ==
    ASSUME NEW policies \in Seq(TagPolicy)
    PROVE  LET t == Stated(policies)
           IN  /\ t \in Seq(TagPolicy) /\ OnePerTag(t)
               /\ \A p \in ToSet(t) : NormalOf[p.tag] = p.tag
               /\ {p.tag : p \in ToSet(t)} = {NormalOf[p.tag] : p \in ToSet(policies)}
               /\ (/\ Distinct(policies) /\ OnePerTag(policies)
                   /\ \A p \in ToSet(policies) : NormalOf[p.tag] = p.tag) => t = policies
<1> DEFINE Nm(i) == NormalOf[policies[i].tag]
           Same(x) == {j \in DOMAIN policies : Nm(j) = x}
           Pol(x) == policies[Max(Same(x))].policy
           t == [i \in DOMAIN policies |-> [tag |-> Nm(i), policy |-> Pol(Nm(i))]]
<1>0. t = Stated(policies)
  BY DEF Stated
<1>1. /\ NormalOf \in [Spellings -> Spellings]
      /\ \A x \in Spellings : NormalOf[NormalOf[x]] = NormalOf[x]
  BY TagsAreNormal
<1>2. /\ Len(policies) \in Nat /\ DOMAIN policies = 1..Len(policies)
      /\ \A i \in DOMAIN policies : policies[i] \in TagPolicy
      /\ policies = [i \in DOMAIN policies |-> policies[i]]
  OBVIOUS
<1>3. \A i \in DOMAIN policies : /\ Nm(i) \in Spellings /\ NormalOf[Nm(i)] = Nm(i)
                                 /\ policies[i].policy \in STRING /\ policies[i].tag \in Spellings
                                 /\ policies[i] = [tag |-> policies[i].tag, policy |-> policies[i].policy]
  BY <1>1, <1>2 DEF TagPolicy
<1> HIDE DEF Nm
<1>4. \A i \in DOMAIN policies : Max(Same(Nm(i))) \in Same(Nm(i))
  <2> TAKE i \in DOMAIN policies
  <2>1. Same(Nm(i)) \in SUBSET (1..Len(policies)) /\ Same(Nm(i)) # {}
    BY <1>2
  <2> HIDE DEF Same
  <2> QED
    BY <1>2, <2>1, MaxIsGreatest
<1>5. \A i \in DOMAIN policies : Max(Same(Nm(i))) \in DOMAIN policies /\ Nm(Max(Same(Nm(i)))) = Nm(i)
  BY <1>4
<1>6. \A i \in DOMAIN policies : Pol(Nm(i)) \in STRING
  BY <1>3, <1>5
<1> HIDE DEF Same
<1>7. /\ Distinct(policies) /\ OnePerTag(policies)
      /\ \A p \in ToSet(policies) : NormalOf[p.tag] = p.tag
      => \A i \in DOMAIN policies : [tag |-> Nm(i), policy |-> Pol(Nm(i))] = policies[i]
  <2> SUFFICES ASSUME Distinct(policies), OnePerTag(policies),
                      \A p \in ToSet(policies) : NormalOf[p.tag] = p.tag, NEW i \in DOMAIN policies
               PROVE  [tag |-> Nm(i), policy |-> Pol(Nm(i))] = policies[i]
    OBVIOUS
  <2>1. \A j \in DOMAIN policies : policies[j] \in ToSet(policies) /\ Nm(j) = policies[j].tag
    BY DEF ToSet, Nm
  <2>2. policies[Max(Same(Nm(i)))] = policies[i]
    BY <1>5, <2>1 DEF OnePerTag
  <2> QED
    BY <1>3, <2>1, <2>2
<1> HIDE DEF Pol
<1>8. /\ Distinct(policies) /\ OnePerTag(policies)
      /\ \A p \in ToSet(policies) : NormalOf[p.tag] = p.tag
      => t = policies
  BY <1>2, <1>7
<1>9. \A i \in DOMAIN policies : t[i] \in TagPolicy /\ t[i].tag = Nm(i) /\ t[i].policy = Pol(Nm(i))
  BY <1>3, <1>6 DEF TagPolicy
<1>10. t \in Seq(TagPolicy) /\ DOMAIN t = DOMAIN policies
  <2>1. t \in [1..Len(policies) -> TagPolicy]
    BY <1>2, <1>9
  <2> QED
    BY <1>2, <2>1
<1>11. \A p \in ToSet(t) : \E i \in DOMAIN policies : p = [tag |-> Nm(i), policy |-> Pol(Nm(i))]
  BY <1>10 DEF ToSet
<1>12. \A i \in DOMAIN policies : [tag |-> Nm(i), policy |-> Pol(Nm(i))] \in ToSet(t)
  BY <1>10 DEF ToSet
<1> HIDE DEF t
<1>13. OnePerTag(t)
  BY <1>11 DEF OnePerTag
<1>14. \A p \in ToSet(t) : NormalOf[p.tag] = p.tag
  BY <1>3, <1>11
<1>15. {p.tag : p \in ToSet(t)} = {Nm(i) : i \in DOMAIN policies}
  <2>1. \A p \in ToSet(t) : p.tag \in {Nm(i) : i \in DOMAIN policies}
    BY <1>11
  <2>2. \A i \in DOMAIN policies : \E p \in ToSet(t) : p.tag = Nm(i)
    <3> TAKE i \in DOMAIN policies
    <3>1. [tag |-> Nm(i), policy |-> Pol(Nm(i))].tag = Nm(i)
      OBVIOUS
    <3> QED
      BY <1>12, <3>1
  <2> QED
    BY <2>1, <2>2
<1>16. {NormalOf[p.tag] : p \in ToSet(policies)} = {Nm(i) : i \in DOMAIN policies}
  BY DEF ToSet, Nm
<1> QED
  BY <1>0, <1>8, <1>10, <1>13, <1>14, <1>15, <1>16

(* The policies of the tags that have none. *)
LEMMA ManualPolicies ==
    ASSUME NEW tags \in Seq(Spellings), Distinct(tags)
    PROVE  LET t == [i \in DOMAIN tags |-> [tag |-> tags[i], policy |-> "manual_review"]]
           IN  /\ t \in Seq(TagPolicy) /\ Distinct(t) /\ OnePerTag(t)
               /\ {p.tag : p \in ToSet(t)} = ToSet(tags)
               /\ tags = <<>> => t = <<>>
<1> DEFINE t == [i \in DOMAIN tags |-> [tag |-> tags[i], policy |-> "manual_review"]]
<1>1. Len(tags) \in Nat /\ DOMAIN tags = 1..Len(tags) /\ \A i \in DOMAIN tags : tags[i] \in Spellings
  OBVIOUS
<1>2. "manual_review" \in STRING
  BY ChoicesAreText
<1>3. \A i \in DOMAIN tags : t[i] \in TagPolicy /\ t[i].tag = tags[i] /\ t[i].policy = "manual_review"
  BY <1>1, <1>2 DEF TagPolicy
<1>4. t \in [1..Len(tags) -> TagPolicy]
  BY <1>1, <1>3
<1>5. t \in Seq(TagPolicy) /\ DOMAIN t = DOMAIN tags
  BY <1>1, <1>4
<1>6. Distinct(t)
  BY <1>3, <1>5 DEF Distinct
<1>7. tags = <<>> => t = <<>>
  <2>1. tags = <<>> => Len(tags) = 0
    OBVIOUS
  <2>2. Len(t) = Len(tags)
    BY <1>1, <1>5
  <2> HIDE DEF t
  <2> QED
    BY <1>5, <2>1, <2>2
<1>8. \A p \in ToSet(t) : \E i \in DOMAIN tags : p = t[i]
  BY <1>5 DEF ToSet
<1>9. \A i \in DOMAIN tags : t[i] \in ToSet(t)
  BY <1>5 DEF ToSet
<1> HIDE DEF t
<1>10. OnePerTag(t)
  BY <1>3, <1>5, <1>8 DEF OnePerTag, Distinct
<1>11. {p.tag : p \in ToSet(t)} = ToSet(tags)
  <2>1. \A p \in ToSet(t) : p.tag \in ToSet(tags)
    BY <1>3, <1>8 DEF ToSet
  <2>2. \A x \in ToSet(tags) : \E p \in ToSet(t) : p.tag = x
    BY <1>3, <1>9 DEF ToSet
  <2> QED
    BY <2>1, <2>2
<1> QED
  BY <1>5, <1>6, <1>7, <1>10, <1>11 DEF t

(* Tags are spelled normally, each once, and each has a policy. *)
LEMMA TagsBecomeNormal ==
    ASSUME NEW o \in Options
    PROVE  LET q == ValidateTags(o)
           IN  /\ q \in Options /\ SameBut(q, o, {"tags", "policies"})
               /\ TagsNormal(q)
               /\ TagsNormal(o) => q = o
<1> DEFINE named == Once([i \in DOMAIN o.tags |-> NormalOf[o.tags[i]]])
           tags == IF named = <<>> THEN <<"unknown">> ELSE named
           keys == {NormalOf[p.tag] : p \in ToSet(o.policies)}
           st == Stated(o.policies)
           once == Once(st)
           un == Without(tags, keys)
           man == [i \in DOMAIN un |-> [tag |-> un[i], policy |-> "manual_review"]]
           pol == once \o man
           q == [o EXCEPT !.tags = tags, !.policies = pol]
<1>1. q = ValidateTags(o)
  BY DEF ValidateTags, Stated
<1>2. o.tags \in Seq(Spellings) /\ o.policies \in Seq(TagPolicy)
  BY DEF Options
<1>3. /\ tags \in Seq(Spellings) /\ tags # <<>> /\ Distinct(tags)
      /\ \A t \in ToSet(tags) : NormalOf[t] = t
      /\ (o.tags # <<>> /\ Distinct(o.tags) /\ \A t \in ToSet(o.tags) : NormalOf[t] = t) => tags = o.tags
  BY <1>2, TagNames
<1> HIDE DEF tags
<1>4. /\ st \in Seq(TagPolicy) /\ OnePerTag(st)
      /\ \A p \in ToSet(st) : NormalOf[p.tag] = p.tag
      /\ {p.tag : p \in ToSet(st)} = keys
      /\ (/\ Distinct(o.policies) /\ OnePerTag(o.policies)
          /\ \A p \in ToSet(o.policies) : NormalOf[p.tag] = p.tag) => st = o.policies
  BY <1>2, StatedPolicies
<1>5. Nil \notin ToSet(st)
  BY <1>4, ElementsAt, NilIsNoValue
<1> HIDE DEF st, keys
<1>6. /\ once \in Seq(TagPolicy) /\ ToSet(once) = ToSet(st) /\ Distinct(once)
      /\ (Distinct(st) => once = st)
  <2>1. /\ once \in Seq(TagPolicy) /\ ToSet(once) = ToSet(st) \ {Nil} /\ Distinct(once)
        /\ (Distinct(st) /\ Nil \notin ToSet(st)) => once = st
    BY <1>4, OnceKeeps
  <2> QED
    BY <1>5, <2>1
<1> HIDE DEF once
<1>7. un \in Seq(Spellings) /\ ToSet(un) = ToSet(tags) \ keys /\ Distinct(un)
      /\ (ToSet(tags) \subseteq keys => un = <<>>)
  BY <1>3, WithoutKeeps
<1> HIDE DEF un
<1>8. /\ man \in Seq(TagPolicy) /\ Distinct(man) /\ OnePerTag(man)
      /\ {p.tag : p \in ToSet(man)} = ToSet(un) /\ (un = <<>> => man = <<>>)
  BY <1>7, ManualPolicies
<1> HIDE DEF man
<1>9. \A p \in ToSet(once), r \in ToSet(man) : p.tag \in keys /\ r.tag \notin keys
  BY <1>4, <1>6, <1>7, <1>8
<1>10. /\ pol \in Seq(TagPolicy) /\ ToSet(pol) = ToSet(once) \cup ToSet(man)
       /\ once \o <<>> = once
       /\ (Distinct(once) /\ Distinct(man) /\ ToSet(once) \cap ToSet(man) = {}) => Distinct(pol)
  BY <1>6, <1>8, JoinedKeep
<1>11. ToSet(once) \cap ToSet(man) = {}
  BY <1>9
<1>12. TagsNormal(o) => tags = o.tags /\ pol = o.policies
  <2> SUFFICES ASSUME TagsNormal(o) PROVE tags = o.tags /\ pol = o.policies
    OBVIOUS
  <2>1. tags = o.tags /\ st = o.policies
    BY <1>3, <1>4 DEF TagsNormal
  <2>2. once = o.policies
    BY <1>6, <2>1 DEF TagsNormal
  <2>3. ToSet(tags) \subseteq keys
    BY <1>4, <2>1 DEF TagsNormal
  <2>4. man = <<>>
    BY <1>7, <1>8, <2>3
  <2> QED
    BY <1>10, <2>1, <2>2, <2>4
<1> HIDE DEF pol
<1>13. q \in Options /\ q.tags = tags /\ q.policies = pol
  BY <1>3, <1>10 DEF Options
<1>14. SameBut(q, o, {"tags", "policies"})
  BY DEF Options, SameBut, Fields
<1>15. (tags = o.tags /\ pol = o.policies) => q = o
  BY DEF Options
<1> HIDE DEF q
<1>16. OnePerTag(pol)
  BY <1>4, <1>6, <1>8, <1>9, <1>10 DEF OnePerTag
<1>17. \A p \in ToSet(pol) : NormalOf[p.tag] = p.tag
  <2>1. \A p \in ToSet(man) : p.tag \in ToSet(tags)
    BY <1>7, <1>8
  <2> QED
    BY <1>3, <1>4, <1>6, <1>10, <2>1
<1>18. ToSet(tags) \subseteq {p.tag : p \in ToSet(pol)}
  <2> SUFFICES ASSUME NEW x \in ToSet(tags) PROVE \E p \in ToSet(pol) : p.tag = x
    OBVIOUS
  <2>1. CASE x \in keys
    BY <1>4, <1>6, <1>10, <2>1
  <2>2. CASE x \notin keys
    BY <1>7, <1>8, <1>10, <2>2
  <2> QED
    BY <2>1, <2>2
<1>19. TagsNormal(q)
  BY <1>3, <1>6, <1>8, <1>10, <1>11, <1>13, <1>16, <1>17, <1>18 DEF TagsNormal
<1> QED
  BY <1>1, <1>12, <1>13, <1>14, <1>15, <1>19

(* Members of a pool. *)
LEMMA MembersRun ==
    ASSUME NEW members \in Seq(ProviderIds), NEW ids \in Seq(ProviderIds \cup {Nil}), ids # <<>>,
           Nil \notin ToSet(ids), NEW active \in 0..(Len(ids) - 1)
    PROVE  LET t == PoolMembers(members, ids, active)
           IN  /\ t \in Seq(ProviderIds) /\ t # <<>> /\ Distinct(t) /\ ToSet(t) \subseteq ToSet(ids)
               /\ (/\ members # <<>> /\ Distinct(members)
                   /\ ToSet(members) \subseteq ToSet(ids)) => t = members
<1> DEFINE s == Those(members, ToSet(ids))
           kept == Once(s)
           one == <<ids[active + 1]>>
           t == IF kept = <<>> THEN one ELSE kept
<1>1. t = PoolMembers(members, ids, active)
  BY DEF PoolMembers
<1>2. /\ s \in Seq(ProviderIds) /\ ToSet(s) = ToSet(members) \cap ToSet(ids)
      /\ (Distinct(members) => Distinct(s)) /\ (ToSet(members) \subseteq ToSet(ids) => s = members)
  BY ThoseKeep
<1> HIDE DEF s
<1>3. Nil \notin ToSet(s)
  BY <1>2
<1>4. /\ kept \in Seq(ProviderIds) /\ ToSet(kept) = ToSet(s) \ {Nil} /\ Distinct(kept)
      /\ (Distinct(s) /\ Nil \notin ToSet(s)) => kept = s
  BY <1>2, OnceKeeps
<1> HIDE DEF kept
<1>5. active + 1 \in DOMAIN ids
  OBVIOUS
<1>6. ids[active + 1] \in ToSet(ids) /\ ids[active + 1] \in ProviderIds
  <2>1. ids[active + 1] \in ToSet(ids) /\ ids[active + 1] \in ProviderIds \cup {Nil}
    BY <1>5, ElementsAt
  <2> QED
    BY <2>1
<1>7. one \in Seq(ProviderIds) /\ one # <<>> /\ Distinct(one) /\ ToSet(one) = {ids[active + 1]}
  BY <1>6 DEF Distinct, ToSet
<1> HIDE DEF one
<1>8. t \in Seq(ProviderIds) /\ t # <<>> /\ Distinct(t) /\ ToSet(t) \subseteq ToSet(ids)
  BY <1>2, <1>4, <1>6, <1>7
<1>9. (members # <<>> /\ Distinct(members) /\ ToSet(members) \subseteq ToSet(ids)) => t = members
  BY <1>2, <1>3, <1>4
<1> QED
  BY <1>1, <1>8, <1>9

(* What is made of a pool, and of its name. *)
ValidPool(p, o) ==
    [p EXCEPT !.mode = IF @ \in Modes THEN @ ELSE DefaultPool(p.pool, 0).mode,
              !.members = PoolMembers(@, o.providers, o.active)]

Named(o, name) == {i \in DOMAIN o.pools : o.pools[i].pool = name}

PoolOf(o, name) ==
    IF \E i \in DOMAIN o.pools : o.pools[i].pool = name
    THEN ValidPool(o.pools[Min(Named(o, name))], o)
    ELSE DefaultPool(name, o.providers[o.active + 1])

(* The default mode of a pool. *)
LEMMA DefaultMode ==
    ASSUME NEW name \in STRING, NEW id
    PROVE  /\ DefaultPool(name, id).pool = name /\ DefaultPool(name, id).members = <<id>>
           /\ DefaultPool(name, id).mode \in Modes
           /\ DefaultPool(name, id) = [pool |-> name, mode |-> DefaultPool(name, id).mode, members |-> <<id>>]
BY DEF DefaultPool, Modes

(* The modes of a pool are texts. *)
LEMMA ModesAreText == Modes \subseteq STRING
BY ChoicesAreText DEF Modes

(* A sequence of one element. *)
LEMMA OneElement ==
    ASSUME NEW S, NEW x \in S
    PROVE  <<x>> \in Seq(S) /\ <<x>> # <<>> /\ ToSet(<<x>>) = {x} /\ Distinct(<<x>>)
BY DEF ToSet, Distinct

(* The default of a pool is a pool. *)
LEMMA DefaultPoolEntry ==
    ASSUME NEW name \in STRING, NEW id \in ProviderIds
    PROVE  DefaultPool(name, id) \in PoolEntry
<1> DEFINE p == DefaultPool(name, id)
<1>1. /\ p.pool = name /\ p.members = <<id>> /\ p.mode \in Modes
      /\ p = [pool |-> name, mode |-> p.mode, members |-> <<id>>]
  BY DefaultMode
<1>2. p.mode \in STRING
  BY <1>1, ModesAreText
<1>3. <<id>> \in Seq(ProviderIds)
  BY OneElement
<1> HIDE DEF p
<1>4. p \in PoolEntry
  BY <1>1, <1>2, <1>3 DEF PoolEntry
<1> QED
  BY <1>4 DEF p

(* A validated pool can run, and one that can run is left alone. *)
LEMMA ValidPoolIsNormal ==
    ASSUME NEW o \in Options, ProvidersNormal(o), NEW p \in PoolEntry
    PROVE  LET q == ValidPool(p, o)
           IN  /\ q \in PoolEntry /\ PoolNormal(q, p.pool, ToSet(o.providers))
               /\ PoolNormal(p, p.pool, ToSet(o.providers)) => q = p
<1> DEFINE d == DefaultPool(p.pool, 0).mode
           mode == IF p.mode \in Modes THEN p.mode ELSE d
           t == PoolMembers(p.members, o.providers, o.active)
           q == [p EXCEPT !.mode = mode, !.members = t]
<1>1. q = ValidPool(p, o)
  BY DEF ValidPool
<1>2. p.pool \in STRING /\ p.mode \in STRING /\ p.members \in Seq(ProviderIds)
  BY DEF PoolEntry
<1>3. o.providers \in Seq(ProviderIds \cup {Nil})
  BY DEF Options
<1>4. d \in Modes
  BY <1>2, DefaultMode
<1> HIDE DEF d
<1>5. mode \in Modes /\ (p.mode \in Modes => mode = p.mode)
  BY <1>4
<1>6. mode \in STRING
  BY <1>5, ModesAreText
<1> HIDE DEF mode
<1>7. /\ t \in Seq(ProviderIds) /\ t # <<>> /\ Distinct(t) /\ ToSet(t) \subseteq ToSet(o.providers)
      /\ (/\ p.members # <<>> /\ Distinct(p.members)
          /\ ToSet(p.members) \subseteq ToSet(o.providers)) => t = p.members
  BY <1>2, <1>3, MembersRun DEF ProvidersNormal
<1> HIDE DEF t
<1>8. q \in PoolEntry /\ q.pool = p.pool /\ q.mode = mode /\ q.members = t
  BY <1>2, <1>6, <1>7 DEF PoolEntry
<1>9. (mode = p.mode /\ t = p.members) => q = p
  BY DEF PoolEntry
<1> HIDE DEF q
<1>10. PoolNormal(q, p.pool, ToSet(o.providers))
  BY <1>5, <1>7, <1>8 DEF PoolNormal
<1>11. PoolNormal(p, p.pool, ToSet(o.providers)) => q = p
  BY <1>5, <1>7, <1>9 DEF PoolNormal
<1> QED
  BY <1>1, <1>8, <1>10, <1>11

(* Either pool of validated options can run, stored or not. *)
LEMMA PoolIsNormal ==
    ASSUME NEW o \in Options, ProvidersNormal(o), NEW name \in STRING
    PROVE  PoolOf(o, name) \in PoolEntry /\ PoolNormal(PoolOf(o, name), name, ToSet(o.providers))
<1>1. o.pools \in Seq(PoolEntry) /\ o.providers \in Seq(ProviderIds \cup {Nil})
  BY DEF Options
<1>2. Len(o.pools) \in Nat /\ DOMAIN o.pools = 1..Len(o.pools)
      /\ \A i \in DOMAIN o.pools : o.pools[i] \in PoolEntry
  BY <1>1
<1>3. CASE \E i \in DOMAIN o.pools : o.pools[i].pool = name
  <2> DEFINE n == Min(Named(o, name))
  <2>1. Named(o, name) \in SUBSET (1..Len(o.pools)) /\ Named(o, name) # {}
    BY <1>2, <1>3 DEF Named
  <2>2. n \in Named(o, name)
    BY <1>2, <2>1, MinIsLeast
  <2>3. o.pools[n] \in PoolEntry /\ o.pools[n].pool = name
    BY <1>2, <2>2 DEF Named
  <2>4. PoolOf(o, name) = ValidPool(o.pools[n], o)
    BY <1>3 DEF PoolOf
  <2> HIDE DEF n
  <2> QED
    BY <2>3, <2>4, ValidPoolIsNormal
<1>4. CASE ~\E i \in DOMAIN o.pools : o.pools[i].pool = name
  <2> DEFINE id == o.providers[o.active + 1]
             p == DefaultPool(name, id)
  <2>1. p = PoolOf(o, name)
    BY <1>4 DEF PoolOf
  <2>2. o.active + 1 \in DOMAIN o.providers
    BY <1>1 DEF ProvidersNormal
  <2>3. id \in ToSet(o.providers) /\ id \in ProviderIds
    <3>1. id \in ToSet(o.providers) /\ id \in ProviderIds \cup {Nil}
      BY <1>1, <2>2, ElementsAt
    <3> QED
      BY <3>1 DEF ProvidersNormal
  <2> HIDE DEF id
  <2>4. /\ p.pool = name /\ p.members = <<id>> /\ p.mode \in Modes
        /\ p = [pool |-> name, mode |-> p.mode, members |-> <<id>>]
    BY DefaultMode
  <2> HIDE DEF p
  <2>5. <<id>> \in Seq(ProviderIds) /\ <<id>> # <<>> /\ Distinct(<<id>>) /\ ToSet(<<id>>) = {id}
    BY <2>3 DEF Distinct, ToSet
  <2>6. p.mode \in STRING
    BY <2>4, ModesAreText
  <2>7. p \in PoolEntry
    BY <2>4, <2>5, <2>6 DEF PoolEntry
  <2>8. PoolNormal(p, name, ToSet(o.providers))
    BY <2>3, <2>4, <2>5 DEF PoolNormal
  <2> QED
    BY <2>1, <2>7, <2>8
<1> QED
  BY <1>3, <1>4

(* Both pools are there and can run. *)
LEMMA PoolsBecomeNormal ==
    ASSUME NEW o \in Options, ProvidersNormal(o)
    PROVE  LET q == ValidatePools(o)
           IN  /\ q \in Options /\ SameBut(q, o, {"pools"}) /\ PoolsNormal(q)
               /\ PoolsNormal(o) => q = o
<1> DEFINE t == <<PoolOf(o, "realtime"), PoolOf(o, "background")>>
           q == [o EXCEPT !.pools = t]
<1>1. q = ValidatePools(o)
  BY Zenon DEF ValidatePools, PoolOf, ValidPool, Named, Modes
<1>2. "realtime" \in STRING /\ "background" \in STRING
  BY ChoicesAreText
<1>3. /\ PoolOf(o, "realtime") \in PoolEntry
      /\ PoolNormal(PoolOf(o, "realtime"), "realtime", ToSet(o.providers))
      /\ PoolOf(o, "background") \in PoolEntry
      /\ PoolNormal(PoolOf(o, "background"), "background", ToSet(o.providers))
  BY <1>2, PoolIsNormal
<1>4. t \in Seq(PoolEntry) /\ Len(t) = 2 /\ t[1] = PoolOf(o, "realtime") /\ t[2] = PoolOf(o, "background")
  BY <1>3
<1>5. PoolsNormal(o) => t = o.pools
  <2> SUFFICES ASSUME PoolsNormal(o) PROVE t = o.pools
    OBVIOUS
  <2>1. o.pools \in Seq(PoolEntry) /\ Len(o.pools) = 2
    BY DEF Options, PoolsNormal
  <2>2. o.pools[1] \in PoolEntry /\ o.pools[2] \in PoolEntry /\ DOMAIN o.pools = {1, 2}
    BY <2>1
  <2>3. o.pools[1].pool = "realtime" /\ o.pools[2].pool = "background" /\ "realtime" # "background"
    BY DEF PoolsNormal, PoolNormal
  <2>4. Named(o, "realtime") = {1} /\ Named(o, "background") = {2}
    BY <2>2, <2>3 DEF Named
  <2>5. Min({1}) = 1 /\ Min({2}) = 2
    BY MinIsLeast, {1} \in SUBSET (1..2), {2} \in SUBSET (1..2)
  <2>6. PoolOf(o, "realtime") = ValidPool(o.pools[1], o) /\ PoolOf(o, "background") = ValidPool(o.pools[2], o)
    BY <2>2, <2>3, <2>4, <2>5, Zenon DEF PoolOf
  <2>7. ValidPool(o.pools[1], o) = o.pools[1] /\ ValidPool(o.pools[2], o) = o.pools[2]
    BY <2>2, <2>3, ValidPoolIsNormal DEF PoolsNormal
  <2> QED
    BY <1>4, <2>1, <2>6, <2>7
<1> HIDE DEF t
<1>6. q \in Options /\ q.pools = t
  BY <1>4 DEF Options
<1>7. SameBut(q, o, {"pools"})
  BY DEF Options, SameBut, Fields
<1>8. t = o.pools => q = o
  BY DEF Options
<1> HIDE DEF q
<1>9. q.providers = o.providers
  BY <1>7 DEF SameBut, Fields
<1>10. PoolsNormal(q)
  BY <1>3, <1>4, <1>6, <1>9 DEF PoolsNormal
<1> QED
  BY <1>1, <1>5, <1>6, <1>7, <1>8, <1>10

(* What a load or a save may not change. *)
SameUser(q, o) == q.sim = o.sim /\ q.url = o.url /\ q.pw = o.pw

(* Validated options have nothing left to correct, and options that have   *)
(* nothing to correct are left alone.                                      *)
LEMMA ValidateCorrects ==
    ASSUME NEW o, Held(o)
    PROVE  /\ Normal(Validate(o)) /\ SameUser(Validate(o), o)
           /\ o.providers # <<>> => Validate(o).providers = o.providers
           /\ Normal(o) => Validate(o) = o
<1> DEFINE q1 == ValidateServices(o)
           q2 == ValidateBatches(q1)
           q3 == ValidateThresholds(q2)
           q4 == ValidateTags(q3)
           q5 == ValidateChoices(q4)
           q6 == ValidateTables(q5)
           q7 == ValidateProviders(q6)
           q8 == ValidateKinds(q7)
           q9 == ValidatePools(q8)
           q == [q9 EXCEPT !.version = CurrentVersion]
<1>0. q = Validate(o)
  BY Zenon DEF Validate
<1>1. /\ q1 \in Options /\ SameBut(q1, o, {"port"}) /\ Within(1, MaxPort, q1.port)
      /\ Within(1, MaxPort, o.port) => q1 = o
  BY ServicesNormal DEF Held
<1> HIDE DEF q1
<1>2. /\ q2 \in Options /\ SameBut(q2, q1, {"batch", "perRequest"})
      /\ q2.batch \in Int /\ 1 <= q2.batch /\ Within(1, q2.batch, q2.perRequest)
      /\ (q1.batch \in Int /\ 1 <= q1.batch /\ Within(1, q1.batch, q1.perRequest)) => q2 = q1
  BY <1>1, BatchesNormal
<1> HIDE DEF q2
<1>3. /\ q3 \in Options /\ SameBut(q3, q2, {"auto", "review"})
      /\ Within(0, 100, q3.auto) /\ Within(0, q3.auto, q3.review)
      /\ (Within(0, 100, q2.auto) /\ Within(0, q2.auto, q2.review)) => q3 = q2
  BY <1>2, ThresholdsNormal
<1> HIDE DEF q3
<1>4. /\ q4 \in Options /\ SameBut(q4, q3, {"tags", "policies"}) /\ TagsNormal(q4)
      /\ TagsNormal(q3) => q4 = q3
  BY <1>3, TagsBecomeNormal
<1> HIDE DEF q4
<1>5. /\ q5 \in Options /\ SameBut(q5, q4, {"channel"}) /\ q5.channel \in {"stable", "prerelease"}
      /\ q4.channel \in {"stable", "prerelease"} => q5 = q4
  BY <1>4, ChoicesNormal
<1> HIDE DEF q5
<1>6. /\ q6 \in Options /\ SameBut(q6, q5, {"order"})
      /\ Distinct(q6.order) /\ ToSet(q6.order) = ToSet(DefaultOrder)
      /\ (Distinct(q5.order) /\ ToSet(q5.order) = ToSet(DefaultOrder)) => q6 = q5
  BY <1>5, TablesNormal
<1> HIDE DEF q6
<1>7. q6.providers = o.providers /\ Distinct(q6.providers) /\ Nil \notin ToSet(q6.providers)
  <2>1. q6.providers = o.providers
    BY <1>1, <1>2, <1>3, <1>4, <1>5, <1>6 DEF SameBut, Fields
  <2> QED
    BY <2>1 DEF Held
<1>8. /\ q7 \in Options /\ SameBut(q7, q6, {"providers", "active"}) /\ ProvidersNormal(q7)
      /\ q6.providers # <<>> => q7.providers = q6.providers
      /\ ProvidersNormal(q6) => q7 = q6
  BY <1>6, <1>7, ProvidersBecomeNormal
<1> HIDE DEF q7
<1>9. /\ q8 \in Options /\ SameBut(q8, q7, {"kinds"}) /\ KindsOf(q8.kinds) = KindsOf(DefaultKinds)
      /\ KindsOf(q7.kinds) = KindsOf(DefaultKinds) => q8 = q7
  BY <1>8, KindsBecomeNormal
<1> HIDE DEF q8
<1>10. q8.providers = q7.providers /\ q8.active = q7.active
  BY <1>9 DEF SameBut, Fields
<1>11. ProvidersNormal(q8)
  BY <1>8, <1>10 DEF ProvidersNormal
<1>12. /\ q9 \in Options /\ SameBut(q9, q8, {"pools"}) /\ PoolsNormal(q9)
       /\ PoolsNormal(q8) => q9 = q8
  BY <1>9, <1>11, PoolsBecomeNormal
<1> HIDE DEF q9
<1>13. CurrentVersion \in Nat
  BY VersionIsPositive
<1>14. q \in Options /\ q.version = CurrentVersion /\ SameBut(q, q9, {"version"})
  BY <1>12, <1>13 DEF Options, SameBut, Fields
<1>15. q9.version = CurrentVersion => q = q9
  BY <1>12 DEF Options
<1> HIDE DEF q
<1>16. /\ q.port = q1.port
       /\ q.batch = q2.batch /\ q.perRequest = q2.perRequest
       /\ q.auto = q3.auto /\ q.review = q3.review
       /\ q.tags = q4.tags /\ q.policies = q4.policies
  BY <1>2, <1>3, <1>4, <1>5, <1>6, <1>8, <1>9, <1>12, <1>14 DEF SameBut, Fields
<1>17. /\ q.channel = q5.channel /\ q.order = q6.order
       /\ q.providers = q7.providers /\ q.active = q7.active
       /\ q.kinds = q8.kinds /\ q.pools = q9.pools /\ q9.providers = q.providers
  BY <1>6, <1>8, <1>9, <1>12, <1>14 DEF SameBut, Fields
<1>18. q.legacyOff = o.legacyOff /\ SameUser(q, o)
  BY <1>1, <1>2, <1>3, <1>4, <1>5, <1>6, <1>8, <1>9, <1>12, <1>14 DEF SameBut, Fields, SameUser
<1>19. NumbersNormal(q)
  BY <1>1, <1>2, <1>3, <1>16 DEF NumbersNormal
<1>20. TagsNormal(q)
  BY <1>4, <1>16 DEF TagsNormal
<1>21. LayoutNormal(q)
  BY <1>6, <1>9, <1>17 DEF LayoutNormal
<1>22. ProvidersNormal(q)
  BY <1>8, <1>17 DEF ProvidersNormal
<1>23. PoolsNormal(q)
  BY <1>12, <1>17 DEF PoolsNormal
<1>24. Normal(q)
  BY <1>5, <1>14, <1>17, <1>18, <1>19, <1>20, <1>21, <1>22, <1>23 DEF Normal, Held
<1>25. Normal(o) => q = o
  <2> SUFFICES ASSUME Normal(o) PROVE q = o
    OBVIOUS
  <2>1. q1 = o
    BY <1>1 DEF Normal, NumbersNormal
  <2>2. q2 = o
    BY <1>2, <2>1 DEF Normal, NumbersNormal
  <2>3. q3 = o
    BY <1>3, <2>2 DEF Normal, NumbersNormal
  <2>4. q4 = o
    BY <1>4, <2>3 DEF Normal
  <2>5. q5 = o
    BY <1>5, <2>4 DEF Normal
  <2>6. q6 = o
    BY <1>6, <2>5 DEF Normal, LayoutNormal
  <2>7. q7 = o
    BY <1>8, <2>6 DEF Normal
  <2>8. q8 = o
    BY <1>9, <2>7 DEF Normal, LayoutNormal
  <2>9. q9 = o
    BY <1>12, <2>8 DEF Normal
  <2> QED
    BY <1>15, <2>9 DEF Normal
<1> QED
  BY <1>0, <1>7, <1>8, <1>17, <1>18, <1>24, <1>25

(* Generated ids make the ids of a file distinct. *)
LEMMA UniqueIdsAreDistinct ==
    ASSUME NEW ids \in Seq(ProviderIds \cup {Nil}), Len(ids) <= Len(FreshIds),
           ToSet(ids) \cap ToSet(FreshIds) = {}
    PROVE  /\ UniqueIds(ids) \in Seq(ProviderIds \cup {Nil}) /\ Len(UniqueIds(ids)) = Len(ids)
           /\ Distinct(UniqueIds(ids)) /\ Nil \notin ToSet(UniqueIds(ids))
<1> DEFINE m == Len(ids)
           u == UniqueIds(ids)
<1>1. m \in Nat /\ DOMAIN ids = 1..m /\ \A i \in 1..m : ids[i] \in ProviderIds \cup {Nil} /\ ids[i] \in ToSet(ids)
  BY ElementsAt
<1>2. FreshIds \in Seq(ProviderIds) /\ Distinct(FreshIds) /\ Nil \notin ProviderIds
  BY ProvidersAreKnown
<1>3. \A i \in 1..m : i \in DOMAIN FreshIds
  BY <1>1, <1>2
<1>4. \A i \in 1..m : FreshIds[i] \in ProviderIds /\ FreshIds[i] \in ToSet(FreshIds)
  BY <1>2, <1>3, ElementsAt
<1>5. \A i \in 1..m : u[i] = IF ids[i] # Nil /\ \A j \in 1..(i - 1) : ids[j] # ids[i] THEN ids[i] ELSE FreshIds[i]
  BY <1>1 DEF UniqueIds
<1>6. DOMAIN u = 1..m /\ u = [i \in 1..m |-> u[i]]
  BY <1>1 DEF UniqueIds
<1> HIDE DEF u, m
<1>7. \A i \in 1..m : u[i] \in ProviderIds
  BY <1>1, <1>4, <1>5
<1>8. u \in Seq(ProviderIds \cup {Nil}) /\ Len(u) = m
  <2>1. u \in [1..m -> ProviderIds \cup {Nil}]
    BY <1>6, <1>7
  <2> QED
    BY <1>1, <2>1
<1>9. Nil \notin ToSet(u)
  BY <1>2, <1>6, <1>7 DEF ToSet
<1>10. ASSUME NEW i \in 1..m, NEW j \in 1..m, i < j PROVE u[i] # u[j]
  <2>1. i \in 1..(j - 1) /\ i # j
    BY <1>1, <1>10
  <2>2. u[j] = ids[j] => u[j] # ids[i] \/ u[j] = FreshIds[j]
    BY <1>5, <2>1
  <2>3. FreshIds[i] # FreshIds[j]
    BY <1>2, <1>3, <2>1 DEF Distinct
  <2>4. ids[i] # FreshIds[j] /\ ids[j] # FreshIds[i]
    BY <1>1, <1>4
  <2> QED
    BY <1>5, <2>1, <2>2, <2>3, <2>4
<1>11. Distinct(u)
  <2> SUFFICES ASSUME NEW i \in 1..m, NEW j \in 1..m, u[i] = u[j] PROVE i = j
    BY <1>6 DEF Distinct
  <2>1. i < j \/ j < i \/ i = j
    BY <1>1
  <2> QED
    BY <1>10, <2>1
<1> QED
  BY <1>8, <1>9, <1>11 DEF u, m

(* The provider a missing pool is given. *)
LEMMA ActiveIsKnown ==
    ASSUME NEW ids \in Seq(ProviderIds \cup {Nil}), ids # <<>>, Nil \notin ToSet(ids), NEW active \in Number
    PROVE  ActiveId(ids, active) \in ProviderIds
<1> DEFINE i == AsInt(active, 0)
           last == Len(ids) - 1
           n == Between(0, last, i)
<1>1. i \in Int
  BY AsIntIsInt
<1>2. last \in Int /\ 0 <= last
  OBVIOUS
<1> HIDE DEF i
<1>3. Within(0, last, n)
  BY <1>1, <1>2, BetweenClamps
<1>4. ActiveId(ids, active) = ids[n + 1]
  BY DEF ActiveId, i
<1> HIDE DEF n
<1>5. n + 1 \in DOMAIN ids
  BY <1>3 DEF Within
<1>6. ids[n + 1] \in ToSet(ids) /\ ids[n + 1] \in ProviderIds \cup {Nil}
  BY <1>5, ElementsAt
<1> QED
  BY <1>4, <1>6

(* Pools a file lacks. *)
AbsentPools(pools) == Without(<<"realtime", "background">>, {pools[i].pool : i \in DOMAIN pools})

(* The migration of the pools gives pools. *)
LEMMA PoolsMigrate ==
    ASSUME NEW pools \in Seq(PoolEntry), NEW ids \in Seq(ProviderIds \cup {Nil}), ids # <<>>,
           Nil \notin ToSet(ids), NEW active \in Number
    PROVE  /\ MigratePools(pools, ids, active) \in Seq(PoolEntry)
           /\ (/\ {"realtime", "background"} \subseteq {pools[i].pool : i \in DOMAIN pools}
               /\ \A i \in DOMAIN pools : ToSet(pools[i].members) \subseteq ToSet(ids))
              => MigratePools(pools, ids, active) = pools
<1> DEFINE kept == [i \in DOMAIN pools |-> [pools[i] EXCEPT !.members = Those(@, ToSet(ids))]]
           absent == AbsentPools(pools)
           id == ActiveId(ids, active)
           more == [i \in DOMAIN absent |-> DefaultPool(absent[i], id)]
<1>1. MigratePools(pools, ids, active) = kept \o more
  BY Zenon DEF MigratePools, AbsentPools
<1>2. Len(pools) \in Nat /\ DOMAIN pools = 1..Len(pools) /\ pools = [i \in DOMAIN pools |-> pools[i]]
  OBVIOUS
<1>3. \A i \in DOMAIN pools : pools[i] \in PoolEntry /\ pools[i].members \in Seq(ProviderIds)
  <2>1. \A i \in DOMAIN pools : pools[i] \in PoolEntry
    OBVIOUS
  <2> QED
    BY <2>1 DEF PoolEntry
<1>4. \A i \in DOMAIN pools :
        /\ Those(pools[i].members, ToSet(ids)) \in Seq(ProviderIds)
        /\ ToSet(pools[i].members) \subseteq ToSet(ids) => Those(pools[i].members, ToSet(ids)) = pools[i].members
  BY <1>3, ThoseKeep
<1>5. \A i \in DOMAIN pools :
        /\ kept[i] \in PoolEntry
        /\ ToSet(pools[i].members) \subseteq ToSet(ids) => kept[i] = pools[i]
  BY <1>3, <1>4 DEF PoolEntry
<1>6. DOMAIN kept = DOMAIN pools /\ kept = [i \in DOMAIN pools |-> kept[i]]
  OBVIOUS
<1> HIDE DEF kept
<1>7. kept \in Seq(PoolEntry)
  <2>1. kept \in [1..Len(pools) -> PoolEntry]
    BY <1>2, <1>5, <1>6
  <2> QED
    BY <1>2, <2>1
<1>8. (\A i \in DOMAIN pools : ToSet(pools[i].members) \subseteq ToSet(ids)) => kept = pools
  BY <1>2, <1>5, <1>6
<1>9. <<"realtime", "background">> \in Seq(STRING)
      /\ ToSet(<<"realtime", "background">>) = {"realtime", "background"}
  BY ChoicesAreText DEF ToSet
<1>10. absent \in Seq(STRING)
       /\ ({"realtime", "background"} \subseteq {pools[i].pool : i \in DOMAIN pools} => absent = <<>>)
  BY <1>9, WithoutKeeps DEF AbsentPools
<1> HIDE DEF absent
<1>11. id \in ProviderIds
  BY ActiveIsKnown
<1> HIDE DEF id
<1>12. \A i \in DOMAIN absent : more[i] \in PoolEntry
  <2> TAKE i \in DOMAIN absent
  <2>1. absent[i] \in STRING /\ more[i] = DefaultPool(absent[i], id)
    BY <1>10
  <2> QED
    BY <1>11, <2>1, DefaultPoolEntry
<1>13. more \in Seq(PoolEntry) /\ Len(more) = Len(absent)
  <2>1. Len(absent) \in Nat /\ DOMAIN absent = 1..Len(absent)
    BY <1>10
  <2>2. more \in [1..Len(absent) -> PoolEntry]
    BY <1>12, <2>1
  <2> QED
    BY <2>1, <2>2
<1>14. absent = <<>> => more = <<>>
  <2> HIDE DEF more
  <2> QED
    BY <1>13
<1> HIDE DEF more
<1>15. kept \o more \in Seq(PoolEntry) /\ kept \o <<>> = kept
  BY <1>7, <1>13, JoinedKeep
<1> QED
  BY <1>1, <1>8, <1>10, <1>14, <1>15

(* A column joins a layout. *)
WithColumn(s, c, i) ==
    IF s = <<>> \/ c \in ToSet(s) THEN s ELSE InsertAt(s, IF i <= Len(s) THEN i ELSE Len(s) + 1, c)

(* A column that joins the order of columns. *)
LEMMA ColumnJoins ==
    ASSUME NEW s \in Seq(STRING), NEW c \in STRING, NEW i \in Nat \ {0}
    PROVE  WithColumn(s, c, i) \in Seq(STRING) /\ (c \in ToSet(s) => WithColumn(s, c, i) = s)
<1> DEFINE n == IF i <= Len(s) THEN i ELSE Len(s) + 1
<1>1. n \in 1..(Len(s) + 1)
  OBVIOUS
<1> HIDE DEF n
<1>5. SubSeq(s, 1, n - 1) \in Seq(STRING)
  <2>1. 1 \in Int /\ n - 1 \in Int /\ \A k \in 1..(n - 1) : s[k] \in STRING
    BY <1>1
  <2> QED
    BY <2>1, SubSeqProperties
<1>6. SubSeq(s, n, Len(s)) \in Seq(STRING)
  <2>1. n \in Int /\ Len(s) \in Int /\ \A k \in n..Len(s) : s[k] \in STRING
    BY <1>1
  <2> QED
    BY <2>1, SubSeqProperties
<1>2. SubSeq(s, 1, n - 1) \in Seq(STRING) /\ SubSeq(s, n, Len(s)) \in Seq(STRING) /\ <<c>> \in Seq(STRING)
  BY <1>5, <1>6, OneElement
<1>3. InsertAt(s, n, c) = SubSeq(s, 1, n - 1) \o <<c>> \o SubSeq(s, n, Len(s))
  BY DEF InsertAt
<1>4. InsertAt(s, n, c) \in Seq(STRING)
  <2> DEFINE a == SubSeq(s, 1, n - 1)
             b == SubSeq(s, n, Len(s))
  <2> HIDE DEF a, b
  <2>1. a \o <<c>> \in Seq(STRING)
    BY <1>2, JoinedKeep DEF a
  <2>2. (a \o <<c>>) \o b \in Seq(STRING)
    BY <1>2, <2>1, JoinedKeep DEF b
  <2> QED
    BY <1>3, <2>2 DEF a, b
<1> QED
  BY <1>4 DEF WithColumn, n

(* The migration of the order of columns leaves one with all columns       *)
(* alone.                                                                  *)
LEMMA ColumnsMigrate ==
    ASSUME NEW s \in Seq(STRING)
    PROVE  /\ MigrateColumns(s) \in Seq(STRING)
           /\ {"order", "queued"} \subseteq ToSet(s) => MigrateColumns(s) = s
<1> DEFINE t == WithColumn(s, "order", 2)
<1>1. MigrateColumns(s) = WithColumn(t, "queued", 3)
  BY Zenon DEF MigrateColumns, WithColumn
<1>2. "order" \in STRING /\ "queued" \in STRING /\ 2 \in Nat \ {0} /\ 3 \in Nat \ {0}
  BY ChoicesAreText
<1>3. t \in Seq(STRING) /\ ("order" \in ToSet(s) => t = s)
  BY <1>2, ColumnJoins
<1> HIDE DEF t
<1>4. WithColumn(t, "queued", 3) \in Seq(STRING) /\ ("queued" \in ToSet(t) => WithColumn(t, "queued", 3) = t)
  BY <1>2, <1>3, ColumnJoins
<1> QED
  BY <1>1, <1>3, <1>4

(* The providers of a file: each has an id of its own. *)
Identified(f) ==
    /\ Len(f.providers) <= Len(FreshIds)
    /\ ToSet(f.providers) \cap ToSet(FreshIds) = {}

(* The first part of a load, of a file from outside and of a file the      *)
(* program wrote.                                                          *)
LEMMA MigrateCorrects ==
    ASSUME NEW f \in Options
    PROVE  /\ Identified(f) => Held(Migrate(f)) /\ SameUser(Migrate(f), f)
           /\ Normal(f) => Migrate(f) = f
<1> DEFINE ids == MigrateProviders(f.providers)
           pools == MigratePools(f.pools, ids, f.active)
           kinds == MigrateKinds(f.kinds, f.legacyOff)
           cols == MigrateColumns(f.order)
           q == [f EXCEPT !.version = CurrentVersion, !.providers = ids, !.pools = pools,
                          !.kinds = kinds, !.legacyOff = FALSE, !.order = cols]
<1>0. q = Migrate(f)
  BY Zenon DEF Migrate
<1>1. /\ f.providers \in Seq(ProviderIds \cup {Nil}) /\ f.active \in Number /\ f.pools \in Seq(PoolEntry)
      /\ f.kinds \in Seq(Kind) /\ f.legacyOff \in BOOLEAN /\ f.order \in Seq(STRING)
  BY DEF Options
<1>2. /\ kinds \in Seq(Kind)
      /\ (~f.legacyOff /\ KindsOf(f.kinds) = KindsOf(DefaultKinds)) => kinds = f.kinds
  BY <1>1, KindsMigrate
<1>3. cols \in Seq(STRING) /\ ({"order", "queued"} \subseteq ToSet(f.order) => cols = f.order)
  BY <1>1, ColumnsMigrate
<1> HIDE DEF kinds, cols
<1>4. CurrentVersion \in Nat
  BY VersionIsPositive
<1>5. ASSUME Identified(f) PROVE Held(q) /\ SameUser(q, f)
  <2>1. FreshIds[1] \in ProviderIds /\ FreshIds[1] # Nil
    <3>1. FreshIds \in Seq(ProviderIds) /\ FreshIds # <<>>
      BY ProvidersAreKnown
    <3> QED
      BY <3>1, ProvidersAreKnown
  <2>2. ids \in Seq(ProviderIds \cup {Nil}) /\ ids # <<>> /\ Distinct(ids) /\ Nil \notin ToSet(ids)
    <3>1. CASE f.providers = <<>>
      <4>1. ids = <<FreshIds[1]>>
        BY <3>1 DEF MigrateProviders
      <4> HIDE DEF ids
      <4> QED
        BY <2>1, <4>1 DEF Distinct, ToSet
    <3>2. CASE f.providers # <<>>
      <4>1. ids = UniqueIds(f.providers)
        BY <3>2 DEF MigrateProviders
      <4>2. /\ UniqueIds(f.providers) \in Seq(ProviderIds \cup {Nil})
            /\ Len(UniqueIds(f.providers)) = Len(f.providers)
            /\ Distinct(UniqueIds(f.providers)) /\ Nil \notin ToSet(UniqueIds(f.providers))
        BY <1>1, <1>5, UniqueIdsAreDistinct DEF Identified
      <4>3. Len(f.providers) # 0
        BY <1>1, <3>2
      <4> HIDE DEF ids
      <4> QED
        BY <4>1, <4>2, <4>3
    <3> QED
      BY <3>1, <3>2
  <2> HIDE DEF ids
  <2>3. pools \in Seq(PoolEntry)
    BY <1>1, <2>2, PoolsMigrate
  <2> HIDE DEF pools
  <2>4. q \in Options /\ q.providers = ids /\ ~q.legacyOff
    BY <1>2, <1>3, <1>4, <2>2, <2>3 DEF Options
  <2>5. SameUser(q, f)
    BY DEF Options, SameUser
  <2> HIDE DEF q
  <2> QED
    BY <2>2, <2>4, <2>5 DEF Held
<1>6. ASSUME Normal(f) PROVE q = f
  <2>1. ids = f.providers
    <3>1. f.providers # <<>> /\ Distinct(f.providers) /\ Nil \notin ToSet(f.providers)
      BY <1>6 DEF Normal, ProvidersNormal
    <3> QED
      BY <1>1, <3>1, UniqueLeavesDistinct DEF MigrateProviders
  <2> HIDE DEF ids
  <2>2. pools = f.pools
    <3>1. f.providers # <<>> /\ Nil \notin ToSet(f.providers)
      BY <1>6 DEF Normal, ProvidersNormal
    <3>2. Len(f.pools) = 2 /\ PoolNormal(f.pools[1], "realtime", ToSet(f.providers))
          /\ PoolNormal(f.pools[2], "background", ToSet(f.providers))
      BY <1>6 DEF Normal, PoolsNormal
    <3>3. DOMAIN f.pools = {1, 2}
      BY <1>1, <3>2
    <3>4. {"realtime", "background"} \subseteq {f.pools[i].pool : i \in DOMAIN f.pools}
      BY <3>2, <3>3 DEF PoolNormal
    <3>5. \A i \in DOMAIN f.pools : ToSet(f.pools[i].members) \subseteq ToSet(f.providers)
      BY <3>2, <3>3 DEF PoolNormal
    <3> QED
      BY <1>1, <2>1, <3>1, <3>4, <3>5, PoolsMigrate
  <2> HIDE DEF pools
  <2>3. kinds = f.kinds /\ ~f.legacyOff
    BY <1>2, <1>6 DEF Normal, LayoutNormal
  <2>4. cols = f.order
    <3>1. ToSet(f.order) = ToSet(DefaultOrder)
      BY <1>6 DEF Normal, LayoutNormal
    <3> QED
      BY <1>3, <3>1, DefaultLayouts
  <2>5. f.version = CurrentVersion /\ f.legacyOff = FALSE
    BY <1>1, <1>6, <2>3 DEF Normal
  <2>6. q = [f EXCEPT !.version = f.version, !.providers = f.providers, !.pools = f.pools,
                          !.kinds = f.kinds, !.legacyOff = f.legacyOff, !.order = f.order]
    BY <2>1, <2>2, <2>3, <2>4, <2>5, Zenon
  <2> HIDE DEF q
  <2> QED
    BY <2>6 DEF Options
<1> QED
  BY <1>0, <1>5, <1>6

(* The options without a file. *)
LEMMA DefaultsAreNormal ==
    ASSUME NEW sim \in BOOLEAN, NEW url \in Urls, NEW pw \in Word
    PROVE  LET q == DefaultOptions(sim, url, pw)
           IN  Normal(q) /\ q.sim = sim /\ q.url = url /\ q.pw = pw
<1> DEFINE o == [version |-> CurrentVersion, port |-> Nil, channel |-> "stable", batch |-> Nil,
                 perRequest |-> Nil, auto |-> Nil, review |-> Nil,
                 tags |-> DefaultTags, policies |-> <<>>, order |-> <<>>, providers |-> <<>>, active |-> 0,
                 pools |-> <<>>, kinds |-> <<>>, legacyOff |-> FALSE,
                 sim |-> sim, url |-> url, pw |-> pw]
<1>1. Validate(o) = DefaultOptions(sim, url, pw)
  BY Zenon DEF DefaultOptions
<1>2. /\ CurrentVersion \in Nat /\ Nil \in Number /\ 0 \in Number /\ DefaultTags \in Seq(Spellings)
      /\ "stable" \in STRING /\ FALSE \in BOOLEAN
  BY VersionIsPositive, TagsAreNormal, ChoicesAreText DEF Number
<1>3. <<>> \in Seq(TagPolicy) /\ <<>> \in Seq(STRING) /\ <<>> \in Seq(ProviderIds \cup {Nil})
      /\ <<>> \in Seq(PoolEntry) /\ <<>> \in Seq(Kind)
  OBVIOUS
<1>4. o \in Options
  BY <1>2, <1>3 DEF Options, Word
<1>5. ~o.legacyOff /\ o.providers = <<>> /\ o.sim = sim /\ o.url = url /\ o.pw = pw
  OBVIOUS
<1> HIDE DEF o
<1>6. Held(o)
  BY <1>4, <1>5 DEF Held, Distinct, ToSet
<1>7. Normal(Validate(o)) /\ SameUser(Validate(o), o)
  BY <1>6, ValidateCorrects
<1> QED
  BY <1>1, <1>5, <1>7 DEF SameUser

(* The secret, the simulation mode and the URL do not matter to the rest.  *)
LEMMA UserFieldsAreFree ==
    ASSUME NEW o, Normal(o), NEW q \in Options, SameBut(q, o, {"sim", "url", "pw"})
    PROVE  Normal(q)
<1>1. /\ q.version = o.version /\ q.legacyOff = o.legacyOff /\ q.channel = o.channel /\ q.port = o.port
      /\ q.batch = o.batch /\ q.perRequest = o.perRequest /\ q.auto = o.auto /\ q.review = o.review
      /\ q.tags = o.tags /\ q.policies = o.policies /\ q.order = o.order /\ q.kinds = o.kinds
      /\ q.providers = o.providers /\ q.active = o.active /\ q.pools = o.pools
  BY DEF SameBut, Fields
<1>2. NumbersNormal(q) /\ TagsNormal(q)
  BY <1>1 DEF Normal, NumbersNormal, TagsNormal
<1>3. LayoutNormal(q) /\ ProvidersNormal(q) /\ PoolsNormal(q)
  BY <1>1 DEF Normal, LayoutNormal, ProvidersNormal, PoolsNormal
<1> QED
  BY <1>1, <1>2, <1>3 DEF Normal

(* The secret is not corrected: options with another one have nothing to   *)
(* correct either.                                                         *)
LEMMA SecretIsFree ==
    ASSUME NEW o, Normal(o), NEW v \in Word
    PROVE  /\ Normal([o EXCEPT !.pw = v]) /\ [o EXCEPT !.pw = v].pw = v
           /\ [o EXCEPT !.pw = v].sim = o.sim /\ [o EXCEPT !.pw = v].url = o.url
<1> DEFINE q == [o EXCEPT !.pw = v]
<1>1. o \in Options
  BY DEF Normal
<1>2. q \in Options /\ q.pw = v /\ q.sim = o.sim /\ q.url = o.url
      /\ SameBut(q, o, {"sim", "url", "pw"})
  BY <1>1 DEF Options, SameBut, Fields, Word
<1> HIDE DEF q
<1>3. Normal(q)
  BY <1>2, UserFieldsAreFree
<1> QED
  BY <1>2, <1>3 DEF q

(* Nor is the simulation mode. *)
LEMMA SimulationIsFree ==
    ASSUME NEW o, Normal(o), NEW v \in BOOLEAN
    PROVE  /\ Normal([o EXCEPT !.sim = v]) /\ [o EXCEPT !.sim = v].sim = v
           /\ [o EXCEPT !.sim = v].url = o.url /\ [o EXCEPT !.sim = v].pw = o.pw
<1> DEFINE q == [o EXCEPT !.sim = v]
<1>1. o \in Options
  BY DEF Normal
<1>2. q \in Options /\ q.sim = v /\ q.url = o.url /\ q.pw = o.pw
      /\ SameBut(q, o, {"sim", "url", "pw"})
  BY <1>1 DEF Options, SameBut, Fields, Word
<1> HIDE DEF q
<1>3. Normal(q)
  BY <1>2, UserFieldsAreFree
<1> QED
  BY <1>2, <1>3 DEF q

(* Nor is the URL. *)
LEMMA UrlIsFree ==
    ASSUME NEW o, Normal(o), NEW v \in Urls
    PROVE  /\ Normal([o EXCEPT !.url = v]) /\ [o EXCEPT !.url = v].url = v
           /\ [o EXCEPT !.url = v].sim = o.sim /\ [o EXCEPT !.url = v].pw = o.pw
<1> DEFINE q == [o EXCEPT !.url = v]
<1>1. o \in Options
  BY DEF Normal
<1>2. q \in Options /\ q.url = v /\ q.sim = o.sim /\ q.pw = o.pw
      /\ SameBut(q, o, {"sim", "url", "pw"})
  BY <1>1 DEF Options, SameBut, Fields, Word
<1> HIDE DEF q
<1>3. Normal(q)
  BY <1>2, UserFieldsAreFree
<1> QED
  BY <1>2, <1>3 DEF q

(* Nothing left to correct, and held. *)
LEMMA NormalIsHeld ==
    ASSUME NEW o, Normal(o)
    PROVE  /\ Held(o) /\ o \in Options /\ o.pw \in Word /\ o.sim \in BOOLEAN /\ o.url \in Urls
           /\ o \notin {Absent, Corrupt, Nil} /\ ~Newer(o)
<1>1. o \in Options /\ o.version = CurrentVersion /\ ~o.legacyOff
  BY DEF Normal
<1>2. Distinct(o.providers) /\ Nil \notin ToSet(o.providers)
  BY DEF Normal, ProvidersNormal
<1>3. o.pw \in Word /\ o.sim \in BOOLEAN /\ o.url \in Urls
  BY <1>1 DEF Options, Word
<1>4. o \notin {Absent, Corrupt, Nil}
  BY <1>1, ValuesAreDistinct
<1>5. ~Newer(o)
  BY <1>1, VersionIsPositive DEF Newer
<1> QED
  BY <1>1, <1>2, <1>3, <1>4, <1>5 DEF Held

(* Options the page may sort: typed, no provider unnamed. *)
Loose(o) == o \in Options /\ ~o.legacyOff /\ Nil \notin ToSet(o.providers)

(* Showing a provider sorts the providers and loses none. *)
LEMMA ShowKeeps ==
    ASSUME NEW o, Loose(o), NEW id \in ToSet(o.providers)
    PROVE  LET q == ShowProvider(o, id)
           IN  /\ Held(q) /\ SameUser(q, o) /\ ToSet(q.providers) = ToSet(o.providers)
               /\ Normal(o) => Normal(q)
<1> DEFINE ids == Sorted(o.providers)
           n == CHOOSE k \in DOMAIN ids : ids[k] = id
           a == n - 1
           q == [o EXCEPT !.providers = ids, !.active = a]
<1>1. q = ShowProvider(o, id)
  BY DEF ShowProvider
<1>2. o \in Options /\ o.providers \in Seq(ProviderIds \cup {Nil}) /\ ~o.legacyOff /\ Nil \notin ToSet(o.providers)
  BY DEF Loose, Options
<1>3. NameOrder \in Seq(ProviderIds) /\ Distinct(NameOrder) /\ ToSet(NameOrder) = ProviderIds /\ Nil \notin ProviderIds
  BY ProvidersAreKnown DEF ProviderIds
<1>4. /\ ids \in Seq(ProviderIds) /\ ToSet(ids) = ToSet(NameOrder) \cap ToSet(o.providers)
      /\ Distinct(ids)
  BY <1>3, ThoseKeep DEF Sorted
<1>5. ToSet(o.providers) \subseteq ProviderIds
  <2>1. ToSet(o.providers) \in SUBSET (ProviderIds \cup {Nil})
    BY <1>2, ElementsAt
  <2> QED
    BY <1>2, <2>1
<1>6. ToSet(ids) = ToSet(o.providers)
  BY <1>3, <1>4, <1>5
<1> HIDE DEF ids
<1>7. ids \in Seq(ProviderIds \cup {Nil}) /\ DOMAIN ids = 1..Len(ids) /\ Len(ids) \in Nat
  BY <1>4
<1>8. \E k \in DOMAIN ids : ids[k] = id
  BY <1>4, <1>6, ElementsAt
<1>9. n \in DOMAIN ids /\ ids[n] = id
  BY <1>8, Zenon
<1> HIDE DEF n
<1>10. a \in 0..(Len(ids) - 1) /\ a \in Number /\ ids # <<>>
  BY <1>7, <1>9 DEF Number
<1> HIDE DEF a
<1>11. q \in Options /\ q.providers = ids /\ q.active = a /\ q.legacyOff = o.legacyOff
  BY <1>2, <1>7, <1>10 DEF Options
<1>12. SameBut(q, o, {"providers", "active"})
  BY <1>2 DEF Options, SameBut, Fields
<1> HIDE DEF q
<1>13. /\ SameUser(q, o) /\ q.version = o.version /\ q.channel = o.channel /\ q.port = o.port
       /\ q.batch = o.batch /\ q.perRequest = o.perRequest /\ q.auto = o.auto /\ q.review = o.review
       /\ q.tags = o.tags /\ q.policies = o.policies /\ q.order = o.order /\ q.kinds = o.kinds
       /\ q.pools = o.pools
  BY <1>12 DEF SameUser, SameBut, Fields
<1>14. Held(q)
  BY <1>2, <1>4, <1>6, <1>11 DEF Held
<1>15. Normal(o) => Normal(q)
  <2> SUFFICES ASSUME Normal(o) PROVE Normal(q)
    OBVIOUS
  <2>2. NumbersNormal(q) /\ TagsNormal(q) /\ LayoutNormal(q)
    BY <1>13 DEF Normal, NumbersNormal, TagsNormal, LayoutNormal
  <2>3. ProvidersNormal(q)
    BY <1>2, <1>4, <1>6, <1>10, <1>11 DEF ProvidersNormal
  <2>4. PoolsNormal(q)
    BY <1>6, <1>11, <1>13 DEF Normal, PoolsNormal
  <2> QED
    BY <1>2, <1>11, <1>13, <2>2, <2>3, <2>4 DEF Normal
<1> QED
  BY <1>1, <1>6, <1>11, <1>13, <1>14, <1>15

(* What the pages of the Settings tab make of its options can be held. *)
LEMMA AppendLoose ==
    ASSUME NEW o, Loose(o), NEW id \in ProviderIds
    PROVE  LET q == [o EXCEPT !.providers = Append(@, id)]
           IN  Loose(q) /\ SameUser(q, o) /\ id \in ToSet(q.providers)
<1> DEFINE ids == Append(o.providers, id)
           q == [o EXCEPT !.providers = ids]
<1>1. o \in Options /\ o.providers \in Seq(ProviderIds \cup {Nil}) /\ ~o.legacyOff /\ Nil \notin ToSet(o.providers)
  BY DEF Loose, Options
<1>2. ids \in Seq(ProviderIds \cup {Nil}) /\ Len(ids) = Len(o.providers) + 1 /\ ids[Len(ids)] = id
      /\ \A k \in 1..Len(o.providers) : ids[k] = o.providers[k]
  BY <1>1
<1> HIDE DEF ids
<1>3. \A k \in DOMAIN ids : k \in 1..Len(o.providers) \/ ids[k] = id
  BY <1>1, <1>2
<1>4. Nil \notin ToSet(ids)
  <2>1. \A k \in 1..Len(o.providers) : o.providers[k] # Nil
    BY <1>1 DEF ToSet
  <2>2. id # Nil
    BY ProvidersAreKnown
  <2> QED
    BY <1>2, <1>3, <2>1, <2>2 DEF ToSet
<1>5. id \in ToSet(ids)
  BY <1>1, <1>2 DEF ToSet
<1>6. q \in Options /\ q.providers = ids /\ q.legacyOff = o.legacyOff /\ SameUser(q, o)
  BY <1>1, <1>2 DEF Options, SameUser
<1> QED
  BY <1>1, <1>4, <1>5, <1>6 DEF Loose, ids

(* Options that can be saved can be shown. *)
LEMMA HeldIsLoose ==
    ASSUME NEW o, Held(o)
    PROVE  Loose(o)
BY DEF Held, Loose

(* A provider the user adds leaves options that can be saved. *)
LEMMA WithProviderHeld ==
    ASSUME NEW o, Held(o)
    PROVE  Held(WithProvider(o)) /\ SameUser(WithProvider(o), o)
<1> DEFINE q == [o EXCEPT !.providers = Append(@, NewProvider)]
<1>1. NewProvider \in ProviderIds
  BY ProvidersAreKnown
<1>2. Loose(q) /\ SameUser(q, o) /\ NewProvider \in ToSet(q.providers)
  BY <1>1, HeldIsLoose, AppendLoose
<1>3. WithProvider(o) = ShowProvider(q, NewProvider)
  BY DEF WithProvider
<1> HIDE DEF q
<1>4. Held(ShowProvider(q, NewProvider)) /\ SameUser(ShowProvider(q, NewProvider), q)
  BY <1>2, ShowKeeps
<1> QED
  BY <1>2, <1>3, <1>4 DEF SameUser

(* Settings that are neither providers nor the user's modes. *)
LEMMA NumbersHeld ==
    ASSUME NEW o, Held(o), NEW b \in Number, NEW r \in Number, NEW a \in Number
    PROVE  LET p == [o EXCEPT !.batch = b, !.perRequest = r]
               q == [o EXCEPT !.batch = b, !.perRequest = r, !.auto = a]
           IN  Held(p) /\ SameUser(p, o) /\ Held(q) /\ SameUser(q, o)
<1> DEFINE p == [o EXCEPT !.batch = b, !.perRequest = r]
           q == [o EXCEPT !.batch = b, !.perRequest = r, !.auto = a]
<1>1. o \in Options /\ ~o.legacyOff /\ Distinct(o.providers) /\ Nil \notin ToSet(o.providers)
  BY DEF Held
<1>2. p \in Options /\ p.legacyOff = o.legacyOff /\ p.providers = o.providers /\ SameUser(p, o)
  BY <1>1 DEF Options, SameUser
<1>3. q \in Options /\ q.legacyOff = o.legacyOff /\ q.providers = o.providers /\ SameUser(q, o)
  BY <1>1 DEF Options, SameUser
<1> HIDE DEF p, q
<1>4. Held(p) /\ Held(q)
  BY <1>1, <1>2, <1>3 DEF Held
<1> QED
  BY <1>2, <1>3, <1>4 DEF p, q

(* So do edited pools. *)
LEMMA PoolsHeld ==
    ASSUME NEW o, Held(o), NEW pools \in Seq(PoolEntry)
    PROVE  LET q == [o EXCEPT !.pools = pools]
           IN  Held(q) /\ SameUser(q, o) /\ q.providers = o.providers
<1> DEFINE q == [o EXCEPT !.pools = pools]
<1>1. o \in Options /\ ~o.legacyOff /\ Distinct(o.providers) /\ Nil \notin ToSet(o.providers)
  BY DEF Held
<1>2. q \in Options /\ q.legacyOff = o.legacyOff /\ q.providers = o.providers /\ SameUser(q, o)
  BY <1>1 DEF Options, SameUser
<1> HIDE DEF q
<1>3. Held(q)
  BY <1>1, <1>2 DEF Held
<1> QED
  BY <1>2, <1>3 DEF q

(* So does an edited secret. *)
LEMMA SecretHeld ==
    ASSUME NEW o, Held(o), NEW pw \in Word
    PROVE  LET q == [o EXCEPT !.pw = pw]
           IN  Held(q) /\ q.sim = o.sim /\ q.url = o.url /\ q.pw = pw
<1> DEFINE q == [o EXCEPT !.pw = pw]
<1>1. o \in Options /\ ~o.legacyOff /\ Distinct(o.providers) /\ Nil \notin ToSet(o.providers)
  BY DEF Held
<1>2. q \in Options /\ q.legacyOff = o.legacyOff /\ q.providers = o.providers
      /\ q.sim = o.sim /\ q.url = o.url /\ q.pw = pw
  BY <1>1 DEF Options, Word
<1> HIDE DEF q
<1>3. Held(q)
  BY <1>1, <1>2 DEF Held
<1> QED
  BY <1>2, <1>3 DEF q

(* A pool the page writes. *)
LEMMA EditedPool ==
    ASSUME NEW o, Held(o), NEW i \in DOMAIN o.pools, NEW m \in ProviderIds
    PROVE  LET q == [o EXCEPT !.pools[i].members = <<m>>, !.pools[i].mode = "compare"]
           IN  Held(q) /\ SameUser(q, o)
<1> DEFINE e == [[o.pools[i] EXCEPT !.members = <<m>>] EXCEPT !.mode = "compare"]
           pools == [o.pools EXCEPT ![i] = e]
           q == [o EXCEPT !.pools = pools]
<1>1. o \in Options
  BY DEF Held
<1>2. o.pools \in Seq(PoolEntry)
  BY <1>1 DEF Options
<1>3. o.pools[i] \in PoolEntry
  BY <1>2
<1>4. <<m>> \in Seq(ProviderIds) /\ "compare" \in STRING
  BY OneElement, ChoicesAreText
<1>5. e \in PoolEntry
  BY <1>3, <1>4 DEF PoolEntry
<1>6. pools \in Seq(PoolEntry)
  <2> HIDE DEF e
  <2> QED
    BY <1>2, <1>5
<1>7. [o EXCEPT !.pools[i].members = <<m>>, !.pools[i].mode = "compare"] = q
  BY <1>1, <1>2, <1>3 DEF Options, PoolEntry
<1> HIDE DEF pools
<1> QED
  BY <1>6, <1>7, PoolsHeld

(* A provider and its memberships go. *)
LEMMA Removal ==
    ASSUME NEW ids \in Seq(ProviderIds \cup {Nil}), Len(ids) > 1, NEW n \in 1..Len(ids), Nil \notin ToSet(ids)
    PROVE  LET rest == RemoveAt(ids, n)
               k == IF n <= Len(rest) THEN n ELSE Len(rest)
           IN  /\ rest \in Seq(ProviderIds \cup {Nil}) /\ Nil \notin ToSet(rest)
               /\ rest[k] \in ToSet(rest)
<1> DEFINE a == SubSeq(ids, 1, n - 1)
           b == SubSeq(ids, n + 1, Len(ids))
           rest == a \o b
           k == IF n <= Len(rest) THEN n ELSE Len(rest)
           S == ProviderIds
<1>0. RemoveAt(ids, n) = rest
  BY DEF RemoveAt
<1>1. \A i \in 1..Len(ids) : ids[i] \in S
  <2>1. \A i \in 1..Len(ids) : ids[i] \in ProviderIds \cup {Nil} /\ ids[i] \in ToSet(ids)
    BY ElementsAt
  <2> QED
    BY <2>1
<1>2. /\ n \in Int /\ n - 1 \in Int /\ n + 1 \in Int /\ Len(ids) \in Int /\ 1 \in Int
      /\ \A i \in 1..(n - 1) : i \in 1..Len(ids)
      /\ \A i \in (n + 1)..Len(ids) : i \in 1..Len(ids)
  OBVIOUS
<1>3. a \in Seq(S) /\ Len(a) = IF 1 <= n - 1 THEN (n - 1) - 1 + 1 ELSE 0
  BY <1>1, <1>2, SubSeqProperties
<1>4. b \in Seq(S) /\ Len(b) = IF n + 1 <= Len(ids) THEN Len(ids) - (n + 1) + 1 ELSE 0
  BY <1>1, <1>2, SubSeqProperties
<1> HIDE DEF a, b
<1>5. rest \in Seq(S) /\ Len(rest) = Len(ids) - 1
  BY <1>3, <1>4
<1> HIDE DEF rest
<1>6. k \in DOMAIN rest
  BY <1>5
<1>7. ToSet(rest) \in SUBSET S /\ rest[k] \in ToSet(rest)
  BY <1>5, <1>6, ElementsAt
<1>8. Nil \notin ToSet(rest)
  BY <1>7, ProvidersAreKnown
<1>9. rest \in Seq(ProviderIds \cup {Nil})
  BY <1>5
<1> QED
  BY <1>0, <1>7, <1>8, <1>9

(* So does the removal of the provider of the form. *)
LEMMA RemovedHeld ==
    ASSUME NEW o, Normal(o), Len(o.providers) > 1
    PROVE  Held(WithoutShown(o)) /\ SameUser(WithoutShown(o), o)
<1> DEFINE n == o.active + 1
           out == o.providers[n]
           rest == RemoveAt(o.providers, n)
           k == IF n <= Len(rest) THEN n ELSE Len(rest)
           pools == [i \in DOMAIN o.pools |-> [o.pools[i] EXCEPT !.members = Without(o.pools[i].members, {out})]]
           p == [o EXCEPT !.providers = rest, !.pools = pools]
           q == ShowProvider(p, rest[k])
<1>0. q = WithoutShown(o)
  BY Zenon DEF WithoutShown
<1>1. o \in Options /\ ~o.legacyOff /\ ProvidersNormal(o)
  BY DEF Normal
<1>2. o.providers \in Seq(ProviderIds \cup {Nil}) /\ o.pools \in Seq(PoolEntry)
  BY <1>1 DEF Options
<1>3. n \in 1..Len(o.providers) /\ Nil \notin ToSet(o.providers)
  BY <1>1, <1>2 DEF ProvidersNormal
<1> HIDE DEF n
<1>4. rest \in Seq(ProviderIds \cup {Nil}) /\ Nil \notin ToSet(rest) /\ rest[k] \in ToSet(rest)
  BY <1>2, <1>3, Removal
<1> HIDE DEF rest, k, out
<1>5. pools \in Seq(PoolEntry)
  <2>1. Len(o.pools) \in Nat /\ DOMAIN o.pools = 1..Len(o.pools) /\ \A i \in DOMAIN o.pools : o.pools[i] \in PoolEntry
    BY <1>2
  <2>2. \A i \in DOMAIN o.pools : o.pools[i].members \in Seq(ProviderIds)
    BY <2>1 DEF PoolEntry
  <2>3. \A i \in DOMAIN o.pools : Without(o.pools[i].members, {out}) \in Seq(ProviderIds)
    BY <2>2, WithoutKeeps
  <2>4. \A i \in DOMAIN o.pools : pools[i] \in PoolEntry
    BY <2>1, <2>3 DEF PoolEntry
  <2>5. pools \in [1..Len(o.pools) -> PoolEntry]
    BY <2>1, <2>4
  <2> HIDE DEF pools
  <2> QED
    BY <2>1, <2>5
<1> HIDE DEF pools
<1>6. p \in Options /\ p.providers = rest /\ p.legacyOff = o.legacyOff /\ SameUser(p, o)
  BY <1>1, <1>4, <1>5 DEF Options, SameUser
<1> HIDE DEF p
<1>7. Loose(p) /\ rest[k] \in ToSet(p.providers)
  BY <1>1, <1>4, <1>6 DEF Loose
<1>8. Held(q) /\ SameUser(q, p)
  BY <1>7, ShowKeeps
<1>9. SameUser(q, o)
  BY <1>6, <1>8 DEF SameUser
<1> QED
  BY <1>0, <1>8, <1>9

-----------------------------------------------------------------------------
(* The registry of instances.                                              *)

Entry == [id : Instances, url : Urls]

(* Each instance is there once and one of them is active. *)
RegistryOK(r) ==
    /\ r \in Registry /\ r.active \in InstancesOf(r)
    /\ \A m, n \in DOMAIN r.list : r.list[m].id = r.list[n].id => m = n

Lists(r, url) == \E n \in DOMAIN r.list : r.list[n].url = url

(* A registry, by its entries. *)
LEMMA RegistryEntries ==
    ASSUME NEW r \in Registry
    PROVE  /\ r.active \in Instances /\ r.list \in Seq(Entry)
           /\ Len(r.list) \in Nat /\ DOMAIN r.list = 1..Len(r.list)
           /\ \A n \in DOMAIN r.list : r.list[n] \in Entry /\ r.list[n].id \in Instances /\ r.list[n].url \in Urls
           /\ \A i : i \in InstancesOf(r) <=> \E n \in DOMAIN r.list : r.list[n].id = i
<1>1. r.active \in Instances /\ r.list \in Seq(Entry)
  BY DEF Registry, Entry
<1>2. Len(r.list) \in Nat /\ DOMAIN r.list = 1..Len(r.list) /\ \A n \in DOMAIN r.list : r.list[n] \in Entry
  BY <1>1
<1>3. \A n \in DOMAIN r.list : r.list[n].id \in Instances /\ r.list[n].url \in Urls
  BY <1>2 DEF Entry
<1>4. DOMAIN NamesOf(r) = DOMAIN r.list /\ \A n \in DOMAIN r.list : NamesOf(r)[n] = r.list[n].id
  BY DEF NamesOf
<1>5. \A i : i \in InstancesOf(r) <=> \E n \in DOMAIN r.list : r.list[n].id = i
  BY <1>4 DEF InstancesOf, ToSet
<1> QED
  BY <1>1, <1>2, <1>3, <1>5

(* A registry is one when its parts are. *)
LEMMA RegistryParts ==
    ASSUME NEW a \in Instances, NEW list \in Seq(Entry), NEW k \in DOMAIN list, list[k].id = a,
           \A m, n \in DOMAIN list : list[m].id = list[n].id => m = n
    PROVE  RegistryOK([active |-> a, list |-> list])
<1> DEFINE r == [active |-> a, list |-> list]
<1>1. r \in Registry /\ r.active = a /\ r.list = list
  BY DEF Registry, Entry
<1> HIDE DEF r
<1>2. r.active \in InstancesOf(r)
  BY <1>1, RegistryEntries
<1>3. RegistryOK(r)
  BY <1>1, <1>2 DEF RegistryOK
<1> QED
  BY <1>3 DEF r

(* The URL of an instance that is there once. *)
LEMMA UrlOfEntry ==
    ASSUME NEW r, RegistryOK(r), NEW k \in DOMAIN r.list
    PROVE  UrlOf(r, r.list[k].id) = r.list[k].url
<1> DEFINE n == CHOOSE n \in DOMAIN r.list : r.list[n].id = r.list[k].id
<1>1. n \in DOMAIN r.list /\ r.list[n].id = r.list[k].id
  BY Zenon
<1>2. UrlOf(r, r.list[k].id) = r.list[n].url
  BY DEF UrlOf
<1> HIDE DEF n
<1> QED
  BY <1>1, <1>2 DEF RegistryOK

(* The active instance has a URL, and the registry lists it. *)
LEMMA UrlOfActive ==
    ASSUME NEW r, RegistryOK(r)
    PROVE  UrlOf(r, r.active) \in Urls /\ Lists(r, UrlOf(r, r.active))
<1>1. r \in Registry /\ r.active \in InstancesOf(r)
  BY DEF RegistryOK
<1>2. PICK k \in DOMAIN r.list : r.list[k].id = r.active
  BY <1>1, RegistryEntries
<1>3. UrlOf(r, r.active) = r.list[k].url
  BY <1>2, UrlOfEntry
<1> QED
  BY <1>1, <1>3, RegistryEntries DEF Lists

(* The first registry has the URL of the options. *)
LEMMA FirstRegistryOK ==
    ASSUME NEW url \in Urls, NEW i \in Instances
    PROVE  LET r == FirstRegistry(url, i)
           IN  RegistryOK(r) /\ UrlOf(r, r.active) = url /\ Lists(r, url)
<1> DEFINE list == <<[id |-> i, url |-> url]>>
           r == [active |-> i, list |-> list]
<1>0. r = FirstRegistry(url, i)
  BY DEF FirstRegistry
<1>2. [id |-> i, url |-> url] \in Entry
  BY DEF Entry
<1>3. list \in Seq(Entry) /\ DOMAIN list = {1} /\ list[1] = [id |-> i, url |-> url]
  BY <1>2
<1>4. list[1].id = i /\ list[1].url = url
  BY <1>3
<1> HIDE DEF list
<1>5. RegistryOK(r)
  BY <1>3, <1>4, RegistryParts
<1>6. r.active = i /\ r.list = list
  OBVIOUS
<1> HIDE DEF r
<1>7. UrlOf(r, r.list[1].id) = r.list[1].url
  BY <1>3, <1>5, <1>6, UrlOfEntry
<1> QED
  BY <1>0, <1>3, <1>4, <1>5, <1>6, <1>7 DEF Lists

(* The registry after it followed the options. *)
LEMMA ReconcileOK ==
    ASSUME NEW r, RegistryOK(r), NEW url \in Urls
    PROVE  LET q == Reconcile(r, url)
           IN  /\ RegistryOK(q)
               /\ UrlOf(q, q.active) = url \/ (q = r /\ ~Lists(r, url))
               /\ \A n : (n \in DOMAIN q.list <=> n \in DOMAIN r.list) /\ (n \in DOMAIN r.list => q.list[n].id = r.list[n].id)
<1>1. r \in Registry /\ r.active \in InstancesOf(r)
  BY DEF RegistryOK
<1>2. /\ r.active \in Instances /\ r.list \in Seq(Entry) /\ Len(r.list) \in Nat /\ DOMAIN r.list = 1..Len(r.list)
      /\ \A n \in DOMAIN r.list : r.list[n] \in Entry /\ r.list[n].id \in Instances
  BY <1>1, RegistryEntries
<1>3. PICK a \in DOMAIN r.list : r.list[a].id = r.active
  BY <1>1, RegistryEntries
<1>4. CASE Lists(r, url)
  <2> DEFINE S == {n \in DOMAIN r.list : r.list[n].url = url}
             k == Min(S)
             q == [active |-> r.list[k].id, list |-> r.list]
  <2>1. S \in SUBSET (1..Len(r.list)) /\ S # {}
    BY <1>2, <1>4 DEF Lists
  <2>2. k \in S
    BY <1>2, <2>1, MinIsLeast
  <2>3. k \in DOMAIN r.list /\ r.list[k].url = url
    BY <2>2
  <2>4. Reconcile(r, url) = [r EXCEPT !.active = r.list[k].id]
    BY <1>4, Zenon DEF Reconcile, Lists
  <2>5. [r EXCEPT !.active = r.list[k].id] = q
    <3> HIDE DEF k
    <3> QED
      BY <1>1 DEF Registry
  <2> HIDE DEF k
  <2>6. RegistryOK(q)
    BY <1>2, <2>3, RegistryParts DEF RegistryOK
  <2>7. q.active = r.list[k].id /\ q.list = r.list
    OBVIOUS
  <2> HIDE DEF q
  <2>8. UrlOf(q, q.list[k].id) = q.list[k].url
    BY <2>3, <2>6, <2>7, UrlOfEntry
  <2> QED
    BY <2>3, <2>4, <2>5, <2>6, <2>7, <2>8
<1>5. CASE ~Lists(r, url) /\ Len(r.list) = 1
  <2> DEFINE e == [r.list[1] EXCEPT !.url = url]
             list == [r.list EXCEPT ![1] = e]
             q == [active |-> r.active, list |-> list]
  <2>1. Reconcile(r, url) = [r EXCEPT !.list[1].url = url]
    BY <1>5, Zenon DEF Reconcile, Lists
  <2>2. DOMAIN r.list = {1} /\ a = 1 /\ r.list[1] \in Entry
    BY <1>2, <1>3, <1>5
  <2>3. e \in Entry /\ e.id = r.list[1].id /\ e.url = url
    BY <2>2 DEF Entry
  <2>4. [r EXCEPT !.list[1].url = url] = q
    BY <1>1, <1>2, <2>2 DEF Registry, Entry
  <2> HIDE DEF e
  <2>5. list \in Seq(Entry) /\ DOMAIN list = {1} /\ list[1] = e
    BY <1>2, <2>2, <2>3
  <2> HIDE DEF list
  <2>6. RegistryOK(q)
    BY <1>2, <1>3, <2>2, <2>3, <2>5, RegistryParts
  <2>7. q.active = r.active /\ q.list = list
    OBVIOUS
  <2> HIDE DEF q
  <2>8. UrlOf(q, q.list[1].id) = q.list[1].url
    BY <2>5, <2>6, <2>7, UrlOfEntry
  <2> QED
    BY <1>3, <2>1, <2>2, <2>3, <2>4, <2>5, <2>6, <2>7, <2>8
<1>6. CASE ~Lists(r, url) /\ Len(r.list) # 1
  <2>1. Reconcile(r, url) = r
    BY <1>6, Zenon DEF Reconcile, Lists
  <2> QED
    BY <1>6, <2>1
<1> QED
  BY <1>4, <1>5, <1>6

(* What the user edits of the instances. *)
LEMMA SelectedOK ==
    ASSUME NEW r, RegistryOK(r), NEW i \in InstancesOf(r)
    PROVE  RegistryOK([r EXCEPT !.active = i]) /\ [r EXCEPT !.active = i].list = r.list
<1> DEFINE q == [active |-> i, list |-> r.list]
<1>1. r \in Registry
  BY DEF RegistryOK
<1>2. PICK k \in DOMAIN r.list : r.list[k].id = i
  BY <1>1, RegistryEntries
<1>3. i \in Instances /\ r.list \in Seq(Entry)
  BY <1>1, <1>2, RegistryEntries
<1>4. [r EXCEPT !.active = i] = q
  BY <1>1 DEF Registry
<1>5. RegistryOK(q)
  BY <1>2, <1>3, RegistryParts DEF RegistryOK
<1> QED
  BY <1>4, <1>5

(* An edited URL leaves a registry. *)
LEMMA EditedUrlOK ==
    ASSUME NEW r, RegistryOK(r), NEW u \in Urls
    PROVE  /\ RegistryOK(WithUrl(r, u))
           /\ \A n \in DOMAIN WithUrl(r, u).list : n \in DOMAIN r.list /\ WithUrl(r, u).list[n].id = r.list[n].id
<1> DEFINE list == [n \in DOMAIN r.list |->
                        IF r.list[n].id = r.active THEN [r.list[n] EXCEPT !.url = u] ELSE r.list[n]]
           q == [active |-> r.active, list |-> list]
<1>1. r \in Registry
  BY DEF RegistryOK
<1>2. WithUrl(r, u) = q
  <2>1. WithUrl(r, u) = [r EXCEPT !.list = list]
    BY DEF WithUrl
  <2> HIDE DEF list
  <2> QED
    BY <1>1, <2>1 DEF Registry
<1>3. PICK k \in DOMAIN r.list : r.list[k].id = r.active
  BY <1>1, RegistryEntries DEF RegistryOK
<1>4. r.active \in Instances /\ Len(r.list) \in Nat /\ DOMAIN r.list = 1..Len(r.list)
      /\ \A n \in DOMAIN r.list : r.list[n] \in Entry
  BY <1>1, RegistryEntries
<1>5. \A n \in DOMAIN r.list : list[n] \in Entry /\ list[n].id = r.list[n].id
  BY <1>4 DEF Entry
<1>6. list \in Seq(Entry) /\ DOMAIN list = DOMAIN r.list
  <2>1. list \in [1..Len(r.list) -> Entry]
    BY <1>4, <1>5
  <2> HIDE DEF list
  <2> QED
    BY <1>4, <2>1
<1> HIDE DEF list
<1>7. RegistryOK(q)
  BY <1>3, <1>4, <1>5, <1>6, RegistryParts DEF RegistryOK
<1> QED
  BY <1>2, <1>5, <1>6, <1>7

(* So does an added instance. *)
LEMMA AddedOK ==
    ASSUME NEW r, RegistryOK(r), NEW i \in Instances \ InstancesOf(r), NEW u \in Urls
    PROVE  LET q == [active |-> i, list |-> Append(r.list, [id |-> i, url |-> u])]
           IN  /\ RegistryOK(q)
               /\ \A n \in DOMAIN q.list : q.list[n].id = i \/ (n \in DOMAIN r.list /\ q.list[n].id = r.list[n].id)
<1> DEFINE e == [id |-> i, url |-> u]
           list == Append(r.list, e)
<1>1. r \in Registry
  BY DEF RegistryOK
<1>2. /\ r.list \in Seq(Entry) /\ Len(r.list) \in Nat /\ DOMAIN r.list = 1..Len(r.list)
      /\ \A n \in DOMAIN r.list : r.list[n].id # i
  BY <1>1, RegistryEntries
<1>3. e \in Entry /\ e.id = i
  BY DEF Entry
<1> HIDE DEF e
<1>4. /\ list \in Seq(Entry) /\ DOMAIN list = 1..(Len(r.list) + 1) /\ list[Len(r.list) + 1] = e
      /\ \A n \in 1..Len(r.list) : list[n] = r.list[n]
  BY <1>2, <1>3
<1> HIDE DEF list
<1>5. \A m, n \in DOMAIN list : list[m].id = list[n].id => m = n
  <2> TAKE m \in DOMAIN list, n \in DOMAIN list
  <2>1. \A x \in DOMAIN list : x \in DOMAIN r.list \/ x = Len(r.list) + 1
    BY <1>2, <1>4
  <2> QED
    BY <1>2, <1>3, <1>4, <2>1 DEF RegistryOK
<1>6. Len(r.list) + 1 \in DOMAIN list
  BY <1>2, <1>4
<1>7. RegistryOK([active |-> i, list |-> list])
  BY <1>3, <1>4, <1>5, <1>6, RegistryParts
<1>8. \A n \in DOMAIN list : list[n].id = i \/ (n \in DOMAIN r.list /\ list[n].id = r.list[n].id)
  <2> TAKE n \in DOMAIN list
  <2>1. n \in DOMAIN r.list \/ n = Len(r.list) + 1
    BY <1>2, <1>4
  <2> QED
    BY <1>2, <1>3, <1>4, <2>1
<1> QED
  BY <1>7, <1>8 DEF list, e

(* So does the removal of the active instance. *)
LEMMA RemovedOK ==
    ASSUME NEW r, RegistryOK(r), Len(r.list) > 1
    PROVE  LET rest == Picked(r.list, {n \in DOMAIN r.list : r.list[n].id # r.active})
           IN  /\ RegistryOK([active |-> rest[1].id, list |-> rest])
               /\ \A n \in DOMAIN rest : \E m \in DOMAIN r.list : rest[n].id = r.list[m].id
<1> DEFINE P == {n \in DOMAIN r.list : r.list[n].id # r.active}
           rest == Picked(r.list, P)
<1>1. r \in Registry /\ \A m, n \in DOMAIN r.list : r.list[m].id = r.list[n].id => m = n
  BY DEF RegistryOK
<1>2. r.list \in Seq(Entry) /\ Len(r.list) \in Nat /\ DOMAIN r.list = 1..Len(r.list)
  BY <1>1, RegistryEntries
<1>3. P \in SUBSET DOMAIN r.list /\ P # {}
  <2>1. 1 \in DOMAIN r.list /\ 2 \in DOMAIN r.list /\ 1 # 2
    BY <1>2
  <2>2. r.list[1].id # r.list[2].id
    BY <1>1, <2>1
  <2> QED
    BY <2>1, <2>2
<1> HIDE DEF P
<1>4. /\ rest \in Seq(Entry) /\ ToSet(rest) = {r.list[n] : n \in P} /\ (P # {} => rest # <<>>)
      /\ (\A i, j \in P : r.list[i] = r.list[j] => i = j) => Distinct(rest)
  BY <1>2, <1>3, PickedElements
<1>5. Distinct(rest)
  BY <1>1, <1>3, <1>4
<1> HIDE DEF rest
<1>6. 1 \in DOMAIN rest /\ rest[1] \in Entry
  BY <1>3, <1>4
<1>7. rest[1].id \in Instances
  BY <1>6 DEF Entry
<1>8. \A m, n \in DOMAIN rest : rest[m].id = rest[n].id => m = n
  <2> TAKE m \in DOMAIN rest, n \in DOMAIN rest
  <2>1. rest[m] \in {r.list[x] : x \in P} /\ rest[n] \in {r.list[x] : x \in P}
    BY <1>4, ElementsAt
  <2>2. PICK x \in P : rest[m] = r.list[x]
    BY <2>1
  <2>3. PICK y \in P : rest[n] = r.list[y]
    BY <2>1
  <2> QED
    BY <1>1, <1>3, <1>5, <2>2, <2>3 DEF Distinct
<1>9. RegistryOK([active |-> rest[1].id, list |-> rest])
  BY <1>4, <1>6, <1>7, <1>8, RegistryParts
<1>10. \A n \in DOMAIN rest : \E m \in DOMAIN r.list : rest[n].id = r.list[m].id
  <2> TAKE n \in DOMAIN rest
  <2>1. rest[n] \in {r.list[x] : x \in P}
    BY <1>4, ElementsAt
  <2> QED
    BY <1>3, <2>1
<1> QED
  BY <1>9, <1>10 DEF rest, P

-----------------------------------------------------------------------------
(* The state of the files and of the threads that hold their contents.     *)

(* A file from outside, and whatever the file can be. *)
FromOutside(f) == f \in Options /\ Identified(f)

KnownFile(f) == f \in {Absent, Corrupt} \/ FromOutside(f) \/ Normal(f)

(* What the file and each holder of options can be. *)
FileOK ==
    /\ KnownFile(file)
    /\ seq \in Nat /\ (seq > 0 => file = Corrupt \/ Normal(file))
    /\ file = Corrupt => damaged
    /\ file = Absent => gui = "start" /\ ~Registered(reg)
    /\ gui # "start" => ~Newer(file)

GuiOK ==
    /\ gui \in {"start", "pages", "first", "idle", "store", "tab", "view", "push"}
    /\ gui = "start" => tab = Nil
    /\ gui # "start" => Held(tab) /\ ((gui = "tab" /\ pend = Nil) \/ Normal(tab))
    /\ gui = "view" => Normal(other)
    /\ gui = "push" => other \in Word /\ focus = "push"
    /\ pend = Nil \/ (Normal(pend) /\ gui \in {"tab", "view"})
    /\ gui = "view" => focus = "options"
    /\ gui = "store" => focus = "instances"

ThreadOK ==
    /\ bg \in {"idle", "loaded", "stored", "done"}
    /\ bg # "idle" => gui \notin {"start", "pages", "first"}
    /\ bg \in {"loaded", "stored"} => Normal(bgOpts[1]) /\ bgOpts[2] \in Nat /\ bgOpts[2] <= seq
    /\ bg = "stored" => Normal(bgPend)

RegistriesOK ==
    /\ reg \in {Nil, Corrupt, Later} \/ RegistryOK(reg)
    /\ gui \notin {"start", "pages"} => RegistryOK(insts)
    /\ reg = Later => gui \in {"start", "pages"}
    /\ reg = Corrupt => cut
    /\ regStep \in {"none", "secrets", "replace", "delete"}
    /\ regStep # "none" <=> gui \in {"first", "store"}
    /\ regPlain \in SUBSET Instances /\ instPw \in SUBSET Instances /\ payload \in SUBSET Instances
    /\ gone \in SUBSET Instances /\ dropped \in SUBSET Instances /\ cut \in BOOLEAN
    /\ push = Nil \/ push \in Word

HistoryOK ==
    /\ chosen \in BOOLEAN /\ secret \in Word
    /\ steady \in BOOLEAN /\ damaged \in BOOLEAN /\ raced \in BOOLEAN /\ torn \in BOOLEAN
    /\ saves \in 0..MaxSaves /\ faults \in 0..MaxFaults
    /\ faults = 0 => ~damaged

Shape == CredTypeOK /\ FileOK /\ GuiOK /\ ThreadOK /\ RegistriesOK /\ HistoryOK

(* The simulation mode, wherever it is held. *)
SimIInv ==
    (faults = 0 /\ ~raced) =>
        /\ gui \notin {"start", "view"} => tab.sim = chosen
        /\ gui = "view" => other.sim = chosen
        /\ pend # Nil => pend.sim = chosen
        /\ (Readable(file) /\ gui # "view") => file.sim = chosen
        /\ file = Absent => chosen = TRUE
        /\ (bg = "loaded" /\ bgOpts[2] = seq) => bgOpts[1].sim = file.sim
        /\ (bg = "stored" /\ bgOpts[2] = seq) => bgPend.sim = file.sim

(* Without a change of the backend the keyring is empty when it does not   *)
(* answer, and was read when it does.                                      *)
BackendIInv ==
    steady => /\ ~up => \A k \in Keys : keyring[k] = None
              /\ up => \A k \in Keys : readState[k] # "unavailable"
              /\ (up /\ gui # "start" /\ Readable(file)) => file.pw = None

InFile(s) == IF up THEN None ELSE s

Undisturbed ==
    steady /\ ~damaged /\ ~raced /\ ~torn /\ ~(bg = "stored" /\ bgOpts[2] # seq)

(* The secret saved last, wherever it is held. *)
SecretIInv ==
    /\ steady => /\ (pend # Nil /\ up) => pend.pw = None
                 /\ (bg = "stored" /\ up) => bgPend.pw = None
    /\ Undisturbed =>
        /\ (pend = Nil \/ gui = "view") => Recoverable = secret
        /\ (gui \notin {"start", "tab"} \/ pend # Nil) => tab.pw = secret
        /\ gui = "view" => other.pw = secret
        /\ pend # Nil => pend.pw = InFile(secret) /\ (up => keyring[SlotKey] = secret)
        /\ (bg = "loaded" /\ bgOpts[2] = seq /\ pend = Nil) => bgOpts[1].pw = secret
        /\ (bg = "stored" /\ pend = Nil) => bgPend.pw = InFile(secret)

(* A stored secret of an instance belongs to a registered one, to one that *)
(* a save is about to register, or to one it is about to delete.           *)
InstanceIInv ==
    (steady /\ ~cut) =>
        \A i \in Instances : keyring[InstKey[i]] # None =>
            \/ Registered(reg) /\ i \in InstancesOf(reg)
            \/ regStep \in {"secrets", "replace"} /\ i \in InstancesOf(insts)
            \/ regStep = "delete" /\ i \in gone

(* A stored password the tab does not hold could not be read, or the user  *)
(* emptied it.                                                             *)
HeldIInv ==
    gui \notin {"start", "pages"} =>
        \A i \in InstancesOf(insts) :
            (keyring[InstKey[i]] # None /\ i \notin instPw) =>
                readState[InstKey[i]] = "unavailable" \/ i \in dropped

PushIInv == (gui = "push" /\ steady) => other = PushKey

(* The URL of the options is one of the registry. *)
InRegistry(url) == Registered(reg) => Lists(reg, url)

(* The instances are ahead of the options until these are saved. *)
Ahead == gui = "store" \/ (gui = "tab" /\ focus = "instances")

UrlIInv ==
    (~damaged /\ ~torn /\ ~raced /\ ~cut) =>
        /\ (Readable(file) /\ ~Ahead) => InRegistry(file.url)
        /\ (gui \in {"pages", "first"} /\ Readable(file)) => file.url = tab.url
        /\ gui = "first" => Lists(insts, tab.url)
        /\ regStep = "delete" => reg = insts
        /\ gui \notin {"start", "store"} => InRegistry(tab.url)
        /\ gui = "view" => InRegistry(other.url)
        /\ pend # Nil => InRegistry(pend.url)
        /\ (bg = "loaded" /\ bgOpts[2] = seq /\ ~Ahead) => InRegistry(bgOpts[1].url)
        /\ (bg = "stored" /\ bgOpts[2] = seq /\ ~Ahead) => InRegistry(bgPend.url)

SettingsIInv ==
    /\ Shape /\ SimIInv /\ BackendIInv /\ SecretIInv /\ InstanceIInv /\ HeldIInv /\ PushIInv /\ UrlIInv

-----------------------------------------------------------------------------
(* A load of the options.                                                  *)

Plain == IF Readable(file) THEN file.pw ELSE None

(* A readable file has options, from outside or from the program. *)
LEMMA KnownIsReadable ==
    ASSUME KnownFile(file), Readable(file)
    PROVE  file \in Options /\ (FromOutside(file) \/ Normal(file)) /\ file.pw \in Word
           /\ file.sim \in BOOLEAN /\ file.url \in Urls
<1>1. file \in Options /\ (FromOutside(file) \/ Normal(file))
  BY DEF KnownFile, Readable, FromOutside, Normal
<1> QED
  BY <1>1 DEF Options, Word

(* What is loaded has nothing left to correct; it has the modes of the     *)
(* file, and the secret of the keyring before the one of the file.         *)
LEMMA LoadedOptions ==
    ASSUME CredTypeOK, KnownFile(file)
    PROVE  /\ Normal(Loaded) /\ Plain \in Word
           /\ Readable(file) => Loaded.sim = file.sim /\ Loaded.url = file.url
           /\ file = Absent => Loaded.sim = TRUE
           /\ Loaded.pw = IF file = Corrupt THEN None ELSE Hydrated(SlotKey, Plain)
           /\ Loaded.pw \in Word
<1> DEFINE u == CHOOSE x \in Urls : TRUE
           o == IF Readable(file) THEN Validate(Migrate(file)) ELSE Defaults
           h == Hydrated(SlotKey, o.pw)
<1>1. SlotKey \in Keys /\ keyring[SlotKey] \in Word /\ None \in Word
  BY KeysAreDistinct DEF CredTypeOK, Word
<1>2. u \in Urls
  BY ValuesAreDistinct
<1> HIDE DEF u
<1>3. Normal(Defaults) /\ Defaults.sim = TRUE /\ Defaults.url = u /\ Defaults.pw = None
  <2>1. Defaults = DefaultOptions(TRUE, u, None)
    BY DEF Defaults, u
  <2> QED
    BY <1>1, <1>2, <2>1, DefaultsAreNormal
<1>4. Readable(file) => Normal(Validate(Migrate(file))) /\ SameUser(Validate(Migrate(file)), file)
  <2> SUFFICES ASSUME Readable(file)
               PROVE  Normal(Validate(Migrate(file))) /\ SameUser(Validate(Migrate(file)), file)
    OBVIOUS
  <2>1. file \in Options /\ (FromOutside(file) \/ Normal(file))
    BY KnownIsReadable
  <2>2. CASE FromOutside(file)
    <3>1. Held(Migrate(file)) /\ SameUser(Migrate(file), file)
      BY <2>1, <2>2, MigrateCorrects DEF FromOutside
    <3>2. Normal(Validate(Migrate(file))) /\ SameUser(Validate(Migrate(file)), Migrate(file))
      BY <3>1, ValidateCorrects
    <3> QED
      BY <3>1, <3>2 DEF SameUser
  <2>3. CASE Normal(file)
    <3>1. Migrate(file) = file
      BY <2>1, <2>3, MigrateCorrects
    <3>2. Held(file)
      BY <2>3, NormalIsHeld
    <3>3. Validate(file) = file
      BY <2>3, <3>2, ValidateCorrects
    <3> QED
      BY <2>3, <3>1, <3>3 DEF SameUser
  <2> QED
    BY <2>1, <2>2, <2>3
<1>5. Normal(o) /\ o.pw = Plain
  BY <1>3, <1>4 DEF Plain, SameUser
<1>6. Readable(file) => o.sim = file.sim /\ o.url = file.url
  BY <1>4 DEF SameUser
<1>7. file = Absent => o.sim = TRUE
  BY <1>3 DEF Readable
<1>8. Loaded = IF file = Corrupt THEN o ELSE [o EXCEPT !.pw = h]
  BY Zenon DEF Loaded
<1> HIDE DEF o
<1>9. o.pw \in Word /\ h \in Word /\ o.sim \in BOOLEAN /\ o.url \in Urls /\ h = Hydrated(SlotKey, Plain)
  BY <1>1, <1>5, NormalIsHeld DEF Hydrated
<1>10. file = Corrupt => o.pw = None
  BY <1>5 DEF Plain, Readable
<1> HIDE DEF h
<1>11. Normal([o EXCEPT !.pw = h]) /\ [o EXCEPT !.pw = h].sim = o.sim
       /\ [o EXCEPT !.pw = h].url = o.url /\ [o EXCEPT !.pw = h].pw = h
  BY <1>5, <1>9, SecretIsFree
<1> QED
  BY <1>1, <1>5, <1>6, <1>7, <1>8, <1>9, <1>10, <1>11

(* The step of a load. *)
LEMMA LoadStep ==
    ASSUME CredTypeOK, KnownFile(file), seq \in Nat, LoadOptions
    PROVE  /\ CredTypeOK' /\ up' = up /\ ~Newer(file) /\ ~Newer(file') /\ file' # Absent
           /\ KnownFile(file') /\ seq' \in Nat /\ seq <= seq'
           /\ file' = Corrupt <=> file = Corrupt
           /\ \A k \in Keys \ {SlotKey} : keyring'[k] = keyring[k] /\ readState'[k] = readState[k]
           /\ LoadWrites => /\ Normal(file') /\ seq' = seq + 1 /\ file'.sim = Loaded.sim
                            /\ file'.url = Loaded.url /\ file'.pw = IF up THEN None ELSE Loaded.pw
           /\ ~LoadWrites => file' = file /\ seq' = seq
           /\ file = Corrupt => keyring' = keyring /\ readState' = readState
           /\ file # Corrupt => /\ keyring'[SlotKey] = IF ReadState(SlotKey) = "missing" THEN Plain ELSE keyring[SlotKey]
                                /\ up => readState'[SlotKey] # "unavailable"
<1>1. /\ Normal(Loaded) /\ Loaded.pw \in Word /\ Plain \in Word
  BY LoadedOptions
<1>2. keyring \in [Keys -> Word] /\ up \in BOOLEAN
      /\ readState \in [Keys -> {"unread", "present", "missing", "unavailable"}]
  BY DEF CredTypeOK, Word
<1>3. SlotKey \in Keys
  BY KeysAreDistinct
<1>4. up' = up /\ ~Newer(file)
  BY DEF LoadOptions, Loadable
<1>5. LoadWrites => file' = [Loaded EXCEPT !.pw = IF up THEN None ELSE Loaded.pw] /\ seq' = seq + 1
  BY DEF LoadOptions
<1>6. ~LoadWrites => file' = file /\ seq' = seq /\ file # Absent
  BY DEF LoadOptions, LoadWrites
<1>7. LoadWrites => file # Corrupt
  BY ValuesAreDistinct DEF LoadWrites, Readable
<1>8. None \in Word /\ (IF up THEN None ELSE Loaded.pw) \in Word
  BY <1>1 DEF Word
<1>9. LoadWrites => /\ Normal(file') /\ seq' = seq + 1 /\ file'.sim = Loaded.sim
                    /\ file'.url = Loaded.url /\ file'.pw = IF up THEN None ELSE Loaded.pw
  <2> DEFINE p == IF up THEN None ELSE Loaded.pw
  <2>1. p \in Word /\ (LoadWrites => file' = [Loaded EXCEPT !.pw = p])
    BY <1>5, <1>8
  <2>2. Loaded.sim \in BOOLEAN /\ Loaded.url \in Urls
    BY <1>1, NormalIsHeld
  <2> HIDE DEF p
  <2>3. Normal([Loaded EXCEPT !.pw = p]) /\ [Loaded EXCEPT !.pw = p].sim = Loaded.sim
        /\ [Loaded EXCEPT !.pw = p].url = Loaded.url /\ [Loaded EXCEPT !.pw = p].pw = p
    BY <1>1, <2>1, SecretIsFree
  <2> QED
    BY <1>5, <2>1, <2>3 DEF p
<1>10. Normal(file') => file' \notin {Absent, Corrupt, Nil} /\ ~Newer(file')
  BY NormalIsHeld
<1>11. ~Newer(file') /\ file' # Absent /\ (file' = Corrupt <=> file = Corrupt) /\ KnownFile(file')
  <2>1. CASE LoadWrites
    BY <1>7, <1>9, <1>10, <2>1 DEF KnownFile
  <2>2. CASE ~LoadWrites
    BY <1>4, <1>6, <2>2
  <2> QED
    BY <2>1, <2>2
<1>12. seq' \in Nat /\ seq <= seq'
  BY <1>5, <1>6
<1>13. CASE file = Corrupt
  <2>1. keyring' = keyring /\ readState' = readState
    BY <1>13 DEF LoadOptions
  <2>2. CredTypeOK'
    BY <1>4, <2>1 DEF CredTypeOK
  <2> QED
    BY <1>4, <1>6, <1>9, <1>11, <1>12, <1>13, <2>1, <2>2
<1>14. CASE file # Corrupt
  <2>1. AfterLoad([k \in {SlotKey} |-> Plain])
    BY <1>14 DEF LoadOptions, Plain
  <2> DEFINE vals == [k \in {SlotKey} |-> Plain]
  <2>2. DOMAIN vals = {SlotKey} /\ vals[SlotKey] = Plain
    OBVIOUS
  <2> HIDE DEF vals
  <2>3. /\ keyring' = [k \in Keys |-> IF k \in DOMAIN vals /\ ReadState(k) = "missing" THEN vals[k] ELSE keyring[k]]
        /\ readState' = [k \in Keys |-> IF k \notin DOMAIN vals THEN readState[k]
                                        ELSE IF Migrated(k, vals[k]) THEN "present" ELSE ReadState(k)]
    BY <2>1, Zenon DEF AfterLoad, vals
  <2>4. \A k \in Keys \ {SlotKey} : keyring'[k] = keyring[k] /\ readState'[k] = readState[k]
    BY <2>2, <2>3
  <2>5. keyring'[SlotKey] = IF ReadState(SlotKey) = "missing" THEN Plain ELSE keyring[SlotKey]
    BY <1>3, <2>2, <2>3
  <2>6. readState'[SlotKey] = IF Migrated(SlotKey, Plain) THEN "present" ELSE ReadState(SlotKey)
    BY <1>3, <2>2, <2>3
  <2>7. ReadState(SlotKey) \in {"unread", "present", "missing", "unavailable"}
        /\ (up => ReadState(SlotKey) # "unavailable")
    BY DEF ReadState
  <2>8. \A k \in Keys : keyring'[k] \in Word
    BY <1>1, <1>2, <2>4, <2>5
  <2>9. \A k \in Keys : readState'[k] \in {"unread", "present", "missing", "unavailable"}
    BY <1>2, <2>4, <2>6, <2>7
  <2>10. keyring' \in [Keys -> Word] /\ readState' \in [Keys -> {"unread", "present", "missing", "unavailable"}]
    BY <2>3, <2>8, <2>9
  <2>11. CredTypeOK'
    BY <1>2, <1>4, <2>10 DEF CredTypeOK, Word
  <2>12. up => readState'[SlotKey] # "unavailable"
    BY <2>6, <2>7
  <2> QED
    BY <1>4, <1>6, <1>9, <1>11, <1>12, <1>14, <2>4, <2>5, <2>11, <2>12
<1> QED
  BY <1>13, <1>14

-----------------------------------------------------------------------------
(* Reads and writes of the keyring.                                        *)

States == {"unread", "present", "missing", "unavailable"}

(* A read of some keys. *)
LEMMA ReadStep ==
    ASSUME CredTypeOK, NEW key \in Keys, NEW v \in Word, AfterLoad([k \in {key} |-> v]), up' = up
    PROVE  /\ CredTypeOK'
           /\ \A k \in Keys \ {key} : keyring'[k] = keyring[k] /\ readState'[k] = readState[k]
           /\ keyring'[key] = IF ReadState(key) = "missing" THEN v ELSE keyring[key]
           /\ up => readState'[key] # "unavailable"
<1> DEFINE vals == [k \in {key} |-> v]
<1>1. DOMAIN vals = {key} /\ vals[key] = v
  OBVIOUS
<1> HIDE DEF vals
<1>2. keyring \in [Keys -> Word] /\ up \in BOOLEAN /\ readState \in [Keys -> States]
  BY DEF CredTypeOK, Word, States
<1>3. /\ keyring' = [k \in Keys |-> IF k \in DOMAIN vals /\ ReadState(k) = "missing" THEN vals[k] ELSE keyring[k]]
      /\ readState' = [k \in Keys |-> IF k \notin DOMAIN vals THEN readState[k]
                                      ELSE IF Migrated(k, vals[k]) THEN "present" ELSE ReadState(k)]
  BY Zenon DEF AfterLoad, vals
<1>4. \A k \in Keys \ {key} : keyring'[k] = keyring[k] /\ readState'[k] = readState[k]
  BY <1>1, <1>3
<1>5. keyring'[key] = IF ReadState(key) = "missing" THEN v ELSE keyring[key]
  BY <1>1, <1>3
<1>6. readState'[key] = IF Migrated(key, v) THEN "present" ELSE ReadState(key)
  BY <1>1, <1>3
<1>7. ReadState(key) \in States /\ (up => ReadState(key) # "unavailable") /\ "present" \in States
  BY DEF ReadState, States
<1>8. \A k \in Keys : keyring'[k] \in Word /\ readState'[k] \in States
  BY <1>2, <1>4, <1>5, <1>6, <1>7
<1>9. keyring' \in [Keys -> Word] /\ readState' \in [Keys -> States]
  BY <1>3, <1>8
<1>10. CredTypeOK'
  BY <1>2, <1>9 DEF CredTypeOK, Word, States
<1>11. up => readState'[key] # "unavailable"
  BY <1>6, <1>7
<1> QED
  BY <1>4, <1>5, <1>10, <1>11

(* A write of some keys. *)
LEMMA WriteStep ==
    ASSUME CredTypeOK, NEW D \in SUBSET Keys, NEW vals \in [D -> Word], AfterSave(vals), up' = up
    PROVE  /\ CredTypeOK'
           /\ \A k \in Keys \ D : keyring'[k] = keyring[k] /\ readState'[k] = readState[k]
           /\ \A k \in D : /\ ~up => keyring'[k] = keyring[k]
                           /\ (up /\ readState[k] # "unavailable") => keyring'[k] = vals[k]
           /\ \A k \in Keys : readState[k] # "unavailable" => readState'[k] # "unavailable"
           /\ \A k \in D : keyring'[k] \in {vals[k], keyring[k]}
           /\ \A k \in D : (vals[k] = None /\ readState[k] = "unavailable") =>
                             keyring'[k] = keyring[k] /\ readState'[k] = "unavailable"
<1>2. keyring \in [Keys -> Word] /\ up \in BOOLEAN /\ readState \in [Keys -> States]
  BY DEF CredTypeOK, Word, States
<1>3. /\ keyring' = [k \in Keys |-> IF k \notin DOMAIN vals THEN keyring[k]
                                    ELSE IF vals[k] # None /\ up THEN vals[k]
                                    ELSE IF Deletes(k, vals[k]) THEN None ELSE keyring[k]]
      /\ readState' = [k \in Keys |-> IF k \notin DOMAIN vals THEN readState[k]
                                      ELSE IF vals[k] # None /\ up THEN "present"
                                      ELSE IF Deletes(k, vals[k]) /\ keyring[k] # None THEN "missing" ELSE readState[k]]
  BY Zenon DEF AfterSave
<1>4. DOMAIN vals = D /\ \A k \in D : vals[k] \in Word
  OBVIOUS
<1>5. \A k \in Keys \ D : keyring'[k] = keyring[k] /\ readState'[k] = readState[k]
  BY <1>3, <1>4
<1>6. \A k \in D : /\ keyring'[k] = (IF vals[k] # None /\ up THEN vals[k]
                                     ELSE IF Deletes(k, vals[k]) THEN None ELSE keyring[k])
                   /\ readState'[k] = (IF vals[k] # None /\ up THEN "present"
                                      ELSE IF Deletes(k, vals[k]) /\ keyring[k] # None THEN "missing" ELSE readState[k])
  BY <1>3, <1>4
<1>7. None \in Word /\ {"present", "missing"} \subseteq States /\ "unavailable" \notin {"present", "missing"}
  BY DEF Word, States
<1>8. \A k \in D : /\ ~up => keyring'[k] = keyring[k]
                   /\ (up /\ readState[k] # "unavailable") => keyring'[k] = vals[k]
  BY <1>6 DEF Deletes
<1>9. \A k \in Keys : keyring'[k] \in Word /\ readState'[k] \in States
  BY <1>2, <1>4, <1>5, <1>6, <1>7
<1>10. \A k \in Keys : readState[k] # "unavailable" => readState'[k] # "unavailable"
  BY <1>5, <1>6, <1>7
<1>11. keyring' \in [Keys -> Word] /\ readState' \in [Keys -> States]
  BY <1>3, <1>9
<1>12. CredTypeOK'
  BY <1>2, <1>11 DEF CredTypeOK, Word, States
<1>13. \A k \in D : keyring'[k] \in {vals[k], keyring[k]}
  BY <1>6 DEF Deletes
<1>14. \A k \in D : (vals[k] = None /\ readState[k] = "unavailable") =>
                     keyring'[k] = keyring[k] /\ readState'[k] = "unavailable"
  BY <1>6 DEF Deletes
<1> QED
  BY <1>5, <1>8, <1>10, <1>12, <1>13, <1>14

(* A read of several keys. *)
LEMMA ReadAll ==
    ASSUME CredTypeOK, NEW D \in SUBSET Keys, NEW vals \in [D -> Word], AfterLoad(vals), up' = up
    PROVE  /\ CredTypeOK'
           /\ \A k \in Keys \ D : keyring'[k] = keyring[k] /\ readState'[k] = readState[k]
           /\ \A k \in D : keyring'[k] = IF ReadState(k) = "missing" THEN vals[k] ELSE keyring[k]
           /\ \A k \in D : readState'[k] = IF Migrated(k, vals[k]) THEN "present" ELSE ReadState(k)
<1>1. keyring \in [Keys -> Word] /\ up \in BOOLEAN /\ readState \in [Keys -> States]
  BY DEF CredTypeOK, Word, States
<1>2. DOMAIN vals = D /\ \A k \in D : vals[k] \in Word
  OBVIOUS
<1>3. /\ keyring' = [k \in Keys |-> IF k \in DOMAIN vals /\ ReadState(k) = "missing" THEN vals[k] ELSE keyring[k]]
      /\ readState' = [k \in Keys |-> IF k \notin DOMAIN vals THEN readState[k]
                                      ELSE IF Migrated(k, vals[k]) THEN "present" ELSE ReadState(k)]
  BY Zenon DEF AfterLoad
<1>4. \A k \in Keys \ D : keyring'[k] = keyring[k] /\ readState'[k] = readState[k]
  BY <1>2, <1>3
<1>5. \A k \in D : keyring'[k] = IF ReadState(k) = "missing" THEN vals[k] ELSE keyring[k]
  BY <1>2, <1>3
<1>6. \A k \in D : readState'[k] = IF Migrated(k, vals[k]) THEN "present" ELSE ReadState(k)
  BY <1>2, <1>3
<1>7. \A k \in Keys : ReadState(k) \in States /\ "present" \in States
  BY DEF ReadState, States
<1>8. \A k \in Keys : keyring'[k] \in Word
  BY <1>1, <1>2, <1>4, <1>5
<1>9. \A k \in Keys : readState'[k] \in States
  BY <1>1, <1>4, <1>6, <1>7
<1>10. keyring' \in [Keys -> Word] /\ readState' \in [Keys -> States]
  BY <1>3, <1>8, <1>9
<1>11. CredTypeOK'
  BY <1>1, <1>10 DEF CredTypeOK, Word, States
<1> QED
  BY <1>4, <1>5, <1>6, <1>11

(* The passwords of some instances, by key: neither the key of the options *)
(* nor the one of the push page is among them.                             *)
LEMMA PasswordsTyped ==
    ASSUME NEW ids \in SUBSET Instances, NEW held \in SUBSET Instances
    PROVE  /\ KeysOf(ids) \in SUBSET Keys /\ SlotKey \notin KeysOf(ids) /\ VapidKey \notin KeysOf(ids)
           /\ Passwords(ids, held) \in [KeysOf(ids) -> Word]
           /\ Password # None
           /\ \A i \in Instances : InstKey[i] \in KeysOf(ids) <=> i \in ids
           /\ \A i \in ids : Passwords(ids, held)[InstKey[i]] = IF i \in held THEN Password ELSE None
<1>1. Password \in Word /\ Password # None /\ None \in Word
  BY ValuesAreDistinct DEF Password, Word
<1>2. KeysOf(ids) \in SUBSET Keys /\ SlotKey \notin KeysOf(ids) /\ VapidKey \notin KeysOf(ids)
  BY KeysAreDistinct DEF KeysOf
<1>3. \A i \in Instances : InstKey[i] \in KeysOf(ids) <=> i \in ids
  BY KeysAreDistinct DEF KeysOf
<1>4. \A i \in Instances : InstKey[i] \in KeysOf(held) <=> i \in held
  BY KeysAreDistinct DEF KeysOf
<1>5. Passwords(ids, held) = [k \in KeysOf(ids) |-> IF k \in KeysOf(held) THEN Password ELSE None]
  BY DEF Passwords
<1>6. Passwords(ids, held) \in [KeysOf(ids) -> Word]
  BY <1>1, <1>5
<1>7. \A i \in ids : Passwords(ids, held)[InstKey[i]] = IF i \in held THEN Password ELSE None
  BY <1>3, <1>4, <1>5
<1> QED
  BY <1>1, <1>2, <1>3, <1>6, <1>7

(* The first half of a save of the options. *)
LEMMA SaveStep ==
    ASSUME CredTypeOK, NEW o, Held(o), StoreSecrets(o)
    PROVE  /\ CredTypeOK' /\ up' = up
           /\ \A k \in Keys \ {SlotKey} : keyring'[k] = keyring[k] /\ readState'[k] = readState[k]
           /\ ~up => keyring'[SlotKey] = keyring[SlotKey]
           /\ (up /\ readState[SlotKey] # "unavailable") => keyring'[SlotKey] = o.pw
           /\ \A k \in Keys : readState[k] # "unavailable" => readState'[k] # "unavailable"
           /\ Normal(Validate(o)) /\ SameUser(Validate(o), o)
           /\ Normal(ForFile(o)) /\ ForFile(o).sim = o.sim /\ ForFile(o).url = o.url
           /\ ForFile(o).pw = InFile(o.pw)
<1> DEFINE vals == [k \in {SlotKey} |-> o.pw]
           D == {SlotKey}
<1>1. o.pw \in Word /\ SlotKey \in Keys /\ None \in Word
  BY KeysAreDistinct DEF Held, Options, Word
<1>2. D \in SUBSET Keys /\ vals \in [D -> Word] /\ vals[SlotKey] = o.pw
  BY <1>1
<1>3. AfterSave(vals) /\ up' = up
  BY DEF StoreSecrets
<1>4. Normal(Validate(o)) /\ SameUser(Validate(o), o)
  BY ValidateCorrects
<1>5. Payload(vals)[SlotKey] = InFile(o.pw)
  BY DEF Payload, InFile
<1>6. ForFile(o) = [Validate(o) EXCEPT !.pw = InFile(o.pw)]
  BY <1>5 DEF ForFile
<1>7. InFile(o.pw) \in Word
  BY <1>1 DEF InFile
<1>8. /\ Normal(ForFile(o)) /\ ForFile(o).sim = Validate(o).sim /\ ForFile(o).url = Validate(o).url
      /\ ForFile(o).pw = InFile(o.pw)
  BY <1>4, <1>6, <1>7, SecretIsFree
<1> HIDE DEF vals
<1>9. /\ CredTypeOK'
      /\ \A k \in Keys \ D : keyring'[k] = keyring[k] /\ readState'[k] = readState[k]
      /\ \A k \in D : /\ ~up => keyring'[k] = keyring[k]
                      /\ (up /\ readState[k] # "unavailable") => keyring'[k] = vals[k]
      /\ \A k \in Keys : readState[k] # "unavailable" => readState'[k] # "unavailable"
  BY <1>2, <1>3, WriteStep
<1> QED
  BY <1>2, <1>3, <1>4, <1>8, <1>9 DEF SameUser

-----------------------------------------------------------------------------
(* The steps of the pages and of the list of instances.                    *)

PageAction ==
    \/ SelectProvider \/ AddProvider \/ AddPreset \/ DiscoverProvider \/ RemoveProvider \/ EditPool
    \/ SetNumbers \/ SetSecret

InstanceAction == SelectInstance \/ EditUrl \/ EditPassword \/ AddInstance \/ RemoveInstance

(* A page leaves options that can be saved, with the modes of the tab. *)
PageChange == \E o : PageEdit(o) /\ Held(o) /\ o.sim = tab.sim /\ o.url = tab.url

(* An idle tab shows options with nothing to correct. *)
LEMMA TabIsNormal ==
    ASSUME Shape, gui = "idle"
    PROVE  Normal(tab) /\ Held(tab) /\ Loose(tab) /\ tab \in Options
           /\ \A id \in ToSet(tab.providers) : id \in ProviderIds
<1>1. Normal(tab)
  BY DEF Shape, GuiOK
<1>2. Held(tab) /\ Loose(tab) /\ tab \in Options
  BY <1>1, NormalIsHeld, HeldIsLoose
<1>3. ToSet(tab.providers) \in SUBSET (ProviderIds \cup {Nil})
  BY <1>2, ElementsAt DEF Options
<1>4. Nil \notin ToSet(tab.providers)
  BY <1>2 DEF Held
<1> QED
  BY <1>1, <1>2, <1>3, <1>4

(* Every edit of a page is a page change. *)
LEMMA PageActions ==
    ASSUME Shape, PageAction
    PROVE  PageChange
<1>1. gui = "idle"
  BY Zenon DEF PageAction, SelectProvider, AddProvider, AddPreset, DiscoverProvider, RemoveProvider, EditPool,
         SetNumbers, SetSecret, PageEdit, piholes
<1>2. Normal(tab) /\ Held(tab) /\ Loose(tab) /\ tab \in Options
      /\ \A id \in ToSet(tab.providers) : id \in ProviderIds
  BY <1>1, TabIsNormal
<1>3. Held(WithProvider(tab)) /\ SameUser(WithProvider(tab), tab)
  BY <1>2, WithProviderHeld
<1>4. \A id \in ToSet(tab.providers) : Held(ShowProvider(tab, id)) /\ SameUser(ShowProvider(tab, id), tab)
  BY <1>2, ShowKeeps
<1>5. NewProvider \in ProviderIds
  BY ProvidersAreKnown
<1>6. CASE SelectProvider
  <2>1. PICK id \in ToSet(tab.providers) : PageEdit(ShowProvider(tab, id))
    BY <1>6 DEF SelectProvider
  <2> QED
    BY <1>4, <2>1 DEF PageChange, SameUser
<1>7. CASE AddProvider
  BY <1>3, <1>7 DEF AddProvider, PageChange, SameUser
<1>8. CASE AddPreset
  <2> DEFINE w == WithProvider(tab)
             q == [w EXCEPT !.batch = 5, !.perRequest = 5]
  <2>1. PageEdit(q)
    BY <1>8 DEF AddPreset
  <2> HIDE DEF w
  <2>2. Held(w) /\ SameUser(w, tab)
    BY <1>3 DEF w
  <2>3. 5 \in Number
    BY DEF Number
  <2>4. Held(q) /\ SameUser(q, w)
    BY <2>2, <2>3, NumbersHeld
  <2> HIDE DEF q
  <2> QED
    BY <2>1, <2>2, <2>4 DEF PageChange, SameUser
<1>9. CASE DiscoverProvider
  <2>1. PageEdit(IF NewProvider \in ToSet(tab.providers) THEN ShowProvider(tab, NewProvider) ELSE WithProvider(tab))
    BY <1>9 DEF DiscoverProvider
  <2>2. CASE NewProvider \in ToSet(tab.providers)
    BY <1>4, <2>1, <2>2 DEF PageChange, SameUser
  <2>3. CASE NewProvider \notin ToSet(tab.providers)
    BY <1>3, <2>1, <2>3 DEF PageChange, SameUser
  <2> QED
    BY <2>2, <2>3
<1>10. CASE RemoveProvider
  <2>1. Len(tab.providers) > 1 /\ PageEdit(WithoutShown(tab))
    BY <1>10 DEF RemoveProvider
  <2>2. Held(WithoutShown(tab)) /\ SameUser(WithoutShown(tab), tab)
    BY <1>2, <2>1, RemovedHeld
  <2> QED
    BY <2>1, <2>2 DEF PageChange, SameUser
<1>11. CASE EditPool
  <2>1. PICK i \in DOMAIN tab.pools, m \in ToSet(tab.providers) \cup {NewProvider} :
            PageEdit([tab EXCEPT !.pools[i].members = <<m>>, !.pools[i].mode = "compare"])
    BY <1>11 DEF EditPool
  <2>2. m \in ProviderIds
    BY <1>2, <1>5
  <2> DEFINE q == [tab EXCEPT !.pools[i].members = <<m>>, !.pools[i].mode = "compare"]
  <2>3. Held(q) /\ SameUser(q, tab)
    BY <1>2, <2>2, EditedPool
  <2> HIDE DEF q
  <2>4. PageEdit(q)
    BY <2>1 DEF q
  <2> QED
    BY <2>3, <2>4 DEF PageChange, SameUser
<1>12. CASE SetNumbers
  <2>1. PICK n \in {0, 30} : PageEdit([tab EXCEPT !.batch = n, !.perRequest = 20, !.auto = n])
    BY <1>12 DEF SetNumbers
  <2> DEFINE q == [tab EXCEPT !.batch = n, !.perRequest = 20, !.auto = n]
  <2>2. n \in Number /\ 20 \in Number
    BY DEF Number
  <2>3. Held(q) /\ SameUser(q, tab)
    BY <1>2, <2>2, NumbersHeld
  <2> HIDE DEF q
  <2>4. PageEdit(q)
    BY <2>1 DEF q
  <2> QED
    BY <2>3, <2>4 DEF PageChange, SameUser
<1>13. CASE SetSecret
  <2>1. PICK s \in Word : PageEdit([tab EXCEPT !.pw = s])
    BY <1>13 DEF SetSecret, Word
  <2> DEFINE q == [tab EXCEPT !.pw = s]
  <2>2. Held(q) /\ q.sim = tab.sim /\ q.url = tab.url
    BY <1>2, SecretHeld
  <2> HIDE DEF q
  <2>3. PageEdit(q)
    BY <2>1 DEF q
  <2> QED
    BY <2>2, <2>3 DEF PageChange
<1> QED
  BY <1>6, <1>7, <1>8, <1>9, <1>10, <1>11, <1>12, <1>13 DEF PageAction

InstanceChange ==
    \E new, pw : /\ InstanceEdit(new, pw) /\ RegistryOK(new) /\ pw \in SUBSET Instances
                 /\ \A i \in InstancesOf(new) : i \in InstancesOf(insts) \cup pw

(* Every edit of the instances leaves a registry, with the password of     *)
(* every instance that it adds.                                            *)
LEMMA InstanceActions ==
    ASSUME Shape, InstanceAction
    PROVE  InstanceChange
<1>1. gui = "idle"
  BY Zenon DEF InstanceAction, SelectInstance, EditUrl, EditPassword, AddInstance, RemoveInstance, InstanceEdit
<1>2. RegistryOK(insts) /\ instPw \in SUBSET Instances
  BY <1>1 DEF Shape, RegistriesOK
<1>3. insts \in Registry /\ insts.active \in Instances
  BY <1>2, RegistryEntries DEF RegistryOK
<1>4. ASSUME NEW new, RegistryOK(new), NEW pw \in SUBSET Instances, InstanceEdit(new, pw),
             \A n \in DOMAIN new.list : new.list[n].id \in pw \/ \E m \in DOMAIN insts.list : new.list[n].id = insts.list[m].id
      PROVE  InstanceChange
  <2>1. new \in Registry
    BY <1>4 DEF RegistryOK
  <2>2. \A i \in InstancesOf(new) : i \in InstancesOf(insts) \cup pw
    BY <1>3, <1>4, <2>1, RegistryEntries
  <2> QED
    BY <1>4, <2>2 DEF InstanceChange
<1>5. CASE SelectInstance
  <2>1. PICK i \in InstancesOf(insts) : InstanceEdit([insts EXCEPT !.active = i], instPw)
    BY <1>5 DEF SelectInstance
  <2>2. RegistryOK([insts EXCEPT !.active = i]) /\ [insts EXCEPT !.active = i].list = insts.list
    BY <1>2, <2>1, SelectedOK
  <2> QED
    BY <1>2, <1>4, <2>1, <2>2
<1>6. CASE EditUrl
  <2>1. PICK u \in Urls : InstanceEdit(WithUrl(insts, u), instPw)
    BY <1>6 DEF EditUrl
  <2>2. /\ RegistryOK(WithUrl(insts, u))
        /\ \A n \in DOMAIN WithUrl(insts, u).list : n \in DOMAIN insts.list /\ WithUrl(insts, u).list[n].id = insts.list[n].id
    BY <1>2, <2>1, EditedUrlOK
  <2> QED
    BY <1>2, <1>4, <2>1, <2>2
<1>7. CASE EditPassword
  <2>1. PICK pw \in {instPw \cup {insts.active}, instPw \ {insts.active}} : InstanceEdit(insts, pw)
    BY <1>7 DEF EditPassword
  <2>2. pw \in SUBSET Instances
    BY <1>2, <1>3, <2>1
  <2> QED
    BY <1>2, <1>4, <2>1, <2>2
<1>8. CASE AddInstance
  <2>1. PICK i \in Instances \ InstancesOf(insts), u \in Urls :
            InstanceEdit([active |-> i, list |-> Append(insts.list, [id |-> i, url |-> u])], instPw \cup {i})
    BY <1>8 DEF AddInstance
  <2> DEFINE q == [active |-> i, list |-> Append(insts.list, [id |-> i, url |-> u])]
  <2>2. /\ RegistryOK(q)
        /\ \A n \in DOMAIN q.list : q.list[n].id = i \/ (n \in DOMAIN insts.list /\ q.list[n].id = insts.list[n].id)
    BY <1>2, <2>1, AddedOK
  <2>3. InstanceEdit(q, instPw \cup {i}) /\ instPw \cup {i} \in SUBSET Instances
    BY <1>2, <2>1
  <2> HIDE DEF q
  <2> QED
    BY <1>4, <2>2, <2>3
<1>9. CASE RemoveInstance
  <2> DEFINE rest == Picked(insts.list, {n \in DOMAIN insts.list : insts.list[n].id # insts.active})
             q == [active |-> rest[1].id, list |-> rest]
  <2>1. Len(insts.list) > 1 /\ InstanceEdit(q, instPw)
    BY <1>9 DEF RemoveInstance
  <2>2. RegistryOK(q) /\ \A n \in DOMAIN rest : \E m \in DOMAIN insts.list : rest[n].id = insts.list[m].id
    BY <1>2, <2>1, RemovedOK
  <2>3. q.list = rest
    OBVIOUS
  <2> HIDE DEF q, rest
  <2> QED
    BY <1>2, <1>4, <2>1, <2>2, <2>3
<1> QED
  BY <1>5, <1>6, <1>7, <1>8, <1>9 DEF InstanceAction

-----------------------------------------------------------------------------
(* What the file and the holders of its contents are: one lemma per action.*)

(* A file from outside, and nothing loaded. *)
LEMMA ShapeInit ==
    ASSUME SetInit
    PROVE  Shape
<1>1. \A f \in RawFiles \ {Absent} : FromOutside(f)
  BY ProvidersAreKnown DEF FromOutside, Identified
<1>2. \A f \in RawFiles \ {Absent} : f \in Options /\ f # Corrupt /\ f.pw \in Word /\ f.sim \in BOOLEAN
  BY <1>1, ValuesAreDistinct DEF FromOutside, Options, Word
<1>3. file \in RawFiles /\ Absent # Corrupt
  BY ValuesAreDistinct DEF SetInit
<1>4. PICK stored \in SUBSET Instances :
          /\ keyring = [k \in Keys |-> IF k \in KeysOf(stored) THEN Password ELSE None]
          /\ regPlain = ExistingIds(reg) \ stored
          /\ steady = (up \/ stored = {})
  BY DEF SetInit
<1>5. CredTypeOK
  <2>1. Password \in Secrets
    BY ValuesAreDistinct DEF Password
  <2> QED
    BY <1>4, <2>1 DEF SetInit, CredTypeOK
<1>6. FileOK
  BY <1>1, <1>2, <1>3 DEF SetInit, FileOK, KnownFile, Readable
<1>9. GuiOK /\ ThreadOK
  BY DEF SetInit, GuiOK, ThreadOK
<1>10. RegistriesOK
  <2>1. reg \in {Nil, Corrupt, Later} \/ RegistryOK(reg)
    <3> SUFFICES ASSUME reg \notin {Nil, Corrupt, Later}
                 PROVE  RegistryOK(reg)
      OBVIOUS
    <3>1. reg \in RawRegistries \ {Nil, Corrupt, Later}
      BY DEF SetInit
    <3>2. /\ reg \in Registry
          /\ \E n \in DOMAIN reg.list : reg.list[n].id = reg.active
          /\ \A m, n \in DOMAIN reg.list : reg.list[m].id = reg.list[n].id => m = n
      BY <3>1, RegistriesAreKnown
    <3>3. reg.active \in InstancesOf(reg)
      BY <3>2, RegistryEntries
    <3> QED
      BY <3>2, <3>3 DEF RegistryOK
  <2>2. ExistingIds(reg) \in SUBSET Instances
    BY <2>1, RegistryEntries DEF ExistingIds, Registered, RegistryOK
  <2>3. regPlain \in SUBSET Instances
    BY <1>4, <2>2
  <2>4. cut = (reg \in {Corrupt, Later})
    BY DEF SetInit
  <2>5. cut \in BOOLEAN /\ (reg = Corrupt => cut)
    <3>1. cut \in BOOLEAN
      BY <2>4, SMT
    <3>2. ASSUME reg = Corrupt PROVE cut
      <4>1. reg \in {Corrupt, Later}
        BY <3>2
      <4> QED
        BY <2>4, <4>1
    <3> QED
      BY <3>1, <3>2
  <2> QED
    BY <2>1, <2>3, <2>5 DEF SetInit, RegistriesOK
<1>7. chosen \in BOOLEAN /\ secret \in Word
  BY <1>2, <1>3 DEF SetInit, Readable, Word
<1>8. HistoryOK
  <2>1. saves = 0 /\ faults = 0 /\ MaxSaves \in Nat /\ MaxFaults \in Nat
    BY ValuesAreDistinct DEF SetInit
  <2>2. saves \in 0..MaxSaves /\ faults \in 0..MaxFaults
    BY <2>1
  <2>3. damaged = FALSE /\ raced = FALSE /\ torn = FALSE
    BY DEF SetInit
  <2>4. steady \in BOOLEAN
    BY <1>4, Zenon
  <2> QED
    BY <1>7, <2>2, <2>3, <2>4 DEF HistoryOK
<1> QED
  BY <1>5, <1>6, <1>8, <1>9, <1>10 DEF Shape

(* A load, whoever it is for. *)
LEMMA LoadKeepsFile ==
    ASSUME Shape, LoadOptions, UNCHANGED <<damaged, torn>>, gui' # "start"
    PROVE  FileOK' /\ CredTypeOK' /\ seq <= seq' /\ seq' \in Nat
<1>1. CredTypeOK /\ KnownFile(file) /\ seq \in Nat /\ (seq > 0 => file = Corrupt \/ Normal(file))
      /\ (file = Corrupt => damaged)
  BY DEF Shape, FileOK
<1>2. /\ CredTypeOK' /\ ~Newer(file') /\ file' # Absent /\ KnownFile(file') /\ seq' \in Nat /\ seq <= seq'
      /\ (file' = Corrupt <=> file = Corrupt)
      /\ LoadWrites => Normal(file')
      /\ ~LoadWrites => file' = file /\ seq' = seq
  BY <1>1, LoadStep
<1>3. seq' > 0 => file' = Corrupt \/ Normal(file')
  BY <1>1, <1>2
<1>4. FileOK'
  BY <1>1, <1>2, <1>3 DEF FileOK
<1> QED
  BY <1>2, <1>4

(* The tab is built from what the load returned. *)
LEMMA ShapeBuildTab ==
    ASSUME Shape, BuildTab
    PROVE  Shape'
<1>1. /\ gui = "start" /\ gui' = "pages" /\ LoadOptions
      /\ tab' = ShowProvider(Loaded, Loaded.providers[Loaded.active + 1])
      /\ UNCHANGED <<other, pend, bg, bgPend, bgOpts, reg, insts, regPlain, instPw, regStep, payload, gone, cut, dropped, push, focus, chosen, secret, steady, damaged, raced, torn, saves, faults>>
  BY DEF BuildTab, thread, piholes
<1>2. FileOK' /\ CredTypeOK' /\ seq' \in Nat
  BY <1>1, LoadKeepsFile
<1>3. CredTypeOK /\ KnownFile(file)
  BY DEF Shape, FileOK
<1>4. Normal(Loaded)
  BY <1>3, LoadedOptions
<1>5. Held(Loaded) /\ Loaded \in Options /\ Loaded.url \in Urls
  BY <1>4, NormalIsHeld
<1>6. Loaded.providers[Loaded.active + 1] \in ToSet(Loaded.providers)
  <2>1. Loaded.providers \in Seq(ProviderIds \cup {Nil}) /\ ProvidersNormal(Loaded)
    BY <1>4 DEF Normal, Options
  <2>2. Loaded.active + 1 \in DOMAIN Loaded.providers
    BY <2>1 DEF ProvidersNormal
  <2> QED
    BY <2>1, <2>2, ElementsAt
<1>7. Held(tab') /\ Normal(tab')
  BY <1>1, <1>4, <1>5, <1>6, HeldIsLoose, ShowKeeps
<1>10. RegistriesOK'
  BY <1>1 DEF Shape, RegistriesOK
<1>11. pend = Nil /\ bg = "idle"
  BY <1>1 DEF Shape, GuiOK, ThreadOK
<1>12. GuiOK' /\ ThreadOK'
  BY <1>1, <1>7, <1>11 DEF Shape, GuiOK, ThreadOK
<1>13. HistoryOK'
  BY <1>1 DEF Shape, HistoryOK
<1> QED
  BY <1>2, <1>10, <1>12, <1>13 DEF Shape

(* What a load of the instances does: the keyring keeps what it holds, and *)
(* a stored password the tab does not get could not be read.               *)
LEMMA LoadedInstances ==
    ASSUME Shape, LoadInstances
    PROVE  /\ gui = "pages" /\ reg # Later /\ RegistryOK(insts') /\ InstancesOf(insts') \in SUBSET Instances
           /\ \/ gui' = "first" /\ regStep' = "secrets"
              \/ gui' = "idle" /\ regStep' = "none" /\ Registered(reg)
           /\ Registered(reg) => /\ RegistryOK(reg) /\ insts' = Reconcile(reg, tab.url)
                                 /\ \A i : i \in InstancesOf(insts') <=> i \in InstancesOf(reg)
           /\ ~Registered(reg) => UrlOf(insts', insts'.active) = tab.url /\ Lists(insts', tab.url)
           /\ instPw' \in SUBSET Instances /\ dropped' = {} /\ CredTypeOK'
           /\ \A k \in Keys \ KeysOf(InstancesOf(insts')) : keyring'[k] = keyring[k] /\ readState'[k] = readState[k]
           /\ \A k \in Keys : (keyring[k] # None \/ ~up) => keyring'[k] = keyring[k]
           /\ \A k \in Keys : (up /\ readState[k] # "unavailable") => readState'[k] # "unavailable"
           /\ \A i \in InstancesOf(insts') :
                (keyring'[InstKey[i]] # None /\ i \notin instPw') => readState'[InstKey[i]] = "unavailable"
           /\ SlotKey \notin KeysOf(InstancesOf(insts')) /\ VapidKey \notin KeysOf(InstancesOf(insts'))
           /\ UNCHANGED <<file, tab, other, pend, bg, bgPend, bgOpts, reg, regPlain, payload, gone, cut, push, focus, up,
                          chosen, secret, seq, steady, damaged, raced, torn, saves, faults>>
<1> DEFINE ids == InstancesOf(insts')
<1>1. PICK given \in SUBSET {insts'.active} :
          LET inText == (regPlain \cap ids) \cup given
              rewrites == ~Registered(reg) \/ (up /\ inText # {})
          IN  /\ AfterLoad(Passwords(ids, inText))
              /\ instPw' = inText \cup {i \in ids : ReadState(InstKey[i]) = "present"}
              /\ gui' = (IF rewrites THEN "first" ELSE "idle")
              /\ regStep' = (IF rewrites THEN "secrets" ELSE "none")
  BY Zenon DEF LoadInstances
<1> DEFINE inText == (regPlain \cap ids) \cup given
           rewrites == ~Registered(reg) \/ (up /\ inText # {})
           vals == Passwords(ids, inText)
           D == KeysOf(ids)
<1>2. /\ gui = "pages" /\ reg # Later /\ dropped' = {}
      /\ Registered(reg) => insts' = Reconcile(reg, tab.url)
      /\ ~Registered(reg) => \E i \in Instances : insts' = FirstRegistry(tab.url, i)
  BY DEF LoadInstances
<1>3. UNCHANGED <<file, tab, other, pend, bg, bgPend, bgOpts, reg, regPlain, payload, gone, cut, push, focus, up,
                  chosen, secret, seq, steady, damaged, raced, torn, saves, faults>>
  BY DEF LoadInstances, thread, hist
<1>4. tab.url \in Urls /\ CredTypeOK /\ regPlain \in SUBSET Instances
  BY <1>2, NormalIsHeld DEF Shape, GuiOK, RegistriesOK
<1>5. /\ RegistryOK(insts')
      /\ Registered(reg) => /\ RegistryOK(reg) /\ insts' = Reconcile(reg, tab.url)
                            /\ \A i : i \in InstancesOf(insts') <=> i \in InstancesOf(reg)
      /\ ~Registered(reg) => UrlOf(insts', insts'.active) = tab.url /\ Lists(insts', tab.url)
  <2>1. CASE Registered(reg)
    <3>1. RegistryOK(reg) /\ insts' = Reconcile(reg, tab.url)
      BY <1>2, <2>1 DEF Shape, RegistriesOK, Registered
    <3>2. /\ RegistryOK(insts')
          /\ \A n : (n \in DOMAIN insts'.list <=> n \in DOMAIN reg.list) /\ (n \in DOMAIN reg.list => insts'.list[n].id = reg.list[n].id)
      BY <1>4, <3>1, ReconcileOK
    <3>3. insts' \in Registry /\ reg \in Registry
      BY <3>1, <3>2 DEF RegistryOK
    <3>4. \A i : i \in InstancesOf(insts') <=> \E n \in DOMAIN insts'.list : insts'.list[n].id = i
      BY <3>3, RegistryEntries
    <3>5. \A i : i \in InstancesOf(reg) <=> \E n \in DOMAIN reg.list : reg.list[n].id = i
      BY <3>3, RegistryEntries
    <3>6. \A i : i \in InstancesOf(insts') <=> i \in InstancesOf(reg)
      BY <3>2, <3>4, <3>5
    <3> QED
      BY <2>1, <3>1, <3>2, <3>6
  <2>2. CASE ~Registered(reg)
    BY <1>2, <1>4, <2>2, FirstRegistryOK
  <2> QED
    BY <2>1, <2>2
<1>6. ids \in SUBSET Instances /\ insts'.active \in ids
  BY <1>5, RegistryEntries DEF RegistryOK
<1>7. inText \in SUBSET Instances /\ inText \subseteq ids
  BY <1>4, <1>6
<1>8. \/ gui' = "first" /\ regStep' = "secrets"
      \/ gui' = "idle" /\ regStep' = "none" /\ Registered(reg)
  BY <1>1
<1>9. AfterLoad(vals) /\ instPw' = inText \cup {i \in ids : ReadState(InstKey[i]) = "present"}
  BY <1>1
<1> HIDE DEF ids, inText
<1>10. /\ D \in SUBSET Keys /\ SlotKey \notin D /\ VapidKey \notin D
       /\ vals \in [D -> Word]
       /\ \A i \in Instances : InstKey[i] \in D <=> i \in ids
       /\ \A i \in ids : vals[InstKey[i]] = IF i \in inText THEN Password ELSE None
  BY <1>6, <1>7, PasswordsTyped
<1> HIDE DEF D, vals
<1>11. /\ CredTypeOK'
       /\ \A k \in Keys \ D : keyring'[k] = keyring[k] /\ readState'[k] = readState[k]
       /\ \A k \in D : keyring'[k] = IF ReadState(k) = "missing" THEN vals[k] ELSE keyring[k]
       /\ \A k \in D : readState'[k] = IF Migrated(k, vals[k]) THEN "present" ELSE ReadState(k)
  BY <1>3, <1>4, <1>9, <1>10, ReadAll
<1>12. \A k \in Keys : (keyring[k] # None \/ ~up) => keyring'[k] = keyring[k]
  BY <1>11 DEF ReadState
<1>13. \A k \in Keys : (up /\ readState[k] # "unavailable") => readState'[k] # "unavailable"
  BY <1>11 DEF ReadState
<1>14. \A i \in ids : (keyring'[InstKey[i]] # None /\ i \notin instPw') => readState'[InstKey[i]] = "unavailable"
  <2> TAKE i \in ids
  <2>1. InstKey[i] \in D
    BY <1>6, <1>10
  <2>2. i \notin inText => vals[InstKey[i]] = None
    BY <1>10
  <2>3. ReadState(InstKey[i]) \in {"missing", "present", "unavailable"}
    BY DEF ReadState
  <2> QED
    BY <1>9, <1>11, <2>1, <2>2, <2>3 DEF Migrated
<1>15. instPw' \in SUBSET Instances
  BY <1>6, <1>7, <1>9
<1> QED
  BY <1>2, <1>3, <1>5, <1>6, <1>8, <1>10, <1>11, <1>12, <1>13, <1>14, <1>15 DEF ids, D

(* The instances are loaded. *)
LEMMA ShapeLoadInstances ==
    ASSUME Shape, LoadInstances
    PROVE  Shape'
<1>1. /\ gui = "pages" /\ reg # Later /\ RegistryOK(insts')
      /\ \/ gui' = "first" /\ regStep' = "secrets"
         \/ gui' = "idle" /\ regStep' = "none"
      /\ instPw' \in SUBSET Instances /\ dropped' = {} /\ CredTypeOK'
      /\ UNCHANGED <<file, tab, other, pend, bg, bgPend, bgOpts, reg, regPlain, payload, gone, cut, push, focus, up,
                     chosen, secret, seq, steady, damaged, raced, torn, saves, faults>>
  BY LoadedInstances
<1>2. FileOK' /\ HistoryOK'
  BY <1>1 DEF Shape, FileOK, HistoryOK, Newer, Readable
<1>3. GuiOK' /\ ThreadOK'
  BY <1>1 DEF Shape, GuiOK, ThreadOK
<1>4. RegistriesOK'
  BY <1>1 DEF Shape, RegistriesOK
<1> QED
  BY <1>1, <1>2, <1>3, <1>4 DEF Shape

(* A worker reads, and the file may be rewritten. *)
LEMMA ShapeWorkerReads ==
    ASSUME Shape, WorkerReads
    PROVE  Shape'
<1>1. /\ gui # "start" /\ LoadOptions
      /\ UNCHANGED <<tab, other, gui, pend, bg, bgPend, bgOpts, reg, insts, regPlain, instPw, regStep, payload, gone, cut, dropped, push, focus, chosen, secret, steady, damaged, raced, torn, saves, faults>>
  BY DEF WorkerReads, thread, ui, piholes, Built
<1>2. FileOK' /\ CredTypeOK' /\ seq <= seq' /\ seq' \in Nat
  BY <1>1, LoadKeepsFile
<1>3. seq \in Nat
  BY DEF Shape, FileOK
<1>4. GuiOK' /\ RegistriesOK' /\ HistoryOK'
  BY <1>1 DEF Shape, GuiOK, RegistriesOK, HistoryOK
<1>5. ThreadOK'
  BY <1>1, <1>2, <1>3 DEF Shape, ThreadOK
<1> QED
  BY <1>2, <1>4, <1>5 DEF Shape

(* A page hands its options to the save. *)
LEMMA ShapePage ==
    ASSUME Shape, NEW o, Held(o), PageEdit(o)
    PROVE  Shape'
<1>1. /\ focus = "options" /\ gui = "idle" /\ Saving /\ tab' = o /\ gui' = "tab"
      /\ UNCHANGED <<file, other, pend, bg, bgPend, bgOpts, reg, insts, regPlain, instPw, regStep, payload, gone, cut, dropped, push, focus, chosen, secret, seq, steady,
                     damaged, raced, torn, keyring, up, readState, faults>>
  BY DEF PageEdit, thread, hist, credVars, piholes
<1>2. pend = Nil
  BY <1>1 DEF Shape, GuiOK
<1>3. CredTypeOK' /\ FileOK'
  BY <1>1 DEF Shape, CredTypeOK, FileOK, Newer, Readable
<1>4. GuiOK'
  BY <1>1, <1>2 DEF Shape, GuiOK
<1>5. ThreadOK' /\ RegistriesOK'
  BY <1>1 DEF Shape, ThreadOK, RegistriesOK
<1>6. HistoryOK'
  BY <1>1, ValuesAreDistinct DEF Shape, HistoryOK, Saving
<1> QED
  BY <1>3, <1>4, <1>5, <1>6 DEF Shape

(* A view loads and changes the simulation mode. *)
LEMMA ShapeToggle ==
    ASSUME Shape, ToggleSimulation
    PROVE  Shape'
<1>1. /\ focus = "options" /\ gui = "idle" /\ Saving /\ LoadOptions
      /\ other' = [Loaded EXCEPT !.sim = ~chosen] /\ chosen' = ~chosen /\ gui' = "view"
      /\ UNCHANGED <<tab, pend, bg, bgPend, bgOpts, reg, insts, regPlain, instPw, regStep, payload, gone, cut, dropped, push, focus, secret, steady, damaged, raced, torn, faults>>
  BY DEF ToggleSimulation, thread, piholes
<1>2. FileOK' /\ CredTypeOK' /\ seq <= seq' /\ seq' \in Nat
  BY <1>1, LoadKeepsFile
<1>3. seq \in Nat /\ CredTypeOK /\ KnownFile(file) /\ chosen \in BOOLEAN
  BY DEF Shape, FileOK, HistoryOK
<1>4. Normal(Loaded) /\ (~chosen) \in BOOLEAN
  BY <1>3, LoadedOptions
<1>5. Normal(other')
  BY <1>1, <1>4, SimulationIsFree
<1>6. GuiOK'
  BY <1>1, <1>5 DEF Shape, GuiOK
<1>7. ThreadOK' /\ RegistriesOK'
  BY <1>1, <1>2, <1>3 DEF Shape, ThreadOK, RegistriesOK
<1>8. HistoryOK'
  BY <1>1, <1>3, ValuesAreDistinct DEF Shape, HistoryOK, Saving
<1> QED
  BY <1>2, <1>6, <1>7, <1>8 DEF Shape

(* Both halves of the GUI's save. *)
LEMMA ShapeGuiStores ==
    ASSUME Shape, GuiStores
    PROVE  Shape'
<1> DEFINE o == IF gui = "tab" THEN tab ELSE other
<1>1. /\ gui \in {"tab", "view"} /\ pend = Nil /\ StoreSecrets(o) /\ pend' = ForFile(o)
      /\ tab' = (IF gui = "tab" THEN Validate(o) ELSE tab)
      /\ secret' = (IF gui = "tab" THEN o.pw ELSE secret)
      /\ UNCHANGED <<file, other, gui, bg, bgPend, bgOpts, reg, insts, regPlain, instPw, regStep, payload, gone, cut, dropped, push, focus,
                     chosen, seq, steady, damaged, raced, torn, saves, faults>>
  BY DEF GuiStores, thread, piholes
<1>2. Held(o) /\ CredTypeOK
  BY <1>1, NormalIsHeld DEF Shape, GuiOK
<1>3. o.pw \in Word
  BY <1>2 DEF Held, Options, Word
<1> HIDE DEF o
<1>4. CredTypeOK' /\ up' = up /\ Normal(Validate(o)) /\ Normal(ForFile(o))
  BY <1>1, <1>2, SaveStep
<1>5. Held(Validate(o))
  BY <1>4, NormalIsHeld
<1>6. FileOK' /\ ThreadOK' /\ RegistriesOK'
  BY <1>1 DEF Shape, FileOK, Newer, Readable, ThreadOK, RegistriesOK
<1>7. GuiOK'
  BY <1>1, <1>4, <1>5 DEF Shape, GuiOK
<1>8. HistoryOK'
  BY <1>1, <1>3 DEF Shape, HistoryOK
<1> QED
  BY <1>4, <1>6, <1>7, <1>8 DEF Shape

(* The file is replaced by validated options. *)
LEMMA ShapeGuiReplaces ==
    ASSUME Shape, GuiReplaces
    PROVE  Shape'
<1>1. /\ gui \in {"tab", "view"} /\ pend # Nil /\ file' = pend /\ seq' = seq + 1
      /\ tab' = (IF gui = "view" THEN [tab EXCEPT !.sim = other.sim] ELSE tab)
      /\ pend' = Nil /\ other' = Nil /\ gui' = "idle"
      /\ UNCHANGED <<bg, bgPend, bgOpts, reg, insts, regPlain, instPw, regStep, payload, gone, cut, dropped, push, focus, chosen, secret, steady, damaged, raced, torn, saves,
                     faults, keyring, up, readState>>
  BY DEF GuiReplaces, thread, credVars, SyncTab, piholes
<1>2. Normal(pend) /\ Normal(tab) /\ (gui = "view" => Normal(other))
  BY <1>1 DEF Shape, GuiOK
<1>3. gui = "view" => other.sim \in BOOLEAN
  BY <1>2, NormalIsHeld
<1>4. Normal(tab')
  BY <1>1, <1>2, <1>3, SimulationIsFree
<1>5. Held(tab')
  BY <1>4, NormalIsHeld
<1>6. pend \notin {Absent, Corrupt, Nil} /\ ~Newer(pend)
  BY <1>2, NormalIsHeld
<1>7. CredTypeOK' /\ FileOK'
  BY <1>1, <1>2, <1>6 DEF Shape, CredTypeOK, FileOK, KnownFile
<1>8. GuiOK'
  BY <1>1, <1>4, <1>5 DEF Shape, GuiOK
<1>9. seq \in Nat
  BY DEF Shape, FileOK
<1>10. ThreadOK' /\ RegistriesOK' /\ HistoryOK'
  BY <1>1, <1>9 DEF Shape, ThreadOK, RegistriesOK, HistoryOK
<1> QED
  BY <1>7, <1>8, <1>10 DEF Shape

(* The registry thread loads. *)
LEMMA ShapeBgLoads ==
    ASSUME Shape, BgLoads
    PROVE  Shape'
<1>1. /\ bg = "idle" /\ gui \notin {"start", "pages", "first"} /\ LoadOptions
      /\ bgOpts' = <<Loaded, seq'>> /\ bg' = "loaded"
      /\ UNCHANGED <<tab, other, gui, pend, bgPend, reg, insts, regPlain, instPw, regStep, payload, gone, cut, dropped, push, focus, chosen, secret, steady, damaged, raced, torn, saves, faults>>
  BY DEF BgLoads, ui, piholes, Built
<1>2. FileOK' /\ CredTypeOK' /\ seq <= seq' /\ seq' \in Nat
  BY <1>1, LoadKeepsFile
<1>3. Normal(Loaded)
  BY LoadedOptions DEF Shape, FileOK
<1>4. bgOpts'[1] = Loaded /\ bgOpts'[2] = seq'
  BY <1>1
<1>5. ThreadOK'
  BY <1>1, <1>2, <1>3, <1>4 DEF Shape, ThreadOK
<1>6. GuiOK' /\ RegistriesOK' /\ HistoryOK'
  BY <1>1 DEF Shape, GuiOK, RegistriesOK, HistoryOK
<1> QED
  BY <1>2, <1>5, <1>6 DEF Shape

(* The registry thread validates and stores the secrets. *)
LEMMA ShapeBgStores ==
    ASSUME Shape, BgStores
    PROVE  Shape'
<1>1. /\ bg = "loaded" /\ StoreSecrets(bgOpts[1]) /\ bgPend' = ForFile(bgOpts[1]) /\ bg' = "stored"
      /\ raced' = (raced \/ bgOpts[2] # seq \/ pend # Nil)
      /\ UNCHANGED <<file, tab, other, gui, pend, bgOpts, reg, insts, regPlain, instPw, regStep, payload, gone, cut, dropped, push, focus, chosen, secret, seq, steady, damaged, torn, saves, faults>>
  BY DEF BgStores, ui, piholes
<1>2. Normal(bgOpts[1]) /\ CredTypeOK
  BY <1>1 DEF Shape, ThreadOK
<1>3. Held(bgOpts[1])
  BY <1>2, NormalIsHeld
<1>4. CredTypeOK' /\ Normal(ForFile(bgOpts[1]))
  BY <1>1, <1>2, <1>3, SaveStep
<1>5. FileOK' /\ GuiOK' /\ RegistriesOK'
  BY <1>1 DEF Shape, FileOK, Newer, Readable, GuiOK, RegistriesOK
<1>6. ThreadOK'
  BY <1>1, <1>4 DEF Shape, ThreadOK
<1>7. HistoryOK'
  BY <1>1 DEF Shape, HistoryOK
<1> QED
  BY <1>4, <1>5, <1>6, <1>7 DEF Shape

(* The registry thread replaces the file. *)
LEMMA ShapeBgReplaces ==
    ASSUME Shape, BgReplaces
    PROVE  Shape'
<1>1. /\ bg = "stored" /\ file' = bgPend /\ seq' = seq + 1 /\ bg' = "done"
      /\ raced' = (raced \/ bgOpts[2] # seq \/ pend # Nil)
      /\ UNCHANGED <<tab, other, gui, pend, reg, insts, regPlain, instPw, regStep, payload, gone, cut, dropped, push, focus, chosen, secret, steady, damaged, torn, saves, faults,
                     keyring, up, readState>>
  BY DEF BgReplaces, ui, credVars, piholes
<1>2. Normal(bgPend) /\ seq \in Nat /\ gui # "start"
  BY <1>1 DEF Shape, ThreadOK, FileOK
<1>3. bgPend \notin {Absent, Corrupt, Nil} /\ ~Newer(bgPend)
  BY <1>2, NormalIsHeld
<1>4. CredTypeOK' /\ FileOK'
  BY <1>1, <1>2, <1>3 DEF Shape, CredTypeOK, FileOK, KnownFile
<1>5. GuiOK' /\ RegistriesOK'
  BY <1>1 DEF Shape, GuiOK, RegistriesOK
<1>6. ThreadOK'
  BY <1>1 DEF Shape, ThreadOK
<1>7. HistoryOK'
  BY <1>1 DEF Shape, HistoryOK
<1> QED
  BY <1>4, <1>5, <1>6, <1>7 DEF Shape

(* An edit of the instances. *)
LEMMA ShapeInstance ==
    ASSUME Shape, NEW new, RegistryOK(new), NEW pw \in SUBSET Instances, InstanceEdit(new, pw)
    PROVE  Shape'
<1>1. /\ focus = "instances" /\ gui = "idle" /\ Saving /\ insts' = new /\ instPw' = pw
      /\ dropped' = (dropped \cup (instPw \ pw)) \ pw
      /\ UNCHANGED <<file, tab, other, gui, pend, bg, bgPend, bgOpts, reg, regPlain, regStep, payload, gone, cut, push, focus,
                     chosen, secret, seq, steady, damaged, raced, torn, keyring, up, readState, faults>>
  BY DEF InstanceEdit, ui, thread, hist, credVars
<1>2. CredTypeOK' /\ FileOK'
  BY <1>1 DEF Shape, CredTypeOK, FileOK, Newer, Readable
<1>3. GuiOK' /\ ThreadOK'
  BY <1>1 DEF Shape, GuiOK, ThreadOK
<1>4. dropped' \in SUBSET Instances
  BY <1>1 DEF Shape, RegistriesOK
<1>5. RegistriesOK'
  BY <1>1, <1>4 DEF Shape, RegistriesOK
<1>6. HistoryOK'
  BY <1>1, ValuesAreDistinct DEF Shape, HistoryOK, Saving
<1> QED
  BY <1>2, <1>3, <1>5, <1>6 DEF Shape

(* The tab starts to save the instances. *)
LEMMA ShapeSaveInstances ==
    ASSUME Shape, SaveInstances
    PROVE  Shape'
<1>1. /\ focus = "instances" /\ gui = "idle" /\ Saving /\ gui' = "store" /\ regStep' = "secrets"
      /\ UNCHANGED <<file, tab, other, pend, bg, bgPend, bgOpts, reg, insts, regPlain, instPw, payload, gone, cut, dropped, push,
                     focus, chosen, secret, seq, steady, damaged, raced, torn, keyring, up, readState, faults>>
  BY DEF SaveInstances, thread, hist, credVars
<1>2. CredTypeOK' /\ FileOK'
  BY <1>1 DEF Shape, CredTypeOK, FileOK, Newer, Readable
<1>3. GuiOK' /\ ThreadOK'
  BY <1>1 DEF Shape, GuiOK, ThreadOK
<1>4. RegistriesOK'
  BY <1>1 DEF Shape, RegistriesOK
<1>5. HistoryOK'
  BY <1>1, ValuesAreDistinct DEF Shape, HistoryOK, Saving
<1> QED
  BY <1>2, <1>3, <1>4, <1>5 DEF Shape

(* What the first step of a save of the instances does: it takes a         *)
(* password away only where the tab holds none and the last read succeeded.*)
LEMMA StoredInstances ==
    ASSUME Shape, StoreInstanceSecrets
    PROVE  /\ regStep = "secrets" /\ regStep' = "replace" /\ gui \in {"first", "store"}
           /\ RegistryOK(insts) /\ InstancesOf(insts) \in SUBSET Instances
           /\ payload' \in SUBSET Instances /\ CredTypeOK'
           /\ SlotKey \notin KeysOf(InstancesOf(insts)) /\ VapidKey \notin KeysOf(InstancesOf(insts))
           /\ \A k \in Keys \ KeysOf(InstancesOf(insts)) : keyring'[k] = keyring[k] /\ readState'[k] = readState[k]
           /\ \A i \in Instances \ InstancesOf(insts) : keyring'[InstKey[i]] = keyring[InstKey[i]]
           /\ \A k \in Keys : ~up => keyring'[k] = keyring[k]
           /\ \A k \in Keys : readState[k] # "unavailable" => readState'[k] # "unavailable"
           /\ \A i \in InstancesOf(insts) : i \notin instPw => keyring'[InstKey[i]] \in {None, keyring[InstKey[i]]}
           /\ \A i \in InstancesOf(insts) : i \in instPw => (keyring'[InstKey[i]] = None => keyring[InstKey[i]] = None)
           /\ \A i \in InstancesOf(insts) : (i \notin instPw /\ readState[InstKey[i]] = "unavailable") =>
                 keyring'[InstKey[i]] = keyring[InstKey[i]] /\ readState'[InstKey[i]] = "unavailable"
           /\ UNCHANGED <<file, tab, other, gui, pend, bg, bgPend, bgOpts, reg, insts, regPlain, instPw, gone, cut, dropped, push,
                          focus, up, chosen, secret, seq, steady, damaged, raced, torn, saves, faults>>
<1> DEFINE ids == InstancesOf(insts)
           D == KeysOf(ids)
           vals == Passwords(ids, instPw)
<1>1. /\ regStep = "secrets" /\ regStep' = "replace" /\ AfterSave(vals)
      /\ payload' = IF up THEN {} ELSE instPw \cap ids
      /\ UNCHANGED <<file, tab, other, gui, pend, bg, bgPend, bgOpts, reg, insts, regPlain, instPw, gone, cut, dropped, push,
                     focus, up, chosen, secret, seq, steady, damaged, raced, torn, saves, faults>>
  BY DEF StoreInstanceSecrets, ui, thread, hist
<1>2. gui \in {"first", "store"} /\ RegistryOK(insts) /\ instPw \in SUBSET Instances /\ CredTypeOK
  BY <1>1 DEF Shape, RegistriesOK
<1>3. ids \in SUBSET Instances
  BY <1>2, RegistryEntries DEF RegistryOK
<1> HIDE DEF ids
<1>4. /\ D \in SUBSET Keys /\ SlotKey \notin D /\ VapidKey \notin D
      /\ vals \in [D -> Word] /\ Password # None
      /\ \A i \in Instances : InstKey[i] \in D <=> i \in ids
      /\ \A i \in ids : vals[InstKey[i]] = IF i \in instPw THEN Password ELSE None
  BY <1>2, <1>3, PasswordsTyped
<1> HIDE DEF D, vals
<1>5. /\ CredTypeOK'
      /\ \A k \in Keys \ D : keyring'[k] = keyring[k] /\ readState'[k] = readState[k]
      /\ \A k \in D : ~up => keyring'[k] = keyring[k]
      /\ \A k \in Keys : readState[k] # "unavailable" => readState'[k] # "unavailable"
      /\ \A k \in D : keyring'[k] \in {vals[k], keyring[k]}
      /\ \A k \in D : (vals[k] = None /\ readState[k] = "unavailable") =>
                        keyring'[k] = keyring[k] /\ readState'[k] = "unavailable"
  BY <1>1, <1>2, <1>4, WriteStep
<1>6. payload' \in SUBSET Instances
  BY <1>1, <1>2
<1>7. \A i \in Instances \ ids : keyring'[InstKey[i]] = keyring[InstKey[i]]
  BY <1>4, <1>5, KeysAreDistinct
<1>8. \A i \in ids : InstKey[i] \in D
  BY <1>3, <1>4
<1>9. \A k \in Keys : ~up => keyring'[k] = keyring[k]
  BY <1>5
<1>10. \A i \in ids : i \notin instPw => keyring'[InstKey[i]] \in {None, keyring[InstKey[i]]}
  BY <1>4, <1>5, <1>8
<1>11. \A i \in ids : i \in instPw => (keyring'[InstKey[i]] = None => keyring[InstKey[i]] = None)
  BY <1>4, <1>5, <1>8
<1>12. \A i \in ids : (i \notin instPw /\ readState[InstKey[i]] = "unavailable") =>
                 keyring'[InstKey[i]] = keyring[InstKey[i]] /\ readState'[InstKey[i]] = "unavailable"
  BY <1>4, <1>5, <1>8
<1> QED
  BY <1>1, <1>2, <1>3, <1>4, <1>5, <1>6, <1>7, <1>9, <1>10, <1>11, <1>12 DEF ids, D

(* The passwords are stored. *)
LEMMA ShapeStoreInstanceSecrets ==
    ASSUME Shape, StoreInstanceSecrets
    PROVE  Shape'
<1>1. /\ regStep = "secrets" /\ regStep' = "replace" /\ payload' \in SUBSET Instances /\ CredTypeOK'
      /\ UNCHANGED <<file, tab, other, gui, pend, bg, bgPend, bgOpts, reg, insts, regPlain, instPw, gone, cut, dropped, push,
                     focus, up, chosen, secret, seq, steady, damaged, raced, torn, saves, faults>>
  BY StoredInstances
<1>2. FileOK' /\ HistoryOK' /\ GuiOK' /\ ThreadOK'
  BY <1>1 DEF Shape, FileOK, HistoryOK, Newer, Readable, GuiOK, ThreadOK
<1>3. RegistriesOK'
  BY <1>1 DEF Shape, RegistriesOK
<1> QED
  BY <1>1, <1>2, <1>3 DEF Shape

(* The instances that a save of the tab removes. *)
LEMMA RemovedInstances ==
    ASSUME Shape, regStep # "none"
    PROVE  /\ Removed(reg, insts) \in SUBSET Instances /\ Registered(insts)
           /\ \A i \in Instances : (Registered(reg) /\ i \in InstancesOf(reg)) => i \in InstancesOf(insts) \cup Removed(reg, insts)
<1>1. RegistryOK(insts) /\ (Registered(reg) => RegistryOK(reg))
  BY DEF Shape, RegistriesOK, Registered
<1>2. Registered(reg) => InstancesOf(reg) \in SUBSET Instances
  BY <1>1, RegistryEntries DEF RegistryOK
<1>3. Registered(insts)
  BY <1>1, ValuesAreDistinct DEF RegistryOK, Registered
<1> QED
  BY <1>2, <1>3 DEF Removed, ExistingIds

(* The file of the instances is replaced. *)
LEMMA ShapeReplaceRegistry ==
    ASSUME Shape, ReplaceRegistry
    PROVE  Shape'
<1>1. /\ regStep = "replace" /\ gone' = Removed(reg, insts) /\ reg' = insts /\ regPlain' = payload /\ regStep' = "delete"
      /\ UNCHANGED <<file, tab, other, gui, pend, bg, bgPend, bgOpts, insts, instPw, payload, cut, dropped, push,
                     focus, chosen, secret, seq, steady, damaged, raced, torn, saves, faults, keyring, up, readState>>
  BY DEF ReplaceRegistry, ui, thread, hist, credVars
<1>2. gone' \in SUBSET Instances
  BY <1>1, RemovedInstances
<1>3. gui \in {"first", "store"} /\ RegistryOK(insts) /\ insts \notin {Nil, Corrupt, Later}
  BY <1>1, RemovedInstances DEF Shape, RegistriesOK, Registered
<1>4. CredTypeOK' /\ FileOK' /\ HistoryOK'
  BY <1>1, <1>3 DEF Shape, CredTypeOK, FileOK, HistoryOK, Newer, Readable
<1>5. GuiOK' /\ ThreadOK'
  BY <1>1 DEF Shape, GuiOK, ThreadOK
<1>6. RegistriesOK'
  BY <1>1, <1>2, <1>3 DEF Shape, RegistriesOK
<1> QED
  BY <1>4, <1>5, <1>6 DEF Shape

(* What the last step of a save of the instances does. *)
LEMMA DeletedInstances ==
    ASSUME Shape, DeleteRemoved
    PROVE  /\ regStep = "delete" /\ regStep' = "none" /\ gone' = {} /\ payload' = {}
           /\ \/ gui = "first" /\ gui' = "idle" /\ tab' = tab
              \/ gui = "store" /\ gui' = "tab" /\ tab' = [tab EXCEPT !.url = UrlOf(insts, insts.active)]
           /\ CredTypeOK'
           /\ SlotKey \notin KeysOf(gone) /\ VapidKey \notin KeysOf(gone) /\ KeysOf(gone) \in SUBSET Keys
           /\ \A k \in Keys \ KeysOf(gone) : keyring'[k] = keyring[k] /\ readState'[k] = readState[k]
           /\ \A i \in Instances \ gone : keyring'[InstKey[i]] = keyring[InstKey[i]] /\ readState'[InstKey[i]] = readState[InstKey[i]]
           /\ \A k \in Keys : ~up => keyring'[k] = keyring[k]
           /\ \A k \in Keys : readState[k] # "unavailable" => readState'[k] # "unavailable"
           /\ \A i \in gone : (up /\ readState[InstKey[i]] # "unavailable") => keyring'[InstKey[i]] = None
           /\ \A k \in Keys : keyring'[k] \in {None, keyring[k]}
           /\ \A k \in KeysOf(gone) : readState[k] = "unavailable" => keyring'[k] = keyring[k] /\ readState'[k] = "unavailable"
           /\ UNCHANGED <<file, other, pend, bg, bgPend, bgOpts, reg, insts, regPlain, instPw, cut, dropped, push,
                          focus, up, chosen, secret, seq, steady, damaged, raced, torn, saves, faults>>
<1> DEFINE D == KeysOf(gone)
           vals == Passwords(gone, {})
<1>1. /\ regStep = "delete" /\ regStep' = "none" /\ AfterSave(vals) /\ gone' = {} /\ payload' = {}
      /\ IF gui = "first" THEN gui' = "idle" /\ tab' = tab
         ELSE gui' = "tab" /\ tab' = [tab EXCEPT !.url = UrlOf(insts, insts.active)]
      /\ UNCHANGED <<file, other, pend, bg, bgPend, bgOpts, reg, insts, regPlain, instPw, cut, dropped, push,
                     focus, up, chosen, secret, seq, steady, damaged, raced, torn, saves, faults>>
  BY DEF DeleteRemoved, thread, hist
<1>2. gui \in {"first", "store"} /\ gone \in SUBSET Instances /\ CredTypeOK /\ {} \in SUBSET Instances
  BY <1>1 DEF Shape, RegistriesOK
<1>4. /\ D \in SUBSET Keys /\ SlotKey \notin D /\ VapidKey \notin D /\ vals \in [D -> Word]
      /\ \A i \in Instances : InstKey[i] \in D <=> i \in gone
      /\ \A k \in D : vals[k] = None
  BY <1>2, PasswordsTyped DEF KeysOf, Passwords
<1> HIDE DEF D, vals
<1>5. /\ CredTypeOK'
      /\ \A k \in Keys \ D : keyring'[k] = keyring[k] /\ readState'[k] = readState[k]
      /\ \A k \in D : /\ ~up => keyring'[k] = keyring[k]
                      /\ (up /\ readState[k] # "unavailable") => keyring'[k] = vals[k]
      /\ \A k \in Keys : readState[k] # "unavailable" => readState'[k] # "unavailable"
      /\ \A k \in D : keyring'[k] \in {vals[k], keyring[k]}
      /\ \A k \in D : (vals[k] = None /\ readState[k] = "unavailable") =>
                        keyring'[k] = keyring[k] /\ readState'[k] = "unavailable"
  BY <1>1, <1>2, <1>4, WriteStep
<1>6. \A i \in Instances \ gone : keyring'[InstKey[i]] = keyring[InstKey[i]] /\ readState'[InstKey[i]] = readState[InstKey[i]]
  BY <1>4, <1>5, KeysAreDistinct
<1>7. \A k \in Keys : ~up => keyring'[k] = keyring[k]
  BY <1>5
<1>8. \A i \in gone : (up /\ readState[InstKey[i]] # "unavailable") => keyring'[InstKey[i]] = None
  BY <1>2, <1>4, <1>5
<1>9. \A k \in Keys : keyring'[k] \in {None, keyring[k]}
  BY <1>4, <1>5
<1>10. \A k \in D : readState[k] = "unavailable" => keyring'[k] = keyring[k] /\ readState'[k] = "unavailable"
  BY <1>4, <1>5
<1> QED
  BY <1>1, <1>2, <1>4, <1>5, <1>6, <1>7, <1>8, <1>9, <1>10 DEF D

(* The secrets of the removed instances are deleted. *)
LEMMA ShapeDeleteRemoved ==
    ASSUME Shape, DeleteRemoved
    PROVE  Shape'
<1>1. /\ regStep = "delete" /\ regStep' = "none" /\ gone' = {} /\ payload' = {} /\ CredTypeOK'
      /\ \/ gui = "first" /\ gui' = "idle" /\ tab' = tab
         \/ gui = "store" /\ gui' = "tab" /\ tab' = [tab EXCEPT !.url = UrlOf(insts, insts.active)]
      /\ UNCHANGED <<file, other, pend, bg, bgPend, bgOpts, reg, insts, regPlain, instPw, cut, dropped, push,
                     focus, up, chosen, secret, seq, steady, damaged, raced, torn, saves, faults>>
  BY DeletedInstances
<1>2. Normal(tab) /\ RegistryOK(insts)
  BY <1>1 DEF Shape, GuiOK, RegistriesOK
<1>3. Normal(tab')
  BY <1>1, <1>2, UrlOfActive, UrlIsFree
<1>4. Held(tab')
  BY <1>3, NormalIsHeld
<1>5. FileOK' /\ HistoryOK'
  BY <1>1 DEF Shape, FileOK, HistoryOK, Newer, Readable
<1>6. GuiOK' /\ ThreadOK'
  BY <1>1, <1>3, <1>4 DEF Shape, GuiOK, ThreadOK
<1>7. RegistriesOK'
  BY <1>1 DEF Shape, RegistriesOK
<1> QED
  BY <1>1, <1>5, <1>6, <1>7 DEF Shape

(* The key of the push page. *)
PushPlain == IF push = Nil THEN None ELSE push

(* The push key is a secret or none. *)
LEMMA PushKeyTyped ==
    ASSUME Shape
    PROVE  PushPlain \in Word /\ PushKey \in Word /\ VapidKey \in Keys /\ VapidKey # SlotKey
<1>1. VapidKey \in Keys /\ VapidKey # SlotKey
  BY KeysAreDistinct
<1>2. keyring[VapidKey] \in Word /\ PushPlain \in Word
  BY <1>1 DEF Shape, CredTypeOK, RegistriesOK, PushPlain, Word
<1>3. PushKey \in Word
  BY <1>2 DEF PushKey, PushPlain, Hydrated
<1> QED
  BY <1>1, <1>2, <1>3

(* The push page is opened. *)
LEMMA ShapeOpenPush ==
    ASSUME Shape, OpenPush
    PROVE  Shape'
<1>1. /\ focus = "push" /\ gui = "idle" /\ Saving /\ AfterLoad([k \in {VapidKey} |-> PushPlain])
      /\ push' = (IF push # Nil /\ Migrated(VapidKey, push) THEN None ELSE push)
      /\ other' = PushKey /\ gui' = "push"
      /\ UNCHANGED <<file, tab, pend, bg, bgPend, bgOpts, reg, insts, regPlain, instPw, regStep, payload, gone, cut, dropped, focus, chosen, secret, seq, steady, damaged, raced, torn,
                     up, faults>>
  BY DEF OpenPush, thread, hist, PushPlain, piholes
<1>2. PushPlain \in Word /\ PushKey \in Word /\ VapidKey \in Keys /\ CredTypeOK /\ None \in Word
  BY PushKeyTyped DEF Shape, Word
<1>3. CredTypeOK'
  BY <1>1, <1>2, ReadStep
<1>4. FileOK'
  BY <1>1 DEF Shape, FileOK, Newer, Readable
<1>5. GuiOK' /\ ThreadOK' /\ RegistriesOK'
  BY <1>1, <1>2 DEF Shape, GuiOK, ThreadOK, RegistriesOK
<1>6. HistoryOK'
  BY <1>1, ValuesAreDistinct DEF Shape, HistoryOK, Saving
<1> QED
  BY <1>3, <1>4, <1>5, <1>6 DEF Shape

(* What the page saves: the key it loaded, or the generated one. *)
PushVals(s) == [k \in {VapidKey} |-> s]

(* What the save of the push page does. *)
LEMMA PushSaved ==
    ASSUME Shape, SavePush
    PROVE  /\ gui = "push" /\ other' = Nil /\ gui' = "idle" /\ other \in Word /\ {VapidKey} \in SUBSET Keys
           /\ UNCHANGED <<file, tab, pend, bg, bgPend, bgOpts, reg, insts, regPlain, instPw, regStep, payload, gone, cut, dropped, focus, chosen, secret, seq, steady, damaged, raced,
                          torn, up, saves, faults>>
           /\ \E s \in Secrets : /\ AfterSave(PushVals(s)) /\ push' = (IF up THEN None ELSE s) /\ (other # None => s = other)
                                 /\ PushVals(s) \in [{VapidKey} -> Word] /\ PushVals(s)[VapidKey] = s
<1>1. /\ gui = "push" /\ other' = Nil /\ gui' = "idle"
      /\ UNCHANGED <<file, tab, pend, bg, bgPend, bgOpts, reg, insts, regPlain, instPw, regStep, payload, gone, cut, dropped, focus, chosen, secret, seq, steady, damaged, raced,
                     torn, up, saves, faults>>
  BY DEF SavePush, thread, hist, piholes
<1>2. PICK generated \in Secrets :
          LET vals == [k \in {VapidKey} |-> IF other # None THEN other ELSE generated]
          IN  AfterSave(vals) /\ push' = Payload(vals)[VapidKey]
  BY Zenon DEF SavePush
<1> DEFINE s == IF other # None THEN other ELSE generated
<1>3. AfterSave(PushVals(s)) /\ push' = Payload(PushVals(s))[VapidKey]
  BY <1>2 DEF PushVals
<1>4. other \in Word /\ VapidKey \in Keys
  BY <1>1, PushKeyTyped DEF Shape, GuiOK
<1>5. s \in Secrets /\ s \in Word /\ (other # None => s = other)
  BY <1>4 DEF Word
<1> HIDE DEF s
<1>6. PushVals(s) \in [{VapidKey} -> Word] /\ PushVals(s)[VapidKey] = s
  BY <1>5 DEF PushVals
<1>7. push' = (IF up THEN None ELSE s)
  BY <1>3 DEF Payload, PushVals
<1> QED
  BY <1>1, <1>3, <1>4, <1>5, <1>6, <1>7

(* The push page is saved. *)
LEMMA ShapeSavePush ==
    ASSUME Shape, SavePush
    PROVE  Shape'
<1>1. /\ gui = "push" /\ other' = Nil /\ gui' = "idle" /\ {VapidKey} \in SUBSET Keys
      /\ UNCHANGED <<file, tab, pend, bg, bgPend, bgOpts, reg, insts, regPlain, instPw, regStep, payload, gone, cut, dropped, focus, chosen, secret, seq, steady, damaged, raced,
                     torn, up, saves, faults>>
  BY PushSaved
<1>0. PICK s \in Secrets : AfterSave(PushVals(s)) /\ push' = (IF up THEN None ELSE s) /\ PushVals(s) \in [{VapidKey} -> Word]
  BY PushSaved
<1>2. CredTypeOK /\ push' \in Word
  BY <1>0 DEF Shape, Word
<1>3. CredTypeOK'
  BY <1>0, <1>1, <1>2, WriteStep
<1>4. FileOK'
  BY <1>1 DEF Shape, FileOK, Newer, Readable
<1>5. GuiOK' /\ ThreadOK' /\ RegistriesOK' /\ HistoryOK'
  BY <1>1, <1>2 DEF Shape, GuiOK, ThreadOK, RegistriesOK, HistoryOK
<1> QED
  BY <1>3, <1>4, <1>5 DEF Shape

(* The keyring goes away or comes back. *)
LEMMA ShapeOutage ==
    ASSUME Shape, Outage
    PROVE  Shape'
<1>1. /\ Fault /\ up' = ~up /\ steady' = FALSE
      /\ UNCHANGED <<file, tab, other, gui, pend, bg, bgPend, bgOpts, reg, insts, regPlain, instPw, regStep, payload, gone, cut, dropped, push, focus, chosen, secret, seq, damaged, raced,
                     torn, saves, keyring, readState>>
  BY DEF Outage, BackendChanges, ui, thread, piholes
<1>2. faults \in Nat /\ faults' = faults + 1 /\ faults < MaxFaults /\ MaxFaults \in Nat
  BY <1>1, ValuesAreDistinct DEF Shape, HistoryOK, Fault
<1>3. CredTypeOK' /\ FileOK'
  BY <1>1 DEF Shape, CredTypeOK, FileOK, Newer, Readable
<1>4. GuiOK' /\ ThreadOK' /\ RegistriesOK'
  BY <1>1 DEF Shape, GuiOK, ThreadOK, RegistriesOK
<1>5. HistoryOK'
  <2>1. faults' \in 0..MaxFaults /\ faults' # 0
    BY <1>2
  <2>2. torn' \in BOOLEAN /\ steady' \in BOOLEAN /\ damaged' \in BOOLEAN
    BY <1>1, Zenon DEF Shape, HistoryOK
  <2> QED
    BY <1>1, <2>1, <2>2 DEF Shape, HistoryOK
<1> QED
  BY <1>3, <1>4, <1>5 DEF Shape

(* The file becomes unreadable. *)
LEMMA ShapeDamage ==
    ASSUME Shape, Damage
    PROVE  Shape'
<1>1. /\ Fault /\ Readable(file) /\ file' = Corrupt /\ damaged' = TRUE
      /\ UNCHANGED <<tab, other, gui, pend, bg, bgPend, bgOpts, reg, insts, regPlain, instPw, regStep, payload, gone, cut, dropped, push, focus, chosen, secret, seq, steady, raced, torn,
                     saves, keyring, up, readState>>
  BY DEF Damage, ui, thread, credVars, piholes
<1>2. faults \in Nat /\ faults' = faults + 1 /\ faults < MaxFaults /\ MaxFaults \in Nat
  BY <1>1, ValuesAreDistinct DEF Shape, HistoryOK, Fault
<1>3. CredTypeOK' /\ FileOK'
  BY <1>1, ValuesAreDistinct DEF Shape, CredTypeOK, FileOK, Newer, Readable, KnownFile
<1>4. GuiOK' /\ ThreadOK' /\ RegistriesOK'
  BY <1>1 DEF Shape, GuiOK, ThreadOK, RegistriesOK
<1>5. HistoryOK'
  <2>1. faults' \in 0..MaxFaults /\ faults' # 0
    BY <1>2
  <2>2. torn' \in BOOLEAN /\ steady' \in BOOLEAN /\ damaged' \in BOOLEAN
    BY <1>1, Zenon DEF Shape, HistoryOK
  <2> QED
    BY <1>1, <2>1, <2>2 DEF Shape, HistoryOK
<1> QED
  BY <1>3, <1>4, <1>5 DEF Shape

(* So does the file of the instances. *)
LEMMA ShapeDamageRegistry ==
    ASSUME Shape, DamageRegistry
    PROVE  Shape'
<1>1. /\ Fault /\ Registered(reg) /\ reg' = Corrupt /\ regPlain' = {} /\ cut' = TRUE
      /\ UNCHANGED <<file, tab, other, gui, pend, bg, bgPend, bgOpts, insts, instPw, regStep, payload, gone, dropped, push, focus,
                     chosen, secret, seq, steady, damaged, raced, torn, saves, keyring, up, readState>>
  BY DEF DamageRegistry, ui, thread, hist, credVars
<1>2. faults \in Nat /\ faults' = faults + 1 /\ faults < MaxFaults /\ MaxFaults \in Nat
  BY <1>1, ValuesAreDistinct DEF Shape, HistoryOK, Fault
<1>3. CredTypeOK' /\ FileOK'
  BY <1>1 DEF Shape, CredTypeOK, FileOK, Newer, Readable, Registered
<1>4. GuiOK' /\ ThreadOK'
  BY <1>1 DEF Shape, GuiOK, ThreadOK
<1>5. RegistriesOK'
  BY <1>1, ValuesAreDistinct DEF Shape, RegistriesOK
<1>6. HistoryOK'
  <2>1. faults' \in 0..MaxFaults /\ faults' # 0
    BY <1>2
  <2> QED
    BY <1>1, <2>1 DEF Shape, HistoryOK
<1> QED
  BY <1>3, <1>4, <1>5, <1>6 DEF Shape

(* A crash forgets what was loaded. *)
LEMMA ShapeCrash ==
    ASSUME Shape, Crash
    PROVE  Shape'
<1>1. /\ Fault /\ gui # "start" /\ torn' = (torn \/ gui = "tab" \/ bg = "stored")
      /\ cut' = (cut \/ gui \in {"first", "store"})
      /\ tab' = Nil /\ other' = Nil /\ pend' = Nil /\ gui' = "start" /\ insts' = Nil
      /\ instPw' = {} /\ regStep' = "none" /\ payload' = {} /\ gone' = {} /\ dropped' = {}
      /\ bg' = "idle" /\ bgPend' = Nil /\ bgOpts' = Nil
      /\ readState' = [k \in Keys |-> "unread"]
      /\ UNCHANGED <<file, reg, regPlain, push, focus, chosen, secret, seq, steady, damaged, raced, saves, keyring, up>>
  BY DEF Crash
<1>2. faults \in Nat /\ faults' = faults + 1 /\ faults < MaxFaults /\ MaxFaults \in Nat
  BY <1>1, ValuesAreDistinct DEF Shape, HistoryOK, Fault
<1>3. CredTypeOK' /\ FileOK'
  BY <1>1 DEF Shape, CredTypeOK, FileOK, Newer, Readable
<1>6. cut' \in BOOLEAN /\ (cut => cut')
  BY <1>1, Zenon DEF Shape, RegistriesOK
<1>4. GuiOK' /\ ThreadOK' /\ RegistriesOK'
  BY <1>1, <1>6 DEF Shape, GuiOK, ThreadOK, RegistriesOK
<1>5. HistoryOK'
  <2>1. faults' \in 0..MaxFaults /\ faults' # 0
    BY <1>2
  <2>2. torn' \in BOOLEAN /\ steady' \in BOOLEAN /\ damaged' \in BOOLEAN
    BY <1>1, Zenon DEF Shape, HistoryOK
  <2> QED
    BY <1>1, <2>1, <2>2 DEF Shape, HistoryOK
<1> QED
  BY <1>3, <1>4, <1>5 DEF Shape

-----------------------------------------------------------------------------
(* The steps, by who takes them.                                           *)

(* Every step is one of these. *)
LEMMA SetSteps ==
    ASSUME SetNext
    PROVE  \/ BuildTab \/ LoadInstances \/ WorkerReads \/ PageAction \/ ToggleSimulation
           \/ GuiStores \/ GuiReplaces \/ BgLoads \/ BgStores \/ BgReplaces
           \/ InstanceAction \/ SaveInstances \/ StoreInstanceSecrets \/ ReplaceRegistry \/ DeleteRemoved
           \/ OpenPush \/ SavePush \/ Outage \/ Damage \/ DamageRegistry \/ Crash
BY DEF SetNext, PageAction, InstanceAction

(* A step that changes none of the variables. *)
LEMMA SettingsStutter ==
    ASSUME SettingsIInv, UNCHANGED setVars
    PROVE  SettingsIInv'
<1>1. UNCHANGED <<file, tab, other, gui, bg, pend, bgPend, bgOpts, reg, insts, regPlain, instPw, regStep, payload, gone, cut, dropped, push, focus,
                  chosen, secret, seq, steady, damaged, raced, torn, saves, faults, keyring, up, readState>>
  BY DEF setVars
<1>2. CredTypeOK' /\ FileOK' /\ GuiOK' /\ ThreadOK' /\ RegistriesOK' /\ HistoryOK'
  BY <1>1 DEF SettingsIInv, Shape, CredTypeOK, FileOK, Newer, Readable, GuiOK, ThreadOK, RegistriesOK, HistoryOK
<1>3. SimIInv' /\ BackendIInv'
  BY <1>1 DEF SettingsIInv, SimIInv, BackendIInv, Readable
<1>7. InstanceIInv' /\ HeldIInv'
  BY <1>1 DEF SettingsIInv, InstanceIInv, HeldIInv, Registered
<1>4. SecretIInv'
  BY <1>1 DEF SettingsIInv, SecretIInv, Undisturbed, Recoverable, InFile, Readable
<1>5. PushIInv'
  BY <1>1 DEF SettingsIInv, PushIInv, PushKey, Hydrated, ReadState
<1>6. UrlIInv'
  BY <1>1 DEF SettingsIInv, UrlIInv, InRegistry, Readable, Registered, Ahead
<1> QED
  BY <1>2, <1>3, <1>4, <1>5, <1>6, <1>7 DEF SettingsIInv, Shape

(* Every step keeps what the file and its holders can be. *)
LEMMA ShapeNext ==
    ASSUME Shape, SetNext
    PROVE  Shape'
<1>1. CASE PageAction
  <2>1. PICK o : PageEdit(o) /\ Held(o)
    BY <1>1, PageActions DEF PageChange
  <2> QED
    BY <2>1, ShapePage
<1>2. CASE InstanceAction
  <2>1. PICK new, pw : InstanceEdit(new, pw) /\ RegistryOK(new) /\ pw \in SUBSET Instances
    BY <1>2, InstanceActions DEF InstanceChange
  <2> QED
    BY <2>1, ShapeInstance
<1> QED
  BY <1>1, <1>2, SetSteps, ShapeBuildTab, ShapeLoadInstances, ShapeWorkerReads, ShapeToggle, ShapeGuiStores, ShapeGuiReplaces,
     ShapeBgLoads, ShapeBgStores, ShapeBgReplaces, ShapeSaveInstances, ShapeStoreInstanceSecrets, ShapeReplaceRegistry,
     ShapeDeleteRemoved, ShapeOpenPush, ShapeSavePush, ShapeOutage, ShapeDamage, ShapeDamageRegistry, ShapeCrash

-----------------------------------------------------------------------------
(* What a load does to what the layers of the invariant speak of.          *)

(* The modes a load returns, and the ones the file has after it. *)
LEMMA LoadFacts ==
    ASSUME Shape, LoadOptions
    PROVE  /\ up' = up /\ Normal(Loaded) /\ file' # Absent /\ (file' = Corrupt <=> file = Corrupt)
           /\ Readable(file') => file'.sim = Loaded.sim /\ file'.url = Loaded.url
           /\ Readable(file) => Loaded.sim = file.sim /\ Loaded.url = file.url
           /\ file = Absent => Loaded.sim = TRUE
           /\ seq' \in Nat /\ seq <= seq' /\ (seq' = seq => file' = file)
           /\ \A k \in Keys \ {SlotKey} : keyring'[k] = keyring[k] /\ readState'[k] = readState[k]
<1>1. CredTypeOK /\ KnownFile(file) /\ seq \in Nat
  BY DEF Shape, FileOK
<1>2. /\ up' = up /\ file' # Absent /\ (file' = Corrupt <=> file = Corrupt) /\ seq' \in Nat /\ seq <= seq'
      /\ \A k \in Keys \ {SlotKey} : keyring'[k] = keyring[k] /\ readState'[k] = readState[k]
      /\ LoadWrites => seq' = seq + 1 /\ file'.sim = Loaded.sim /\ file'.url = Loaded.url
      /\ ~LoadWrites => file' = file /\ seq' = seq
  BY <1>1, LoadStep
<1>3. /\ Normal(Loaded) /\ (Readable(file) => Loaded.sim = file.sim /\ Loaded.url = file.url)
      /\ (file = Absent => Loaded.sim = TRUE)
  BY <1>1, LoadedOptions
<1>4. Readable(file') => file'.sim = Loaded.sim /\ file'.url = Loaded.url
  BY <1>2, <1>3
<1>5. seq' = seq => file' = file
  BY <1>1, <1>2
<1> QED
  BY <1>2, <1>3, <1>4, <1>5

(* The file after the first start, while nothing damaged it. *)
LEMMA StartedFile ==
    ASSUME Shape, gui # "start", ~damaged
    PROVE  Readable(file)
BY DEF Shape, FileOK, Readable

(* The secret that a load finds is the one that can be recovered, before   *)
(* and after it.                                                           *)
LEMMA LoadSecret ==
    ASSUME Shape, LoadOptions, file # Corrupt
    PROVE  Loaded.pw = Recoverable /\ Recoverable' = Recoverable
<1>1. CredTypeOK /\ KnownFile(file) /\ seq \in Nat
  BY DEF Shape, FileOK
<1>2. /\ up' = up /\ file' # Absent /\ file' # Corrupt
      /\ LoadWrites => file'.pw = IF up THEN None ELSE Loaded.pw
      /\ ~LoadWrites => file' = file
      /\ keyring'[SlotKey] = IF ReadState(SlotKey) = "missing" THEN Plain ELSE keyring[SlotKey]
  BY <1>1, LoadStep
<1>3. Loaded.pw = Hydrated(SlotKey, Plain)
  BY <1>1, LoadedOptions
<1>4. Loaded.pw = Recoverable
  BY <1>3 DEF Hydrated, ReadState, Recoverable, Plain
<1>5. up => keyring'[SlotKey] = Loaded.pw
  BY <1>2, <1>3 DEF Hydrated, ReadState
<1>6. Readable(file') /\ file'.pw = IF up THEN None ELSE Loaded.pw
  <2>1. Readable(file')
    BY <1>2 DEF Readable
  <2>2. CASE ~LoadWrites
    BY <1>2, <1>4, <2>1, <2>2 DEF LoadWrites, Migrated, Recoverable
  <2> QED
    BY <1>2, <2>1, <2>2
<1>7. Recoverable' = Loaded.pw
  BY <1>2, <1>5, <1>6 DEF Recoverable
<1> QED
  BY <1>4, <1>7

(* Once started, and without a change of the backend, a load changes       *)
(* neither the file nor the keyring.                                       *)
LEMMA LoadQuiet ==
    ASSUME Shape, BackendIInv, LoadOptions, steady, gui # "start"
    PROVE  UNCHANGED <<file, seq, up, keyring>>
<1>1. CredTypeOK /\ KnownFile(file) /\ seq \in Nat /\ file # Absent
  BY DEF Shape, FileOK
<1>2. up => (Readable(file) => file.pw = None)
  BY DEF BackendIInv
<1>3. ~LoadWrites
  BY <1>1, <1>2 DEF LoadWrites, Migrated
<1>4. /\ CredTypeOK' /\ up' = up /\ file' = file /\ seq' = seq
      /\ \A k \in Keys \ {SlotKey} : keyring'[k] = keyring[k]
      /\ file = Corrupt => keyring' = keyring
      /\ file # Corrupt => keyring'[SlotKey] = IF ReadState(SlotKey) = "missing" THEN Plain ELSE keyring[SlotKey]
  BY <1>1, <1>3, LoadStep
<1>5. keyring'[SlotKey] = keyring[SlotKey]
  BY <1>2, <1>4 DEF Plain, ReadState
<1>6. keyring \in [Keys -> Word] /\ keyring' \in [Keys -> Word]
  BY <1>1, <1>4 DEF CredTypeOK, Word
<1>7. \A k \in Keys : keyring'[k] = keyring[k]
  BY <1>4, <1>5
<1>8. keyring' = keyring
  BY <1>6, <1>7
<1> QED
  BY <1>4, <1>8

(* The options the Settings tab starts with. *)
LEMMA ShownProvider ==
    ASSUME NEW o, Normal(o)
    PROVE  SameUser(ShowProvider(o, o.providers[o.active + 1]), o)
<1>1. o \in Options /\ ProvidersNormal(o) /\ Held(o)
  BY NormalIsHeld DEF Normal
<1>2. o.providers \in Seq(ProviderIds \cup {Nil}) /\ o.active + 1 \in DOMAIN o.providers
  BY <1>1 DEF ProvidersNormal, Options
<1>3. o.providers[o.active + 1] \in ToSet(o.providers)
  BY <1>2, ElementsAt
<1> QED
  BY <1>1, <1>3, HeldIsLoose, ShowKeeps

(* What the steps of the registry of instances leave alone: the options,   *)
(* their secret and the push key.                                          *)
RegistryAction == LoadInstances \/ StoreInstanceSecrets \/ ReplaceRegistry \/ DeleteRemoved

LEMMA RegistryActions ==
    ASSUME Shape, RegistryAction
    PROVE  /\ keyring'[SlotKey] = keyring[SlotKey] /\ keyring'[VapidKey] = keyring[VapidKey]
           /\ \A k \in Keys : ~up => keyring'[k] = keyring[k]
           /\ \A k \in Keys : (up /\ readState[k] # "unavailable") => readState'[k] # "unavailable"
           /\ gui \in {"pages", "first", "store"} /\ gui' \in {"first", "idle", "store", "tab"} /\ pend = Nil
           /\ tab'.sim = tab.sim /\ tab'.pw = tab.pw
           /\ UNCHANGED <<file, other, pend, bg, bgPend, bgOpts, push, focus, up,
                          chosen, secret, seq, steady, damaged, raced, torn, cut, saves, faults>>
<1>0. SlotKey \in Keys /\ VapidKey \in Keys
  BY KeysAreDistinct
<1>1. regStep # "none" => gui \in {"first", "store"}
  BY DEF Shape, RegistriesOK
<1>2. gui \in {"pages", "first", "store"} => pend = Nil /\ Normal(tab)
  BY DEF Shape, GuiOK
<1>3. CASE LoadInstances
  BY <1>0, <1>2, <1>3, LoadedInstances
<1>4. CASE StoreInstanceSecrets
  BY <1>0, <1>2, <1>4, StoredInstances
<1>5. CASE ReplaceRegistry
  <2>1. /\ regStep = "replace"
        /\ UNCHANGED <<file, tab, other, gui, pend, bg, bgPend, bgOpts, cut, push, focus,
                       chosen, secret, seq, steady, damaged, raced, torn, saves, faults, keyring, up, readState>>
    BY <1>5 DEF ReplaceRegistry, ui, thread, hist, credVars
  <2> QED
    BY <1>1, <1>2, <2>1
<1>6. CASE DeleteRemoved
  <2>1. /\ regStep = "delete"
        /\ \/ gui = "first" /\ gui' = "idle" /\ tab' = tab
           \/ gui = "store" /\ gui' = "tab" /\ tab' = [tab EXCEPT !.url = UrlOf(insts, insts.active)]
        /\ SlotKey \notin KeysOf(gone) /\ VapidKey \notin KeysOf(gone)
        /\ \A k \in Keys \ KeysOf(gone) : keyring'[k] = keyring[k]
        /\ \A k \in Keys : ~up => keyring'[k] = keyring[k]
        /\ \A k \in Keys : readState[k] # "unavailable" => readState'[k] # "unavailable"
        /\ UNCHANGED <<file, other, pend, bg, bgPend, bgOpts, cut, push, focus, up,
                       chosen, secret, seq, steady, damaged, raced, torn, saves, faults>>
    BY <1>6, DeletedInstances
  <2>2. RegistryOK(insts)
    BY <2>1 DEF Shape, RegistriesOK
  <2>3. gui = "store" => tab'.sim = tab.sim /\ tab'.pw = tab.pw
    <3> SUFFICES ASSUME gui = "store" PROVE tab'.sim = tab.sim /\ tab'.pw = tab.pw
      OBVIOUS
    <3>1. UrlOf(insts, insts.active) \in Urls /\ Normal(tab)
      BY <1>2, <2>2, UrlOfActive
    <3>2. tab' = [tab EXCEPT !.url = UrlOf(insts, insts.active)]
      BY <2>1
    <3> QED
      BY <3>1, <3>2, UrlIsFree
  <2>4. gui = "first" => tab'.sim = tab.sim /\ tab'.pw = tab.pw
    BY <2>1
  <2>5. tab'.sim = tab.sim /\ tab'.pw = tab.pw /\ pend = Nil
    BY <1>2, <2>1, <2>3, <2>4
  <2> QED
    BY <1>0, <2>1, <2>5
<1> QED
  BY <1>3, <1>4, <1>5, <1>6 DEF RegistryAction

(* Every other step leaves the passwords of the instances alone. *)
LEMMA PasswordsElsewhere ==
    ASSUME Shape, SetNext, ~RegistryAction
    PROVE  /\ \A i \in Instances : keyring'[InstKey[i]] = keyring[InstKey[i]]
           /\ \A i \in Instances : Crash \/ readState'[InstKey[i]] = readState[InstKey[i]]
<1>0. CredTypeOK
  BY DEF Shape
<1>1. \A i \in Instances : InstKey[i] \in Keys \ {SlotKey} /\ InstKey[i] \in Keys \ {VapidKey}
  BY KeysAreDistinct
<1>2. CASE BuildTab \/ WorkerReads \/ ToggleSimulation \/ BgLoads
  <2>1. LoadOptions
    BY <1>2 DEF BuildTab, WorkerReads, ToggleSimulation, BgLoads
  <2> QED
    BY <1>1, <2>1, LoadFacts
<1>3. CASE PageAction
  <2>1. PICK o : PageEdit(o)
    BY <1>3, PageActions DEF PageChange
  <2> QED
    BY <2>1 DEF PageEdit, credVars
<1>4. CASE GuiStores
  <2> DEFINE o == IF gui = "tab" THEN tab ELSE other
  <2>1. gui \in {"tab", "view"} /\ StoreSecrets(o)
    BY <1>4 DEF GuiStores
  <2>2. Held(o)
    BY <2>1, NormalIsHeld DEF Shape, GuiOK
  <2> HIDE DEF o
  <2> QED
    BY <1>0, <1>1, <2>1, <2>2, SaveStep
<1>5. CASE BgStores
  <2>1. bg = "loaded" /\ StoreSecrets(bgOpts[1])
    BY <1>5 DEF BgStores
  <2>2. Held(bgOpts[1])
    BY <2>1, NormalIsHeld DEF Shape, ThreadOK
  <2> QED
    BY <1>0, <1>1, <2>1, <2>2, SaveStep
<1>6. CASE GuiReplaces \/ BgReplaces \/ Outage \/ Damage \/ DamageRegistry \/ SaveInstances
  BY <1>6 DEF GuiReplaces, BgReplaces, Outage, BackendChanges, Damage, DamageRegistry, SaveInstances, credVars
<1>7. CASE InstanceAction
  <2>1. PICK new, pw : InstanceEdit(new, pw)
    BY <1>7, InstanceActions DEF InstanceChange
  <2> QED
    BY <2>1 DEF InstanceEdit, credVars
<1>8. CASE OpenPush
  <2>1. AfterLoad([k \in {VapidKey} |-> PushPlain]) /\ up' = up
    BY <1>8 DEF OpenPush, PushPlain
  <2>2. PushPlain \in Word /\ VapidKey \in Keys
    BY PushKeyTyped
  <2> QED
    BY <1>0, <1>1, <2>1, <2>2, ReadStep
<1>9. CASE SavePush
  <2>1. {VapidKey} \in SUBSET Keys /\ up' = up
    BY <1>9, PushSaved
  <2>2. PICK s \in Secrets : AfterSave(PushVals(s)) /\ PushVals(s) \in [{VapidKey} -> Word]
    BY <1>9, PushSaved
  <2> QED
    BY <1>0, <1>1, <2>1, <2>2, WriteStep
<1>10. CASE Crash
  BY <1>10 DEF Crash
<1> QED
  BY <1>2, <1>3, <1>4, <1>5, <1>6, <1>7, <1>8, <1>9, <1>10, SetSteps DEF RegistryAction

-----------------------------------------------------------------------------
(* The simulation mode.                                                    *)

(* The first file has the mode the user chose. *)
LEMMA SimInit ==
    ASSUME SetInit
    PROVE  SimIInv
BY DEF SetInit, SimIInv, Readable

(* Every holder of options has the mode chosen last, except while the view *)
(* that changes it saves.                                                  *)
LEMMA SimNext ==
    ASSUME Shape, SimIInv, SetNext
    PROVE  SimIInv'
<1> SUFFICES ASSUME faults' = 0, ~raced'
             PROVE  SimIInv'
  BY DEF SimIInv
<1>0. /\ seq \in Nat
      /\ bg \in {"loaded", "stored"} => bgOpts[2] \in Nat /\ bgOpts[2] <= seq
  BY DEF Shape, FileOK, ThreadOK
<1>1. faults \in Nat
  BY ValuesAreDistinct DEF Shape, HistoryOK
<1>2. (faults = 0 /\ gui # "start") => Readable(file)
  BY StartedFile DEF Shape, HistoryOK
<1>3. CASE BuildTab
  <2>1. /\ gui = "start" /\ gui' = "pages" /\ LoadOptions
        /\ tab' = ShowProvider(Loaded, Loaded.providers[Loaded.active + 1])
        /\ UNCHANGED <<other, pend, bg, bgPend, bgOpts, chosen, raced, faults, damaged>>
    BY <1>3 DEF BuildTab, thread, piholes
  <2>2. /\ Normal(Loaded) /\ file' # Absent
        /\ Readable(file') => file'.sim = Loaded.sim
        /\ Readable(file) => Loaded.sim = file.sim
        /\ file = Absent => Loaded.sim = TRUE
    BY <2>1, LoadFacts
  <2>3. tab'.sim = Loaded.sim
    BY <2>1, <2>2, ShownProvider DEF SameUser
  <2>4. pend = Nil /\ bg = "idle" /\ file # Corrupt
    BY <2>1 DEF Shape, GuiOK, ThreadOK, FileOK, HistoryOK
  <2> QED
    BY <2>1, <2>2, <2>3, <2>4 DEF SimIInv, Readable
<1>4. CASE WorkerReads
  <2>1. /\ gui # "start" /\ LoadOptions
        /\ UNCHANGED <<tab, other, gui, pend, bg, bgPend, bgOpts, chosen, raced, faults>>
    BY <1>4 DEF WorkerReads, thread, ui, piholes, Built
  <2>2. /\ file' # Absent /\ seq' \in Nat /\ seq <= seq' /\ (seq' = seq => file' = file)
        /\ Readable(file') => file'.sim = Loaded.sim
        /\ Readable(file) => Loaded.sim = file.sim
    BY <2>1, LoadFacts
  <2>3. bg \in {"loaded", "stored"} /\ bgOpts[2] = seq' => seq' = seq
    BY <1>0, <2>2
  <2> QED
    BY <1>2, <2>1, <2>2, <2>3 DEF SimIInv
<1>5. CASE PageAction
  <2>1. PICK o : PageEdit(o) /\ o.sim = tab.sim
    BY <1>5, PageActions DEF PageChange
  <2> QED
    BY <2>1 DEF PageEdit, thread, hist, SimIInv, Readable, piholes
<1>6. CASE ToggleSimulation
  <2>1. /\ gui = "idle" /\ LoadOptions /\ other' = [Loaded EXCEPT !.sim = ~chosen] /\ chosen' = ~chosen /\ gui' = "view"
        /\ UNCHANGED <<tab, pend, bg, bgPend, bgOpts, raced, faults>>
    BY <1>6 DEF ToggleSimulation, thread, piholes
  <2>2. /\ Normal(Loaded) /\ file' # Absent /\ seq' \in Nat /\ seq <= seq' /\ (seq' = seq => file' = file)
    BY <2>1, LoadFacts
  <2>3. bg \in {"loaded", "stored"} /\ bgOpts[2] = seq' => seq' = seq
    BY <1>0, <2>2
  <2>4. (~chosen) \in BOOLEAN /\ pend = Nil
    BY <2>1 DEF Shape, GuiOK
  <2>5. other'.sim = chosen'
    BY <2>1, <2>2, <2>4, SimulationIsFree
  <2> QED
    BY <2>1, <2>2, <2>3, <2>4, <2>5 DEF SimIInv
<1>7. CASE GuiStores
  <2> DEFINE o == IF gui = "tab" THEN tab ELSE other
  <2>1. /\ gui \in {"tab", "view"} /\ StoreSecrets(o) /\ pend' = ForFile(o)
        /\ tab' = (IF gui = "tab" THEN Validate(o) ELSE tab)
        /\ UNCHANGED <<file, other, gui, bg, bgPend, bgOpts, chosen, seq, raced, faults>>
    BY <1>7 DEF GuiStores, thread, piholes
  <2>2. Held(o) /\ CredTypeOK
    BY <2>1, NormalIsHeld DEF Shape, GuiOK
  <2>3. o.sim = chosen
    BY <2>1 DEF SimIInv
  <2> HIDE DEF o
  <2>4. ForFile(o).sim = o.sim /\ Validate(o).sim = o.sim
    BY <2>1, <2>2, SaveStep DEF SameUser
  <2> QED
    BY <2>1, <2>3, <2>4 DEF SimIInv, Readable
<1>8. CASE GuiReplaces
  <2>1. /\ gui \in {"tab", "view"} /\ pend # Nil /\ file' = pend /\ seq' = seq + 1
        /\ tab' = (IF gui = "view" THEN [tab EXCEPT !.sim = other.sim] ELSE tab)
        /\ pend' = Nil /\ other' = Nil /\ gui' = "idle"
        /\ UNCHANGED <<bg, bgPend, bgOpts, chosen, raced, faults>>
    BY <1>8 DEF GuiReplaces, thread, SyncTab, piholes
  <2>2. Normal(pend) /\ Normal(tab) /\ (gui = "view" => Normal(other))
    BY <2>1 DEF Shape, GuiOK
  <2>3. gui = "view" => tab'.sim = other.sim
    BY <2>1, <2>2, NormalIsHeld, SimulationIsFree
  <2>4. pend # Absent
    BY <2>2, NormalIsHeld
  <2>5. ~(bg \in {"loaded", "stored"} /\ bgOpts[2] = seq')
    BY <1>0, <2>1
  <2> QED
    BY <2>1, <2>3, <2>4, <2>5 DEF SimIInv
<1>9. CASE BgLoads
  <2>1. /\ gui # "start" /\ LoadOptions /\ bg' = "loaded" /\ bgOpts' = <<Loaded, seq'>>
        /\ UNCHANGED <<tab, other, gui, pend, bgPend, chosen, raced, faults>>
    BY <1>9 DEF BgLoads, ui, piholes, Built
  <2>2. /\ file' # Absent /\ (file' = Corrupt <=> file = Corrupt)
        /\ Readable(file') => file'.sim = Loaded.sim
        /\ Readable(file) => Loaded.sim = file.sim
    BY <2>1, LoadFacts
  <2>3. bgOpts'[1] = Loaded
    BY <2>1
  <2> QED
    BY <1>2, <2>1, <2>2, <2>3 DEF SimIInv, Readable
<1>10. CASE BgStores
  <2>1. /\ bg = "loaded" /\ StoreSecrets(bgOpts[1]) /\ bgPend' = ForFile(bgOpts[1]) /\ bg' = "stored"
        /\ raced' = (raced \/ bgOpts[2] # seq \/ pend # Nil)
        /\ UNCHANGED <<file, tab, other, gui, pend, bgOpts, chosen, seq, faults>>
    BY <1>10 DEF BgStores, ui, piholes
  <2>2. Held(bgOpts[1]) /\ CredTypeOK
    BY <2>1, NormalIsHeld DEF Shape, ThreadOK
  <2>3. bgPend'.sim = bgOpts[1].sim
    BY <2>1, <2>2, SaveStep
  <2> QED
    BY <2>1, <2>3 DEF SimIInv, Readable
<1>11. CASE BgReplaces
  <2>1. /\ bg = "stored" /\ file' = bgPend /\ bg' = "done"
        /\ raced' = (raced \/ bgOpts[2] # seq \/ pend # Nil)
        /\ UNCHANGED <<tab, other, gui, pend, chosen, faults>>
    BY <1>11 DEF BgReplaces, ui, piholes
  <2>2. Normal(bgPend) /\ gui # "start"
    BY <2>1 DEF Shape, ThreadOK
  <2>3. file' # Absent
    BY <2>1, <2>2, NormalIsHeld
  <2> QED
    BY <1>2, <2>1, <2>2, <2>3 DEF SimIInv
<1>12. CASE InstanceAction
  <2>1. PICK new, pw : InstanceEdit(new, pw)
    BY <1>12, InstanceActions DEF InstanceChange
  <2> QED
    BY <2>1 DEF InstanceEdit, thread, hist, ui, SimIInv, Readable
<1>13. CASE SaveInstances
  BY <1>13 DEF SaveInstances, thread, hist, SimIInv, Readable
<1>17. CASE RegistryAction
  BY <1>17, RegistryActions DEF SimIInv, Readable
<1>14. CASE OpenPush
  BY <1>14 DEF OpenPush, thread, hist, SimIInv, Readable, piholes
<1>15. CASE SavePush
  BY <1>15 DEF SavePush, thread, hist, SimIInv, Readable, piholes
<1>16. CASE Outage \/ Damage \/ DamageRegistry \/ Crash
  BY <1>1, <1>16 DEF Outage, Damage, DamageRegistry, Crash, Fault
<1> QED
  BY <1>3, <1>4, <1>5, <1>6, <1>7, <1>8, <1>9, <1>10, <1>11, <1>12, <1>13, <1>14, <1>15, <1>16, <1>17, SetSteps DEF RegistryAction

-----------------------------------------------------------------------------
(* The keyring while its backend stays as it is.                           *)

(* The keyring starts unread, and empty when it does not answer. *)
LEMMA BackendInit ==
    ASSUME SetInit
    PROVE  BackendIInv
<1>1. PICK stored \in SUBSET Instances :
          /\ keyring = [k \in Keys |-> IF k \in KeysOf(stored) THEN Password ELSE None]
          /\ steady = (up \/ stored = {})
  BY DEF SetInit
<1>2. gui = "start" /\ \A k \in Keys : readState[k] = "unread"
  BY DEF SetInit
<1>3. (steady /\ ~up) => \A k \in Keys : keyring[k] = None
  BY <1>1 DEF KeysOf
<1> QED
  BY <1>2, <1>3 DEF BackendIInv

(* A load. *)
LEMMA BackendLoad ==
    ASSUME Shape, BackendIInv, LoadOptions, steady
    PROVE  /\ up' = up
           /\ ~up => \A k \in Keys : keyring'[k] = None
           /\ up => \A k \in Keys : readState'[k] # "unavailable"
           /\ (up /\ Readable(file')) => file'.pw = None
<1>1. CredTypeOK /\ KnownFile(file) /\ seq \in Nat
  BY DEF Shape, FileOK
<1>2. /\ up' = up
      /\ \A k \in Keys \ {SlotKey} : keyring'[k] = keyring[k] /\ readState'[k] = readState[k]
      /\ LoadWrites => file'.pw = IF up THEN None ELSE Loaded.pw
      /\ ~LoadWrites => file' = file
      /\ file = Corrupt => keyring' = keyring /\ readState' = readState
      /\ file # Corrupt => /\ keyring'[SlotKey] = IF ReadState(SlotKey) = "missing" THEN Plain ELSE keyring[SlotKey]
                           /\ up => readState'[SlotKey] # "unavailable"
  BY <1>1, LoadStep
<1>3. /\ ~up => \A k \in Keys : keyring[k] = None
      /\ up => \A k \in Keys : readState[k] # "unavailable"
  BY DEF BackendIInv
<1>4. ~up => \A k \in Keys : keyring'[k] = None
  <2> SUFFICES ASSUME ~up, NEW k \in Keys PROVE keyring'[k] = None
    OBVIOUS
  <2>1. ReadState(SlotKey) # "missing"
    BY DEF ReadState
  <2> QED
    BY <1>2, <1>3, <2>1
<1>5. up => \A k \in Keys : readState'[k] # "unavailable"
  BY <1>2, <1>3
<1>6. (up /\ Readable(file')) => file'.pw = None
  BY <1>2 DEF LoadWrites, Migrated
<1> QED
  BY <1>2, <1>4, <1>5, <1>6

(* A write of some keys. *)
LEMMA BackendWrite ==
    ASSUME Shape, BackendIInv, steady, up' = up, file' = file, gui # "start" \/ gui' = "start",
           \A k \in Keys : ~up => keyring'[k] = keyring[k],
           \A k \in Keys : (up /\ readState[k] # "unavailable") => readState'[k] # "unavailable"
    PROVE  BackendIInv'
BY DEF BackendIInv, Readable

(* A keyring that does not answer stays empty, and one that answers leaves *)
(* no plaintext in the file.                                               *)
LEMMA BackendNext ==
    ASSUME Shape, SettingsIInv, SetNext
    PROVE  BackendIInv'
<1> SUFFICES ASSUME steady'
             PROVE  BackendIInv'
  BY DEF BackendIInv
<1>0. BackendIInv /\ SecretIInv /\ CredTypeOK
  BY DEF SettingsIInv, Shape
<1>1. CASE BuildTab \/ WorkerReads \/ ToggleSimulation \/ BgLoads
  <2>1. LoadOptions /\ steady
    BY <1>1 DEF BuildTab, WorkerReads, ToggleSimulation, BgLoads, piholes, Built
  <2> QED
    BY <1>0, <2>1, BackendLoad DEF BackendIInv
<1>2. CASE PageAction
  <2>1. PICK o : PageEdit(o)
    BY <1>2, PageActions DEF PageChange
  <2> QED
    BY <1>0, <2>1 DEF PageEdit, hist, credVars, BackendIInv, Readable, piholes
<1>3. CASE GuiStores
  <2> DEFINE o == IF gui = "tab" THEN tab ELSE other
  <2>1. gui \in {"tab", "view"} /\ StoreSecrets(o) /\ UNCHANGED <<file, gui, steady>>
    BY <1>3 DEF GuiStores, piholes
  <2>2. Held(o)
    BY <2>1, NormalIsHeld DEF Shape, GuiOK
  <2> HIDE DEF o
  <2>3. /\ up' = up /\ \A k \in Keys : readState[k] # "unavailable" => readState'[k] # "unavailable"
        /\ \A k \in Keys : ~up => keyring'[k] = keyring[k]
    BY <1>0, <2>1, <2>2, SaveStep
  <2> QED
    BY <1>0, <2>1, <2>3, BackendWrite
<1>4. CASE BgStores
  <2>1. bg = "loaded" /\ StoreSecrets(bgOpts[1]) /\ UNCHANGED <<file, gui, steady>>
    BY <1>4 DEF BgStores, ui, piholes
  <2>2. Held(bgOpts[1]) /\ gui # "start"
    BY <2>1, NormalIsHeld DEF Shape, ThreadOK
  <2>3. /\ up' = up /\ \A k \in Keys : readState[k] # "unavailable" => readState'[k] # "unavailable"
        /\ \A k \in Keys : ~up => keyring'[k] = keyring[k]
    BY <1>0, <2>1, <2>2, SaveStep
  <2> QED
    BY <1>0, <2>1, <2>2, <2>3, BackendWrite
<1>5. CASE GuiReplaces
  <2>1. pend # Nil /\ file' = pend /\ UNCHANGED <<steady, keyring, up, readState>>
    BY <1>5 DEF GuiReplaces, credVars, piholes
  <2> QED
    BY <1>0, <2>1 DEF BackendIInv, SecretIInv
<1>6. CASE BgReplaces
  <2>1. bg = "stored" /\ file' = bgPend /\ UNCHANGED <<steady, keyring, up, readState>>
    BY <1>6 DEF BgReplaces, credVars, piholes
  <2> QED
    BY <1>0, <2>1 DEF BackendIInv, SecretIInv
<1>7. CASE InstanceAction
  <2>1. PICK new, pw : InstanceEdit(new, pw)
    BY <1>7, InstanceActions DEF InstanceChange
  <2> QED
    BY <1>0, <2>1 DEF InstanceEdit, hist, ui, credVars, BackendIInv, Readable
<1>8. CASE SaveInstances
  BY <1>0, <1>8 DEF SaveInstances, hist, credVars, BackendIInv, Readable
<1>14. CASE RegistryAction
  <2>1. /\ up' = up /\ file' = file /\ gui # "start" /\ steady' = steady
        /\ \A k \in Keys : ~up => keyring'[k] = keyring[k]
        /\ \A k \in Keys : (up /\ readState[k] # "unavailable") => readState'[k] # "unavailable"
    BY <1>14, RegistryActions
  <2> QED
    BY <1>0, <2>1, BackendWrite
<1>9. CASE OpenPush
  <2>1. gui = "idle" /\ AfterLoad([k \in {VapidKey} |-> PushPlain]) /\ UNCHANGED <<file, steady, up>>
    BY <1>9 DEF OpenPush, hist, PushPlain, piholes
  <2>2. PushPlain \in Word /\ VapidKey \in Keys
    BY PushKeyTyped
  <2>3. /\ \A k \in Keys \ {VapidKey} : keyring'[k] = keyring[k] /\ readState'[k] = readState[k]
        /\ keyring'[VapidKey] = IF ReadState(VapidKey) = "missing" THEN PushPlain ELSE keyring[VapidKey]
        /\ up => readState'[VapidKey] # "unavailable"
    BY <1>0, <2>1, <2>2, ReadStep
  <2>4. ~up => \A k \in Keys : keyring'[k] = keyring[k]
    BY <2>3 DEF ReadState
  <2>5. up => \A k \in Keys : readState[k] # "unavailable" => readState'[k] # "unavailable"
    BY <2>3
  <2> QED
    BY <1>0, <2>1, <2>4, <2>5 DEF BackendIInv, Readable
<1>10. CASE SavePush
  <2>1. gui = "push" /\ UNCHANGED <<file, steady, up>> /\ {VapidKey} \in SUBSET Keys
    BY <1>10, PushSaved
  <2>2. PICK s \in Secrets : AfterSave(PushVals(s)) /\ PushVals(s) \in [{VapidKey} -> Word]
    BY <1>10, PushSaved
  <2>3. /\ \A k \in Keys : readState[k] # "unavailable" => readState'[k] # "unavailable"
        /\ \A k \in Keys : ~up => keyring'[k] = keyring[k]
    BY <1>0, <2>1, <2>2, WriteStep
  <2> QED
    BY <1>0, <2>1, <2>3, BackendWrite
<1>11. CASE Outage
  BY <1>11 DEF Outage, piholes
<1>12. CASE Damage
  BY <1>0, <1>12 DEF Damage, ui, credVars, BackendIInv, Readable, piholes
<1>15. CASE DamageRegistry
  BY <1>0, <1>15 DEF DamageRegistry, ui, hist, credVars, BackendIInv, Readable
<1>13. CASE Crash
  BY <1>0, <1>13 DEF Crash, BackendIInv
<1> QED
  BY <1>1, <1>2, <1>3, <1>4, <1>5, <1>6, <1>7, <1>8, <1>9, <1>10, <1>11, <1>12, <1>13, <1>14, <1>15, SetSteps DEF RegistryAction

-----------------------------------------------------------------------------
(* The secrets of the instances.                                           *)

(* At first every stored password is the one of a registered instance, or  *)
(* the file of the instances is lost.                                      *)
LEMMA InstanceInit ==
    ASSUME SetInit
    PROVE  InstanceIInv
<1>1. PICK stored \in SUBSET Instances :
          /\ Registered(reg) => stored \subseteq InstancesOf(reg)
          /\ reg = Nil => stored = {}
          /\ keyring = [k \in Keys |-> IF k \in KeysOf(stored) THEN Password ELSE None]
  BY DEF SetInit
<1>2. \A i \in Instances : keyring[InstKey[i]] # None => i \in stored
  BY <1>1, KeysAreDistinct DEF KeysOf
<1>3. cut = (reg \in {Corrupt, Later})
  BY DEF SetInit
<1> QED
  BY <1>1, <1>2, <1>3 DEF InstanceIInv, Registered

(* A step that leaves the secrets of the instances alone. *)
LEMMA InstanceSame ==
    ASSUME InstanceIInv,
           (steady' /\ ~cut') => /\ steady /\ ~cut /\ reg' = reg
                                 /\ regStep = "none" \/ (regStep' = regStep /\ insts' = insts /\ gone' = gone),
           \A i \in Instances : keyring'[InstKey[i]] = keyring[InstKey[i]]
    PROVE  InstanceIInv'
BY DEF InstanceIInv, Registered

(* A save of the instances registers them before it deletes the secrets of *)
(* the removed ones; no other step touches them.                           *)
LEMMA InstanceNext ==
    ASSUME Shape, SettingsIInv, SetNext
    PROVE  InstanceIInv'
<1>0. InstanceIInv /\ BackendIInv /\ CredTypeOK
  BY DEF SettingsIInv, Shape
<1>1. \A i \in Instances : InstKey[i] \in Keys
  BY KeysAreDistinct
<1>2. CASE LoadInstances
  <2>1. /\ gui = "pages" /\ InstancesOf(insts') \in SUBSET Instances
        /\ \/ regStep' = "secrets"
           \/ regStep' = "none" /\ Registered(reg)
        /\ Registered(reg) => \A i : i \in InstancesOf(insts') <=> i \in InstancesOf(reg)
        /\ \A k \in Keys \ KeysOf(InstancesOf(insts')) : keyring'[k] = keyring[k]
        /\ UNCHANGED <<reg, steady, cut>>
    BY <1>2, LoadedInstances
  <2>2. regStep = "none"
    BY <2>1 DEF Shape, RegistriesOK
  <2>3. \A i \in Instances : i \in InstancesOf(insts') \/ keyring'[InstKey[i]] = keyring[InstKey[i]]
    BY <1>1, <2>1, KeysAreDistinct DEF KeysOf
  <2> QED
    BY <1>0, <2>1, <2>2, <2>3 DEF InstanceIInv, Registered
<1>3. CASE StoreInstanceSecrets
  <2>1. /\ regStep = "secrets" /\ regStep' = "replace"
        /\ \A i \in Instances \ InstancesOf(insts) : keyring'[InstKey[i]] = keyring[InstKey[i]]
        /\ UNCHANGED <<reg, insts, steady, cut>>
    BY <1>3, StoredInstances
  <2> QED
    BY <1>0, <2>1 DEF InstanceIInv, Registered
<1>4. CASE ReplaceRegistry
  <2>1. /\ regStep = "replace" /\ gone' = Removed(reg, insts) /\ reg' = insts /\ regStep' = "delete"
        /\ UNCHANGED <<keyring, steady, cut>>
    BY <1>4 DEF ReplaceRegistry, hist, credVars
  <2>2. /\ Registered(insts)
        /\ \A i \in Instances : (Registered(reg) /\ i \in InstancesOf(reg)) => i \in InstancesOf(insts) \cup Removed(reg, insts)
    BY <2>1, RemovedInstances
  <2> QED
    BY <1>0, <2>1, <2>2 DEF InstanceIInv, Registered
<1>5. CASE DeleteRemoved
  <2>1. /\ regStep = "delete"
        /\ \A i \in Instances \ gone : keyring'[InstKey[i]] = keyring[InstKey[i]]
        /\ \A k \in Keys : ~up => keyring'[k] = keyring[k]
        /\ \A i \in gone : (up /\ readState[InstKey[i]] # "unavailable") => keyring'[InstKey[i]] = None
        /\ UNCHANGED <<reg, steady, cut>>
    BY <1>5, DeletedInstances
  <2>2. steady => \A i \in Instances : i \in gone => keyring'[InstKey[i]] = None
    BY <1>0, <1>1, <2>1 DEF BackendIInv
  <2> QED
    BY <1>0, <2>1, <2>2 DEF InstanceIInv, Registered
<1>6. CASE ~RegistryAction
  <2>1. \A i \in Instances : keyring'[InstKey[i]] = keyring[InstKey[i]]
    BY <1>6, PasswordsElsewhere
  <2>2. gui \notin {"first", "store"} => regStep = "none"
    BY DEF Shape, RegistriesOK
  <2>3. (steady' /\ ~cut') => /\ steady /\ ~cut /\ reg' = reg
                              /\ regStep = "none" \/ (regStep' = regStep /\ insts' = insts /\ gone' = gone)
    <3>1. CASE PageAction
      <4>1. PICK o : PageEdit(o)
        BY <3>1, PageActions DEF PageChange
      <4> QED
        BY <4>1 DEF PageEdit, piholes, hist
    <3>2. CASE InstanceAction
      <4>1. PICK new, pw : InstanceEdit(new, pw)
        BY <3>2, InstanceActions DEF InstanceChange
      <4> QED
        BY <2>2, <4>1 DEF InstanceEdit, hist
    <3>3. CASE BuildTab \/ WorkerReads \/ ToggleSimulation \/ GuiStores \/ GuiReplaces
      BY <3>3 DEF BuildTab, WorkerReads, ToggleSimulation, GuiStores, GuiReplaces, piholes
    <3>4. CASE BgLoads \/ BgStores \/ BgReplaces \/ OpenPush \/ SavePush
      BY <3>4 DEF BgLoads, BgStores, BgReplaces, OpenPush, SavePush, piholes, hist
    <3>5. CASE SaveInstances \/ Crash
      BY <2>2, <3>5 DEF SaveInstances, Crash, hist
    <3>6. CASE Outage \/ Damage \/ DamageRegistry
      BY <3>6 DEF Outage, Damage, DamageRegistry, piholes, hist
    <3> QED
      BY <1>6, <3>1, <3>2, <3>3, <3>4, <3>5, <3>6, SetSteps DEF RegistryAction
  <2> QED
    BY <1>0, <2>1, <2>3, InstanceSame
<1> QED
  BY <1>2, <1>3, <1>4, <1>5, <1>6 DEF RegistryAction

(* The tab holds no password at first. *)
LEMMA HeldInit ==
    ASSUME SetInit
    PROVE  HeldIInv
BY DEF SetInit, HeldIInv

(* A step that leaves the passwords of the tab alone. *)
LEMMA HeldSame ==
    ASSUME HeldIInv, gui' \in {"start", "pages"} \/ (gui \notin {"start", "pages"} /\ UNCHANGED <<insts, instPw, dropped>>),
           InstancesOf(insts) \in SUBSET Instances \/ gui' \in {"start", "pages"},
           \A i \in Instances : keyring'[InstKey[i]] = keyring[InstKey[i]],
           \A i \in Instances : readState'[InstKey[i]] = readState[InstKey[i]]
    PROVE  HeldIInv'
BY DEF HeldIInv

(* A password the tab does not hold is missing, was not readable, or was   *)
(* emptied by the user.                                                    *)
LEMMA HeldNext ==
    ASSUME Shape, HeldIInv, SetNext
    PROVE  HeldIInv'
<1>1. gui \notin {"start", "pages"} => InstancesOf(insts) \in SUBSET Instances
  BY RegistryEntries DEF Shape, RegistriesOK, RegistryOK
<1>2. CASE LoadInstances
  BY <1>2, LoadedInstances DEF HeldIInv
<1>3. CASE StoreInstanceSecrets
  <2>1. /\ gui \in {"first", "store"}
        /\ \A i \in InstancesOf(insts) : i \notin instPw => keyring'[InstKey[i]] \in {None, keyring[InstKey[i]]}
        /\ \A i \in InstancesOf(insts) : (i \notin instPw /\ readState[InstKey[i]] = "unavailable") =>
               keyring'[InstKey[i]] = keyring[InstKey[i]] /\ readState'[InstKey[i]] = "unavailable"
        /\ UNCHANGED <<gui, insts, instPw, dropped>>
    BY <1>3, StoredInstances
  <2> QED
    BY <2>1 DEF HeldIInv
<1>4. CASE ReplaceRegistry
  <2>1. UNCHANGED <<gui, insts, instPw, dropped, keyring, readState>>
    BY <1>4 DEF ReplaceRegistry, ui, credVars
  <2> QED
    BY <2>1 DEF HeldIInv
<1>5. CASE DeleteRemoved
  <2>1. /\ gui \in {"first", "store"}
        /\ \A k \in Keys \ KeysOf(gone) : keyring'[k] = keyring[k] /\ readState'[k] = readState[k]
        /\ \A k \in Keys : keyring'[k] \in {None, keyring[k]}
        /\ \A k \in KeysOf(gone) : readState[k] = "unavailable" => keyring'[k] = keyring[k] /\ readState'[k] = "unavailable"
        /\ UNCHANGED <<insts, instPw, dropped>>
    BY <1>5, DeletedInstances
  <2>2. \A i \in InstancesOf(insts) : InstKey[i] \in Keys
    BY <1>1, <2>1, KeysAreDistinct
  <2> QED
    BY <2>1, <2>2 DEF HeldIInv
<1>6. CASE InstanceAction
  <2>1. PICK new, pw : /\ InstanceEdit(new, pw)
                       /\ \A i \in InstancesOf(new) : i \in InstancesOf(insts) \cup pw
    BY <1>6, InstanceActions DEF InstanceChange
  <2>2. /\ gui = "idle" /\ insts' = new /\ instPw' = pw /\ dropped' = (dropped \cup (instPw \ pw)) \ pw
        /\ UNCHANGED <<keyring, readState>>
    BY <2>1 DEF InstanceEdit, credVars
  <2>3. \A i \in InstancesOf(new) : i \notin pw => i \in InstancesOf(insts) /\ (i \in instPw \/ i \in dropped => i \in dropped')
    BY <2>1, <2>2
  <2> QED
    BY <2>2, <2>3 DEF HeldIInv
<1>7. CASE Crash
  BY <1>7 DEF Crash, HeldIInv
<1>8. CASE ~RegistryAction /\ ~InstanceAction /\ ~Crash
  <2>1. /\ \A i \in Instances : keyring'[InstKey[i]] = keyring[InstKey[i]]
        /\ \A i \in Instances : readState'[InstKey[i]] = readState[InstKey[i]]
    BY <1>8, PasswordsElsewhere
  <2>2. gui' \in {"start", "pages"} \/ (gui \notin {"start", "pages"} /\ UNCHANGED <<insts, instPw, dropped>>)
    <3>1. CASE PageAction
      <4>1. PICK o : PageEdit(o)
        BY <3>1, PageActions DEF PageChange
      <4> QED
        BY <4>1 DEF PageEdit, piholes
    <3>2. CASE BuildTab \/ WorkerReads \/ ToggleSimulation \/ GuiStores \/ GuiReplaces
      BY <3>2 DEF BuildTab, WorkerReads, ToggleSimulation, GuiStores, GuiReplaces, piholes, ui, Built
    <3>3. CASE BgLoads \/ BgStores \/ BgReplaces
      <4>1. bg # "idle" => gui \notin {"start", "pages"}
        BY DEF Shape, ThreadOK
      <4> QED
        BY <3>3, <4>1 DEF BgLoads, BgStores, BgReplaces, piholes, ui, Built
    <3>4. CASE OpenPush \/ SavePush \/ SaveInstances
      BY <3>4 DEF OpenPush, SavePush, SaveInstances, piholes
    <3>5. CASE Outage \/ Damage \/ DamageRegistry
      <4>1. gui' = gui /\ UNCHANGED <<insts, instPw, dropped>>
        BY <3>5 DEF Outage, Damage, DamageRegistry, piholes, ui
      <4> QED
        BY <4>1
    <3> QED
      BY <1>8, <3>1, <3>2, <3>3, <3>4, <3>5, SetSteps DEF RegistryAction
  <2> QED
    BY <1>1, <2>1, <2>2, HeldSame
<1> QED
  BY <1>2, <1>3, <1>4, <1>5, <1>6, <1>7, <1>8 DEF RegistryAction

-----------------------------------------------------------------------------
(* The secret of the options.                                              *)

(* The secret of the first file can be read. *)
LEMMA SecretInit ==
    ASSUME SetInit
    PROVE  SecretIInv
<1>1. SlotKey \in Keys
  BY KeysAreDistinct
<1>2. PICK stored \in SUBSET Instances : keyring = [k \in Keys |-> IF k \in KeysOf(stored) THEN Password ELSE None]
  BY DEF SetInit
<1>3. keyring[SlotKey] = None
  BY <1>1, <1>2, KeysAreDistinct DEF KeysOf
<1> QED
  BY <1>3 DEF SetInit, SecretIInv, Recoverable, Undisturbed

(* What the slot gives once a secret was stored and while the file holds   *)
(* none of it, or all of it.                                               *)
LEMMA RecoveredFrom ==
    ASSUME NEW s, Readable(file'), file'.pw = (IF up' THEN None ELSE s), up' => keyring'[SlotKey] = s
    PROVE  Recoverable' = s
BY DEF Recoverable

(* A step that leaves the secret alone, wherever it is held. *)
LEMMA SecretSame ==
    ASSUME SecretIInv, UNCHANGED <<file, pend, bg, bgPend, bgOpts, secret, seq, steady, damaged, raced, torn, up>>,
           keyring'[SlotKey] = keyring[SlotKey],
           Undisturbed =>
             /\ (gui' \notin {"start", "tab"} \/ pend # Nil) => tab'.pw = secret
             /\ gui' = "view" => other'.pw = secret /\ Recoverable = secret
    PROVE  SecretIInv'
<1>1. Undisturbed' = Undisturbed /\ Recoverable' = Recoverable
  BY DEF Undisturbed, Recoverable, Readable
<1> QED
  BY <1>1 DEF SecretIInv, InFile

(* Every holder of options has the secret saved last, or one of the named  *)
(* disturbances happened.                                                  *)
LEMMA SecretNext ==
    ASSUME Shape, SettingsIInv, SetNext
    PROVE  SecretIInv'
<1>0. SecretIInv /\ BackendIInv /\ CredTypeOK /\ SlotKey \in Keys
      /\ (bg \in {"loaded", "stored"} => bgOpts[2] \in Nat /\ bgOpts[2] <= seq) /\ seq \in Nat
      /\ (~damaged => file # Corrupt)
      /\ (pend # Nil => gui \in {"tab", "view"})
  BY KeysAreDistinct DEF SettingsIInv, Shape, ThreadOK, FileOK, GuiOK
<1>2. CASE BuildTab
  <2>1. /\ gui = "start" /\ gui' = "pages" /\ LoadOptions
        /\ tab' = ShowProvider(Loaded, Loaded.providers[Loaded.active + 1])
        /\ UNCHANGED <<other, pend, bg, bgPend, bgOpts, secret, steady, raced, torn, damaged>>
    BY <1>2 DEF BuildTab, thread, piholes
  <2>2. pend = Nil /\ bg = "idle"
    BY <2>1 DEF Shape, GuiOK, ThreadOK
  <2>3. tab'.pw = Loaded.pw
    BY <2>1, LoadFacts, ShownProvider DEF SameUser
  <2>4. ~damaged => Loaded.pw = Recoverable /\ Recoverable' = Recoverable
    BY <1>0, <2>1, LoadSecret
  <2>5. Undisturbed' => Undisturbed
    BY <2>1, <2>2 DEF Undisturbed
  <2>6. Undisturbed => ~damaged /\ Recoverable = secret
    BY <1>0, <2>2 DEF SecretIInv, Undisturbed
  <2> QED
    BY <2>1, <2>2, <2>3, <2>4, <2>5, <2>6 DEF SecretIInv
<1>3. CASE WorkerReads
  <2>1. /\ gui # "start" /\ LoadOptions
        /\ UNCHANGED <<tab, other, gui, pend, bg, bgPend, bgOpts, secret, steady, damaged, raced, torn>>
    BY <1>3 DEF WorkerReads, thread, ui, piholes, Built
  <2>2. CASE steady
    <3>1. UNCHANGED <<file, seq, up, keyring>>
      BY <1>0, <2>1, <2>2, LoadQuiet
    <3> QED
      BY <1>0, <2>1, <3>1, SecretSame DEF SecretIInv
  <2>3. CASE ~steady
    BY <2>1, <2>3 DEF SecretIInv, Undisturbed
  <2> QED
    BY <2>2, <2>3
<1>4. CASE PageAction
  <2>1. PICK o : PageEdit(o)
    BY <1>4, PageActions DEF PageChange
  <2>2. /\ gui = "idle" /\ gui' = "tab"
        /\ UNCHANGED <<file, other, pend, bg, bgPend, bgOpts, secret, seq, steady, damaged, raced, torn, up, keyring>>
    BY <2>1 DEF PageEdit, thread, hist, credVars, piholes
  <2> QED
    BY <1>0, <2>2, SecretSame DEF SecretIInv
<1>5. CASE ToggleSimulation
  <2>1. /\ gui = "idle" /\ LoadOptions /\ other' = [Loaded EXCEPT !.sim = ~chosen] /\ gui' = "view"
        /\ UNCHANGED <<tab, pend, bg, bgPend, bgOpts, secret, steady, damaged, raced, torn>>
    BY <1>5 DEF ToggleSimulation, thread, piholes
  <2>2. CASE steady
    <3>1. UNCHANGED <<file, seq, up, keyring>>
      BY <1>0, <2>1, <2>2, LoadQuiet
    <3>2. (~chosen) \in BOOLEAN /\ Normal(Loaded)
      BY <2>1, LoadFacts
    <3>3. other'.pw = Loaded.pw
      BY <2>1, <3>2, SimulationIsFree
    <3>4. ~damaged => Loaded.pw = Recoverable
      BY <1>0, <2>1, LoadSecret
    <3>5. Undisturbed => ~damaged /\ Recoverable = secret /\ tab.pw = secret
      BY <1>0, <2>1 DEF SecretIInv, Undisturbed
    <3> QED
      BY <1>0, <2>1, <3>1, <3>3, <3>4, <3>5, SecretSame
  <2>3. CASE ~steady
    BY <2>1, <2>3 DEF SecretIInv, Undisturbed
  <2> QED
    BY <2>2, <2>3
<1>6. CASE GuiStores
  <2> DEFINE o == IF gui = "tab" THEN tab ELSE other
  <2>1. /\ gui \in {"tab", "view"} /\ pend = Nil /\ StoreSecrets(o) /\ pend' = ForFile(o)
        /\ tab' = (IF gui = "tab" THEN Validate(o) ELSE tab)
        /\ secret' = (IF gui = "tab" THEN o.pw ELSE secret)
        /\ UNCHANGED <<file, other, gui, bg, bgPend, bgOpts, seq, steady, damaged, raced, torn>>
    BY <1>6 DEF GuiStores, thread, piholes
  <2>2. Held(o)
    BY <2>1, NormalIsHeld DEF Shape, GuiOK
  <2>3. gui = "view" => o = other
    OBVIOUS
  <2> HIDE DEF o
  <2>4. /\ up' = up
        /\ ~up => keyring'[SlotKey] = keyring[SlotKey]
        /\ (up /\ readState[SlotKey] # "unavailable") => keyring'[SlotKey] = o.pw
        /\ Validate(o).pw = o.pw /\ Normal(ForFile(o)) /\ ForFile(o).pw = InFile(o.pw)
    BY <1>0, <2>1, <2>2, SaveStep DEF SameUser
  <2>5. pend' # Nil
    BY <2>1, <2>4, NormalIsHeld
  <2>6. steady => (up => keyring'[SlotKey] = o.pw /\ (Readable(file) => file.pw = None))
    BY <1>0, <2>1, <2>4 DEF BackendIInv
  <2>7. Undisturbed' => Undisturbed /\ steady /\ ~damaged
    BY <2>1 DEF Undisturbed
  <2>8. Undisturbed => o.pw = secret'
    BY <1>0, <2>1, <2>3 DEF SecretIInv
  <2>9. (Undisturbed /\ gui = "view") => Recoverable' = secret
    <3> SUFFICES ASSUME Undisturbed, gui = "view" PROVE Recoverable' = secret
      OBVIOUS
    <3>1. Recoverable = secret /\ steady /\ o.pw = secret /\ Readable(file)
      BY <1>0, <2>1, <2>8, StartedFile DEF SecretIInv, Undisturbed
    <3>2. up => file.pw = None
      BY <2>6, <3>1
    <3>3. ~up => file.pw = secret
      BY <3>1 DEF Recoverable
    <3> QED
      BY <2>1, <2>4, <2>6, <3>1, <3>2, <3>3, RecoveredFrom
  <2>10. Undisturbed => (tab'.pw = secret' /\ (gui = "view" => other.pw = secret'))
    BY <1>0, <2>1, <2>4, <2>8 DEF SecretIInv
  <2>11. pend'.pw = InFile(o.pw)
    BY <2>1, <2>4
  <2>12. steady' => /\ (pend' # Nil /\ up') => pend'.pw = None
                    /\ (bg' = "stored" /\ up') => bgPend'.pw = None
    BY <1>0, <2>1, <2>4, <2>11 DEF SecretIInv, InFile
  <2>13. Undisturbed' =>
            /\ gui' = "view" => Recoverable' = secret'
            /\ tab'.pw = secret'
            /\ gui' = "view" => other'.pw = secret'
            /\ pend'.pw = InFile(secret)' /\ (up' => keyring'[SlotKey] = secret')
    BY <2>1, <2>4, <2>6, <2>7, <2>8, <2>9, <2>10, <2>11 DEF InFile
  <2> QED
    BY <2>5, <2>12, <2>13 DEF SecretIInv
<1>7. CASE GuiReplaces
  <2>1. /\ gui \in {"tab", "view"} /\ pend # Nil /\ file' = pend /\ seq' = seq + 1
        /\ tab' = (IF gui = "view" THEN [tab EXCEPT !.sim = other.sim] ELSE tab)
        /\ pend' = Nil /\ other' = Nil /\ gui' = "idle"
        /\ UNCHANGED <<bg, bgPend, bgOpts, secret, steady, damaged, raced, torn, keyring, up>>
    BY <1>7 DEF GuiReplaces, thread, SyncTab, credVars, piholes
  <2>2. Normal(pend) /\ Normal(tab) /\ (gui = "view" => Normal(other))
    BY <2>1 DEF Shape, GuiOK
  <2>3. tab'.pw = tab.pw
    BY <2>1, <2>2, NormalIsHeld, SimulationIsFree
  <2>4. Readable(file')
    BY <2>1, <2>2, NormalIsHeld DEF Readable
  <2>5. Undisturbed' => Undisturbed /\ bg # "stored" /\ ~(bg = "loaded" /\ bgOpts[2] = seq')
    BY <1>0, <2>1 DEF Undisturbed
  <2>6. Undisturbed => tab.pw = secret /\ pend.pw = InFile(secret) /\ (up => keyring[SlotKey] = secret)
    BY <1>0, <2>1 DEF SecretIInv
  <2>7. Undisturbed => Recoverable' = secret
    BY <2>1, <2>4, <2>6, RecoveredFrom DEF InFile
  <2> QED
    BY <1>0, <2>1, <2>3, <2>5, <2>6, <2>7 DEF SecretIInv
<1>8. CASE BgLoads
  <2>1. /\ gui # "start" /\ bg = "idle" /\ LoadOptions /\ bg' = "loaded" /\ bgOpts' = <<Loaded, seq'>>
        /\ UNCHANGED <<tab, other, gui, pend, bgPend, secret, steady, damaged, raced, torn>>
    BY <1>8 DEF BgLoads, ui, piholes, Built
  <2>2. CASE steady
    <3>1. UNCHANGED <<file, seq, up, keyring>>
      BY <1>0, <2>1, <2>2, LoadQuiet
    <3>2. bgOpts'[1] = Loaded
      BY <2>1
    <3>3. ~damaged => Loaded.pw = Recoverable
      BY <1>0, <2>1, LoadSecret
    <3>4. Undisturbed' => Undisturbed /\ ~damaged
      BY <2>1, <3>1 DEF Undisturbed
    <3>5. Recoverable' = Recoverable
      BY <3>1 DEF Recoverable, Readable
    <3> QED
      BY <1>0, <2>1, <3>1, <3>2, <3>3, <3>4, <3>5 DEF SecretIInv, InFile
  <2>3. CASE ~steady
    BY <2>1, <2>3 DEF SecretIInv, Undisturbed
  <2> QED
    BY <2>2, <2>3
<1>9. CASE BgStores
  <2> DEFINE o == bgOpts[1]
  <2>1. /\ bg = "loaded" /\ StoreSecrets(o) /\ bgPend' = ForFile(o) /\ bg' = "stored"
        /\ raced' = (raced \/ bgOpts[2] # seq \/ pend # Nil)
        /\ UNCHANGED <<file, tab, other, gui, pend, bgOpts, secret, seq, steady, damaged, torn>>
    BY <1>9 DEF BgStores, ui, piholes
  <2>2. Held(o) /\ gui # "start"
    BY <2>1, NormalIsHeld DEF Shape, ThreadOK
  <2>3. Undisturbed' => Undisturbed /\ steady /\ ~damaged /\ bgOpts[2] = seq /\ pend = Nil
    BY <2>1 DEF Undisturbed
  <2>4. (Undisturbed /\ bgOpts[2] = seq /\ pend = Nil) => o.pw = secret /\ Recoverable = secret
    BY <1>0, <2>1 DEF SecretIInv
  <2> HIDE DEF o
  <2>5. /\ up' = up
        /\ (up /\ readState[SlotKey] # "unavailable") => keyring'[SlotKey] = o.pw
        /\ ~up => keyring'[SlotKey] = keyring[SlotKey]
        /\ ForFile(o).pw = InFile(o.pw)
    BY <1>0, <2>1, <2>2, SaveStep
  <2>6. steady => (up => keyring'[SlotKey] = o.pw /\ (Readable(file) => file.pw = None))
    BY <1>0, <2>2, <2>5 DEF BackendIInv
  <2>7. Undisturbed' => Recoverable' = secret
    <3> SUFFICES ASSUME Undisturbed' PROVE Recoverable' = secret
      OBVIOUS
    <3>1. Recoverable = secret /\ steady /\ o.pw = secret /\ Readable(file)
      BY <2>2, <2>3, <2>4, StartedFile
    <3>2. up => file.pw = None
      BY <2>6, <3>1
    <3>3. ~up => file.pw = secret
      BY <3>1 DEF Recoverable
    <3> QED
      BY <2>1, <2>5, <2>6, <3>1, <3>2, <3>3, RecoveredFrom
  <2>8. bgPend'.pw = InFile(o.pw)
    BY <2>1, <2>5
  <2>9. steady' => /\ (pend' # Nil /\ up') => pend'.pw = None
                   /\ (bg' = "stored" /\ up') => bgPend'.pw = None
    BY <1>0, <2>1, <2>5, <2>8 DEF SecretIInv, InFile
  <2>10. Undisturbed' =>
            /\ Recoverable' = secret' /\ pend' = Nil
            /\ gui' \notin {"start", "tab"} => tab'.pw = secret'
            /\ gui' = "view" => other'.pw = secret'
            /\ bgPend'.pw = InFile(secret)'
    BY <1>0, <2>1, <2>3, <2>4, <2>5, <2>7, <2>8 DEF SecretIInv, InFile
  <2> QED
    BY <2>1, <2>9, <2>10 DEF SecretIInv
<1>10. CASE BgReplaces
  <2>1. /\ bg = "stored" /\ file' = bgPend /\ bg' = "done"
        /\ raced' = (raced \/ bgOpts[2] # seq \/ pend # Nil)
        /\ UNCHANGED <<tab, other, gui, pend, secret, steady, damaged, torn, keyring, up>>
    BY <1>10 DEF BgReplaces, ui, credVars, piholes
  <2>2. Normal(bgPend) /\ gui # "start"
    BY <2>1 DEF Shape, ThreadOK
  <2>3. Readable(file')
    BY <2>1, <2>2, NormalIsHeld DEF Readable
  <2>4. Undisturbed' => Undisturbed /\ steady /\ ~damaged /\ pend = Nil
    BY <2>1 DEF Undisturbed
  <2>5. (Undisturbed /\ pend = Nil) => Recoverable = secret /\ bgPend.pw = InFile(secret)
    BY <1>0, <2>1 DEF SecretIInv
  <2>6. Undisturbed' => Recoverable' = secret
    <3> SUFFICES ASSUME Undisturbed' PROVE Recoverable' = secret
      OBVIOUS
    <3>1. Recoverable = secret /\ file'.pw = InFile(secret) /\ Readable(file) /\ steady
      BY <2>1, <2>2, <2>4, <2>5, StartedFile
    <3>2. up => file.pw = None
      BY <1>0, <2>2, <3>1 DEF BackendIInv
    <3>3. up => keyring[SlotKey] = secret
      BY <3>1, <3>2 DEF Recoverable
    <3> QED
      BY <2>1, <2>3, <3>1, <3>3, RecoveredFrom DEF InFile
  <2> QED
    BY <1>0, <2>1, <2>4, <2>6 DEF SecretIInv
<1>11. CASE InstanceAction
  <2>1. PICK new, pw : InstanceEdit(new, pw)
    BY <1>11, InstanceActions DEF InstanceChange
  <2>2. UNCHANGED <<file, tab, other, gui, pend, bg, bgPend, bgOpts, secret, seq, steady, damaged, raced, torn, up, keyring>>
    BY <2>1 DEF InstanceEdit, thread, ui, hist, credVars
  <2> QED
    BY <1>0, <2>2, SecretSame DEF SecretIInv
<1>12. CASE SaveInstances
  <2>1. /\ gui = "idle" /\ gui' = "store"
        /\ UNCHANGED <<file, tab, pend, bg, bgPend, bgOpts, secret, seq, steady, damaged, raced, torn, up, keyring>>
    BY <1>12 DEF SaveInstances, hist, thread, credVars
  <2> QED
    BY <1>0, <2>1, SecretSame DEF SecretIInv
<1>18. CASE RegistryAction
  <2>1. /\ gui \in {"pages", "first", "store"} /\ gui' \in {"first", "idle", "store", "tab"} /\ pend = Nil /\ tab'.pw = tab.pw
        /\ keyring'[SlotKey] = keyring[SlotKey]
        /\ UNCHANGED <<file, pend, bg, bgPend, bgOpts, secret, seq, steady, damaged, raced, torn, up>>
    BY <1>18, RegistryActions
  <2> QED
    BY <1>0, <2>1, SecretSame DEF SecretIInv
<1>13. CASE OpenPush
  <2>1. /\ AfterLoad([k \in {VapidKey} |-> PushPlain]) /\ gui = "idle" /\ gui' = "push"
        /\ UNCHANGED <<file, tab, pend, bg, bgPend, bgOpts, secret, seq, steady, damaged, raced, torn, up>>
    BY <1>13 DEF OpenPush, hist, thread, PushPlain, piholes
  <2>2. PushPlain \in Word /\ VapidKey \in Keys /\ VapidKey # SlotKey
    BY PushKeyTyped
  <2>3. keyring'[SlotKey] = keyring[SlotKey]
    BY <1>0, <2>1, <2>2, ReadStep
  <2> QED
    BY <1>0, <2>1, <2>3, SecretSame DEF SecretIInv
<1>14. CASE SavePush
  <2>1. /\ gui = "push" /\ gui' = "idle" /\ {VapidKey} \in SUBSET Keys
        /\ UNCHANGED <<file, tab, pend, bg, bgPend, bgOpts, secret, seq, steady, damaged, raced, torn, up>>
    BY <1>14, PushSaved
  <2>3. PICK s \in Secrets : AfterSave(PushVals(s)) /\ PushVals(s) \in [{VapidKey} -> Word]
    BY <1>14, PushSaved
  <2>2. keyring'[SlotKey] = keyring[SlotKey]
    BY <1>0, <2>1, <2>3, WriteStep, PushKeyTyped
  <2> QED
    BY <1>0, <2>1, <2>2, SecretSame DEF SecretIInv
<1>15. CASE Outage
  BY <1>15 DEF Outage, SecretIInv, Undisturbed, piholes
<1>16. CASE Damage
  BY <1>0, <1>16 DEF Damage, ui, thread, credVars, SecretIInv, Undisturbed, piholes
<1>19. CASE DamageRegistry
  <2>1. UNCHANGED <<file, tab, other, gui, pend, bg, bgPend, bgOpts, secret, seq, steady, damaged, raced, torn, up, keyring>>
    BY <1>19 DEF DamageRegistry, ui, thread, hist, credVars
  <2> QED
    BY <1>0, <2>1, SecretSame DEF SecretIInv
<1>17. CASE Crash
  <2>1. /\ torn' = (torn \/ gui = "tab" \/ bg = "stored") /\ gui' = "start" /\ pend' = Nil /\ bg' = "idle"
        /\ UNCHANGED <<file, secret, seq, steady, damaged, raced, keyring, up>>
    BY <1>17 DEF Crash
  <2>2. Undisturbed' => Undisturbed /\ (pend = Nil \/ gui = "view")
    BY <1>0, <2>1 DEF Undisturbed
  <2>3. Recoverable' = Recoverable
    BY <2>1 DEF Recoverable, Readable
  <2> QED
    BY <1>0, <2>1, <2>2, <2>3 DEF SecretIInv
<1> QED
  BY <1>2, <1>3, <1>4, <1>5, <1>6, <1>7, <1>8, <1>9, <1>10, <1>11, <1>12, <1>13, <1>14, <1>15, <1>16, <1>17, <1>18, <1>19, SetSteps DEF RegistryAction

-----------------------------------------------------------------------------
(* The key of the push notifications.                                      *)

(* No push page is open at first. *)
LEMMA PushInit ==
    ASSUME SetInit
    PROVE  PushIInv
BY DEF SetInit, PushIInv

(* Opening the page moves the key and does not change it. *)
LEMMA OpenedKey ==
    ASSUME Shape, OpenPush
    PROVE  other' = PushKey /\ PushKey' = PushKey
<1>1. /\ AfterLoad([k \in {VapidKey} |-> PushPlain]) /\ other' = PushKey /\ up' = up
      /\ push' = (IF push # Nil /\ Migrated(VapidKey, push) THEN None ELSE push)
  BY DEF OpenPush, PushPlain, piholes
<1>2. PushPlain \in Word /\ VapidKey \in Keys /\ CredTypeOK
  BY PushKeyTyped DEF Shape
<1>3. keyring'[VapidKey] = IF ReadState(VapidKey) = "missing" THEN PushPlain ELSE keyring[VapidKey]
  BY <1>1, <1>2, ReadStep
<1>4. CASE ~up
  BY <1>1, <1>4 DEF PushKey, Hydrated, ReadState, Migrated
<1>5. CASE up
  <2>1. PushKey = IF keyring[VapidKey] # None THEN keyring[VapidKey] ELSE PushPlain
    BY <1>5 DEF PushKey, Hydrated, ReadState, PushPlain
  <2>2. PushKey' = IF keyring'[VapidKey] # None THEN keyring'[VapidKey] ELSE PushPlain'
    BY <1>1, <1>5 DEF PushKey, Hydrated, ReadState, PushPlain
  <2>3. keyring'[VapidKey] = PushKey
    BY <1>3, <1>5, <2>1 DEF ReadState
  <2>4. PushKey = None => PushPlain' = None
    BY <1>1, <2>1 DEF PushPlain
  <2> QED
    BY <1>1, <2>2, <2>3, <2>4
<1> QED
  BY <1>1, <1>4, <1>5

(* A step that leaves the key alone. *)
LEMMA PushSame ==
    ASSUME UNCHANGED <<push, up>>, keyring'[VapidKey] = keyring[VapidKey]
    PROVE  PushKey' = PushKey
BY DEF PushKey, Hydrated, ReadState

(* Every other step leaves the key alone while the backend stays. *)
LEMMA PushElsewhere ==
    ASSUME Shape, SetNext, ~OpenPush, ~SavePush
    PROVE  /\ steady' => steady /\ PushKey' = PushKey
           /\ gui' = "push" => gui = "push" /\ other' = other
           /\ push' = push
<1>0. CredTypeOK /\ VapidKey \in Keys /\ VapidKey \in Keys \ {SlotKey}
  BY PushKeyTyped DEF Shape
<1>1. CASE BuildTab \/ WorkerReads \/ ToggleSimulation \/ BgLoads
  <2>1. /\ LoadOptions /\ UNCHANGED <<push, steady>>
        /\ gui' = "push" => gui = "push" /\ other' = other
    BY <1>1 DEF BuildTab, WorkerReads, ToggleSimulation, BgLoads, ui, piholes, Built
  <2>2. keyring'[VapidKey] = keyring[VapidKey] /\ up' = up
    BY <1>0, <2>1, LoadFacts
  <2> QED
    BY <2>1, <2>2, PushSame
<1>2. CASE PageAction
  <2>1. PICK o : PageEdit(o)
    BY <1>2, PageActions DEF PageChange
  <2> QED
    BY <2>1, PushSame DEF PageEdit, hist, credVars, piholes
<1>3. CASE GuiStores
  <2> DEFINE o == IF gui = "tab" THEN tab ELSE other
  <2>1. gui \in {"tab", "view"} /\ StoreSecrets(o) /\ UNCHANGED <<push, gui, other, steady>>
    BY <1>3 DEF GuiStores, piholes
  <2>2. Held(o)
    BY <2>1, NormalIsHeld DEF Shape, GuiOK
  <2> HIDE DEF o
  <2>3. keyring'[VapidKey] = keyring[VapidKey] /\ up' = up
    BY <1>0, <2>1, <2>2, SaveStep
  <2> QED
    BY <2>1, <2>3, PushSame
<1>4. CASE BgStores
  <2>1. bg = "loaded" /\ StoreSecrets(bgOpts[1]) /\ UNCHANGED <<push, gui, other, steady>>
    BY <1>4 DEF BgStores, ui, piholes
  <2>2. Held(bgOpts[1])
    BY <2>1, NormalIsHeld DEF Shape, ThreadOK
  <2>3. keyring'[VapidKey] = keyring[VapidKey] /\ up' = up
    BY <1>0, <2>1, <2>2, SaveStep
  <2> QED
    BY <2>1, <2>3, PushSame
<1>5. CASE GuiReplaces \/ BgReplaces \/ Damage \/ Crash
  <2>1. /\ UNCHANGED <<push, steady, up, keyring>>
        /\ gui' = "push" => gui = "push" /\ other' = other
    BY <1>5 DEF GuiReplaces, BgReplaces, Damage, Crash, credVars, ui, piholes
  <2> QED
    BY <2>1, PushSame
<1>6. CASE Outage
  BY <1>6 DEF Outage, ui, piholes
<1>7. CASE InstanceAction
  <2>1. PICK new, pw : InstanceEdit(new, pw)
    BY <1>7, InstanceActions DEF InstanceChange
  <2> QED
    BY <2>1, PushSame DEF InstanceEdit, hist, credVars, ui
<1>8. CASE SaveInstances \/ DamageRegistry
  <2>1. UNCHANGED <<push, steady, up, keyring>> /\ (gui' = "push" => gui = "push" /\ other' = other)
    BY <1>8 DEF SaveInstances, DamageRegistry, hist, credVars, ui
  <2> QED
    BY <2>1, PushSame
<1>9. CASE RegistryAction
  <2>1. gui' # "push" /\ UNCHANGED <<push, steady, up>> /\ keyring'[VapidKey] = keyring[VapidKey]
    BY <1>9, RegistryActions
  <2> QED
    BY <2>1, PushSame
<1> QED
  BY <1>1, <1>2, <1>3, <1>4, <1>5, <1>6, <1>7, <1>8, <1>9, SetSteps DEF RegistryAction

(* An open push page shows the key that is stored. *)
LEMMA PushNext ==
    ASSUME Shape, PushIInv, SetNext
    PROVE  PushIInv'
<1>1. CASE OpenPush
  BY <1>1, OpenedKey DEF PushIInv
<1>2. CASE SavePush
  BY <1>2 DEF SavePush, PushIInv, piholes
<1>3. CASE ~OpenPush /\ ~SavePush
  BY <1>3, PushElsewhere DEF PushIInv
<1> QED
  BY <1>1, <1>2, <1>3

(* The save of the page stores the key it showed. *)
LEMMA SavedKey ==
    ASSUME Shape, BackendIInv, PushIInv, SavePush, steady, PushKey # None
    PROVE  PushKey' = PushKey
<1>1. gui = "push" /\ up' = up /\ other \in Word /\ {VapidKey} \in SUBSET Keys
  BY PushSaved
<1>0. PICK s \in Secrets : /\ AfterSave(PushVals(s)) /\ push' = (IF up THEN None ELSE s) /\ (other # None => s = other)
                           /\ PushVals(s) \in [{VapidKey} -> Word] /\ PushVals(s)[VapidKey] = s
  BY PushSaved
<1>2. s = PushKey
  BY <1>0, <1>1 DEF PushIInv
<1>3. VapidKey \in Keys /\ CredTypeOK
  BY PushKeyTyped DEF Shape
<1>4. (up /\ readState[VapidKey] # "unavailable") => keyring'[VapidKey] = PushKey
  BY <1>0, <1>1, <1>2, <1>3, WriteStep
<1>5. up => keyring'[VapidKey] = PushKey
  BY <1>3, <1>4 DEF BackendIInv
<1>6. push' # Nil
  BY <1>0, ValuesAreDistinct
<1> QED
  BY <1>0, <1>1, <1>2, <1>5, <1>6 DEF PushKey, Hydrated, ReadState

-----------------------------------------------------------------------------
(* The URL of the Pi-hole.                                                 *)

(* A registry of the first start lists the URL of its options. *)
LEMMA UrlInit ==
    ASSUME SetInit
    PROVE  UrlIInv
<1>1. gui = "start" /\ pend = Nil /\ bg = "idle" /\ regStep = "none"
  BY DEF SetInit
<1>2. Registered(reg) => Lists(reg, file.url)
  BY DEF SetInit, Lists
<1> QED
  BY <1>1, <1>2 DEF UrlIInv, InRegistry

(* A load once the files are there. *)
LEMMA LoadUrl ==
    ASSUME Shape, LoadOptions, gui # "start", ~damaged
    PROVE  Readable(file) /\ Readable(file') /\ Loaded.url = file.url /\ file'.url = file.url
<1>1. Readable(file)
  BY StartedFile
<1>2. Readable(file')
  BY <1>1, LoadFacts DEF Readable
<1> QED
  BY <1>1, <1>2, LoadFacts

(* The URL of every holder of options is listed, between the two halves of *)
(* a save of the instances too.                                            *)
LEMMA UrlNext ==
    ASSUME Shape, UrlIInv, SetNext
    PROVE  UrlIInv'
<1> SUFFICES ASSUME ~damaged', ~torn', ~raced', ~cut'
             PROVE  UrlIInv'
  BY DEF UrlIInv
<1>0. /\ seq \in Nat
      /\ bg \in {"loaded", "stored"} => bgOpts[2] \in Nat /\ bgOpts[2] <= seq
      /\ bg # "idle" => gui \notin {"start", "pages", "first"}
      /\ regStep # "none" <=> gui \in {"first", "store"}
  BY DEF Shape, FileOK, ThreadOK, RegistriesOK
<1>1. CASE BuildTab
  <2>1. /\ gui = "start" /\ gui' = "pages" /\ LoadOptions
        /\ tab' = ShowProvider(Loaded, Loaded.providers[Loaded.active + 1])
        /\ UNCHANGED <<pend, bg, reg, regStep, damaged, torn, raced, cut>>
    BY <1>1 DEF BuildTab, thread, piholes
  <2>2. pend = Nil /\ bg = "idle" /\ regStep = "none" /\ file # Corrupt /\ (file = Absent => ~Registered(reg))
    BY <1>0, <2>1 DEF Shape, GuiOK, FileOK
  <2>3. /\ Normal(Loaded) /\ (Readable(file') => file'.url = Loaded.url)
        /\ Readable(file) => Loaded.url = file.url
    BY <2>1, LoadFacts
  <2>4. tab'.url = Loaded.url
    BY <2>1, <2>3, ShownProvider DEF SameUser
  <2>5. InRegistry(Loaded.url)
    BY <2>1, <2>2, <2>3 DEF InRegistry, UrlIInv, Readable, Ahead
  <2>6. Registered(reg)' = Registered(reg)
    BY <2>1 DEF Registered
  <2> QED
    BY <2>1, <2>2, <2>3, <2>4, <2>5, <2>6 DEF UrlIInv, InRegistry
<1>17. CASE LoadInstances
  <2>1. /\ gui = "pages" /\ gui' \in {"first", "idle"} /\ regStep' \in {"secrets", "none"}
        /\ Registered(reg) => RegistryOK(reg) /\ insts' = Reconcile(reg, tab.url)
        /\ ~Registered(reg) => Lists(insts', tab.url)
        /\ RegistryOK(insts')
        /\ UNCHANGED <<file, tab, pend, bg, bgPend, bgOpts, reg, seq, focus, damaged, torn, raced, cut>>
    BY <1>17, LoadedInstances
  <2>2. bg = "idle" /\ pend = Nil /\ tab.url \in Urls
    BY <1>0, <2>1, NormalIsHeld DEF Shape, GuiOK
  <2>3. InRegistry(tab.url)
    BY <2>1 DEF UrlIInv
  <2>4. Lists(insts', tab.url)
    <3>1. CASE Registered(reg)
      <4>1. UrlOf(insts', insts'.active) = tab.url \/ ~Lists(reg, tab.url)
        BY <2>1, <2>2, <3>1, ReconcileOK
      <4>2. UrlOf(insts', insts'.active) = tab.url
        BY <2>3, <3>1, <4>1 DEF InRegistry
      <4> QED
        BY <2>1, <4>2, UrlOfActive
    <3> QED
      BY <2>1, <3>1
  <2> QED
    BY <2>1, <2>2, <2>3, <2>4 DEF UrlIInv, InRegistry, Registered, Readable, Ahead
<1>2. CASE WorkerReads
  <2>1. /\ gui # "start" /\ LoadOptions
        /\ UNCHANGED <<tab, other, gui, pend, bg, bgPend, bgOpts, reg, insts, regStep, focus, damaged, torn, raced, cut>>
    BY <1>2 DEF WorkerReads, thread, ui, piholes, Built
  <2>2. Readable(file) /\ file'.url = file.url /\ seq' \in Nat /\ seq <= seq'
    BY <2>1, LoadUrl, LoadFacts
  <2>3. bg \in {"loaded", "stored"} /\ bgOpts[2] = seq' => bgOpts[2] = seq
    BY <1>0, <2>2
  <2> QED
    BY <2>1, <2>2, <2>3 DEF UrlIInv, InRegistry, Registered, Ahead
<1>3. CASE PageAction
  <2>1. PICK o : PageEdit(o) /\ o.url = tab.url
    BY <1>3, PageActions DEF PageChange
  <2> QED
    BY <2>1 DEF PageEdit, thread, hist, UrlIInv, InRegistry, Readable, piholes, Registered, Ahead
<1>4. CASE ToggleSimulation
  <2>1. /\ gui = "idle" /\ LoadOptions /\ other' = [Loaded EXCEPT !.sim = ~chosen] /\ gui' = "view"
        /\ UNCHANGED <<tab, pend, bg, bgPend, bgOpts, reg, insts, regStep, focus, damaged, torn, raced, cut>>
    BY <1>4 DEF ToggleSimulation, thread, piholes
  <2>2. (~chosen) \in BOOLEAN /\ Normal(Loaded)
    BY <2>1, LoadFacts
  <2>3. other'.url = Loaded.url
    BY <2>1, <2>2, SimulationIsFree
  <2>4. Readable(file) /\ Loaded.url = file.url /\ file'.url = file.url /\ seq' \in Nat /\ seq <= seq'
    BY <2>1, LoadUrl, LoadFacts
  <2>5. bg \in {"loaded", "stored"} /\ bgOpts[2] = seq' => bgOpts[2] = seq
    BY <1>0, <2>4
  <2> QED
    BY <2>1, <2>3, <2>4, <2>5 DEF UrlIInv, InRegistry, Registered, Ahead
<1>5. CASE GuiStores
  <2> DEFINE o == IF gui = "tab" THEN tab ELSE other
  <2>1. /\ gui \in {"tab", "view"} /\ StoreSecrets(o) /\ pend' = ForFile(o)
        /\ tab' = (IF gui = "tab" THEN Validate(o) ELSE tab)
        /\ UNCHANGED <<file, other, gui, bg, bgPend, bgOpts, reg, insts, regStep, seq, focus, damaged, torn, raced, cut>>
    BY <1>5 DEF GuiStores, thread, piholes
  <2>2. Held(o) /\ CredTypeOK
    BY <2>1, NormalIsHeld DEF Shape, GuiOK
  <2>3. InRegistry(o.url)
    BY <2>1 DEF UrlIInv
  <2> HIDE DEF o
  <2>4. ForFile(o).url = o.url /\ Validate(o).url = o.url
    BY <2>1, <2>2, SaveStep DEF SameUser
  <2> QED
    BY <2>1, <2>3, <2>4 DEF UrlIInv, InRegistry, Readable, Registered, Ahead
<1>6. CASE GuiReplaces
  <2>1. /\ gui \in {"tab", "view"} /\ pend # Nil /\ file' = pend /\ seq' = seq + 1
        /\ tab' = (IF gui = "view" THEN [tab EXCEPT !.sim = other.sim] ELSE tab)
        /\ pend' = Nil /\ other' = Nil /\ gui' = "idle"
        /\ UNCHANGED <<bg, bgPend, bgOpts, reg, insts, regStep, focus, damaged, torn, raced, cut>>
    BY <1>6 DEF GuiReplaces, thread, SyncTab, piholes
  <2>2. Normal(tab) /\ (gui = "view" => Normal(other))
    BY <2>1 DEF Shape, GuiOK
  <2>3. tab'.url = tab.url
    BY <2>1, <2>2, NormalIsHeld, SimulationIsFree
  <2>4. ~(bg \in {"loaded", "stored"} /\ bgOpts[2] = seq')
    BY <1>0, <2>1
  <2> QED
    BY <2>1, <2>3, <2>4 DEF UrlIInv, InRegistry, Registered, Ahead
<1>7. CASE BgLoads
  <2>1. /\ gui \notin {"start", "pages", "first"} /\ LoadOptions /\ bg' = "loaded" /\ bgOpts' = <<Loaded, seq'>>
        /\ UNCHANGED <<tab, other, gui, pend, reg, insts, regStep, focus, damaged, torn, raced, cut>>
    BY <1>7 DEF BgLoads, ui, piholes, Built
  <2>2. bgOpts'[1] = Loaded
    BY <2>1
  <2>3. Readable(file) /\ Loaded.url = file.url /\ file'.url = file.url
    BY <2>1, LoadUrl
  <2> QED
    BY <2>1, <2>2, <2>3 DEF UrlIInv, InRegistry, Registered, Ahead
<1>8. CASE BgStores
  <2>1. /\ bg = "loaded" /\ StoreSecrets(bgOpts[1]) /\ bgPend' = ForFile(bgOpts[1]) /\ bg' = "stored"
        /\ raced' = (raced \/ bgOpts[2] # seq \/ pend # Nil)
        /\ UNCHANGED <<file, tab, other, gui, pend, bgOpts, reg, insts, regStep, seq, focus, damaged, torn, cut>>
    BY <1>8 DEF BgStores, ui, piholes
  <2>2. Held(bgOpts[1]) /\ CredTypeOK
    BY <2>1, NormalIsHeld DEF Shape, ThreadOK
  <2>3. bgPend'.url = bgOpts[1].url
    BY <2>1, <2>2, SaveStep
  <2>4. ~raced
    BY <2>1
  <2> QED
    BY <2>1, <2>3, <2>4 DEF UrlIInv, InRegistry, Readable, Registered, Ahead
<1>9. CASE BgReplaces
  <2>1. /\ bg = "stored" /\ file' = bgPend /\ bg' = "done"
        /\ raced' = (raced \/ bgOpts[2] # seq \/ pend # Nil)
        /\ UNCHANGED <<tab, other, gui, pend, reg, insts, regStep, focus, damaged, torn, cut>>
    BY <1>9 DEF BgReplaces, ui, piholes
  <2>2. ~raced /\ bgOpts[2] = seq /\ gui \notin {"pages", "first"}
    BY <1>0, <2>1
  <2> QED
    BY <2>1, <2>2 DEF UrlIInv, InRegistry, Registered, Ahead
<1>10. CASE InstanceAction
  <2>1. PICK new, pw : InstanceEdit(new, pw)
    BY <1>10, InstanceActions DEF InstanceChange
  <2>2. /\ gui = "idle"
        /\ UNCHANGED <<file, tab, other, gui, pend, bg, bgPend, bgOpts, reg, regStep, seq, focus, damaged, torn, raced, cut>>
    BY <2>1 DEF InstanceEdit, thread, hist, ui
  <2> QED
    BY <1>0, <2>2 DEF UrlIInv, InRegistry, Readable, Registered, Ahead
<1>11. CASE SaveInstances
  <2>1. /\ gui = "idle" /\ gui' = "store" /\ regStep' = "secrets"
        /\ UNCHANGED <<file, tab, pend, bg, bgPend, bgOpts, reg, insts, seq, focus, damaged, torn, raced, cut>>
    BY <1>11 DEF SaveInstances, thread, hist
  <2> QED
    BY <2>1 DEF UrlIInv, InRegistry, Registered, Ahead
<1>18. CASE StoreInstanceSecrets
  <2>1. /\ regStep' = "replace"
        /\ UNCHANGED <<file, tab, other, gui, pend, bg, bgPend, bgOpts, reg, insts, seq, focus, damaged, torn, raced, cut>>
    BY <1>18, StoredInstances
  <2> QED
    BY <2>1 DEF UrlIInv, InRegistry, Readable, Registered, Ahead
<1>19. CASE ReplaceRegistry
  <2>1. /\ regStep = "replace" /\ reg' = insts
        /\ UNCHANGED <<file, tab, other, gui, pend, bg, bgPend, bgOpts, insts, seq, focus, damaged, torn, raced, cut>>
    BY <1>19 DEF ReplaceRegistry, ui, thread, hist
  <2>2. gui \in {"first", "store"} /\ pend = Nil /\ (gui = "first" => bg = "idle")
    BY <1>0, <2>1 DEF Shape, GuiOK
  <2> QED
    BY <2>1, <2>2 DEF UrlIInv, InRegistry, Readable, Registered, Ahead
<1>20. CASE DeleteRemoved
  <2>1. /\ regStep = "delete" /\ regStep' = "none"
        /\ \/ gui = "first" /\ gui' = "idle" /\ tab' = tab
           \/ gui = "store" /\ gui' = "tab" /\ tab' = [tab EXCEPT !.url = UrlOf(insts, insts.active)]
        /\ UNCHANGED <<file, other, pend, bg, bgPend, bgOpts, reg, insts, seq, focus, damaged, torn, raced, cut>>
    BY <1>20, DeletedInstances
  <2>2. pend = Nil /\ Normal(tab) /\ RegistryOK(insts) /\ (gui = "store" => focus = "instances")
    BY <2>1 DEF Shape, GuiOK, RegistriesOK
  <2>3. CASE gui = "first"
    BY <1>0, <2>1, <2>2, <2>3 DEF UrlIInv, InRegistry, Readable, Registered, Ahead
  <2>4. CASE gui = "store"
    <3>1. UrlOf(insts, insts.active) \in Urls /\ Lists(insts, UrlOf(insts, insts.active))
      BY <2>2, UrlOfActive
    <3>2. gui' = "tab" /\ tab' = [tab EXCEPT !.url = UrlOf(insts, insts.active)]
      BY <2>1, <2>4
    <3>3. tab'.url = UrlOf(insts, insts.active)
      BY <2>2, <3>1, <3>2, UrlIsFree
    <3>4. reg = insts
      BY <2>1 DEF UrlIInv
    <3> QED
      BY <2>1, <2>2, <2>4, <3>1, <3>2, <3>3, <3>4 DEF UrlIInv, InRegistry, Registered, Ahead
  <2> QED
    BY <2>1, <2>3, <2>4
<1>12. CASE OpenPush
  BY <1>12 DEF OpenPush, thread, hist, UrlIInv, InRegistry, Readable, piholes, Registered, Ahead
<1>13. CASE SavePush
  BY <1>13 DEF SavePush, thread, hist, UrlIInv, InRegistry, Readable, piholes, Registered, Ahead
<1>14. CASE Outage
  BY <1>14 DEF Outage, thread, ui, UrlIInv, InRegistry, Readable, piholes, Registered, Ahead
<1>15. CASE Damage \/ DamageRegistry
  BY <1>15 DEF Damage, DamageRegistry
<1>16. CASE Crash
  <2>1. /\ torn' = (torn \/ gui = "tab" \/ bg = "stored") /\ cut' = (cut \/ gui \in {"first", "store"})
        /\ gui' = "start" /\ pend' = Nil /\ bg' = "idle" /\ regStep' = "none"
        /\ UNCHANGED <<file, reg, damaged, raced>>
    BY <1>16 DEF Crash
  <2>2. ~torn /\ ~cut /\ gui \notin {"tab", "first", "store"}
    BY <2>1
  <2> QED
    BY <2>1, <2>2 DEF UrlIInv, InRegistry, Readable, Registered, Ahead
<1> QED
  BY <1>1, <1>2, <1>3, <1>4, <1>5, <1>6, <1>7, <1>8, <1>9, <1>10, <1>11, <1>12, <1>13, <1>14, <1>15, <1>16, <1>17, <1>18, <1>19, <1>20, SetSteps

-----------------------------------------------------------------------------
(* The invariant and what it gives.                                        *)

(* The invariant holds at first. *)
LEMMA SettingsInit ==
    ASSUME SetInit
    PROVE  SettingsIInv
BY ShapeInit, SimInit, BackendInit, SecretInit, InstanceInit, HeldInit, PushInit, UrlInit DEF SettingsIInv

(* Every step keeps it. *)
LEMMA SettingsNext ==
    ASSUME SettingsIInv, [SetNext]_setVars
    PROVE  SettingsIInv'
<1>1. CASE SetNext
  <2>1. Shape /\ SimIInv /\ HeldIInv /\ PushIInv /\ UrlIInv
    BY DEF SettingsIInv
  <2> QED
    BY <1>1, <2>1, ShapeNext, SimNext, BackendNext, SecretNext, InstanceNext, HeldNext, PushNext, UrlNext DEF SettingsIInv
<1>2. CASE UNCHANGED setVars
  BY <1>2, SettingsStutter
<1> QED
  BY <1>1, <1>2

(* What can be run of the options that a holder has. *)
LEMMA NormalPools ==
    ASSUME NEW o, Normal(o)
    PROVE  \A n \in DOMAIN o.pools :
              o.pools[n].members # <<>> /\ ToSet(o.pools[n].members) \subseteq ToSet(o.providers)
<1>1. o.pools \in Seq(PoolEntry) /\ PoolsNormal(o)
  BY DEF Normal, Options
<1>2. DOMAIN o.pools = {1, 2}
  BY <1>1 DEF PoolsNormal
<1> QED
  BY <1>1, <1>2 DEF PoolsNormal, PoolNormal

(* It implies the properties. *)
LEMMA SettingsIInvImplies ==
    ASSUME SettingsIInv
    PROVE  SettingsInv
<1>1. Shape
  BY DEF SettingsIInv
<1>2. SetTypeOK
  <2>1. Readable(file) => file.pw \in Word /\ file.sim \in BOOLEAN /\ file.url \in Urls
    BY <1>1, KnownIsReadable DEF Shape, FileOK
  <2>2. gui # "start" => tab # Nil
    BY <1>1, ValuesAreDistinct DEF Shape, GuiOK, Held
  <2>3. gui \notin {"start", "pages"} => insts # Nil /\ insts.active \in InstancesOf(insts)
    BY <1>1, ValuesAreDistinct DEF Shape, RegistriesOK, RegistryOK
  <2>4. Registered(reg) => reg.active \in InstancesOf(reg)
    BY <1>1 DEF Shape, RegistriesOK, RegistryOK, Registered
  <2>5. regPlain \cup instPw \cup payload \cup gone \cup dropped \subseteq Instances
        /\ regStep \in {"none", "secrets", "replace", "delete"}
    BY <1>1 DEF Shape, RegistriesOK
  <2> QED
    BY <1>1, <2>1, <2>2, <2>3, <2>4, <2>5 DEF SetTypeOK, Shape, GuiOK, ThreadOK, HistoryOK, Word
<1>3. WrittenIsStable
  <2> SUFFICES ASSUME seq > 0, Readable(file) PROVE Validate(Migrate(file)) = file
    BY DEF WrittenIsStable
  <2>1. Normal(file)
    BY <1>1 DEF Shape, FileOK, Readable
  <2>2. file \in Options /\ Held(file)
    BY <2>1, NormalIsHeld
  <2>3. Migrate(file) = file
    BY <2>1, <2>2, MigrateCorrects
  <2> QED
    BY <2>1, <2>2, <2>3, ValidateCorrects
<1>4. PoolsRunnable
  <2> SUFFICES ASSUME tab # Nil, gui # "tab"
               PROVE  \A n \in DOMAIN tab.pools : /\ tab.pools[n].members # <<>>
                                                  /\ ToSet(tab.pools[n].members) \subseteq ToSet(tab.providers)
    BY DEF PoolsRunnable
  <2>1. Normal(tab)
    BY <1>1 DEF Shape, GuiOK
  <2> QED
    BY <2>1, NormalPools
<1>5. SecretKept
  BY DEF SettingsIInv, SecretIInv, Undisturbed, SecretKept
<1>6. SimulationKept
  <2>1. (gui = "idle" /\ faults = 0) => Readable(file)
    BY <1>1, StartedFile DEF Shape, HistoryOK
  <2> QED
    BY <2>1 DEF SettingsIInv, SimIInv, SimulationKept
<1>7. NoOrphanSecrets
  BY DEF SettingsIInv, InstanceIInv, NoOrphanSecrets
<1> QED
  BY <1>2, <1>3, <1>4, <1>5, <1>6, <1>7 DEF SettingsInv

(* For every set of files, secrets, instances and bounds: whatever files   *)
(* the program starts from and in whatever order the Settings tab, the     *)
(* other views and the registry thread load, change and save them, with    *)
(* outages, crashes between any two steps and unreadable files, what is    *)
(* written reads back as itself and every pool can be run.  While the      *)
(* keyring stays as it is, the secret and the simulation mode the user     *)
(* chose last are the ones that are kept, and no save of the instances     *)
(* that was not cut off leaves a secret behind.                            *)
THEOREM SettingsAreKept == SetSafety => []SettingsInv
<1>1. SetInit => SettingsIInv
  BY SettingsInit
<1>2. SettingsIInv /\ [SetNext]_setVars => SettingsIInv'
  BY SettingsNext
<1>3. SettingsIInv => SettingsInv
  BY SettingsIInvImplies
<1> QED
  BY <1>1, <1>2, <1>3, PTL DEF SetSafety

(* The Settings tab starts with the active instance of the options. *)
LEMMA ActiveStep ==
    ASSUME SettingsIInv, [SetNext]_setVars, gui = "pages", gui' \in {"first", "idle"}
    PROVE  \/ UrlOf(insts', insts'.active) = tab'.url
           \/ /\ torn \/ damaged \/ raced \/ cut
              /\ \A n \in DOMAIN insts'.list : insts'.list[n].url # tab'.url
<1>1. Shape /\ UrlIInv
  BY DEF SettingsIInv
<1>2. LoadInstances
  <2>1. SetNext
    BY DEF setVars
  <2>2. bg = "idle" /\ regStep = "none"
    BY <1>1 DEF Shape, ThreadOK, RegistriesOK
  <2>3. ~PageAction
    BY Zenon, <1>1, PageActions DEF PageChange, PageEdit
  <2>4. ~InstanceAction
    BY Zenon, <1>1, InstanceActions DEF InstanceChange, InstanceEdit
  <2> QED
    BY <2>1, <2>2, <2>3, <2>4, SetSteps DEF BuildTab, WorkerReads, ToggleSimulation, GuiStores, GuiReplaces, BgLoads, BgStores,
       BgReplaces, SaveInstances, StoreInstanceSecrets, ReplaceRegistry, DeleteRemoved, OpenPush, SavePush, Outage, Damage,
       DamageRegistry, Crash, ui, Built
<1>3. /\ Registered(reg) => RegistryOK(reg) /\ insts' = Reconcile(reg, tab.url)
      /\ ~Registered(reg) => UrlOf(insts', insts'.active) = tab.url
      /\ tab' = tab
  BY <1>1, <1>2, LoadedInstances
<1>4. tab.url \in Urls
  BY <1>1, NormalIsHeld DEF Shape, GuiOK
<1>5. CASE Registered(reg)
  <2>1. UrlOf(insts', insts'.active) = tab.url \/ (insts' = reg /\ ~Lists(reg, tab.url))
    BY <1>3, <1>4, <1>5, ReconcileOK
  <2>2. (~torn /\ ~damaged /\ ~raced /\ ~cut) => Lists(reg, tab.url)
    BY <1>1, <1>5 DEF UrlIInv, InRegistry
  <2> QED
    BY <1>3, <2>1, <2>2 DEF Lists
<1> QED
  BY <1>3, <1>5

(* Nothing but the first start sees a file of a newer version, and it      *)
(* refuses it.                                                             *)
LEMMA NewerStep ==
    ASSUME SettingsIInv, [SetNext]_setVars
    PROVE  (Newer(file) => file' = file) /\ (reg = Later => reg' = reg)
<1>1. Shape /\ (bg # "idle" => gui \notin {"start", "pages", "first"})
  BY DEF SettingsIInv, Shape, ThreadOK
<1>2. (Newer(file) => gui = "start") /\ (reg = Later => regStep = "none") /\ (reg = Later => ~Registered(reg))
  BY <1>1 DEF Shape, FileOK, RegistriesOK, Registered
<1>3. CASE PageAction
  <2>1. PICK o : PageEdit(o)
    BY <1>1, <1>3, PageActions DEF PageChange
  <2> QED
    BY <2>1 DEF PageEdit, piholes
<1>4. CASE InstanceAction
  <2>1. PICK new, pw : InstanceEdit(new, pw)
    BY <1>1, <1>4, InstanceActions DEF InstanceChange
  <2> QED
    BY <2>1 DEF InstanceEdit
<1>5. CASE BuildTab \/ WorkerReads \/ ToggleSimulation \/ BgLoads
  BY <1>5 DEF BuildTab, WorkerReads, ToggleSimulation, BgLoads, LoadOptions, Loadable, piholes
<1>6. CASE GuiStores \/ GuiReplaces \/ BgStores \/ BgReplaces
  BY <1>1, <1>2, <1>6 DEF GuiStores, GuiReplaces, BgStores, BgReplaces, piholes
<1>7. CASE LoadInstances \/ StoreInstanceSecrets \/ DeleteRemoved \/ SaveInstances
  BY <1>7 DEF LoadInstances, StoreInstanceSecrets, DeleteRemoved, SaveInstances
<1>8. CASE ReplaceRegistry \/ DamageRegistry
  BY <1>2, <1>8 DEF ReplaceRegistry, DamageRegistry
<1>9. CASE OpenPush \/ SavePush \/ Outage \/ Damage \/ Crash
  BY <1>9 DEF OpenPush, SavePush, Outage, Damage, Crash, piholes
<1>10. CASE UNCHANGED setVars
  BY <1>10 DEF setVars
<1> QED
  BY <1>3, <1>4, <1>5, <1>6, <1>7, <1>8, <1>9, <1>10, SetSteps

(* No step changes a push key while the backend stays. *)
LEMMA PushKeyStep ==
    ASSUME SettingsIInv, [SetNext]_setVars, steady', PushKey # None
    PROVE  PushKey' = PushKey
<1>1. Shape /\ BackendIInv /\ PushIInv
  BY DEF SettingsIInv
<1>2. CASE OpenPush
  BY <1>1, <1>2, OpenedKey
<1>3. CASE SavePush
  <2>1. steady
    BY <1>3 DEF SavePush, hist, piholes
  <2> QED
    BY <1>1, <1>3, <2>1, SavedKey
<1>4. CASE SetNext /\ ~OpenPush /\ ~SavePush
  BY <1>1, <1>4, PushElsewhere
<1>5. CASE UNCHANGED setVars
  BY <1>5, PushSame DEF setVars
<1> QED
  BY <1>2, <1>3, <1>4, <1>5

(* No start connects the tab to another instance than the options while    *)
(* the registry lists theirs, no file of a newer version is overwritten,   *)
(* and the key the push subscribers know survives every load and save      *)
(* while the keyring stays as it is, although a save generates a new key   *)
(* each time it finds none.                                                *)
THEOREM SettingsFilesAreKept == SetSafety => FilesKept
<1>1. SetInit => SettingsIInv
  BY SettingsInit
<1>2. SettingsIInv /\ [SetNext]_setVars => SettingsIInv'
  BY SettingsNext
<1>3. SettingsIInv /\ [SetNext]_setVars =>
        [(gui = "pages" /\ gui' \in {"first", "idle"}) =>
            \/ UrlOf(insts', insts'.active) = tab'.url
            \/ /\ torn \/ damaged \/ raced \/ cut
               /\ \A n \in DOMAIN insts'.list : insts'.list[n].url # tab'.url]_setVars
  BY ActiveStep
<1>4. SettingsIInv /\ [SetNext]_setVars => [(Newer(file) => file' = file) /\ (reg = Later => reg' = reg)]_setVars
  BY NewerStep
<1>5. SettingsIInv /\ [SetNext]_setVars =>
        [(steady' /\ push # Nil /\ PushKey # None) => PushKey' = PushKey]_setVars
  BY PushKeyStep
<1> QED
  BY <1>1, <1>2, <1>3, <1>4, <1>5, PTL DEF SetSafety, FilesKept, ActiveAgrees, NewerKept, PushKeyStable

(* A password leaves the keyring only with the instance, or because the    *)
(* user emptied it.                                                        *)
LEMMA PasswordStep ==
    ASSUME SettingsIInv, [SetNext]_setVars, NEW i \in Instances,
           keyring[InstKey[i]] # None, keyring'[InstKey[i]] = None
    PROVE  i \in gone \cup dropped
<1>1. Shape /\ HeldIInv /\ InstKey[i] \in Keys
  BY KeysAreDistinct DEF SettingsIInv
<1>2. CASE LoadInstances
  BY <1>1, <1>2, LoadedInstances
<1>3. CASE StoreInstanceSecrets
  <2>1. /\ gui \in {"first", "store"}
        /\ \A j \in Instances \ InstancesOf(insts) : keyring'[InstKey[j]] = keyring[InstKey[j]]
        /\ \A j \in InstancesOf(insts) : j \in instPw => (keyring'[InstKey[j]] = None => keyring[InstKey[j]] = None)
        /\ \A j \in InstancesOf(insts) : (j \notin instPw /\ readState[InstKey[j]] = "unavailable") =>
               keyring'[InstKey[j]] = keyring[InstKey[j]]
    BY <1>1, <1>3, StoredInstances
  <2> QED
    BY <1>1, <2>1 DEF HeldIInv
<1>4. CASE ReplaceRegistry
  BY <1>4 DEF ReplaceRegistry, credVars
<1>5. CASE DeleteRemoved
  BY <1>1, <1>5, DeletedInstances
<1>6. CASE SetNext /\ ~RegistryAction
  BY <1>1, <1>6, PasswordsElsewhere
<1>7. CASE UNCHANGED setVars
  BY <1>7 DEF setVars
<1> QED
  BY <1>2, <1>3, <1>4, <1>5, <1>6, <1>7 DEF RegistryAction

(* For every set of instances and bounds: no outage of the keyring, at     *)
(* whatever step of loading, editing or saving the instances it comes or   *)
(* goes, and no crash makes a save delete the password of an instance the  *)
(* user neither removed nor gave an empty password.                        *)
THEOREM PasswordsOutliveOutages == SetSafety => OutageKeepsPasswords
<1>1. SetInit => SettingsIInv
  BY SettingsInit
<1>2. SettingsIInv /\ [SetNext]_setVars => SettingsIInv'
  BY SettingsNext
<1>3. SettingsIInv /\ [SetNext]_setVars =>
        [\A i \in Instances :
            (keyring[InstKey[i]] # None /\ keyring'[InstKey[i]] = None) => i \in gone \cup dropped]_setVars
  BY PasswordStep
<1> QED
  BY <1>1, <1>2, <1>3, PTL DEF SetSafety, OutageKeepsPasswords
=============================================================================
