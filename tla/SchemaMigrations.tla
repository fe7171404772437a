-------------------------- MODULE SchemaMigrations --------------------------
(***************************************************************************)
(* Start-up of the processes that share the database, and the migration of *)
(* its schema (database_migrations.py, database_core.py).  The steps up to *)
(* LegacyVersion are one transaction that starts with a read and upgrades  *)
(* to a write; the later ones take the write lock first and look again.    *)
(* A crash inside a transaction leaves the database as it was.             *)
(***************************************************************************)
EXTENDS Integers, Sequences, FiniteSets

CONSTANTS
    Procs,          \* processes
    Unset,
    BaselineVersion, \* LEGACY_SCHEMA_BASELINE_VERSION
    LegacyVersion,  \* schema of the program before the migration history
    CurrentDb       \* DATABASE_SCHEMA_VERSION

ASSUME VersionsOrdered ==
    /\ {BaselineVersion, LegacyVersion, CurrentDb} \subseteq Nat
    /\ 0 < BaselineVersion /\ BaselineVersion < LegacyVersion /\ LegacyVersion < CurrentDb

VARIABLES
    db,     \* database: version, applied migrations, history, rows, commits
    proc    \* step of each process, the schema it supports, what it read

(* A database that does not exist yet. *)
NoDb == [ver |-> 0, tables |-> FALSE, applied |-> {}, history |-> <<>>, rows |-> "none", commits |-> 0]

Off == [at |-> "off", supports |-> 0, seen |-> 0, snap |-> 0]

At(p, step) == [proc EXCEPT ![p].at = step]

(* A process of the program with schema s starts. *)
Started(s) ==
    [at |-> IF s > LegacyVersion THEN "read" ELSE "core", supports |-> s, seen |-> 0, snap |-> 0]

(* init_db: a database of a newer program is refused; one with a history   *)
(* skips the legacy part.                                                  *)
ReadVersion(p) ==
    /\ proc[p].at = "read"
    /\ proc' = [proc EXCEPT ![p].at = IF db.ver > proc[p].supports THEN "failed"
                                      ELSE IF db.ver <= LegacyVersion THEN "core" ELSE "apply",
                            ![p].seen = db.ver]
    /\ UNCHANGED db

(* database_core.init_db: the transaction reads the version. *)
CoreBegin(p) ==
    /\ proc[p].at = "core"
    /\ proc' = [proc EXCEPT ![p].at = IF db.ver > LegacyVersion THEN "failed" ELSE "commit",
                            ![p].seen = db.ver,
                            ![p].snap = db.commits]
    /\ UNCHANGED db

(* The upgrade to a write fails when another process wrote since the read. *)
Upgrades(p) == proc[p].snap = db.commits

(* CREATE TABLE IF NOT EXISTS, for the tables and their indexes. *)
CreateTables(d) == [d EXCEPT !.tables = TRUE]

(* Migrations from version seen on; versions up to the baseline are one. *)
LegacyMigrated(d, seen) ==
    LET from == IF seen > BaselineVersion THEN seen ELSE BaselineVersion
    IN  [d EXCEPT !.ver = LegacyVersion, !.applied = @ \cup ((from + 1)..LegacyVersion)]

(* Tables and migrations from the version read, in one transaction. *)
CoreCommit(p) ==
    /\ proc[p].at = "commit"
    /\ LET next == IF proc[p].supports > LegacyVersion THEN "apply" ELSE "ui"
       IN  \/ /\ proc[p].seen = LegacyVersion
              /\ proc' = [proc EXCEPT ![p].at = next, ![p].seen = LegacyVersion]
              /\ UNCHANGED db
           \/ /\ proc[p].seen # LegacyVersion
              /\ Upgrades(p)
              /\ db' = [LegacyMigrated(CreateTables(db), proc[p].seen) EXCEPT !.commits = @ + 1]
              /\ proc' = [proc EXCEPT ![p].at = next, ![p].seen = LegacyVersion]
           \/ /\ proc[p].seen # LegacyVersion
              /\ ~Upgrades(p)
              /\ proc' = At(p, "failed")
              /\ UNCHANGED db

(* Faulty variant: the version read before the lock decides. *)
MigrationByRead(p, v) == IF proc[p].seen < v THEN "apply" ELSE "skip"

(* Under the write lock the version is looked at again. *)
Migration(p, v) ==
    IF db.ver >= v THEN "skip" ELSE IF db.ver = v - 1 THEN "apply" ELSE "fail"

(* _apply_pending_migrations: one transaction for each version. *)
ApplyMigration(p) ==
    /\ proc[p].at = "apply"
    /\ LET v == proc[p].seen + 1
       IN  \/ /\ v > CurrentDb
              /\ proc' = At(p, "ui")
              /\ UNCHANGED db
           \/ /\ v <= CurrentDb
              /\ Migration(p, v) = "skip"
              /\ proc' = [proc EXCEPT ![p].seen = v]
              /\ UNCHANGED db
           \/ /\ v <= CurrentDb
              /\ Migration(p, v) = "apply"
              /\ db' = [db EXCEPT !.ver = v,
                                  !.applied = @ \cup {v},
                                  !.history = Append(@, v),
                                  !.commits = @ + 1]
              /\ proc' = [proc EXCEPT ![p].seen = v]
           \/ /\ v <= CurrentDb
              /\ Migration(p, v) = "fail"
              /\ proc' = At(p, "failed")
              /\ UNCHANGED db

(* The window is built; the process is up. *)
BuildUi(p) ==
    /\ proc[p].at = "ui"
    /\ proc' = At(p, "run")
    /\ UNCHANGED db

(* The process ends; an open transaction is rolled back. *)
Dies(p) ==
    /\ proc[p].at \notin {"off", "failed"}
    /\ proc' = At(p, "failed")
    /\ UNCHANGED db

StartUpStep(p) ==
    ReadVersion(p) \/ CoreBegin(p) \/ CoreCommit(p) \/ ApplyMigration(p) \/ BuildUi(p)

DbTypeOK ==
    /\ db.ver \in Nat /\ db.commits \in Nat
    /\ db.applied \subseteq (BaselineVersion + 1)..CurrentDb
    /\ proc \in [Procs -> [at : {"off", "read", "core", "commit", "apply", "ui", "run", "failed"},
                           supports : {0, LegacyVersion, CurrentDb}, seen : 0..CurrentDb, snap : Nat]]

(* The recorded version is the one of the schema: all migrations up to it  *)
(* were applied, whichever processes started at the same time.             *)
SchemaComplete ==
    db.ver >= BaselineVersion => db.tables /\ db.applied = (BaselineVersion + 1)..db.ver

(* No migration is applied a second time. *)
MigratedOnce == \A i, j \in DOMAIN db.history : db.history[i] = db.history[j] => i = j

(* Processes that start together apply every migration, and once.          *)
MigrationInv == DbTypeOK /\ SchemaComplete /\ MigratedOnce
=============================================================================
