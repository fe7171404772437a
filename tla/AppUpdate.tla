----------------------------- MODULE AppUpdate -----------------------------
(***************************************************************************)
(* Self-update of a packaged build (updater.py, settings_application.py):  *)
(* check, download, preparation, and the shell script that replaces the    *)
(* program directory, starts the new version and restores the old one when *)
(* it does not confirm its start.  The data lies in the program directory, *)
(* or outside it (PIHOLE_MANAGER_HOME).                                    *)
(***************************************************************************)
EXTENDS SchemaMigrations

CONSTANTS
    New, Old, Second, \* processes: started by the script, restored, started by hand
    Feeds,          \* release lists: [ver, dev, pre, draft, digest, build, assets], newest first
    Archives,       \* downloadable archives: [ver, build, digest, platform]
    OwnVersion, OwnBuild, \* of the running program
    Items,          \* data files beside the database
    PreservedNames, \* _PRESERVED_NAMES
    FirstVersions,  \* schema of the database before the update
    MaxPolls        \* bound: polls for the marker (120 in the script)

ASSUME ThreeProcesses ==
    /\ {New, Old, Second} \subseteq Procs
    /\ New # Old /\ New # Second /\ Old # Second
ASSUME UpdatedFromLegacy == FirstVersions \subseteq 0..LegacyVersion
ASSUME DatabasePreserved == "database" \in PreservedNames
ASSUME PollBound == MaxPolls \in Nat

VARIABLES
    step,       \* step of the application: idle, checked, downloaded, prepared, closing, closed
    channel,    \* stable or prerelease
    release,    \* release found by the check
    stage,      \* archive downloaded and prepared
    inst,       \* program in the install directory: version and build, Unset when none
    files,      \* data files at the data location
    backup,     \* backup directory, wherever it was moved: program, database and data files
    inside,     \* the data lies in the program directory
    script,     \* step of the script
    marker,     \* the new version confirmed its start
    polls, status,
    told,       \* history: the new process was sent the signal to end
    botched,    \* history: a command of the rollback failed
    outlived    \* history: the new process went on after the old program was restored

updHistory == <<told, botched, outlived>>

updVars == <<db, proc, step, channel, release, stage, inst, files, backup, inside,
             script, marker, polls, status, updHistory>>

guiVars == <<step, channel, release, stage>>
disk == <<inst, files, backup>>

Own == [ver |-> OwnVersion, build |-> OwnBuild]

-----------------------------------------------------------------------------
(* _fetch_release_payload: the latest stable release; or, of the published *)
(* ones, the first when it is a development build, else the highest.       *)
Published(feed) == SelectSeq(feed, LAMBDA r : ~r.draft)

Stable(feed) == SelectSeq(feed, LAMBDA r : ~r.draft /\ ~r.pre)

Selected(feed, ch) ==
    IF ch = "stable" THEN Stable(feed)[1]
    ELSE IF Published(feed)[1].dev THEN Published(feed)[1]
    ELSE LET tagged == SelectSeq(Published(feed), LAMBDA r : ~r.dev)
         IN  tagged[CHOOSE i \in DOMAIN tagged : \A j \in DOMAIN tagged : tagged[i].ver >= tagged[j].ver]

HasRelease(feed, ch) == IF ch = "stable" THEN Stable(feed) # <<>> ELSE Published(feed) # <<>>

(* A development build is new when its id differs, a release when its      *)
(* version is higher.                                                      *)
Available(r) == IF r.dev THEN r.build # Unset /\ r.build # OwnBuild ELSE r.ver > OwnVersion

CheckForUpdate ==
    /\ step = "idle"
    /\ \E feed \in Feeds :
        /\ HasRelease(feed, channel)
        /\ Available(Selected(feed, channel))
        /\ release' = Selected(feed, channel)
    /\ step' = "checked"
    /\ UNCHANGED <<db, proc, channel, stage, disk, inside, script, marker, polls, status, updHistory>>

(* _select_asset: the ZIP of this platform and architecture, else the one  *)
(* of the platform that names no architecture.                             *)
SelectedAsset(assets) ==
    IF "exact" \in assets THEN "exact" ELSE IF "platform" \in assets THEN "platform" ELSE Unset

(* The archive is kept when it has the published digest, or none is. *)
DigestAccepted(r, a) == r.digest = Unset \/ r.digest = a.digest

DownloadUpdate ==
    /\ step = "checked"
    /\ SelectedAsset(release.assets) # Unset
    /\ \E a \in Archives :
        /\ DigestAccepted(release, a)
        /\ stage' = a
    /\ step' = "downloaded"
    /\ UNCHANGED <<db, proc, channel, release, disk, inside, script, marker, polls, status, updHistory>>

(* _validate_manifest: platform, and the build id or the version. *)
ManifestMatches(a, r) ==
    /\ a.platform = "here"
    /\ IF r.dev THEN r.build = Unset \/ a.build = Unset \/ a.build = r.build ELSE a.ver = r.ver

PrepareInstall ==
    /\ step = "downloaded"
    /\ IF ManifestMatches(stage, release)
       THEN step' = "prepared" /\ stage' = stage
       ELSE step' = "idle" /\ stage' = Unset
    /\ UNCHANGED <<db, proc, channel, release, disk, inside, script, marker, polls, status, updHistory>>

(* The script is started, and the application begins to close. *)
CloseForInstall ==
    /\ step = "prepared"
    /\ step' = "closing"
    /\ script' = "wait"
    /\ UNCHANGED <<db, proc, channel, release, stage, disk, inside, marker, polls, status, updHistory>>

(* _on_close went through and the process ended. *)
ParentExits ==
    /\ step = "closing"
    /\ step' = "closed"
    /\ UNCHANGED <<db, proc, channel, release, stage, disk, inside, script, marker, polls, status, updHistory>>

-----------------------------------------------------------------------------
(* The script. *)
ScriptTo(s) ==
    /\ script' = s
    /\ UNCHANGED <<guiVars, inside, outlived>>

(* The script waits for the end of the application, however long it takes; *)
(* then rm -rf backup; mv install backup || exit 1                         *)
MoveInstall ==
    /\ script = "wait" /\ step = "closed"
    /\ \/ /\ backup' = [prog |-> inst, db |-> IF inside THEN db ELSE NoDb,
                        files |-> IF inside THEN files ELSE {}]
          /\ inst' = Unset
          /\ db' = IF inside THEN NoDb ELSE db
          /\ files' = IF inside THEN {} ELSE files
          /\ ScriptTo("moved")
       \/ /\ backup' = Unset
          /\ ScriptTo("exited")
          /\ UNCHANGED <<inst, db, files>>
    /\ UNCHANGED <<proc, marker, polls, status, told, botched>>

(* mv stage install || rollback *)
MoveStage ==
    /\ script = "moved"
    /\ \/ inst' = [ver |-> stage.ver, build |-> stage.build] /\ ScriptTo("preserve")
       \/ inst' = inst /\ ScriptTo("rollback")
    /\ UNCHANGED <<db, proc, files, backup, marker, polls, status, told, botched>>

Preserved == PreservedNames

(* The preserved files of the backup are copied; a failed copy rolls back. *)
PreserveItems ==
    /\ script = "preserve"
    /\ \/ /\ files' = IF inside THEN backup.files \cap Preserved ELSE files
          /\ db' = IF inside /\ "database" \in Preserved THEN backup.db ELSE db
          /\ ScriptTo("start")
       \/ ScriptTo("rollback") /\ UNCHANGED <<files, db>>
    /\ UNCHANGED <<proc, inst, backup, marker, polls, status, told, botched>>

StartNew ==
    /\ script = "start"
    /\ proc' = [proc EXCEPT ![New] = Started(CurrentDb)]
    /\ ScriptTo("poll")
    /\ UNCHANGED <<db, disk, marker, polls, status, told, botched>>

PollStep(confirmed, ended) ==
    /\ script = "poll"
    /\ IF confirmed THEN ScriptTo("confirmed") /\ UNCHANGED polls
       ELSE IF ended THEN ScriptTo("kill") /\ UNCHANGED polls
       ELSE ScriptTo("poll") /\ polls' = polls + 1
    /\ UNCHANGED <<db, proc, disk, marker, status, told, botched>>

(* Faulty variant: the end of the process is not noticed. *)
PollBlind == PollStep(marker, FALSE) /\ polls < MaxPolls

(* Waits for the marker while the process lives, for a bounded time. *)
Poll == PollStep(marker, proc[New].at = "failed" \/ polls = MaxPolls)

(* Faulty variant: the new process is left running. *)
LeaveNew ==
    /\ script = "kill"
    /\ ScriptTo("rollback")
    /\ UNCHANGED <<db, proc, disk, marker, polls, status, told, botched>>

(* kill: the signal is sent; nobody waits for the end of the process. *)
KillNew ==
    /\ script = "kill"
    /\ told' = TRUE
    /\ ScriptTo("rollback")
    /\ UNCHANGED <<db, proc, disk, marker, polls, status, botched>>

(* The backup is in its place again.  Who had read the database that was   *)
(* there has read another one.                                             *)
Restored ==
    /\ inst' = backup.prog
    /\ db' = IF inside THEN [backup.db EXCEPT !.commits = db.commits + 1] ELSE db
    /\ files' = IF inside THEN backup.files ELSE files
    /\ backup' = Unset
    /\ botched' = botched

(* rm failed, left the program or the data, and the backup was moved into  *)
(* the directory that is still there; or nothing was left and mv failed.   *)
NotRestored(prog, data) ==
    /\ inst' = prog
    /\ db' = IF inside /\ ~data THEN [NoDb EXCEPT !.commits = db.commits + 1] ELSE db
    /\ files' = IF inside /\ ~data THEN {} ELSE files
    /\ backup' = backup
    /\ botched' = TRUE

(* rm -rf install; mv backup install, both unchecked; what is found there  *)
(* is started and the rollback reported.                                   *)
Rollback ==
    /\ script = "rollback"
    /\ Restored \/ \E prog \in {inst, Unset}, data \in BOOLEAN : NotRestored(prog, data)
    /\ proc' = IF inst' = Unset THEN proc
               ELSE [proc EXCEPT ![Old] = Started(IF inst' = Own THEN LegacyVersion ELSE CurrentDb)]
    /\ status' = "rolled_back"
    /\ ScriptTo("done")
    /\ UNCHANGED <<marker, polls, told>>

Confirm ==
    /\ script = "confirmed"
    /\ backup' = Unset
    /\ marker' = FALSE
    /\ status' = "success"
    /\ ScriptTo("done")
    /\ UNCHANGED <<db, proc, inst, files, polls, told, botched>>

-----------------------------------------------------------------------------
(* Processes. *)
Others == <<guiVars, disk, inside, script, polls, status, told, botched>>

AppSteps(p) ==
    /\ StartUpStep(p)
    /\ outlived' = (outlived \/ (p = New /\ status = "rolled_back"))
    /\ UNCHANGED <<Others, marker>>

(* By itself, or by the signal: a window has no handler for it. *)
AppDies(p) ==
    /\ Dies(p)
    /\ UNCHANGED <<Others, marker, outlived>>

(* run_app: after the window is built the marker is written, once.  When   *)
(* the script has given up nobody looks at it.                             *)
MarkStarted ==
    /\ proc[New].at = "run"
    /\ ~marker /\ status # "success"
    /\ marker' = TRUE
    /\ UNCHANGED <<db, proc, Others, outlived>>

(* The user starts the installed new version, too. *)
StartSecond ==
    /\ script \in {"poll", "done"}
    /\ inst # Unset /\ inst # Own
    /\ proc[Second].at = "off"
    /\ proc' = [proc EXCEPT ![Second] = Started(CurrentDb)]
    /\ UNCHANGED <<db, Others, marker, outlived>>

UpdInit ==
    /\ db \in {[NoDb EXCEPT !.ver = v, !.tables = TRUE, !.applied = (BaselineVersion + 1)..v,
                           !.rows = "user"] : v \in FirstVersions}
    /\ proc = [p \in Procs |-> Off]
    /\ step = "idle" /\ channel \in {"stable", "prerelease"}
    /\ release = Unset /\ stage = Unset
    /\ inst = Own /\ files = Items /\ backup = Unset /\ inside \in BOOLEAN
    /\ script = "off" /\ marker = FALSE /\ polls = 0 /\ status = "none"
    /\ told = FALSE /\ botched = FALSE /\ outlived = FALSE

ScriptNext ==
    MoveInstall \/ MoveStage \/ PreserveItems \/ StartNew \/ Poll \/ KillNew \/ Rollback \/ Confirm

UpdNext ==
    \/ CheckForUpdate \/ DownloadUpdate \/ PrepareInstall \/ CloseForInstall \/ ParentExits
    \/ ScriptNext
    \/ \E p \in Procs : AppSteps(p)
    \/ \E p \in Procs : AppDies(p)
    \/ MarkStarted \/ StartSecond

UpdSpec == UpdInit /\ [][UpdNext]_updVars

-----------------------------------------------------------------------------
UpdTypeOK ==
    /\ DbTypeOK
    /\ step \in {"idle", "checked", "downloaded", "prepared", "closing", "closed"}
    /\ script \in {"off", "wait", "moved", "preserve", "start", "poll", "kill", "rollback",
                   "confirmed", "done", "exited"}
    /\ status \in {"none", "success", "rolled_back"}
    /\ files \subseteq Items /\ polls \in 0..MaxPolls

(* After the update the database is the one of the user and not a fresh    *)
(* one; when the commands of the rollback failed, it lies in the backup,   *)
(* which no step of the script deletes then, with all the other files.     *)
DataSurvives ==
    script \in {"done", "exited"} =>
        IF botched /\ inside THEN backup.db.rows = "user" /\ backup.files = Items
        ELSE db.rows = "user"

(* A restored program finds its own data: with the data in the program     *)
(* directory it can open the database, whatever the new version migrated,  *)
(* unless the new version went on on the restored database.                *)
RollbackUsable ==
    (status = "rolled_back" /\ ~botched /\ inside /\ proc[Second].at = "off" /\ ~outlived) =>
        inst = Own /\ db.ver <= LegacyVersion /\ files = Items

(* What is installed is the release that was offered: its version is       *)
(* higher than that of the running program, or it is another build.        *)
InstalledIsSelected ==
    (inst # Unset /\ inst # Own) =>
        IF release.dev THEN inst.build \in {release.build, Unset}
        ELSE inst.ver = release.ver /\ inst.ver > OwnVersion

(* The new version and the one the rollback starts run at the same time    *)
(* only until the signal ends the new one.                                 *)
OneVersionRuns ==
    (proc[New].at \notin {"off", "failed"} /\ proc[Old].at \notin {"off", "failed"}) => told

(* Success is reported only for a version that started: all its migrations *)
(* were applied before the old program was deleted.                        *)
SuccessIsConfirmed ==
    status = "success" => db.ver = CurrentDb /\ backup = Unset

(* Once the application has ended the script ends, and unless its first    *)
(* move failed it ends with a report.                                      *)
ScriptEnds ==
    (script = "wait" /\ step = "closed") ~> (script = "exited" \/ status # "none")

(* Wherever an update fails, the user's data are kept; a rollback whose    *)
(* commands succeeded restores a program that can use them, and no version *)
(* runs beside it that was not told to end.                                *)
UpdateInv ==
    /\ UpdTypeOK /\ DataSurvives /\ RollbackUsable
    /\ InstalledIsSelected /\ OneVersionRuns /\ SuccessIsConfirmed
=============================================================================
