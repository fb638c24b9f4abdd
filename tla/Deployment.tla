----------------------------- MODULE Deployment -----------------------------
(***************************************************************************)
(* One installation: the database file on its volume, the core container,  *)
(* one-off containers of the same image ("job"), and the scripts backup.sh *)
(* and restore.sh. Both kinds of container run entrypoint-core.sh, which   *)
(* upgrades the live database before anything else, and leave when that    *)
(* fails. Containers can be killed anywhere.                               *)
(*                                                                         *)
(* SQLite keeps a rollback journal (no pragma asks for another mode):      *)
(* while a transaction writes, the file holds pages of two states and the  *)
(* journal the state before. Who opens a file with a journal that nobody   *)
(* is writing puts it back; a journal beside a file it does not belong to  *)
(* spoils that file.                                                       *)
(***************************************************************************)
EXTENDS Migrations

CONSTANTS
    FirstFiles,   \* databases that earlier releases have left
    NewPlans,     \* ids of plans that Core publishes after the upgrade
    Kills,        \* bound: how often a container is killed
    Scripts,      \* bound: how often a script is started
    Damaged,      \* a file with pages of more than one state
    None          \* no journal, no writer, no backup

Containers == {"core", "job"}

ASSUME DeploymentAssumption ==
    /\ FirstFiles \subseteq Database
    /\ \A db \in FirstFiles : db.parts = Schema(db.version)
    /\ NewPlans \subseteq Ids
    /\ \A db \in FirstFiles : \A p \in Published(db) : p.id \notin NewPlans
    /\ Kills \in Nat /\ Scripts \in Nat
    /\ {Damaged, None} \cap Database = {}
    /\ Damaged # None
    /\ None \notin Containers

VARIABLES
    file,       \* the live database file
    journal,    \* the rollback journal: the state to go back to
    writer,     \* the container whose process is inside a write transaction
    box,        \* for each container, how far its command has come
    script,     \* the step at which the operator's script is
    backup,     \* the newest backup and whether it was taken in the middle of a revision
    kills, scripts,
    expected,   \* history: what has been published, or what was restored
    cut         \* history: what was cut short in the live file, a "revision" or a "copy"

vars == <<file, journal, writer, box, script, backup, kills, scripts, expected, cut>>
disk == <<file, journal, writer>>
history == <<expected, cut>>
rest == <<script, backup, kills, scripts>>

\* rev and k are the revision and the statement that an upgrade has come to.
Box == [at : {"none", "open", "upgrade", "up", "failed"}, rev : 0 .. Newest, k : 0 .. 7]
At(place) == [at |-> place, rev |-> 0, k |-> 0]
Statement(rev, k) == [at |-> "upgrade", rev |-> rev, k |-> k]

RestoreSteps == {"verify", "stop", "preserve", "copy", "copying", "start"}
BackupSteps == {"snapshot", "check"}
JobSteps == {"verify", "preserve", "copy", "check"}

TypeOK ==
    /\ file \in Database \cup {Damaged}
    /\ journal \in Database \cup {None}
    /\ writer \in Containers \cup {None}
    /\ box \in [Containers -> Box]
    /\ script \in {"idle"} \cup RestoreSteps \cup BackupSteps
    /\ backup = None \/ backup \in [db : Database, cut : BOOLEAN]
    /\ kills \in 0 .. Kills
    /\ scripts \in 0 .. Scripts
    /\ expected \subseteq Plan
    /\ cut \subseteq {"revision", "copy"}

\* The image of this release meets an empty volume or the file of an earlier one, of
\* which the operator has taken a backup.
Init ==
    /\ file \in FirstFiles
    /\ journal = None
    /\ writer = None
    /\ box = [c \in Containers |-> At(IF c = "core" THEN "open" ELSE "none")]
    /\ script = "idle"
    /\ backup = [db |-> file, cut |-> FALSE]
    /\ kills = 0
    /\ scripts = 0
    /\ expected = Published(file)
    /\ cut = {}

-----------------------------------------------------------------------------
(* SQLite.                                                                 *)

\* What a process reads: a hot journal is rolled back first.
Recovered ==
    CASE journal = None -> file
      [] journal # None /\ file = Damaged -> journal
      [] OTHER -> Damaged

\* Nobody writes; the file is left as a reader finds it.
Read == writer = None /\ file' = Recovered /\ journal' = None /\ UNCHANGED writer

StartWriting(c) ==
    /\ writer = None
    /\ Recovered # Damaged
    /\ writer' = c
    /\ journal' = Recovered
    /\ file' = Damaged

FinishWriting(db) ==
    /\ writer' = None
    /\ journal' = None
    /\ file' = db

Move(c, b) == box' = [box EXCEPT ![c] = b]

-----------------------------------------------------------------------------
(* entrypoint-core.sh: alembic upgrade head, then the command.             *)

\* Variant: the upgrade begins at the first revision, whatever the file's version is.
OpenFromStart(c) ==
    /\ box[c].at = "open"
    /\ Read
    /\ Move(c, IF Recovered = Damaged THEN At("failed") ELSE Statement(1, 1))
    /\ UNCHANGED <<rest, history>>

\* alembic reads the version. A spoiled file may be noticed now or later.
Open(c) ==
    /\ box[c].at = "open"
    /\ Read
    /\ \/ /\ Recovered # Damaged
          /\ Recovered.version < Newest
          /\ Move(c, Statement(Recovered.version + 1, 1))
       \/ /\ Recovered # Damaged
          /\ Recovered.version = Newest
          /\ Move(c, At("up"))
       \/ /\ Recovered = Damaged
          /\ \E place \in {"up", "failed"} : Move(c, At(place))
    /\ UNCHANGED <<rest, history>>

Current(c) == Revisions[box[c].rev][box[c].k]

Begin(c) ==
    /\ box[c].at = "upgrade"
    /\ Recovered # Damaged
    /\ Runs(Current(c), Recovered)
    /\ StartWriting(c)
    /\ UNCHANGED <<box, rest, history>>

\* The statement raises: set -e ends the command.
Fail(c) ==
    /\ box[c].at = "upgrade"
    /\ Recovered = Damaged \/ ~Runs(Current(c), Recovered)
    /\ Read
    /\ Move(c, At("failed"))
    /\ UNCHANGED <<rest, history>>

\* Variant: off by one, another revision is looked for after the last.
FinishPastNewest(c) ==
    /\ writer = c
    /\ box[c].at = "upgrade"
    /\ FinishWriting(Applied(Current(c), journal))
    /\ Move(c, CASE box[c].k < Len(Revisions[box[c].rev]) -> Statement(box[c].rev, box[c].k + 1)
                 [] box[c].rev <= Newest -> Statement(box[c].rev + 1, 1)
                 [] OTHER -> At("up"))
    /\ UNCHANGED <<rest, history>>

\* After the stamp of the last revision the command proper is started.
Finish(c) ==
    /\ writer = c
    /\ box[c].at = "upgrade"
    /\ FinishWriting(Applied(Current(c), journal))
    /\ Move(c, CASE box[c].k < Len(Revisions[box[c].rev]) -> Statement(box[c].rev, box[c].k + 1)
                 [] box[c].k = Len(Revisions[box[c].rev]) /\ box[c].rev < Newest ->
                      Statement(box[c].rev + 1, 1)
                 [] OTHER -> At("up"))
    /\ UNCHANGED <<rest, history>>

-----------------------------------------------------------------------------
(* The core container.                                                     *)

\* restart: unless-stopped.
Restart ==
    /\ box["core"].at = "failed"
    /\ Move("core", At("open"))
    /\ UNCHANGED <<disk, rest, history>>

\* Core publishes a plan: one commit.
BeginPlan ==
    /\ box["core"].at = "up"
    /\ StartWriting("core")
    /\ \E id \in NewPlans : \A p \in Published(Recovered) : p.id # id
    /\ UNCHANGED <<box, rest, history>>

FinishPlan ==
    /\ writer = "core"
    /\ box["core"].at = "up"
    /\ \E id \in NewPlans :
         /\ \A p \in Published(journal) : p.id # id
         /\ FinishWriting([journal EXCEPT !.plans = @ \cup {[id |-> id, cancelled |-> FALSE]}])
         /\ expected' = expected \cup {[id |-> id, cancelled |-> FALSE]}
    /\ UNCHANGED <<box, rest, cut>>

\* docker compose up, by the operator, of a container that a script has left stopped.
Up ==
    /\ box["core"].at = "none"
    /\ script = "idle"
    /\ Move("core", At("open"))
    /\ UNCHANGED <<disk, rest, history>>

MidRevision(c) == box[c].at = "upgrade" /\ (box[c].k > 1 \/ writer = c)

\* A container's processes end; an unfinished transaction leaves its journal behind.
Gone(c, place) ==
    /\ Move(c, At(place))
    /\ writer' = (IF writer = c THEN None ELSE writer)
    /\ UNCHANGED <<file, journal>>

KillCore ==
    /\ kills < Kills
    /\ box["core"].at \in {"open", "upgrade", "up"}
    /\ kills' = kills + 1
    /\ Gone("core", "open")
    /\ cut' = (IF MidRevision("core") THEN cut \cup {"revision"} ELSE cut)
    /\ UNCHANGED <<script, backup, scripts, expected>>

-----------------------------------------------------------------------------
(* The scripts. A step that needs a job starts one and, when it has come   *)
(* up, goes on with the commands it was started for. set -e: a job that    *)
(* fails ends the script.                                                  *)

Goto(step) == script' = step /\ UNCHANGED <<backup, kills, scripts>>

StartScript(step) ==
    /\ script = "idle"
    /\ scripts < Scripts
    /\ scripts' = scripts + 1
    /\ script' = step
    /\ UNCHANGED <<disk, box, backup, kills, history>>

StartRestore == StartScript("verify")
StartBackup == StartScript("snapshot")

\* Variant: a job is a bare container that does not run the entrypoint.
RunJobBare ==
    /\ script \in JobSteps
    /\ box["job"].at = "none"
    /\ Move("job", At("up"))
    /\ UNCHANGED <<disk, rest, history>>

\* docker compose run core: the entrypoint first.
RunJob ==
    /\ script \in JobSteps
    /\ box["job"].at = "none"
    /\ Move("job", At("open"))
    /\ UNCHANGED <<disk, rest, history>>

JobFailed ==
    /\ box["job"].at = "failed"
    /\ Move("job", At("none"))
    /\ Goto("idle")
    /\ UNCHANGED <<disk, history>>

\* Ctrl-C, or the machine: the script ends at any of its steps, and its job with it.
KillScript ==
    /\ kills < Kills
    /\ script # "idle"
    /\ kills' = kills + 1
    /\ Gone("job", "none")
    /\ script' = "idle"
    /\ cut' = cut \cup (IF MidRevision("job") THEN {"revision"} ELSE {})
                  \cup (IF script = "copying" THEN {"copy"} ELSE {})
    /\ UNCHANGED <<backup, scripts, expected>>

JobDone(step) == Move("job", At("none")) /\ Goto(step)

\* backup.sh: the online backup, in the core container if that is running, and a check
\* of the copy in a job.
Snapshot ==
    /\ script = "snapshot"
    /\ \/ /\ box["core"].at \in {"open", "upgrade", "up"}
          /\ Read
          /\ Recovered # Damaged
          /\ script' = "check"
          /\ backup' = [db |-> Recovered,
                        cut |-> "revision" \in cut \/ \E c \in Containers : MidRevision(c)]
          /\ UNCHANGED <<kills, scripts>>
       \/ /\ box["core"].at \in {"none", "failed"} \/ Recovered = Damaged
          /\ Goto("idle")
          /\ UNCHANGED disk
    /\ UNCHANGED <<box, history>>

CheckBackup ==
    /\ script = "check"
    /\ box["job"].at = "up"
    /\ JobDone("idle")
    /\ UNCHANGED <<disk, history>>

\* restore.sh. A backup is a whole file: its integrity check passes.
Verify ==
    /\ script = "verify"
    /\ box["job"].at = "up"
    /\ JobDone("stop")
    /\ UNCHANGED <<disk, history>>

\* Core ends by itself or, when it takes too long, is killed.
StopCore ==
    /\ script = "stop"
    /\ Gone("core", "none")
    /\ Goto("preserve")
    /\ cut' = (IF MidRevision("core") THEN cut \cup {"revision"} ELSE cut)
    /\ UNCHANGED expected

\* The archive is for the operator; no program reads it.
Preserve ==
    /\ script = "preserve"
    /\ box["job"].at = "up"
    /\ JobDone("copy")
    /\ UNCHANGED <<disk, history>>

\* shutil.copy2 truncates the live file and writes it anew. A journal stays where it is.
BeginCopy ==
    /\ script = "copy"
    /\ box["job"].at = "up"
    /\ file' = Damaged
    /\ Goto("copying")
    /\ UNCHANGED <<journal, writer, box, history>>

EndCopy ==
    /\ script = "copying"
    /\ file' = backup.db
    /\ expected' = Published(backup.db)
    /\ cut' = (IF backup.cut THEN {"revision"} ELSE {})
    /\ JobDone("start")
    /\ UNCHANGED <<journal, writer>>

StartCore ==
    /\ script = "start"
    /\ Move("core", At("open"))
    /\ Goto("idle")
    /\ UNCHANGED <<disk, history>>

ScriptStep ==
    \/ RunJob
    \/ JobFailed
    \/ Snapshot
    \/ CheckBackup
    \/ Verify
    \/ StopCore
    \/ Preserve
    \/ BeginCopy
    \/ EndCopy
    \/ StartCore

Upgrade(c) == Open(c) \/ Begin(c) \/ Fail(c) \/ Finish(c)

Next ==
    \/ \E c \in Containers : Upgrade(c)
    \/ ScriptStep
    \/ Restart
    \/ BeginPlan
    \/ FinishPlan
    \/ Up
    \/ KillCore
    \/ StartRestore
    \/ StartBackup
    \/ KillScript

\* Containers run, docker restarts core, scripts go on, and a commit comes to an end.
Fairness ==
    /\ \A c \in Containers : WF_vars(Upgrade(c))
    /\ WF_vars(ScriptStep)
    /\ WF_vars(Restart)
    /\ WF_vars(FinishPlan)

Spec == Init /\ [][Next]_vars /\ Fairness

-----------------------------------------------------------------------------
(* Properties.                                                             *)

\* Whatever is killed at which statement, what users have published is in the file, with
\* its cancellation, in the old table or in the new one, and nothing else is: no
\* reservation is lost or revived by the conversion, no plan by a crash, and after a
\* restore the file holds what the backup held, not what an old journal makes of it.
NothingLost == Recovered # Damaged => Published(Recovered) = expected

\* Core answers requests only over a whole file, with every table, column and index of
\* models.py, unless the copy of a restore was cut short: no command is started after half
\* an upgrade, and a journal that a killed Core leaves behind never meets a restored file.
ServesWholeSchema ==
    box["core"].at = "up" /\ "copy" \notin cut =>
        /\ Recovered # Damaged
        /\ ModelParts \subseteq Recovered.parts

\* The next revision cannot start, however often the container is restarted.
Stuck ==
    /\ Recovered # Damaged
    /\ Recovered.version < Newest
    /\ ~Runs(Revisions[Recovered.version + 1][1], Recovered)
    /\ \A c \in Containers : ~MidRevision(c)

\* An upgrade gets stuck only after a revision was cut between two statements, by a kill,
\* a stop or the restore of a snapshot from the middle of one; two upgrades at the same
\* time, of the core container and of a job, do not do that to each other.
StuckOnlyByCut == Stuck => "revision" \in cut

\* Core comes back after every kill and every script, unless the upgrade is stuck, the
\* file is spoiled, or a script has ended with the container stopped.
ServesAgain ==
    \/ []<>(box["core"].at = "up")
    \/ <>[](Stuck \/ Recovered = Damaged \/ box["core"].at = "none")
=============================================================================
