---------------------------- MODULE BackupRestore ----------------------------
(***************************************************************************)
(* `eggpool backup`, the automatic backup task and `eggpool recover`       *)
(* (operations/backup.rs and the two commands of runtime.rs), next to the  *)
(* server that owns the files.                                             *)
(*                                                                         *)
(* A file's contents are a version number.  The SQLite database is its     *)
(* main file and a write-ahead log: the log holds later versions of the    *)
(* main file it was started on, and a reader sees the log's version when   *)
(* the log belongs to the main file beside it, and a Mixed database when   *)
(* it does not.  Archive syntax, sizes, names and path checks decide only  *)
(* whether an archive is refused.                                          *)
(***************************************************************************)
EXTENDS Naturals, Sequences

CONSTANTS
    NoContents,        \* no file, no log, no archive
    Mixed,         \* what a reader sees of a log over another main file
    MaxVersion,    \* bound on the versions written
    retain_count,  \* [backup].retain_count
    MaxRestores    \* bound on the recover commands

ASSUME BackupAssumption == MaxVersion \in Nat /\ retain_count \in Nat \ {0}

VARIABLES
    live,        \* config, env, main database file and its log
    daemon,      \* the server: "up", "down" (clean) or "crashed"
    archives,    \* the published archives, oldest first
    creation,    \* a backup being created: its step and what it has read
    restoration, \* the recover command in progress
    restored,    \* what the last recover command told the operator
    restores     \* recover commands started

backupVars == <<live, daemon, archives, creation, restoration, restored, restores>>

NoOutcome == [is |-> "none", archive |-> NoContents, before |-> NoContents]

NoCreation == [step |-> "idle", auto |-> FALSE, db |-> NoContents, config |-> NoContents, env |-> NoContents]

NoRestoration ==
    [step |-> "idle", archive |-> NoContents, before |-> NoContents, saved |-> NoContents, disturbed |-> FALSE]

BackupInit ==
    /\ live \in [config : {1}, env : {NoContents, 1}, main : {1}, wal : {NoContents}]
    /\ daemon = [is |-> "down", holds |-> NoContents]
    /\ archives = <<>>
    /\ creation = NoCreation
    /\ restoration = NoRestoration
    /\ restored = NoOutcome
    /\ restores = 0

\* What a connection opened on the files reads: the log's pages over the main
\* file, which is the log's version for a main file of the log's own span.
Contents(files) ==
    CASE files.wal = NoContents                              -> files.main
      [] files.main \in files.wal.base .. files.wal.at  -> files.wal.at
      [] OTHER                                           -> Mixed

\* The configuration, environment and database a restore replaces.
Readable(files) == [config |-> files.config, env |-> files.env, db |-> Contents(files)]

-----------------------------------------------------------------------------
\* The server

\* The operator edits the configuration or the environment file.
EditConfig ==
    /\ restoration.step = "idle"
    /\ live.config < MaxVersion
    /\ \/ live' = [live EXCEPT !.config = @ + 1]
       \/ live.env # NoContents /\ live' = [live EXCEPT !.config = @ + 1, !.env = live.config + 1]
    /\ restored' = NoOutcome
    /\ UNCHANGED <<daemon, archives, creation, restoration, restores>>

\* Another process opens the database while a recover command is at work.
Disturbs == restoration' = [restoration EXCEPT !.disturbed = @ \/ restoration.step # "idle"]

\* Operator, systemd or the cron watchdog starts the server; recover does not
\* take the start guard, so this can happen between its steps.
DaemonStarts ==
    /\ daemon.is # "up" /\ Contents(live) # Mixed
    /\ daemon' = [is |-> "up", holds |-> live.main]
    /\ restored' = NoOutcome
    /\ Disturbs
    /\ UNCHANGED <<live, archives, creation, restores>>

\* A committed transaction appends to the log; the log belongs to the main
\* file the server has open.
DaemonWrites ==
    LET now == IF live.wal = NoContents THEN daemon.holds ELSE live.wal.at
    IN  /\ daemon.is = "up" /\ now < MaxVersion
        /\ live' = [live EXCEPT !.wal = [base |-> daemon.holds, at |-> now + 1]]
        /\ UNCHANGED <<daemon, archives, creation, restoration, restored, restores>>

\* The log is copied into the main file the server has open and removed.
Checkpointed(files, holds) ==
    IF files.wal = NoContents THEN files
    ELSE [files EXCEPT !.main = IF holds = files.main THEN files.wal.at ELSE @,
                       !.wal = NoContents]

\* The maintenance task's checkpoint.
DaemonCheckpoints ==
    /\ daemon.is = "up" /\ live.wal # NoContents
    /\ live' = Checkpointed(live, daemon.holds)
    /\ daemon' = [daemon EXCEPT !.holds = live.wal.at]
    /\ UNCHANGED <<archives, creation, restoration, restored, restores>>

\* A clean stop closes the last connection, which checkpoints.
Stopped == /\ live' = Checkpointed(live, daemon.holds)
           /\ daemon' = [is |-> "down", holds |-> NoContents]

DaemonStops ==
    /\ daemon.is = "up"
    /\ Stopped
    /\ UNCHANGED <<archives, creation, restoration, restored, restores>>

\* The server is killed or the power fails: the log stays beside the file.
DaemonCrashes ==
    /\ daemon.is = "up"
    /\ daemon' = [is |-> "crashed", holds |-> NoContents]
    /\ UNCHANGED <<live, archives, creation, restoration, restored, restores>>

-----------------------------------------------------------------------------
\* BackupService::create

\* The sources are validated and the database is copied by SQLite's online
\* backup; the command's own connection, when it is the last, checkpoints.
SnapshotDatabase(auto) ==
    /\ creation.step = "idle"
    /\ auto => daemon.is = "up"
    /\ Contents(live) # Mixed
    /\ creation' = [NoCreation EXCEPT !.step = "snapshot", !.auto = auto, !.db = Contents(live)]
    /\ live' = IF daemon.is = "up" THEN live ELSE Checkpointed(live, live.main)
    /\ Disturbs
    /\ restored' = NoOutcome
    /\ UNCHANGED <<daemon, archives, restores>>

\* stable_read of the configuration and, when present, the environment.
ReadSources ==
    /\ creation.step = "snapshot"
    /\ creation' = [creation EXCEPT !.step = "write", !.config = live.config, !.env = live.env]
    /\ UNCHANGED <<live, daemon, archives, restoration, restored, restores>>

\* prune: all but the newest retain_count archives are removed.
Pruned(s) ==
    IF Len(s) <= retain_count THEN s ELSE SubSeq(s, Len(s) - retain_count + 1, Len(s))

\* write_archive: the archive is written under a temporary name and linked to
\* its final one, so it is published whole; the automatic task then prunes.
PublishArchive ==
    LET archive == [config |-> creation.config, env |-> creation.env, db |-> creation.db]
    IN  /\ creation.step = "write"
        /\ Len(archives) <= retain_count
        /\ archives' = IF creation.auto THEN Pruned(Append(archives, archive))
                       ELSE Append(archives, archive)
        /\ creation' = NoCreation
        /\ UNCHANGED <<live, daemon, restoration, restored, restores>>

\* Any error, the timeout or a kill: only a staging directory and a temporary
\* file remain, which are not listed as archives.
AbandonBackup ==
    /\ creation.step # "idle"
    /\ creation' = NoCreation
    /\ UNCHANGED <<live, daemon, archives, restoration, restored, restores>>

-----------------------------------------------------------------------------
\* `eggpool recover`

\* The outcome is told and the command ends.
Tell(is) ==
    /\ restored' = [is |-> is, archive |-> restoration.archive,
                    before |-> IF restoration.disturbed THEN NoContents ELSE restoration.before]
    /\ restoration' = NoRestoration

Goes(step) == restoration' = [restoration EXCEPT !.step = step] /\ UNCHANGED restored

\* An archive is chosen and validated, and the operator agrees to overwrite.
ChooseArchive(i) ==
    /\ restoration.step = "idle" /\ restores < MaxRestores
    /\ restores' = restores + 1
    /\ restoration' = [NoRestoration EXCEPT !.step = "stop", !.archive = archives[i]]
    /\ restored' = NoOutcome
    /\ UNCHANGED <<live, daemon, archives, creation>>

\* A server with a PID file is stopped first; a stale PID file is cleared.
StopForRestore ==
    /\ restoration.step = "stop"
    /\ \/ /\ Goes("prepare")
          /\ IF daemon.is = "up" THEN Stopped ELSE UNCHANGED <<live, daemon>>
       \/ daemon.is = "up" /\ Tell("refused") /\ UNCHANGED <<live, daemon>>
    /\ UNCHANGED <<archives, creation, restores>>

\* prepare_restore finds the archive it validated before the prompt; the
\* automatic task may have pruned it since.
StillPublished == \E i \in DOMAIN archives : archives[i] = restoration.archive

\* validated_archive, now with the live paths, accepts the archive and the
\* originals are copied to the safety directory.
SaveOriginals ==
    /\ restoration.step = "prepare" /\ StillPublished
    /\ restoration' = [restoration EXCEPT !.step = "config", !.before = Readable(live),
                                          !.saved = live]
    /\ UNCHANGED <<live, daemon, archives, creation, restored, restores>>

\* The archive is gone or refused: duplicate, unknown or oversized members, a
\* wrong manifest, targets that are not the live paths, a configuration or a
\* database that does not validate.
RefuseArchive ==
    /\ restoration.step = "prepare"
    /\ Tell("refused")
    /\ UNCHANGED <<live, daemon, archives, creation, restores>>

\* write_atomic of the configuration, then of the environment if the archive
\* has one; an I/O error starts the rollback.
WriteServerConfig ==
    /\ restoration.step = "config"
    /\ \/ live' = [live EXCEPT !.config = restoration.archive.config] /\ Goes("env")
       \/ UNCHANGED live /\ Goes("undo")
    /\ UNCHANGED <<daemon, archives, creation, restores>>

WriteEnv ==
    /\ restoration.step = "env"
    /\ \/ live' = [live EXCEPT !.env = IF restoration.archive.env = NoContents THEN @
                                       ELSE restoration.archive.env]
          /\ Goes("database")
       \/ UNCHANGED live /\ Goes("undo")
    /\ UNCHANGED <<daemon, archives, creation, restores>>

\* write_atomic of the main database file; the log beside it is not touched.
WriteDatabase ==
    /\ restoration.step = "database"
    /\ \/ live' = [live EXCEPT !.main = restoration.archive.db] /\ Goes("clean")
       \/ UNCHANGED live /\ Goes("undo")
    /\ UNCHANGED <<daemon, archives, creation, restores>>

\* Defect: the rollback stops putting files back before the environment.
UndoRestoreNoEnv ==
    /\ restoration.step = "undo"
    /\ \/ /\ live' = [live EXCEPT !.config = restoration.saved.config, !.main = restoration.saved.main]
          /\ Tell("failed")
       \/ Tell("rollback_failed") /\ UNCHANGED live
    /\ UNCHANGED <<daemon, archives, creation, restores>>

\* The saved originals are written back one after the other; a failure leaves
\* the rest as they are and the safety directory in place.
UndoRestore ==
    LET saved == restoration.saved
        config == [live EXCEPT !.config = saved.config]
        env == [config EXCEPT !.env = saved.env]
    IN  /\ restoration.step = "undo"
        /\ \/ live' = [env EXCEPT !.main = saved.main] /\ Tell("failed")
           \/ live' \in {live, config, env} /\ Tell("rollback_failed")
        /\ UNCHANGED <<daemon, archives, creation, restores>>

\* The safety directory is removed; an error of that is reported although the
\* files are restored.  The server is not started again.
FinishRestore ==
    /\ restoration.step = "clean"
    /\ Tell("restored") \/ Tell("cleanup_failed")
    /\ UNCHANGED <<live, daemon, archives, creation, restores>>

KillRestore ==
    /\ restoration.step # "idle"
    /\ Tell("killed")
    /\ UNCHANGED <<live, daemon, archives, creation, restores>>

BackupNext ==
    \/ EditConfig \/ DaemonStarts \/ DaemonWrites \/ DaemonCheckpoints
    \/ DaemonStops \/ DaemonCrashes
    \/ \E auto \in BOOLEAN : SnapshotDatabase(auto)
    \/ ReadSources \/ PublishArchive \/ AbandonBackup
    \/ \E i \in DOMAIN archives : ChooseArchive(i)
    \/ StopForRestore \/ SaveOriginals \/ RefuseArchive
    \/ WriteServerConfig \/ WriteEnv \/ WriteDatabase
    \/ UndoRestore \/ FinishRestore \/ KillRestore

BackupSpec == BackupInit /\ [][BackupNext]_backupVars

-----------------------------------------------------------------------------
\* A restore during which no other process opened the database is all or
\* nothing: one that failed and rolled back leaves the configuration, the environment and the readable
\* database as it found them, and one that wrote its last file leaves the
\* archive's configuration, environment and main database file.
RestoreIsAllOrNothing ==
    restored.before # NoContents =>
       /\ restored.is = "failed" => Readable(live) = restored.before
       /\ restored.is \in {"restored", "cleanup_failed"} =>
             /\ live.config = restored.archive.config
             /\ restored.archive.env \in {NoContents, live.env}
             /\ live.main = restored.archive.db

\* "reads an archive produced by `eggpool backup` and restores its contents"
\* (docs/backup-restore.md): the database read after a completed restore is
\* the archive's snapshot.
RestoredIsTheSnapshot ==
    restored.is = "restored" /\ restored.before # NoContents =>
       Contents(live) = restored.archive.db
=============================================================================
