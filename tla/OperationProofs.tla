--------------------------- MODULE OperationProofs --------------------------
(***************************************************************************)
(* What holds of the commands an operator runs, for any number of          *)
(* concurrent commands, any releases, backups and values, and wherever a   *)
(* command fails or is killed.                                             *)
(***************************************************************************)
EXTENDS ConfigMutation, ConnectTransaction, UpdateTransition, BackupRestore, Deployment,
        StatusView, DatabaseMaintenance, TLAPS

-----------------------------------------------------------------------------
(* Configuration commands (ConfigMutation).                                *)

ServerShape == DOMAIN server = {"up", "running", "stopping"}

\* A running server keeps its restart-only field through every step.
LEMMA MutationStep ==
  ASSUME ServerShape, [MutationNext]_mutationVars
  PROVE  /\ ServerShape'
         /\ server.up /\ server'.up => server'.running.fixed = server.running.fixed
<1>1. CASE server' = server
  BY <1>1, Zenon DEF ServerShape
<1>2. ASSUME NEW c \in Commands, ServerReloads(c), server' # server
      PROVE  /\ ServerShape'
             /\ server'.running.fixed = server.running.fixed
  <2>1. /\ server' = [server EXCEPT !.running = file]
        /\ ~HasRestartRequired(server.running, file)
    BY <1>2, Zenon DEF ServerReloads
  <2>2. QED
    BY <2>1, Zenon DEF ServerShape, HasRestartRequired
<1>3. ASSUME NEW c \in Commands, AskExit(c), server' # server
      PROVE  ServerShape' /\ server'.running = server.running
  <2>1. server' = [server EXCEPT !.stopping = TRUE]
    BY <1>3, Zenon DEF AskExit
  <2>2. QED
    BY <2>1, Zenon DEF ServerShape
<1>4. CASE ServerExits
  BY <1>4, Zenon DEF ServerExits, ServerShape
<1>5. ASSUME NEW c \in Commands, SpawnReplacement(c)
      PROVE  ServerShape' /\ ~server.up
  BY <1>5, Zenon DEF SpawnReplacement, ServerShape
<1>6. QED
  BY <1>1, <1>2, <1>3, <1>4, <1>5, Zenon
     DEF MutationNext, mutationVars, ReadAndEdit, Rehash, Replace, ReplaceFails, ChooseApply,
         SendReload, ControlFails, ExitTimesOut, ListenerTaken, KillCommand

\* However many commands run, interleave and are killed, a server that stays
\* up never changes a field that only a restart applies: the difference to
\* the running configuration decides, not the one a command saw
\* (reload_owned_transaction, classify_transition).
THEOREM RestartOnlyFieldsWaitHolds == MutationSpec => RestartOnlyFieldsWait
<1>1. MutationInit => ServerShape
  BY Zenon DEF MutationInit, ServerShape
<1>2. ServerShape /\ [MutationNext]_mutationVars => ServerShape'
  BY MutationStep, Zenon
<1>3. ServerShape /\ [MutationNext]_mutationVars
        => [server.up /\ server'.up => server'.running.fixed = server.running.fixed]_mutationVars
  BY MutationStep, Zenon
<1>4. QED
  BY <1>1, <1>2, <1>3, PTL DEF MutationSpec, RestartOnlyFieldsWait

-----------------------------------------------------------------------------
(* The transaction behind "eggpool connect" (ConnectTransaction).          *)

CliShape ==
    DOMAIN cli = {"phase", "base", "revision", "force", "backup", "wanted", "outcome"}

\* What each phase of an install knows of the two files: they are as the
\* backup has them, or as planned, up to the write it stands before.
FilesOfPhase ==
    /\ cli.phase = "backed_up" =>
          config = cli.backup.config /\ catalog = cli.backup.catalog
    /\ cli.phase \in {"config_written", "written", "validated", "native"} =>
          config = Mutated(cli.backup.config, cli.base)
    /\ cli.phase \in {"written", "validated", "native"} => catalog = cli.revision
    /\ cli.phase = "rollback_catalog" => config = cli.backup.config

ConnectInv ==
    /\ CliShape
    /\ cli.phase # "idle" => cli.outcome = "none"
    /\ FilesOfPhase

\* A change of the phase alone leaves the rest of the command.
LEMMA AtFrame ==
  ASSUME CliShape, NEW phase, At(phase)
  PROVE  /\ CliShape'
         /\ cli'.phase = phase /\ cli'.base = cli.base /\ cli'.revision = cli.revision
         /\ cli'.backup = cli.backup /\ cli'.outcome = cli.outcome
BY Zenon DEF CliShape, At

\* A report ends the command.
LEMMA ReportsFrame ==
  ASSUME CliShape, NEW outcome, Reports(outcome)
  PROVE  CliShape' /\ cli'.phase = "idle" /\ cli'.outcome = outcome
BY Zenon DEF CliShape, Reports

\* The backup taken holds the configuration, and the catalog where asked for.
LEMMA TakeBackupFrame ==
  ASSUME CliShape, NEW phase, NEW artifact, NEW previous,
         TakeBackup(phase, artifact, previous)
  PROVE  /\ CliShape'
         /\ cli'.phase = phase /\ cli'.outcome = cli.outcome
         /\ cli'.backup.config = config /\ cli'.backup.catalog = artifact
BY Zenon DEF CliShape, TakeBackup

\* Every step of a command, and every edit of the user's, keeps the invariant.
LEMMA ConnectStep ==
  ASSUME ConnectInv, [ConnectNext]_connectVars
  PROVE  ConnectInv'
<1> USE DEF ConnectInv
<1>1. CASE UNCHANGED connectVars
  BY <1>1, Zenon DEF connectVars, CliShape, FilesOfPhase
<1>2. CASE UserEdits
  BY <1>2, Zenon DEF UserEdits, CliShape, FilesOfPhase
<1>3. ASSUME NEW base, NEW r, NEW force, BeginInstall(base, r, force)
      PROVE  ConnectInv'
  BY <1>3, Zenon DEF BeginInstall, IdleCli, CliShape, FilesOfPhase
<1>4. ASSUME NEW outcome, Reports(outcome)
      PROVE  ConnectInv'
  BY <1>4, ReportsFrame, Zenon DEF FilesOfPhase
<1>5. CASE PlanInstall
  BY <1>4, <1>5, AtFrame DEF PlanInstall, FilesOfPhase
<1>6. CASE CommitBackup
  BY <1>6, TakeBackupFrame DEF CommitBackup, FilesOfPhase
<1>7. CASE WriteConfig
  BY <1>7, AtFrame DEF WriteConfig, FilesOfPhase
<1>8. CASE WriteCatalog
  BY <1>8, AtFrame DEF WriteCatalog, FilesOfPhase
<1>9. CASE StepFails
  BY <1>9, AtFrame DEF StepFails, FilesOfPhase
<1>10. CASE ValidateLocal
  BY <1>10, AtFrame DEF ValidateLocal, FilesOfPhase
<1>11. CASE ValidateNative
  BY <1>11, AtFrame DEF ValidateNative, FilesOfPhase
<1>12. CASE RollbackConfig
  BY <1>12, AtFrame DEF RollbackConfig, FilesOfPhase
<1>13. CASE BeginRestore
  BY <1>13, Zenon DEF BeginRestore, IdleCli, CliShape, FilesOfPhase
<1>14. CASE PreRestoreBackup
  BY <1>14, TakeBackupFrame, Zenon DEF PreRestoreBackup, FilesOfPhase
<1>15. ASSUME NEW force, BeginRemove(force)
       PROVE  ConnectInv'
  BY <1>15, Zenon DEF BeginRemove, IdleCli, CliShape, FilesOfPhase
<1>16. CASE PreRemoveBackup
  BY <1>16, Zenon DEF PreRemoveBackup, CliShape, FilesOfPhase
<1>17. QED
  BY <1>1, <1>2, <1>3, <1>4, <1>5, <1>6, <1>7, <1>8, <1>9, <1>10, <1>11, <1>12, <1>13,
     <1>14, <1>15, <1>16, Zenon
     DEF ConnectNext, FetchFails, Declined, BackupFails, Unreadable, CommitInstall,
         RollbackCatalog, RollbackFails, RestoreSnapshot, SnapshotMissing, RemoveOwned,
         ReplaceError, KillCli

\* The step that reports how an install ended: only the last step of the
\* rollback says "rolled back", only the last step of the install "committed".
LEMMA ReportedOnlyAtTheEnd ==
  ASSUME ConnectInv, ConnectNext, cli.phase # "idle",
         cli'.outcome \in {"rolled_back", "committed"}
  PROVE  RollbackCatalog \/ CommitInstall
<1> USE DEF ConnectInv
<1>1. ASSUME NEW phase, At(phase)
      PROVE  FALSE
  BY <1>1, AtFrame, Zenon
<1>2. ASSUME NEW outcome, Reports(outcome)
      PROVE  outcome \in {"rolled_back", "committed"}
  BY <1>2, ReportsFrame, Zenon
<1>3. ASSUME NEW phase, NEW artifact, NEW previous, TakeBackup(phase, artifact, previous)
      PROVE  FALSE
  BY <1>3, TakeBackupFrame, Zenon
<1>4. CASE UserEdits
  BY <1>4, Zenon DEF UserEdits
<1>5. CASE PreRemoveBackup
  BY <1>5, Zenon DEF PreRemoveBackup, CliShape
<1>6. CASE PlanInstall
  BY <1>1, <1>2, <1>6 DEF PlanInstall
<1>7. CASE FetchFails \/ Declined \/ BackupFails \/ Unreadable \/ RollbackFails
           \/ RestoreSnapshot \/ SnapshotMissing \/ RemoveOwned \/ ReplaceError \/ KillCli
  BY <1>2, <1>7
     DEF FetchFails, Declined, BackupFails, Unreadable, RollbackFails, RestoreSnapshot,
         SnapshotMissing, RemoveOwned, ReplaceError, KillCli
<1>8. QED
  BY <1>1, <1>3, <1>4, <1>5, <1>6, <1>7, Zenon
     DEF ConnectNext, BeginInstall, CommitBackup, WriteConfig, WriteCatalog, StepFails,
         ValidateLocal, ValidateNative, RollbackConfig, BeginRestore, PreRestoreBackup,
         BeginRemove

\* However an install interleaves with failures, kills and the user's edits,
\* one that says it rolled back left the configuration and the catalog as its
\* backup found them, and one that says it committed left both as planned
\* (connect/install.rs: install, rollback).
THEOREM OutcomeMatchesFilesHolds == ConnectSpec => OutcomeMatchesFiles
<1> DEFINE EndsAsTold ==
      cli.phase # "idle" =>
         /\ cli'.outcome = "rolled_back" =>
               config' = cli.backup.config /\ catalog' = cli.backup.catalog
         /\ cli'.outcome = "committed" =>
               config' = Mutated(cli.backup.config, cli.base) /\ catalog' = cli.revision
<1>1. ConnectInit => ConnectInv
  BY DEF ConnectInit, ConnectInv, CliShape, FilesOfPhase, IdleCli
<1>2. ConnectInv /\ [ConnectNext]_connectVars => ConnectInv'
  BY ConnectStep, Zenon
<1>3. ASSUME ConnectInv, ConnectNext
      PROVE  EndsAsTold
  <2>1. CASE RollbackCatalog
    BY <1>3, <2>1, ReportsFrame DEF RollbackCatalog, ConnectInv, FilesOfPhase
  <2>2. CASE CommitInstall
    BY <1>3, <2>2, ReportsFrame DEF CommitInstall, ConnectInv, FilesOfPhase
  <2>3. QED
    BY <1>3, <2>1, <2>2, ReportedOnlyAtTheEnd, Zenon
<1>4. ConnectInv /\ [ConnectNext]_connectVars => [EndsAsTold]_connectVars
  BY <1>3, Zenon
<1>5. QED
  BY <1>1, <1>2, <1>4, PTL DEF ConnectSpec, OutcomeMatchesFiles

-----------------------------------------------------------------------------
(* The transition behind "eggpool update" (UpdateTransition).              *)

UpdateShapes ==
    /\ DOMAIN install = {"owner", "exec", "rollback", "stage"}
    /\ DOMAIN updater = {"pc", "current", "target", "wasRunning", "viaSystemd", "image"}
    /\ install.owner \in InstallOwners

\* Where the release being replaced, and the one replacing it, are at each
\* step of the transition.
ReleasesOfStep ==
    /\ UpdateAt("stop") \/ UpdateAt("poll") \/ UpdateAt("change") =>
          install.exec = updater.current
    /\ UpdateAt("staged") =>
          install.owner = "standalone" /\ install.exec = updater.current
    /\ UpdateAt("moved") =>
          /\ install.owner = "standalone" /\ install.rollback = updater.current
          /\ install.stage = updater.target
    /\ UpdateAt("recheck") =>
          install.owner = "standalone" /\ install.rollback = updater.current
    /\ UpdateAt("restart") \/ UpdateAt("commit") =>
          /\ install.exec = updater.target
          /\ install.owner = "standalone" => install.rollback = updater.current
    /\ UpdateAt("verify") \/ UpdateAt("rollback") \/ UpdateAt("rollback_failed") =>
          install.owner = "package"
    /\ UpdateAt("restore") =>
          install.owner = "package" /\ install.exec = updater.current
    /\ UpdateAt("fail") =>
          updater.current \in {install.exec, install.rollback}

UpdateSteps ==
    {"idle", "stop", "poll", "change", "staged", "moved", "recheck", "restart", "commit",
     "verify", "rollback", "rollback_failed", "restore", "fail"}

UpdateInv ==
    /\ UpdateShapes
    /\ updater.pc \in UpdateSteps
    /\ ~UpdateAt("idle") => updateReport.is = "none"
    /\ ReleasesOfStep
    /\ ReleaseSurvives

\* A change of the step alone leaves the rest of the command.
LEMMA ToFrame ==
  ASSUME UpdateShapes, NEW step, To(step)
  PROVE  /\ DOMAIN updater' = DOMAIN updater
         /\ updater'.pc = step
         /\ updater'.current = updater.current /\ updater'.target = updater.target
BY Zenon DEF UpdateShapes, To

\* A return tells the releases the transition was between.
LEMMA ReturnFrame ==
  ASSUME UpdateShapes, NEW is, Return(is)
  PROVE  /\ DOMAIN updater' = DOMAIN updater
         /\ updater'.pc = "idle"
         /\ updateReport'.is = is
         /\ updateReport'.from = updater.current /\ updateReport'.to = updater.target
BY Zenon DEF UpdateShapes, Return

\* The rollback file goes back to the executable path or stays where it is.
LEMMA RestoredFrame ==
  ASSUME UpdateShapes, Restored, install.rollback = updater.current
  PROVE  /\ DOMAIN install' = DOMAIN install /\ install'.owner = install.owner
         /\ updater.current \in {install'.exec, install'.rollback}
<1>1. CASE install' = [install EXCEPT !.exec = install.rollback, !.rollback = NoRelease, !.stage = NoRelease]
  BY <1>1, Zenon DEF UpdateShapes
<1>2. CASE install' = [install EXCEPT !.exec = NoRelease, !.stage = NoRelease]
  BY <1>2, Zenon DEF UpdateShapes
<1>3. QED
  BY <1>1, <1>2, Zenon DEF Restored

LEMMA UpdateStep ==
  ASSUME UpdateInv, [UpdateNext]_updateVars
  PROVE  UpdateInv'
<1> USE DEF UpdateInv
<1>0. UpdateShapes /\ ReleasesOfStep /\ ReleaseSurvives
  OBVIOUS
<1>1. CASE UNCHANGED <<install, updater, updateReport>>
  BY <1>1 DEF UpdateShapes, ReleasesOfStep, ReleaseSurvives, UpdateAt
<1>2. ASSUME NEW t \in Releases, BeginUpdate(t)
      PROVE  UpdateInv'
  <2>1. CASE LockIsFree
    BY <1>2, <2>1
       DEF BeginUpdate, NoUpdateReport, UpdateShapes, UpdateSteps, ReleasesOfStep, ReleaseSurvives, UpdateAt
  <2>2. CASE ~LockIsFree
    BY <1>2, <2>2, Zenon
       DEF BeginUpdate, NoUpdateReport, UpdateShapes, UpdateSteps, ReleasesOfStep, ReleaseSurvives, UpdateAt
  <2>3. QED
    BY <2>1, <2>2, Zenon
<1>3. ASSUME NEW is \in {"stop_failed", "did_not_stop"}, Return(is), UNCHANGED install,
             UpdateAt("stop") \/ UpdateAt("poll")
      PROVE  UpdateInv'
  BY <1>3, ReturnFrame, Zenon DEF UpdateShapes, UpdateSteps, ReleasesOfStep, ReleaseSurvives, UpdateAt
<1>4. ASSUME NEW step \in {"poll", "change", "fail"}, To(step), UNCHANGED <<install, updateReport>>,
             UpdateAt("stop") \/ UpdateAt("poll") \/ UpdateAt("change")
      PROVE  UpdateInv'
  BY <1>4, ToFrame, Zenon DEF UpdateShapes, UpdateSteps, ReleasesOfStep, ReleaseSurvives, UpdateAt
<1>5. CASE StopServer
  BY <1>3, <1>4, <1>5, Zenon DEF StopServer
<1>6. CASE SystemctlStop
  BY <1>3, <1>4, <1>6, Zenon DEF SystemctlStop
<1>7. CASE PollStopped
  BY <1>3, <1>4, <1>7, Zenon DEF PollStopped
<1>8. CASE Refuse
  BY <1>4, <1>8, Zenon DEF Refuse
<1>9. CASE RunManager
  BY <1>9 DEF RunManager, UpdateShapes, UpdateSteps, ReleasesOfStep, ReleaseSurvives, UpdateAt
<1>10. CASE VerifyPackage
  BY <1>10, ToFrame
     DEF VerifyPackage, SelfChecks, UpdateShapes, UpdateSteps, ReleasesOfStep, ReleaseSurvives, UpdateAt
<1>11. CASE RollBack
  BY <1>11, ToFrame
     DEF RollBack, SelfChecks, UpdateShapes, UpdateSteps, ReleasesOfStep, ReleaseSurvives, UpdateAt
<1>12. CASE StageArtifact
  BY <1>12, ToFrame
     DEF StageArtifact, UpdateShapes, UpdateSteps, ReleasesOfStep, ReleaseSurvives, UpdateAt
<1>13. CASE MoveAside
  <2>1. CASE /\ install' = [install EXCEPT !.rollback = install.exec, !.exec = NoRelease]
             /\ install.stage = updater.target
             /\ updater' = [updater EXCEPT !.pc = "moved", !.image = "rollback"]
    BY <1>13, <2>1, Zenon
       DEF MoveAside, UpdateShapes, UpdateSteps, ReleasesOfStep, ReleaseSurvives, UpdateAt
  <2>2. CASE install' = [install EXCEPT !.stage = NoRelease] /\ To("fail")
    BY <1>13, <2>2, ToFrame, SMTT(30)
       DEF MoveAside, UpdateShapes, UpdateSteps, ReleasesOfStep, ReleaseSurvives, UpdateAt
  <2>3. QED
    BY <1>13, <2>1, <2>2, Zenon DEF MoveAside, SelfChecks
<1>14. ASSUME Restored, To("fail"), UNCHANGED updateReport, ~UpdateAt("idle"),
              install.rollback = updater.current
       PROVE  UpdateInv'
  BY <1>14, ToFrame, RestoredFrame
     DEF UpdateShapes, UpdateSteps, ReleasesOfStep, ReleaseSurvives, UpdateAt
<1>15. CASE MoveIn
  <2>1. CASE install' = [install EXCEPT !.exec = install.stage, !.stage = NoRelease] /\ To("recheck")
    BY <1>15, <2>1, ToFrame
       DEF MoveIn, UpdateShapes, UpdateSteps, ReleasesOfStep, ReleaseSurvives, UpdateAt
  <2>2. QED
    BY <1>14, <1>15, <2>1, Zenon DEF MoveIn, UpdateAt, ReleasesOfStep
<1>16. CASE Recheck
  <2>1. CASE SelfChecks(install.exec, updater.target) /\ UNCHANGED install
             /\ To(IF updater.wasRunning THEN "restart" ELSE "commit")
    BY <1>16, <2>1, ToFrame
       DEF Recheck, SelfChecks, UpdateShapes, UpdateSteps, ReleasesOfStep, ReleaseSurvives, UpdateAt
  <2>2. QED
    BY <1>14, <1>16, <2>1, Zenon DEF Recheck, UpdateAt, ReleasesOfStep
<1>17. CASE RestartServer
  <2>1. CASE To("commit") /\ UNCHANGED install
    BY <1>17, <2>1, ToFrame
       DEF RestartServer, UpdateShapes, UpdateSteps, ReleasesOfStep, ReleaseSurvives, UpdateAt
  <2>2. CASE install.owner = "package" /\ To("rollback") /\ UNCHANGED install
    BY <1>17, <2>2, ToFrame, Zenon
       DEF RestartServer, UpdateShapes, UpdateSteps, ReleasesOfStep, ReleaseSurvives, UpdateAt
  <2>3. CASE install.owner = "standalone" /\ Restored /\ To("fail")
    BY <1>14, <1>17, <2>3, Zenon DEF RestartServer, UpdateAt, ReleasesOfStep
  <2>4. QED
    BY <1>17, <2>1, <2>2, <2>3, Zenon DEF RestartServer, UpdateShapes, InstallOwners
<1>18. CASE RestartRolledBack
  <2>1. PICK step \in {"fail", "rollback_failed"} :
           To(step) /\ UNCHANGED <<install, updateReport>> /\ UpdateAt("restore")
    BY <1>18, Zenon DEF RestartRolledBack
  <2>2. QED
    BY <2>1, ToFrame, Zenon DEF UpdateShapes, UpdateSteps, ReleasesOfStep, ReleaseSurvives, UpdateAt
<1>19. CASE CommitUpdate
  BY <1>19, ReturnFrame
     DEF CommitUpdate, UpdateShapes, UpdateSteps, ReleasesOfStep, ReleaseSurvives, UpdateAt
<1>20. CASE FailUpdate
  BY <1>20, ReturnFrame
     DEF FailUpdate, UpdateShapes, UpdateSteps, ReleasesOfStep, ReleaseSurvives, UpdateAt
<1>21. CASE KillUpdater
  BY <1>21, Zenon DEF KillUpdater, UpdateShapes, UpdateSteps, ReleasesOfStep, ReleaseSurvives, UpdateAt
<1>22. QED
  BY <1>1, <1>2, <1>5, <1>6, <1>7, <1>8, <1>9, <1>10, <1>11, <1>12, <1>13, <1>15, <1>16,
     <1>17, <1>18, <1>19, <1>20, <1>21, Zenon
     DEF UpdateNext, updateVars, ServiceStarts, OtherUpdaterEnds

\* Whatever releases there are, wherever the transition fails and whenever it
\* is killed, the release an update replaces survives it (update.rs,
\* runtime.rs: update, replace_executable, rollback_after_mutation).
THEOREM ReleaseSurvivesHolds == UpdateSpec => []ReleaseSurvives
<1>1. UpdateInit => UpdateInv
  BY DEF UpdateInit, NoUpdateReport, UpdateInv, UpdateShapes, UpdateSteps, ReleasesOfStep,
         ReleaseSurvives, UpdateAt
<1>2. UpdateInv /\ [UpdateNext]_updateVars => UpdateInv'
  BY UpdateStep, Zenon
<1>3. UpdateInv => ReleaseSurvives
  BY Zenon DEF UpdateInv
<1>4. QED
  BY <1>1, <1>2, <1>3, PTL DEF UpdateSpec

-----------------------------------------------------------------------------
(* Backups and their restoration (BackupRestore).                          *)

BackupShapes ==
    /\ DOMAIN live = {"config", "env", "main", "wal"}
    /\ DOMAIN restoration = {"step", "archive", "before", "saved", "disturbed"}
    /\ restoration.disturbed \in BOOLEAN
    /\ restoration.step \in
          {"idle", "stop", "prepare", "config", "env", "database", "clean", "undo"}

\* What a restore that no other process disturbed knows of the live files:
\* which of them are still the saved originals, and which the archive's.
FilesOfRestore ==
    LET step == restoration.step
        archive == restoration.archive
        saved == restoration.saved
    IN  /\ step \in {"prepare", "config", "env", "database", "clean", "undo"} => daemon.is # "up"
        /\ step \in {"config", "env", "database", "clean", "undo"} =>
              restoration.before = Readable(saved) /\ live.wal = saved.wal
        /\ step \in {"env", "database", "clean"} => live.config = archive.config
        /\ step \in {"database", "clean"} => archive.env \in {NoContents, live.env}
        /\ step = "clean" => live.main = archive.db

RestoreInv ==
    /\ BackupShapes
    /\ ~restoration.disturbed => FilesOfRestore
    /\ restoration.step \in {"stop", "prepare"} => restoration.before = NoContents
    /\ restoration.step # "idle" => restored = NoOutcome
    /\ restored.before # NoContents => daemon.is # "up"
    /\ RestoreIsAllOrNothing

\* The readable state depends on the four files alone.
LEMMA ReadableOfSame ==
  ASSUME NEW f, NEW g, f.config = g.config, f.env = g.env, f.main = g.main, f.wal = g.wal
  PROVE  Readable(f) = Readable(g)
<1>1. Contents(f) = Contents(g)
  BY Zenon DEF Contents
<1>2. QED
  BY <1>1, Zenon DEF Readable

\* A disturbance is remembered to the end of the restore.
LEMMA DisturbsFrame ==
  ASSUME BackupShapes, Disturbs
  PROVE  /\ DOMAIN restoration' = DOMAIN restoration
         /\ restoration'.step = restoration.step /\ restoration'.before = restoration.before
         /\ restoration'.disturbed = (restoration.disturbed \/ restoration.step # "idle")
BY Zenon DEF BackupShapes, Disturbs

LEMMA GoesFrame ==
  ASSUME BackupShapes, NEW step, Goes(step)
  PROVE  /\ DOMAIN restoration' = DOMAIN restoration
         /\ restoration'.step = step /\ restoration'.disturbed = restoration.disturbed
         /\ restoration'.archive = restoration.archive
         /\ restoration'.before = restoration.before
         /\ restoration'.saved = restoration.saved
         /\ restored' = restored
BY Zenon DEF BackupShapes, Goes

LEMMA TellFrame ==
  ASSUME NEW is, Tell(is)
  PROVE  /\ restoration' = NoRestoration
         /\ restored'.is = is /\ restored'.archive = restoration.archive
         /\ restored'.before # NoContents =>
               ~restoration.disturbed /\ restored'.before = restoration.before
BY Zenon DEF Tell

\* A copy of the log into the main file keeps the set of files.
LEMMA CheckpointedShape ==
  ASSUME BackupShapes, NEW holds
  PROVE  DOMAIN Checkpointed(live, holds) = DOMAIN live
BY Zenon DEF BackupShapes, Checkpointed

\* A step of the restore command or of anything beside it keeps the invariant.
LEMMA RestoreStep ==
  ASSUME RestoreInv, [BackupNext]_backupVars
  PROVE  RestoreInv'
<1> USE DEF RestoreInv
<1>1. ASSUME UNCHANGED <<live, restoration, restored>>, daemon' = daemon \/ daemon.is = "up"
      PROVE  RestoreInv'
  BY <1>1 DEF BackupShapes, FilesOfRestore, RestoreIsAllOrNothing, Readable, Contents
<1>2. ASSUME UNCHANGED <<restoration, restored>>, daemon.is = "up", DOMAIN live' = DOMAIN live
      PROVE  RestoreInv'
  BY <1>2, Zenon DEF BackupShapes, FilesOfRestore, RestoreIsAllOrNothing
<1>3. ASSUME DOMAIN live' = DOMAIN live, Disturbs, restored' = NoOutcome
      PROVE  RestoreInv'
  <2>1. BackupShapes'
    BY <1>3, DisturbsFrame, Zenon DEF BackupShapes
  <2>2. ~restoration'.disturbed => FilesOfRestore'
    BY <1>3, DisturbsFrame, Zenon DEF FilesOfRestore, BackupShapes
  <2>3. restored'.before = NoContents
    BY <1>3, Zenon DEF NoOutcome
  <2>4. QED
    BY <1>3, <2>1, <2>2, <2>3, DisturbsFrame, Zenon DEF RestoreIsAllOrNothing
<1>4. CASE EditConfig
  <2>1. DOMAIN live' = DOMAIN live
    BY <1>4, Zenon DEF EditConfig
  <2>2. restored' = NoOutcome /\ restored'.before = NoContents
        /\ UNCHANGED <<daemon, restoration>> /\ restoration.step = "idle"
    BY <1>4, Zenon DEF EditConfig, NoOutcome
  <2>3. BackupShapes' /\ FilesOfRestore'
    BY <2>1, <2>2, Zenon DEF BackupShapes, FilesOfRestore
  <2>4. QED
    BY <2>2, <2>3, Zenon DEF RestoreIsAllOrNothing
<1>5. CASE DaemonStarts
  BY <1>3, <1>5, Zenon DEF DaemonStarts
<1>6. CASE DaemonWrites
  BY <1>2, <1>6, Zenon DEF DaemonWrites
<1>7. CASE DaemonCheckpoints \/ DaemonStops
  BY <1>2, <1>7, CheckpointedShape, Zenon DEF DaemonCheckpoints, DaemonStops, Stopped
<1>8. ASSUME NEW auto \in BOOLEAN, SnapshotDatabase(auto)
      PROVE  RestoreInv'
  BY <1>3, <1>8, CheckpointedShape, Zenon DEF SnapshotDatabase
<1>9. ASSUME NEW i, ChooseArchive(i)
      PROVE  RestoreInv'
  BY <1>9, Zenon
     DEF ChooseArchive, NoRestoration, NoOutcome, BackupShapes, FilesOfRestore, RestoreIsAllOrNothing
<1>10. ASSUME NEW is, Tell(is), DOMAIN live' = DOMAIN live, UNCHANGED daemon,
              restoration.step # "idle", RestoreIsAllOrNothing'
       PROVE  RestoreInv'
  <2>1. /\ restored'.before # NoContents => ~restoration.disturbed /\ restoration.before # NoContents
        /\ restoration' = NoRestoration
    BY <1>10, TellFrame, Zenon
  <2>2. restored'.before # NoContents => daemon.is # "up"
    BY <1>10, <2>1, Zenon DEF BackupShapes, FilesOfRestore
  <2>3. BackupShapes' /\ restoration'.step = "idle"
    BY <1>10, <2>1, Zenon DEF NoRestoration, BackupShapes
  <2>4. FilesOfRestore'
    BY <2>3, Zenon DEF FilesOfRestore
  <2>5. QED
    BY <1>10, <2>2, <2>3, <2>4, Zenon
<1>11. ASSUME NEW is \in {"refused", "killed", "rollback_failed"}, Tell(is)
       PROVE  RestoreIsAllOrNothing'
  BY <1>11, TellFrame, Zenon DEF RestoreIsAllOrNothing
<1>12. CASE StopForRestore
  <2>1. CASE Goes("prepare") /\ (IF daemon.is = "up" THEN Stopped ELSE UNCHANGED <<live, daemon>>)
    <3>1. DOMAIN live' = DOMAIN live /\ daemon'.is # "up"
      BY <2>1, CheckpointedShape DEF Stopped
    <3>2. BackupShapes' /\ restoration'.step = "prepare" /\ restoration'.before = NoContents
          /\ restored' = NoOutcome
      BY <1>12, <2>1, <3>1, GoesFrame, Zenon DEF BackupShapes, StopForRestore
    <3>3. FilesOfRestore'
      BY <3>1, <3>2, Zenon DEF FilesOfRestore
    <3>4. QED
      BY <3>1, <3>2, <3>3, Zenon DEF RestoreIsAllOrNothing, NoOutcome
  <2>2. QED
    BY <1>10, <1>11, <1>12, <2>1, Zenon DEF StopForRestore
<1>13. CASE SaveOriginals
  <2>1. /\ BackupShapes' /\ restoration'.step = "config" /\ restoration'.saved = live
        /\ restoration'.before = Readable(live) /\ restoration'.disturbed = restoration.disturbed
        /\ UNCHANGED <<live, daemon, restored>> /\ restored = NoOutcome
    BY <1>13, Zenon DEF SaveOriginals, BackupShapes
  <2>2. ~restoration.disturbed => FilesOfRestore'
    BY <1>13, <2>1, Zenon DEF SaveOriginals, FilesOfRestore, Readable, Contents
  <2>3. QED
    BY <2>1, <2>2, Zenon DEF RestoreIsAllOrNothing, NoOutcome
<1>14. CASE RefuseArchive \/ KillRestore
  BY <1>10, <1>11, <1>14, Zenon DEF RefuseArchive, KillRestore
<1>15. ASSUME NEW step \in {"env", "database", "clean", "undo"}, Goes(step),
              DOMAIN live' = DOMAIN live, UNCHANGED daemon, live'.wal = live.wal,
              restoration.step \in {"config", "env", "database"},
              ~restoration.disturbed =>
                 /\ step # "undo" => live'.config = restoration.archive.config
                 /\ step \in {"database", "clean"} =>
                       restoration.archive.env \in {NoContents, live'.env}
                 /\ step = "clean" => live'.main = restoration.archive.db
       PROVE  RestoreInv'
  <2>1. BackupShapes' /\ restored' = NoOutcome
    BY <1>15, GoesFrame, Zenon DEF BackupShapes
  <2>2. ~restoration.disturbed => FilesOfRestore'
    BY <1>15, GoesFrame, Zenon DEF FilesOfRestore, Readable, Contents
  <2>3. QED
    BY <1>15, <2>1, <2>2, GoesFrame, Zenon DEF RestoreIsAllOrNothing, NoOutcome
<1>16. CASE WriteServerConfig
  <2>1. CASE live' = [live EXCEPT !.config = restoration.archive.config] /\ Goes("env")
    BY <1>15, <1>16, <2>1, Zenon DEF WriteServerConfig, BackupShapes
  <2>2. QED
    BY <1>15, <1>16, <2>1, Zenon DEF WriteServerConfig
<1>17. CASE WriteEnv
  <2>1. CASE live' = [live EXCEPT !.env = IF restoration.archive.env = NoContents THEN @
                                          ELSE restoration.archive.env]
             /\ Goes("database")
    <3>1. /\ DOMAIN live' = DOMAIN live /\ live'.wal = live.wal /\ live'.config = live.config
          /\ restoration.archive.env \in {NoContents, live'.env}
      BY <2>1, Zenon DEF BackupShapes
    <3>2. ~restoration.disturbed => live.config = restoration.archive.config
      BY <1>17, Zenon DEF WriteEnv, FilesOfRestore
    <3>3. QED
      BY <1>15, <1>17, <2>1, <3>1, <3>2, Zenon DEF WriteEnv
  <2>2. QED
    BY <1>15, <1>17, <2>1, Zenon DEF WriteEnv
<1>18. CASE WriteDatabase
  <2>1. CASE live' = [live EXCEPT !.main = restoration.archive.db] /\ Goes("clean")
    <3>1. /\ DOMAIN live' = DOMAIN live /\ live'.wal = live.wal /\ live'.config = live.config
          /\ live'.env = live.env /\ live'.main = restoration.archive.db
      BY <2>1, Zenon DEF BackupShapes
    <3>2. ~restoration.disturbed =>
             /\ live.config = restoration.archive.config
             /\ restoration.archive.env \in {NoContents, live.env}
      BY <1>18, Zenon DEF WriteDatabase, FilesOfRestore
    <3>3. QED
      BY <1>15, <1>18, <2>1, <3>1, <3>2, Zenon DEF WriteDatabase
  <2>2. QED
    BY <1>15, <1>18, <2>1, Zenon DEF WriteDatabase
<1>19. CASE UndoRestore
  <2> DEFINE saved == restoration.saved
             back == [live EXCEPT !.config = saved.config]
             both == [back EXCEPT !.env = saved.env]
  <2>1. CASE live' = [both EXCEPT !.main = saved.main] /\ Tell("failed")
    <3>1. /\ DOMAIN live' = DOMAIN live /\ live'.wal = live.wal /\ live'.config = saved.config
          /\ live'.env = saved.env /\ live'.main = saved.main
      BY <2>1, Zenon DEF BackupShapes
    <3>2. ~restoration.disturbed => restoration.before = Readable(saved) /\ live.wal = saved.wal
      BY <1>19, Zenon DEF UndoRestore, FilesOfRestore
    <3>3. ~restoration.disturbed => Readable(live') = restoration.before
      BY <3>1, <3>2, ReadableOfSame, Zenon
    <3>4. RestoreIsAllOrNothing'
      BY <2>1, <3>3, TellFrame DEF RestoreIsAllOrNothing, Readable, Contents
    <3>5. QED
      BY <1>10, <1>19, <2>1, <3>1, <3>4, Zenon DEF UndoRestore
  <2>2. CASE live' \in {live, back, both} /\ Tell("rollback_failed")
    <3>1. DOMAIN live' = DOMAIN live
      BY <2>2, Zenon DEF BackupShapes
    <3>2. QED
      BY <1>10, <1>11, <1>19, <2>2, <3>1, Zenon DEF UndoRestore
  <2>3. QED
    BY <1>19, <2>1, <2>2, Zenon DEF UndoRestore
<1>20. CASE FinishRestore
  <2>1. ASSUME NEW is, Tell(is), is \in {"restored", "cleanup_failed"}
        PROVE  RestoreIsAllOrNothing'
    BY <1>20, <2>1, TellFrame, Zenon DEF FinishRestore, FilesOfRestore, RestoreIsAllOrNothing
  <2>2. QED
    BY <1>10, <1>20, <2>1, Zenon DEF FinishRestore
<1>21. QED
  BY <1>1, <1>4, <1>5, <1>6, <1>7, <1>8, <1>9, <1>12, <1>13, <1>14, <1>16, <1>17, <1>18,
     <1>19, <1>20, Zenon
     DEF BackupNext, backupVars, DaemonCrashes, ReadSources, PublishArchive, AbandonBackup

\* Whatever the archives hold, and wherever a restore stops, one during which
\* no other process opened the database is all or nothing (backup.rs:
\* restore, and its rollback).
THEOREM RestoreIsAllOrNothingHolds == BackupSpec => []RestoreIsAllOrNothing
<1>1. BackupInit => RestoreInv
  <2>1. ASSUME BackupInit
        PROVE  BackupShapes /\ FilesOfRestore /\ restoration.step = "idle"
    BY <2>1, Zenon DEF BackupInit, BackupShapes, FilesOfRestore, NoRestoration
  <2>2. ASSUME BackupInit
        PROVE  restored.before = NoContents
    BY <2>2, Zenon DEF BackupInit, NoOutcome
  <2>3. QED
    BY <2>1, <2>2, Zenon DEF RestoreInv, RestoreIsAllOrNothing
<1>2. RestoreInv /\ [BackupNext]_backupVars => RestoreInv'
  BY RestoreStep, Zenon
<1>3. RestoreInv => RestoreIsAllOrNothing
  BY Zenon DEF RestoreInv
<1>4. QED
  BY <1>1, <1>2, <1>3, PTL DEF BackupSpec

-----------------------------------------------------------------------------
(* Deployment and uninstall (Deployment).                                  *)

\* Where an uninstall is once its service has been stopped; "list" and
\* "listed" are steps of the crontab commands too.
AfterStop ==
    \/ deployment.at \in {"drop_unit", "drop_rotate", "drop_schedule", "drop_wrapper",
                          "daemon_reload", "config", "env", "data", "binary"}
    \/ deployment.kind = "uninstall" /\ deployment.at \in {"list", "listed"}

DeploymentShape ==
    /\ DOMAIN deployment = {"kind", "at", "block", "listed", "keep"}
    /\ DOMAIN unit = {"enabled", "running"}

\* A command runs from the installed binary, enables a unit it has written,
\* and removes files only of a service it has stopped.
DeploymentInv ==
    /\ DeploymentShape
    /\ deployment.at # "idle" => "binary" \in artifacts
    /\ deployment.at \in {"enable", "start"} => "systemd_unit" \in artifacts
    /\ AfterStop => ~unit.enabled
    /\ NoOrphanedService

\* A command goes on, or ends with its report.
LEMMA DeploymentMoves ==
  ASSUME NEW at, DeploymentShape, MovesTo(at)
  PROVE  /\ DOMAIN deployment' = {"kind", "at", "block", "listed", "keep"}
         /\ deployment'.at = at /\ deployment'.kind = deployment.kind /\ told' = told
  BY Zenon DEF DeploymentShape, MovesTo

LEMMA DeploymentEnds ==
  ASSUME NEW is, DeployReports(is)
  PROVE  /\ DOMAIN deployment' = {"kind", "at", "block", "listed", "keep"}
         /\ deployment'.at = "idle" /\ deployment'.kind = "none" /\ told' = is
  BY Zenon DEF DeployReports, NoDeployment

\* A file is written by a command that goes on or ends, never by an uninstall.
LEMMA DeploymentWrites ==
  ASSUME DeploymentInv, NEW one, artifacts' = artifacts \cup {one}, unit' = unit,
         deployment.at # "idle", ~AfterStop',
         DOMAIN deployment' = {"kind", "at", "block", "listed", "keep"},
         told' = told \/ told' # "completed",
         deployment'.at \in {"enable", "start"} => one = "systemd_unit"
  PROVE  DeploymentInv'
<1>1. "binary" \in artifacts
  BY Zenon DEF DeploymentInv
<1>2. told' # "completed"
  BY <1>1, Zenon DEF DeploymentInv, NoOrphanedService
<1>3. unit'.enabled => {"systemd_unit", "binary"} \subseteq artifacts'
  BY Zenon DEF DeploymentInv, NoOrphanedService
<1>4. QED
  BY <1>1, <1>2, <1>3, Zenon DEF DeploymentInv, DeploymentShape, NoOrphanedService

\* Files are removed that the service does not need, or of one that is stopped.
LEMMA DeploymentRemoves ==
  ASSUME DeploymentInv, NEW files, artifacts' = artifacts \ files, unit' = unit,
         deployment.at # "idle", "binary" \notin files,
         AfterStop \/ "systemd_unit" \notin files, AfterStop' => AfterStop,
         DOMAIN deployment' = {"kind", "at", "block", "listed", "keep"},
         told' = told \/ told' # "completed",
         deployment'.at \notin {"enable", "start"}
  PROVE  DeploymentInv'
<1>1. "binary" \in artifacts
  BY Zenon DEF DeploymentInv
<1>2. told' # "completed"
  BY <1>1, Zenon DEF DeploymentInv, NoOrphanedService
<1>3. unit'.enabled => {"systemd_unit", "binary"} \subseteq artifacts'
  BY Zenon DEF DeploymentInv, NoOrphanedService
<1>4. QED
  BY <1>1, <1>2, <1>3, Zenon DEF DeploymentInv, DeploymentShape, NoOrphanedService

\* Only the command and its report move: to no step that needs more.
LEMMA DeploymentGoesOn ==
  ASSUME DeploymentInv, UNCHANGED <<artifacts, unit>>, AfterStop' => AfterStop,
         deployment'.at # "idle" => "binary" \in artifacts,
         DOMAIN deployment' = {"kind", "at", "block", "listed", "keep"},
         told' = told \/ told' # "completed",
         deployment'.at \notin {"enable", "start"}
  PROVE  DeploymentInv'
  BY Zenon DEF DeploymentInv, DeploymentShape, NoOrphanedService

LEMMA DeploymentStep ==
  ASSUME DeploymentInv, [DeploymentNext]_deploymentVars
  PROVE  DeploymentInv'
<1> USE DEF InDeploy
<1>1. CASE UNCHANGED deploymentVars
  BY <1>1, Zenon
     DEF DeploymentInv, DeploymentShape, NoOrphanedService, AfterStop, deploymentVars
<1>2. ASSUME NEW kind, NEW at, NEW block, NEW keep, Begin(kind, at, block, keep),
             at \in {"list", "unit", "rotate", "script", "drop_cron", "stop"},
             at = "list" => kind # "uninstall"
      PROVE  DeploymentInv'
  <2>1. /\ UNCHANGED <<artifacts, unit, told>> /\ "binary" \in artifacts
        /\ deployment' = [kind |-> kind, at |-> at, block |-> block, listed |-> {}, keep |-> keep]
    BY <1>2, Zenon DEF Begin
  <2>2. /\ DOMAIN deployment' = {"kind", "at", "block", "listed", "keep"}
        /\ deployment'.at = at /\ deployment'.kind = kind
    BY <2>1, Zenon
  <2>3. ~AfterStop'
    BY <1>2, <2>2, Zenon DEF AfterStop
  <2>4. at \notin {"enable", "start"}
    BY <1>2, Zenon
  <2>5. QED
    BY <2>1, <2>2, <2>3, <2>4, DeploymentGoesOn, Zenon
<1>3. CASE deploy_cron \/ deploy_backup_cron
  BY <1>2, <1>3, Zenon DEF deploy_cron, deploy_backup_cron
<1>4. CASE deploy_systemd \/ deploy_logrotate \/ deploy_production_backup \/ uninstall
  BY <1>2, <1>4, Zenon DEF deploy_systemd, deploy_logrotate, deploy_production_backup, uninstall
<1>5. CASE ListCrontab
  <2>1. /\ deployment.at = "list" /\ UNCHANGED <<artifacts, unit, told>>
        /\ deployment' = [deployment EXCEPT !.at = "listed", !.listed = crontab]
    BY <1>5, Zenon DEF ListCrontab
  <2>2. /\ DOMAIN deployment' = {"kind", "at", "block", "listed", "keep"}
        /\ deployment'.at = "listed" /\ deployment'.kind = deployment.kind
    BY <2>1, Zenon DEF DeploymentInv, DeploymentShape
  <2>3. AfterStop' => AfterStop
    BY <2>1, <2>2, Zenon DEF AfterStop
  <2>4. "binary" \in artifacts
    BY <2>1, Zenon DEF DeploymentInv
  <2>5. QED
    BY <2>1, <2>2, <2>3, <2>4, DeploymentGoesOn, Zenon
<1>6. ASSUME deployment.at \in {"list", "listed"}, UNCHANGED <<artifacts, unit>>,
             IF deployment.kind = "uninstall" THEN MovesTo("daemon_reload")
             ELSE DeployReports("removed")
      PROVE  DeploymentInv'
  <2>1. CASE deployment.kind = "uninstall"
    <3>1. /\ DOMAIN deployment' = {"kind", "at", "block", "listed", "keep"}
          /\ deployment'.at = "daemon_reload" /\ told' = told
      BY <1>6, <2>1, DeploymentMoves, Zenon DEF DeploymentInv
    <3>2. AfterStop /\ "binary" \in artifacts
      BY <1>6, <2>1, Zenon DEF AfterStop, DeploymentInv
    <3>3. QED
      BY <1>6, <3>1, <3>2, DeploymentGoesOn, Zenon
  <2>2. CASE deployment.kind # "uninstall"
    <3>1. /\ DOMAIN deployment' = {"kind", "at", "block", "listed", "keep"}
          /\ deployment'.at = "idle" /\ told' = "removed"
      BY <1>6, <2>2, DeploymentEnds, Zenon
    <3>2. ~AfterStop'
      BY <1>6, <2>2, DeploymentEnds, Zenon DEF AfterStop
    <3>3. QED
      BY <1>6, <3>1, <3>2, DeploymentGoesOn, Zenon
  <2>3. QED
    BY <2>1, <2>2
<1>7. CASE ListingFails
  <2>1. CASE deployment.kind = "cron_install"
    <3>1. /\ DOMAIN deployment' = {"kind", "at", "block", "listed", "keep"}
          /\ deployment'.at = "listed" /\ deployment'.kind = deployment.kind /\ told' = told
      BY <1>7, <2>1, DeploymentMoves, Zenon DEF ListingFails, DeploymentInv
    <3>2. ~AfterStop' /\ "binary" \in artifacts /\ UNCHANGED <<artifacts, unit>>
      BY <1>7, <2>1, <3>1, Zenon DEF AfterStop, DeploymentInv, ListingFails
    <3>3. QED
      BY <3>1, <3>2, DeploymentGoesOn, Zenon
  <2>2. QED
    BY <1>6, <1>7, <2>1, Zenon DEF ListingFails
<1>8. ASSUME NEW is, is # "completed", DeployReports(is), UNCHANGED <<artifacts, unit>>
      PROVE  DeploymentInv'
  <2>1. /\ DOMAIN deployment' = {"kind", "at", "block", "listed", "keep"}
        /\ deployment'.at = "idle" /\ deployment'.kind = "none" /\ told' = is
    BY <1>8, DeploymentEnds, Zenon
  <2>2. ~AfterStop'
    BY <2>1, Zenon DEF AfterStop
  <2>3. QED
    BY <1>8, <2>1, <2>2, DeploymentGoesOn, Zenon
<1>9. CASE install_cron_block \/ StopsAt
  BY <1>8, <1>9, Zenon DEF install_cron_block, StopsAt
<1>10. CASE uninstall_cron_blocks
  BY <1>6, <1>10, Zenon DEF uninstall_cron_blocks
<1>11. CASE UserEditsCrontab
  BY <1>11, Zenon
     DEF UserEditsCrontab, DeploymentInv, DeploymentShape, NoOrphanedService, AfterStop
<1>12. ASSUME NEW at, NEW one, NEW to, deployment.at = at, artifacts' = artifacts \cup {one},
              unit' = unit, MovesTo(to), at # "idle",
              <<one, to>> \in {<<"systemd_unit", "enable">>, <<"backup_script", "schedule">>}
       PROVE  DeploymentInv'
  <2>1. /\ DOMAIN deployment' = {"kind", "at", "block", "listed", "keep"}
        /\ deployment'.at = to /\ told' = told
    BY <1>12, DeploymentMoves, Zenon DEF DeploymentInv
  <2>2. /\ to \in {"enable", "schedule"}
        /\ to \in {"enable", "start"} => one = "systemd_unit"
    BY <1>12, Zenon
  <2>3. ~AfterStop'
    BY <2>1, <2>2, Zenon DEF AfterStop
  <2>4. QED
    BY <1>12, <2>1, <2>2, <2>3, DeploymentWrites, Zenon
<1>13. ASSUME NEW at, NEW one, NEW is, deployment.at = at, artifacts' = artifacts \cup {one},
              unit' = unit, DeployReports(is), at # "idle", is # "completed"
       PROVE  DeploymentInv'
  <2>1. /\ DOMAIN deployment' = {"kind", "at", "block", "listed", "keep"}
        /\ deployment'.at = "idle" /\ deployment'.kind = "none" /\ told' = is
    BY <1>13, DeploymentEnds, Zenon
  <2>2. ~AfterStop'
    BY <2>1, Zenon DEF AfterStop
  <2>3. QED
    BY <1>13, <2>1, <2>2, DeploymentWrites, Zenon
<1>14. CASE WriteUnit \/ WriteBackupScript
  BY <1>12, <1>14, Zenon DEF WriteUnit, WriteBackupScript, Writes
<1>15. CASE install_logrotate \/ WriteProductionCron
  BY <1>13, <1>15, Zenon DEF install_logrotate, WriteProductionCron, Writes
<1>16. CASE EnableUnit
  <2>1. /\ DOMAIN deployment' = {"kind", "at", "block", "listed", "keep"}
        /\ deployment'.at = "start" /\ told' = told
    BY <1>16, DeploymentMoves, Zenon DEF DeploymentInv, EnableUnit
  <2>2. ~AfterStop'
    BY <2>1, Zenon DEF AfterStop
  <2>3. {"systemd_unit", "binary"} \subseteq artifacts
    BY <1>16, Zenon DEF EnableUnit, DeploymentInv
  <2>4. DOMAIN unit' = DOMAIN unit /\ artifacts' = artifacts
    BY <1>16, Zenon DEF EnableUnit
  <2>5. QED
    BY <2>1, <2>2, <2>3, <2>4, Zenon DEF DeploymentInv, DeploymentShape, NoOrphanedService
<1>17. CASE StartUnit
  <2>1. /\ DOMAIN deployment' = {"kind", "at", "block", "listed", "keep"}
        /\ deployment'.at = "idle" /\ deployment'.kind = "none" /\ told' = "installed"
    BY <1>17, DeploymentEnds, Zenon DEF StartUnit
  <2>2. ~AfterStop'
    BY <2>1, Zenon DEF AfterStop
  <2>3. DOMAIN unit' = DOMAIN unit /\ unit'.enabled = unit.enabled /\ artifacts' = artifacts
    BY <1>17, Zenon DEF StartUnit, DeploymentInv, DeploymentShape
  <2>4. QED
    BY <2>1, <2>2, <2>3, Zenon DEF DeploymentInv, DeploymentShape, NoOrphanedService
<1>18. CASE RemoveProductionCron
  <2>1. /\ deployment.at = "drop_cron" /\ artifacts' = artifacts \ {"production_cron"}
        /\ unit' = unit /\ MovesTo("drop_script")
    BY <1>18, Zenon DEF RemoveProductionCron, Removes
  <2>2. /\ DOMAIN deployment' = {"kind", "at", "block", "listed", "keep"}
        /\ deployment'.at = "drop_script" /\ told' = told
    BY <2>1, DeploymentMoves, Zenon DEF DeploymentInv
  <2>3. ~AfterStop'
    BY <2>2, Zenon DEF AfterStop
  <2>4. QED
    BY <2>1, <2>2, <2>3, DeploymentRemoves, Zenon
<1>19. CASE RemoveBackupScript
  <2>1. /\ deployment.at = "drop_script" /\ artifacts' = artifacts \ {"backup_script"}
        /\ unit' = unit /\ DeployReports("removed")
    BY <1>19, Zenon DEF RemoveBackupScript, Removes
  <2>2. /\ DOMAIN deployment' = {"kind", "at", "block", "listed", "keep"}
        /\ deployment'.at = "idle" /\ deployment'.kind = "none" /\ told' = "removed"
    BY <2>1, DeploymentEnds, Zenon
  <2>3. ~AfterStop'
    BY <2>2, Zenon DEF AfterStop
  <2>4. QED
    BY <2>1, <2>2, <2>3, DeploymentRemoves, Zenon
<1>20. CASE stop_owned_service
  <2>1. PICK at \in {"config", "drop_unit"} : MovesTo(at)
    BY <1>20, Zenon DEF stop_owned_service
  <2>2. /\ DOMAIN deployment' = {"kind", "at", "block", "listed", "keep"}
        /\ deployment'.at = at /\ told' = told
    BY <2>1, DeploymentMoves, Zenon DEF DeploymentInv
  <2>3. deployment.at = "stop" /\ artifacts' = artifacts /\ "binary" \in artifacts
    BY <1>20, Zenon DEF stop_owned_service, DeploymentInv
  <2>4. DOMAIN unit' = {"enabled", "running"} /\ ~unit'.enabled
    BY <1>20, Zenon DEF stop_owned_service
  <2>5. QED
    BY <2>1, <2>2, <2>3, <2>4, Zenon DEF DeploymentInv, DeploymentShape, NoOrphanedService
<1>21. ASSUME NEW at \in {"drop_unit", "drop_rotate", "drop_schedule", "drop_wrapper", "config",
                          "env", "data"},
              NEW files, NEW to \in {"drop_rotate", "drop_schedule", "drop_wrapper", "list", "env",
                                     "data", "binary"},
              deployment.at = at, artifacts' = artifacts \ files, unit' = unit, MovesTo(to),
              "binary" \notin files
       PROVE  DeploymentInv'
  <2>1. /\ DOMAIN deployment' = {"kind", "at", "block", "listed", "keep"}
        /\ deployment'.at = to /\ told' = told
    BY <1>21, DeploymentMoves, Zenon DEF DeploymentInv
  <2>2. AfterStop /\ at # "idle" /\ to \notin {"enable", "start"}
    BY <1>21, Zenon DEF AfterStop
  <2>3. QED
    BY <1>21, <2>1, <2>2, DeploymentRemoves, Zenon
<1>22. CASE RemoveUnit \/ RemoveLogrotate \/ RemoveSchedule \/ RemoveWrapper
  BY <1>21, <1>22, Zenon DEF RemoveUnit, RemoveLogrotate, RemoveSchedule, RemoveWrapper, Removes
<1>23. CASE RemoveConfig \/ RemoveEnv \/ remove_owned_tree
  BY <1>21, <1>23, Zenon DEF RemoveConfig, RemoveEnv, remove_owned_tree, Removes
<1>24. CASE DaemonReload
  <2>1. /\ DOMAIN deployment' = {"kind", "at", "block", "listed", "keep"}
        /\ deployment'.at = "config" /\ told' = told
    BY <1>24, DeploymentMoves, Zenon DEF DeploymentInv, DaemonReload
  <2>2. AfterStop /\ "binary" \in artifacts /\ UNCHANGED <<artifacts, unit>>
    BY <1>24, Zenon DEF AfterStop, DaemonReload, DeploymentInv
  <2>3. QED
    BY <2>1, <2>2, DeploymentGoesOn, Zenon
<1>25. CASE RemoveBinary
  <2>1. PICK is : /\ is = "completed" => Leftovers(artifacts') = {}
                  /\ DeployReports(is)
    BY <1>25, Zenon DEF RemoveBinary
  <2>2. /\ DOMAIN deployment' = {"kind", "at", "block", "listed", "keep"}
        /\ deployment'.at = "idle" /\ deployment'.kind = "none" /\ told' = is
    BY <2>1, DeploymentEnds, Zenon
  <2>3. ~unit'.enabled /\ unit' = unit
    BY <1>25, Zenon DEF RemoveBinary, DeploymentInv, AfterStop
  <2>4. is = "completed" => artifacts' \cap {"systemd_unit", "binary", "config", "data"} = {}
    BY <2>1, Zenon DEF Leftovers, SystemFiles
  <2>5. QED
    BY <2>2, <2>3, <2>4, Zenon DEF DeploymentInv, DeploymentShape, NoOrphanedService, AfterStop
<1>26. QED
  BY <1>1, <1>3, <1>4, <1>5, <1>7, <1>9, <1>10, <1>11, <1>14, <1>15, <1>16, <1>17, <1>18, <1>19,
     <1>20, <1>22, <1>23, <1>24, <1>25, Zenon DEF DeploymentNext

\* Whatever the order of deploy and uninstall commands, and wherever each of
\* them fails, an enabled service has its unit file and its binary, and an
\* uninstall that reports completion has left neither, nor configuration or
\* data (deploy.rs and uninstall in runtime.rs).
THEOREM NoOrphanedServiceHolds == DeploymentSpec => []NoOrphanedService
<1>1. DeploymentInit => DeploymentInv
  <2> SUFFICES ASSUME DeploymentInit PROVE DeploymentInv
    OBVIOUS
  <2>1. /\ DOMAIN deployment = {"kind", "at", "block", "listed", "keep"}
        /\ deployment.at = "idle" /\ deployment.kind = "none"
    BY Zenon DEF DeploymentInit, NoDeployment
  <2>2. DOMAIN unit = {"enabled", "running"} /\ ~unit.enabled /\ told = "nothing"
    BY Zenon DEF DeploymentInit
  <2>3. QED
    BY <2>1, <2>2, Zenon DEF DeploymentInv, DeploymentShape, NoOrphanedService, AfterStop
<1>2. DeploymentInv /\ [DeploymentNext]_deploymentVars => DeploymentInv'
  BY DeploymentStep, Zenon
<1>3. DeploymentInv => NoOrphanedService
  BY Zenon DEF DeploymentInv
<1>4. QED
  BY <1>1, <1>2, <1>3, PTL DEF DeploymentSpec

-----------------------------------------------------------------------------
(* Reports on the server's state (StatusView).                             *)

\* A query carries an input of each account, which says whether it is routable.
QueryShape ==
    /\ DOMAIN query = DOMAIN NoQuery
    /\ \A a \in StatusAccounts : "routable" \in DOMAIN query.inputs[a]

RoutableWhenAnswered ==
    report' # report =>
        \A a \in report'.routable : Configured(a) /\ is_account_healthy_read_only(a)

LEMMA NoQueryShape ==
  /\ DOMAIN NoQuery = {"kind", "at", "inputs", "pinged", "began", "database_ok", "models"}
  /\ \A a \in StatusAccounts : "routable" \in DOMAIN NoQuery.inputs[a]
  BY Zenon DEF NoQuery, NoInput

\* Asking the health gate again leaves routable no account it holds back.
LEMMA StillRoutableIsHealthy ==
  ASSUME QueryShape, NEW q, q.inputs = StillRoutable(query), NEW p, NEW a \in RoutableOf(p, q.inputs)
  PROVE  Configured(a) /\ is_account_healthy_read_only(a)
<1>1. a \in StatusAccounts /\ q.inputs[a].routable
  BY Zenon DEF RoutableOf, EnabledOf
<1>2. q.inputs[a] = [query.inputs[a] EXCEPT !.routable =
                        @ /\ Configured(a) /\ is_account_healthy_read_only(a)]
  BY <1>1, Zenon DEF StillRoutable
<1>3. "routable" \in DOMAIN query.inputs[a]
  BY <1>1, Zenon DEF QueryShape
<1>4. QED
  BY <1>1, <1>2, <1>3, Zenon

\* The answers that name no account as routable.
LEMMA AnswerOfNothing ==
  ASSUME NEW r, r.routable = {}, Answer(r)
  PROVE  QueryShape' /\ RoutableWhenAnswered
  BY NoQueryShape, Zenon DEF Answer, Step, QueryShape, RoutableWhenAnswered

LEMMA StatusStep ==
  ASSUME QueryShape, [StatusNext]_statusVars
  PROVE  QueryShape' /\ RoutableWhenAnswered
<1>0. /\ DOMAIN query = {"kind", "at", "inputs", "pinged", "began", "database_ok", "models"}
      /\ \A a \in StatusAccounts : "routable" \in DOMAIN query.inputs[a]
  BY NoQueryShape, Zenon DEF QueryShape
<1>1. CASE UNCHANGED <<query, report>>
  BY <1>1, Zenon DEF QueryShape, RoutableWhenAnswered
<1>2. CASE Delivered
  BY <1>2, Zenon DEF Delivered, QueryShape, RoutableWhenAnswered, NoReport
<1>3. CASE ControlUnavailable \/ ControlRefused
  <2>1. offline_snapshot.routable = {} /\ [NoReport EXCEPT !.kind = "status", !.exit = 1].routable = {}
    BY Zenon DEF offline_snapshot, NoReport
  <2>2. QED
    BY <1>3, <2>1, AnswerOfNothing, Zenon DEF ControlUnavailable, ControlRefused
<1>4. ASSUME NEW kind, BeginQuery(kind)
      PROVE  QueryShape' /\ RoutableWhenAnswered
  <2>1. CASE ~reachable
    <3>1. PICK status :
             Answer([NoReport EXCEPT !.kind = kind, !.exit = 1, !.reason = "runtime unavailable",
                                     !.status = status])
      BY <1>4, <2>1, Zenon DEF BeginQuery
    <3>2. [NoReport EXCEPT !.kind = kind, !.exit = 1, !.reason = "runtime unavailable",
                           !.status = status].routable = {}
      BY Zenon DEF NoReport
    <3>3. QED
      BY <3>1, <3>2, AnswerOfNothing, Zenon
  <2>2. CASE reachable
    <3>1. PICK at, copy :
             /\ query' = [NoQuery EXCEPT !.kind = kind, !.began = second, !.at = at, !.inputs = copy]
             /\ \/ copy = NoQuery.inputs
                \/ copy = [a \in StatusAccounts |-> account_input_from_snapshot(a)]
             /\ report' = report
      BY <1>4, <2>2, Zenon DEF BeginQuery, Step
    <3>2. DOMAIN query' = DOMAIN NoQuery /\ query'.inputs = copy
      BY <3>1, NoQueryShape, Zenon
    <3>3. \A a \in StatusAccounts : "routable" \in DOMAIN account_input_from_snapshot(a)
      BY Zenon DEF account_input_from_snapshot
    <3>4. \A a \in StatusAccounts : "routable" \in DOMAIN copy[a]
      BY <3>1, <3>3, NoQueryShape, Zenon
    <3>5. QED
      BY <3>1, <3>2, <3>4, NoQueryShape, Zenon DEF QueryShape, RoutableWhenAnswered
  <2>3. QED
    BY <2>1, <2>2
<1>5. ASSUME NEW ok, ReadPings(ok)
      PROVE  QueryShape' /\ RoutableWhenAnswered
  <2>1. DOMAIN query' = DOMAIN query /\ query'.inputs = query.inputs /\ report' = report
    BY <1>0, <1>5, Zenon DEF ReadPings, Step
  <2>2. QED
    BY <2>1, Zenon DEF QueryShape, RoutableWhenAnswered
<1>6. ASSUME NEW ok, ReadEnabled(ok)
      PROVE  QueryShape' /\ RoutableWhenAnswered
  <2>1. CASE ~ok /\ query.kind = "readyz"
    <3>1. [NoReport EXCEPT !.kind = "readyz", !.reason = "database not writable"].routable = {}
      BY Zenon DEF NoReport
    <3>2. QED
      BY <1>6, <2>1, <3>1, AnswerOfNothing, Zenon DEF ReadEnabled
  <2>2. CASE ~(~ok /\ query.kind = "readyz")
    <3>1. DOMAIN query' = DOMAIN query /\ query'.inputs = query.inputs /\ report' = report
      BY <1>0, <1>6, <2>2, Zenon DEF ReadEnabled, Step
    <3>2. QED
      BY <3>1, Zenon DEF QueryShape, RoutableWhenAnswered
  <2>3. QED
    BY <2>1, <2>2
<1>7. ASSUME NEW ok, ReadModelRows(ok)
      PROVE  QueryShape' /\ RoutableWhenAnswered
  <2> DEFINE q == [query EXCEPT !.database_ok = @ /\ ok, !.inputs = StillRoutable(query)]
             routable == UNION {RoutableOf(p, q.inputs) : p \in StatusProviders}
  <2>1. q.inputs = StillRoutable(query)
    BY <1>0, Zenon
  <2>2. \A a \in routable : Configured(a) /\ is_account_healthy_read_only(a)
    <3> HIDE DEF q
    <3>1. QED
      BY <2>1, StillRoutableIsHealthy, Zenon
  <2>3. CASE query.kind = "readyz"
    <3>1. PICK ready, reason :
             Answer([NoReport EXCEPT !.kind = "readyz", !.ready = ready, !.reason = reason])
      BY <1>7, <2>3, Zenon DEF ReadModelRows
    <3>2. [NoReport EXCEPT !.kind = "readyz", !.ready = ready, !.reason = reason].routable = {}
      BY Zenon DEF NoReport
    <3>3. QED
      BY <3>1, <3>2, AnswerOfNothing, Zenon
  <2>4. CASE query.kind # "readyz"
    <3>1. PICK providers, status, ready, reason, exit :
             Answer([kind |-> "status", providers |-> providers, status |-> status,
                     routable |-> routable, ready |-> ready, reason |-> reason, exit |-> exit])
      BY <1>7, <2>4, Zenon DEF ReadModelRows
    <3> HIDE DEF routable
    <3>2. query' = NoQuery /\ report'.routable = routable
      BY <3>1, Zenon DEF Answer, Step
    <3>3. QED
      BY <2>2, <3>2, NoQueryShape, Zenon DEF QueryShape, RoutableWhenAnswered
  <2>5. QED
    BY <2>3, <2>4
<1>8. QED
  BY <1>1, <1>2, <1>3, <1>4, <1>5, <1>6, <1>7, Zenon
     DEF StatusNext, statusVars, SecondPasses, LeasesEnd, RequestOutcome, CatalogAnswers

\* For any accounts, providers and thresholds, and whatever happens to an
\* account's health while the status awaits the database, an account reported
\* routable passes the health gate when the report is made (server/health.rs:
\* build_status_snapshot).
THEOREM ReportedIsRoutableHolds == StatusSpec => ReportedIsRoutable
<1>1. StatusInit => QueryShape
  BY NoQueryShape, Zenon DEF StatusInit, QueryShape
<1>2. QueryShape /\ [StatusNext]_statusVars => QueryShape'
  BY StatusStep, Zenon
<1>3. QueryShape /\ [StatusNext]_statusVars => RoutableWhenAnswered
  BY StatusStep, Zenon
<1>4. QED
  BY <1>1, <1>2, <1>3, PTL DEF StatusSpec, ReportedIsRoutable, RoutableWhenAnswered

-----------------------------------------------------------------------------
(* Checkpointing of the write-ahead log (DatabaseMaintenance).             *)

CountTypes ==
    /\ DOMAIN job = {"kind", "awaited", "batch"}
    /\ DOMAIN wal = {"frames", "left"} /\ wal.frames \in Nat /\ wal.left \in Nat
    /\ DOMAIN checker = {"at", "current", "observed"}
    /\ transactions \in Nat /\ checker.observed \in Nat

Checking == checker.at \in {"holding", "inspected"}

\* A transaction was begun that no inspection has seen.
Owed == checker.observed < transactions

\* A job at the worker was counted after the last inspection; while a tick has
\* the permit no job is there, and the count it loaded is the current one; a
\* log with new frames is owed an inspection.
CheckpointInv ==
    /\ CountTypes
    /\ checker.observed <= transactions
    /\ job.kind # "none" => Owed /\ ~Checking
    /\ Checking => checker.current = transactions
    /\ checker.at = "inspected" => wal.frames = wal.left
    /\ wal.frames > wal.left => Owed

\* A transaction that is counted, and the frame a commit of it appends.
LEMMA CountedIsOwed ==
  ASSUME CheckpointInv, transactions' = transactions + 1, checker' = checker, ~Checking,
         DOMAIN job' = {"kind", "awaited", "batch"},
         wal' = wal \/ wal' = [wal EXCEPT !.frames = @ + 1]
  PROVE  CheckpointInv'
<1>1. transactions' \in Nat /\ Owed'
  BY DEF CheckpointInv, CountTypes, Owed
<1>2. DOMAIN wal' = {"frames", "left"} /\ wal'.frames \in Nat /\ wal'.left \in Nat
  BY DEF CheckpointInv, CountTypes
<1>3. checker'.observed <= transactions'
  BY DEF CheckpointInv, CountTypes
<1>4. CountTypes'
  BY <1>1, <1>2, Zenon DEF CheckpointInv, CountTypes
<1>5. ~Checking' /\ checker'.at # "inspected"
  BY Zenon DEF Checking
<1>6. QED
  BY <1>1, <1>3, <1>4, <1>5, Zenon DEF CheckpointInv

\* A job leaves the worker, with or without a frame.
LEMMA JobLeaves ==
  ASSUME CheckpointInv, job.kind # "none", JobEnds, UNCHANGED <<checker, transactions>>,
         wal' = wal \/ wal' = [wal EXCEPT !.frames = @ + 1]
  PROVE  CheckpointInv'
<1>1. DOMAIN job' = {"kind", "awaited", "batch"} /\ job'.kind = "none"
  BY Zenon DEF JobEnds, NoJob
<1>2. DOMAIN wal' = {"frames", "left"} /\ wal'.frames \in Nat /\ wal'.left \in Nat
  BY DEF CheckpointInv, CountTypes
<1>3. Owed /\ ~Checking
  BY Zenon DEF CheckpointInv
<1>4. checker.at # "inspected"
  BY <1>3, Zenon DEF Checking
<1>5. CountTypes'
  BY <1>1, <1>2, Zenon DEF CheckpointInv, CountTypes
<1>6. Owed' /\ ~Checking' /\ checker'.observed <= transactions'
  BY <1>3, Zenon DEF Owed, Checking, CheckpointInv
<1>7. QED
  BY <1>1, <1>4, <1>5, <1>6, Zenon DEF CheckpointInv

\* Nothing the checkpoint depends on moves; a caller may stop waiting.
LEMMA CheckpointKept ==
  ASSUME CheckpointInv, UNCHANGED <<checker, transactions, wal>>,
         job' = job \/ job' = [job EXCEPT !.awaited = FALSE]
  PROVE  CheckpointInv'
<1>1. DOMAIN job' = DOMAIN job /\ job'.kind = job.kind
  BY Zenon DEF CheckpointInv, CountTypes
<1>2. QED
  BY <1>1, Zenon DEF CheckpointInv, CountTypes, Owed, Checking

\* The steps of the tick itself.
LEMMA TickSteps ==
  ASSUME CheckpointInv,
         \/ CheckStarts \/ CheckDefers \/ CheckObserves \/ DropCheck
         \/ \E left \in 0..wal.frames : WorkerInspects(left)
  PROVE  CheckpointInv'
<1>0. DOMAIN checker = {"at", "current", "observed"}
  BY Zenon DEF CheckpointInv, CountTypes
<1>1. CASE CheckStarts
  <2>1. /\ DOMAIN checker' = DOMAIN checker /\ checker'.at = "holding"
        /\ checker'.current = transactions /\ checker'.observed = checker.observed
        /\ job.kind = "none" /\ UNCHANGED <<job, transactions, wal>>
    BY <1>0, <1>1, Zenon DEF CheckStarts, PermitIsFree
  <2>2. CountTypes'
    BY <2>1, Zenon DEF CheckpointInv, CountTypes
  <2>3. QED
    BY <2>1, <2>2, Zenon DEF CheckpointInv, Owed, Checking
<1>2. CASE CheckDefers
  <2>1. /\ DOMAIN checker' = DOMAIN checker /\ checker'.at = "idle"
        /\ checker'.observed = checker.observed /\ UNCHANGED <<job, transactions, wal>>
    BY <1>0, <1>2, Zenon DEF CheckDefers
  <2>2. CountTypes'
    BY <2>1, Zenon DEF CheckpointInv, CountTypes
  <2>3. QED
    BY <2>1, <2>2, Zenon DEF CheckpointInv, Owed, Checking
<1>3. CASE CheckObserves
  <2>1. /\ DOMAIN checker' = DOMAIN checker /\ checker'.at = "idle"
        /\ checker'.observed = checker.current /\ UNCHANGED <<job, transactions, wal>>
        /\ checker.at = "inspected"
    BY <1>0, <1>3, Zenon DEF CheckObserves
  <2>2. checker'.observed = transactions /\ wal.frames = wal.left /\ job.kind = "none"
    BY <2>1, Zenon DEF CheckpointInv, Checking
  <2>3. CountTypes'
    BY <2>1, <2>2, Zenon DEF CheckpointInv, CountTypes
  <2>4. ~(wal'.frames > wal'.left) /\ checker'.observed <= transactions'
    BY <2>1, <2>2 DEF CheckpointInv, CountTypes
  <2>5. QED
    BY <2>1, <2>2, <2>3, <2>4, Zenon DEF CheckpointInv, Checking
<1>4. CASE DropCheck
  <2>1. /\ DOMAIN checker' = DOMAIN checker /\ checker'.at \in {"orphan", "idle"}
        /\ checker'.observed = checker.observed /\ UNCHANGED <<job, transactions, wal>>
    BY <1>0, <1>4, Zenon DEF DropCheck
  <2>2. CountTypes'
    BY <2>1, Zenon DEF CheckpointInv, CountTypes
  <2>3. QED
    BY <2>1, <2>2, Zenon DEF CheckpointInv, Owed, Checking
<1>5. ASSUME NEW left \in 0..wal.frames, WorkerInspects(left)
      PROVE  CheckpointInv'
  <2>1. /\ DOMAIN checker' = DOMAIN checker
        /\ checker'.observed = checker.observed /\ checker'.current = checker.current
        /\ \/ checker.at = "holding" /\ checker'.at = "inspected"
           \/ checker'.at = "idle"
        /\ UNCHANGED <<job, transactions>>
    BY <1>0, <1>5, Zenon DEF WorkerInspects
  <2>2. DOMAIN wal' = {"frames", "left"} /\ wal'.frames = left /\ wal'.left = left
    BY <1>5, Zenon DEF WorkerInspects
  <2>3. left \in Nat /\ ~(left > left)
    BY <1>5 DEF CheckpointInv, CountTypes
  <2>4. CountTypes'
    BY <2>1, <2>2, <2>3, Zenon DEF CheckpointInv, CountTypes
  <2>5. QED
    BY <2>1, <2>2, <2>3, <2>4, Zenon DEF CheckpointInv, Owed, Checking
<1>6. QED
  BY <1>1, <1>2, <1>3, <1>4, <1>5

LEMMA CheckpointStep ==
  ASSUME CheckpointInv, [MaintenanceNext]_maintenanceVars
  PROVE  CheckpointInv'
<1>1. ASSUME NEW kind, NEW batch, Submit(kind, batch), UNCHANGED <<checker, wal>>
      PROVE  CheckpointInv'
  <2>1. ~Checking /\ DOMAIN job' = {"kind", "awaited", "batch"} /\ transactions' = transactions + 1
    BY <1>1, Zenon DEF Submit, PermitIsFree, Checking
  <2>2. QED
    BY <1>1, <2>1, CountedIsOwed, Zenon
<1>2. CASE SubmitBatch \/ CleanupBatch
  BY <1>1, <1>2, Zenon DEF SubmitBatch, CleanupBatch
<1>3. CASE FlushFails
  BY <1>3, JobLeaves, CheckpointKept, Zenon DEF FlushFails
<1>4. CASE WorkerStores
  BY <1>4, JobLeaves, Zenon DEF WorkerStores, Appends
<1>5. ASSUME NEW left, NEW gone, WorkerCleans(left, gone)
      PROVE  CheckpointInv'
  <2>1. /\ job.kind # "none" /\ JobEnds /\ UNCHANGED <<checker, transactions>>
        /\ wal' = wal \/ wal' = [wal EXCEPT !.frames = @ + 1]
    BY <1>5, Zenon DEF WorkerCleans
  <2>2. QED
    BY <2>1, JobLeaves, Zenon
<1>6. ASSUME NEW r \in RequestRows, RequestWrites(r)
      PROVE  CheckpointInv'
  <2>1. /\ ~Checking /\ transactions' = transactions + 1 /\ UNCHANGED <<checker, job>>
        /\ wal' = [wal EXCEPT !.frames = @ + 1]
    BY <1>6, Zenon DEF RequestWrites, PermitIsFree, Checking, Appends
  <2>2. DOMAIN job' = {"kind", "awaited", "batch"}
    BY <2>1, Zenon DEF CheckpointInv, CountTypes
  <2>3. QED
    BY <2>1, <2>2, CountedIsOwed, Zenon
<1>7. CASE CheckStarts \/ CheckDefers \/ CheckObserves \/ DropCheck
           \/ \E left \in 0..wal.frames : WorkerInspects(left)
  BY <1>7, TickSteps, Zenon
<1>8. CASE \/ \E k \in MetricKeys : RecordUsage(k)
           \/ TakeBatch \/ FlushCounts \/ \E kept \in Kept : Rebuffer(kept)
           \/ DropFlush \/ CleanupEnds \/ \E r \in RequestRows : Ages(r)
           \/ UNCHANGED maintenanceVars
  <2>1. /\ UNCHANGED <<checker, transactions, wal>>
        /\ job' = job \/ job' = [job EXCEPT !.awaited = FALSE]
    BY <1>8, Zenon DEF RecordUsage, TakeBatch, FlushCounts, Rebuffer, DropFlush, CleanupEnds, Ages,
                       maintenanceVars
  <2>2. QED
    BY <2>1, CheckpointKept, Zenon
<1>9. QED
  BY <1>2, <1>3, <1>4, <1>5, <1>6, <1>7, <1>8, Zenon DEF MaintenanceNext

\* Whatever flushes, cleanups and requests commit, and wherever a tick is
\* deferred or dropped, a checkpoint tick that finds nothing due leaves no
\* frame uninspected (db/connection.rs: checkpoint_maintenance).
THEOREM NoCommitIsOverlookedHolds == MaintenanceSpec => []NoCommitIsOverlooked
<1>1. MaintenanceInit => CheckpointInv
  <2> SUFFICES ASSUME MaintenanceInit PROVE CheckpointInv
    OBVIOUS
  <2>1. /\ DOMAIN job = {"kind", "awaited", "batch"} /\ job.kind = "none"
        /\ DOMAIN wal = {"frames", "left"} /\ wal.frames = 0 /\ wal.left = 0
        /\ DOMAIN checker = {"at", "current", "observed"} /\ checker.at = "idle"
        /\ checker.observed = 0 /\ transactions = 0
    BY Zenon DEF MaintenanceInit, NoJob
  <2>2. QED
    BY <2>1 DEF CheckpointInv, CountTypes, Checking
<1>2. CheckpointInv /\ [MaintenanceNext]_maintenanceVars => CheckpointInv'
  BY CheckpointStep, Zenon
<1>3. CheckpointInv => NoCommitIsOverlooked
  BY DEF CheckpointInv, CountTypes, Owed, NoCommitIsOverlooked
<1>4. QED
  BY <1>1, <1>2, <1>3, PTL DEF MaintenanceSpec

=============================================================================
