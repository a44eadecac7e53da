------------------------- MODULE ConnectTransaction -------------------------
(* eggpool-connect on a client machine: install (fetch, plan, back up, write,
   validate, commit or roll back), restore of a backup, and ownership-aware
   remove, over a client configuration file, the generated catalog file beside
   it, and a bounded list of backups.  One command runs at a time; it may be
   killed between any two file operations, and every file operation may fail.
   The user edits the file between commands, or while one fetches and prompts.

   The client is Codex, which has both files.  The configuration is the fields
   an install owns, and whether it has other lines; the catalog is the revision
   it was generated for.  A file is replaced by rename, so no reader sees half
   of it. *)
EXTENDS Naturals, Sequences

CONSTANTS
    BaseUrls,                     \* base URLs a fetched profile may advertise
    Revisions,                    \* profile revisions to install
    Absent,                       \* no catalog file
    BACKUP_RETENTION_PER_TARGET,
    MaxCommands                   \* bound: commands started

ASSUME ConnectAssumption == BACKUP_RETENTION_PER_TARGET \in Nat \ {0}

VARIABLES
    config,     \* the client's configuration file
    catalog,    \* the generated catalog file
    backups,    \* retained backups, oldest first
    cli,        \* the command running: phase, profile, its backup, its outcome
    issued      \* commands started, which also numbers the backups

connectVars == <<config, catalog, backups, cli, issued>>

\* model_provider, model_catalog_json and the head of [model_providers.eggpool].
NoFields == [provider |-> "none", key |-> "none", table |-> "none"]

\* A configuration file: whether it is there, has lines of the user's, its fields.
NoFile == [exists |-> FALSE, lines |-> FALSE, fields |-> NoFields]
UserFile(provider, table) ==
    [exists |-> TRUE, lines |-> TRUE,
     fields |-> [NoFields EXCEPT !.provider = provider, !.table = table]]

IsBlank(file) == ~file.lines /\ file.fields = NoFields

NoBackup == [id |-> 0, config |-> NoFile, catalog |-> Absent, previous |-> NoFields]
IdleCli == [phase |-> "idle", base |-> "none", revision |-> Absent, force |-> FALSE,
            backup |-> NoBackup, wanted |-> NoBackup, outcome |-> "none"]

ConnectInit ==
    /\ config \in {NoFile, UserFile("none", "none"), UserFile("own", "own")}
    /\ catalog = Absent
    /\ backups = <<>>
    /\ cli = IdleCli
    /\ issued = 0

At(phase) == cli' = [cli EXCEPT !.phase = phase]

\* The command ends and reports.
Reports(outcome) == cli' = [cli EXCEPT !.phase = "idle", !.outcome = outcome]

\* enforce_retention: the newest BACKUP_RETENTION_PER_TARGET stay.
Retained(list) ==
    IF Len(list) <= BACKUP_RETENTION_PER_TARGET THEN list
    ELSE SubSeq(list, Len(list) - BACKUP_RETENTION_PER_TARGET + 1, Len(list))

\* create_backup of the configuration as it is, and of the catalog where the
\* command snapshots artifacts, with the captured values; then retention.
TakeBackup(phase, artifact, previous) ==
    LET taken == [id |-> issued, config |-> config, catalog |-> artifact,
                  previous |-> previous] IN
    /\ backups' = Retained(Append(backups, taken))
    /\ cli' = [cli EXCEPT !.phase = phase, !.backup = taken]

IsRetained(b) == \E i \in DOMAIN backups : backups[i] = b

\* apply_codex_text_mutation: the owned fields are set, other lines stay.
Mutated(file, base) ==
    [exists |-> TRUE, lines |-> file.lines,
     fields |-> [provider |-> "eggpool", key |-> "eggpool", table |-> base]]

\* build_mutation: both files already are what this profile would write.
IsNoOp == config = Mutated(config, cli.base) /\ catalog = cli.revision

\* has_owned_block.
HasOwnedBlock(file) == file.fields.table # "none" \/ file.fields.provider = "eggpool"

\* check_drift: an owned block that is not the one this profile would write is
\* replaced only with --force.
DriftAllowed(file) ==
    \/ IsBlank(file) \/ file.fields.table = cli.base
    \/ ~HasOwnedBlock(file) \/ cli.force

\* The user edits the table an install wrote, or sets a provider of their own.
UserEdits ==
    /\ cli.phase \in {"idle", "fetching"}
    /\ \/ /\ config.fields.table \in BaseUrls
          /\ config' = [config EXCEPT !.fields.table = "edited"]
       \/ /\ config.fields.provider = "none"
          /\ config' = [config EXCEPT !.exists = TRUE, !.lines = TRUE,
                                      !.fields.provider = "own"]
    /\ UNCHANGED <<catalog, backups, cli, issued>>

\* install is started: the client is detected and the profile is being fetched.
BeginInstall(base, r, force) ==
    /\ cli.phase = "idle" /\ issued < MaxCommands
    /\ issued' = issued + 1
    /\ cli' = [IdleCli EXCEPT !.phase = "fetching", !.base = base,
                              !.revision = r, !.force = force]
    /\ UNCHANGED <<config, catalog, backups>>

\* fetch_integration_profile fails: the URL, the transport, the status, the
\* size, the body, the schema or the base URL ...
FetchFails ==
    /\ cli.phase = "fetching"
    /\ Reports("fetch_error")
    /\ UNCHANGED <<config, catalog, backups, issued>>

\* ... or the user declines at the prompt.
Declined ==
    /\ cli.phase = "fetching"
    /\ Reports("declined")
    /\ UNCHANGED <<config, catalog, backups, issued>>

\* The files are read again: nothing needs to be written (the files are still
\* validated, which may fail), or check_drift refuses, or there is a plan.
PlanInstall ==
    /\ cli.phase = "fetching"
    /\ \/ IsNoOp /\ (Reports("unchanged") \/ Reports("invalid"))
       \/ ~IsNoOp /\ ~DriftAllowed(config) /\ Reports("drift")
       \/ ~IsNoOp /\ DriftAllowed(config) /\ At("planned")
    /\ UNCHANGED <<config, catalog, backups, issued>>

\* MutationPlanned -> BackupCommitted, or the snapshot cannot be taken.
CommitBackup ==
    /\ cli.phase = "planned"
    /\ TakeBackup("backed_up", catalog, config.fields)
    /\ UNCHANGED <<config, catalog, issued>>

BackupFails ==
    /\ cli.phase \in {"planned", "restoring", "removing"}
    /\ Reports("backup_error")
    /\ UNCHANGED <<config, catalog, backups, issued>>

\* The configuration is written first, the catalog second.
WriteConfig ==
    /\ cli.phase = "backed_up"
    /\ config' = Mutated(config, cli.base)
    /\ At("config_written")
    /\ UNCHANGED <<catalog, backups, issued>>

WriteCatalog ==
    /\ cli.phase = "config_written"
    /\ catalog' = cli.revision
    /\ At("written")
    /\ UNCHANGED <<config, backups, issued>>

\* A write, the local validation or the client's own check fails: roll back.
StepFails ==
    /\ cli.phase \in {"backed_up", "config_written", "written", "validated"}
    /\ At("rollback_config")
    /\ UNCHANGED <<config, catalog, backups, issued>>

\* The installed text parses, and is on disk what was planned ...
ValidateLocal ==
    /\ cli.phase = "written"
    /\ At("validated")
    /\ UNCHANGED <<config, catalog, backups, issued>>

\* ... or it cannot be read back, which ends the install without a rollback.
Unreadable ==
    /\ cli.phase = "written"
    /\ Reports("unreadable")
    /\ UNCHANGED <<config, catalog, backups, issued>>

\* validate_native: the client's own commands accept the files, or there is no
\* client to ask.
ValidateNative ==
    /\ cli.phase = "validated"
    /\ At("native")
    /\ UNCHANGED <<config, catalog, backups, issued>>

\* ClientNativeValidated -> Committed.
CommitInstall ==
    /\ cli.phase = "native"
    /\ Reports("committed")
    /\ UNCHANGED <<config, catalog, backups, issued>>

\* rollback: the snapshot goes back over the configuration ...
RollbackConfig ==
    /\ cli.phase = "rollback_config"
    /\ config' = cli.backup.config
    /\ At("rollback_catalog")
    /\ UNCHANGED <<catalog, backups, issued>>

\* Defect: the generated artifact is left as it was written.
RollbackCatalogKept ==
    /\ cli.phase = "rollback_catalog"
    /\ Reports("rolled_back")
    /\ UNCHANGED <<config, catalog, backups, issued>>

\* ... and over the catalog; then the original failure is reported.
RollbackCatalog ==
    /\ cli.phase = "rollback_catalog"
    /\ catalog' = cli.backup.catalog
    /\ Reports("rolled_back")
    /\ UNCHANGED <<config, backups, issued>>

\* A step of the rollback fails: its own error, naming the backup.
RollbackFails ==
    /\ cli.phase \in {"rollback_config", "rollback_catalog"}
    /\ Reports("rollback_error")
    /\ UNCHANGED <<config, catalog, backups, issued>>

\* restore_backup of a listed backup: its manifest is loaded ...
BeginRestore ==
    /\ cli.phase = "idle" /\ issued < MaxCommands
    /\ \E i \in DOMAIN backups :
           cli' = [IdleCli EXCEPT !.phase = "restoring", !.wanted = backups[i]]
    /\ issued' = issued + 1
    /\ UNCHANGED <<config, catalog, backups>>

\* ... a pre-restore backup is taken, retention included ...
PreRestoreBackup ==
    /\ cli.phase = "restoring"
    /\ TakeBackup("restore_read", catalog, NoFields)
    /\ UNCHANGED <<config, catalog, issued>>

\* ... and the snapshot is read and put back.  A snapshot of no file needs none.
RestoreSnapshot ==
    /\ cli.phase = "restore_read"
    /\ ~cli.wanted.config.exists \/ IsRetained(cli.wanted)
    /\ config' = cli.wanted.config
    /\ Reports("restored")
    /\ UNCHANGED <<catalog, backups, issued>>

\* read_snapshot finds no file.
SnapshotMissing ==
    /\ cli.phase = "restore_read"
    /\ cli.wanted.config.exists /\ ~IsRetained(cli.wanted)
    /\ Reports("snapshot_missing")
    /\ UNCHANGED <<config, catalog, backups, issued>>

\* The capture a remove restores from: the oldest retained backup's.
FirstCapture == IF backups = <<>> THEN NoFields ELSE Head(backups).previous

\* owned_codex_drifted: neither ours nor what the capture says was there before.
OwnedDrifted(f) ==
    /\ f.table # "none" \/ f.provider # "none"
    /\ f.table \notin BaseUrls
    /\ FirstCapture.table = "none" \/ f.table # FirstCapture.table

\* remove_codex_owned_text: captured values return, except EggPool as provider.
Released(f, previous) ==
    [provider |-> IF previous.provider = "own" THEN "own" ELSE "none",
     key      |-> previous.key,
     table    |-> IF f.table = "none" THEN "none" ELSE previous.table]

\* remove_owned: refused on a blank file and, without --force, on drift.
BeginRemove(force) ==
    /\ cli.phase = "idle" /\ issued < MaxCommands
    /\ cli' = [IdleCli EXCEPT
           !.phase = IF IsBlank(config) \/ (~force /\ OwnedDrifted(config.fields))
                     THEN "idle" ELSE "removing",
           !.outcome = IF IsBlank(config) \/ (~force /\ OwnedDrifted(config.fields))
                       THEN "drift" ELSE "none"]
    /\ issued' = issued + 1
    /\ UNCHANGED <<config, catalog, backups>>

\* The text to write was made from the oldest capture before this backup.
PreRemoveBackup ==
    LET released == [config EXCEPT !.fields = Released(@, FirstCapture)]
        taken == [id |-> issued, config |-> config, catalog |-> "none",
                  previous |-> NoFields]
    IN /\ cli.phase = "removing"
       /\ backups' = Retained(Append(backups, taken))
       /\ cli' = [cli EXCEPT !.phase = "remove_write", !.backup = taken,
                             !.wanted = [NoBackup EXCEPT !.config = released]]
       /\ UNCHANGED <<config, catalog, issued>>

RemoveOwned ==
    /\ cli.phase = "remove_write"
    /\ config' = cli.wanted.config
    /\ Reports("removed")
    /\ UNCHANGED <<catalog, backups, issued>>

\* The single write of a restore or of a remove fails.
ReplaceError ==
    /\ cli.phase \in {"restore_read", "remove_write"}
    /\ Reports("write_error")
    /\ UNCHANGED <<config, catalog, backups, issued>>

\* The command is killed where it stands.
KillCli ==
    /\ cli.phase # "idle"
    /\ Reports("killed")
    /\ UNCHANGED <<config, catalog, backups, issued>>

ConnectNext ==
    \/ UserEdits
    \/ \E base \in BaseUrls, r \in Revisions, force \in BOOLEAN :
           BeginInstall(base, r, force)
    \/ FetchFails \/ Declined \/ PlanInstall
    \/ CommitBackup \/ BackupFails \/ WriteConfig \/ WriteCatalog \/ StepFails
    \/ ValidateLocal \/ Unreadable \/ ValidateNative \/ CommitInstall
    \/ RollbackConfig \/ RollbackCatalog \/ RollbackFails
    \/ BeginRestore \/ PreRestoreBackup \/ RestoreSnapshot \/ SnapshotMissing
    \/ \E force \in BOOLEAN : BeginRemove(force)
    \/ PreRemoveBackup \/ RemoveOwned
    \/ ReplaceError \/ KillCli

ConnectSpec == ConnectInit /\ [][ConnectNext]_connectVars

(* Properties *)

\* "Every mutation commits a durable byte-exact snapshot before the first
\* write": whatever contents a command replaces, other than what the same
\* install wrote itself, are in a backup that is still retained afterwards.
OverwrittenIsKept ==
    [][/\ cli' # cli /\ config' # config /\ cli.phase # "rollback_config" =>
              \E i \in DOMAIN backups' : backups'[i].config = config
       /\ catalog' # catalog /\ cli.phase # "rollback_catalog" =>
              \E i \in DOMAIN backups' : backups'[i].catalog = catalog]_connectVars

\* An install that reports it rolled back has left both files as its backup
\* found them; one that committed has left both as it planned them.
OutcomeMatchesFiles ==
    [][cli.phase # "idle" =>
       /\ cli'.outcome = "rolled_back" =>
              config' = cli.backup.config /\ catalog' = cli.backup.catalog
       /\ cli'.outcome = "committed" =>
              config' = Mutated(cli.backup.config, cli.base) /\ catalog' = cli.revision
      ]_connectVars

\* "Restore a backup reversibly: take a pre-restore backup first, then restore
\* the selected snapshot": the pre-restore backup does not cost the selected one.
SelectedSnapshotIsThere == cli.outcome # "snapshot_missing"
=============================================================================
