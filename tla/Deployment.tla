----------------------------- MODULE Deployment -----------------------------
(* `eggpool deploy` and `eggpool uninstall`: the crontab blocks, the systemd
   unit, the log-rotation file and the production backup wrapper they install,
   and their removal together with the binary, the configuration and the data.
   Every file operation and every external command may fail, and a command that
   fails stops where it is: nothing is undone.

   A crontab is the set of its entries: lines of the user's own and the blocks
   EggPool brackets with its markers.  The editor's window, between listing a
   crontab and writing it back, is open to the user's own edits. *)
EXTENDS Naturals, FiniteSets

CONSTANTS
    UserLines,     \* crontab lines that are not EggPool's
    MaxDeploys,    \* deploy and uninstall commands over a behaviour
    MaxUserEdits   \* edits the user makes to their crontab

VARIABLES
    crontab,    \* the user's crontab
    artifacts,  \* the deployed and installed files that exist
    unit,       \* the systemd service: enabled, running
    deployment, \* the running command: its kind, where it is, what it listed
    told,       \* what the last finished command reported
    deploys,    \* commands started
    userEdits   \* edits the user made

deploymentVars == <<crontab, artifacts, unit, deployment, told, deploys, userEdits>>

WATCHDOG == "watchdog"
BACKUP == "backup"
ManagedBlocks == {WATCHDOG, BACKUP}
SystemFiles == {"systemd_unit", "logrotate", "production_cron", "backup_script"}
InstallFiles == {"binary", "config", "env", "data"}
Keeps == [data : BOOLEAN, config : BOOLEAN, deploy_artifacts : BOOLEAN]
KeepAll == [data |-> TRUE, config |-> TRUE, deploy_artifacts |-> TRUE]
NoDeployment == [kind |-> "none", at |-> "idle", block |-> "none", listed |-> {}, keep |-> KeepAll]

DeploymentInit ==
    /\ crontab = UserLines
    /\ artifacts = InstallFiles
    /\ unit = [enabled |-> FALSE, running |-> FALSE]
    /\ deployment = NoDeployment
    /\ told = "nothing"
    /\ deploys = 0
    /\ userEdits = 0

Begin(kind, at, block, keep) ==
    /\ deployment = NoDeployment
    /\ deploys < MaxDeploys
    /\ "binary" \in artifacts
    /\ deploys' = deploys + 1
    /\ deployment' = [kind |-> kind, at |-> at, block |-> block, listed |-> {}, keep |-> keep]
    /\ UNCHANGED <<crontab, artifacts, unit, told, userEdits>>

InDeploy(at) == deployment.at = at
MovesTo(at) == deployment' = [deployment EXCEPT !.at = at] /\ UNCHANGED told
DeployReports(report) == deployment' = NoDeployment /\ told' = report

\* run_required and every `?`: the command stops with what it has done so far.
StopsAt ==
    /\ deployment # NoDeployment
    /\ DeployReports("failed")
    /\ UNCHANGED <<crontab, artifacts, unit, deploys, userEdits>>

(***************************************************************************)
(* Crontab blocks.                                                         *)
(***************************************************************************)

\* strip_managed_cron_blocks: every block whose marker starts "# BEGIN EggPool".
strip_managed_cron_blocks(entries) == entries \ ManagedBlocks

\* merge_cron_block
merge_cron_block(existing, block) == strip_managed_cron_blocks(existing) \cup {block}

deploy_cron == \E kind \in {"cron_install", "cron_uninstall"} : Begin(kind, "list", WATCHDOG, KeepAll)
deploy_backup_cron == \E kind \in {"cron_install", "cron_uninstall"} : Begin(kind, "list", BACKUP, KeepAll)

\* `crontab -l`.
ListCrontab ==
    /\ InDeploy("list")
    /\ deployment' = [deployment EXCEPT !.at = "listed", !.listed = crontab]
    /\ UNCHANGED <<crontab, artifacts, unit, told, deploys, userEdits>>

\* A listing that fails reads as an empty crontab, or as nothing to uninstall.
ListingFails ==
    /\ InDeploy("list")
    /\ IF deployment.kind = "cron_install" THEN MovesTo("listed")
       ELSE IF deployment.kind = "uninstall" THEN MovesTo("daemon_reload") ELSE DeployReports("removed")
    /\ UNCHANGED <<crontab, artifacts, unit, deploys, userEdits>>

\* install_cron_block: the merged text goes to `crontab -`.
install_cron_block ==
    /\ InDeploy("listed") /\ deployment.kind = "cron_install"
    /\ crontab' = merge_cron_block(deployment.listed, deployment.block)
    /\ DeployReports("installed")
    /\ UNCHANGED <<artifacts, unit, deploys, userEdits>>

\* uninstall_cron_blocks writes only when a block was there.
uninstall_cron_blocks ==
    /\ InDeploy("listed") /\ deployment.kind # "cron_install"
    /\ crontab' = IF strip_managed_cron_blocks(deployment.listed) = deployment.listed
                  THEN crontab ELSE strip_managed_cron_blocks(deployment.listed)
    /\ IF deployment.kind = "uninstall" THEN MovesTo("daemon_reload") ELSE DeployReports("removed")
    /\ UNCHANGED <<artifacts, unit, deploys, userEdits>>

\* The user edits the crontab, also between a command's listing and its write.
UserEditsCrontab ==
    /\ userEdits < MaxUserEdits
    /\ userEdits' = userEdits + 1
    /\ \E line \in UserLines :
           crontab' = IF line \in crontab THEN crontab \ {line} ELSE crontab \cup {line}
    /\ UNCHANGED <<artifacts, unit, deployment, told, deploys>>

(***************************************************************************)
(* systemd, log rotation and the production backup wrapper.                *)
(***************************************************************************)

deploy_systemd == Begin("systemd", "unit", "none", KeepAll)
deploy_logrotate == Begin("logrotate", "rotate", "none", KeepAll)
deploy_production_backup ==
    \E at \in {"script", "drop_cron"} : Begin("production_backup", at, "none", KeepAll)

\* write_atomic, then the next file or command.
Writes(at, file, next) ==
    /\ InDeploy(at)
    /\ artifacts' = artifacts \cup {file}
    /\ next
    /\ UNCHANGED <<crontab, unit, deploys, userEdits>>

\* install_systemd: the validated configuration, the unit file, daemon-reload ...
WriteUnit == "config" \in artifacts /\ Writes("unit", "systemd_unit", MovesTo("enable"))

\* ... enable, start.
EnableUnit ==
    /\ InDeploy("enable")
    /\ unit' = [unit EXCEPT !.enabled = TRUE]
    /\ MovesTo("start")
    /\ UNCHANGED <<crontab, artifacts, deploys, userEdits>>

StartUnit ==
    /\ InDeploy("start")
    /\ unit' = [unit EXCEPT !.running = TRUE]
    /\ DeployReports("installed")
    /\ UNCHANGED <<crontab, artifacts, deploys, userEdits>>

\* install_logrotate: written, then checked by logrotate; a failed check leaves it.
install_logrotate == Writes("rotate", "logrotate", \E r \in {"installed", "failed"} : DeployReports(r))

WriteBackupScript == Writes("script", "backup_script", MovesTo("schedule"))
WriteProductionCron == Writes("schedule", "production_cron", DeployReports("installed"))

\* remove_known_file: a file that is not there is removed already.
Removes(at, files, next) ==
    /\ InDeploy(at)
    /\ artifacts' = artifacts \ files
    /\ next
    /\ UNCHANGED <<crontab, unit, deploys, userEdits>>

RemoveProductionCron == Removes("drop_cron", {"production_cron"}, MovesTo("drop_script"))
RemoveBackupScript == Removes("drop_script", {"backup_script"}, DeployReports("removed"))

(***************************************************************************)
(* uninstall.                                                              *)
(***************************************************************************)

uninstall == \E keep \in Keeps : Begin("uninstall", "stop", "none", keep)

\* Defect: a service that could not be stopped does not stop the uninstall.
StopIgnored ==
    /\ InDeploy("stop")
    /\ MovesTo(IF deployment.keep.deploy_artifacts THEN "config" ELSE "drop_unit")
    /\ UNCHANGED <<crontab, artifacts, unit, deploys, userEdits>>

\* stop_owned_service: disable --now; a service that is not there is stopped.
stop_owned_service ==
    /\ InDeploy("stop")
    /\ unit' = [enabled |-> FALSE, running |-> FALSE]
    /\ MovesTo(IF deployment.keep.deploy_artifacts THEN "config" ELSE "drop_unit")
    /\ UNCHANGED <<crontab, artifacts, deploys, userEdits>>

RemoveUnit == Removes("drop_unit", {"systemd_unit"}, MovesTo("drop_rotate"))
RemoveLogrotate == Removes("drop_rotate", {"logrotate"}, MovesTo("drop_schedule"))
RemoveSchedule == Removes("drop_schedule", {"production_cron"}, MovesTo("drop_wrapper"))
RemoveWrapper == Removes("drop_wrapper", {"backup_script"}, MovesTo("list"))

DaemonReload ==
    /\ InDeploy("daemon_reload")
    /\ MovesTo("config")
    /\ UNCHANGED <<crontab, artifacts, unit, deploys, userEdits>>

RemoveConfig ==
    Removes("config", IF deployment.keep.config THEN {} ELSE {"config"}, MovesTo("env"))
RemoveEnv == Removes("env", IF deployment.keep.config THEN {} ELSE {"env"}, MovesTo("data"))

\* remove_owned_tree may fail with part of the tree gone; the directory remains.
remove_owned_tree ==
    Removes("data", IF deployment.keep.data THEN {} ELSE {"data"}, MovesTo("binary"))

\* The binary goes last; the targets that still exist are the leftovers.
Leftovers(files) == files \cap (SystemFiles \cup {"binary", "config", "data"})
RemoveBinary ==
    /\ InDeploy("binary")
    /\ artifacts' = artifacts \ {"binary"}
    /\ DeployReports(IF Leftovers(artifacts') = {} THEN "completed" ELSE "leftovers")
    /\ UNCHANGED <<crontab, unit, deploys, userEdits>>

DeploymentNext ==
    \/ deploy_cron \/ deploy_backup_cron \/ deploy_systemd \/ deploy_logrotate
    \/ deploy_production_backup \/ uninstall
    \/ ListCrontab \/ ListingFails \/ install_cron_block \/ uninstall_cron_blocks \/ UserEditsCrontab
    \/ WriteUnit \/ EnableUnit \/ StartUnit \/ install_logrotate
    \/ WriteBackupScript \/ WriteProductionCron \/ RemoveProductionCron \/ RemoveBackupScript
    \/ stop_owned_service \/ RemoveUnit \/ RemoveLogrotate \/ RemoveSchedule \/ RemoveWrapper \/ DaemonReload
    \/ RemoveConfig \/ RemoveEnv \/ remove_owned_tree \/ RemoveBinary \/ StopsAt

DeploymentSpec == DeploymentInit /\ [][DeploymentNext]_deploymentVars

(***************************************************************************)
(* Properties.                                                             *)
(***************************************************************************)

\* A service that systemd would start has its unit file and its binary, and an
\* uninstall that reports the known targets absent leaves neither behind, nor the
\* configuration: a command that stopped half way is finished by the next one,
\* whatever was left.
NoOrphanedService ==
    /\ unit.enabled => {"systemd_unit", "binary"} \subseteq artifacts
    /\ told = "completed" => artifacts \cap {"systemd_unit", "binary", "config", "data"} = {}

\* docs/deployment.md: `deploy cron --uninstall` strips "the `# BEGIN EggPool
\* watchdog` block".  Removing or installing one schedule keeps the other.
OtherScheduleStays ==
    [][(told' # told /\ deployment.kind \in {"cron_install", "cron_uninstall"})
           => \A block \in ManagedBlocks \ {deployment.block} :
                  block \in crontab => block \in crontab']_deploymentVars
=============================================================================
