-------------------------- MODULE UpdateTransition --------------------------
(***************************************************************************)
(* `eggpool update`: the command (runtime.rs, update) takes the update     *)
(* lock, stops the server, changes the installed release and starts the    *)
(* server again.  A package installation is changed by its manager (uv,    *)
(* pipx, pip) and rolled back by the manager                               *)
(* (PackageTransitionService::transition); a standalone binary is replaced *)
(* by two renames (replace_executable).                                    *)
(*                                                                         *)
(* A release is a member of Releases; the file at the executable path      *)
(* holds a release, a Broken program or is NoRelease.  Version parsing, URLs, *)
(* redirects, digests and manager arguments decide only whether a step     *)
(* fails, so each is one nondeterministic failure of its step.  The        *)
(* command may be killed between any two steps, and systemd or an operator *)
(* may start the service at any time.  The program image of the running    *)
(* updater follows its inode: after the rename it is the rollback file,    *)
(* after the manager has unlinked it there is none.                        *)
(***************************************************************************)
EXTENDS Naturals, FiniteSets

CONSTANTS
    Releases,     \* the releases a machine may hold
    NoRelease,       \* no file
    Broken,       \* a file that fails its self-check
    MaxUpdates    \* bound on the commands issued

VARIABLES
    install,   \* the executable, the files beside it, and who owns them
    service,   \* the server process and whether systemd manages it
    updlock,   \* .eggpool-update.lock
    updater,   \* the command in progress
    updateReport, \* what the last command told the operator
    updates    \* commands issued

updateVars == <<install, service, updlock, updater, updateReport, updates>>

NoUpdateReport == [is |-> "none", from |-> NoRelease, to |-> NoRelease, wasRunning |-> FALSE]

\* InstallProvenance::detect_with, as far as the transition tells its answers
\* apart; an ambiguous or source installation only reaches Refuse.
InstallOwners == {"package", "standalone"}

\* The states an installation can be in when the command is first used.
UpdateInit ==
    /\ install \in [owner : InstallOwners, exec : Releases,
                    rollback : {NoRelease}, stage : {NoRelease}]
    /\ \E up, systemd \in BOOLEAN :
          service = [up |-> up, systemd |-> systemd,
                     runs |-> IF up THEN install.exec ELSE NoRelease]
    /\ updlock \in {"none", "live", "dead", "aged", "torn"}
    /\ updater = [pc |-> "idle", current |-> NoRelease, target |-> NoRelease,
                  wasRunning |-> FALSE, viaSystemd |-> FALSE, image |-> "exec"]
    /\ updateReport = NoUpdateReport
    /\ updates = 0

UpdateAt(step) == updater.pc = step

To(step) == updater' = [updater EXCEPT !.pc = step]

\* The command returns; TransitionGuard is dropped and removes the lock file.
Return(is) ==
    /\ updateReport' = [is |-> is, from |-> updater.current, to |-> updater.target,
                  wasRunning |-> updater.wasRunning]
    /\ updlock' = "none"
    /\ updater' = [updater EXCEPT !.pc = "idle"]

\* UpdateLock::acquire and recover_stale_lock: a missing lock is created, one
\* whose recorded process is gone, or that is over an hour old, is removed and
\* created again; one that cannot be parsed is never recovered, since its age
\* is read from the record.
LockIsFree == updlock \in {"none", "dead", "aged"}

\* runtime.rs update, up to the stop: the target is resolved and differs from
\* the installed version, the guard is taken and the running server noticed.
BeginUpdate(t) ==
    /\ UpdateAt("idle") /\ updates < MaxUpdates
    /\ install.exec \in Releases /\ t # install.exec
    /\ updates' = updates + 1
    /\ updateReport' = NoUpdateReport
    /\ IF LockIsFree
       THEN /\ updlock' = "own"
            /\ updater' = [pc |-> IF service.up THEN "stop" ELSE "change",
                           current |-> install.exec, target |-> t,
                           wasRunning |-> service.up,
                           viaSystemd |-> service.up /\ service.systemd,
                           image |-> "exec"]
       ELSE UNCHANGED <<updlock, updater>>
    /\ UNCHANGED <<install, service>>

Down(s) == [s EXCEPT !.up = FALSE, !.runs = NoRelease]

\* lifecycle::stop under `update`: SIGTERM and a wait of ten seconds; any
\* failure ends the command.
StopServer ==
    /\ UpdateAt("stop") /\ ~updater.viaSystemd
    /\ \/ service' = Down(service) /\ To("change") /\ UNCHANGED <<updlock, updateReport>>
       \/ UNCHANGED service /\ Return("stop_failed")
    /\ UNCHANGED <<install, updates>>

\* systemctl stop; a failed or timed-out systemctl ends the command.
SystemctlStop ==
    /\ UpdateAt("stop") /\ updater.viaSystemd
    /\ \/ service' = Down(service) /\ To("poll") /\ UNCHANGED <<updlock, updateReport>>
       \/ service' \in {service, Down(service)} /\ Return("stop_failed")
    /\ UNCHANGED <<install, updates>>

\* One poll of stop_systemd_service: the loop returns as soon as the state it
\* reads is NOT the stopped one (or cannot be read), polls again otherwise,
\* and reports a service that did not stop once the ten seconds are over.
PollStopped ==
    /\ UpdateAt("poll")
    /\ \/ To("change") /\ UNCHANGED <<updlock, updateReport>>
       \/ ~service.up /\ Return("did_not_stop")
    /\ UNCHANGED <<install, service, updates>>

\* self_check: `version` of the file answers with the release; it may also time
\* out, which every caller adds as an alternative.
SelfChecks(file, release) == file = release

\* What the executable path may hold after run_manager: the manager is an
\* external program, killed after five minutes or 64 KiB of output.
AfterManager == Releases \cup {Broken, NoRelease}

\* The bytes ReleaseClient::resolve and download return: the published asset
\* with the published digest, which may still not run here.
Artifact == {updater.target, Broken}

\* An error before anything was changed: incompatible target, ambiguous or
\* source installation, no artifact, failed download, no manager.
Refuse ==
    /\ UpdateAt("change")
    /\ To("fail")
    /\ UNCHANGED <<install, service, updlock, updateReport, updates>>

\* run_manager for the target: a success is verified next, a failure after the
\* manager was started may have changed the installation and is rolled back.
\* The manager unlinks the program the updater runs.
RunManager ==
    /\ UpdateAt("change") /\ install.owner = "package"
    /\ \E found \in AfterManager, next \in {"verify", "rollback"} :
          /\ install' = [install EXCEPT !.exec = found]
          /\ updater' = [updater EXCEPT !.pc = next, !.image = "unlinked"]
    /\ UNCHANGED <<service, updlock, updateReport, updates>>

\* verify_package_install: the observed release must be the target, answer
\* `version` and accept the configuration; otherwise roll back.
VerifyPackage ==
    /\ UpdateAt("verify")
    /\ \/ SelfChecks(install.exec, updater.target)
          /\ To(IF updater.wasRunning THEN "restart" ELSE "commit")
       \/ To("rollback")
    /\ UNCHANGED <<install, service, updlock, updateReport, updates>>

\* rollback_after_mutation up to its verification: the previous release is
\* installed by the same manager, or the rollback fails.
RollBack ==
    /\ UpdateAt("rollback")
    /\ \E found \in AfterManager :
          /\ install' = [install EXCEPT !.exec = found]
          /\ \/ SelfChecks(found, updater.current)
                /\ To(IF updater.wasRunning THEN "restore" ELSE "fail")
             \/ To("rollback_failed")
    /\ UNCHANGED <<service, updlock, updateReport, updates>>

\* replace_executable: the verified bytes are written beside the executable
\* and must answer `version`; a failure removes the stage.
StageArtifact ==
    /\ UpdateAt("change") /\ install.owner = "standalone"
    /\ \E bytes \in Artifact :
          install' = [install EXCEPT !.stage = bytes]
    /\ To("staged")
    /\ UNCHANGED <<service, updlock, updateReport, updates>>

\* self_check of the stage, then the executable is renamed to the rollback
\* file; the updater's own image moves with it.
MoveAside ==
    /\ UpdateAt("staged")
    /\ \/ /\ SelfChecks(install.stage, updater.target)
          /\ install' = [install EXCEPT !.rollback = install.exec, !.exec = NoRelease]
          /\ updater' = [updater EXCEPT !.pc = "moved", !.image = "rollback"]
       \/ install' = [install EXCEPT !.stage = NoRelease] /\ To("fail")
    /\ UNCHANGED <<service, updlock, updateReport, updates>>

\* The rollback file is renamed back over a removed executable; the rename
\* itself may fail.
Restored ==
    \/ install' = [install EXCEPT !.exec = install.rollback, !.rollback = NoRelease, !.stage = NoRelease]
    \/ install' = [install EXCEPT !.exec = NoRelease, !.stage = NoRelease]

\* The stage is renamed to the executable; a failure renames the rollback back.
MoveIn ==
    /\ UpdateAt("moved")
    /\ \/ install' = [install EXCEPT !.exec = install.stage, !.stage = NoRelease] /\ To("recheck")
       \/ Restored /\ To("fail")
    /\ UNCHANGED <<service, updlock, updateReport, updates>>

\* self_check of the executable in place; a failure restores the rollback.
Recheck ==
    /\ UpdateAt("recheck")
    /\ \/ /\ SelfChecks(install.exec, updater.target)
          /\ To(IF updater.wasRunning THEN "restart" ELSE "commit")
          /\ UNCHANGED install
       \/ Restored /\ To("fail")
    /\ UNCHANGED <<service, updlock, updateReport, updates>>

\* What a fresh server would run: systemd starts the executable path, the
\* updater spawns its own image (env::current_exe).
Spawned ==
    CASE updater.viaSystemd        -> install.exec
      [] updater.image = "exec"     -> install.exec
      [] updater.image = "rollback" -> install.rollback
      [] OTHER                      -> NoRelease

Started == service' = [service EXCEPT !.up = TRUE, !.runs = Spawned]

\* The restart closure succeeds only if there is a program to start; it may
\* fail after the server came up (health not confirmed) or before.
RestartFails == service' \in {service, Down(service)} \/ (Spawned \in Releases /\ Started)

\* Defect: the rollback file is removed before the restart is known to work.
RestartServerUnkept ==
    /\ UpdateAt("restart")
    /\ \/ Spawned \in Releases /\ Started /\ To("commit") /\ UNCHANGED install
       \/ /\ RestartFails
          /\ IF install.owner = "package"
             THEN To("rollback") /\ UNCHANGED install
             ELSE install' = [install EXCEPT !.rollback = NoRelease] /\ To("fail")
    /\ UNCHANGED <<updlock, updateReport, updates>>

\* The server is started on the new release; a failure rolls the release back.
RestartServer ==
    /\ UpdateAt("restart")
    /\ \/ Spawned \in Releases /\ Started /\ To("commit") /\ UNCHANGED install
       \/ /\ RestartFails
          /\ IF install.owner = "package"
             THEN To("rollback") /\ UNCHANGED install
             ELSE Restored /\ To("fail")
    /\ UNCHANGED <<updlock, updateReport, updates>>

\* The restart at the end of rollback_after_mutation.
RestartRolledBack ==
    /\ UpdateAt("restore")
    /\ \/ Spawned \in Releases /\ Started /\ To("fail")
       \/ RestartFails /\ To("rollback_failed")
    /\ UNCHANGED <<install, updlock, updateReport, updates>>

\* The rollback and stage files are removed and success is reported.
CommitUpdate ==
    /\ UpdateAt("commit")
    /\ install' = [install EXCEPT !.rollback = NoRelease, !.stage = NoRelease]
    /\ Return("updated")
    /\ UNCHANGED <<service, updates>>

\* Every error of the transition: the command tries to start the server it
\* had stopped (any failure of that is ignored) and reports the error.
FailUpdate ==
    /\ updater.pc \in {"fail", "rollback_failed"}
    /\ \/ updater.wasRunning /\ ((Spawned \in Releases /\ Started) \/ RestartFails)
       \/ ~updater.wasRunning /\ UNCHANGED service
    /\ Return(IF UpdateAt("fail") THEN "failed" ELSE "rollback_failed")
    /\ UNCHANGED <<install, updates>>

\* The command is killed: its lock stays, recording a process that is gone.
KillUpdater ==
    /\ ~UpdateAt("idle")
    /\ updateReport' = [is |-> "killed", from |-> updater.current, to |-> updater.target,
                  wasRunning |-> updater.wasRunning]
    /\ updlock' = "dead"
    /\ updater' = [updater EXCEPT !.pc = "idle"]
    /\ UNCHANGED <<install, service, updates>>

\* systemd, a watchdog or an operator starts the installed release.
ServiceStarts ==
    /\ ~service.up /\ install.exec \in Releases
    /\ service' = [service EXCEPT !.up = TRUE, !.runs = install.exec]
    /\ UNCHANGED <<install, updlock, updater, updateReport, updates>>

\* The other updater that held the lock returns.
OtherUpdaterEnds ==
    /\ updlock = "live"
    /\ updlock' = "none"
    /\ UNCHANGED <<install, service, updater, updateReport, updates>>

UpdateNext ==
    \/ \E t \in Releases : BeginUpdate(t)
    \/ StopServer \/ SystemctlStop \/ PollStopped \/ Refuse
    \/ RunManager \/ VerifyPackage \/ RollBack
    \/ StageArtifact \/ MoveAside \/ MoveIn \/ Recheck
    \/ RestartServer \/ RestartRolledBack \/ CommitUpdate \/ FailUpdate
    \/ KillUpdater \/ ServiceStarts \/ OtherUpdaterEnds

UpdateSpec == UpdateInit /\ [][UpdateNext]_updateVars

-----------------------------------------------------------------------------
\* An update never loses the release it replaces: success is reported only
\* with the target at the executable path; after any other failure, the ones
\* whose rollback failed aside, the previous release is still at the
\* executable path or in the rollback file; and a standalone replacement that
\* is killed at any step leaves it in one of the two as well.
ReleaseSurvives ==
    /\ updateReport.is = "updated" => install.exec = updateReport.to
    /\ updateReport.is \in {"failed", "stop_failed", "did_not_stop"} =>
          updateReport.from \in {install.exec, install.rollback}
    /\ install.owner = "standalone" /\ (updateReport.is = "killed" \/ ~UpdateAt("idle")) =>
          (IF UpdateAt("idle") THEN updateReport.from ELSE updater.current)
             \in {install.exec, install.rollback}

\* "systemd service did not stop within 10s; package mutation was not
\* attempted" (runtime.rs, stop_systemd_service): the error is about a service
\* that is still up (only the next update stops it again).
StopTimeoutIsReal ==
    updateReport.is = "did_not_stop" => service.up
=============================================================================
